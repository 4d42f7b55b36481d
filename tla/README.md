# A formal model of ffuf

This directory models the core of ffuf (a web fuzzer written in Go) in TLA+,
checks the models with TLC and proves their main invariants with TLAPS. Paths
below are relative to `src/`.

## The system

ffuf takes a request template and word lists, sends one request per input, and
reports the responses that pass its matchers and filters. While it runs, a user
can pause it, change its filters, inspect and edit its job queue, restart or
skip a job. Everything that makes this hard is in how its goroutines share
state:

| component | source | state | operations | what makes it correct |
|---|---|---|---|---|
| pause gate | `pkg/engine/job.go` | `paused`, two mutexes, `running` | `Pause`, `Resume`, `pauseCheckpoint`, `Stop` | no fatal unlock, no stranded goroutine, open for good after a stop |
| execution engine | `pkg/engine/job.go` | run flags, counter, active job | `Start`, `Reset`, the main loop, `runTask`, `runBackgroundTasks` | inputs in order and complete, jobs do not overlap, halts take effect, the run ends |
| job queue | `pkg/engine/jobqueue.go` | job list, position | push, hasNext, advance, remaining, removeAt | no pending job lost, the past never changes |
| recursion | `pkg/engine/recursion.go` | none of its own | greedy and default strategy | depth limit, job built from its parent's response |
| stop conditions | `pkg/engine/job.go` | error and status counters | `CheckStop`, the counting in `runTask` | a hopeless target is given up, a good one is not |
| console | `pkg/interactive/termhandler.go` | its own `paused` | ENTER, resume, restart, queuedel, queueskip, filters, rate, show | agrees with the job about being paused; acts on what it showed |
| input providers | `pkg/input` | positions | `Next`, `Value`, `Position`, `SetPosition`, `Reset`, keyword activation | every combination once; a position names the same payload everywhere |
| results and output | `pkg/output/stdout.go` | collected results, `paused`, pending count | `Result`, `Cycle`, `Reset`, `SetPaused`, filtering | no match lost or held twice; the pending count is about this pause |
| matchers and filters | `pkg/filter` | global and per-host filter sets | match decision, add, replace, remove | a filter in force is one that was asked for or learned, where it belongs |
| autocalibration | `pkg/engine/autocalibration.go` | `calibMutex`, calibrated hosts | calibrate the run, or each host | once, and before the first verdict it is for |
| HTTP runner | `pkg/runner/simple.go` | lanes, variables of chains | `Execute`, preflights, postflights, retries | a lane has one borrower; a request has what its chain captured, or is not sent |
| rate limiting | `pkg/engine/rate.go` | ticker, ring of timestamps | `Tick`, `ChangeRate` | all traffic is metered, the ticker lives, nobody starves |
| requests and configuration | `pkg/ffuf/request.go`, `optionsparser.go` | `ConfigOptions`, `Config` | parse, merge, check, sniper and recursion requests | command line over file, a scan that starts can run, one place per sniper job |
| history | `pkg/engine/history.go` | files on disk | write entry, search by FFUFHASH | a hash leads back to the request |
| program start | `main.go`, `pkg/assembly`, `pkg/ffuf/flags.go` | none of its own | parse, `-config`, `-search`, build, start | the steps above in order, whatever kills it |
| output files, scraper, help, test target | `pkg/output/file_*.go`, `pkg/scraper`, `help.go`, `pkg/testtarget` | none | formatting, extraction, printing | not modelled: no control of their own |

How they interact: the main goroutine (`Job.Start`) takes jobs from the queue,
advances the input and starts one goroutine per request under a limiter of
`Config.Threads`; request goroutines push recursion jobs, update counters, add
calibration filters and hand results to the output; a progress goroutine runs
beside them inside the same wait group; the console goroutine, alive before
`Job.Start` runs, pauses, resumes, resets and edits all of this; the signal
monitor stops the job from a goroutine of its own.

## What is hard here

- Six kinds of goroutines share the flags of `Job`, the queue, the input
  position, the filters and the result lists. Each access is locked or atomic;
  what can go wrong lies between two accesses.
- The pause gate is built from two mutexes and two flags, and is opened and
  closed by three goroutines. A wrong order is fatal in Go (unlock of an
  unlocked mutex) or strands every worker.
- The end of a job waits for goroutines that themselves wait for the gate, the
  limiter and the end of the job.
- Console commands (restart, queuedel, filters) hit the main loop at any line.
- Ends come from many sides: input exhausted, a stop condition, a time limit,
  queueskip, SIGINT.
- Counters are divided by each other while responses are in flight, and some
  of them survive a job.
- A request is a chain of requests that share sessions (lanes), may fail at any
  step and are tried again, and all of them wait for one ticker.
- Calibration holds a mutex over network requests, and changes filters that
  the console changes too.
- Options come from two files and a command line that may be parsed twice, and
  history entries are written by processes that may be killed.

Every such place is listed under `hazards` in `PROJECT.json` with its line and
the properties that guard it.

## Modules

| module | models | grain |
|---|---|---|
| `PauseGate` | `Pause`, `Resume`, `pauseCheckpoint`, `Stop` with console, signal monitor, main goroutine and workers | one step per mutex operation or atomic access |
| `PauseContract` | what `PauseGate` promises: a gate that is closed, opened, waited at, and stays open after a stop | one step per call |
| `JobQueue` | the methods of `jobQueue` as operators | one critical section each |
| `Engine` (extends `JobQueue`) | `Start`, `Reset`, main loop, `runTask`, `runBackgroundTasks`, recursion, console, SIGINT | one step per access to shared state |
| `RunContract` | what `Engine` promises: jobs taken in order and one at a time, the inputs of each in order, one late request, none pending at the end | one step per job, request or answer |
| `StopConditions` | the counters of `runTask` and the limits of `CheckStop` over several jobs and restarts from the console | one step per request event, two per reset |
| `InputProvider` | `MainInputProvider` with its word lists: `Next`, `Value`, `Reset`, `SetPosition`, keyword activation | one step per critical section of `inputMutex` |
| `ResultStore` | `Stdoutput` with its callers: `Result`, `Cycle`, `Reset`, `SetPaused`, the filter commands | one step per critical section of `resultMutex` |
| `Runner` | `runPreflights`, `Execute`, `runPostflights`, the lane pool, retries, `RateThrottle` and the `rate` command | one step per wait, request of a chain or critical section |
| `Calibration` | `CalibrateIfNeeded`, both calibrations, `calibrateFilters`, `MatcherManager` with its per-host maps, the filter commands | one step per request or change of the filters |
| `Requests` | `BaseRequest`, `RecursionRequest`, sniper requests and their template signs, as operators on token sequences | |
| `Startup` (extends `Requests`) | `main.go`, `ParseFlags`, `ConfigFromOptions`, `SetupFilters`, `BuildJob`, the start of `Start`, history entries and `-search` | one step per file or stage, for several processes |
| `MCEngine`, `MCResults`, `MCCalibration`, `MCStartup` | symmetry, responses, command lines and files for TLC | |
| `PauseGateProofs`, `EngineProofs`, `StopProofs`, `RunnerProofs`, `CalibrationProofs`, `ResultProofs`, `InputProofs`, `StartupProofs` | theorems | |

**PauseGate.** `running` and `paused` are the fields of `Job`; `stateOwner` is
the holder of `pauseStateMutex`; `writer` is the write side of `pauseMutex`, a
Go `RWMutex`: a pending `Lock` blocks new readers and waits for those inside,
`Unlock` admits all blocked readers. `pc` holds each goroutine's place.
`consolePaused` is the console's own flag. The main goroutine is also a visitor
of the gate, because the main loop calls `pauseCheckpoint`.

**PauseContract.** `closed`, `waiting` and `phase`. `PauseGate` maps `closed`
to `writer # "none"` and `waiting` to the goroutines blocked in `RLock`. Every
other model takes the gate at this grain: one boolean `closed`.

**JobQueue, Engine.** `main` says which line of `Start` and `startExecution`
comes next. `queue` is the list and position of `jobQueue`; `hasNext` and
`advance` are separate steps, as are the index check of `deleteQueue` and the
deletion. `tasks` has one record per limiter slot: the goroutine is preparing,
executing (an error sends it back once), at the checkpoint, or deciding.
A job is known by its base request and by the inputs whose matches led to it
(`via`), and not by its URL, which may be the same for two jobs: nothing in the
code compares the URLs of jobs. `position` and `cursor` are the two counters that `Input.Next` and
`Input.Value` move under separate locks. `progress` is the goroutine of
`runBackgroundTasks`, a member of the wait group. Which stop condition fires is
open in `Engine` (`CheckStop` may stop the run or end the job whenever the
option allows it) and decided in `StopConditions`. Matching is open too: a
response is matched or not, and a directory or not.

**RunContract.** `phase`, the jobs `taken` and `pending`, the inputs sent
(`words`) and the requests `inFlight`, with `running`, `halted` and `late` for
what ends a job early. `Engine` maps `taken` and `pending` to the two sides of
the queue position, `words` to its history, `inFlight` to the slots in use and
`phase` to groups of lines of the main goroutine; counters, gate, progress
goroutine and console are its own business. Unless the user may restart a job,
a job leaves with every input sent or halted. With restarts, which may fall
after the last input, the contract promises less: no word is passed over from
the second on, and at most one request more than the list is long.

**StopConditions.** Requests are counted, not named: `fresh` are in flight for
the first time, `retried` for the second. The ratios 0.95 and 0.2 are compared
as integers. `position` counts the inputs drawn and `counter` the requests of
`Job.counter`: both are set back by `Reset`, one after the other, which the main
goroutine calls between jobs (`NextJob`, nothing else moves then) and the
console's restart in the middle of one (`RestartInput` and `RestartCounter`, two
steps, with the main loop and requests in flight anywhere between them). Neither
touches the error and status counters. `dispatched`, `answered`, `forbidden` and
`limited` are history: the requests and responses of the current job, over its
restarts, which the code does not count. The progress goroutine, which a restart
may keep alive for ever, is in `Engine`.

**InputProvider.** The mode and the lengths of the lists are chosen initially.
A word is its index. `clusterbombValue` is the code's scan with its carry
(`signalNext`) and its restart after the most significant list moved
(`msbIterator`); the pass over the providers is the function `scan`, and the
passes that start over are `retried`. `Combination(k)` is the definition that it
is compared with, the k-th number in a mixed radix (`combinations[p]` is how many
values the first p lists have together). `SetPosition` is evaluated on a fresh
provider, as `-search` does; `drawn[n]` is that provider after n values.

**ResultStore.** A response has a size and is slow or not; it has passed the
matchers. `filters` holds a size filter and a time filter. A worker passes the
checkpoint, decides (`FilteredOut`, the filter part of `Matches`), records
under the lock, and prints after it. Console commands that make several calls
take several steps: ENTER is `SetPaused(true)` then `Pause`; resume and restart
are followed by `SetPaused(false)` then `Resume`; a filter command by the
refresh of the held matches. The copy of the filters that the refresh takes is
merged with the refresh, since the console alone changes them here
(autocalibration, which also does, comes before the first match of a host).

**Runner.** `task` has one record per place of the thread limiter: the place in
the code (`at`), the chain and its step, the attempt, the borrowed lane (0 for
none) and the variables in use. `lanes` are all lanes ever made, `free` the
stack of `lanePool`; per-request mode borrows none. Variables are known by the
steps that captured one (`got`), by whether a value would move the request to
another host (`moves`), and by the lane they belong to (`from`, a history
variable). An error in a chain follows `-preflight-error`. `tick` is the
ticker's channel, which holds one tick; the main loop and every step of a chain
receive from it. `filled` counts the entries of the ring.

**Calibration.** A response is a record of size, words and lines; `global` and
`domain` are the filter maps of `MatcherManager`, a kind without values is not
in the map. A key of `domain` (`Hosts`) is what `HostURLFromRequest` returns, host
and directory of a URL. It depends on what the keyword leaves of the request
(`Bases`) and on what the payload puts in its place (`Parts`): a payload with a
slash names another directory. A calibration request is the request of the
response with a string of a strategy as payload (`Key`), so it keeps the base and
may have another host. Calibrating the answer to `admin/` sends its requests to
the directory above and puts what it learns into the filters of that one, which
may be calibrated already. `holder` is `calibMutex`. `calibrateFilters`
takes two steps, its look at the filters and the filter it adds, because the
console may act in between. `learned` (history) are the answers a calibration
derived a filter from, or found filtered.

**Requests, Startup.** A text is a sequence of tokens, so that template signs
and keywords have positions and nothing else is spelled out. A command line is
a sequence of flags; options are functions from the fields of `ConfigOptions`.
Errors of the option parser are a set of names: the order of the checks does
not change whether the program stops. A process may be killed before each of
its steps; `WriteHistoryEntry` is two steps, the directory and the options in
it. Recursion is one level deep. `noted` (history) is what a user knows of the
requests that carried a hash. A process that searches starts from a hash noted
by any scan, in a working directory of its own.

Definitions marked "Faulty" are plausible bugs; `PROJECT.json` pairs each
property with one that breaks it.

## What the runs check

| run | instance | question |
|---|---|---|
| `PauseGate` | 2 workers, console, signal, main | no interleaving strands a goroutine or unlocks an unlocked mutex (`GateSound`, `WaitersFreed`); the gate implements `PauseContract` |
| `EngineRun` | 2 slots, 2 inputs, default recursion to depth 1, stops, time limit, 2 commands of pause and queueskip | inputs are sent in order and completely (`PassInOrder`), a halt takes effect after at most one more request, the run ends; the engine implements `RunContract` |
| `EngineQueue` | 2 slots, 2 inputs, greedy recursion, 1 command of queuedel and restart | jobs take turns and none is lost (`JobsInTurn`), the queue keeps its past and the depth limit (`RecursionSound`), a restarted pass skips no word; the engine implements `RunContract` |
| `StopLimits` | 1 thread, 22 inputs, 2 jobs, 3 first samples, `-sa`, 1 restart within the first 3 requests of a job, answers 403 and 429 | the counters fit the requests; a target that answers only 403, or nothing, is given up in bounded time; as long as nothing has reset the counter, a stop has the share of responses it names |
| `InputOrder` | 3 lists of 1 to 3 words, both kinds of modes, 2 jobs, 2 resets | every combination once and in its place, whatever was drawn before a reset, and `-search` finds it |
| `Results` | 2 slots, 3 requests, 2 sizes, 2 jobs, 3 commands | no match is lost, doubled, or counted for the wrong pause; late goroutines are bounded |
| `Runner` | 2 threads, 2 preflights, 1 postflight, both modes of sharing and of errors, 2 requests, 1 change of the rate (none, or above a million) | lanes are neither shared nor lost, aborted chains send nothing, all traffic is metered, every request ends |
| `Calibration` | 2 threads, 3 directories of a site, 2 bases, payloads and strings with and without a directory, 2 groups of 2 strings, 3 answers, a console filter at any time | one calibration, before the verdicts it is for; its findings stay in force where the answers came from; a calibrated host changes only through the calibration of another; nobody waits for ever |
| `Startup` | 3 processes (one with 21 command lines, one scan, one search), 2 files, 2 hash digits, kills | options are merged as documented, a scan that starts can run, a sniper job has one place, a hash leads back to its request |
| `EngineRestartHang` | 1 slot, restart | violated: see below |
| `EngineDeletePanic` | 1 slot, queuedel | violated: see below |
| `StopSecondJob` | 1 thread, `-sf`, 2 jobs | violated: see below |

Why the bounds are enough to be interesting. Two slots let one goroutine be
anywhere while another moves; with a third the steps of the first two repeat.
Two inputs are the fewest for which order, overshoot and completeness differ;
a recursion job per match fills the queue while the console deletes from it.
Depth 1 reaches the limit from the base job. In `StopLimits` the 403 limit
bites at twenty times the threads, so 22 inputs reach it with one thread; the
code's constant 50 for the first samples is a parameter. Of the answers, 429
stands for what is not a 403 and 403 for what is not a 429. The restart falls
before, at and after each line of the main loop, with a request in flight or
none, on its first or second attempt; where in the job it falls is bounded
(`RestartsWithin`), and any pass after it may run to the limits. Three lists are the
fewest with a list between the first and the last, and list lengths of one are
included, where a carry passes through. Three requests over two slots let a
slot be used twice, which the bounds on late goroutines need. In `Runner` two
preflights are the fewest with a step after the first and before the last; two
requests over two threads, each tried twice, return and borrow a lane again
after a failure. In `Calibration` the run is at the root of a site and, in a
recursion job, below its directory `admin`; one group of strings and one payload
name that directory, so a calibration leads to its own host, below it and to the
host above; the three answers agree in every kind, in words and lines, in lines, or in
nothing, and each host may come first or second. In `Startup` every rule of the
option parser that can stop a scan has a command line on either side of it, a
hash digit is shared by entries of two processes, and a search runs in the
directory of the scan or in another.

The bounds on commands, resets and requests are guards of the actions that
count them (`MaxCommands`, `MaxResets`, `MaxRequests`, `MaxJobs`, `MaxTasks`,
`MaxChanges`, `MaxRestarts`, `RestartsWithin`). The console's filters in `Calibration` are bounded by their
values, the restarts in `Startup` by the processes.

Symmetry of slots is used in runs without liveness properties only.

## Fairness

`PauseGate` asks that a goroutine that can take its next step inside `Pause`,
`Resume` or `Stop` does so, that a visitor leaves the checkpoint, and strong
fairness of `pauseStateMutex.Lock`: Go's mutex hands over to a waiter that has
starved for a millisecond. Nobody has to press a key.

`Engine` asks weak fairness of the main goroutine, of each request goroutine,
of the progress goroutine, and of the console in the middle of a command. The
Go scheduler runs every goroutine that can run, and a request ends because the
HTTP client has a timeout. No command and no signal is forced; a retry is
bounded by the code itself. `Terminates` assumes that the console does not
leave the job paused for ever.

`Runner` asks weak fairness of the ticker and of every step of a goroutine
other than taking a tick, and strong fairness of taking a tick: the receivers
of a Go channel wait in a queue, so none is passed over for ever, while a tick
comes and goes between them. Nothing forces a request to fail or to succeed.

`Calibration` asks weak fairness of the steps of each goroutine. Requests are
bounded, so that no goroutine takes `calibMutex` infinitely often and weak
fairness is enough for the others to get it.

The other modules have safety properties only.

## What is proved

For all values of the constants that satisfy the assumptions named in the
modules (`DistinctGoroutines`, `EngineAssumption`: at least one slot, at least
one base job, a depth limit; `StopAssumption`: at least one thread;
`RunnerAssumption`: at least one thread, chains of any length, any rates;
`CalibrationAssumption`: finitely many groups of at least one string, answers
and filters over numbers; `StartupAssumption`: below):

- `PauseGateProofs`: type correctness, `GateSound` and
  `NotPausedBehindConsole`, for any set of workers. The inductive invariant
  `IInv` says who holds `pauseStateMutex` (`HolderHolds`), what the flag and
  the lock are at each line inside it (`HolderKnows`), that a goroutine inside
  `Stop` has cleared `running` before it resumes (`StopOrder`), and what is
  left of a pause after a stop (`AfterStop`). None of the properties is
  inductive alone: they say nothing of the moments inside the mutex.
  `RefinesContract` proves the safety part of the refinement. `CallsEnd`: a call
  has at most six steps, whoever holds `pauseStateMutex` waits for nobody but
  the visitors past the gate, and these only get fewer while a pause waits.
- `EngineProofs`, after lemmas on what `push` and `removeAt` keep of the queue
  before its position and where a deletion moves what is behind it:
  `Overshoot` (from `LateInv`, which follows the main goroutine from the late
  request to the check that ends the job), `TypeCorrect` and `Turns` (from
  `QueueInv`: the active job stays at the position while its loop runs, and
  every live task carries it), `TakenFixed` (`TakenJobsFixed`, an action
  property the contract implies), `Recursion`, `Ordered` (without the restart command, the requests of a job are exactly the
  inputs in order), and `Restarted` (with it, no word is passed over). These
  hold for any number of slots, inputs and jobs and either recursion strategy.
  `RefinesRun` proves the whole refinement, `Spec => ImplementsRun`. Its
  invariant `RunInv` is the conjunction of the invariants above and `FreshInv`
  (a job begins with nothing sent, and what is about to be sent is an input of
  the list); there is one lemma for the steps of the main goroutine, one for a
  request goroutine and one for the console, on lemmas that say what a push, a
  deletion and an advance do to the pending jobs and what a request does to the
  requests in flight and the words sent. `PassEnds` bounds what is left of a
  pass (`Ahead`) and of a request goroutine (`TaskAhead`): each of its own steps
  lowers it, and nothing else raises it but a restart that is typed.
  `OneJobPerInput`: without the restart command an input of a job queues at most
  one job below it, although requests overlap, fail and are tried again. Its
  invariant `OnceInv` keeps the inputs that are still to be sent or in flight
  (`Undecided`) apart from those that have queued a job, and every child's parent
  among the jobs taken. `RecursionEnds` follows: with a depth limit there are
  finitely many sequences of inputs, and no more jobs than sequences. A restart
  sends inputs again, and queues their directories again. Neither theorem says
  that the jobs have different URLs: they need not (see below).
- `StopProofs`: `TypeOK`, `GivesUp` and `FirstPassStopsJustified` for any number of
  threads, inputs, jobs, restarts and first samples. `CountInv` relates the
  counters to the responses and failures of the job: the request counter never
  exceeds the requests dispatched, and is equal to them in the first job until a
  restart; the status counters are those of the responses in the first job.
  `GivesUp` is about the requests since the last reset: counts that survive
  one only stop the next pass sooner.
  `CheckLimits` derives from it that a
  request that `CheckStop` lets through is within the bound, since responses
  lag behind the counter by at most one per thread; `LimitInv` carries the
  bound from the check to the dispatch.
- `RunnerProofs`: all four invariants of `Runner`, for any number of threads,
  chains of any length, any rates and any number of requests. `LanesInv` adds
  to `LanesAccounted` what each lane and task must be for it to be kept: a lane
  whose chain has run holds its own variables, and a goroutine outside of
  chains and sending holds no lane. That the pool never outgrows the threads
  (`NewLaneFits`) is a counting argument: an empty pool has lent all its lanes
  to goroutines other than the one that asks. `CompleteInv` follows what a
  chain has captured step by step and through the lanes. `VolumeInv` gives each
  goroutine the requests it may still send without a tick, two before its first
  attempt, one before its second, one for a chain's request in flight, and
  bounds their sum by the ticks and requests that have been paid for.
  `EveryStepCounts`: what is ahead of a request that was dispatched is bounded,
  and each step of its goroutine lowers it, retries and failed chains included.
- `CalibrationProofs`: the safety properties of `Calibration`, for any number of
  goroutines, hosts, groups and strings, any answers, matchers and filters.
  `CalibInv` says what a goroutine may rely on while it calibrates: it holds
  `calibMutex`, its host or the run is still to be calibrated, and its answers
  come from hosts that the strings lead to from the base of its request
  (`Reached`). The last part is what `VerdictsFromBase` needs, since a filter goes
  to the key of the first answer: a calibrated host is changed by the calibration
  of another host of the same base, and by nothing else. `CountInv` bounds the requests that are still
  ahead by the strings that are left, so that none is made twice.
  `LearnedIsFiltered` and `SizesExplained`, the halves of `FiltersExplained`, are
  each inductive with `CalibInv`; both rest on the copy that a host takes of
  the filters in force. `CalibrationEnds`: `calibMutex` is never held by a
  goroutine that cannot go on, and each of its steps lowers what is left of
  the calibration, which nobody else raises.
- `ResultProofs`: all properties of `ResultStore` for any number of slots,
  requests and jobs and any sizes. `QuietConsole`: while the console is open no
  slot begins to print, so what was late and what is about to print never exceed
  the slots together. `ListsSound` needs `IdsInv` (a response in flight is not in
  a list yet, so no match can be recorded twice), `HeldApart` (the lists of this
  and of earlier jobs share nothing) and `PendingIsNew` through every refresh.
  `MatchesKept` and `FiltersCaughtUp` rest on what a refresh keeps of a list
  (`Kept`, a recursive function): exactly what the filters do not hit, in its
  order. `CaughtInv` bounds the held matches that the size filter hits, and those
  about to be recorded, by the number of slots: none of them was decided after
  the filter was set.
- `InputProofs`: all properties of `InputProvider`, for any number of providers,
  lists of any length, any of them disabled, any jobs and resets. The cursors are
  read as the digits of a number in a mixed radix: `Ready(c, N, j)` says that the
  next value drawn is the N-th, when the cursors below the j-th provider have
  been put back to the start, that one was stepped, and the others stand where
  the value before left them. One turn of the scan keeps it or moves j on
  (`TurnReady`, `ScanReady`), a scan that stops at the most significant list
  hands the next one over to the retry (`StoppedReady`), and as many retries as there are lists are enough, so
  every value of `clusterbombValue` is the combination at its position
  (`ValueInOrder`), whatever was drawn before a reset. `SearchFinds` carries the
  same invariant along `drawn`.

- `StartupProofs`: `TypeOK`, `FitToStart`, `SearchReproduces`,
  `CommandLineWins` and `SniperOnePlaceEach`, for any processes, command lines, files and directories.
  `ScanInv` carries what `ConfigFromOptions` has checked (`ConfInv`) through
  sniper mode and recursion to every job of the queue, which is what
  `FitToStart` says of a job that starts; the matcher is carried from `SetupFilters`
  with the one command line that has none (`MatcherEmptied`). `ReplayInv` relates each entry of the
  history to what was noted of its hash; its step is `Rebuilt`: a configuration
  without errors that is written with the URL of a job and read again has no
  errors and makes the request of that job, because the URL that recursion found
  brings no keyword that was not in use. Hashes are numbered per process, so an
  entry is written once. `WinsInv` follows the two passes over the command line
  flag by flag (`FlightStep`, `OptionStep`) and shows that what they set is
  what `Asked` reads off the line as a whole. `SniperOnePlaceEach` is about
  positions, so tokens may be equal and places empty; it leaves out requests whose
  headers meet (`HeadersApart`: signs in the name and in the value of one, or two
  names that are the same without signs), where the code depends on the order of
  a map. A text without its signs,
  and a text with one place tried, are followed token by token (`ScrubSteps`,
  `TriedSteps`); the code instead finds the signs, injects the keyword between
  two of them and scrubs the rest. `LocationFacts` and `PairFacts` say where the
  signs are, `MovedFacts` where each token goes, and `TriedPair` that both ways
  give the same text. That signs come in pairs is what `templatePresent` has
  checked (`ConfigFacts`), and `SniperNext` that it still holds of the request
  the jobs were made from.

`StartupAssumption` says what the code makes true of the inputs: a search has no
other flag, and no default file asks for one; no file names another
(`ConfigFile` has the tag `toml:"-"`); the keyword of a word list is never the
name of a directory that recursion finds; `FUZZ` is neither that name nor the
template sign; lists, the texts of a request and the names of headers are
sequences. It also leaves out a `-config` flag with an empty value.

These last three modules reason about recursive functions. The induction theorems
of the library take an operator and cannot be used, so induction is stated over
sets (`SetInduction`, `RangeInduction`: a set of numbers that holds the first
and the next of each of its members holds them all), which follows from the
library's fact that every set of naturals has a least element. `Recursion` proves
that a function defined step by step on an interval exists.

Every invariant a run checks, and every action property, is a theorem. Only
model-checked: liveness (`WaitersFreed`, `Terminates`, `TasksEnd`,
`EveryResponseDecided`, the liveness part of `ImplementsContract`), which is
beyond the prover. What it rests on is proved where it can be said without
fairness: `CallsEnd`, `PassEnds`, `EveryStepCounts` and `CalibrationEnds` each
give a number of steps that is bounded and that every step lowers, so no
retry, skip or interleaving makes a call, a pass, a request or a calibration
longer without end. They do not say that the next step is always possible: for
the main loop it is not (`EngineRestartHang`), and for the others only the holder
of `calibMutex` and of `pauseStateMutex` is covered. `RecursionEnds` bounds the
number of passes, without the restart command.

## Where the code and its documents disagree

The first three are shown by a run and quoted in `PROJECT.json`.

1. **Restart at the end of a job** (`EngineRestartHang`). Once every input is
   dispatched the main loop only waits. A restart then zeroes the counter that
   ends the progress goroutine, which is in the wait group: the run neither
   restarts nor ends.
2. **queuedel between `hasNext` and `advance`** (`EngineDeletePanic`). The last
   pending job is deleted in between, and `advance` indexes past the end.
3. **Stop conditions after a reset** (`StopSecondJob`). `Reset` clears the request
   counter and not the 403 and 429 counters, so a later job is stopped for the
   responses of an earlier one. The console's restart calls the same `Reset`
   (`termhandler.go`), and the job that it restarts is stopped for the responses of
   before the restart: of 100 responses 60 are 403, and
   51 requests after the restart 60/51 is more than 95%. The limits are justified
   in the first job and until the first restart (`FirstPassStopsJustified`), and
   only there.

The models keep the following, which follow from a line or two of code and have
no run of their own:

- Default recursion is queued for redirects that the matchers rejected
  (`job.go:579`, against `recursion.go:9` and `38`).
- `-search` in pitchfork mode shows the payload after the one that was sent:
  positions count from 1, `setpitchforkPosition` uses them as cursors
  (`input.go:160`). `SearchFindsCombination` is about clusterbomb mode.
- With `-ach` a host keeps the copy of the filters that its calibration has made
  (`filter.go:189`). A filter set in the console afterwards deletes the matches
  that are held, as `README.md:294` says, and does not reach the responses of
  that host that are still to come.
- A time filter set in the console judges held matches without their duration
  (`termhandler.go:216`): `ft <100` deletes all of them, `ft >100` none.
- `-acc` and `-acs` do not turn calibration on as `README.md:185` says:
  `optionsparser.go:579` writes the value of `-ac` over what lines 521 and 525
  have set. `-ack` never reaches `Config.AutoCalibrationKeyword`
  (`config.go:132`).
- The history entry asks for the filter `words`, which is registered as `word`
  (`history.go:70`), and keeps word lists as they were typed: a search from
  another directory looks for other files. For a sniper job `-search` shows the
  template and not the request.
- Per host only size filters are ever derived, because each answer is compared
  with itself first. They are stored at the host of the calibration request, not
  at the host that is calibrated: what a string with a slash finds goes to the
  directory it names, and the calibration of a response whose payload has a
  directory changes the host above it and leaves its own without a filter
  (`autocalibration.go:67`, `105` and `190`; `VerdictsChangedFromBase` says how far
  this reaches). A calibration whose requests all fail counts
  as one, and without the keyword a host is never calibrated.
- Recursion may queue the same URL more than once: `recUrl` is the URL of the
  request (`recursion.go:29`), which is the same for a word that is in the list
  twice and for inputs that differ in a keyword outside of the URL, and `push`
  compares it with nothing. `OneJobPerInput` is about inputs.
- `-ms ""`, or another matcher flag without a value, starts a scan that has no
  matcher and drops every response: `main.go:166` counts the flag that was passed,
  `filter.FromConfig` adds no matcher for it. `FitToStart` names this case.
- Requests that are tried again, and those of a calibration or a replay proxy,
  take no tick of the limiter (`VolumeBounded` has the first as its slack).
- A word list whose keyword is nowhere is left out with a warning, and a scan
  may start without any.
- ENTER before `Start` has set `running` opens the console, and `Pause` returns
  early: the job runs behind an open console.
- A restart between `Input.Next` and `Input.Value` starts the new pass with a
  position that does not belong to its word; `PassInOrder` is therefore proved
  without restart, and `RestartOvershoot` says what remains true with it.
- `queuedel` checks its index against one reading of the queue and deletes from
  another: when the main goroutine advances in between, the job behind the
  checked one goes. It is always a pending one (`ImplementsRun`, and the theorem `TakenFixed`).
- `resumeJob` reads the pending count before it unpauses: a match recorded in
  between is neither printed nor counted.
- With `-fmode and` the request path drops what all filters hit, the console's
  refresh what any filter hits.
- A filter added while a worker is between its decision and its record leaves
  one stale match per slot (`FiltersCaughtUp` is the bound).

Seen in the code, outside of the models:

- The refresh of held matches with a regular expression filter reads the
  request of a response that has none (`regex.go:43` from
  `termhandler.go:216`).
- `scrubTemplates` leaves a sign when a header has template signs in its name
  and in its value (`request.go:192`, against the comment above it), and one of two
  headers goes when their names are the same without signs; `SniperOnePlaceEach` excludes both (`HeadersApart`). `Prepare` (`simple.go:133`) substitutes keywords in the
  order of a map, so a payload that contains another keyword may be substituted
  again.
- The first start writes only `basic.json`; a process killed while it writes
  leaves a file that no later start writes again.

## Not modelled

- Output files, the scraper and the help text have no control of their own;
  the test target is not part of the program.
- In `runTask`, the replay proxy appears only through the error it can count
  (`StopConditions`), the audit log and the scraper not at all. A response kept
  only for its scraper data is not in `ResultStore`.
- Status and regular-expression filters, ranges of values, and options that
  are copied from the command line to the place where they are printed.
- HTTP: cookies, redirects, bodies and timeouts of the client; a request is
  answered, fails, or moves to another host.
- Disk failures and word lists that end in the middle; JSON and hashes. What
  becomes of headers that `HeadersApart` excludes.
- `RecursionDepth = 0` (no limit), and `Threads = 0`, with which the program
  blocks on its first request. An empty word list.
- Wall-clock time: a time limit is a choice that may fall at any check, and a
  rate is the length of a tick and not a duration.

## Plan

Done: `PauseGate` and `PauseContract`, `JobQueue`, `Engine` and `RunContract`,
`StopConditions`, `InputProvider`, `ResultStore`, `Runner`, `Calibration`,
`Requests` and `Startup`, and the proofs above. Next, most important first:

1. A finer `Decide` in `ResultStore`: matcher ranges and regular expressions.
2. The results of a run in `RunContract`: `Engine` does not keep them,
   `ResultStore` does, and the two are not composed.
