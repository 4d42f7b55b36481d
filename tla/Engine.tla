------------------------------- MODULE Engine -------------------------------
(***************************************************************************)
(* The execution engine of pkg/engine/job.go with its queue and recursion: *)
(* the main goroutine (Start, Reset, startExecution), the request          *)
(* goroutines (runTask), the progress goroutine (runBackgroundTasks), the  *)
(* interactive console (pkg/interactive) and the SIGINT monitor.           *)
(*                                                                         *)
(* The pause gate appears through its contract (PauseContract): it is open *)
(* or closed, Pause closes it while the job runs, Resume and Stop open it. *)
(* The input provider appears as one word list of N words; position and    *)
(* cursor are its two counters.                                            *)
(***************************************************************************)
EXTENDS JobQueue, FiniteSets

CONSTANTS
  Slots,           \* slots of the thread limiter: Config.Threads of them
  N,               \* inputs per job (Input.Total)
  BaseJobs,        \* jobs queued by Start: 1, or one per sniper location
  Strategy,        \* "none", or RecursionStrategy: "greedy", "default"
  RecursionDepth,  \* depth limit (0, unlimited, is left out: it needs no end)
  CanStop,         \* some limit of CheckStop (-se, -sf, -sa, -maxtime) is set
  MaxTimeJob,      \* -maxtime-job is set
  Commands,        \* the console commands the user types
  MaxCommands      \* bound on how many of them

ASSUME EngineAssumption ==
  /\ IsFiniteSet(Slots) /\ Slots # {}
  /\ N \in Nat /\ BaseJobs \in Nat \ {0}
  /\ RecursionDepth \in Nat \ {0}
  /\ Strategy \in {"none", "greedy", "default"}
  /\ CanStop \in BOOLEAN /\ MaxTimeJob \in BOOLEAN
  /\ Commands \subseteq {"pause", "skip", "delete", "restart"}
  /\ MaxCommands \in Nat

VARIABLES
  main,        \* what the main goroutine does next
  queue,       \* Job.queue
  ctx,         \* jobContext: the job prepareQueueJob took from the queue
  running, runningJob, skipQueue,   \* the atomic flags of Job
  counter,     \* Job.counter: requests dispatched for this job
  position,    \* MainInputProvider.position
  cursor,      \* position of the word list
  closed,      \* the pause gate is closed
  input,       \* nextInput and nextPosition of the main loop
  tasks,       \* the request goroutine in each limiter slot
  progress,    \* what the progress goroutine does next
  console,     \* what the console does next, and with which queue entry
  typed,       \* commands typed so far
  sent,        \* history: inputs dispatched since the input was last reset
  late         \* history: dispatches in a row made after the job was halted

flags   == <<running, runningJob, skipQueue>>
inputs  == <<position, cursor>>
jobs    == <<ctx, queue>>
others  == <<tasks, progress, console, typed>>
hist    == <<sent, late>>
vars == <<main, jobs, flags, counter, inputs, closed, input, others, hist>>

\* A job is known by the base request (req) and by the inputs whose matches led
\* to it (via), not by the text of its URL: two jobs may well have the same URL.
\* Start queues the base jobs; sniper jobs share the URL and differ in the
\* request they are built from.
Base(i) == [via |-> <<>>, depth |-> 0, req |-> i]

Idle == [at |-> "idle", index |-> 0]
Free == [at |-> "free", job |-> Base(1), word |-> 0, pos |-> 0,
         retried |-> FALSE]
Live == {s \in Slots : tasks[s].at # "free"}

\* The main loop leaves at its next check of one of the three flags.
Halted == ~running \/ ~runningJob \/ skipQueue

Init == /\ main = "start"
        /\ queue = newJobQueue /\ ctx = Base(1)
        /\ running = FALSE /\ runningJob = FALSE /\ skipQueue = FALSE
        /\ counter = 0 /\ position = 0 /\ cursor = 0
        /\ closed = FALSE
        /\ input = [word |-> 0, pos |-> 0]
        /\ tasks = [s \in Slots |-> Free]
        /\ progress = "off"
        /\ console = Idle /\ typed = 0
        /\ sent = <<>> /\ late = 0

\* What a step that only moves the main goroutine leaves alone.
mainRest == <<jobs, flags, counter, inputs, closed, input, others, hist>>

At(from, to) == main = from /\ main' = to

-----------------------------------------------------------------------------
(* Start *)
Start ==
  /\ At("start", "jobs")
  /\ queue' = [queue EXCEPT !.jobs = [i \in 1..BaseJobs |-> Base(i)]]
  /\ running' = TRUE /\ runningJob' = TRUE
  /\ UNCHANGED <<ctx, skipQueue, counter, inputs, closed, input, others, hist>>

JobsInQueue ==
  /\ At("jobs", IF hasNext(queue) THEN "prepare" ELSE "finalize")
  /\ UNCHANGED mainRest

\* prepareQueueJob: advance panics if a deletion has emptied the queue since
\* hasNext.
PrepareQueueJob ==
  /\ IF advanceInRange(queue)
     THEN /\ At("prepare", "resetInput")
          /\ queue' = advance(queue) /\ ctx' = active(queue')
     ELSE At("prepare", "panicked") /\ UNCHANGED <<queue, ctx>>
  /\ UNCHANGED <<flags, counter, inputs, closed, input, others, hist>>

\* Faulty: Reset forgets the word list.
ResetPositionOnly == position' = 0 /\ sent' = <<>> /\ UNCHANGED cursor

\* Reset: the input under inputMutex, then the counter and the skip flag.
ResetInput == position' = 0 /\ cursor' = 0 /\ sent' = <<>>
ResetCounters == /\ counter' = 0 /\ skipQueue' = FALSE
                 /\ late' = IF running THEN 0 ELSE late

JobReset ==
  \/ /\ At("resetInput", "resetCounters")
     /\ ResetInput
     /\ UNCHANGED <<jobs, flags, counter, closed, input, others, late>>
  \/ /\ At("resetCounters", "begin")
     /\ ResetCounters
     /\ UNCHANGED <<jobs, running, runningJob, inputs, closed, input, others,
                    sent>>

\* setRunningJob(true), then startExecution starts the progress goroutine.
Begin ==
  /\ At("begin", "next")
  /\ runningJob' = TRUE
  /\ progress' = "top"
  /\ UNCHANGED <<jobs, running, skipQueue, counter, inputs, closed, input,
                 tasks, console, typed, hist>>

-----------------------------------------------------------------------------
(* startExecution, the main loop *)
\* Faulty: one input too many.
NextInputTooFar ==
  /\ IF position <= N
     THEN At("next", "skip?") /\ position' = position + 1
     ELSE At("next", "drain") /\ UNCHANGED position
  /\ UNCHANGED <<jobs, flags, counter, cursor, closed, input, others, hist>>

NextInput ==
  /\ IF position < N
     THEN At("next", "skip?") /\ position' = position + 1
     ELSE At("next", "drain") /\ UNCHANGED position
  /\ UNCHANGED <<jobs, flags, counter, cursor, closed, input, others, hist>>

CheckSkip ==
  /\ At("skip?", IF skipQueue THEN "drain" ELSE "checkStop")
  /\ UNCHANGED mainRest

\* CheckStop: which limits are hit is left open; StopConditions decides it.
\* Stop clears running and reopens the gate; Next ends this job only.
CheckStop ==
  /\ At("checkStop", "running?")
  /\ \E stop \in {FALSE, CanStop}, next \in {FALSE, MaxTimeJob} :
       /\ running' = (running /\ ~stop)
       /\ closed' = (closed /\ ~stop)
       /\ runningJob' = (runningJob /\ ~next)
  /\ UNCHANGED <<jobs, skipQueue, counter, inputs, input, others, hist>>

\* Faulty: the loop asks for stop conditions but not whether it was stopped.
RunningUnchecked == At("running?", "gate") /\ UNCHANGED mainRest

CheckRunning ==
  /\ At("running?", IF running THEN "gate" ELSE "drain")
  /\ UNCHANGED mainRest

MainPassesGate ==
  /\ At("gate", "limit")
  /\ ~closed
  /\ UNCHANGED mainRest

\* threadlimiter <- true, then a tick of the rate limiter.
AcquireSlot ==
  /\ At("limit", "value")
  /\ Live # Slots
  /\ UNCHANGED mainRest

\* Faulty: an exhausted word list runs on.
TakeValuePastEnd ==
  /\ At("value", "spawn")
  /\ cursor' = cursor + 1
  /\ input' = [word |-> cursor + 1, pos |-> position]
  /\ UNCHANGED <<jobs, flags, counter, position, closed, others, hist>>

\* Value and Position under inputMutex; an exhausted word list starts over.
TakeValue ==
  /\ At("value", "spawn")
  /\ LET w == IF cursor < N THEN cursor + 1 ELSE 1
     IN  cursor' = w /\ input' = [word |-> w, pos |-> position]
  /\ UNCHANGED <<jobs, flags, counter, position, closed, others, hist>>

\* wg.Add, incCounter, the request goroutine, and the check of runningJob,
\* which only this goroutine writes.
Spawn(s) ==
  /\ At("spawn", IF runningJob THEN "next" ELSE "drain")
  /\ tasks[s].at = "free"
  /\ tasks' = [tasks EXCEPT ![s] = [at |-> "prepare", job |-> ctx,
                                    word |-> input.word, pos |-> input.pos,
                                    retried |-> FALSE]]
  /\ counter' = counter + 1
  /\ sent' = Append(sent, input)
  /\ late' = IF Halted THEN late + 1 ELSE 0
  /\ UNCHANGED <<jobs, flags, inputs, closed, input, progress, console, typed>>

\* Faulty: the request goroutines have not joined the wait group.
DrainProgress == At("drain", "jobs") /\ progress = "off" /\ UNCHANGED mainRest

\* wg.Wait, for the request goroutines and the progress goroutine.
Drain ==
  /\ At("drain", "jobs")
  /\ Live = {} /\ progress = "off"
  /\ UNCHANGED mainRest

\* Output.Finalize and the deferred Stop.
Finalize ==
  /\ At("finalize", "done")
  /\ running' = FALSE /\ closed' = FALSE
  /\ UNCHANGED <<jobs, runningJob, skipQueue, counter, inputs, input, others,
                 hist>>

-----------------------------------------------------------------------------
(* runTask, in the goroutine of slot s.  It leaves the wait group and the
   limiter in one step: nothing reads the limiter once the loop is over. *)
taskRest == <<main, ctx, flags, counter, inputs, closed, input, progress,
              console, typed, hist>>

Go(s, to) == tasks' = [tasks EXCEPT ![s].at = to]
End(s)    == tasks' = [tasks EXCEPT ![s] = Free]

Prepare(s) ==
  /\ tasks[s].at = "prepare"
  /\ Go(s, "execute") \/ End(s)
  /\ UNCHANGED <<queue, taskRest>>

\* An error is retried once, from the top of runTask.
Execute(s) ==
  /\ tasks[s].at = "execute"
  /\ \/ Go(s, "gate")
     \/ IF tasks[s].retried THEN End(s)
        ELSE tasks' = [tasks EXCEPT ![s].at = "prepare", ![s].retried = TRUE]
  /\ UNCHANGED <<queue, taskRest>>

TaskPassesGate(s) ==
  /\ tasks[s].at = "gate"
  /\ ~closed
  /\ Go(s, "decide")
  /\ UNCHANGED <<queue, taskRest>>

\* recursionManager: the job one level below the task's, if allowed.  Its URL is
\* the one of the request with a slash and FUZZ behind it: what the input is
\* elsewhere in the request leaves no trace in it, and the same word twice in a
\* list gives it twice.  Nobody compares the URLs of two jobs.
Deeper(t) == [via |-> Append(t.job.via, t.word), depth |-> t.job.depth + 1,
              req |-> t.job.req]
\* Faulty: the limit itself still recurses.
handleAtLimit(t) == IF t.job.depth <= RecursionDepth
                    THEN push(queue, Deeper(t)) ELSE queue
handle(t) == IF t.job.depth < RecursionDepth
             THEN push(queue, Deeper(t)) ELSE queue

\* The match decision and recursion.  Greedy recursion follows a match;
\* default recursion follows a redirect to the same path with a slash.
Decide(s) ==
  /\ tasks[s].at = "decide"
  /\ \E matched \in BOOLEAN, directory \in BOOLEAN :
       queue' = IF \/ Strategy = "greedy" /\ matched
                   \/ Strategy = "default" /\ directory
                THEN handle(tasks[s]) ELSE queue
  /\ End(s)
  /\ UNCHANGED taskRest

-----------------------------------------------------------------------------
(* runBackgroundTasks *)
progressRest == <<main, jobs, flags, counter, inputs, closed, input, tasks,
                  console, typed, hist>>

ProgressTop ==
  /\ progress = "top"
  /\ progress' = IF counter <= N /\ ~skipQueue THEN "gate" ELSE "off"
  /\ UNCHANGED progressRest

ProgressPassesGate ==
  /\ progress = "gate"
  /\ ~closed
  /\ progress' = "look"
  /\ UNCHANGED progressRest

\* Faulty: the end of the job alone does not end its progress goroutine.
ProgressLooksPastJob ==
  /\ progress = "look"
  /\ progress' = IF ~running \/ counter = N THEN "off" ELSE "top"
  /\ UNCHANGED progressRest

ProgressLooks ==
  /\ progress = "look"
  /\ progress' = IF ~running \/ counter = N \/ ~runningJob
                   THEN "off" ELSE "top"
  /\ UNCHANGED progressRest

-----------------------------------------------------------------------------
(* The console.  Resuming is always possible; every other command counts
   against MaxCommands. *)
consoleRest == <<main, ctx, runningJob, input, tasks, progress>>

Type(c) == /\ c \in Commands
           /\ console = Idle
           /\ typed < MaxCommands
           /\ typed' = typed + 1

PauseCommand ==
  /\ Type("pause")
  /\ running /\ ~closed
  /\ closed' = TRUE
  /\ UNCHANGED <<consoleRest, queue, running, skipQueue, counter, inputs,
                 console, hist>>

ResumeCommand ==
  /\ console = Idle
  /\ closed
  /\ closed' = FALSE
  /\ UNCHANGED <<consoleRest, queue, running, skipQueue, counter, inputs,
                 console, typed, hist>>

SkipCommand ==
  /\ Type("skip")
  /\ skipQueue' = TRUE
  /\ UNCHANGED <<consoleRest, queue, running, counter, inputs, closed,
                 console, hist>>

\* deleteQueue checks the index against one reading of the queue ...
DeleteCommand ==
  /\ Type("delete")
  /\ \E index \in 1 .. Len(remaining(queue)) - 1 :
       console' = [at |-> "delete", index |-> index]
  /\ UNCHANGED <<consoleRest, queue, running, skipQueue, counter, inputs,
                 closed, hist>>

\* ... and DeleteQueueItem applies it to another.
DeleteQueueItem ==
  /\ console.at = "delete"
  /\ queue' = removeAt(queue, console.index)
  /\ console' = Idle
  /\ UNCHANGED <<consoleRest, running, skipQueue, counter, inputs, closed,
                 typed, hist>>

\* "restart": Reset(false), then Resume.
RestartCommand ==
  /\ Type("restart")
  /\ ResetInput
  /\ console' = [Idle EXCEPT !.at = "resetCounters"]
  /\ UNCHANGED <<consoleRest, queue, running, skipQueue, counter, closed,
                 late>>

RestartContinues ==
  \/ /\ console.at = "resetCounters"
     /\ ResetCounters
     /\ console' = [console EXCEPT !.at = "resume"]
     /\ UNCHANGED <<consoleRest, queue, running, inputs, closed, typed, sent>>
  \/ /\ console.at = "resume"
     /\ closed' = FALSE
     /\ console' = Idle
     /\ UNCHANGED <<consoleRest, queue, running, skipQueue, counter, inputs,
                    typed, hist>>

(* A SIGINT or SIGTERM: Stop, from the monitor's goroutine. *)
Interrupt ==
  /\ running
  /\ running' = FALSE /\ closed' = FALSE
  /\ UNCHANGED <<main, jobs, runningJob, skipQueue, counter, inputs, input,
                 others, hist>>

-----------------------------------------------------------------------------
Main == \/ Start \/ JobsInQueue \/ PrepareQueueJob \/ JobReset \/ Begin
        \/ NextInput \/ CheckSkip \/ CheckStop \/ CheckRunning
        \/ MainPassesGate \/ AcquireSlot \/ TakeValue
        \/ \E s \in Slots : Spawn(s)
        \/ Drain \/ Finalize

Task(s) == Prepare(s) \/ Execute(s) \/ TaskPassesGate(s) \/ Decide(s)

Progress == ProgressTop \/ ProgressPassesGate \/ ProgressLooks

ConsoleWork == DeleteQueueItem \/ RestartContinues

\* The process is gone once Start has returned, or panicked.
Alive == main \notin {"done", "panicked"}

Console == /\ Alive
           /\ \/ PauseCommand \/ ResumeCommand \/ SkipCommand \/ DeleteCommand
              \/ RestartCommand \/ ConsoleWork

Exited == ~Alive /\ UNCHANGED vars

Next == \/ Main \/ Progress \/ Console \/ Interrupt \/ Exited
        \/ \E s \in Slots : Task(s)

(* Every goroutine that can run does, and a request ends (it has a timeout).
   Nobody has to type a command or to interrupt. *)
Fairness == /\ WF_vars(Main) /\ WF_vars(Progress)
            /\ WF_vars(Alive /\ ConsoleWork)
            /\ \A s \in Slots : WF_vars(Task(s))

Spec == Init /\ [][Next]_vars /\ Fairness

-----------------------------------------------------------------------------
MainStates == {"start", "jobs", "prepare", "resetInput", "resetCounters",
               "begin", "next", "skip?", "checkStop", "running?", "gate",
               "limit", "value", "spawn", "drain", "finalize", "done",
               "panicked"}
TaskStates == {"free", "prepare", "execute", "gate", "decide"}

Job  == [via : Seq(0..N), depth : Nat, req : 1..BaseJobs]
TaskRecord == [at : TaskStates, job : Job, word : 0..N, pos : 0..N,
               retried : BOOLEAN]

(* The type of the state. *)
TypeOK ==
  /\ main \in MainStates
  /\ queue \in [jobs : Seq(Job), pos : Nat] /\ queue.pos <= Len(queue.jobs)
  /\ ctx \in Job
  /\ running \in BOOLEAN /\ runningJob \in BOOLEAN /\ skipQueue \in BOOLEAN
  /\ closed \in BOOLEAN
  /\ counter \in Nat /\ typed \in Nat /\ late \in Nat
  /\ position \in 0..N /\ cursor \in 0..N
  /\ main \in {"skip?", "checkStop", "running?", "gate", "limit", "value"} => N > 0
  /\ input \in [word : 0..N, pos : 0..N]
  /\ tasks \in [Slots -> TaskRecord]
  /\ progress \in {"off", "top", "gate", "look"}
  /\ console \in [at : {"idle", "delete", "resetCounters", "resume"},
                  index : Nat]
  /\ sent \in Seq([word : 0..N, pos : 0..N])

(* Between two queue jobs no goroutine of the last one is alive: what
   prepareQueueJob and Reset overwrite, nobody still reads (the comment at
   job.go:382-387, and every break of the loop). *)
DrainedBetweenJobs ==
  main \in {"start", "jobs", "prepare", "resetInput", "resetCounters", "begin",
           "finalize", "done", "panicked"} => Live = {} /\ progress = "off"

(* A request goroutine works for the job at the head of the queue, whatever
   recursion appends behind it and the console deletes (jobContext,
   job.go:66-74, and removeAt, jobqueue.go:72-84). *)
WorkForActiveJob ==
  Live # {} => /\ ctx = active(queue)
               /\ \A s \in Live : tasks[s].job = ctx

(* The run ends only when every job left in the queue has been taken: no job
   is queued behind the main loop's last look. *)
NothingLeftBehind ==
  main \in {"finalize", "done"} => queue.pos = Len(queue.jobs)

(* Jobs take turns: one at a time, each on its own requests, and none is left
   when the run ends. *)
JobsInTurn == DrainedBetweenJobs /\ WorkForActiveJob /\ NothingLeftBehind

(* Without a restart, the requests of a job are the inputs in order, each
   once, each with its own position: what FFUFHASH and -search rely on
   (job.go:340-370). *)
InOrder == \A i \in DOMAIN sent : sent[i] = [word |-> i, pos |-> i]

(* Even when the console restarts the job, at most one request more than the
   list is long is dispatched before the input runs out, and from the second
   request on the words follow each other: no word is passed over. *)
RestartOvershoot ==
  /\ Len(sent) <= N + 1
  /\ \A i \in 2 .. Len(sent) - 1 : sent[i + 1].word = (sent[i].word % N) + 1

(* A job that nothing halted has dispatched every input when its loop ends. *)
CompletePass == main = "drain" /\ ~Halted => Len(sent) = N

(* The requests of a job are its inputs in order, and all of them unless
   something halts it (job.go:340-391). *)
PassInOrder == InOrder /\ CompletePass

(* At most one request is dispatched after the run is stopped, the job is
   out of time, or queueskip is typed: the main loop had passed its checks
   (job.go:345-381).  After a stop this holds for all remaining jobs
   together, though each of them is still prepared. *)
BoundedOvershoot == late <= 1

\* Why: once a late request is out, the main goroutine is on its way to the
\* check that ends the job, and only a reset of the skip flag turns it back.
LateInv ==
  /\ late \in {0, 1}
  /\ late = 1 /\ ~running => main \notin {"gate", "limit", "value", "spawn"}
  /\ late = 1 /\ running =>
       \/ skipQueue /\ main \in {"next", "skip?"}
       \/ main \in {"drain", "jobs", "prepare", "resetInput", "resetCounters",
                   "finalize", "done", "panicked"}

\* Why: the main goroutine took ctx from the place before the position, and
\* no push or deletion reaches that far.
Loop == MainStates \ {"start", "jobs", "prepare", "finalize", "done", "panicked"}

QueueInv ==
  /\ TypeOK
  /\ main = "start" => queue = newJobQueue
  /\ main \in Loop => queue.pos > 0 /\ ctx = active(queue)
  /\ \A s \in Live : main \in Loop /\ tasks[s].job = ctx
  /\ console.at = "delete" => console.index > 0 /\ main # "start"
  /\ DrainedBetweenJobs

(* Recursion stays within the depth limit, and the depth of a job is the
   number of inputs that led to it from a base job. *)
DepthBounded ==
  \A i \in DOMAIN queue.jobs : LET job == queue.jobs[i]
                              IN  /\ job.depth <= RecursionDepth
                                  /\ job.depth = Len(job.via)

Below(parent, job) == \E word \in 0..N : job.via = Append(parent.via, word)

(* A recursion job lies behind the job whose response asked for it, and that
   job has been taken: no deletion reorders the queue or drops a parent. *)
ParentsTaken ==
  \A i \in DOMAIN queue.jobs :
    LET job == queue.jobs[i]
    IN  job.via # <<>> =>
          \E k \in 1 .. queue.pos : k < i /\ Below(queue.jobs[k], job)

(* Recursion goes down from what was taken, and not too far. *)
RecursionSound == DepthBounded /\ ParentsTaken

(* The jobs taken so far are history: no push and no deletion changes them,
   and the position moves by one job at a time (jobqueue.go). *)
TakenJobsFixed ==
  [][main # "start" =>
       /\ queue'.pos - queue.pos \in {0, 1}
       /\ SubSeq(queue'.jobs, 1, queue.pos) = SubSeq(queue.jobs, 1, queue.pos)
    ]_queue

(* If the console does not leave the job paused for ever, the run ends. *)
Terminates == <>[]~closed => <>(main = "done")

\* What RunContract sees of a run.
Phase == CASE main = "start" -> "starting"
           [] main \in {"jobs", "prepare"} -> "between"
           [] main \in {"finalize", "done", "panicked"} -> "over"
           [] OTHER -> "working"
Taken    == SubSeq(queue.jobs, 1, queue.pos)
Pending  == SubSeq(queue.jobs, queue.pos + 1, Len(queue.jobs))
Words    == IF main = "resetInput" THEN <<>>
            ELSE [i \in DOMAIN sent |-> sent[i].word]
JobHalted == ~runningJob \/ skipQueue
InFlight == {[slot |-> s, job |-> tasks[s].job, word |-> tasks[s].word] :
               s \in Live}

Run == INSTANCE RunContract WITH
  Restarts <- "restart" \in Commands, phase <- Phase,
  taken <- Taken, pending <- Pending, halted <- JobHalted,
  words <- Words, inFlight <- InFlight

(* Goroutines, console and signals together run the jobs as RunContract says:
   in the order of the queue, each with its inputs in order, and to the end. *)
ImplementsRun == Run!Spec

-----------------------------------------------------------------------------
(* What a comment says that the code does not do. *)

(* jobqueue.go:35: advance "returns the job at the active position". *)
AdvanceFindsJob == main # "panicked"
=============================================================================
