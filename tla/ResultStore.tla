---------------------------- MODULE ResultStore ----------------------------
(***************************************************************************)
(* The matches that ffuf holds: request goroutines add them, the main      *)
(* goroutine moves them aside at the end of a job, and the console holds   *)
(* back their printing, filters them again, or throws them away.  All of   *)
(* them work on the lists of Stdoutput (pkg/output) under resultMutex, but *)
(* the match decision before, the printing after, and the two halves of a  *)
(* console command are outside of it.                                      *)
(*                                                                         *)
(* A response is its size and whether it was slow; it has passed the       *)
(* matchers.  The pause gate is PauseGate's, at the grain of PauseContract.*)
(***************************************************************************)
EXTENDS Naturals, Sequences, FiniteSets

CONSTANTS
  Slots,          \* Config.Threads slots for request goroutines
  Sizes,          \* response sizes told apart
  TimeOptions,    \* of {"<", ">"}: time filters the user may type
  FilterMode,     \* Config.FilterMode: "or" or "and"
  MaxRequests, MaxJobs, MaxCommands

ASSUME ResultAssumption ==
  /\ IsFiniteSet(Slots)
  /\ TimeOptions \subseteq {"<", ">"}
  /\ FilterMode \in {"or", "and"}
  /\ {MaxRequests, MaxJobs, MaxCommands} \subseteq Nat

VARIABLES
  main,             \* "start", "run" or "done"
  running, closed,  \* Job.running; the pause gate is closed
  tasks,            \* what each slot's goroutine does, and its response
  filters,          \* MatcherManager.Filters: a size and a time filter
  paused,           \* Stdoutput.paused
  current, results, \* CurrentResults and Results
  console,          \* what the console goroutine does next
  open,             \* interactive.paused: the console is open
  requests, jobs, typed,   \* counters against the bounds
  live,             \* history: the matches printed as they came
  late              \* history: how many of them since the console was opened

vars == <<main, running, closed, tasks, filters, paused, current, results,
          console, open, requests, jobs, typed, live, late>>
job     == <<main, running, requests, jobs>>
store   == <<current, results>>
history == <<live, late>>
screen  == <<console, open, typed>>

Response == [size : Sizes, slow : BOOLEAN]
NoFilter == "none"
Free     == [at |-> "free"]
At(s)    == tasks[s].at

Init == /\ main = "start" /\ running = FALSE /\ closed = FALSE
        /\ tasks = [s \in Slots |-> Free]
        /\ filters = [size |-> {}, time |-> NoFilter]
        /\ paused = FALSE /\ current = <<>> /\ results = <<>>
        /\ console = "idle" /\ open = FALSE
        /\ requests = 0 /\ jobs = 0 /\ typed = 0
        /\ live = {} /\ late = 0

held == {current[i].id : i \in DOMAIN current}
          \cup {results[i].id : i \in DOMAIN results}

-----------------------------------------------------------------------------
(* Filters.  A size filter hits the sizes it lists, a time filter the
   responses slower or faster than its limit. *)
Active(f) == (IF f.size = {} THEN {} ELSE {"size"})
               \cup (IF f.time = NoFilter THEN {} ELSE {"time"})

Hits(f, name, resp) == IF name = "size" THEN resp.size \in f.size
                       ELSE (f.time = ">") = resp.slow

\* Matches, the part about filters.
FilteredOut(f, resp) ==
  IF FilterMode = "or" THEN \E n \in Active(f) : Hits(f, n, resp)
  ELSE Active(f) # {} /\ \A n \in Active(f) : Hits(f, n, resp)

\* A held result has no duration any more: the probe is fast.
resultProbe(res) == [size |-> res.size, slow |-> FALSE]

Survives(f, res) == \A n \in Active(f) : ~Hits(f, n, resultProbe(res))

-----------------------------------------------------------------------------
(* The main goroutine.  Cycle at the start of each job, when no goroutine of
   the last one is alive; Finalize saves both lists. *)
Drained == \A s \in Slots : tasks[s] = Free

\* Faulty: the list is emptied but not moved.
CycleResets == current' = <<>> /\ UNCHANGED results

Cycle == results' = results \o current /\ current' = <<>>

NextJob ==
  /\ Drained
  /\ \/ main = "start" /\ running' = TRUE
     \/ main = "run" /\ UNCHANGED running
  /\ jobs < MaxJobs
  /\ main' = "run" /\ jobs' = jobs + 1
  /\ Cycle
  /\ UNCHANGED <<closed, tasks, filters, paused, screen, requests, history>>

Finalize ==
  /\ Drained
  /\ main = "run"
  /\ main' = "done" /\ running' = FALSE /\ closed' = FALSE
  /\ UNCHANGED <<requests, jobs, tasks, filters, paused, store, screen,
                 history>>

\* A signal or a stop condition.
Stop ==
  /\ running
  /\ running' = FALSE /\ closed' = FALSE
  /\ UNCHANGED <<main, requests, jobs, tasks, filters, paused, store, screen,
                 history>>

-----------------------------------------------------------------------------
(* A request goroutine: the checkpoint, the match decision, Result under the
   lock, and the printing after it. *)
\* Faulty: one request too many.
PassGatePast(s) ==
  /\ tasks[s] = Free /\ main = "run" /\ ~closed
  /\ requests <= MaxRequests
  /\ requests' = requests + 1
  /\ tasks' = [tasks EXCEPT ![s] = [at |-> "match", id |-> requests']]
  /\ UNCHANGED <<main, running, jobs, closed, filters, paused, store, screen,
                 history>>

PassGate(s) ==
  /\ tasks[s] = Free /\ main = "run" /\ ~closed
  /\ requests < MaxRequests
  /\ requests' = requests + 1
  /\ tasks' = [tasks EXCEPT ![s] = [at |-> "match", id |-> requests']]
  /\ UNCHANGED <<main, running, jobs, closed, filters, paused, store, screen,
                 history>>

Decide(s) ==
  /\ At(s) = "match"
  /\ \E resp \in Response :
       tasks' = [tasks EXCEPT ![s] =
         IF FilteredOut(filters, resp) THEN Free
         ELSE [at |-> "record", id |-> @.id, resp |-> resp]]
  /\ UNCHANGED <<job, closed, filters, paused, store, screen, history>>

\* Faulty: every match is printed, paused or not.
RecordLoud(s) ==
  /\ At(s) = "record"
  /\ current' = Append(current, [id |-> tasks[s].id, resp |-> tasks[s].resp,
                                 printed |-> TRUE])
  /\ tasks' = [tasks EXCEPT ![s] = [at |-> "print", id |-> @.id]]
  /\ UNCHANGED <<job, closed, filters, paused, results, screen, history>>

Record(s) ==
  /\ At(s) = "record"
  /\ current' = Append(current, [id |-> tasks[s].id, resp |-> tasks[s].resp,
                                 printed |-> ~paused])
  /\ tasks' = [tasks EXCEPT ![s] =
                 IF paused THEN Free ELSE [at |-> "print", id |-> @.id]]
  /\ UNCHANGED <<job, closed, filters, paused, results, screen, history>>

PrintResult(s) ==
  /\ At(s) = "print"
  /\ live' = live \cup {tasks[s].id}
  /\ late' = IF paused THEN late + 1 ELSE late
  /\ tasks' = [tasks EXCEPT ![s] = Free]
  /\ UNCHANGED <<job, closed, filters, paused, store, screen>>

-----------------------------------------------------------------------------
(* The console.  A command is typed, and its later calls follow one by one. *)
Type(next) == /\ main # "done"
              /\ console = "idle" /\ typed < MaxCommands
              /\ typed' = typed + 1
              /\ console' = next

\* Stdoutput.SetPaused: leaving a pause marks every held match as shown.
SetPaused(b) ==
  /\ paused' = b
  /\ current' = IF b THEN current
                ELSE [i \in DOMAIN current |->
                        [current[i] EXCEPT !.printed = TRUE]]

EnterCommand ==
  /\ ~open /\ Type("pause")
  /\ open' = TRUE
  /\ SetPaused(TRUE)
  /\ late' = 0
  /\ UNCHANGED <<job, closed, tasks, filters, results, live>>

Pause ==
  /\ console = "pause"
  /\ closed' = (closed \/ running)
  /\ console' = "idle"
  /\ UNCHANGED <<job, tasks, filters, paused, store, open, typed, history>>

\* ENTER in an open console, or "resume"; the pending count is printed first.
ResumeCommand ==
  /\ Type("unpause")
  /\ open' = FALSE
  /\ UNCHANGED <<job, closed, tasks, filters, paused, store, history>>

\* "restart": Stdoutput.Reset, then as for resume.
RestartCommand ==
  /\ Type("unpause")
  /\ open' = FALSE
  /\ current' = <<>>
  /\ UNCHANGED <<job, closed, tasks, filters, paused, results, history>>

\* Faulty: a held match stays pending after the console is closed.
UnpauseForgets ==
  /\ console = "unpause"
  /\ paused' = FALSE
  /\ console' = "resume"
  /\ UNCHANGED <<job, closed, tasks, filters, store, open, typed, history>>

Unpause ==
  /\ console = "unpause"
  /\ SetPaused(FALSE)
  /\ console' = "resume"
  /\ UNCHANGED <<job, closed, tasks, filters, results, open, typed, history>>

Resume ==
  /\ console = "resume"
  /\ closed' = FALSE
  /\ console' = "idle"
  /\ UNCHANGED <<job, tasks, filters, paused, store, open, typed, history>>

\* "fs" and "afs"; an appended value is added to the list.
SizeFilter ==
  \E value \in SUBSET Sizes \ {{}}, replace \in BOOLEAN :
    filters' = [filters EXCEPT !.size = IF replace THEN value ELSE @ \cup value]

\* "ft" and "aft"; a time filter with an appended value does not parse, and
\* the old one stays.
TimeFilter ==
  \E value \in TimeOptions, replace \in BOOLEAN :
    filters' = [filters EXCEPT !.time =
                  IF replace \/ @ = NoFilter THEN value ELSE @]

RemoveFilter ==
  \/ filters' = [filters EXCEPT !.size = {}]
  \/ filters' = [filters EXCEPT !.time = NoFilter]

UpdateFilter ==
  /\ Type("refresh")
  /\ SizeFilter \/ TimeFilter \/ RemoveFilter
  /\ UNCHANGED <<job, closed, tasks, paused, store, open, history>>

\* Faulty: the filters are not applied to what is held.
FilterNothing == UNCHANGED current

\* The loop of FilterCurrentResults: what survives is appended to a new list.
Kept(list, f) ==
  LET filtered[n \in 0..Len(list)] ==
        IF n = 0 THEN <<>>
        ELSE IF Survives(f, list[n].resp) THEN Append(filtered[n - 1], list[n])
        ELSE filtered[n - 1]
  IN  filtered[Len(list)]

FilterCurrentResults == current' = Kept(current, filters)

RefreshResults ==
  /\ console = "refresh"
  /\ FilterCurrentResults
  /\ console' = "idle"
  /\ UNCHANGED <<job, closed, tasks, filters, paused, results, open, typed,
                 history>>

-----------------------------------------------------------------------------
Task(s) == PassGate(s) \/ Decide(s) \/ Record(s) \/ PrintResult(s)

Console == \/ EnterCommand \/ Pause \/ ResumeCommand \/ RestartCommand
           \/ Unpause \/ Resume \/ UpdateFilter \/ RefreshResults

Exited == main = "done" /\ UNCHANGED vars

Next == \/ NextJob \/ Finalize \/ Stop \/ Console \/ Exited
        \/ \E s \in Slots : Task(s)

Spec == Init /\ [][Next]_vars

-----------------------------------------------------------------------------
Match == [id : 1..MaxRequests, resp : Response, printed : BOOLEAN]

(* The type of the state; a slot is idle, decides, or carries a match. *)
TypeOK ==
  /\ main \in {"start", "run", "done"}
  /\ {running, closed, paused, open} \subseteq BOOLEAN
  /\ filters \in [size : SUBSET Sizes, time : TimeOptions \cup {NoFilter}]
  /\ current \in Seq(Match) /\ results \in Seq(Match)
  /\ tasks \in [Slots -> {Free} \cup [at : {"match", "print"}, id : 1..MaxRequests]
                  \cup [at : {"record"}, id : 1..MaxRequests, resp : Response]]
  /\ console \in {"idle", "pause", "unpause", "resume", "refresh"}
  /\ requests \in 0..MaxRequests /\ jobs \in 0..MaxJobs
  /\ typed \in 0..MaxCommands
  /\ live \subseteq 1..MaxRequests /\ late \in Nat

(* A match is held once, however jobs end and the console edits the lists
   (Cycle, stdout.go:206-211, and the comment on FilterCurrentResults). *)
HeldOnce ==
  LET all == results \o current
  IN  \A i, k \in DOMAIN all : all[i].id = all[k].id => i = k

(* Once recorded, a match of this or an earlier job is lost only to a filter
   that the user changes, and that hits it, or to a restart, which spares
   earlier jobs: a match that arrives during either is not lost. *)
MatchesKept ==
  [][\A r \in {current[i] : i \in DOMAIN current} :
       r.id \notin held' =>
         \/ console = "refresh" /\ ~Survives(filters, r.resp)
         \/ console = "idle" /\ console' = "unpause" /\ current' = <<>>
    ]_store

(* The pending count is about this pause only: what it counts was never
   printed, and outside of a pause it is zero (stdout.go:448-453 and 465). *)
PendingIsNew ==
  \A i \in DOMAIN current :
    ~current[i].printed => /\ paused
                           /\ current[i].id \notin live
                           /\ \A s \in Slots : At(s) = "print" =>
                                tasks[s].id # current[i].id

(* No match is doubled, and what is pending is new. *)
ListsSound == HeldOnce /\ PendingIsNew

(* Requests that passed the checkpoint may still print into an open console,
   but no slot does so twice (stdout.go:439-445). *)
QuietConsole == late <= Cardinality(Slots)

(* When no command is at work, a held match that the size filter hits was
   decided before the filter was set: there is at most one for each slot,
   also after several changes of the filter (README.md:290). *)
FiltersCaughtUp ==
  console # "refresh" /\ (FilterMode = "or" \/ filters.time = NoFilter) =>
    Cardinality({i \in DOMAIN current : current[i].resp.size \in filters.size})
      <= Cardinality(Slots)

=============================================================================
