---------------------------- MODULE RunContract ----------------------------
(***************************************************************************)
(* What a run of pkg/engine/job.go promises, free of the steps of its      *)
(* goroutines: jobs are taken in the order they were queued, one at a      *)
(* time; the requests of a job are its inputs in order and all of them,    *)
(* unless something halts it; after that at most one more request goes     *)
(* out; and the run is over when no job is pending.  Engine implements it. *)
(***************************************************************************)
EXTENDS Naturals, Sequences

CONSTANTS
  Slots,           \* at most one request in each
  N,               \* inputs per job
  BaseJobs,        \* jobs a run starts with
  RecursionDepth,  \* how many levels of jobs may be found below them
  Restarts         \* the user may restart a job

VARIABLES
  phase,           \* "starting", then "between" jobs or "working", then "over"
  taken, pending,  \* the jobs so far, the last one active, and those to come
  running,         \* nothing has stopped the run
  halted,          \* the active job is skipped, or out of time
  words,           \* inputs sent since the job, or a restart of it, began
  inFlight,        \* requests that are not decided yet
  late             \* requests in a row sent after the job was to end

vars == <<phase, taken, pending, running, halted, words, inFlight, late>>

\* A job is known by the inputs that led to it, which its URL may not tell.
First(i) == [via |-> <<>>, depth |-> 0, req |-> i]

Init == /\ phase = "starting"
        /\ taken = <<>> /\ pending = <<>>
        /\ running = FALSE /\ halted = TRUE
        /\ words = <<>> /\ inFlight = {} /\ late = 0

\* Already now the first job may be skipped.
Start == /\ phase = "starting" /\ phase' = "between"
         /\ pending' = [i \in 1..BaseJobs |-> First(i)]
         /\ running' = TRUE /\ halted' \in BOOLEAN
         /\ UNCHANGED <<taken, words, inFlight, late>>

Take == /\ phase = "between" /\ phase' = "working"
        /\ pending # <<>>
        /\ taken' = Append(taken, Head(pending)) /\ pending' = Tail(pending)
        /\ words' = <<>>
        /\ UNCHANGED <<running, halted, inFlight, late>>

\* The inputs in order; after a restart, the second request may not be the one
\* that follows the first, and there may be one more.
MaySend(word) ==
  IF Restarts
  THEN /\ Len(words) <= N
       /\ Len(words) >= 2 => word = (words[Len(words)] % N) + 1
  ELSE word = Len(words) + 1

Send(s) ==
  /\ phase = "working"
  /\ \A r \in inFlight : r.slot # s
  /\ late = 0
  /\ \E word \in 1..N :
       /\ MaySend(word)
       /\ words' = Append(words, word)
       /\ inFlight' = inFlight \cup
            {[slot |-> s, job |-> taken[Len(taken)], word |-> word]}
  /\ late' = IF running /\ ~halted THEN 0 ELSE 1
  /\ UNCHANGED <<phase, taken, pending, running, halted>>

\* The job one level below, for what a request has found.
Found(r) == [via |-> Append(r.job.via, r.word), depth |-> r.job.depth + 1,
             req |-> r.job.req]

Answer == \E r \in inFlight :
  /\ inFlight' = inFlight \ {r}
  /\ \/ UNCHANGED pending
     \/ /\ r.job.depth < RecursionDepth
        /\ pending' = Append(pending, Found(r))
  /\ UNCHANGED <<phase, taken, running, halted, words, late>>

Leave == /\ phase = "working" /\ phase' = "between"
         /\ inFlight = {}
         /\ (Restarts \/ halted \/ ~running \/ Len(words) = N)
         /\ UNCHANGED <<taken, pending, running, halted, words, inFlight, late>>

Finish == /\ phase = "between" /\ phase' = "over"
          /\ pending = <<>>
          /\ UNCHANGED <<taken, pending, running, halted, words, inFlight, late>>

\* Only a job that was not taken yet can be deleted.
Delete == \E i \in DOMAIN pending :
  /\ pending' = [k \in 1 .. Len(pending) - 1 |->
                   pending[IF k < i THEN k ELSE k + 1]]
  /\ UNCHANGED <<phase, taken, running, halted, words, inFlight, late>>

\* A stop is for good; a skip and a time limit are for one job.
Halt == /\ running' \in {running, FALSE} /\ halted' \in {halted, TRUE}
        /\ UNCHANGED <<phase, taken, pending, words, inFlight, late>>

Restart == /\ Restarts
           /\ words' = <<>>
           /\ UNCHANGED <<phase, taken, pending, running, halted, inFlight, late>>

\* A job that begins, or is begun again, is not halted any more.
Resume == /\ Restarts \/ (phase = "working" /\ words = <<>>)
          /\ halted' \in {halted, FALSE}
          /\ late' \in {late, IF running THEN 0 ELSE late}
          /\ UNCHANGED <<phase, taken, pending, running, words, inFlight>>

Next == \/ Halt \/ Start \/ Take \/ Answer \/ Leave \/ Finish
        \/ Delete \/ Restart \/ Resume
        \/ \E s \in Slots : Send(s)

Spec == Init /\ [][Next]_vars
============================================================================
