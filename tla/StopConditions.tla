--------------------------- MODULE StopConditions ---------------------------
(***************************************************************************)
(* The stopping conditions of pkg/engine/job.go (-sf, -se, -sa): the       *)
(* counters that the request goroutines keep, and CheckStop, which the     *)
(* main loop asks before every dispatch, through the jobs of the queue and *)
(* the restarts of the console.  Requests are counted, not named.  The     *)
(* time limits of CheckStop and the goroutine that shows the progress are  *)
(* part of the module Engine.                                              *)
(***************************************************************************)
EXTENDS Naturals

CONSTANTS
  Threads, N, Jobs,       \* Config.Threads; inputs per job; jobs in the queue
  Statuses,               \* what the target answers with
  MaxRestarts,            \* bound: restarts typed in the console ...
  RestartsWithin,         \* bound: ... among the first requests of a job
  MinSamples,             \* requests before the limits apply (50 in the code)
  StopOn403, StopOnErrors, StopOnAll

ASSUME StopAssumption ==
  /\ Threads \in Nat \ {0} /\ N \in Nat /\ Jobs \in Nat
  /\ {MaxRestarts, RestartsWithin, MinSamples} \subseteq Nat
  /\ {StopOn403, StopOnErrors, StopOnAll} \subseteq BOOLEAN

Reasons == {"403", "errors", "429"}

VARIABLES
  main,                                    \* what the main loop does next
  job,                                     \* the queue job it works on
  position,                                \* inputs drawn from the provider
  counter, spuriousErrorCounter, count403, count429,
  fresh, retried,                          \* requests in flight, by attempt
  reasons,                                 \* why the run was stopped
  console, restarts,                       \* what a restart does next; past ones
  dispatched, answered, forbidden, limited \* history: requests of this job

counters == <<spuriousErrorCounter, count403, count429>>
flight   == <<fresh, retried>>
history  == <<answered, forbidden, limited>>
typed    == <<console, restarts>>
vars     == <<main, job, position, counter, counters, flight, reasons, typed,
              dispatched, history>>

Init == /\ main = "next" /\ job = 1
        /\ position = 0 /\ dispatched = 0
        /\ console = "idle" /\ restarts = 0
        /\ counter = 0 /\ spuriousErrorCounter = 0
        /\ count403 = 0 /\ count429 = 0
        /\ fresh = 0 /\ retried = 0
        /\ reasons = {}
        /\ answered = 0 /\ forbidden = 0 /\ limited = 0

At(from, to) == main = from /\ main' = to

-----------------------------------------------------------------------------
(* The main loop *)
NextInput ==
  /\ \/ position < N /\ At("next", "checkStop") /\ position' = position + 1
     \/ position = N /\ At("next", "drain") /\ UNCHANGED position
  /\ UNCHANGED <<job, counter, counters, flight, reasons, typed, dispatched,
                 history>>

(* The ratios 0.95 and 0.2 are compared as integers. *)
Over403    == 20 * count403 > 19 * counter
Over429    == 5 * count429 > counter
OverErrors == spuriousErrorCounter > 2 * Threads

Exceeded(r) ==
  /\ counter > MinSamples
  /\ \/ r = "403"    /\ (StopOn403 \/ StopOnAll) /\ Over403
     \/ r = "errors" /\ (StopOnErrors \/ StopOnAll) /\ OverErrors
     \/ r = "429"    /\ StopOnAll /\ Over429

CheckStop ==
  /\ reasons' = {r \in Reasons : Exceeded(r)}
  /\ At("checkStop", IF reasons' = {} THEN "dispatch" ELSE "stopped")
  /\ UNCHANGED <<job, position, counter, counters, flight, typed, dispatched,
                 history>>

\* Faulty: one request more than there are threads.
DispatchOneMore == /\ At("dispatch", "next")
                   /\ fresh + retried <= Threads
                   /\ counter' = counter + 1 /\ dispatched' = dispatched + 1
                   /\ fresh' = fresh + 1
                   /\ UNCHANGED <<job, position, counters, retried, reasons,
                                  typed, history>>

Dispatch == /\ At("dispatch", "next")
            /\ fresh + retried < Threads
            /\ counter' = counter + 1 /\ dispatched' = dispatched + 1
            /\ fresh' = fresh + 1
            /\ UNCHANGED <<job, position, counters, retried, reasons, typed,
                           history>>

(* Reset sets the input back under inputMutex, and then the request counter;
   it leaves the counters that the request counter divides. *)
ResetInput   == position' = 0
ResetCounter == counter' = 0 /\ UNCHANGED counters

NextJob == /\ At("drain", "next")
           /\ fresh + retried = 0
           /\ job < Jobs
           /\ job' = job + 1
           /\ ResetInput /\ ResetCounter
           /\ dispatched' = 0 /\ answered' = 0 /\ forbidden' = 0 /\ limited' = 0
           /\ UNCHANGED <<flight, reasons, typed>>

-----------------------------------------------------------------------------
(* The console's restart: the same Reset, in the middle of a job, with requests
   in flight and the main loop wherever it is. *)
RestartInput == /\ console = "idle"
                /\ restarts < MaxRestarts /\ dispatched <= RestartsWithin
                /\ console' = "counter"
                /\ ResetInput
                /\ UNCHANGED <<main, job, counter, counters, flight, reasons,
                               restarts, dispatched, history>>

RestartCounter == /\ console = "counter" /\ console' = "idle"
                  /\ ResetCounter
                  /\ restarts' = restarts + 1
                  /\ UNCHANGED <<main, job, position, flight, reasons,
                                 dispatched, history>>

-----------------------------------------------------------------------------
(* runTask *)
Leaves == \/ fresh > 0 /\ fresh' = fresh - 1 /\ UNCHANGED retried
          \/ retried > 0 /\ retried' = retried - 1 /\ UNCHANGED fresh

One(b) == IF b THEN 1 ELSE 0

\* Faulty: the two status counters share a branch.
AnswerMixed(status) ==
  /\ Leaves
  /\ \E replayFails \in BOOLEAN : spuriousErrorCounter' = One(replayFails)
  /\ count403' = count403 + One((StopOn403 \/ StopOnAll) /\ status \in {403, 429})
  /\ count429' = count429 + One(StopOnAll /\ status \in {403, 429})
  /\ answered' = answered + 1
  /\ forbidden' = forbidden + One(status = 403)
  /\ limited' = limited + One(status = 429)
  /\ UNCHANGED <<main, job, position, counter, reasons, typed, dispatched>>

(* A response resets the spurious errors and is counted by its status; a match
   that cannot be prepared for the replay proxy counts as an error. *)
Answer(status) ==
  /\ Leaves
  /\ \E replayFails \in BOOLEAN : spuriousErrorCounter' = One(replayFails)
  /\ count403' = count403 + One((StopOn403 \/ StopOnAll) /\ status = 403)
  /\ count429' = count429 + One(StopOnAll /\ status = 429)
  /\ answered' = answered + 1
  /\ forbidden' = forbidden + One(status = 403)
  /\ limited' = limited + One(status = 429)
  /\ UNCHANGED <<main, job, position, counter, reasons, typed, dispatched>>

(* A first failure is retried and not counted. *)
Retry == /\ fresh > 0
         /\ fresh' = fresh - 1 /\ retried' = retried + 1
         /\ UNCHANGED <<main, job, position, counter, counters, reasons, typed,
                        dispatched, history>>

\* Faulty: a request that fails on its second attempt is not counted.
FailUncounted == /\ Leaves
                 /\ spuriousErrorCounter' = spuriousErrorCounter
                                            + One(retried' = retried)
                 /\ UNCHANGED <<main, job, position, counter, count403, count429,
                                reasons, typed, dispatched, history>>

(* incError: a request that cannot be prepared, or that fails again.  Its
   other counter, errorCounter, is only displayed. *)
Fail == /\ Leaves
        /\ spuriousErrorCounter' = spuriousErrorCounter + 1
        /\ UNCHANGED <<main, job, position, counter, count403, count429,
                       reasons, typed, dispatched, history>>

Over == \/ main = "stopped"
        \/ main = "drain" /\ job = Jobs /\ fresh + retried = 0
Ended == Over /\ UNCHANGED vars

Next == \/ NextInput \/ CheckStop \/ Dispatch \/ NextJob
        \/ RestartInput \/ RestartCounter
        \/ \E status \in Statuses : Answer(status)
        \/ Retry \/ Fail \/ Ended

Spec == Init /\ [][Next]_vars

-----------------------------------------------------------------------------
Larger(a, b) == IF a > b THEN a ELSE b

(* The type of the state; requests in flight never exceed the threads, every
   request of the job is in flight, answered or failed, and the counter holds
   at most the requests of the job. *)
TypeOK ==
  /\ main \in {"next", "checkStop", "dispatch", "drain", "stopped"}
  /\ job \in 1 .. Larger(Jobs, 1)
  /\ position \in 0..N
  /\ console \in {"idle", "counter"} /\ restarts \in 0..MaxRestarts
  /\ counter \in 0..dispatched
  /\ fresh + retried \in 0..Threads
  /\ answered + fresh + retried \in 0..dispatched
  /\ reasons \subseteq Reasons

\* Every response of this job so far is a 403, and no request has failed.
OnlyForbidden ==
  forbidden = answered /\ answered + fresh + retried = dispatched

(* A target that answers nothing but 403 is given up after so many requests:
   the requests in flight lag behind the counter, so the limit of 95% bites
   at twenty times the threads. *)
ForbiddenGivesUp ==
  (StopOn403 \/ StopOnAll) /\ OnlyForbidden
    => counter <= Larger(MinSamples, 20 * Threads) + 1

(* A target that answers nothing is given up after three requests per thread
   (or the first samples), although every request is tried twice. *)
ErrorsGiveUp ==
  (StopOnErrors \/ StopOnAll) /\ answered = 0
    => counter <= Larger(MinSamples, 3 * Threads) + 1

(* A hopeless target is given up after a bounded number of requests. *)
GivesUp == ForbiddenGivesUp /\ ErrorsGiveUp

(* As long as the counter was never reset, by a queue job or a restart, a stop
   for 403s, or for 429s, means that the responses so far had more than that
   share of them (job.go:599 and 613). *)
FirstPassStopsJustified ==
  [][job = 1 /\ restarts = 0 =>
       /\ "403" \in reasons' \ reasons => 20 * forbidden > 19 * answered
       /\ "429" \in reasons' \ reasons => 5 * limited > answered]_vars

(* optionsparser.go:83, flag -sf: "Stop when > 95% of responses return 403
   Forbidden".  The responses are those of the job at the time of the stop. *)
Stop403Justified ==
  [][("403" \in reasons' \ reasons) => 20 * forbidden > 19 * answered]_vars
=============================================================================
