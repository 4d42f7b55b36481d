----------------------------- MODULE StopProofs -----------------------------
(***************************************************************************)
(* The stopping conditions for any number of threads, inputs, jobs and     *)
(* restarts and any size of the first samples.                             *)
(***************************************************************************)
EXTENDS StopConditions, TLAPS

Bound403    == Larger(MinSamples, 20 * Threads)
BoundErrors == Larger(MinSamples, 3 * Threads)

\* The counters against the history: the status counters also hold what
\* earlier jobs left in them, and the spurious errors what this job failed.
CountInv ==
  /\ {counter, spuriousErrorCounter, count403, count429, fresh, retried,
      restarts, dispatched, answered, forbidden, limited} \subseteq Nat
  /\ fresh + retried <= Threads
  /\ answered + fresh + retried <= dispatched
  /\ counter <= dispatched
  /\ forbidden <= answered /\ limited <= answered
  /\ StopOn403 \/ StopOnAll => forbidden <= count403
  /\ answered = 0 => dispatched <= spuriousErrorCounter + fresh + retried
  /\ job \in Nat \ {0}
  /\ job = 1 =>
       /\ count403 <= forbidden /\ count429 <= limited
       /\ restarts = 0 => counter = dispatched

\* A dispatch that CheckStop has just allowed is within the bounds.
LimitInv ==
  /\ (StopOn403 \/ StopOnAll) /\ OnlyForbidden =>
       /\ counter <= Bound403 + 1
       /\ main = "dispatch" => counter <= Bound403
  /\ (StopOnErrors \/ StopOnAll) /\ answered = 0 =>
       /\ counter <= BoundErrors + 1
       /\ main = "dispatch" => counter <= BoundErrors

StopInv == CountInv /\ LimitInv

LEMMA StopInit == Init => StopInv
BY StopAssumption DEF Init, StopInv, CountInv, LimitInv, OnlyForbidden, Bound403,
   BoundErrors, Larger

LEMMA CountStep == CountInv /\ [Next]_vars => CountInv'
<1> USE StopAssumption DEF CountInv, counters, flight, history, typed, At
<1> SUFFICES ASSUME CountInv, [Next]_vars PROVE CountInv'
  OBVIOUS
<1>1. CASE NextInput
  BY <1>1 DEF NextInput
<1>2. CASE CheckStop
  BY <1>2 DEF CheckStop
<1>3. CASE Dispatch
  BY <1>3 DEF Dispatch
<1>4. CASE NextJob
  BY <1>4 DEF NextJob, ResetInput, ResetCounter
<1>5. ASSUME NEW status \in Statuses, Answer(status) PROVE CountInv'
  BY <1>5 DEF Answer, Leaves, One
<1>6. CASE Retry
  BY <1>6 DEF Retry
<1>7. CASE Fail
  BY <1>7 DEF Fail, Leaves
<1>8. CASE Ended \/ UNCHANGED vars
  BY <1>8 DEF Ended, vars
<1>9. CASE RestartInput
  BY <1>9 DEF RestartInput, ResetInput
<1>10. CASE RestartCounter
  BY <1>10 DEF RestartCounter, ResetCounter
<1> QED
  BY <1>1, <1>2, <1>3, <1>4, <1>5, <1>6, <1>7, <1>8, <1>9, <1>10 DEF Next

(* What CheckStop lets through: the responses lag behind the counter by the
   requests in flight, at most one for each thread. *)
LEMMA CheckLimits ==
  ASSUME CountInv, CheckStop, main' = "dispatch"
  PROVE  /\ (StopOn403 \/ StopOnAll) /\ OnlyForbidden => counter <= Bound403
         /\ (StopOnErrors \/ StopOnAll) /\ answered = 0
              => counter <= BoundErrors
<1> USE StopAssumption DEF CountInv
<1>1. ~Exceeded("403") /\ ~Exceeded("errors")
  BY DEF CheckStop, At, Reasons
<1>2. ASSUME StopOn403 \/ StopOnAll, OnlyForbidden PROVE counter <= Bound403
  <2>1. counter <= MinSamples \/ 20 * count403 <= 19 * counter
    BY <1>1, <1>2 DEF Exceeded, Over403
  <2>2. counter - Threads <= count403
    BY <1>2 DEF OnlyForbidden
  <2> QED
    BY <2>1, <2>2 DEF Bound403, Larger
<1>3. ASSUME StopOnErrors \/ StopOnAll, answered = 0
      PROVE  counter <= BoundErrors
  <2>1. counter <= MinSamples \/ spuriousErrorCounter <= 2 * Threads
    BY <1>1, <1>3 DEF Exceeded, OverErrors
  <2> QED
    BY <1>3, <2>1 DEF BoundErrors, Larger
<1> QED
  BY <1>2, <1>3

LEMMA LimitStep == StopInv /\ [Next]_vars => LimitInv'
<1> USE StopAssumption
    DEF CountInv, LimitInv, OnlyForbidden, counters, flight, history, typed, At
<1> SUFFICES ASSUME StopInv, [Next]_vars PROVE LimitInv'
  OBVIOUS
<1>0. CountInv /\ LimitInv
  BY DEF StopInv
<1>b. Bound403 \in Nat /\ BoundErrors \in Nat
  BY DEF Bound403, BoundErrors, Larger
<1>1. CASE NextInput
  BY <1>0, <1>1 DEF NextInput
<1>2. CASE CheckStop
  BY <1>0, <1>2, CheckLimits DEF CheckStop
<1>3. CASE Dispatch
  BY <1>0, <1>b, <1>3 DEF Dispatch
<1>4. CASE NextJob
  BY <1>0, <1>b, <1>4 DEF NextJob, ResetInput, ResetCounter
<1>5. ASSUME NEW status \in Statuses, Answer(status) PROVE LimitInv'
  BY <1>0, <1>5 DEF Answer, Leaves, One
<1>6. CASE Retry
  BY <1>0, <1>6 DEF Retry
<1>7. CASE Fail
  BY <1>0, <1>7 DEF Fail, Leaves
<1>8. CASE Ended \/ UNCHANGED vars
  BY <1>0, <1>8 DEF Ended, vars
<1>9. CASE RestartInput
  BY <1>0, <1>9 DEF RestartInput, ResetInput
<1>10. CASE RestartCounter
  BY <1>0, <1>b, <1>10 DEF RestartCounter, ResetCounter
<1> QED
  BY <1>1, <1>2, <1>3, <1>4, <1>5, <1>6, <1>7, <1>8, <1>9, <1>10 DEF Next

LEMMA StopInvariant == Spec => []StopInv
<1>1. StopInv /\ [Next]_vars => StopInv'
  BY CountStep, LimitStep DEF StopInv
<1> QED
  BY <1>1, StopInit, PTL DEF Spec

(* A target that answers only 403 is given up after twenty requests for each
   thread, or the first samples, and one more; a target that answers nothing
   after three requests for each thread, or the first samples, and one more. *)
THEOREM Hopeless == Spec => []GivesUp
<1>1. StopInv => GivesUp
  BY DEF StopInv, LimitInv, OnlyForbidden, Bound403, BoundErrors,
     ForbiddenGivesUp, ErrorsGiveUp, GivesUp
<1> QED
  BY <1>1, StopInvariant, PTL

(* As long as neither a queue job nor a restart has reset the counter, a stop
   for 403s or 429s is justified by the responses. *)
THEOREM FirstPass == Spec => FirstPassStopsJustified
<1>1. StopInv /\ [Next]_vars =>
        [job = 1 /\ restarts = 0 =>
           /\ "403" \in reasons' \ reasons => 20 * forbidden > 19 * answered
           /\ "429" \in reasons' \ reasons => 5 * limited > answered]_vars
  <2> SUFFICES ASSUME StopInv, Next, job = 1, restarts = 0
               PROVE
                 /\ "403" \in reasons' \ reasons => 20 * forbidden > 19 * answered
                 /\ "429" \in reasons' \ reasons => 5 * limited > answered
    OBVIOUS
  <2>1. CASE CheckStop
    <3>1. CountInv
      BY DEF StopInv
    <3>2. ASSUME "403" \in reasons' PROVE 20 * forbidden > 19 * answered
      BY <2>1, <3>1, <3>2 DEF CheckStop, Exceeded, Over403, CountInv
    <3>3. ASSUME "429" \in reasons' PROVE 5 * limited > answered
      BY <2>1, <3>1, <3>3 DEF CheckStop, Exceeded, Over429, CountInv
    <3> QED
      BY <3>2, <3>3
  <2>2. CASE ~CheckStop
    <3>1. reasons' = reasons
      BY <2>2 DEF Next, NextInput, Dispatch, NextJob, RestartInput,
         RestartCounter, Answer, Retry, Fail, Ended, vars
    <3> QED
      BY <3>1
  <2> QED
    BY <2>1, <2>2
<1> QED
  BY <1>1, StopInvariant, PTL DEF Spec, FirstPassStopsJustified

(* Where the main loop is against the inputs and jobs there are. *)
PlaceInv ==
  /\ main \in {"next", "checkStop", "dispatch", "drain", "stopped"}
  /\ job <= Larger(Jobs, 1)
  /\ position \in 0..N
  /\ console \in {"idle", "counter"} /\ restarts \in 0..MaxRestarts
  /\ restarts = MaxRestarts => console = "idle"
  /\ reasons \subseteq Reasons

LEMMA PlaceStep == CountInv /\ PlaceInv /\ [Next]_vars => PlaceInv'
<1> USE StopAssumption
    DEF CountInv, PlaceInv, counters, flight, history, typed, At, Larger
<1> SUFFICES ASSUME CountInv, PlaceInv, [Next]_vars PROVE PlaceInv'
  OBVIOUS
<1>1. CASE NextInput
  BY <1>1 DEF NextInput
<1>2. CASE CheckStop
  BY <1>2 DEF CheckStop
<1>3. CASE Dispatch
  BY <1>3 DEF Dispatch
<1>4. CASE NextJob
  BY <1>4 DEF NextJob, ResetInput, ResetCounter
<1>5. ASSUME NEW status \in Statuses, Answer(status) PROVE PlaceInv'
  BY <1>5 DEF Answer
<1>6. CASE Retry \/ Fail
  BY <1>6 DEF Retry, Fail
<1>7. CASE Ended \/ UNCHANGED vars
  BY <1>7 DEF Ended, vars
<1>8. CASE RestartInput
  BY <1>8 DEF RestartInput, ResetInput
<1>9. CASE RestartCounter
  BY <1>9 DEF RestartCounter, ResetCounter
<1> QED
  BY <1>1, <1>2, <1>3, <1>4, <1>5, <1>6, <1>7, <1>8, <1>9 DEF Next

(* No request goes out beyond the inputs or the threads, and each is in
   flight, answered or failed. *)
THEOREM TypeCorrect == Spec => []TypeOK
<1>1. Init => CountInv /\ PlaceInv
  BY StopInit, StopAssumption DEF StopInv, Init, PlaceInv, Larger
<1>2. CountInv /\ PlaceInv => TypeOK
  <2> SUFFICES ASSUME CountInv, PlaceInv PROVE TypeOK
    OBVIOUS
  <2>1. Larger(Jobs, 1) \in Nat
    BY StopAssumption DEF Larger
  <2> QED
    BY <2>1, StopAssumption DEF CountInv, PlaceInv, TypeOK
<1> QED
  BY <1>1, <1>2, CountStep, PlaceStep, PTL DEF Spec
=============================================================================
