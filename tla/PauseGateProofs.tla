-------------------------- MODULE PauseGateProofs --------------------------
(***************************************************************************)
(* The safety of the pause gate for any set of workers: the inductive      *)
(* invariant IInv of PauseGate, the invariants that follow from it, and    *)
(* that every step of the gate is a step of its contract or a stutter.     *)
(***************************************************************************)
EXTENDS PauseGate, Naturals, TLAPS

(* IInv holds before Start. *)
LEMMA InitEstablishes == Init => IInv
BY DistinctGoroutines
   DEF Init, IInv, TypeOK, HolderHolds, HolderKnows, StopOrder, AfterStop,
       ConsoleOpen, Coherent, Flag, GateExcludes, Inside, Blocked, CallerStates, HoldStates,
       Callers, Visitors, Goroutines

(* Every step of Pause, Resume, Stop, the console and the checkpoint keeps
   IInv: pauseStateMutex excludes every second goroutine from the places that
   move the flag and the lock apart. *)
LEMMA NextKeeps == IInv /\ [Next]_vars => IInv'
<1> USE DistinctGoroutines
    DEF IInv, TypeOK, HolderHolds, HolderKnows, StopOrder, AfterStop, ConsoleOpen,
        Coherent, Flag, GateExcludes, Inside, Blocked, CallerStates, HoldStates, Callers,
        Visitors, Goroutines, Move, gateVars, runVars
<1> SUFFICES ASSUME IInv, [Next]_vars PROVE IInv'
  OBVIOUS
<1>1. CASE Start
  BY <1>1 DEF Start
<1>2. CASE EnterKey
  BY <1>2 DEF EnterKey
<1>3. CASE ResumeCommand
  BY <1>3 DEF ResumeCommand
<1>4. ASSUME NEW g \in Callers, CallStop(g) PROVE IInv'
  BY <1>4 DEF CallStop
<1>5. ASSUME NEW g \in Callers, Step(g) PROVE IInv'
  <2>1. CASE LockStateMutex(g)
    BY <2>1 DEF LockStateMutex
  <2>2. CASE PauseIfRunning(g)
    BY <2>2 DEF PauseIfRunning
  <2>3. CASE FlipPaused(g)
    BY <2>3 DEF FlipPaused
  <2>4. CASE AnnounceWriter(g)
    BY <2>4 DEF AnnounceWriter
  <2>5. CASE AcquireWriter(g)
    BY <2>5 DEF AcquireWriter
  <2>6. CASE ResumeIfPaused(g)
    BY <2>6 DEF ResumeIfPaused
  <2>7. CASE UnlockWriter(g)
    BY <2>7 DEF UnlockWriter
  <2>8. CASE ReleaseStateMutex(g)
    BY <2>8 DEF ReleaseStateMutex
  <2>9. CASE StopRunning(g)
    <3>1. g \in {Signal, Main} /\ g \in stopping
      BY <2>9 DEF StopRunning
    <3>2. TypeOK' /\ HolderHolds' /\ HolderKnows'
      BY <2>9, <3>1 DEF StopRunning
    <3>3. StopOrder' /\ AfterStop' /\ ConsoleOpen'
      BY <2>9, <3>1 DEF StopRunning
    <3>4. (stateOwner = NoOne => Coherent)' /\ GateExcludes'
      BY <2>9, <3>1 DEF StopRunning
    <3> QED
      BY <3>2, <3>3, <3>4
  <2> QED
    BY <1>5, <2>1, <2>2, <2>3, <2>4, <2>5, <2>6, <2>7, <2>8, <2>9 DEF Step
<1>6. ASSUME NEW v \in Visitors, Arrive(v) PROVE IInv'
  BY <1>6 DEF Arrive
<1>7. ASSUME NEW v \in Visitors, Leave(v) PROVE IInv'
  BY <1>7 DEF Leave
<1>8. CASE UNCHANGED vars
  BY <1>8 DEF vars
<1> QED
  BY <1>1, <1>2, <1>3, <1>4, <1>5, <1>6, <1>7, <1>8 DEF Next

(* The inductive invariant holds in every reachable state. *)
THEOREM Inductive == Spec => []IInv
<1>1. Init => IInv
  BY InitEstablishes
<1>2. IInv /\ [Next]_vars => IInv'
  BY NextKeeps
<1> QED
  BY <1>1, <1>2, PTL DEF Spec

(* The state keeps its type, for any set of workers. *)
THEOREM TypeCorrect == Spec => []TypeOK
<1>1. IInv => TypeOK
  BY DEF IInv
<1> QED
  BY <1>1, Inductive, PTL

(* Between calls of Pause and Resume the flag and the lock agree; no
   interleaving of Pause, Resume and Stop unlocks an unlocked RWMutex; nobody
   is past a held gate or waits at an open one; and once a Stop has returned,
   no Pause closes the gate again. *)
THEOREM SoundGate == Spec => []GateSound
<1>1. IInv => GateSound
  <2> SUFFICES ASSUME IInv PROVE GateSound
    OBVIOUS
  <2>1. FlagMatchesGate
    BY DEF IInv, FlagMatchesGate, Coherent, Flag
  <2>2. NoUnlockOfUnlocked
    BY DEF IInv, HolderKnows, NoUnlockOfUnlocked, Flag
  <2>3. GateExcludes
    BY DEF IInv
  <2>4. OpenAfterStop
    BY DEF IInv, AfterStop, OpenAfterStop, Flag
  <2> QED
    BY <2>1, <2>2, <2>3, <2>4 DEF GateSound
<1> QED
  BY <1>1, Inductive, PTL

(* The job is never left paused behind a closed console. *)
THEOREM ConsoleOwnsPause == Spec => []NotPausedBehindConsole
<1>1. IInv => NotPausedBehindConsole
  BY DEF IInv, ConsoleOpen, NotPausedBehindConsole
<1> QED
  BY <1>1, Inductive, PTL

(* Every behaviour of the gate, seen through the mapping of the module
   PauseGate, is a behaviour of the safety part of its contract. *)
THEOREM RefinesContract == Spec => Contract!SafeSpec
<1>1. Init => Contract!Init
  BY DistinctGoroutines
     DEF Init, Contract!Init, Blocked, Callers, Visitors, Goroutines
<1>2. IInv /\ [Next]_vars => [Contract!Next]_Contract!vars
  <2> USE DistinctGoroutines
      DEF Contract!Next, Contract!vars, Contract!Close, Contract!Open,
          Contract!Wait, Contract!BeginStop, Contract!EndStop, IInv, TypeOK,
          HolderHolds, HolderKnows, StopOrder, AfterStop, ConsoleOpen, Coherent, Flag,
          GateExcludes, Inside, Blocked, CallerStates, HoldStates, Callers,
          Visitors, Goroutines, Move, gateVars, runVars
  <2> SUFFICES ASSUME IInv, [Next]_vars
               PROVE  [Contract!Next]_Contract!vars
    OBVIOUS
  <2>1. CASE Start
    BY <2>1 DEF Start
  <2>2. CASE EnterKey
    BY <2>2 DEF EnterKey
  <2>3. CASE ResumeCommand
    BY <2>3 DEF ResumeCommand
  <2>4. ASSUME NEW g \in Callers, CallStop(g)
        PROVE  [Contract!Next]_Contract!vars
    BY <2>4 DEF CallStop
  <2>5. ASSUME NEW g \in Callers, Step(g)
        PROVE  [Contract!Next]_Contract!vars
    <3>1. CASE LockStateMutex(g)
      BY <3>1 DEF LockStateMutex
    <3>2. CASE PauseIfRunning(g)
      BY <3>2 DEF PauseIfRunning
    <3>3. CASE FlipPaused(g)
      BY <3>3 DEF FlipPaused
    <3>4. CASE AnnounceWriter(g)
      BY <3>4 DEF AnnounceWriter
    <3>5. CASE AcquireWriter(g)
      BY <3>5 DEF AcquireWriter
    <3>6. CASE ResumeIfPaused(g)
      BY <3>6 DEF ResumeIfPaused
    <3>7. CASE UnlockWriter(g)
      BY <3>7 DEF UnlockWriter
    <3>8. CASE ReleaseStateMutex(g)
      BY <3>8 DEF ReleaseStateMutex
    <3>9. CASE StopRunning(g)
      BY <3>9 DEF StopRunning
    <3> QED
      BY <2>5, <3>1, <3>2, <3>3, <3>4, <3>5, <3>6, <3>7, <3>8, <3>9 DEF Step
  <2>6. ASSUME NEW v \in Visitors, Arrive(v)
        PROVE  [Contract!Next]_Contract!vars
    BY <2>6 DEF Arrive
  <2>7. ASSUME NEW v \in Visitors, Leave(v)
        PROVE  [Contract!Next]_Contract!vars
    BY <2>7 DEF Leave
  <2>8. CASE UNCHANGED vars
    BY <2>8 DEF vars
  <2> QED
    BY <2>1, <2>2, <2>3, <2>4, <2>5, <2>6, <2>7, <2>8 DEF Next
<1> QED
  BY <1>1, <1>2, Inductive, PTL DEF Spec, Contract!SafeSpec

-----------------------------------------------------------------------------
(* A call comes to its end. *)

(* The steps ahead of a goroutine in a call of Pause, Resume or Stop. *)
CallAhead(place) ==
  CASE place = "pause"          -> 6
    [] place = "pauseIfRunning" -> 5
    [] place = "stop"           -> 5
    [] place = "flip"           -> 4
    [] place = "resume"         -> 4
    [] place = "lock"           -> 3
    [] place = "resumeIfPaused" -> 3
    [] place = "drain"          -> 2
    [] place = "unlock"         -> 2
    [] place = "release"        -> 1
    [] OTHER                    -> 0

(* Who holds pauseStateMutex waits neither for that nor for another writer,
   only for visitors that are past the gate. *)
HolderWaitsForVisitors ==
  /\ stateOwner # NoOne => stateOwner \in Callers /\ pc[stateOwner] \in HoldStates
  /\ \A g \in Callers : /\ pc[g] = "lock" => writer = "none"
                        /\ pc[g] = "drain" => writer = "pending"

(* A step of a call brings it closer to its end, and while a pause waits for
   the visitors that are past the gate, these only get fewer. *)
CallsGoOn ==
  /\ \A g \in Callers :
       CallAhead(pc[g]) # 0 /\ pc'[g] # pc[g] => CallAhead(pc'[g]) < CallAhead(pc[g])
  /\ writer = "pending" => Inside' \subseteq Inside

LEMMA CallsGoOnStep == IInv /\ [Next]_vars => CallsGoOn
<1> SUFFICES ASSUME IInv, [Next]_vars PROVE CallsGoOn
  OBVIOUS
<1>0. /\ pc \in [Goroutines -> CallerStates \cup {"start", "inside", "blocked"}]
      /\ \A v \in Visitors, g \in Callers : v = g => g = Main
      /\ Callers \subseteq Goroutines /\ Visitors \subseteq Goroutines
  BY DistinctGoroutines DEF IInv, TypeOK, Callers, Visitors, Goroutines
<1>1. ASSUME UNCHANGED pc PROVE CallsGoOn
  BY <1>1 DEF CallsGoOn, Inside
<1>2. ASSUME NEW g \in Goroutines, NEW from, NEW to, Move(g, from, to),
             CallAhead(from) = 0 \/ CallAhead(to) < CallAhead(from),
             to = "inside" => writer # "pending"
      PROVE  CallsGoOn
  <2>1. \A h \in Goroutines : pc'[h] = IF h = g THEN to ELSE pc[h]
    BY <1>0, <1>2 DEF Move
  <2>2. pc[g] = from
    BY <1>2 DEF Move
  <2> QED
    BY <1>0, <1>2, <2>1, <2>2 DEF CallsGoOn, Inside
<1>3. CASE Start \/ EnterKey \/ ResumeCommand
  <2>1. Console \in Goroutines /\ Main \in Goroutines
    BY DEF Goroutines, Callers
  <2>2. CallAhead("start") = 0 /\ CallAhead("idle") = 0
    BY DEF CallAhead
  <2> QED
    BY <1>2, <1>3, <2>1, <2>2 DEF Start, EnterKey, ResumeCommand
<1>4. ASSUME NEW g \in Callers, CallStop(g) PROVE CallsGoOn
  <2>1. CallAhead("idle") = 0 /\ Move(g, "idle", "stop")
    BY <1>4 DEF CallAhead, CallStop
  <2> QED
    BY <1>0, <1>2, <2>1
<1>5. ASSUME NEW g \in Callers, Step(g) PROVE CallsGoOn
  <2>1. CASE UnlockWriter(g)
    <3>1. pc[g] = "unlock" /\ writer = "held"
      BY <2>1 DEF UnlockWriter, IInv, HolderKnows, Flag
    <3>2. \A h \in Callers : /\ h = g => pc'[h] = "release"
                             /\ h # g /\ h \in Blocked => pc'[h] = "inside"
                             /\ h # g /\ h \notin Blocked => pc'[h] = pc[h]
      BY <1>0, <2>1 DEF UnlockWriter
    <3>3. CallAhead("release") < CallAhead("unlock") /\ CallAhead("blocked") = 0
      BY DEF CallAhead
    <3> QED
      BY <3>1, <3>2, <3>3 DEF CallsGoOn, Blocked
  <2>2. CASE LockStateMutex(g) \/ PauseIfRunning(g) \/ FlipPaused(g)
    <3>1. /\ CallAhead("pauseIfRunning") < CallAhead("pause")
          /\ CallAhead("resumeIfPaused") < CallAhead("resume")
          /\ CallAhead("flip") < CallAhead("pauseIfRunning")
          /\ CallAhead("release") < CallAhead("pauseIfRunning")
          /\ CallAhead("release") < CallAhead("flip")
          /\ CallAhead("lock") < CallAhead("flip")
      BY DEF CallAhead
    <3> QED
      BY <1>0, <1>2, <2>2, <3>1 DEF LockStateMutex, PauseIfRunning, FlipPaused
  <2>3. CASE AnnounceWriter(g) \/ AcquireWriter(g) \/ ResumeIfPaused(g)
    <3>1. /\ CallAhead("drain") < CallAhead("lock")
          /\ CallAhead("release") < CallAhead("drain")
          /\ CallAhead("unlock") < CallAhead("resumeIfPaused")
          /\ CallAhead("release") < CallAhead("resumeIfPaused")
      BY DEF CallAhead
    <3> QED
      BY <1>0, <1>2, <2>3, <3>1 DEF AnnounceWriter, AcquireWriter, ResumeIfPaused
  <2>4. CASE ReleaseStateMutex(g) \/ StopRunning(g)
    <3>1. /\ CallAhead("idle") < CallAhead("release")
          /\ CallAhead("resume") < CallAhead("stop")
      BY DEF CallAhead
    <3> QED
      BY <1>0, <1>2, <2>4, <3>1 DEF ReleaseStateMutex, StopRunning
  <2> QED
    BY <1>5, <2>1, <2>2, <2>3, <2>4 DEF Step
<1>6. ASSUME NEW v \in Visitors, Arrive(v) \/ Leave(v) PROVE CallsGoOn
  <2>1. CallAhead("idle") = 0 /\ CallAhead("inside") = 0
    BY DEF CallAhead
  <2>2. CASE Arrive(v)
    BY <1>0, <1>2, <2>1, <2>2 DEF Arrive
  <2>3. CASE Leave(v)
    BY <1>0, <1>2, <2>1, <2>3 DEF Leave
  <2> QED
    BY <1>6, <2>2, <2>3
<1> QED
  BY <1>1, <1>3, <1>4, <1>5, <1>6 DEF Next, vars

(* The console, the signal handler and the main loop cannot deadlock each
   other: a call of Pause, Resume or Stop has at most six steps, whoever holds
   pauseStateMutex waits for nobody but the visitors that are past the gate,
   and nobody follows them in while it waits (job.go:276-320 and 643-651).
   What fairness adds to this is only that the steps are taken. *)
THEOREM CallsEnd == Spec => []HolderWaitsForVisitors /\ [][CallsGoOn]_vars
<1>1. IInv => HolderWaitsForVisitors
  BY DEF IInv, TypeOK, HolderHolds, HolderKnows, Flag, HolderWaitsForVisitors
<1> QED
  BY <1>1, Inductive, CallsGoOnStep, PTL DEF Spec
=============================================================================
