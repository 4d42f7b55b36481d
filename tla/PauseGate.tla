----------------------------- MODULE PauseGate -----------------------------
(***************************************************************************)
(* The pause gate of pkg/engine/job.go (Pause, Resume, pauseCheckpoint,    *)
(* Stop) at the grain of its mutex operations and atomic loads and stores, *)
(* with the goroutines that use it: the console (pkg/interactive), the     *)
(* SIGINT monitor, the main loop, and the goroutines that only cross the   *)
(* checkpoint (request workers and the progress goroutine).                *)
(*                                                                         *)
(* pauseMutex is a Go sync.RWMutex: Lock announces itself, which makes     *)
(* every later RLock block, then waits for the readers that are inside;    *)
(* Unlock admits every blocked reader at once.                             *)
(***************************************************************************)
CONSTANTS Workers,               \* goroutines that only cross the checkpoint
          Console, Signal, Main, \* goroutines that pause, resume and stop
          NoOne                  \* pauseStateMutex is free

Callers    == {Console, Signal, Main}
Visitors   == Workers \cup {Main}
Goroutines == Workers \cup Callers

ASSUME DistinctGoroutines ==
  /\ Callers \cap Workers = {}
  /\ Console # Signal /\ Signal # Main /\ Console # Main
  /\ NoOne \notin Goroutines

VARIABLES
  running,        \* Job.running
  paused,         \* Job.paused, guarded by pauseStateMutex
  stateOwner,     \* holder of pauseStateMutex
  writer,         \* write side of pauseMutex: "none", "pending" or "held"
  pc,             \* what each goroutine does next
  stopping,       \* the goroutines inside Stop
  stopReturned,   \* some Stop has returned
  consolePaused   \* interactive.paused

vars == <<running, paused, stateOwner, writer, pc, stopping, stopReturned,
          consolePaused>>

gateVars == <<paused, stateOwner, writer>>
runVars  == <<running, stopping, stopReturned>>

Inside  == {g \in Visitors : pc[g] = "inside"}
Blocked == {g \in Visitors : pc[g] = "blocked"}

Move(g, from, to) == pc[g] = from /\ pc' = [pc EXCEPT ![g] = to]

Init == /\ running = FALSE
        /\ paused = FALSE
        /\ stateOwner = NoOne
        /\ writer = "none"
        /\ pc = [g \in Goroutines |-> IF g = Main THEN "start" ELSE "idle"]
        /\ stopping = {}
        /\ stopReturned = FALSE
        /\ consolePaused = FALSE

-----------------------------------------------------------------------------
(* Faulty variants of the actions below, for checking that each property can
   fail: see PROJECT.json, "mutants". *)

\* Enter stops the job instead of resuming it.
EnterKeyStops ==
  /\ consolePaused' = ~consolePaused
  /\ Move(Console, "idle", IF consolePaused' THEN "pause" ELSE "stop")
  /\ UNCHANGED <<gateVars, runVars>>

\* "resume" closes the console and does not call Resume.
ResumeCommandForgets ==
  /\ pc[Console] = "idle"
  /\ consolePaused' = FALSE
  /\ UNCHANGED <<gateVars, runVars, pc>>

\* Pause and Resume without pauseStateMutex.
LockNothing(g) ==
  /\ \/ Move(g, "pause", "pauseIfRunning")
     \/ Move(g, "resume", "resumeIfPaused")
  /\ stateOwner' = g
  /\ UNCHANGED <<runVars, paused, writer, consolePaused>>

\* Pause does not ask whether the job is stopping.
PauseAlways(g) ==
  /\ Move(g, "pauseIfRunning", "flip")
  /\ UNCHANGED <<gateVars, runVars, consolePaused>>

\* Resume clears the flag and forgets the gate.
ResumeKeepsGate(g) ==
  /\ Move(g, "resumeIfPaused", "release")
  /\ paused' = FALSE
  /\ UNCHANGED <<runVars, stateOwner, writer, consolePaused>>

-----------------------------------------------------------------------------
(* Start: the console goroutine is already alive when setRunning(true) runs;
   the SIGINT monitor is installed only after it. *)
Start == /\ Move(Main, "start", "idle")
         /\ running' = TRUE
         /\ UNCHANGED <<gateVars, stopping, stopReturned, consolePaused>>

(* Enter toggles the console and pauses, or resumes; "resume" and "restart"
   close the console and resume. *)
EnterKey ==
  /\ consolePaused' = ~consolePaused
  /\ Move(Console, "idle", IF consolePaused' THEN "pause" ELSE "resume")
  /\ UNCHANGED <<gateVars, runVars>>

ResumeCommand ==
  /\ consolePaused' = FALSE
  /\ Move(Console, "idle", "resume")
  /\ UNCHANGED <<gateVars, runVars>>

(* A SIGINT or SIGTERM, CheckStop, and the deferred Stop of Start all call
   Stop. *)
CallStop(g) ==
  /\ g \in {Signal, Main}
  /\ pc[Main] # "start"
  /\ Move(g, "idle", "stop")
  /\ stopping' = stopping \cup {g}
  /\ UNCHANGED <<gateVars, running, stopReturned, consolePaused>>

-----------------------------------------------------------------------------
(* Pause *)
LockStateMutex(g) ==
  /\ stateOwner = NoOne
  /\ \/ Move(g, "pause", "pauseIfRunning")
     \/ Move(g, "resume", "resumeIfPaused")
  /\ stateOwner' = g
  /\ UNCHANGED <<runVars, paused, writer, consolePaused>>

PauseIfRunning(g) ==
  /\ Move(g, "pauseIfRunning", IF running THEN "flip" ELSE "release")
  /\ UNCHANGED <<gateVars, runVars, consolePaused>>

FlipPaused(g) ==
  /\ Move(g, "flip", IF paused THEN "release" ELSE "lock")
  /\ paused' = TRUE
  /\ UNCHANGED <<runVars, stateOwner, writer, consolePaused>>

\* pauseMutex.Lock: announce, then wait for the readers inside to leave.
AnnounceWriter(g) ==
  /\ Move(g, "lock", "drain")
  /\ writer = "none"
  /\ writer' = "pending"
  /\ UNCHANGED <<runVars, paused, stateOwner, consolePaused>>

AcquireWriter(g) ==
  /\ Move(g, "drain", "release")
  /\ Inside = {}
  /\ writer' = "held"
  /\ UNCHANGED <<runVars, paused, stateOwner, consolePaused>>

-----------------------------------------------------------------------------
(* Resume, on its own or as the end of Stop *)
ResumeIfPaused(g) ==
  /\ Move(g, "resumeIfPaused", IF paused THEN "unlock" ELSE "release")
  /\ paused' = FALSE
  /\ UNCHANGED <<runVars, stateOwner, writer, consolePaused>>

\* pauseMutex.Unlock admits every reader that blocked while it was held.
UnlockWriter(g) ==
  /\ pc[g] = "unlock"
  /\ writer' = "none"
  /\ pc' = [h \in Goroutines |-> IF h = g THEN "release"
                                 ELSE IF h \in Blocked THEN "inside"
                                 ELSE pc[h]]
  /\ UNCHANGED <<runVars, paused, stateOwner, consolePaused>>

\* The deferred pauseStateMutex.Unlock of Pause and Resume.
ReleaseStateMutex(g) ==
  /\ Move(g, "release", "idle")
  /\ stateOwner' = NoOne
  /\ stopping' = stopping \ {g}
  /\ stopReturned' = (stopReturned \/ g \in stopping)
  /\ UNCHANGED <<running, paused, writer, consolePaused>>

(* Stop clears running before it reopens the gate.  Config.Cancel, between
   the two, only cancels requests in flight. *)
StopRunning(g) ==
  /\ Move(g, "stop", "resume")
  /\ running' = FALSE
  /\ UNCHANGED <<gateVars, stopping, stopReturned, consolePaused>>

-----------------------------------------------------------------------------
(* pauseCheckpoint *)
Arrive(v) == /\ pc[Main] # "start"
             /\ Move(v, "idle", IF writer = "none" THEN "inside" ELSE "blocked")
             /\ UNCHANGED <<gateVars, runVars, consolePaused>>

Leave(v) == /\ Move(v, "inside", "idle")
            /\ UNCHANGED <<gateVars, runVars, consolePaused>>

-----------------------------------------------------------------------------
\* What a goroutine does once it is in a call.
Step(g) == \/ LockStateMutex(g) \/ PauseIfRunning(g) \/ FlipPaused(g)
           \/ AnnounceWriter(g) \/ AcquireWriter(g)
           \/ ResumeIfPaused(g) \/ UnlockWriter(g) \/ ReleaseStateMutex(g)
           \/ StopRunning(g)

Next == \/ Start \/ EnterKey \/ ResumeCommand
        \/ \E g \in Callers : CallStop(g) \/ Step(g)
        \/ \E v \in Visitors : Arrive(v) \/ Leave(v)

(* The Go scheduler runs every goroutine that can run, and a mutex does not
   starve a goroutine that waits for it.  Nobody has to type a command, send a
   signal, or reach a checkpoint. *)
Fairness == /\ \A g \in Callers : WF_vars(Step(g)) /\ SF_vars(LockStateMutex(g))
            /\ \A v \in Visitors : WF_vars(Leave(v))

Spec == Init /\ [][Next]_vars /\ Fairness

-----------------------------------------------------------------------------
CallerStates == {"idle", "pause", "pauseIfRunning", "flip", "lock", "drain",
                 "resume", "resumeIfPaused", "unlock", "release", "stop"}
HoldStates   == {"pauseIfRunning", "flip", "lock", "drain", "resumeIfPaused",
                 "unlock", "release"}

(* The type of the state, with the states each goroutine can be in. *)
TypeOK ==
  /\ running \in BOOLEAN
  /\ paused \in BOOLEAN
  /\ stateOwner \in Callers \cup {NoOne}
  /\ writer \in {"none", "pending", "held"}
  /\ pc \in [Goroutines -> CallerStates \cup {"start", "inside", "blocked"}]
  /\ \A w \in Workers : pc[w] \in {"idle", "inside", "blocked"}
  /\ pc[Console] \in CallerStates \ {"stop"}
  /\ pc[Signal] \in CallerStates
  /\ stopping \subseteq {Signal, Main}
  /\ stopReturned \in BOOLEAN
  /\ consolePaused \in BOOLEAN

(* Whenever nobody is inside Pause or Resume, the paused flag and the write
   lock agree (job.go:280-283, "exactly one Lock per Unlock"). *)
FlagMatchesGate ==
  stateOwner = NoOne => /\ paused => writer = "held"
                        /\ ~paused => writer = "none"

(* No goroutine ever unlocks an unlocked pauseMutex, which the Go runtime
   answers with a fatal error (job.go:281-283). *)
NoUnlockOfUnlocked == \A g \in Callers : pc[g] = "unlock" => writer = "held"

(* While Pause holds the gate nobody is past it, and nobody waits at an open
   gate (pauseCheckpoint, job.go:313-320). *)
GateExcludes == /\ writer = "held" => Inside = {}
                /\ writer = "none" => Blocked = {}

(* After a Stop has returned the gate is open for good: a Pause that races
   the Stop, or comes after it, cannot close it (job.go:285-288). *)
OpenAfterStop == stopReturned => ~paused /\ writer = "none"

(* The gate is sound: flag and lock agree, no unlock is fatal, nobody is past
   a held gate, and a stop opens it for good. *)
GateSound ==
  FlagMatchesGate /\ NoUnlockOfUnlocked /\ GateExcludes /\ OpenAfterStop

(* The job is never left paused behind a closed console, where Enter would
   pause it again instead of resuming it (termhandler.go:36-47). *)
NotPausedBehindConsole == pc[Console] = "idle" /\ paused => consolePaused

(* Why the properties above hold: pauseStateMutex is held exactly by the
   goroutine inside Pause or Resume, and each place in them fixes the flag and
   the lock; Stop clears running before it resumes, and nobody sets it again. *)
Flag(p, w) == paused = p /\ writer = w

Coherent == Flag(TRUE, "held") \/ Flag(FALSE, "none")

HolderHolds ==
  \A g \in Callers : stateOwner = g <=> pc[g] \in HoldStates

HolderKnows ==
  \A g \in Callers :
    /\ pc[g] \in {"pauseIfRunning", "flip", "resumeIfPaused", "release"} => Coherent
    /\ pc[g] = "lock"   => Flag(TRUE, "none")
    /\ pc[g] = "drain"  => Flag(TRUE, "pending")
    /\ pc[g] = "unlock" => Flag(FALSE, "held")

StopOrder ==
  \A g \in {Signal, Main} :
    /\ g \in stopping <=>
         pc[g] \in {"stop", "resume", "resumeIfPaused", "unlock", "release"}
    /\ pc[g] \notin {"pause", "pauseIfRunning", "flip", "lock", "drain"}
    /\ g \in stopping /\ pc[g] # "stop" => ~running
    /\ g \in stopping /\ pc[g] \in {"unlock", "release"} => ~paused

AfterStop ==
  /\ pc[Main] = "start" => ~running /\ stopping = {} /\ ~stopReturned
  /\ stopReturned => /\ ~running
                     /\ Flag(FALSE, "none")
                     /\ pc[Console] \notin {"flip", "lock", "drain"}

ConsoleOpen ==
  /\ pc[Console] \in {"pause", "pauseIfRunning", "flip", "lock", "drain"} =>
       consolePaused
  /\ paused /\ pc[Console] \notin {"resume", "resumeIfPaused"} => consolePaused

IInv == /\ TypeOK /\ HolderHolds /\ HolderKnows /\ StopOrder /\ AfterStop
        /\ ConsoleOpen
        /\ stateOwner = NoOne => Coherent
        /\ GateExcludes

(* A goroutine blocked at the checkpoint gets through once the job stops,
   and once the console resumes it (job.go:285-288 and 647-650). *)
WaitersFreed ==
  \A v \in Visitors :
    /\ pc[v] = "blocked" /\ pc[Signal] = "stop" ~> pc[v] = "idle"
    /\ pc[v] = "blocked" /\ pc[Console] = "resume" ~> pc[v] = "idle"

Contract == INSTANCE PauseContract WITH
  closed  <- writer # "none",
  waiting <- Blocked,
  phase   <- IF stopReturned THEN "stopped"
             ELSE IF pc[Main] # "start" /\ ~running THEN "stopping"
             ELSE "running"

(* The gate implements its contract. *)
ImplementsContract == Contract!Spec
=============================================================================
