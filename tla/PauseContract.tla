--------------------------- MODULE PauseContract ---------------------------
(***************************************************************************)
(* What the pause gate of pkg/engine/job.go promises, free of the mutexes  *)
(* it is built from: a gate that goroutines wait at, that opening empties, *)
(* and that a stop leaves open for good.  PauseGate implements it.         *)
(***************************************************************************)
CONSTANT Visitors        \* the goroutines that cross the gate

VARIABLES
  closed,                \* the gate turns arriving goroutines away
  waiting,               \* the goroutines it has turned away
  phase                  \* "running", then "stopping", then "stopped"

vars == <<closed, waiting, phase>>

Init == /\ closed = FALSE
        /\ waiting = {}
        /\ phase = "running"

\* A pause closes the gate; one that began before the stop may still do so
\* while the stop is in progress, never after it.
Close == /\ ~closed
         /\ phase # "stopped"
         /\ closed' = TRUE
         /\ UNCHANGED <<waiting, phase>>

\* Opening the gate lets everyone who waits go.
Open == /\ closed
        /\ closed' = FALSE
        /\ waiting' = {}
        /\ UNCHANGED phase

Wait(v) == /\ closed
           /\ waiting' = waiting \cup {v}
           /\ UNCHANGED <<closed, phase>>

BeginStop == /\ phase = "running"
             /\ phase' = "stopping"
             /\ UNCHANGED <<closed, waiting>>

EndStop == /\ phase = "stopping"
           /\ ~closed
           /\ phase' = "stopped"
           /\ UNCHANGED <<closed, waiting>>

Next == \/ Close \/ Open \/ BeginStop \/ EndStop
        \/ \E v \in Visitors : Wait(v)

SafeSpec == Init /\ [][Next]_vars

\* Once begun, a stop opens the gate and completes.
Spec == /\ SafeSpec
        /\ WF_vars(Open /\ phase = "stopping")
        /\ SF_vars(EndStop)
============================================================================
