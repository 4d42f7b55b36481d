SPECIFICATION Spec
CONSTANTS
  Slots = {s1, s2}
  N = 2
  BaseJobs = 1
  Strategy = "greedy"
  RecursionDepth = 1
  CanStop = FALSE
  MaxTimeJob = FALSE
  Commands = {"delete", "restart"}
  MaxCommands = 1
SYMMETRY SlotSymmetry
INVARIANTS
  JobsInTurn
  RecursionSound
  RestartOvershoot
PROPERTIES
  ImplementsRun
