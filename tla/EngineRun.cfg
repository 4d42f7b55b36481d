SPECIFICATION Spec
CONSTANTS
  Slots = {s1, s2}
  N = 2
  BaseJobs = 1
  Strategy = "default"
  RecursionDepth = 1
  CanStop = TRUE
  MaxTimeJob = TRUE
  Commands = {"pause", "skip"}
  MaxCommands = 2
INVARIANTS
  TypeOK
  BoundedOvershoot
  PassInOrder
PROPERTIES
  Terminates
  ImplementsRun
