SPECIFICATION Spec
CONSTANTS
  Slots = {s1}
  N = 1
  BaseJobs = 2
  Strategy = "none"
  RecursionDepth = 1
  CanStop = FALSE
  MaxTimeJob = FALSE
  Commands = {"pause", "delete"}
  MaxCommands = 2
INVARIANTS
  AdvanceFindsJob
