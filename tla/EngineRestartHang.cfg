SPECIFICATION Spec
CONSTANTS
  Slots = {s1}
  N = 2
  BaseJobs = 1
  Strategy = "none"
  RecursionDepth = 1
  CanStop = FALSE
  MaxTimeJob = FALSE
  Commands = {"pause", "restart"}
  MaxCommands = 2
PROPERTIES
  Terminates
