SPECIFICATION Spec
CONSTANTS
  Threads = 1
  N = 22
  Jobs = 2
  Statuses = {403, 429}
  MaxRestarts = 1
  RestartsWithin = 3
  MinSamples = 3
  StopOn403 = FALSE
  StopOnErrors = FALSE
  StopOnAll = TRUE
INVARIANTS
  TypeOK
  GivesUp
PROPERTIES
  FirstPassStopsJustified
