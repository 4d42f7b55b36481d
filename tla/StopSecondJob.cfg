SPECIFICATION Spec
CONSTANTS
  Threads = 1
  N = 5
  Jobs = 2
  Statuses = {200, 403, 429}
  MaxRestarts = 0
  RestartsWithin = 0
  MinSamples = 3
  StopOn403 = TRUE
  StopOnErrors = FALSE
  StopOnAll = FALSE
PROPERTY Stop403Justified
