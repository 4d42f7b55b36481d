SPECIFICATION Spec
CONSTANTS
  Workers = {w1, w2}
  Chain = 2
  Post = 1
  Rate = 0
  Rates = {0, 2000000}
  MaxTasks = 2
  MaxChanges = 1
INVARIANTS
  TypeOK LanesAccounted AbortSendsComplete VolumeBounded
PROPERTIES
  TasksEnd
