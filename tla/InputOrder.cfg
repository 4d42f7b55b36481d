SPECIFICATION Spec
CONSTANTS
  P = 3
  MaxWords = 3
  Modes = {"clusterbomb", "pitchfork"}
  MaxJobs = 2
  MaxResets = 2
INVARIANTS
  TypeOK
  EveryCombinationInOrder
  SearchFindsCombination
