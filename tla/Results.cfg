SPECIFICATION Spec
SYMMETRY SlotSymmetry
CONSTANTS
  Slots = {s1, s2}
  Sizes = {1, 2}
  TimeOptions = {"<"}
  FilterMode = "or"
  MaxRequests = 3
  MaxJobs = 2
  MaxCommands = 3
INVARIANTS TypeOK ListsSound QuietConsole FiltersCaughtUp
PROPERTY MatchesKept
