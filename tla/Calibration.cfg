SPECIFICATION Spec
CONSTANTS
  Workers = {w1, w2}
  root = root
  admin = admin
  deeper = deeper
  Hosts = {root, admin, deeper}
  Bases <- MCBases
  Parts <- MCParts
  HostOf <- MCHostOf
  Groups = {"files", "directories"}
  PartOf <- MCPartOf
  Strings = 2
  Answers <- MCAnswers
  MatcherMode = "and"
  Matchers <- MCMatchers
  Filters <- MCFilters
  ConsoleValues = {3}
  MaxTasks = 2
INVARIANTS
  TypeOK CalibratedOnceBefore FiltersExplained
PROPERTIES
  VerdictsChangedFromBase EveryResponseDecided
