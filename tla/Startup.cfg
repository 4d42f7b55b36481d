SPECIFICATION Spec
CONSTANTS
  Processes = {1, 2, 3}
  CommandLines <- MCCommandLines
  RcFiles <- MCRcFiles
  ConfigFiles <- MCConfigFiles
  RequestFiles <- MCRequestFiles
  FlightFiles = {"login", "second"}
  Lists <- MCLists
  Dirs <- MCDirs
  Stdin <- MCStdin
  Digits = {"a", "b"}
  NoName = NoName
  Headers <- MCHeaders
  Template = "mark"
  Fuzz = "FUZZ"
INVARIANTS
  TypeOK CommandLineWins SearchReproduces FitToStart SniperOnePlaceEach
