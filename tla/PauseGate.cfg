SPECIFICATION Spec
CONSTANTS
  Workers = {w1, w2}
  Console = console
  Signal = signal
  Main = main
  NoOne = noone
INVARIANTS
  TypeOK
  GateSound
  NotPausedBehindConsole
PROPERTIES
  WaitersFreed
  ImplementsContract
