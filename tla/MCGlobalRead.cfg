SPECIFICATION Spec
CONSTANTS
  W = 3
  Threads = 2
  StateSize = 3
  Wanted <- MCWanted
INVARIANTS
  EveryBitOnce
  InputsArrive
  PanicsWhenHalfFull
