CONSTANTS
  Designs <- MCDesigns
  AddrWidth = 2
  DataWidth = 2
  MaxInputs = 3
SPECIFICATION Spec
CHECK_DEADLOCK FALSE
INVARIANTS NetsAreConnections RefusedForAReason LiteralsMeanPins PanicsForAReason
PROPERTIES RegistersAgree NaiveFollows
