SPECIFICATION Spec
CONSTANTS
  x = x
  ena = ena
  a = a
  w = w
  m = m
  q1 = q1
  q2 = q2
  q3 = q3
  q4 = q4
  r0 = r0
  r1 = r1
  Pin = {x, ena, a, w, m, q1, q2, q3, q4, r0, r1}
  Zero = Zero
  NoPin = NoPin
  W = 2
  NumBlocks = 2
  SramSize = 2
  RamPort = {0, 1, 2, 3, 4, 5}
  Layout <- MCLayout
  Circuits <- MCCircuits
INVARIANT
  OutputsAlwaysEnabled
