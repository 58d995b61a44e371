SPECIFICATION FairSpec
CONSTANTS
  NumDevices = 3
  Thread = {r1, r2}
  r1 = r1
  r2 = r2
  Value = {0, 1}
  Zero = 0
  Junk = Junk
  NoBuffer = NoBuffer
  Nobody = Nobody
  MaxLen = 1
  Careful = TRUE
INVARIANTS
  TypeOK
  Coherent
  NoPanic
PROPERTIES
  ImplementsVector
  EveryReadReturns
