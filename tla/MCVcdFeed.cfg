SPECIFICATION Spec
CONSTANTS
  clk = clk
  d = d
  rise = rise
  fall = fall
  x = x
  y = y
  Pin = {clk, d}
  Reg = {rise, fall}
  Output = {x, y}
  MaxTime = 5
  MaxCycles = 4
  OneChangePerTime = TRUE
  Watched <- MCWatched
  Latch <- MCLatch
  Out <- MCOut
INVARIANTS
  DumpShowsSamples
  StampsIncrease
PROPERTIES
  ImplementsEventSim
