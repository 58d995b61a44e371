SPECIFICATION FairSpec
CONSTANTS
  b1 = b1
  b2 = b2
  in1 = in1
  in2 = in2
  reg = reg
  mem = mem
  out = out
  par = par
  q = q
  t = t
  r = r
  z = z
  y = y
  Block = {b1, b2}
  Part = {reg, mem, out, par}
  Bit = {in1, in2, q, t, r, z, y}
  Addr = {0, 1}
  NumStages = 2
  NumCycles = 3
  Warmup = 1
  EnableProfile = TRUE
  EnablePrune = TRUE
  Script <- MCSharedScript
  Reads <- MCReads
  Outs <- MCOuts
  Srams <- MCNoSrams
  Eval <- MCEval
  ClkEn <- MCClkEn
  RAddr <- MCRAddr
  WAddr <- MCWAddr
  WEn <- MCWEn
  WData <- MCWData
  Sig <- MCIdealSig
  ZeroSig <- MCZeroSig
PROPERTIES
  SkipNeedsOwnInputsUnchanged
