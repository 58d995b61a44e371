CONSTANTS
  Levels = 3
  Word = 2
  Crowded = 1
  MaxWriteouts = 4
  Division = 6
  BlockSize = 2
  StagesOf <- BuildStagedAigs
  MapPart <- MapOntoExecutor
  ConeSize <- NodesUnder
  Hypergraph <- Clusters
  MaxTrials = 1
  Stride = 1
  Circuits <- MCCircuits
SPECIFICATION Spec
CHECK_DEADLOCK FALSE
INVARIANTS StagesClose RoundsKeepEndpoints MergingKeepsEndpoints StopsForAReason
PROPERTIES EverGoesOn
