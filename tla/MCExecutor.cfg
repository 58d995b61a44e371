CONSTANTS
  Levels = 3
  Word = 2
  Crowded = 1
  MaxWriteouts = 4
  Gates = 4
  Partitions <- MCPartitions
  NextStage <- BuildStage
SPECIFICATION Spec
CHECK_DEADLOCK FALSE
INVARIANTS HierarchySound NothingLost EndpointsComputed EndpointsStored
PROPERTIES StagesAdvance
