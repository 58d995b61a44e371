SPECIFICATION Spec
CHECK_DEADLOCK FALSE
CONSTANTS
  IdChars <- MCIdChars
  MaxWord = 12
  GivenIds <- MCGivenIds
  Texts <- MCTexts
  Times <- MCTimes
  Vectors <- MCVectors
  MaxSaid = 6
  MaxTexts = 1
  MaxLost = 3
INVARIANTS
  WrittenIsRead
