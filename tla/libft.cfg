SPECIFICATION Spec
CONSTANTS
  Size = 4
  SizeMax = 7
  Overhead = 2
  Letters = {1, 2}
  MaxLen = 4
  IntMax = 127
  NumberChars = {32, 43, 45, 49, 50, 55, 56, 57}
  NumberLen = 5
  UIntMax = 255
  Unsigned = {0, 9, 10, 16, 255}
INVARIANTS
  MovesExactly
  FindsFirst
  CallocClearsAll
  BlocksFilled
  CutsTell
  SearchesRight
  PiecesRight
  SplitsAllOrNothing
  AtoiClamps
  ItoaReadsBack
  PrintsMeaning
  CountsBytes
CHECK_DEADLOCK FALSE
