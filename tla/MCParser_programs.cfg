SPECIFICATION FairSpec
CONSTANTS
  Program <- MCProgram
  MaxParse = 1
  FaultyAlloc = FALSE
  ExprLen = 4
  StmtLen = 3
INVARIANTS
  Judged
  WellShaped
PROPERTY ParseEnds
CHECK_DEADLOCK FALSE
