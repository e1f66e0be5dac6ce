SPECIFICATION Spec
CONSTANTS
  Program <- MCFewPrograms
  MaxParse = 2
  FaultyAlloc = TRUE
  ExprLen = 0
  StmtLen = 0
INVARIANTS
  TypeOK
  Judged
  Owned
  CrashOnlyOutOfMemory
PROPERTY Descends
CHECK_DEADLOCK FALSE
