SPECIFICATION Spec
CONSTANTS
  a = a
  b = b
  c = c
  NoObj = NoObj
  Obj <- MCObj
  Text <- MCText
  MaxBytes = 6
  MiniBuf = 2
  Toks <- MCToks
  Trees <- MCTrees
  Ind <- MCInd
SYMMETRY Symmetry
INVARIANTS
  TypeOK
  NullIffEmpty
  BlocksAccounted
  TokensReadBack
  TreeLines
PROPERTIES
  StripsToText
  EscapeReadsBack
CHECK_DEADLOCK FALSE
