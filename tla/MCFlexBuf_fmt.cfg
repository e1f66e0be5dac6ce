SPECIFICATION Spec
CONSTANTS
  x = x
  y = y
  Junk = Junk
  o1 = o1
  o2 = o2
  Obj <- MCObj
  Byte <- MCByte
  Chunk <- MCChunk
  FmtText <- MCAnyFmtText
  InitCap = 2
  Align = 2
  UsizeMax = 31
  MaxAlloc = 4
  MiniBuf = 2
  CompactEmpty = FALSE
INVARIANT
  FmtTextFits
