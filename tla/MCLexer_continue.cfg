SPECIFICATION Spec
CONSTANTS
  Letter <- MCLetter
  DigitVal <- MCDigitVal
  Other <- MCOther
  KwTokMap <- kw_tok_map
  MaxKwTokLen = 7
  UsizeMax = 31
  Chunk <- MCContinueChunk
  MaxText = 9
  FaultyAlloc = FALSE
  LoneCR = FALSE
INVARIANTS
  NoNameIsKeyword
