SPECIFICATION FairSpec
CONSTANTS
  Letter <- MCLetter
  DigitVal <- MCDigitVal
  Other <- MCOther
  KwTokMap <- kw_tok_map
  MaxKwTokLen = 7
  UsizeMax = 9
  Chunk <- MCLineChunk
  MaxText = 2
  FaultyAlloc = FALSE
  LoneCR = TRUE
PROPERTY
  CallReturns
