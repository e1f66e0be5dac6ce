SPECIFICATION FairSpec
CONSTANTS
  Letter <- MCLetter
  DigitVal <- MCDigitVal
  Other <- MCOther
  KwTokMap <- kw_tok_map
  MaxKwTokLen = 7
  UsizeMax = 31
  Chunk <- MCScanChunk
  MaxText = 4
  FaultyAlloc = TRUE
  LoneCR = FALSE
INVARIANTS
  TypeOK
  Pristine
  Lossless
  OutputLossless
  ErrorAtByte
PROPERTY
  CallReturns
  CallAdvances
