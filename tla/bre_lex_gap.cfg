SPECIFICATION LexOnly
CONSTANTS
  MaxPattern = 4
  Capacity = 5
  MemoryMayFail = FALSE
  Texts <- FewTexts
  LexEnd <- EngineEnd
INVARIANTS
  EveryScalarHasToken
