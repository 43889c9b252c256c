SPECIFICATION LexOnly
CONSTANTS
  MaxPattern = 4
  Capacity = 5
  MemoryMayFail = TRUE
  Texts <- AllTexts
  LexEnd <- EngineEnd
INVARIANTS
  ChecksTheEncoding
  CheckedTextDecodes
  UnitsSpellText
  TokensTile
  CapacityNeverReached
  ContextTokens
