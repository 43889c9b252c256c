SPECIFICATION ParseOnly
CONSTANTS
  NodeLimit = 208
  MemoMax = 3960
  MemoryMayFail = TRUE
  Patterns <- AllPatterns
INVARIANTS
  EventsCoverTokens
  OpenNodesAreCalls
  LimitsSuffice
PROPERTIES
  ImplementsContract
  MemoTellsTheTruth
  Answers
