SPECIFICATION Session
CONSTANTS
  UIntMax = 1073741824
  SizeMax = 2147483647
  NodeBytes = 40
  PriorityBytes = 32
  InitialNodes = 32
  InitialPriorities = 16
  BaseBytes = 1320
  UnitBytes = 8
  StateBytes = 336
  InitialStates = 4
  MayFail = {}
  Sources <- MatchSources
  Questions <- MatchQuestions
  ScratchBytes = 361592
  MemoryMayFail = FALSE
INVARIANTS
  ScopesNest
  SpansOrdered
PROPERTIES
  ImplementsContract
