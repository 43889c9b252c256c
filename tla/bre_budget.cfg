SPECIFICATION Session
CONSTANTS
  UIntMax = 1073741824
  SizeMax = 2147483647
  NodeBytes = 40
  PriorityBytes = 32
  InitialNodes = 1
  InitialPriorities = 1
  BaseBytes = 1320
  UnitBytes = 8
  StateBytes = 336
  InitialStates = 1
  MayFail = {"units", "history", "stack", "priorities"}
  Sources <- RefusableSources
  Questions <- RefusableQuestions
  ScratchBytes = 361592
  MemoryMayFail = TRUE
INVARIANTS
  RefsExact
  AccountsExact
  ProgramsLinked
PROPERTIES
  ImplementsContract
  CompilesByContract
