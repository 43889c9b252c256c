SPECIFICATION Spec
CONSTANTS
  Calls <- SearchCalls
  IntMax = 100
  SizeMax = 100000
  IntBytes = 1
  FrameBytes = 1
  EntryBytes = 1
  InitialFrames = 1
  InitialSlots = 2
INVARIANTS
  TypeOK
  StackIsPath
  VisitingIsActive
  MatchIsDerivable
PROPERTIES
  ImplementsContract
  Terminates
CHECK_DEADLOCK FALSE
