SPECIFICATION Spec
CONSTANTS
  Calls <- BoundaryCalls
  IntMax = 5
  SizeMax = 48
  IntBytes = 1
  FrameBytes = 4
  EntryBytes = 3
  InitialFrames = 2
  InitialSlots = 2
INVARIANTS
  StackBounded
  TableHalfEmpty
  NoLeak
PROPERTIES
  ImplementsContract
CHECK_DEADLOCK FALSE
