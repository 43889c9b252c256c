SPECIFICATION Spec
CONSTANTS
  Calls <- TestCalls
  IntMax = 100
  SizeMax = 100000
  IntBytes = 1
  FrameBytes = 1
  EntryBytes = 1
  InitialFrames = 1
  InitialSlots = 2
INVARIANTS
  CachedIsContextFree
  ValuesHaveSlots
PROPERTIES
  UsesMemoMap
  ResultsPersist
CHECK_DEADLOCK FALSE
