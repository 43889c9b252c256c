SPECIFICATION Spec
CONSTANTS
  CellCount = 5
  Values = {1}
  Mixes <- Collisions
  InitialSlots = 2
  SizeMax = 24
  EntryBytes = 3
INVARIANTS
  NeverExhausted
PROPERTIES
  ImplementsMap
CHECK_DEADLOCK FALSE
