SPECIFICATION Calls
CONSTANTS
  Callers = {one}
  Handles = {h}
  Patterns <- Documented
  Subjects <- AllTexts
  Flags <- NoFlags
  Programs = {1}
  MaxCalls = 2
  MemoryMayFail = FALSE
PROPERTIES
  TableCompiles
CHECK_DEADLOCK FALSE
