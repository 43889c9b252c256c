SPECIFICATION Calls
CONSTANTS
  Callers = {one}
  Handles = {h}
  Patterns <- AllPatterns
  Subjects <- AllTexts
  Flags <- BothFlags
  Programs = {1}
  MaxCalls = 2
  MemoryMayFail = FALSE
PROPERTIES
  AnswersWhatIsMeant
  SearchesEnd
CHECK_DEADLOCK FALSE
