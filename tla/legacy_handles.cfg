SPECIFICATION Calls
CONSTANTS
  Callers = {one, two}
  Handles = {h, g}
  Patterns <- FewPatterns
  Subjects <- FewTexts
  Flags <- NoFlags
  Programs = {1, 2}
  MaxCalls = 3
  MemoryMayFail = TRUE
PROPERTIES
  OnlyRecompilingLoses
  AnswersWhatIsMeant
SYMMETRY Alike
CHECK_DEADLOCK FALSE
