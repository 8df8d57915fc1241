SPECIFICATION CheckSpec
CONSTANTS
  Paths <- MCPaths
  SuffixOf <- MCSuffixOf
  MaxFiles = 3
  MaxErrors = 2
INVARIANT
  LanguageByName
CHECK_DEADLOCK FALSE
