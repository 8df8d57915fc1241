SPECIFICATION PartsSpec
CONSTANTS
  \* Range
  ULONG_MAX = 8
  \* MCExpr
  p = p q = q t = t
  Rules <- MCRules
  \* CmlCheck
  Paths <- MCPaths
  SuffixOf <- MCSuffixOf
  MaxFiles = 3
  MaxErrors = 2
  \* Widgets
  Nodes <- MCNodes
  Start = "M"
  Description <- MCDescription
  Guard <- MCGuard
  Domain <- MCDomain
  Initial <- MCInitial
  Texts <- MCTexts
  strtoul <- Mcstrtoul
  MaxChanged = 2
  \* Dialogs and TextBox
  BUF_SIZE = 4
  Rows = 2
  MAX_LEN = 4
  ListHeight = 3
  Width = 3
  Characters = {"a", "b"}
  Menus <- MCMenus
  Marks <- MCMarks
  Values <- MCValues
  Files <- MCFiles
  Sessions <- MCSessions
INVARIANTS
  SubrangesApart
  OnlyAdded
  SimplifyKeepsValue
  SolutionSuffices
  SolutionForced
  ClausesAreCondition
  ExitTellsErrors
  BlamesTheFile
  RowsShowValues
  OnlyGesturesSet
  BoxShown
  TextShown
