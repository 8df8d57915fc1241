SPECIFICATION Spec
CONSTANTS
  None = None
  Order <- MCOrder
  Parent <- MCParent
  Derived <- MCDerived
  Kind <- MCKind
  Type <- MCType
  Data <- MCData
  Default <- MCDefault
  Legal <- MCLegal
  Conditional <- MCConditional
  Shows <- MCShows
  Dependees <- MCDependees
  Kept <- MCKept
  Saves <- MCSaves
  DerivedValue <- MCDerivedValue
  ReadBack <- MCReadBack
  Shortened <- MCShortened
  Files = {"config", "other"}
  Old <- MCOld
  Config = "config"
  MaxSaves = 1
  MaxRuns = 2
INVARIANTS SurvivesAnAccident LastWordsTrue
PROPERTY LoadedAsSaved
CHECK_DEADLOCK FALSE
