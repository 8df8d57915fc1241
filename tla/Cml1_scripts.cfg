SPECIFICATION Spec
CONSTANTS
  Symbols <- MCSymbols
  Banners <- MCBanners
  Statements <- MCStatements
  MaxBadLines = 3
INVARIANTS
  StandsWhereAsked
  AskedIsShown
  DefinedAsScript
  DependenciesBind
  DerivationsEnd
  CleanScriptsParse
CHECK_DEADLOCK FALSE
