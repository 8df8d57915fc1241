SPECIFICATION Spec
CONSTANTS
  Symbols <- MCSymbols
  Banners <- MCBanners
  Statements <- MCStatements
  MaxBadLines = 3
INVARIANT
  StacksComeBack
CHECK_DEADLOCK FALSE
