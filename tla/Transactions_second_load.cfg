SPECIFICATION CursesSpec
CONSTANTS
  radio = radio child = child sym = sym start = start y = y n = n
  Unbound = Unbound NoCall = NoCall
  Symbols <- MCSymbols
  Parent <- MCParent
  Start = start
  Values = {y}
  MaxUndoId = 3
  MaxTransactions = 3
INVARIANT NeverAborts
CHECK_DEADLOCK FALSE
