SPECIFICATION GtkSpec
CONSTANTS
  radio = radio child = child sym = sym start = start y = y n = n
  Unbound = Unbound NoCall = NoCall
  Symbols <- MCTwo
  Parent <- MCTwoParent
  Start = start
  Values = {y, n}
  MaxUndoId = 3
  MaxTransactions = 3
INVARIANT NeverAborts
PROPERTY IsUndoHistory
