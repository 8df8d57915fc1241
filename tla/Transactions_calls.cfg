SPECIFICATION Spec
CONSTANTS
  radio = radio child = child sym = sym start = start y = y n = n
  Unbound = Unbound NoCall = NoCall
  Symbols <- MCSymbols
  Parent <- MCParent
  Start = start
  Values = {y}
  MaxUndoId = 2
  MaxTransactions = 3
INVARIANTS FlagsExact ListsExact
PROPERTY BindingChangesOnlyTriggerable
CHECK_DEADLOCK FALSE
