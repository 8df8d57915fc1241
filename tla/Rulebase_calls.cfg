SPECIFICATION RSpec
CONSTANTS
  a = a b = b t = t radio = radio r1 = r1 r2 = r2 start = start
  Unbound = Unbound NoCall = NoCall
  Symbols <- MCSymbols
  Parent <- MCParent
  Start = start
  Values <- MCValues
  TypeOf <- MCTypeOf
  Children <- MCChildren
  Rulebases <- MCRulebases
  expr_evaluate <- Eval
  expr_solution <- Solution
  expr_symbols <- SymbolsOf
  MaxUndoId = 2
  MaxTransactions = 2
INVARIANTS AcceptedRulesHold BrokenAreNamed BindingsImplied
PROPERTIES AcceptedAsAsked CallReturns
CHECK_DEADLOCK FALSE
