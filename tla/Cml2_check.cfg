SPECIFICATION Spec
CONSTANTS
  Names <- MCNames
  None = "none"
  Texts <- MCTexts
  MaxOpen = 2
  expr_new <- NewExpr
  expr_symbols <- SymbolsIn
  check_expr <- OperandsBoolean
  using_rule <- _expr_add_using_rule_recursive
INVARIANTS
  AcceptedIsWhole
  DependenciesAreRules
  RulesAreWoken
  
CHECK_DEADLOCK FALSE
