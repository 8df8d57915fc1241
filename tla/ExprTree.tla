------------------------------ MODULE ExprTree ------------------------------
(***************************************************************************)
(* Expressions as the constructors of libcml/expr.c build them: records    *)
(* with an operator, the type of the value and the operands.               *)
(***************************************************************************)
EXTENDS Atoms

Logical    == {"or", "and", "implies"}
Ternary    == {"maximum", "minimum", "similarity"}
Relational == {"equals", "not_equals", "less", "less_equals", "greater", "greater_equals", "mdep"}

(* expr_new_atom, _symbol, _composite and _trinary, with the type that     *)
(* each gives the expression.                                              *)

Constant(a) == [op |-> "atom", type |-> a.type, atom |-> a]

Symbol(node, type) == [op |-> "symbol", type |-> type, node |-> node]

Composite(op, left, right) ==
  [op |-> op, type |-> IF op \in Ternary THEN "tristate" ELSE "boolean",
   left |-> left, right |-> right]

Not(left) == [op |-> "not", type |-> "boolean", left |-> left]

Trinary(cond, left, right) ==
  [op |-> "trinary", type |-> left.type, cond |-> cond, left |-> left, right |-> right]

is_atom(e) == e.op = "atom"

(* The type of a symbol's value is read off the symbol, whatever it was    *)
(* when the expression was built.                                          *)
expr_get_value_type(types, e) == IF e.op = "symbol" THEN types[e.node] ELSE e.type
=============================================================================
