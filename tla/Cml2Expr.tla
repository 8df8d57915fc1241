------------------------------- MODULE Cml2Expr -------------------------------
(***************************************************************************)
(* The expressions of a CML2 rulebase: how they are built from the trees   *)
(* of operators over names and literals that a statement has, which takes  *)
(* the types that the names have at that time, and what postparse.c finds  *)
(* in them.                                                                *)
(***************************************************************************)
EXTENDS ExprTree, Naturals, Sequences, SequencesExt

Name(n)    == [op |-> "name", name |-> n]
Literal(t) == [op |-> "literal", type |-> t]
Binary(op, left, right) == [op |-> op, left |-> left, right |-> right]

RECURSIVE NewExpr(_, _)
NewExpr(e, types) ==
  CASE e.op = "name"    -> Symbol(e.name, types[e.name])
    [] e.op = "literal" -> Constant(Atom(e.type, "y"))
    [] e.op = "trinary" -> Trinary(NewExpr(e.cond, types), NewExpr(e.left, types), NewExpr(e.right, types))
    [] e.op = "plus"    -> [Composite("plus", NewExpr(e.left, types), NewExpr(e.right, types))
                              EXCEPT !.type = "decimal"]
    [] OTHER            -> Composite(e.op, NewExpr(e.left, types), NewExpr(e.right, types))

Within(e) == {e[c] : c \in {"cond", "left", "right"} \cap DOMAIN e}

RECURSIVE SymbolsIn(_)
SymbolsIn(e) ==
  (IF e.op = "symbol" THEN {e.node} ELSE {}) \cup UNION {SymbolsIn(c) : c \in Within(e)}

(* check_expr: logical operators have boolean operands.                   *)
RECURSIVE OperandsBoolean(_, _)
OperandsBoolean(types, e) ==
  /\ e.op \in Logical =>
       \A c \in Within(e) : expr_get_value_type(types, c) = "boolean"
  /\ \A c \in Within(e) : OperandsBoolean(types, c)

LOOP_CHECK_MAX == 64

(* _expr_add_using_rule_recursive2: the symbols that a rule uses, itself   *)
(* and through derived symbols, and whether an expression is met inside    *)
(* itself. lc has the expressions from the rule's down to this one; deep   *)
(* is the assertion that there is room for it.                             *)
RECURSIVE _expr_add_using_rule_recursive2(_, _, _)
_expr_add_using_rule_recursive2(nodes, lc, e) ==
  LET derived == e.op = "symbol" /\ nodes[e.node].treetype = "derived"
      inner == Within(e) \cup IF derived THEN {nodes[e.node].expr} ELSE {}
      below == {_expr_add_using_rule_recursive2(nodes, lc \o <<e>>, c) : c \in inner}
      own == IF e.op = "symbol" /\ nodes[e.node].treetype = "symbol" THEN {e.node} ELSE {}
  IN  IF e \in ToSet(lc) THEN [symbols |-> {}, loop |-> TRUE, deep |-> FALSE]
      ELSE IF Len(lc) >= LOOP_CHECK_MAX THEN [symbols |-> {}, loop |-> FALSE, deep |-> TRUE]
      ELSE [symbols |-> own \cup UNION {b.symbols : b \in below},
            loop |-> \E b \in below : b.loop,
            deep |-> \E b \in below : b.deep]

(* Mutant: derived symbols are not looked into.                            *)
UsingDirectly(nodes, e) == [symbols |-> SymbolsIn(e), loop |-> FALSE, deep |-> FALSE]

_expr_add_using_rule_recursive(nodes, e) == _expr_add_using_rule_recursive2(nodes, <<>>, e)
=============================================================================
