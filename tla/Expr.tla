-------------------------------- MODULE Expr --------------------------------
(***************************************************************************)
(* The expressions of rules, defaults and derivations: libcml/expr.c and   *)
(* the comparison of atom.c, for logical (boolean and tristate) values.    *)
(*                                                                         *)
(* rule_trigger() does three things with an expression: it evaluates it;   *)
(* if it is false it simplifies it, with the nodes that must keep their    *)
(* value replaced by that value; and it solves what is left, which means   *)
(* to set every symbol for which the rule leaves a single value.           *)
(*                                                                         *)
(* A derived symbol is represented by the expression it is derived from,   *)
(* which is how both evaluation and simplification treat it.               *)
(***************************************************************************)
EXTENDS ExprTree, Integers, Sequences, FiniteSets

LOCAL INSTANCE SequencesExt

(* The order of _atom_compare: A_NONE is greater than any other value.     *)
Rank == [n |-> 0, m |-> 1, y |-> 2, none |-> 3]

-----------------------------------------------------------------------------
(* The truth tables. The rows and columns are n, y, m; "-" is -1.          *)

Table(n, y, m) ==
  LET index == [n |-> 1, y |-> 2, m |-> 3]
  IN  [l \in Tritvals |-> [r \in Tritvals |-> <<n, y, m>>[index[l]][index[r]]]]

truth ==
  [equals         |-> Table(<<"y", "n", "n">>, <<"n", "y", "n">>, <<"n", "n", "y">>),
   not_equals     |-> Table(<<"n", "y", "y">>, <<"y", "n", "y">>, <<"y", "y", "n">>),
   less           |-> Table(<<"n", "y", "y">>, <<"n", "n", "n">>, <<"n", "y", "n">>),
   less_equals    |-> Table(<<"y", "y", "y">>, <<"n", "y", "n">>, <<"n", "y", "y">>),
   greater        |-> Table(<<"n", "n", "n">>, <<"y", "n", "y">>, <<"y", "n", "n">>),
   greater_equals |-> Table(<<"y", "n", "n">>, <<"y", "y", "y">>, <<"y", "n", "y">>),
   mdep           |-> Table(<<"y", "y", "y">>, <<"n", "y", "y">>, <<"n", "y", "y">>),
   maximum        |-> Table(<<"n", "y", "m">>, <<"y", "y", "y">>, <<"m", "y", "m">>),
   minimum        |-> Table(<<"n", "n", "n">>, <<"n", "y", "m">>, <<"n", "m", "m">>),
   similarity     |-> Table(<<"n", "n", "n">>, <<"n", "y", "n">>, <<"n", "n", "m">>),
   or             |-> Table(<<"n", "y", "-">>, <<"y", "y", "-">>, <<"-", "-", "-">>),
   and            |-> Table(<<"n", "n", "-">>, <<"n", "y", "-">>, <<"-", "-", "-">>),
   implies        |-> Table(<<"y", "y", "-">>, <<"n", "y", "-">>, <<"-", "-", "-">>)]

-----------------------------------------------------------------------------
(* expr_evaluate2 of the operators with two operands.                      *)
Compare(op, l, r) ==
  CASE op = "equals"         -> Rank[l] = Rank[r]
    [] op = "not_equals"     -> Rank[l] # Rank[r]
    [] op = "less"           -> Rank[l] < Rank[r]
    [] op = "less_equals"    -> Rank[l] <= Rank[r]
    [] op = "greater"        -> Rank[l] > Rank[r]
    [] op = "greater_equals" -> Rank[l] >= Rank[r]
    [] op = "mdep"           -> IF "none" \in {l, r} THEN Rank[l] <= Rank[r]
                                ELSE truth.mdep[l][r] = "y"

Apply(op, l, r) ==
  CASE "assert" \in {l.type, r.type} -> Assert_
    [] op \in Relational -> Bool(Compare(op, l.val, r.val))
    [] op \in Ternary    -> Atom("tristate", truth[op][l.val][r.val])
    [] op \in Logical    -> IF {l.type, r.type} # {"boolean"} THEN Assert_
                            ELSE Bool(truth[op][l.val][r.val] = "y")

RECURSIVE Eval(_, _)
Eval(e, value) ==
  CASE e.op = "atom"    -> e.atom
    [] e.op = "symbol"  -> value[e.node]
    [] e.op = "not"     -> LET l == Eval(e.left, value)
                           IN  IF l.type # "boolean" THEN Assert_ ELSE Bool(l.val = "n")
    [] e.op = "trinary" -> LET c == Eval(e.cond, value)
                           IN  IF c.type # "boolean" THEN Assert_
                               ELSE Eval(IF c.val = "y" THEN e.left ELSE e.right, value)
    [] OTHER            -> Apply(e.op, Eval(e.left, value), Eval(e.right, value))

-----------------------------------------------------------------------------
(* expr_simplify_tristate: an operand is an atom, so the table shows what  *)
(* the other one decides.                                                  *)

(* Mutant: m is never considered.                                          *)
TritsNever(e) == FALSE

(* The argument istrit: the other operand may be m.                        *)
Trits(e) ==
  CASE e.op \in Logical  -> FALSE
    [] e.op = "equals"   -> "tristate" \in {e.left.type, e.right.type}
    [] OTHER             -> TRUE

SimplifyTristate(e, value) ==
  LET atoms == {s \in {"left", "right"} : is_atom(e[s])}
      other == IF is_atom(e.left) THEN e.right ELSE e.left
      inputs == IF Trits(e) THEN Tritvals ELSE {"n", "y"}
      result == [x \in inputs |-> IF is_atom(e.left) THEN truth[e.op][e.left.atom.val][x]
                                  ELSE truth[e.op][x][e.right.atom.val]]
  IN  CASE atoms = {} -> e
        [] atoms = {"left", "right"} -> Constant(Eval(e, value))
        [] OTHER ->
             CASE \E x \in inputs : result[x] = "-" -> Constant(Assert_)
               [] \E v \in Tritvals : \A x \in inputs : result[x] = v ->
                    Constant(Atom(e.type, result["n"]))
               [] \A x \in inputs : result[x] = x -> other
               [] \A x \in inputs : {x, result[x]} = {"n", "y"} -> Not(other)
               [] OTHER -> e

(* expr_simplify2, for the nodes in fixed, which are frozen or chilled.    *)
RECURSIVE Simplify(_, _, _)
Simplify(e, fixed, value) ==
  CASE e.op = "atom"    -> e
    [] e.op = "symbol"  -> IF e.node \in fixed THEN Constant(value[e.node]) ELSE e
    [] e.op = "not"     ->
         LET s == [e EXCEPT !.left = Simplify(@, fixed, value)]
         IN  IF is_atom(s.left) THEN Constant(Eval(s, value)) ELSE s
    [] e.op = "trinary" ->
         LET s == [e EXCEPT !.cond = Simplify(@, fixed, value),
                            !.left = Simplify(@, fixed, value),
                            !.right = Simplify(@, fixed, value)]
         IN  CASE is_atom(s.cond) /\ is_atom(s.left) /\ is_atom(s.right) -> Constant(Eval(s, value))
               [] is_atom(s.cond) /\ s.cond.atom.val = "y" -> s.left
               [] is_atom(s.cond) /\ s.cond.atom.val = "n" -> s.right
               [] OTHER -> s
    [] OTHER            ->
         SimplifyTristate([e EXCEPT !.left = Simplify(@, fixed, value),
                                    !.right = Simplify(@, fixed, value)], value)

-----------------------------------------------------------------------------
(* expr_solve. Its recursion meets the symbols to set in an order that the *)
(* expression alone decides: the goals, up to the one where it gives up.   *)

(* Mutant: the second operand is not solved.                               *)
FirstOnly(first, second) == first

AndThen(first, second) ==
  IF first # <<>> /\ first[Len(first)] \in {GivesUp, Dies} THEN first ELSE first \o second

(* Mutant: several solutions are as good as one.                           *)
SolutionAny(solutions) == solutions # {}

SolutionUnique(solutions) == Cardinality(solutions) = 1

Possible(e) == IF e.type = "boolean" THEN {"n", "y"} ELSE Tritvals

(* The search of expr_solve_tristate. An operand that is an atom has one   *)
(* value; if both are, the right one is found out only when it is solved.  *)
Solutions(e, target) ==
  {s \in Tritvals \X Tritvals :
     /\ s[1] \in IF is_atom(e.left) THEN {e.left.atom.val} ELSE Possible(e.left)
     /\ s[2] \in IF is_atom(e.right) /\ ~is_atom(e.left) THEN {e.right.atom.val}
                 ELSE Possible(e.right)
     /\ truth[e.op][s[1]][s[2]] = target.val}

(* E_EQUALS: the operand that is forced, and the atom it is forced to.     *)
EqualsForced(e, target) ==
  LET equal == target.val = "y"
      Forces(x) == is_atom(x) /\ (equal \/ x.type = "boolean")
      To(x) == IF equal THEN x.atom ELSE Bool(x.atom.val = "n")
  IN  IF Forces(e.left) THEN {<<e.right, To(e.left)>>}
      ELSE IF Forces(e.right) THEN {<<e.left, To(e.right)>>}
      ELSE {}

RECURSIVE Goals(_, _)
Goals(e, target) ==
  CASE e.op = "atom"    -> IF e.atom.val = target.val THEN <<>> ELSE <<GivesUp>>
    [] e.op = "symbol"  -> <<Goal(e.node, target)>>
    [] e.op = "trinary" -> <<GivesUp>>
    [] e.op \in Relational \cup {"not"} /\ target.type # "boolean" -> <<Dies>>
    [] e.op = "not"     -> Goals(e.left, Bool(target.val = "n"))
    [] e.op = "equals"  ->
         IF EqualsForced(e, target) = {} THEN <<GivesUp>>
         ELSE LET forced == CHOOSE f \in EqualsForced(e, target) : TRUE
              IN  Goals(forced[1], forced[2])
    [] OTHER ->
         IF ~SolutionUnique(Solutions(e, target)) THEN <<GivesUp>>
         ELSE LET s == CHOOSE s \in Solutions(e, target) : TRUE
                  type == IF e.op \in Logical THEN "boolean" ELSE "tristate"
              IN  AndThen(Goals(e.left, Atom(type, s[1])), Goals(e.right, Atom(type, s[2])))

(* The symbols of an expression, once for each time they occur, in the     *)
(* order of _expr_add_using_rule_recursive.                                *)
RECURSIVE Occurrences(_)
Occurrences(e) ==
  CASE e.op = "atom"    -> <<>>
    [] e.op = "symbol"  -> <<e.node>>
    [] e.op = "not"     -> Occurrences(e.left)
    [] e.op = "trinary" -> Occurrences(e.cond) \o Occurrences(e.left) \o Occurrences(e.right)
    [] OTHER            -> Occurrences(e.left) \o Occurrences(e.right)

(* node->rules_using: a rule is prepended each time it mentions the node.  *)
rules_using(rules, n) ==
  Reverse(FlattenSeq(
    [r \in DOMAIN rules |->
       LET mentions == SelectSeq(Occurrences(rules[r]), LAMBDA s : s = n)
       IN  [k \in DOMAIN mentions |-> r]]))
=============================================================================
