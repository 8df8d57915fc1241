------------------------------- MODULE MCExpr -------------------------------
(***************************************************************************)
(* One rule, while the nodes it mentions are set one after another, in any *)
(* order and to any value of their types: in every state the rule is       *)
(* simplified and solved as rule_trigger() would do it there.              *)
(***************************************************************************)
EXTENDS Expr, Dnf, TLC

CONSTANTS
  p, q, t,   \* Two boolean symbols and a tristate one.
  Rules      \* The rules that are tried.

TypeOf == (p :> "boolean") @@ (q :> "boolean") @@ (t :> "tristate")

VARIABLES rule, known   \* known: of the nodes that are set, frozen or chilled

rule_vars == <<rule, known>>

RuleInit == rule \in Rules /\ known = <<>>

Set(s, x) ==
  /\ s \notin DOMAIN known
  /\ known' = known @@ (s :> Atom(TypeOf[s], x))
  /\ UNCHANGED rule

Valid(s) == IF TypeOf[s] = "boolean" THEN {"n", "y"} ELSE Tritvals

RuleNext == \E s \in DOMAIN TypeOf : \E x \in Valid(s) : Set(s, x)

RuleSpec == RuleInit /\ [][RuleNext]_rule_vars

-----------------------------------------------------------------------------
(* The rules: relations of terms, and logical combinations of those.       *)

Sym(s) == Symbol(s, TypeOf[s])
Const(v) == Constant(Atom(IF v = "m" THEN "tristate" ELSE "boolean", v))

Simple == {Sym(s) : s \in {p, q, t}} \cup {Const(v) : v \in {"y", "m"}}

Relations == {Composite(op, l, r) : op \in Relational, l \in Simple, r \in Simple}

Ternaries == {Composite(op, Sym(t), r) : op \in Ternary, r \in Simple}

Comparisons == {Composite(op, l, Const(v)) : op \in {"not_equals", "less_equals"}, l \in Ternaries, v \in Tritvals}

Booleans == {Sym(p), Sym(q), Not(Sym(q)), Composite("less_equals", Sym(q), Sym(p)),
             Composite("not_equals", Sym(t), Const("n")), Composite("equals", Sym(t), Const("m"))}

Combined(S) == {Composite(op, l, r) : op \in Logical, l \in S, r \in S}

Nested == {Composite(op, l, r) : op \in Logical, l \in Combined({Sym(p), Sym(q)}), r \in Booleans}

Branches == {Trinary(c, l, r) : c \in {Sym(p), Composite("equals", Sym(t), Const("y"))}, l \in Booleans, r \in Booleans}

\* A tristate node must differ from a boolean node or constant.
Unequal(e) == e.op = "not" /\ e.left.op = "equals" /\ e.left.left.type # e.left.right.type

\* The conditions of CML1 branches: symbols compared with constants. Two
\* constants may be compared where a symbol's name is mistyped.
Tests ==
  LET Tri(v) == Constant(Atom("tristate", v))
  IN  {Composite("equals", Sym(p), Tri("y")), Composite("equals", Sym(t), Tri("m")),
       Composite("not_equals", Sym(t), Tri("y")), Composite("equals", Tri("y"), Tri("m"))}

Pairs == {Composite(op, l, r) : op \in {"and", "or"}, l \in Tests, r \in Tests}

Conditions ==
  Tests \cup {Not(e) : e \in Pairs}
    \cup {Composite(op, l, Not(r)) : op \in {"and", "or"}, l \in Tests, r \in Pairs}
    \cup {Composite(op, Not(l), Not(r)) :
            op \in {"and", "or"}, l \in {e \in Pairs : e.op = "or"}, r \in {e \in Pairs : e.op = "and"}}

MCRules ==
  Conditions \cup Relations \cup Comparisons \cup Combined(Booleans) \cup Nested \cup Branches
    \cup {Not(e) : e \in Combined({Sym(p), Sym(q)}) \cup Relations}

-----------------------------------------------------------------------------
Yes == Bool(TRUE)

\* The ways to go on: the other nodes may have any value of their types.
Assignments ==
  {v \in [DOMAIN TypeOf -> {Atom(TypeOf[s], x) : s \in DOMAIN TypeOf, x \in Tritvals}] :
     \A s \in DOMAIN TypeOf : v[s] \in {Atom(TypeOf[s], x) : x \in Valid(s)}}

Extensions == {v \in Assignments : \A s \in DOMAIN known : v[s] = known[s]}

Simplified == Simplify(rule, DOMAIN known, known)

ToDo == Goals(Simplified, Yes)

Meets(v, g) == v[g.node].val = g.atom.val

\* expr_simplify: "a simplified version of the old expression, with
\* constants and frozen/chilled variables factored out" (expr.c:1035). It
\* has the value of the rule whatever the other nodes are set to later.
SimplifyKeepsValue == \A v \in Extensions : Eval(Simplified, v).val = Eval(rule, v).val

\* When expr_solve finds a solution, every assignment that has it satisfies
\* the rule: rule_trigger() believes it without evaluating the rule again.
SolutionSuffices ==
  {ToDo[k] : k \in DOMAIN ToDo} \cap {GivesUp, Dies} = {} =>
    \A v \in Extensions : (\A k \in DOMAIN ToDo : Meets(v, ToDo[k])) => Eval(rule, v).val = "y"

\* The solver never guesses: what it sets, up to where it gives up, is set
\* in every assignment that satisfies the rule, so that a refusal by a node
\* already set means that there is none. There is one exception: a tristate
\* node that must not be y, compared with a constant of boolean type, is set
\* to n although it may be m (E_EQUALS looks at the type of the constant).
SolutionForced ==
  ~Unequal(rule) => \A v \in Extensions : Eval(rule, v).val = "y" =>
    \A k \in DOMAIN ToDo : ToDo[k] \notin {GivesUp, Dies} => Meets(v, ToDo[k])

\* The clauses of a condition hold, one of them at least, just where the
\* condition does, unless nothing is known of it; and when a symbol has a
\* second branch, with a condition or without, every clause that
\* check_branches_are_disjoint (cml1pass2.c) reports as their overlap implies
\* both conditions.
ClausesAreCondition ==
  known = <<>> /\ rule \in Conditions =>
    LET Is(e, v) == e = NoCondition \/ Eval(e, v).val = "y"
        Known(e) == e = NoCondition \/ dnf_from_expr(e) # NoForm
        Branch(type, e) == [type |-> type, cond |-> e, parent |-> "menu"]
        form == dnf_from_expr(rule)
    IN  Known(rule) =>
          /\ \A v \in Extensions : FormHolds(form, v) <=> Is(rule, v)
          /\ \A other \in {e \in Tests \cup Pairs \cup {NoCondition} : Known(e)} :
               \A w \in check_branches_are_disjoint(<<Branch("define", rule), Branch("query", other)>>) :
                 \A clause \in w.overlap : \A v \in Extensions :
                   ClauseHolds(clause, v) => Is(rule, v) /\ Is(other, v)
=============================================================================
