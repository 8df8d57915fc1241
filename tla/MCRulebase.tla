----------------------------- MODULE MCRulebase -----------------------------
(***************************************************************************)
(* Rulebases for module Rulebase: three symbols, or two symbols and a      *)
(* radio menu.                                                             *)
(***************************************************************************)
EXTENDS Rulebase, Expr

CONSTANTS a, b, t, radio, r1, r2, start

Sym(s) == Symbol(s, TypeOf[s])
Const(v) == Constant(Atom(IF v = "m" THEN "tristate" ELSE "boolean", v))
Is(s, v) == Composite("equals", Sym(s), Const(v))
Implies(l, r) == Composite("implies", l, r)
And(l, r) == Composite("and", l, r)
Or(l, r) == Composite("or", l, r)
AtMost(l, r) == Composite("less_equals", l, r)

MCSymbols == {a, b, t, radio, r1, r2}
MCParent == [s \in MCSymbols |-> IF s \in {r1, r2} THEN radio ELSE start]
MCTypeOf == [s \in MCSymbols |-> CASE s = t -> "tristate" [] s = radio -> "node" [] OTHER -> "boolean"]
MCChildren == radio :> <<r1, r2>>
MCValues == {Atom(ty, v) : ty \in {"boolean", "tristate"}, v \in Tritvals} \cup
            {Atom("node", r1), Atom("node", r2)}

\* The values of a symbol: the solver sets a boolean symbol that is compared
\* with a tristate one to a value of that type, and the other way round.
MCAtoms ==
  [s \in MCSymbols |->
     IF s = radio THEN Offered(s)
     ELSE {Bool(c) : c \in BOOLEAN} \cup
          {Atom("tristate", v) : v \in IF s = t THEN Tritvals ELSE {"n", "y"}}]

Base(nodes, rules, default) ==
  [nodes |-> nodes, rules |-> rules, default |-> default, atoms |-> MCAtoms,
   depth |-> [s \in MCSymbols |-> CASE s \in DOMAIN default -> 2 [] s \in {r1, r2} -> 1 [] OTHER -> 0],
   deepest |-> 2,
   rules_using |-> [s \in MCSymbols |-> rules_using(rules, s)]]

SymbolsOf(e) == ToSet(Occurrences(e))
Solution(e, kept) == Goals(Simplify(e, DOMAIN kept, kept), Bool(TRUE))

\* Symbols alone.
Plain(rules) == Base({a, b, t}, rules, <<>>)

SymbolRulebases ==
  {Plain(<<Implies(Sym(a), Sym(b))>>),
   Plain(<<Implies(Sym(a), And(Sym(b), Is(t, "y"))), Or(Not(Sym(b)), Is(t, "y"))>>),
   Plain(<<AtMost(Sym(a), Sym(t)), Implies(Is(t, "m"), Sym(b))>>),
   Plain(<<Implies(Sym(a), Sym(b)), Implies(Sym(b), Is(t, "m")), Or(Not(Sym(a)), Is(t, "m"))>>),
   Plain(<<Implies(Sym(a), Sym(b)), Implies(Sym(b), Not(Sym(a)))>>),
   Plain(<<Implies(Sym(a), Or(Sym(b), Is(t, "y")))>>),
   Plain(<<Implies(Sym(a), And(Sym(b), Is(t, "y"))), Implies(Sym(b), Or(Is(t, "y"), Is(t, "m")))>>)}

\* A radio menu, the symbols that the rules mention, and defaults.
Radio(rules, default) ==
  Base({radio, r1, r2} \cup UNION {SymbolsOf(rules[r]) : r \in DOMAIN rules}, rules, default)

RadioRulebases ==
  {Radio(<<Implies(Sym(a), Sym(r2)), Implies(Sym(r2), Sym(b))>>, <<>>),
   Radio(<<Implies(Sym(a), Not(Sym(r1))), Implies(Not(Sym(r1)), Sym(b))>>, <<>>),
   Radio(<<Implies(Sym(b), Sym(a))>>, a :> Sym(r1)),
   Radio(<<AtMost(Sym(a), Sym(b)), Or(Not(Sym(b)), Sym(r1))>>, <<>>),
   \* The default of a changes after its rule has been looked at.
   Radio(<<Implies(Sym(b), Sym(r2)), Implies(Sym(b), Sym(a))>>, a :> Sym(r1)),
   \* The choice that one rule makes is refused half way by what others set.
   Radio(<<Implies(Sym(b), Sym(r2)), Implies(Sym(b), Not(Sym(r2))), Implies(Sym(b), Not(Sym(r1)))>>, <<>>),
   \* A frozen child, and a choice in its menu.
   Radio(<<Or(Or(Sym(r1), Sym(r2)), Sym(a))>>, <<>>)}

MCRulebases == SymbolRulebases \cup RadioRulebases
=============================================================================
