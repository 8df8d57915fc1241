-------------------------------- MODULE MCCml2 --------------------------------
(* What the rulebases that TLC reads may say. M and C are menus, A and B    *)
(* symbols, D and E derived symbols and X an explanation; each text is     *)
(* about one thing that can go wrong.                                      *)
EXTENDS Cml2Check, Cml2Expr

Declared(as, names) == [kind |-> "declare", as |-> as, names |-> names]
Item(name, suffix, below) == [name |-> name, suffix |-> suffix, below |-> below]
Plain(name) == Item(name, " ", {})
Menu(menu, items) == [kind |-> "menu", menu |-> menu, items |-> items]
ChoiceOf(menu, names, default) ==
  [kind |-> "choices", menu |-> menu, names |-> names, default |-> default]
Suppress(e, dependent, names) ==
  [kind |-> "suppress", expr |-> e, dependent |-> dependent, names |-> names]
Require(e) == [kind |-> "require", expr |-> e, explanation |-> "none"]
Prohibit(e, explanation) == [kind |-> "prohibit", expr |-> e, explanation |-> explanation]
Named(kind, name) == [kind |-> kind, name |-> name]
Bound(kind, name, e) == [kind |-> kind, name |-> name, expr |-> e]
Icon(lines) == [kind |-> "icon", lines |-> lines]
Condition(tie) == [kind |-> "condition", flag |-> "trits", tie |-> tie]
Test(op) == [kind |-> "test", op |-> op, name |-> "none", expected |-> TRUE]
TestOf(op, name) == [kind |-> "test", op |-> op, name |-> name, expected |-> TRUE]
Succeeded(expected) == [kind |-> "test", op |-> "succeeded", name |-> "none", expected |-> expected]

MCNames == {"M", "C", "A", "B", "D", "E", "X"}

Declarations == <<Declared("menu", <<"M", "C">>), Declared("symbol", <<"A", "B">>)>>

(* Menus, menus twice, menus in themselves, choices.                       *)
MenuText ==
  [first |-> Declarations, length |-> 6,
   then |-> {Menu("M", <<Plain("A"), Plain("C")>>), Menu("M", <<Plain("M")>>),
             Menu("C", <<Plain("B")>>), Menu("C", <<Plain("M"), Item("A", "?", {})>>),
             ChoiceOf("C", <<"A", "B">>, "A"), ChoiceOf("C", <<"B">>, "A"),
             Named("start", "M"), Named("start", "X"),
             Declared("explanation", <<"X">>)}]

(* What depends on what.                                                   *)
DependencyText ==
  [first |-> Declarations, length |-> 6,
   then |-> {Suppress(Name("A"), TRUE, <<"C">>), Suppress(Name("A"), TRUE, <<"B">>),
             Suppress(Binary("or", Name("A"), Name("B")), FALSE, <<"C", "A">>),
             Suppress(Name("M"), TRUE, <<"B">>),
             Menu("M", <<Plain("A"), Plain("C")>>), Menu("C", <<Plain("B")>>),
             Menu("M", <<Item("B", "%", {}), Plain("C"), Item("A", "?", {"B", "C"})>>),
             Menu("M", <<Plain("B"), Item("C", " ", {"B"}), Item("A", "?", {"B", "C"})>>),
             ChoiceOf("C", <<"B">>, "B"),
             [kind |-> "save", expr |-> Name("A"), names |-> <<"B", "X">>],
             Named("banner", "C"), Named("start", "M")}]

(* What the location of a rule is.                                         *)
LocationText ==
  [first |-> <<Declared("symbol", <<"A", "B">>)>>, length |-> 5,
   then |-> {Require(Name("A")), Prohibit(Name("B"), "X"), Bound("derive", "D", Name("A")),
             Condition("B"), Named("start", "M"), Test("commit"), TestOf("set", "A"),
             Test("parsetest")}]

(* Which type a symbol has, and when.                                      *)
TypeText ==
  [first |-> <<Declared("menu", <<"M">>), Declared("symbol", <<"A", "B">>), Named("start", "M")>>,
   length |-> 7,
   then |-> {Bound("derive", "D", Name("A")), Bound("derive", "E", Name("D")),
             Bound("derive", "D", [op |-> "trinary", cond |-> Name("A"), left |-> Name("B"),
                                   right |-> Literal("boolean")]),
             Menu("M", <<Item("A", "?", {}), Plain("B")>>),
             Menu("M", <<Item("A", "$", {}), Plain("D"), Item("B", " ", {"D"})>>),
             Require(Binary("and", Name("D"), Name("B"))),
             Prohibit(Binary("equals", Name("A"), Literal("tristate")), "none"),
             Require(Binary("plus", Name("A"), Name("B"))),
             Bound("default", "A", Name("E")), Condition("A"), Condition("boolean")}]

(* Test scripts.                                                           *)
TestText ==
  [first |-> <<Declared("menu", <<"M">>), Declared("symbol", <<"A">>), Named("start", "M"),
               Menu("M", <<Plain("A")>>), Test("parsetest")>>, length |-> 8,
   then |-> {TestOf("set", "A"), TestOf("visible", "A"), TestOf("saveable", "M"), Test("assert"),
             Test("commit"), Test("clear"), Test("freeze"), Test("error"), Test("noerror"),
             Succeeded(TRUE), Succeeded(FALSE)}]

(* Derived symbols in a circle, and rules on them.                         *)
DerivationText ==
  [first |-> <<Declared("menu", <<"M">>), Declared("symbol", <<"A", "B">>), Named("start", "M"),
               Menu("M", <<Plain("A"), Plain("B")>>)>>, length |-> 8,
   then |-> {Bound("derive", "D", Binary("and", Name("A"), Name("E"))),
             Bound("derive", "D", Name("E")), Bound("derive", "D", Name("A")),
             Bound("derive", "E", Binary("or", Name("D"), Name("B"))),
             Bound("derive", "E", Name("D")),
             Require(Binary("or", Name("D"), Name("B"))), Prohibit(Name("E"), "none"),
             Suppress(Name("E"), FALSE, <<"B">>)}]

(* What comes before the start statement.                                  *)
StartText ==
  [first |-> <<Declared("menu", <<"M">>), Declared("symbol", <<"A">>)>>, length |-> 5,
   then |-> {Require(Name("A")), Bound("derive", "D", Name("A")), Named("start", "M"),
             Icon(1), Icon(2)}]

(* A symbol that goes from one menu to another after something was derived *)
(* from it.                                                                *)
MoveText ==
  [first |-> Declarations \o <<Named("start", "M")>>, length |-> 7,
   then |-> {Menu("M", <<Item("A", "?", {})>>), Menu("M", <<Plain("B"), Plain("C")>>),
             Bound("derive", "D", Name("A")), Suppress(Name("D"), TRUE, <<"C">>),
             ChoiceOf("C", <<"A">>, "A")}]

MCTexts == {MoveText, DerivationText, StartText, MenuText, DependencyText, LocationText, TypeText, TestText}
=============================================================================
