-------------------------------- MODULE MCCml1 --------------------------------
(* Scripts over three symbols, two menus and a choice.                     *)
EXTENDS Cml1

Sym(s)  == [kind |-> "symbol", sym |-> s]
Val(v)  == [kind |-> "atom", atom |-> Atom("tristate", v)]
Is(s, v)    == [sym |-> s, op |-> "equals", val |-> v]
IsNot(s, v) == [sym |-> s, op |-> "not_equals", val |-> v]

Line(kind)       == [kind |-> kind]
If(cond)         == [kind |-> "if", cond |-> cond]
Ask(s, type)     == [kind |-> "query", name |-> s, type |-> type, exprs |-> <<>>]
Define(s, e)     == [kind |-> "define", name |-> s, type |-> "tristate", exprs |-> <<e>>]
Depend(k, s, on) == [kind |-> k, name |-> s, exprs |-> on]
Group(k, b)      == [kind |-> k, name |-> b]
Choose(b, names, d) == [kind |-> "choice", name |-> b, names |-> names, deflt |-> d]

MCSymbols == {"A", "B", "C"}
MCBanners == {"M", "P"}

First == {Ask("A", "tristate"), Define("B", Val("y")), Group("menu", "M"), If(IsNot("B", "n"))}

Usual ==
  {Ask("A", "tristate"), Ask("B", "tristate"), Define("B", Val("m")), Define("A", Val("y")),
   Depend("dep_tristate", "C", <<Sym("A"), Sym("B")>>), Depend("dep_bool", "C", <<Sym("A")>>),
   Depend("dep_mbool", "C", <<Sym("B")>>), Choose("P", <<"A", "B">>, None),
   If(Is("A", "y")), If(IsNot("B", "n")), Line("else"), Line("fi"),
   Group("menu", "M"), Line("endmenu")}

Rare == {Ask("A", "string"), Group("comment", "M"), Line("mainmenu_name"), Line("test"), Line("unset"), Line("blank"),
         Define("B", Sym("A")),
         Line("garbage"), Line("badhex"), [kind |-> "nothen", cond |-> Is("C", "y")]}

Closing == {Line("else"), Line("fi"), Line("endmenu"), Ask("B", "tristate"), Define("B", Val("y"))}

Ends == {Line("fi"), Line("endmenu")}

MCStatements == <<First \cup {Line("garbage")}, Usual \cup Rare, Usual, Usual, Closing, Ends>>
=============================================================================
