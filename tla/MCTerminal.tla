------------------------------- MODULE MCTerminal -------------------------------
(***************************************************************************)
(* A rulebase for module Terminal: a driver, a string in a menu that is    *)
(* visible when the driver is not off, and two choices; the string is seen *)
(* with the first of them and saved in any case. A built-in driver  *)
(* needs the second choice.                                                *)
(***************************************************************************)
EXTENDS Terminal

MCOrder == <<"start", "a", "menu", "n", "radio", "r1", "r2">>
MCParent == [a |-> "start", menu |-> "start", n |-> "menu", radio |-> "start", r1 |-> "radio", r2 |-> "radio"]
MCDerived == <<"d">>
MCKind == [n \in ToSet(MCOrder) |->
             CASE n \in {"start", "menu"} -> "menu" [] n = "radio" -> "radio" [] OTHER -> "symbol"]
MCType == [a |-> "tristate", n |-> "string", r1 |-> "boolean", r2 |-> "boolean"]
MCData == [a |-> {"n", "m", "y"}, n |-> {"a", "a\"b"}, r1 |-> {"n", "y"}, r2 |-> {"n", "y"}]
MCDefault == [a |-> "m", n |-> "a", r1 |-> "y", r2 |-> "n"]
MCLegal(v) == v["r1"] # v["r2"] /\ (v["a"] = "y" => v["r2"] = "y")
MCConditional == {"menu", "n"}
MCShows(v, n) == IF n = "menu" THEN v["a"] # "n" ELSE v["r1"] = "y"
MCDependees == [n \in ToSet(MCOrder) |-> IF n = "n" THEN {"menu"} ELSE {}]
MCKept == {"n"}
MCSaves(v, n) == v["a"] # "n"
MCDerivedValue(v, d) == IF v["a"] = "y" THEN "y" ELSE "n"
MCReadBack(x) == IF x = "a\"b" THEN "a" ELSE x
MCShortened(x) == IF x = "a\"b" THEN {"a"} ELSE {}
MCOld(f) == IF f = "config" THEN "config.old" ELSE "other.old"
=============================================================================
