------------------------------- MODULE MCWidgets -------------------------------
(* A page with a boolean symbol that guards a tristate and a string row, a *)
(* banner, and a menu; the page of the menu has a combo box of numbers, a  *)
(* choices menu and a row for any number.                                  *)
EXTENDS Widgets, TLC

Leaf(type, enumdefs, range) ==
  [treetype |-> "symbol", value_type |-> type, radio |-> FALSE, children |-> <<>>,
   enumdefs |-> enumdefs, range |-> range]
Menu(radio, children) ==
  [treetype |-> "menu", value_type |-> "none", radio |-> radio, children |-> children,
   enumdefs |-> {}, range |-> {}]

MCNodes == {"M", "B", "T", "S", "Text", "U", "L", "C", "C1", "C2", "I"}

MCDescription ==
  ("M" :> Menu(FALSE, <<"B", "T", "S", "Text", "U">>)) @@
  ("U" :> Menu(FALSE, <<"L", "C", "I">>)) @@ ("C" :> Menu(TRUE, <<"C1", "C2">>)) @@
  ("Text" :> Menu(FALSE, <<>>)) @@
  ("B" :> Leaf("boolean", {}, {})) @@ ("T" :> Leaf("tristate", {}, {})) @@
  ("S" :> Leaf("string", {}, {})) @@ ("L" :> Leaf("decimal", {}, {"1"})) @@
  ("I" :> Leaf("hexadecimal", {}, {})) @@
  ("C1" :> Leaf("boolean", {}, {})) @@ ("C2" :> Leaf("boolean", {}, {}))

MCGuard == [n \in MCNodes |-> IF n \in {"T", "C"} THEN "B" ELSE "none"]

MCDomain ==
  [n \in MCNodes |-> CASE n = "B" -> {"n", "y"}
                       [] n = "T" -> {"n", "m", "y"}
                       [] n = "S" -> {"", "1"}
                       [] n = "L" -> {"0", "1"}
                       [] n = "C" -> {"C1", "C2"}
                       [] n = "I" -> {"0", "1"}
                       [] OTHER -> {"none"}]

MCInitial ==
  [n \in MCNodes |-> CASE n \in {"B", "T"} -> "n" [] n = "S" -> "" [] n \in {"L", "I"} -> "0"
                       [] n = "C" -> "C1" [] OTHER -> "none"]

(* 0x1 is 1, as integer_set() reads it.                                   *)
Mcstrtoul == ("0" :> "0") @@ ("1" :> "1") @@ ("0x1" :> "1")

MCTexts == [n \in MCNodes |-> CASE n = "S" -> {"1"}
                                [] n = "I" -> {"0x1"}
                                [] OTHER -> {}]
================================================================================
