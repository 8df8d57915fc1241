------------------------------- MODULE MCParts -------------------------------
(***************************************************************************)
(* Five small parts of gcml2 which share no state: the ranges of range.c,  *)
(* one rule in expr.c, the result of cml-check, the rows of a page of gtk, *)
(* and the boxes of lxdialog, which is a program of its own. A behaviour   *)
(* is one of a single part; the others stay as they are at the beginning.  *)
(***************************************************************************)
EXTENDS Range, MCExpr, MCCheck, MCWidgets, MCDialogs

VARIABLE part

Ranges == part = "ranges" /\ TidyNext
Rule   == part = "rule" /\ RuleNext
Check  == part = "check" /\ CheckNext
Page   == part = "rows" /\ RowsNext
Boxes  == part = "boxes" /\ Next

(* A part that has come to its end: all nodes of the rule are set, or      *)
(* cml-check is gone.                                                      *)
Over ==
  /\ \/ part = "rule" /\ DOMAIN known = DOMAIN TypeOf
     \/ part = "check" /\ stage \in {"exit", "dead"}
  /\ UNCHANGED <<range_vars, rule_vars, checkVars, row_vars, vars>>

(* No row is on the screen.                                                *)
NoPage ==
  /\ value = Initial /\ built = {} /\ visible = {} /\ shown = [n \in Nodes |-> {}]
  /\ typed = {} /\ current = "Text" /\ show_suppressed = FALSE /\ creating = FALSE /\ astray = FALSE

PartsInit ==
  /\ part \in {"ranges", "rule", "check", "rows", "boxes"}
  /\ RangeInit
  /\ IF part = "rows" THEN RowsInit ELSE NoPage
  /\ IF part = "rule" THEN RuleInit
     ELSE rule = Const("y") /\ known = [s \in DOMAIN TypeOf |-> Atom(TypeOf[s], "n")]
  /\ CheckInit /\ (part # "check" => files = <<"notes">>)
  /\ Init /\ (part # "boxes" => session = {"ask"})

PartsNext ==
  /\ \/ Ranges /\ UNCHANGED <<rule_vars, checkVars, row_vars, vars>>
     \/ Rule /\ UNCHANGED <<range_vars, checkVars, row_vars, vars>>
     \/ Check /\ UNCHANGED <<range_vars, rule_vars, row_vars, vars>>
     \/ Page /\ UNCHANGED <<range_vars, rule_vars, checkVars, vars>>
     \/ Boxes /\ UNCHANGED <<range_vars, rule_vars, checkVars, row_vars>>
     \/ Over
  /\ UNCHANGED part

PartsSpec == PartsInit /\ [][PartsNext]_<<part, range_vars, rule_vars, checkVars, row_vars, vars>>
=============================================================================
