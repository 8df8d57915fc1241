------------------------------ MODULE Rulebase ------------------------------
(***************************************************************************)
(* What happens inside cml_node_set_value() and the load of a file: nodes  *)
(* are set, the rules that use them are triggered, broken rules are solved *)
(* by setting further nodes, and so on (node.c, rule.c, rulebase.c), on    *)
(* the transaction log and in the sessions that module Transactions        *)
(* describes. There the further nodes are any; here the rules decide.      *)
(*                                                                         *)
(* The C functions call each other recursively. The variable stack holds   *)
(* their frames, so that a step is one binding, one rule looked at, one    *)
(* symbol of a solution or one return.                                     *)
(***************************************************************************)
EXTENDS Transactions, Atoms, SequencesExt

CONSTANTS
  TypeOf,     (* node->value_type: "boolean", "tristate" or "node".            *)
  Children,   (* The children of each radio menu, in order.                    *)
  Rulebases,  (* The rulebases tried: their nodes; their rules, in order; some *)
              (* default expressions; of each node the rules that use it       *)
              (* (node->rules_using), the atoms it may be bound to and how     *)
              (* deep its default refers to others.                            *)
  expr_evaluate(_, _),  (* An expression, and values of the symbols in it.     *)
  expr_solution(_, _),  (* What to set to make an expression true, when some   *)
                        (* symbols keep their values: expr_simplify, then      *)
                        (* expr_solve.                                         *)
  expr_symbols(_)       (* The symbols in an expression.                       *)

cml_node_is_radio(n) == n \in DOMAIN Children

is_radio_child(n) == Parent[n] \in DOMAIN Children

ASSUME RulebaseAssumption ==
  /\ TypeOf \in [Symbols -> {"boolean", "tristate", "node"}]
  /\ DOMAIN Children = {n \in Symbols : TypeOf[n] = "node"}
  /\ \A m \in DOMAIN Children : Children[m] \in Seq(Symbols) \ {<<>>}
  /\ \A m \in DOMAIN Children : \A k \in DOMAIN Children[m] :
       Parent[Children[m][k]] = m /\ TypeOf[Children[m][k]] = "boolean"
  /\ \A n \in Symbols : is_radio_child(n) => \E k \in DOMAIN Children[Parent[n]] : Children[Parent[n]][k] = n

(* The values that the user interface and files offer for a node.          *)
Offered(n) ==
  CASE TypeOf[n] = "node"    -> {Atom("node", Children[n][k]) : k \in DOMAIN Children[n]}
    [] TypeOf[n] = "boolean" -> {Bool(b) : b \in BOOLEAN}
    [] OTHER                 -> {Atom("tristate", v) : v \in Tritvals}

(* The nodes that the value of an unbound node is read off.                *)
Sources(base, n) ==
  CASE is_radio_child(n) -> {Parent[n]}
    [] ~is_radio_child(n) /\ n \in DOMAIN base.default -> expr_symbols(base.default[n])
    [] OTHER -> {}

(* Values of nodes in a rulebase.                                          *)
ValuesIn(base, S) == {v \in [S -> Values] : \A n \in S : v[n] \in base.atoms[n]}

(* A rule is among those of every symbol in it (postparse.c, Cml2Check).   *)
(* Default expressions do not refer to each other in a circle.             *)
ASSUME RulebasesAssumption ==
  /\ Unbound \notin Values
  /\ \A base \in Rulebases :
       /\ base.nodes \subseteq Symbols
       /\ \A n \in base.nodes : is_radio_child(n) => Parent[n] \in base.nodes
       /\ \A m \in DOMAIN Children \cap base.nodes : \A k \in DOMAIN Children[m] : Children[m][k] \in base.nodes
       /\ \A n \in Symbols : Offered(n) \subseteq base.atoms[n] /\ base.atoms[n] \subseteq Values
       /\ \A m \in DOMAIN Children : base.atoms[m] = Offered(m)
       /\ \A n \in Symbols : base.rules_using[n] \in Seq(DOMAIN base.rules)
       /\ \A r \in DOMAIN base.rules :
            /\ expr_symbols(base.rules[r]) \subseteq base.nodes
            /\ \A n \in expr_symbols(base.rules[r]) : r \in ToSet(base.rules_using[n])
       /\ base.deepest \in Nat
       /\ \A n \in Symbols :
            /\ base.depth[n] \in 0..base.deepest
            /\ \A s \in Sources(base, n) : s \in Symbols /\ base.depth[s] < base.depth[n]
       /\ \A n \in Symbols \cap DOMAIN base.default :
            /\ n \notin DOMAIN Children
            /\ \A v \in ValuesIn(base, expr_symbols(base.default[n])) :
                 expr_evaluate(base.default[n], v) \in base.atoms[n]

(* What expr_solve promises (Expr, MCExpr) of a rule that is broken with   *)
(* the values v and of which the nodes S keep theirs: goals for symbols of *)
(* the rule; values that keep them and meet all goals do not break it, and *)
(* values that keep them and satisfy the rule meet the goals.              *)
MeetsGoals(v, goals) ==
  \A k \in DOMAIN goals : goals[k] \notin {GivesUp, Dies} => v[goals[k].node].val = goals[k].atom.val

GoalsIn(base, rule, goals) ==
  /\ goals \in Seq({Goal(n, a) : n \in expr_symbols(rule), a \in Values} \cup {GivesUp, Dies})
  /\ \A k \in DOMAIN goals : goals[k] \notin {GivesUp, Dies} =>
       goals[k].atom \in base.atoms[goals[k].node]

Solves(base, rule, v, S, goals) ==
  /\ GoalsIn(base, rule, goals)
  /\ \A w \in ValuesIn(base, expr_symbols(rule)) : (\A n \in S : w[n].val = v[n].val) =>
       /\ {GivesUp, Dies} \cap ToSet(goals) = {} /\ MeetsGoals(w, goals) =>
            expr_evaluate(rule, w) # Bool(FALSE)
       /\ expr_evaluate(rule, w).val = "y" => MeetsGoals(w, goals)

ASSUME SolverAssumption ==
  \A base \in Rulebases : \A r \in DOMAIN base.rules :
    \A v \in ValuesIn(base, expr_symbols(base.rules[r])) :
      expr_evaluate(base.rules[r], v) = Bool(FALSE) =>
        \A S \in SUBSET expr_symbols(base.rules[r]) :
          Solves(base, base.rules[r], v, S, expr_solution(base.rules[r], [n \in S |-> v[n]]))

VARIABLES
  rb,        (* The rulebase.                                                  *)
  broken,    (* rb->broken_rules, as indices of rules.                         *)
  stack      (* The frames of the call in progress, the innermost last.        *)

rvars == <<vars, rb, broken, stack>>

-----------------------------------------------------------------------------
(* Reading values.                                                         *)

(* The value of a node that is not bound. Default expressions do not refer *)
(* to each other in a circle.                                              *)
unbound_value[n \in Symbols] ==
  LET get_value(s) == IF Get(s) # Unbound THEN Get(s) ELSE unbound_value[s]
  IN  CASE is_radio_child(n) -> Bool(get_value(Parent[n]).val = n)
        [] ~is_radio_child(n) /\ n \in DOMAIN rb.default ->
             expr_evaluate(rb.default[n], [s \in expr_symbols(rb.default[n]) |-> get_value(s)])
        [] OTHER -> IF cml_node_is_radio(n) THEN Atom("node", Children[n][1])
                    ELSE Atom(TypeOf[n], "n")

cml_node_get_value(n) == IF Get(n) # Unbound THEN Get(n) ELSE unbound_value[n]

value == [n \in Symbols |-> cml_node_get_value(n)]

(* The transaction whose binding of the node is in force is FROZEN.        *)
cml_node_is_frozen(n) ==
  LET current == {k \in DOMAIN bindings[n] : InForce(bindings[n][k])}
  IN  current # {} /\ "FROZEN" \in transactions[bindings[n][Newest(current)]].flags

(* Mutant: every node that has been set keeps its value.                   *)
FixedBound == {n \in Symbols : Get(n) # Unbound}

Fixed == chilled \cup {n \in Symbols : cml_node_is_frozen(n)}

-----------------------------------------------------------------------------
(* The frames. Each has a list of what is still to be done and whether all *)
(* went well so far.                                                       *)

(* mn_set_value(node, atom): the nodes that mn_set_value2 is called for.   *)
SetFrame(node, atom, todo) ==
  [kind |-> "set", node |-> node, atom |-> atom, todo |-> todo, ok |-> TRUE]

(* The loops of mn_set_value2 over nodes and of rb_trigger_rules over the  *)
(* rules of one of them.                                                   *)
RulesFrame(nodes, rules) == [kind |-> "rules", nodes |-> nodes, todo |-> rules, ok |-> TRUE]

(* rule_trigger on a broken rule: what expr_solve has still to solve.      *)
SolveFrame(rule, goals) == [kind |-> "solve", rule |-> rule, todo |-> goals, ok |-> TRUE]

Top == Last(stack)

(* The step is inside a call whose innermost frame is of this kind and has *)
(* something left to do.                                                   *)
At(kind) == ~aborted /\ stack # <<>> /\ Top.kind = kind /\ Top.todo # <<>> /\ (Top.ok \/ kind = "rules")

(* Mutant: the loop does not advance.                                      *)
NotAdvanced == Top

Advanced == [Top EXCEPT !.todo = Tail(@)]

Replaced(frame) == [stack EXCEPT ![Len(stack)] = frame]

(* mn_set_value on a radio menu: the menu, then its children.              *)
Chosen(menu, child) ==
  <<Goal(menu, Atom("node", child))>> \o
    [k \in DOMAIN Children[menu] |-> Goal(Children[menu][k], Bool(Children[menu][k] = child))]

(* mn_set_value: the nodes it sets, and the values.                        *)
Sets(n, a) ==
  CASE cml_node_is_radio(n) -> Chosen(n, a.val)
    [] is_radio_child(n) /\ a.val = "y" -> Chosen(Parent[n], n)
    [] OTHER -> <<Goal(n, a)>>

(* mn_set_value2 triggers the rules of each triggerable node: the node     *)
(* itself comes first unless it is among the nodes of the hash table,      *)
(* which are in no particular order.                                       *)
Triggers(mn, source) ==
  LET nodes == Triggerable(mn, source)
      first == OpensTransaction(source) /\ guarded[source] # <<>> =>
                 mn \notin DOMAIN transactions[Overridden(source)].bindings
  IN  {RulesFrame(nodes \ {n}, rb.rules_using[n]) : n \in IF first THEN {mn} ELSE nodes}

-----------------------------------------------------------------------------
(* cml_node_set_value by the user: the node is the source of all that is   *)
(* bound. It binds the first node, and the rules of that are to be         *)
(* triggered.                                                              *)
UserSet(s, a) ==
  LET todo == Sets(s, a)
  IN  /\ Settled
      /\ SetValue(s, todo[1].node, todo[1].atom)
      /\ \E rules \in Triggers(todo[1].node, s) : stack' = <<SetFrame(s, a, Tail(todo)), rules>>
      /\ UNCHANGED <<rb, broken>>

(* A line of a file (load.c): mn_set_value(mn, a, rb->start). Its outcome  *)
(* is ignored; a line for a node that is chilled has no effect.            *)
LoadLine(n, a) ==
  LET todo == Sets(n, a)
  IN  /\ stack = <<>> /\ ~cml_node_is_radio(n)
      /\ \/ Settled /\ last_undo_id = 0 /\ Load(todo[1].node, todo[1].atom)
         \/ call = Start /\ Propagate(todo[1].node, todo[1].atom)
      /\ \E rules \in Triggers(todo[1].node, Start) : stack' = <<SetFrame(n, a, Tail(todo)), rules>>
      /\ UNCHANGED <<rb, broken>>

LoadEnds ==
  /\ call = Start /\ stack = <<>> /\ ~aborted
  /\ Return(TRUE)
  /\ UNCHANGED <<rb, broken, stack>>

(* mn_set_value2 on the next node that a frame has to set.                 *)
Bound ==
  /\ At("set")
  /\ LET next == Head(Top.todo)
     IN  /\ Propagate(next.node, next.atom)
         /\ \E rules \in Triggers(next.node, call) : stack' = Append(Replaced(Advanced), rules)
  /\ UNCHANGED <<rb, broken>>

(* "Ruleset found unsatisfiable while setting ...": the node is chilled.   *)
Refused ==
  /\ At("set")
  /\ mn_is_chilled(Head(Top.todo).node)
  /\ stack' = Replaced([Top EXCEPT !.ok = FALSE])
  /\ UNCHANGED <<vars, rb, broken>>

(* The rules of the next triggerable node.                                 *)
NextNode ==
  /\ ~aborted /\ stack # <<>> /\ Top.kind = "rules" /\ Top.todo = <<>>
  /\ \E n \in Top.nodes :
       stack' = Replaced([Top EXCEPT !.nodes = @ \ {n}, !.todo = rb.rules_using[n]])
  /\ UNCHANGED <<vars, rb, broken>>

Uses(r) == expr_symbols(rb.rules[r])

RuleValue(r) == expr_evaluate(rb.rules[r], [n \in Uses(r) |-> value[n]])

(* The rule is the next to be looked at.                                   *)
Looked(r) == At("rules") /\ r = Head(Top.todo)

(* rule_trigger when the rule holds.                                       *)
RuleHolds ==
  \E r \in DOMAIN rb.rules :
    /\ Looked(r)
    /\ RuleValue(r) = Bool(TRUE)
    /\ broken' = broken \ {r}
    /\ stack' = Replaced(Advanced)
    /\ UNCHANGED <<vars, rb>>

(* rule_trigger when the rule is broken: it is simplified and solved.      *)
RuleBroken ==
  \E r \in DOMAIN rb.rules :
    /\ Looked(r)
    /\ RuleValue(r) = Bool(FALSE)
    /\ LET kept == [n \in Uses(r) \cap Fixed |-> value[n]]
       IN  stack' = Append(Replaced(Advanced), SolveFrame(r, expr_solution(rb.rules[r], kept)))
    /\ UNCHANGED <<vars, rb, broken>>

(* An assert() of the evaluation, of rule_trigger or of expr_solve fails.  *)
RuleAsserts ==
  /\ \/ \E r \in DOMAIN rb.rules : Looked(r) /\ RuleValue(r).type # "boolean"
     \/ At("solve") /\ Head(Top.todo) = Dies
  /\ Die
  /\ UNCHANGED <<rb, broken, stack>>

(* expr_solve on the next symbol of a solution.                            *)
GoalMet ==
  /\ At("solve")
  /\ Head(Top.todo) \notin {GivesUp, Dies}
  /\ value[Head(Top.todo).node].val = Head(Top.todo).atom.val
  /\ stack' = Replaced(Advanced)
  /\ UNCHANGED <<vars, rb, broken>>

GoalSet ==
  /\ At("solve")
  /\ Head(Top.todo) \notin {GivesUp, Dies}
  /\ LET g == Head(Top.todo)
     IN  /\ value[g.node].val # g.atom.val
         /\ stack' = Append(Replaced(Advanced), SetFrame(g.node, g.atom, Sets(g.node, g.atom)))
  /\ UNCHANGED <<vars, rb, broken>>

Unsolved ==
  /\ At("solve")
  /\ Head(Top.todo) = GivesUp
  /\ stack' = Replaced([Top EXCEPT !.ok = FALSE])
  /\ UNCHANGED <<vars, rb, broken>>

(* Mutant: the outcome is ignored.                                         *)
Ignored(frame, ok) == frame

(* A frame is told the outcome of a call it made.                          *)
Outcome(frame, ok) == [frame EXCEPT !.ok = @ /\ ok]

(* Mutant: a rule that cannot be solved is not remembered.                 *)
Forgotten(rule, ok) == broken \ {rule}

(* rule_trigger: broken_rules once it has tried to solve the rule.         *)
BrokenAfter(rule, ok) == IF ok THEN broken \ {rule} ELSE broken \cup {rule}

(* The innermost function returns: all is done, or mn_set_value or         *)
(* expr_solve has failed. A user's call that fails is counted in           *)
(* num_failed_sets; the load goes on with the next line.                   *)
Returned ==
  /\ stack # <<>> /\ ~aborted
  /\ IF Top.kind = "rules" THEN Top.todo = <<>> /\ Top.nodes = {} ELSE Top.todo = <<>> \/ ~Top.ok
  /\ broken' = IF Top.kind = "solve" THEN BrokenAfter(Top.rule, Top.ok) ELSE broken
  /\ IF Len(stack) = 1
     THEN /\ stack' = <<>>
          /\ IF call = Start THEN UNCHANGED vars ELSE Return(Top.ok)
     ELSE /\ stack' = [Front(stack) EXCEPT
                         ![Len(stack) - 1] = Outcome(@, Top.ok)]
          /\ UNCHANGED vars
  /\ UNCHANGED rb

(* cml_rulebase_check_all_rules: every rule is looked at, none solved.     *)
CheckAllRules ==
  /\ Settled
  /\ \A r \in DOMAIN rb.rules : RuleValue(r).type = "boolean"
  /\ broken' = {r \in DOMAIN rb.rules : RuleValue(r).val # "y"}
  /\ UNCHANGED <<vars, rb, stack>>

(* The rest of a session of gtk/main.c.                                    *)
FrontEnd ==
  /\ \/ (HasNew \/ failed) /\ \E freeze \in BOOLEAN : Commit(freeze)
     \/ Settled /\ (Undo \/ Redo \/ Clear)
  /\ UNCHANGED <<rb, broken, stack>>

RInit == Init /\ rb \in Rulebases /\ broken = {} /\ stack = <<>>

CallStep ==
  \/ Bound \/ Refused
  \/ NextNode \/ RuleHolds \/ RuleBroken \/ RuleAsserts
  \/ GoalMet \/ GoalSet \/ Unsolved
  \/ Returned
  \/ LoadEnds

RNext ==
  \/ \E s \in rb.nodes : \E a \in Offered(s) : UserSet(s, a)
  \/ \E s \in rb.nodes : \E a \in Offered(s) : LoadLine(s, a)
  \/ CallStep
  \/ CheckAllRules
  \/ FrontEnd

(* Once called, the library goes on until it returns: the weak fairness of *)
(* CallStep, of which a step is always possible inside a call.             *)
Running == []<><<CallStep>>_rvars \/ []<>(call = NoCall \/ aborted)

RSpec == RInit /\ [][RNext]_rvars /\ Running

-----------------------------------------------------------------------------
(* Properties.                                                             *)

(* A call of the user succeeded and its transaction is still open.         *)
Accepted ==
  /\ call = NoCall /\ ~failed /\ ~aborted
  /\ HasNew /\ transactions[Len(transactions)].guard # Start

JustBound == DOMAIN transactions[Len(transactions)].bindings

(* The value of a node can change without the node being bound: that of a  *)
(* child with the choice in its menu, that of a default expression with    *)
(* what the expression uses. Then its rules are not triggered.             *)
Reached(n) ==
  \A S \in SUBSET Symbols :
    /\ JustBound \subseteq S
    /\ \A s \in Symbols : Get(s) = Unbound /\ Sources(rb, s) \cap S # {} => s \in S
    => n \in S

Disturbed(n) == n \notin JustBound /\ Reached(n)

(* The call bound a node of the rule and disturbed none besides.           *)
Watched(r) == Uses(r) \cap JustBound # {} /\ \A n \in Uses(r) : ~Disturbed(n)

(* rule_trigger() counts a rule as satisfied when it has set what would    *)
(* satisfy it, without evaluating it again: by the end of a successful     *)
(* call every rule that mentions a node it bound holds, although later     *)
(* rules bound further nodes. Rules that read a default which the call     *)
(* changed are left out: nothing triggers them.                            *)
AcceptedRulesHold ==
  Accepted => \A r \in DOMAIN rb.rules : Watched(r) => RuleValue(r).val = "y"

(* After a successful call that chose in a radio menu exactly the chosen   *)
(* child is y ("radio behaviour", mn_set_value).                           *)
RadioChosen ==
  Accepted =>
    \A m \in JustBound \cap DOMAIN Children : \A k \in DOMAIN Children[m] :
      value[Children[m][k]].val = "y" <=> value[m].val = Children[m][k]

(* A successful call leaves the node with the value that was asked for, no *)
(* rule changed it back on the way (chilled nodes, mn_set_value2), and a   *)
(* radio menu in which the call or a rule chose agrees with its children.  *)
AcceptedAsAsked ==
  [][\A n \in Symbols :
       call \in Symbols /\ call' = NoCall /\ ~failed' /\ n = stack[1].node =>
         (value[n].val)' = stack[1].atom.val /\ RadioChosen']_rvars

(* The value a node was frozen with when the call began, if it was.        *)
FrozenWith(n) ==
  LET before == {k \in DOMAIN bindings[n] :
                   InForce(bindings[n][k]) /\ bindings[n][k] # Len(transactions)}
      tx == transactions[bindings[n][Newest(before)]]
  IN  IF before # {} /\ "FROZEN" \in tx.flags THEN {tx.bindings[n].val} ELSE {}

(* The assignments that satisfy every rule and every radio menu, keep what *)
(* was frozen, and give the node that was asked for its value.             *)
Assignments(s, a) ==
  {v \in [rb.nodes -> UNION {Offered(n) : n \in rb.nodes}] :
     /\ v[s] = a
     /\ \A n \in rb.nodes : v[n] \in Offered(n)
     /\ \A n \in rb.nodes \ {Sets(s, a)[1].node} : FrozenWith(n) \subseteq {v[n].val}
     /\ \A m \in DOMAIN Children \cap rb.nodes : \A k \in DOMAIN Children[m] :
          v[Children[m][k]].val = "y" <=> v[m].val = Children[m][k]
     /\ \A r \in DOMAIN rb.rules : expr_evaluate(rb.rules[r], [n \in Uses(r) |-> v[n]]).val = "y"}

(* What a call binds beyond the node that was asked for is implied, also   *)
(* when the call is about to fail: every assignment with the wanted value  *)
(* that satisfies the rules has it (expr_solve). The rulebases have no     *)
(* rule that makes a tristate symbol differ from a boolean constant, where *)
(* the solver does more than that.                                         *)
BindingsImplied ==
  call \in Symbols /\ Len(stack) = 1 /\ (Top.todo = <<>> \/ ~Top.ok) =>
    \A v \in Assignments(stack[1].node, stack[1].atom) :
      \A n \in JustBound : v[n].val = value[n].val

(* When a call fails, every broken rule that mentions a node it bound is   *)
(* named, for the front ends to show (cml_rulebase_get_broken_rules).      *)
(* There may be none: a rule that could not be solved comes to hold by     *)
(* what a later one binds, and the call fails nevertheless. And a rule     *)
(* about a child that a refused choice did not reach is not looked at.     *)
BrokenAreNamed ==
  failed /\ HasNew /\ ~aborted =>
    \A r \in DOMAIN rb.rules :
      Watched(r) /\ RuleValue(r).val # "y" => r \in broken

(* Every call returns: setting, triggering and solving come to an end.     *)
CallReturns == call # NoCall ~> (call = NoCall \/ aborted)
=============================================================================
