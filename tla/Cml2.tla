--------------------------------- MODULE Cml2 ---------------------------------
(***************************************************************************)
(* What the statements of a CML2 rulebase do to it (the actions of         *)
(* libcml/cml2_parser.y), and the checks that follow the last one          *)
(* (libcml/postparse.c). Cml2Check reads files and makes the statements.   *)
(*                                                                         *)
(* A statement is a record with a "kind"; names are members of Names. The  *)
(* loops of an action over a list are given by what they come to. Lists of *)
(* which the order tells nothing (children, dependees) are sets.           *)
(* Help texts, prefixes, ranges, enums and the data of icons do not bear   *)
(* on whether a rulebase is accepted and are left out.                     *)
(***************************************************************************)
EXTENDS ExprTree, Integers, Sequences, FiniteSets, SequencesExt

CONSTANTS
  Names, None,
  expr_new(_, _),      (* The expression of a statement, with the types that   *)
                       (* the names have when it is built.                     *)
  expr_symbols(_),     (* The names in an expression.                          *)
  check_expr(_, _),    (* Whether logical operators have boolean operands,     *)
                       (* with these types of the names.                       *)
  using_rule(_, _)     (* Of an expression, with these nodes: the symbols that *)
                       (* it rests on, whether it is met inside itself, and    *)
                       (* whether it is too deep.                              *)

ASSUME NoneAssumption == None \notin Names

NullExpr == [op |-> "null", type |-> "none"]

mn_new ==
  [treetype |-> "unknown", value_type |-> "none", parent |-> None, children |-> {},
   radio |-> FALSE, expr |-> NullExpr, visibility_expr |-> NullExpr,
   saveability_expr |-> NullExpr, expr_count |-> 0, dependees |-> {}, seen |-> FALSE,
   rules_using |-> {}]

ValueTypes == {"none", "boolean", "tristate", "decimal", "string"}

(* A rule has the location the parser gives it and, for the properties,    *)
(* the place where its statement starts.                                   *)
Rule(expr, location, place) == [expr |-> expr, location |-> location, place |-> place]

NoLocation == [file |-> "", line |-> 0]

(* Of the count of errors it matters whether there are any.                *)
cml_rulebase_new ==
  [nodes |-> [n \in Names |-> mn_new], rules |-> {}, start |-> None, start_loc |-> NoLocation,
   start_place |-> NoLocation, banner |-> None, icon |-> FALSE, conditions |-> [f \in {} |-> "none"],
   test_script |-> <<>>, parsetest |-> FALSE, errors |-> FALSE, aborted |-> FALSE]

Node(rb, n) == rb.nodes[n]
Types(rb)   == [n \in Names |-> Node(rb, n).value_type]
Abort(rb)   == [rb EXCEPT !.aborted = TRUE]

ErrorIf(condition, rb) == [rb EXCEPT !.errors = @ \/ condition]
yyerror(rb) == ErrorIf(TRUE, rb)

(* check_mn_type says no, but the statement goes on.                       *)
check_mn_type(rb, n, types) == ErrorIf(Node(rb, n).treetype \notin types, rb)

-----------------------------------------------------------------------------
(* Expressions. Building one counts each use of a name.                    *)

Built(rb, e) ==
  IF e.op = "name" THEN Symbol(e.name, Node(rb, e.name).value_type) ELSE expr_new(e, Types(rb))

Counted(rb, e) ==
  [rb EXCEPT !.nodes = [n \in Names |->
     IF n \in expr_symbols(e) THEN [@[n] EXCEPT !.expr_count = 1] ELSE @[n]]]

(* mn_add_visibility_expr and mn_add_saveability_expr, and what they come  *)
(* to for a list, in which a name may be twice.                            *)
Merged(old, e) == IF old = NullExpr THEN e ELSE Composite("or", old, e)

MergedBy(names, n, old, e) ==
  CASE Cardinality({k \in DOMAIN names : names[k] = n}) = 0 -> old
    [] Cardinality({k \in DOMAIN names : names[k] = n}) = 1 -> Merged(old, e)
    [] OTHER -> Merged(Merged(old, e), e)

(* The assertions of mn_add_dependant.                                     *)
MayDepend(rb, n, dependee) ==
  /\ Node(rb, dependee).treetype \in {"symbol", "derived", "unknown"}
  /\ Node(rb, n).treetype \in {"menu", "symbol"}

-----------------------------------------------------------------------------
(* Declarations: symbols, menus and explanations.                          *)

set_mn_treetype(mn, type) == IF mn.treetype = "unknown" THEN [mn EXCEPT !.treetype = type] ELSE mn

Declare(rb, s) ==
  LET known(k) == \/ Node(rb, s.names[k]).treetype # "unknown"
                  \/ \E j \in 1..k - 1 : s.names[j] = s.names[k]
  IN  [ErrorIf(\E k \in DOMAIN s.names : known(k), rb) EXCEPT !.nodes =
         [n \in Names |-> IF n \in ToSet(s.names) THEN set_mn_treetype(@[n], s.as) ELSE @[n]]]

-----------------------------------------------------------------------------
(* Visibility and saveability rules.                                       *)

visibility_rule(rb, s) ==
  LET e == Built(rb, s.expr)
      dependees == IF s.dependent THEN expr_symbols(e) ELSE {}
      hidden(n, mn) == [mn EXCEPT !.visibility_expr = MergedBy(s.names, n, @, e),
                                  !.dependees = @ \cup dependees]
  IN  IF \E n \in ToSet(s.names) : \E d \in dependees : ~MayDepend(rb, n, d) THEN Abort(rb)
      ELSE [Counted(rb, e) EXCEPT !.nodes =
              [n \in Names |-> IF n \in ToSet(s.names) THEN hidden(n, @[n]) ELSE @[n]]]

saveability_rule(rb, s) ==
  LET e == Built(rb, s.expr)
      saved(n, mn) == [mn EXCEPT !.saveability_expr = MergedBy(s.names, n, @, e)]
  IN  [Counted(rb, e) EXCEPT !.nodes = [n \in Names |-> saved(n, @[n])]]

-----------------------------------------------------------------------------
(* Menus. An item is a name with the suffix that gives its type and the    *)
(* names in the braces after it. Items are in the order in which they are  *)
(* acted upon, those inside braces before the one that has the braces.     *)

SuffixType == [s \in {" ", "?", "%", "$"} |->
  CASE s = " " -> "boolean" [] s = "?" -> "tristate" [] s = "%" -> "decimal" [] s = "$" -> "string"]

IsSymbol(rb, item) == Node(rb, item.name).treetype = "symbol"

(* name_or_subtree: check_mn_type, check_mn_is_orphan, set_value_type and  *)
(* handle_subtree report an error.                                         *)
ItemErrs(rb, item) ==
  \/ Node(rb, item.name).treetype \notin IF item.below = {} THEN {"symbol", "menu"} ELSE {"symbol"}
  \/ Node(rb, item.name).parent # None
  \/ item.suffix # " " /\ ~IsSymbol(rb, item)
  \/ item.below # {} /\ SuffixType[item.suffix] \notin {"boolean", "tristate", "decimal"}

(* set_value_type: the last item of that name decides.                     *)
set_value_type(rb, items, n) ==
  LET mine == {k \in DOMAIN items : items[k].name = n}
  IN  IF mine # {} /\ Node(rb, n).treetype = "symbol" THEN SuffixType[items[Max(mine)].suffix]
      ELSE Node(rb, n).value_type

(* handle_subtree: the guard of a subtree governs what no guard before it  *)
(* has taken.                                                              *)
Guards(rb, items) ==
  {k \in DOMAIN items : /\ items[k].below # {} /\ IsSymbol(rb, items[k])
                        /\ SuffixType[items[k].suffix] \in {"boolean", "tristate", "decimal"}}

GuardExpr(item) ==
  LET type == SuffixType[item.suffix]
  IN  IF type = "boolean" THEN Symbol(item.name, type)
      ELSE Composite("not_equals", Symbol(item.name, type), Constant(Atom(type, "n")))

Governed(mn, guard) ==
  [mn EXCEPT !.visibility_expr = Merged(@, GuardExpr(guard)),
             !.dependees = IF mn.treetype = "symbol" THEN @ \cup {guard.name} ELSE @,
             !.seen = TRUE]

handle_subtree(rb, items, n) ==
  LET mn == Node(rb, n)
      guards == {k \in Guards(rb, items) : n \in items[k].below}
  IN  IF mn.seen \/ guards = {} THEN mn ELSE Governed(mn, items[Min(guards)])

mn_set_children(mn, n, menu, children) ==
  [mn EXCEPT !.children = IF n = menu THEN children ELSE @,
             !.parent = IF n \in children THEN menu ELSE @]

NamesOf(items) == {items[k].name : k \in DOMAIN items}

menu_definition(rb, s) ==
  LET guards == {s.items[k].name : k \in Guards(rb, s.items)}
      typed(n) == [handle_subtree(rb, s.items, n) EXCEPT
                     !.value_type = set_value_type(rb, s.items, n),
                     !.expr_count = IF n \in guards THEN 1 ELSE @]
  IN  [ErrorIf(\/ \E k \in DOMAIN s.items : ItemErrs(rb, s.items[k])
               \/ Node(rb, s.menu).treetype # "menu", rb) EXCEPT !.nodes =
         [n \in Names |-> mn_set_children(typed(n), n, s.menu, NamesOf(s.items))]]

(* Mutant: the members of a choices menu are not given their type.         *)
ChoiceUntyped(mn) == mn

ChoiceTyped(mn) == [mn EXCEPT !.value_type = "boolean"]

choices_definition(rb, s) ==
  LET members == ToSet(s.names)
      typed(n) == [IF n \in members THEN ChoiceTyped(Node(rb, n)) ELSE Node(rb, n) EXCEPT
                     !.radio = @ \/ n = s.menu]
      nodes == [n \in Names |-> mn_set_children(typed(n), n, s.menu, members)]
      absent == nodes[s.default].parent # s.menu
  IN  [ErrorIf(\/ Node(rb, s.menu).treetype # "menu" \/ absent
               \/ \E n \in members : Node(rb, n).treetype # "symbol", rb) EXCEPT !.nodes =
         [n \in Names |-> IF n = s.menu /\ ~absent
                          THEN [nodes[n] EXCEPT !.expr = Constant(Atom("node", s.default))]
                          ELSE nodes[n]]]

-----------------------------------------------------------------------------
(* Derivations and defaults.                                               *)

derive_definition(rb, s) ==
  LET e == Built(rb, s.expr)
      r == Counted(rb, e)
  IN  IF Node(rb, s.name).treetype # "unknown" THEN yyerror(r)
      ELSE [r EXCEPT !.nodes[s.name].treetype = "derived",
                     !.nodes[s.name].expr = e,
                     !.nodes[s.name].value_type = e.type]

set_default_expr(rb, s) ==
  LET e == Built(rb, s.expr)
      r == Counted(rb, e)
  IN  IF Node(rb, s.name).treetype # "symbol" \/ Node(rb, s.name).expr # NullExpr THEN yyerror(r)
      ELSE [r EXCEPT !.nodes[s.name].expr = e]

-----------------------------------------------------------------------------
(* Statements that take a location. The place where the statement really   *)
(* starts is kept beside it, for the properties.                           *)

(* "prohibit" is "require not".                                            *)
requirement_definition(rb, s, location, place) ==
  LET e == Built(rb, s.expr)
      r == Counted(rb, e)
      q == IF s.explanation = None THEN r ELSE check_mn_type(r, s.explanation, {"explanation"})
  IN  [q EXCEPT !.rules = @ \cup
         {Rule(IF s.kind = "prohibit" THEN Not(e) ELSE e, location, place)}]

start_definition(rb, s, location, place) ==
  [check_mn_type(ErrorIf(rb.start # None, rb), s.name, {"menu", "unknown"}) EXCEPT
     !.start = s.name, !.start_loc = location, !.start_place = place]

(* The tie of a condition is a name, or the type of a constant.            *)
condition_declaration(rb, s) ==
  LET r == ErrorIf(s.flag \in DOMAIN rb.conditions, rb)
      q == IF s.tie \in Names THEN check_mn_type(r, s.tie, {"symbol"}) ELSE r
  IN  [q EXCEPT !.conditions = (s.flag :> s.tie) @@ @]

test_script_entry(rb, s) ==
  LET r == IF s.name = None THEN rb ELSE check_mn_type(rb, s.name, {"symbol"})
  IN  IF s.op = "parsetest" THEN [r EXCEPT !.parsetest = TRUE]
      ELSE [r EXCEPT !.test_script = Append(@, s)]

Kinds == {"declare", "suppress", "save", "menu", "choices", "derive", "default", "require",
          "prohibit", "start", "banner", "icon", "condition", "test"}

(* Those that have an expression.                                          *)
Expressive == {"suppress", "save", "derive", "default", "require", "prohibit"}

(* What the grammar lets a statement be.                                   *)
Grammatical(s) ==
  /\ s.kind \in Kinds
  /\ s.kind \in {"declare", "suppress", "save", "choices"} => s.names \in Seq(Names)
  /\ s.kind = "declare" => s.as \in {"symbol", "menu", "explanation"}
  /\ s.kind \in Expressive => (s.expr.op = "name" => s.expr.name \in Names)
  /\ s.kind = "suppress" => s.dependent \in BOOLEAN
  /\ s.kind \in {"menu", "choices"} => s.menu \in Names
  /\ s.kind = "choices" => s.default \in Names
  /\ s.kind = "menu" =>
       s.items \in Seq([name : Names, suffix : DOMAIN SuffixType, below : SUBSET Names])
  /\ s.kind \in {"derive", "default", "start", "banner"} => s.name \in Names
  /\ s.kind \in {"require", "prohibit"} => s.explanation \in Names \cup {None}
  /\ s.kind = "test" => s.name \in Names \cup {None}

(* The action of a statement. Once an assertion has failed nothing runs.   *)
Reduce(rb, s, location, place) ==
  CASE rb.aborted -> rb
    [] ~rb.aborted /\ s.kind = "declare" -> Declare(rb, s)
    [] ~rb.aborted /\ s.kind = "suppress" -> visibility_rule(rb, s)
    [] ~rb.aborted /\ s.kind = "save" -> saveability_rule(rb, s)
    [] ~rb.aborted /\ s.kind = "menu" -> menu_definition(rb, s)
    [] ~rb.aborted /\ s.kind = "choices" -> choices_definition(rb, s)
    [] ~rb.aborted /\ s.kind = "derive" -> derive_definition(rb, s)
    [] ~rb.aborted /\ s.kind = "default" -> set_default_expr(rb, s)
    [] ~rb.aborted /\ s.kind \in {"require", "prohibit"} ->
         requirement_definition(rb, s, location, place)
    [] ~rb.aborted /\ s.kind = "start" -> start_definition(rb, s, location, place)
    [] ~rb.aborted /\ s.kind = "banner" -> [rb EXCEPT !.banner = s.name]
    [] ~rb.aborted /\ s.kind = "icon" -> [rb EXCEPT !.icon = TRUE]
    [] ~rb.aborted /\ s.kind = "condition" -> condition_declaration(rb, s)
    [] ~rb.aborted /\ s.kind = "test" -> test_script_entry(rb, s)

-----------------------------------------------------------------------------
(* cml_rulebase_post_parse: the checks of the whole rulebase.              *)

IsLogical(type) == type \in {"boolean", "tristate"}
Comparable(t, u) == t = u \/ (IsLogical(t) /\ IsLogical(u))

ConditionType(rb, f) ==
  IF rb.conditions[f] \in Names THEN Node(rb, rb.conditions[f]).value_type ELSE rb.conditions[f]

CheckStart(rb) ==
  ErrorIf(\/ rb.start = None \/ (rb.start # None /\ Node(rb, rb.start).treetype # "menu")
          \/ \E f \in DOMAIN rb.conditions : ~IsLogical(ConditionType(rb, f))
                                             /\ ConditionType(rb, f) # "none", rb)

(* The nodes that were met, which are those of the hash table.             *)
Met(rb) == {n \in Names : Node(rb, n) # mn_new \/ n \in {rb.start, rb.banner}}

(* check_menu_node. The type of a derived symbol that had none is that of  *)
(* its expression at the time the hash table comes to it.                  *)
check_menu_node(rb, n) ==
  LET mn == Node(rb, n)
      type == expr_get_value_type(Types(rb), mn.expr)
  IN  CASE mn.treetype = "unknown" -> yyerror(rb)
        [] mn.treetype = "menu" ->
             ErrorIf(\/ mn.expr_count > 0
                     \/ n \notin {rb.start, rb.banner} /\ mn.parent = None
                     \/ mn.saveability_expr # NullExpr, rb)
        [] mn.treetype = "symbol" ->
             ErrorIf(\/ mn.parent = None
                     \/ /\ mn.visibility_expr # NullExpr
                        /\ expr_get_value_type(Types(rb), mn.visibility_expr) # "boolean", rb)
        [] mn.treetype = "explanation" ->
             ErrorIf(mn.expr_count > 0 \/ mn.parent # None \/ mn.saveability_expr # NullExpr, rb)
        [] mn.treetype = "derived" ->
             ErrorIf(\/ mn.visibility_expr # NullExpr \/ mn.parent # None
                     \/ mn.value_type = "none" /\ type = "none",
                     IF mn.value_type = "none" THEN [rb EXCEPT !.nodes[n].value_type = type] ELSE rb)

(* conv_dep_to_rule_2 goes down from a menu, except a choices menu.        *)
Steps(nodes) ==
  [n \in Names |-> IF nodes[n].treetype = "menu" /\ ~nodes[n].radio THEN nodes[n].children ELSE {}]

(* The nodes that steps lead to from some others, these included.          *)
Reachable(steps, from) ==
  {m \in Names : \A S \in SUBSET Names : from \subseteq S /\ (\A n \in S : steps[n] \subseteq S) => m \in S}

(* The nodes below one, itself only if a menu is in a circle.              *)
Below(nodes, n) == Reachable(Steps(nodes), Steps(nodes)[n])

Circular(nodes) == \E n \in Names : n \in Below(nodes, n)

DependencyRule(s, d) ==
  Composite("less_equals", Symbol(s, "none"), Symbol(d, "none"))

DependencyRules(nodes, dependees(_)) ==
  {DependencyRule(p[1], p[2]) : p \in
     {q \in Names \X Names : /\ nodes[q[1]].treetype = "symbol"
                             /\ Comparable(nodes[q[1]].value_type, nodes[q[2]].value_type)
                             /\ q[2] \in dependees(q[1])}}

(* Mutant: only the symbols that are themselves named get a rule.          *)
OwnDependencies(nodes) == DependencyRules(nodes, LAMBDA s : nodes[s].dependees)

Dependencies(nodes) ==
  LET below == [n \in Names |-> {n} \cup Below(nodes, n)]
  IN  DependencyRules(nodes, LAMBDA s : UNION {nodes[n].dependees : n \in {m \in Names : s \in below[m]}})

check_rule(rb, rule) ==
  check_expr(Types(rb), rule.expr) /\ expr_get_value_type(Types(rb), rule.expr) = "boolean"

_mn_add_using_rule(rb) ==
  [rb EXCEPT !.nodes = [n \in Names |->
     [@[n] EXCEPT !.rules_using = {rule \in rb.rules : n \in using_rule(rb.nodes, rule.expr).symbols}]]]

(* The recursion on a circle of menus does not return.                     *)
ConvertAndCheckRules(rb) ==
  LET r == [rb EXCEPT !.rules = @ \cup
              {Rule(e, NoLocation, NoLocation) : e \in Dependencies(rb.nodes)}]
      uses == {using_rule(r.nodes, rule.expr) : rule \in r.rules}
      bad == (\E rule \in r.rules : ~check_rule(r, rule)) \/ (\E use \in uses : use.loop)
  IN  IF Circular(rb.nodes) \/ (\E use \in uses : use.deep) THEN Abort(rb)
      ELSE ErrorIf(bad, _mn_add_using_rule(r))
=============================================================================
