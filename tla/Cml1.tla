--------------------------------- MODULE Cml1 ---------------------------------
(***************************************************************************)
(* The second pass over a CML1 rulebase (libcml/cml1pass2.c), which turns  *)
(* the branches that the first pass collected for each node into a type, a *)
(* default or derivation, a visibility and a saveability expression, and   *)
(* rules; and what follows it in _cml_rulebase_parse_cml1.                 *)
(***************************************************************************)
EXTENDS Cml1Parse, Expr, SequencesExt

VARIABLE rulebase   \* what the second pass has made: by name, see Converted

vars == <<parseVars, rulebase>>

-----------------------------------------------------------------------------
(* Expressions that may be absent: a null expression means y.              *)

NullExpr == [op |-> "null"]
is_null(e) == e.op = "null"

OperandExpr(e) == IF e.kind = "symbol" THEN Symbol(e.sym, "none") ELSE Constant(e.atom)

(* A condition compares a symbol with a value.                             *)
LiteralExpr(l) ==
  LET e == Composite(l.cond.op, Symbol(l.cond.sym, "none"), Constant(Atom("tristate", l.cond.val)))
  IN  IF l.negated THEN Not(e) ELSE e

CondExpr(cond) ==
  IF cond = <<>> THEN NullExpr
  ELSE FoldLeft(LAMBDA e, l : Composite("and", e, LiteralExpr(l)), LiteralExpr(cond[1]), Tail(cond))

(* _expr_bool_const and the merge tables.                                  *)
BoolConst(e) ==
  CASE is_null(e) -> "y"
    [] is_atom(e) /\ e.type = "boolean" -> IF e.atom.val = "n" THEN "n" ELSE "y"
    [] OTHER -> "nonconst"

expr_merge_boolean_or(old, new) ==
  CASE BoolConst(old) = "n" -> IF BoolConst(new) = "n" THEN old ELSE new
    [] BoolConst(old) = "y" \/ BoolConst(new) = "n" -> old
    [] BoolConst(new) = "y" -> new
    [] OTHER -> Composite("or", old, new)

expr_merge_boolean_and(old, new) ==
  CASE BoolConst(old) = "n" \/ BoolConst(new) = "y" -> old
    [] BoolConst(old) = "y" \/ BoolConst(new) = "n" -> new
    [] OTHER -> Composite("and", old, new)

(* The first branch decides alone.                                         *)
merge_or(old, new, first) == IF first THEN new ELSE expr_merge_boolean_or(old, new)

(* Mutant: derived symbols are not looked into.                            *)
RECURSIVE ContainsItself(_, _, _)
ContainsItself(e, name, done) ==
  \/ \E c \in {e[c] : c \in {"cond", "left", "right"} \cap DOMAIN e} : ContainsItself(c, name, done)
  \/ e.op = "symbol" /\ e.node = name

(* expr_contains_symbol, through the derived symbols converted so far.     *)
RECURSIVE expr_contains_symbol(_, _, _)
expr_contains_symbol(e, name, done) ==
  LET within == {e[c] : c \in {"cond", "left", "right"} \cap DOMAIN e}
  IN  \/ \E c \in within : expr_contains_symbol(c, name, done)
      \/ /\ e.op = "symbol"
         /\ \/ e.node = name
            \/ /\ e.node \in DOMAIN done
               /\ done[e.node].treetype = "derived"
               /\ ~is_null(done[e.node].expr)
               /\ expr_contains_symbol(done[e.node].expr, name, done)

-----------------------------------------------------------------------------
(* Types.                                                                  *)

BranchType(branch) ==
  CASE branch.type \in {"dep_bool", "dep_mbool"} -> "boolean"
    [] branch.type = "dep_tristate" -> "tristate"
    [] OTHER -> branch.value_type

(* type_upgrade says which types may meet; the last one is taken.          *)
Compatible(t, u) ==
  t = u \/ {t, u} = {"boolean", "tristate"} \/ {t, u} = {"decimal", "hexadecimal"}

calc_value_type(branches) ==
  LET type(i) == BranchType(branches[i])
  IN  IF \A i \in 2..Len(branches) : Compatible(type(i - 1), type(i))
      THEN type(Len(branches)) ELSE None

calc_primitive_treetype(branches) ==
  IF \A i \in 1..Len(branches) : branches[i].type = "define" THEN "derived" ELSE "symbol"

(* The kinds a compound node was given; an error when there are several.   *)
calc_compound_treetype(branches) ==
  LET kinds == {branches[i].type : i \in 1..Len(branches)}
  IN  CASE kinds = {} -> None
        [] "menu" \in kinds -> "menu"
        [] "choice" \in kinds -> "choice"
        [] OTHER -> "comment"

-----------------------------------------------------------------------------
(* A primitive symbol. Its branches are merged in the order of the script. *)

(* Mutant: a conditional default drops the one there was.                  *)
RECURSIVE AtEndAlone(_, _, _)
AtEndAlone(e, cond, value) ==
  CASE e.op = "trinary" -> [e EXCEPT !.right = AtEndAlone(@, cond, value)]
    [] is_null(cond)    -> value
    [] OTHER -> Trinary(cond, value, Constant(Unset))

(* The default goes where the chain of trinary expressions ends.           *)
RECURSIVE AtEnd(_, _, _)
AtEnd(e, cond, value) ==
  CASE e.op = "trinary" -> [e EXCEPT !.right = AtEnd(@, cond, value)]
    [] is_null(cond)    -> value
    [] OTHER -> Trinary(cond, value, IF is_null(e) THEN Constant(Unset) ELSE e)

Require(cond, e) == IF is_null(cond) THEN e ELSE Composite("implies", cond, e)

merge_default_expr(node, name, branch, done) ==
  LET cond  == CondExpr(branch.cond)
      value == OperandExpr(branch.exprs[1])
  IN  CASE branch.exprs = <<>> -> node
        [] branch.exprs # <<>> /\ branch.type = "define" /\ ~is_null(cond)
             /\ expr_contains_symbol(cond, name, done) ->
             [node EXCEPT !.rules = @ \cup {Require(cond, Composite("equals", Symbol(name, "none"), value))},
                          !.expr = IF is_null(@) THEN Constant(Unset) ELSE @]
        [] OTHER -> [node EXCEPT !.expr = AtEnd(@, cond, value)]

(* What a dependency asks of the one depended on.                          *)
ShownWhen(type, dep) ==
  IF type = "dep_bool" THEN Composite("equals", dep, Constant(Atom("tristate", "y")))
  ELSE Composite("not_equals", dep, Constant(Atom("tristate", "n")))

calc_branch_visibility_expr(branch) ==
  FoldLeft(LAMBDA e, dep : expr_merge_boolean_and(e, ShownWhen(branch.type, OperandExpr(dep))),
           CondExpr(branch.cond), branch.exprs)

(* Mutant: every dependency is the one of modules.                         *)
RequiredAsModule(type) == "mdep"

Required(type) == IF type = "dep_mbool" THEN "mdep" ELSE "less_equals"

add_dependency_rules(name, branches) ==
  {Require(CondExpr(b.cond), Composite(Required(b.type), Symbol(name, "none"), OperandExpr(dep))) :
     <<b, dep>> \in UNION {{b} \X {b.exprs[i] : i \in 1..Len(b.exprs)} :
                             b \in {branches[j] : j \in {k \in 1..Len(branches) : branches[k].type \in Dep}}}}

Merge(node, name, branches, i, done) ==
  LET branch == branches[i]
      first  == i = 1
      shown  == CASE branch.type = "query" -> merge_or(node.visibility, CondExpr(branch.cond), first)
                  [] branch.type \in Dep ->
                       merge_or(node.visibility, calc_branch_visibility_expr(branch), first)
                  [] node.treetype = "symbol" /\ first -> Constant(Bool(FALSE))
                  [] OTHER -> node.visibility
      valued == IF branch.type \in Dep THEN node ELSE merge_default_expr(node, name, branch, done)
  IN  [valued EXCEPT !.visibility = shown,
                     !.saveability = merge_or(@, CondExpr(branch.cond), first)]

Primitive(name, done) ==
  LET branches == nodes[name].branches
      fresh == [treetype |-> calc_primitive_treetype(branches), type |-> calc_value_type(branches),
                expr |-> NullExpr, visibility |-> NullExpr, saveability |-> NullExpr,
                rules |-> add_dependency_rules(name, branches)]
      merged[i \in 0..Len(branches)] ==
        IF i = 0 THEN fresh ELSE Merge(merged[i - 1], name, branches, i, done)
  IN  merged[Len(branches)]

Unconverted == [treetype |-> "unknown", type |-> None, expr |-> NullExpr, visibility |-> NullExpr,
                saveability |-> NullExpr, rules |-> {}]

pass2_primitive(name, done) ==
  IF calc_value_type(nodes[name].branches) = None THEN Unconverted ELSE Primitive(name, done)

-----------------------------------------------------------------------------
(* A menu, comment or choice.                                              *)

(* The child that a choice has by default: of the first branch that has    *)
(* one.                                                                    *)
ChoiceDefault(branches) ==
  LET given == {i \in 1..Len(branches) : branches[i].choice_default # None}
  IN  IF given = {} THEN None
      ELSE branches[CHOOSE i \in given : \A j \in given : i <= j].choice_default

is_radio(name) == nodes[name].radio \/ calc_compound_treetype(nodes[name].branches) = "choice"

(* The asserts about the default.                                          *)
DefaultIsChild(name) ==
  LET deflt == ChoiceDefault(nodes[name].branches)
  IN  deflt # None /\ nodes[deflt].parent = name

pass2_compound(name) ==
  LET branches == nodes[name].branches
      shown[i \in 0..Len(branches)] ==
        IF i = 0 THEN NullExpr
        ELSE merge_or(shown[i - 1], CondExpr(branches[i].cond), i = 1)
  IN  [Unconverted EXCEPT
         !.treetype = "menu", !.visibility = shown[Len(branches)],
         !.expr = IF is_radio(name)
                  THEN Constant(Atom("node", ChoiceDefault(branches))) ELSE NullExpr]

(* pass2_node: a node and then, for a menu, its children.                  *)
RECURSIVE pass2_node(_, _)
pass2_node(name, done) ==
  IF nodes[name].treetype = "menu"
  THEN FoldLeft(LAMBDA d, child : pass2_node(child, d), Put(done, name, pass2_compound(name)),
                nodes[name].children)
  ELSE Put(done, name, pass2_primitive(name, done))

(* check_undefined_symbol of a symbol that no branch declares: a tristate  *)
(* without a value, in a menu that is not visible.                         *)
Blackhole  == "_blackhole"
Undeclared == [Unconverted EXCEPT !.treetype = "symbol", !.type = "tristate", !.expr = Constant(Unset)]
blackhole  == [Unconverted EXCEPT !.treetype = "menu", !.visibility = Constant(Bool(FALSE))]

Strays(done) == DOMAIN nodes \ DOMAIN done

Converted ==
  LET done == pass2_node(Start, <<>>)
      all  == [n \in DOMAIN nodes |-> IF n \in DOMAIN done THEN done[n] ELSE Undeclared]
  IN  IF Strays(done) = {} THEN all ELSE Put(all, Blackhole, blackhole)

(* Derived symbols leave the menus, and the undeclared ones enter theirs.  *)
detach_derived_symbol(done) ==
  LET Stays(n) == done[n].treetype # "derived"
  IN  [n \in DOMAIN nodes |-> [nodes[n] EXCEPT !.parent = IF Stays(n) THEN @ ELSE None,
                                               !.children = SelectSeq(@, Stays)]]

Settled ==
  LET done    == pass2_node(Start, <<>>)
      menus   == detach_derived_symbol(rulebase')
      strays  == Strays(done)
      settled == [n \in DOMAIN nodes |->
                    IF n \in strays THEN [menus[n] EXCEPT !.parent = Blackhole] ELSE menus[n]]
  IN  IF strays = {} THEN menus
      ELSE mn_add_child(Put(settled, Blackhole, [mn_new("menu") EXCEPT !.children = SetToSeq(strays)]),
                        Start, Blackhole)

(* The asserts of pass 2, and mn_add_child's in check_undefined_symbol,    *)
(* which meets a symbol with a parent if its types did not agree.          *)
ConversionAsserts ==
  \A n \in DOMAIN nodes :
     /\ nodes[n].treetype = "menu" /\ n # Start /\ is_radio(n) => DefaultIsChild(n)
     /\ nodes[n].treetype = "unknown" /\ nodes[n].parent # None => calc_value_type(nodes[n].branches) # None

Pass2 ==
  /\ status = "accepted"
  /\ IF ConversionAsserts
     THEN status' = "converted" /\ rulebase' = Converted /\ nodes' = Settled
     ELSE status' = "aborted in pass 2" /\ UNCHANGED <<rulebase, nodes>>
  /\ UNCHANGED <<cond_stack, menu_stack, parser, errors, banner, script>>

Init == ParseInit /\ rulebase = <<>>

Next == (ParseNext /\ UNCHANGED rulebase) \/ Pass2

Spec == Init /\ [][Next]_vars /\ WF_vars(PrematureEnd \/ EndOfFile \/ Pass2)

-----------------------------------------------------------------------------
(* What the script says, read as the shell reads it: a line is reached in  *)
(* an assignment of values when the conditions around it hold.             *)

(* The ifs around each line, and which part of each it is in.              *)
Scopes ==
  LET scope[i \in 0..Len(script)] ==
        IF i = 0 THEN <<>>
        ELSE LET outer == scope[i - 1]
             IN  CASE script[i].kind = "if"   -> Append(outer, [line |-> i, holds |-> TRUE])
                   [] script[i].kind = "else" -> [outer EXCEPT ![Len(outer)].holds = FALSE]
                   [] script[i].kind = "fi"   -> Popped(outer)
                   [] OTHER -> outer
  IN  scope

Holds(cond, env) == (env[cond.sym].val = cond.val) <=> (cond.op = "equals")

Reached(scopes, i, env) ==
  \A s \in ToSet(scopes[i]) : Holds(script[s.line].cond, env) <=> s.holds

Operand(e, env) == IF e.kind = "symbol" THEN env[e.sym] ELSE e.atom

(* A dependency must be y, or for modules y or m; one that is declared     *)
(* nowhere has no value and counts as a module does.                       *)
Offered(st, env) ==
  st.kind \in Dep =>
    \A i \in 1..Len(st.exprs) :
       IF st.kind = "dep_bool" THEN Operand(st.exprs[i], env).val = "y"
       ELSE Operand(st.exprs[i], env).val # "n"

Shown(e, env) == is_null(e) \/ Eval(e, env) = Bool(TRUE)

RECURSIVE InView(_, _)
InView(name, env) ==
  /\ Shown(rulebase[name].visibility, env)
  /\ nodes[name].parent # None => InView(nodes[name].parent, env)

Values == {Atom("tristate", v) : v \in Tritvals} \cup {Unset}
Envs   == [Symbols -> Values]

(* Some choice is given twice, with perhaps other names.                   *)
ChoiceTwice == \E i, j \in 1..Len(script) : i < j /\ script[i].kind = "choice"
                                            /\ script[j].kind = "choice" /\ script[i].name = script[j].name

(* The place of a symbol that is asked for in one menu only.               *)
OnePlace(sym) == Cardinality({Places[i] : i \in Asks(sym)}) = 1
Place(sym)    == CHOOSE p \in {Places[i] : i \in Asks(sym)} : TRUE

(* A symbol is in view, with every menu above it, in exactly the           *)
(* assignments in which the script reaches a line that asks for it and its *)
(* dependencies allow it, when it stands in the one menu that asks for it. *)
AskedIsShown ==
  status = "converted" /\ ~ChoiceTwice =>
    LET scopes == Scopes
    IN  \A sym \in Symbols :
          LET asks == Asks(sym)
          IN  OnePlace(sym) /\ nodes[sym].parent = Place(sym) =>
                \A env \in Envs :
                   InView(sym, env) <=> \E i \in asks : Reached(scopes, i, env) /\ Offered(script[i], env)

(* The default of a symbol that is not conditional on itself is what the   *)
(* last line reached that defines it says, provided that conditional       *)
(* definitions do not overlap and stand after the unconditional ones; with *)
(* no line reached it has no value.                                        *)
DefinedAsScript ==
  status = "converted" =>
    LET scopes == Scopes
    IN  \A sym \in Symbols :
          Defines(sym) # {} /\ Asks(sym) = {} /\ rulebase[sym].rules = {} =>
            \A env \in Envs :
              LET reached == {i \in Defines(sym) : Reached(scopes, i, env)}
                  guarded == {i \in reached : scopes[i] # <<>>}
              IN  /\ reached = {} => Eval(rulebase[sym].expr, env) = Unset
                  /\ \A last \in reached :
                       (\A i \in reached : i <= last) /\ guarded \subseteq {last} =>
                         Eval(rulebase[sym].expr, env) = Operand(script[last].exprs[1], env)

(* The derived symbols that the value of a symbol rests on.                *)
RECURSIVE Symbols_(_)
Symbols_(e) ==
  IF e.op = "symbol" THEN {e.node}
  ELSE UNION {Symbols_(e[c]) : c \in {"cond", "left", "right"} \cap DOMAIN e}

RestsOn(syms) ==
  {n \in UNION {Symbols_(rulebase[s].expr) : s \in syms} : rulebase[n].treetype = "derived"}

(* No derived symbol rests on itself, however indirectly, when symbols are *)
(* defined to literal values: evaluating it comes to an end.               *)
DerivationsEnd ==
  status = "converted" =>
    LET derived == {n \in DOMAIN rulebase : rulebase[n].treetype = "derived"}
        literal == {n \in derived : \A i \in Defines(n) : script[i].exprs[1].kind = "atom"}
        reach[i \in 0..Cardinality(derived), n \in literal] ==
          IF i = 0 THEN RestsOn({n}) ELSE LET r == reach[i - 1, n] IN r \cup RestsOn(r)
    IN  derived = literal => \A n \in derived : n \notin reach[Cardinality(derived), n]

(* Assignments that keep every rule respect the dependencies of the lines  *)
(* reached: y needs y from a dep_bool or dep_tristate, m at least m, and a *)
(* dep_mbool is y where its dependency is m.                               *)
DependenciesBind ==
  status = "converted" =>
    LET scopes == Scopes
        rules  == UNION {rulebase[n].rules : n \in DOMAIN rulebase}
        Allowed(kind, val, dep) ==
          CASE dep = "none" \/ val = "n" -> TRUE
            [] kind = "dep_mbool" -> dep # "n"
            [] val = "m" -> dep # "n"
            [] OTHER -> dep = "y"
    IN  \A env \in Envs :
          (\A r \in rules : Eval(r, env) = Bool(TRUE)) =>
            \A i \in 1..Len(script) :
               script[i].kind \in Dep /\ Reached(scopes, i, env) =>
                 \A j \in 1..Len(script[i].exprs) :
                    Allowed(script[i].kind, env[script[i].name].val, Operand(script[i].exprs[j], env).val)
=============================================================================
