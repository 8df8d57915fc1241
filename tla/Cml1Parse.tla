------------------------------ MODULE Cml1Parse ------------------------------
(***************************************************************************)
(* The first pass over a CML1 rulebase: libcml/cml1_parser.y in single     *)
(* mode. A script is read line by line; every line that declares a symbol, *)
(* a menu, a comment or a choice becomes a branch of the node of that      *)
(* name, with the conjunction of the conditions it stands under.           *)
(*                                                                         *)
(* Two stacks live beside the one of the bison parser: cond_stack and      *)
(* menu_stack. Error recovery pops the parser's stack and leaves those     *)
(* alone. parser models it by the constructs that are open, innermost      *)
(* last; bison recovers in the innermost one whose block is not empty,     *)
(* because "block error EOL" needs a block before the error.               *)
(*                                                                         *)
(* A line is a record: its kind is if, else, fi, menu, endmenu, comment,   *)
(* query, define, dep_bool, dep_mbool, dep_tristate, choice, unset, blank, *)
(* mainmenu_name or test; nothen is an if without its then, badhex a hex   *)
(* statement whose number is not one and garbage any other syntax error. A *)
(* blank line is a statement; so is the end of the line of an else.        *)
(***************************************************************************)
EXTENDS Naturals, Sequences

CONSTANTS
  Symbols,      \* names of primitive symbols
  Banners,      \* banners of menus, choices and comments, which are their names
  Statements,   \* the lines that may stand at each place of a script, which bounds its length
  MaxBadLines   \* the bound on the length of a script with errors

VARIABLES
  nodes,        \* rb->menu_nodes, by name
  cond_stack,   \* of conjunctions: sequences of conditions, maybe negated
  menu_stack,   \* of names of menus
  parser,       \* the open constructs
  errors,       \* cml_message_count[CML_ERROR]
  banner,       \* rb->banner is set
  status,       \* parsing, skipping, accepted, rejected or aborted
  script        \* the lines read so far

parseVars == <<nodes, cond_stack, menu_stack, parser, errors, banner, status, script>>

Start == "__start"
None  == "none"

ASSUME NamesAssumption ==
  /\ Symbols \cap Banners = {}
  /\ {Start, None} \cap (Symbols \cup Banners) = {}
  /\ MaxBadLines \in Nat

(* A statement names symbols, or the banner of what it opens.              *)
ASSUME LinesAssumption ==
  \A i \in 1..Len(Statements) : \A st \in Statements[i] :
     /\ st.kind \in {"menu", "comment", "choice"} => st.name \in Banners
     /\ st.kind \in {"query", "define", "dep_bool", "dep_mbool", "dep_tristate"} => st.name \in Symbols
     /\ st.kind = "choice" => st.names \in Seq(Symbols)

TopOf(stack)  == stack[Len(stack)]
Popped(stack) == SubSeq(stack, 1, Len(stack) - 1)
Put(f, x, v)  == [y \in DOMAIN f \cup {x} |-> IF y = x THEN v ELSE f[y]]

-----------------------------------------------------------------------------
(* The condition stack. Each entry holds a copy of the one below it.       *)

Literal(cond) == [cond |-> cond, negated |-> FALSE]

cond_copy_top(conds) == IF conds = <<>> THEN <<>> ELSE TopOf(conds)

cond_push_m(conds, cond) == Append(conds, Append(cond_copy_top(conds), Literal(cond)))

(* Mutant: the else part keeps the condition of the then part.             *)
cond_else_forgotten(conds) == conds

cond_else(conds) ==
  LET top == TopOf(conds)
  IN  [conds EXCEPT ![Len(conds)] = [top EXCEPT ![Len(top)].negated = ~@]]

-----------------------------------------------------------------------------
(* Nodes and branches.                                                     *)

mn_new(treetype) ==
  [treetype |-> treetype, radio |-> FALSE, weak |-> FALSE, parent |-> None,
   children |-> <<>>, branches |-> <<>>]

branch_new(type, cond, menu) ==
  [type |-> type, cond |-> cond, parent |-> menu, value_type |-> None,
   exprs |-> <<>>, choice_default |-> None]

mn_add_child(ns, menu, name) ==
  [ns EXCEPT ![menu].children = Append(@, name), ![name].parent = menu]

Without(children, name) == LET Other(child) == child # name IN SelectSeq(children, Other)

mn_reparent(ns, menu, name) ==
  mn_add_child([ns EXCEPT ![ns[name].parent].children = Without(@, name)], menu, name)

(* The SYMBOLREF of a logical_atom: a forward reference makes a node.      *)
Referenced(ns, names) ==
  [n \in DOMAIN ns \cup names |-> IF n \in DOMAIN ns THEN ns[n] ELSE mn_new("unknown")]

add_compound_branch(ns, name, branch, menu) ==
  LET known == name \in DOMAIN ns
      fresh == mn_add_child(Put(ns, name, [mn_new("menu") EXCEPT !.radio = branch.type = "choice"]),
                            menu, name)
  IN  [(IF known THEN ns ELSE fresh) EXCEPT ![name].branches = Append(@, branch)]

(* A symbol that was only defined so far moves to where it is queried.     *)
(* Mutant: it stays.                                                       *)
MovesNever(node, branch) == FALSE

Moves(node, branch) == node.parent # None /\ branch.type # "define" /\ node.weak

add_primitive_branch(ns, name, branch, menu) ==
  LET known  == name \in DOMAIN ns
      node   == IF known THEN ns[name]
                ELSE [mn_new("unknown") EXCEPT !.weak = branch.type = "define"]
      with   == Put(ns, name, node)
      placed == IF node.parent = None THEN mn_add_child(with, menu, name)
                ELSE IF Moves(node, branch)
                THEN [mn_reparent(with, menu, name) EXCEPT ![name].weak = FALSE]
                ELSE with
  IN  [placed EXCEPT ![name].branches = Append(@, branch)]

(* The names of a choice, one after the other.                             *)
Listed(ns, names, branch, menu) ==
  LET with[i \in 0..Len(names)] ==
        IF i = 0 THEN ns ELSE add_primitive_branch(with[i - 1], names[i], branch, menu)
  IN  with[Len(names)]

(* A choice: a compound branch and, inside it, a query for each name. The  *)
(* children carry no condition of their own. The default is the name that  *)
(* matches, or else the first child of the node.                           *)
choice_statement(ns, st, cond, menu) ==
  LET compound == add_compound_branch(ns, st.name, branch_new("choice", cond, menu), menu)
      child    == [branch_new("query", <<>>, st.name) EXCEPT !.value_type = "boolean"]
      listed   == Listed(compound, st.names, child, st.name)
      children == listed[st.name].children
      deflt    == IF st.deflt # None THEN st.deflt
                  ELSE IF children # <<>> THEN children[1] ELSE None
      last     == Len(listed[st.name].branches)
  IN  [listed EXCEPT ![st.name].branches[last].choice_default = deflt]

-----------------------------------------------------------------------------
(* The constructs of the parser. conds and menus are the heights of the    *)
(* two stacks when the construct's block began.                            *)
Construct(kind, conds, menus) ==
  [kind |-> kind, empty |-> TRUE, conds |-> conds, menus |-> menus]

(* The innermost block is not empty any more.                              *)
Filled(ps) == [ps EXCEPT ![Len(ps)].empty = FALSE]

Dep   == {"dep_bool", "dep_mbool", "dep_tristate"}
Basic == {"query", "define", "comment", "choice", "unset", "blank"} \cup Dep

(* The line can follow what is open: the state of the parser has an action *)
(* for its first token.                                                    *)
Fits(st) ==
  LET top == TopOf(parser)
  IN  CASE st.kind \in {"mainmenu_name", "test"} -> top.kind = "toplevel"
        [] st.kind = "else"    -> top.kind = "if" /\ ~top.empty
        [] st.kind = "fi"      -> top.kind \in {"if", "else"} /\ ~top.empty
        [] st.kind = "endmenu" -> top.kind \in {"menu", "toplevel"} /\ ~top.empty
        [] st.kind = "garbage" -> FALSE
        [] OTHER -> TRUE

(* Recovery pops the constructs whose block is empty.                      *)
Recovered(ps) ==
  LET solid == {i \in 1..Len(ps) : ~ps[i].empty}
  IN  IF solid = {} THEN <<>>
      ELSE SubSeq(ps, 1, CHOOSE i \in solid : \A j \in solid : j <= i)

-----------------------------------------------------------------------------
(* The statements.                                                         *)

(* The symbols a line mentions, in its condition or in its operands.       *)
Mentions(st) ==
  CASE st.kind \in {"if", "nothen"} -> {st.cond.sym}
    [] st.kind \in {"define", "query"} \cup Dep ->
         {e.sym : e \in {st.exprs[i] : i \in {j \in 1..Len(st.exprs) : st.exprs[j].kind = "symbol"}}}
    [] OTHER -> {}

(* What a statement without a block does to the nodes.                     *)
Declared(st) ==
  LET cond == cond_copy_top(cond_stack)
      menu == TopOf(menu_stack)
      seen == Referenced(nodes, Mentions(st))
      branch == branch_new(st.kind, cond, menu)
  IN  CASE st.kind \in {"unset", "blank"} -> nodes
        [] st.kind = "comment" -> add_compound_branch(seen, st.name, branch, menu)
        [] st.kind = "choice"  -> choice_statement(seen, st, cond, menu)
        [] st.kind \in {"query", "define"} ->
             add_primitive_branch(seen, st.name,
               [branch EXCEPT !.exprs = st.exprs, !.value_type = st.type], menu)
        [] OTHER -> add_primitive_branch(seen, st.name, [branch EXCEPT !.exprs = st.exprs], menu)

(* The next line of the file, within the bounds.                           *)
NextLine(st) ==
  /\ Len(script) < Len(Statements) /\ st \in Statements[Len(script) + 1]
  /\ errors > 0 => Len(script) < MaxBadLines
  /\ script' = Append(script, st)

Read(st) == status = "parsing" /\ NextLine(st)

BasicStatement(st) ==
  /\ Read(st)
  /\ st.kind \in Basic
  /\ nodes' = Declared(st)
  /\ parser' = Filled(parser)
  /\ UNCHANGED <<cond_stack, menu_stack, errors, banner, status>>

(* mainmenu_name; a second one is an error, and only that.                 *)
MainmenuName(st) ==
  /\ Read(st)
  /\ st.kind = "mainmenu_name" /\ Fits(st)
  /\ errors' = IF banner THEN errors + 1 ELSE errors
  /\ banner' = TRUE
  /\ parser' = Filled(parser)
  /\ UNCHANGED <<nodes, cond_stack, menu_stack, status>>

(* The condition is pushed as soon as its bracket is closed.               *)
OpenIf(st) ==
  /\ Read(st)
  /\ st.kind = "if"
  /\ nodes' = Referenced(nodes, Mentions(st))
  /\ cond_stack' = cond_push_m(cond_stack, st.cond)
  /\ parser' = Append(parser, Construct("if", Len(cond_stack) + 1, Len(menu_stack)))
  /\ UNCHANGED <<menu_stack, errors, banner, status>>

(* The end of its line is the first statement of the else part, which is   *)
(* therefore no more empty than the then part was.                         *)
Else(st) ==
  /\ Read(st)
  /\ st.kind = "else" /\ Fits(st)
  /\ cond_stack' = cond_else(cond_stack)
  /\ parser' = [parser EXCEPT ![Len(parser)].kind = "else"]
  /\ UNCHANGED <<nodes, menu_stack, errors, banner, status>>

CloseIf(st) ==
  /\ Read(st)
  /\ st.kind = "fi" /\ Fits(st)
  /\ cond_stack' = Popped(cond_stack)
  /\ parser' = Filled(Popped(parser))
  /\ UNCHANGED <<nodes, menu_stack, errors, banner, status>>

OpenMenu(st) ==
  /\ Read(st)
  /\ st.kind = "menu"
  /\ LET branch == branch_new("menu", cond_copy_top(cond_stack), TopOf(menu_stack))
     IN  nodes' = add_compound_branch(nodes, st.name, branch, TopOf(menu_stack))
  /\ menu_stack' = Append(menu_stack, st.name)
  /\ parser' = Append(parser, Construct("menu", Len(cond_stack), Len(menu_stack) + 1))
  /\ UNCHANGED <<cond_stack, errors, banner, status>>

(* Mutant: the menu stays on the stack.                                    *)
CloseMenuKept(st) ==
  /\ Read(st)
  /\ st.kind = "endmenu" /\ Fits(st)
  /\ TopOf(parser).kind = "menu"
  /\ parser' = Filled(Popped(parser))
  /\ UNCHANGED <<nodes, cond_stack, menu_stack, errors, banner, status>>

CloseMenu(st) ==
  /\ Read(st)
  /\ st.kind = "endmenu" /\ Fits(st)
  /\ TopOf(parser).kind = "menu"
  /\ menu_stack' = Popped(menu_stack)
  /\ parser' = Filled(Popped(parser))
  /\ UNCHANGED <<nodes, cond_stack, errors, banner, status>>

(* "unbalanced endmenu" is an error, and no menu is popped.                *)
UnbalancedEndmenu(st) ==
  /\ Read(st)
  /\ st.kind = "endmenu" /\ Fits(st)
  /\ TopOf(parser).kind = "toplevel"
  /\ errors' = errors + 1
  /\ UNCHANGED <<nodes, cond_stack, menu_stack, parser, banner, status>>

(* A test script line: it adds to the test script and to no node.          *)
TestStatement(st) ==
  /\ Read(st)
  /\ st.kind = "test" /\ Fits(st)
  /\ parser' = Filled(parser)
  /\ UNCHANGED <<nodes, cond_stack, menu_stack, errors, banner, status>>

(* yyparse() gives up, and its caller cleans up the stacks.                *)
Rejected ==
  /\ status' = "rejected"
  /\ cond_stack' = <<>>
  /\ menu_stack' = <<>>

(* A line that does not fit is dropped, with the constructs that were open *)
(* around it and have no statement yet. The condition of an if that lacks  *)
(* its then has been pushed by that time.                                  *)
SyntaxError(st) ==
  /\ Read(st)
  /\ ~Fits(st) \/ st.kind = "nothen"
  /\ errors' = errors + 1
  /\ parser' = Recovered(parser)
  /\ nodes' = Referenced(nodes, Mentions(st))
  /\ IF parser' = <<>> THEN Rejected
     ELSE /\ cond_stack' = IF st.kind = "nothen" THEN cond_push_m(cond_stack, st.cond) ELSE cond_stack
          /\ UNCHANGED <<menu_stack, status>>
  /\ UNCHANGED banner

(* YYERROR of a hex statement, at the end of its line: what is dropped is  *)
(* the next line.                                                          *)
BadNumber(st) ==
  /\ Read(st)
  /\ st.kind = "badhex"
  /\ errors' = errors + 1
  /\ parser' = Recovered(parser)
  /\ IF parser' = <<>> THEN Rejected
     ELSE status' = "skipping" /\ UNCHANGED <<cond_stack, menu_stack>>
  /\ UNCHANGED <<nodes, banner>>

DropLine(st) ==
  /\ status = "skipping"
  /\ NextLine(st)
  /\ status' = "parsing"
  /\ UNCHANGED <<nodes, cond_stack, menu_stack, parser, errors, banner>>

(* The end of the file inside a block, or where nothing was read.          *)
PrematureEnd ==
  /\ \/ status = "skipping"
     \/ status = "parsing" /\ Len(parser) > 1
     \/ status = "parsing" /\ parser[1].empty
  /\ errors' = errors + 1
  /\ Rejected
  /\ UNCHANGED <<nodes, parser, banner, script>>

(* yyparse() returns 0. The two asserts, then the test for errors.         *)
StacksAreBack == cond_stack = <<>> /\ TopOf(menu_stack) = Start

EndOfFile ==
  /\ status = "parsing"
  /\ Len(parser) = 1 /\ ~parser[1].empty
  /\ IF StacksAreBack
     THEN /\ menu_stack' = Popped(menu_stack)
          /\ status' = IF errors = 0 /\ Popped(menu_stack) = <<>> THEN "accepted"
                       ELSE IF Popped(menu_stack) = <<>> THEN "rejected" ELSE "aborted"
     ELSE status' = "aborted" /\ UNCHANGED menu_stack
  /\ UNCHANGED <<nodes, cond_stack, parser, errors, banner, script>>

ParseInit ==
  /\ nodes = [n \in {Start} |-> mn_new("menu")]
  /\ cond_stack = <<>>
  /\ menu_stack = <<Start>>
  /\ parser = <<Construct("toplevel", 0, 1)>>
  /\ errors = 0
  /\ banner = FALSE
  /\ status = "parsing"
  /\ script = <<>>

ReadLine ==
  \E st \in UNION {Statements[i] : i \in 1..Len(Statements)} :
     \/ BasicStatement(st)
     \/ MainmenuName(st)
     \/ OpenIf(st)
     \/ Else(st)
     \/ CloseIf(st)
     \/ OpenMenu(st)
     \/ CloseMenu(st)
     \/ UnbalancedEndmenu(st)
     \/ TestStatement(st)
     \/ SyntaxError(st)
     \/ BadNumber(st)
     \/ DropLine(st)

ParseNext == ReadLine \/ PrematureEnd \/ EndOfFile

ParseSpec == ParseInit /\ [][ParseNext]_parseVars /\ WF_parseVars(PrematureEnd \/ EndOfFile)

-----------------------------------------------------------------------------
(* The stacks stand as the open constructs say: the invariant behind       *)
(* CleanScriptsParse.                                                      *)
Nested(outer, inner) ==
  \/ inner.kind \in {"if", "else"} /\ inner.conds = outer.conds + 1 /\ inner.menus = outer.menus
  \/ inner.kind = "menu" /\ inner.conds = outer.conds /\ inner.menus = outer.menus + 1

StacksFollow ==
  status = "parsing" /\ errors = 0 =>
    /\ Len(parser) > 0 /\ parser[1].kind = "toplevel" /\ parser[1].conds = 0 /\ parser[1].menus = 1
    /\ \A i \in 1..(Len(parser) - 1) : Nested(parser[i], parser[i + 1])
    /\ Len(cond_stack) = parser[Len(parser)].conds
    /\ Len(menu_stack) = parser[Len(parser)].menus
    /\ Len(menu_stack) > 0 /\ menu_stack[1] = Start

(* Reading a script without an error leaves both stacks where they began,  *)
(* so the asserts at the end of the first pass hold.                       *)
CleanScriptsParse == errors = 0 => status # "aborted"

(* "assert(cond_stack == 0)", "assert(menu_top() == rb->start)": whatever  *)
(* the script, the two stacks are back where they began when yyparse() has *)
(* returned 0. Error recovery leaves the condition of an if behind whose   *)
(* block was empty.                                                        *)
StacksComeBack == status # "aborted"

-----------------------------------------------------------------------------
(* Where the lines of the script stand, and the symbols they declare.      *)
Asking(st, sym) ==
  \/ st.kind \in Dep \cup {"query"} /\ st.name = sym
  \/ st.kind = "choice" /\ \E i \in 1..Len(st.names) : st.names[i] = sym

Defining(st, sym) == st.kind = "define" /\ st.name = sym

Asks(sym)    == {i \in 1..Len(script) : Asking(script[i], sym)}
Defines(sym) == {i \in 1..Len(script) : Defining(script[i], sym)}

(* The menus that are open after a line, when these were before it.        *)
OpenAfter(menus, st) ==
  CASE st.kind = "menu"    -> Append(menus, st.name)
    [] st.kind = "endmenu" -> Popped(menus)
    [] OTHER -> menus

MenusAt ==
  LET open[i \in 0..Len(script)] ==
        IF i = 0 THEN <<Start>> ELSE OpenAfter(open[i - 1], script[i])
  IN  open

(* The menu, or choice, that each line stands in.                          *)
Places ==
  [i \in 1..Len(script) |-> IF script[i].kind = "choice" THEN script[i].name ELSE TopOf(MenusAt[i])]

(* The symbol is mentioned before a line that declares it.                 *)
Forward(sym) ==
  \E i \in 1..Len(script) :
     sym \in Mentions(script[i]) /\ \A j \in 1..(i - 1) : j \notin Defines(sym) \cup Asks(sym)

(* A symbol stands in the menu, or choice, that asks for it first, even    *)
(* where it was defined before; unless a line mentions it before any does  *)
(* either.                                                                 *)
StandsWhereAsked ==
  status \in {"accepted", "converted"} =>
    \A sym \in Symbols : \A i \in Asks(sym) :
       (\A j \in Asks(sym) : i <= j) /\ ~Forward(sym) => nodes[sym].parent = Places[i]
=============================================================================
