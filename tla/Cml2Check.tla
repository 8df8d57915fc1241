------------------------------- MODULE Cml2Check -------------------------------
(***************************************************************************)
(* The CML2 parser, from the call of yyparse() to the result of            *)
(* cml_rulebase_parse(): the lexer with its stack of source files          *)
(* (cml2_lexer.l), the buffer of statement locations and the calls of the  *)
(* statements' actions (cml2_parser.y), the checks after the last          *)
(* statement (postparse.c), the test script (cml_rulebase_run_test) and    *)
(* the count of errors (rulebase.c).                                       *)
(*                                                                         *)
(* This is the component by itself, on its own terms: the first file is    *)
(* open and rb is set. No program of the repository gets there, since      *)
(* cml_rulebase_parse() gives every file to the CML1 parser (CmlCheck),    *)
(* and _cml_rulebase_parse_cml2() would crash: it opens the file, which    *)
(* writes to rb->filenames, before it sets rb.                             *)
(*                                                                         *)
(* What the files say is not fixed beforehand: every statement that is     *)
(* read is any statement of the chosen text. A statement's action that     *)
(* needs the next token to know that the statement is complete is run when *)
(* the keyword of the next statement has been read.                        *)
(***************************************************************************)
EXTENDS Cml2

CONSTANTS
  Texts,      \* what a rulebase may say: records of first, then and length
  MaxOpen     \* how many files can be open at a time

Statements(t) == ToSet(t.first) \cup t.then

(* What is asked of expr_new: it gives its expression a type, and nothing  *)
(* but a name makes a symbol.                                              *)
ASSUME TextsAssumption ==
  \A t \in Texts : \A s \in Statements(t) :
    /\ Grammatical(s)
    /\ s.kind \in Expressive /\ s.expr.op # "name" =>
         \A types \in [Names -> ValueTypes] :
           LET e == expr_new(s.expr, types)
           IN  e.op # "symbol" /\ e.type \in ValueTypes

VARIABLES
  text,       \* the text that is being read
  length,     \* how many statements have been read
  source_stack, \* the open files, innermost first: file, the line that the
              \* lexer believes it is at, and the one it is at
  fifo,       \* statement_locations, statement_in and statement_out
  pending,    \* the statement that waits for the next token, if any
  rb,         \* the rulebase
  displaced,  \* whether a derive statement or an icon has been read
  phase,      \* what the parse is at
  todo,       \* the nodes check_menu_node has still to see
  failed,     \* of cml_rulebase_parse
  script,     \* the position in the test script, and `success'
  wrong       \* whether something was ever reported as an error

vars == <<text, length, source_stack, fifo, pending, rb, displaced, phase, todo, failed, script,
          wrong>>

-----------------------------------------------------------------------------
(* The 2-place buffer of locations.                                        *)

STATEMENT_FIFO_MAX == 2

yylocation == [file |-> source_stack[1].file, line |-> source_stack[1].line]

(* Where the reader is.                                                    *)
Place == [file |-> source_stack[1].file, line |-> source_stack[1].at]

statement_init == [slots |-> [i \in 0..1 |-> NoLocation], in |-> 0, out |-> 0]

(* Mutant: the buffer has one place.                                       *)
PlaceAfterOnly(i) == i

PlaceAfter(i) == (i + 1) % STATEMENT_FIFO_MAX

statement_start(f) == [f EXCEPT !.slots[f.in] = yylocation, !.in = PlaceAfter(f.in)]

statement_taken(f) == [f EXCEPT !.out = PlaceAfter(f.out)]

(* The keywords at which the lexer calls statement_start, and the actions  *)
(* that call statement_get_location: derive has no use for it.             *)
Starts(s) == \/ s.kind \in {"condition", "derive", "prohibit", "require", "start"}
             \/ s.kind = "test" /\ s.op # "parsetest"

Takes(s) == Starts(s) /\ s.kind # "derive"

(* An action that waits for the next token.                                *)
Waits(s) == \/ s.kind \in {"require", "prohibit"} /\ s.explanation = None
            \/ s.kind = "test" /\ s.op \in {"set", "assert"}
            \/ s.kind \notin {"require", "prohibit", "start", "condition", "banner", "icon", "test"}

(* What is read and not yet acted upon: the statement and where it starts. *)
Waiting(s) == [statement |-> s, place |-> Place]

(* The rulebase and the buffer after the action of w.                      *)
Run(state, w) ==
  [rulebase |-> Reduce(state.rulebase, w.statement, state.buffer.slots[state.buffer.out], w.place),
   buffer   |-> IF Takes(w.statement) THEN statement_taken(state.buffer) ELSE state.buffer]

Settled(state) == IF pending = <<>> THEN state ELSE Run(state, pending[1])

State == [rulebase |-> rb, buffer |-> fifo]

-----------------------------------------------------------------------------
(* Reading.                                                                *)

Opened(file) == [file |-> file, line |-> 1, at |-> 1]

Init ==
  /\ text \in Texts
  /\ length = 0
  /\ source_stack = <<Opened("rules.cml")>>
  /\ fifo = statement_init
  /\ pending = <<>>
  /\ rb = cml_rulebase_new
  /\ displaced = FALSE
  /\ phase = "reading"
  /\ todo = {}
  /\ failed = FALSE
  /\ script = [at |-> 1, success |-> TRUE]
  /\ wrong = FALSE

Unread == UNCHANGED <<text, length, source_stack, fifo, pending, displaced>>

(* Reading is over: the actions that waited are run.                       *)
EndOfInput(syntax_error) ==
  LET end == Settled(State)
      r == IF syntax_error THEN yyerror(end.rulebase) ELSE end.rulebase
  IN  /\ rb' = r
      /\ fifo' = end.buffer
      /\ pending' = <<>>
      /\ wrong' = (wrong \/ r.errors)
      /\ failed' = (failed \/ syntax_error)
      /\ phase' = IF syntax_error \/ r.aborted THEN "parsed" ELSE "post_parse"
      /\ UNCHANGED <<text, length, displaced, todo, script>>

Readable(s) == IF length < Len(text.first) THEN s = text.first[length + 1] ELSE s \in text.then

(* An icon is one line or more of data and the empty line that ends it; no *)
(* pattern of the lexer counts the newlines before that one.               *)
LinesOf(s) == IF s.kind = "icon" THEN s.lines + 2 ELSE 1

NextLine(stack, lines) == [stack EXCEPT ![1].line = @ + 1, ![1].at = @ + lines]


(* A statement is read as far as its last token.                           *)
Read(s) ==
  /\ phase = "reading"
  /\ source_stack # <<>>
  /\ length < text.length
  /\ Readable(s)
  /\ LET begun == [State EXCEPT !.buffer = IF Starts(s) THEN statement_start(@) ELSE @]
         before == Settled(begun)
         after == IF Waits(s) THEN before ELSE Run(before, Waiting(s))
     IN  /\ rb' = after.rulebase
         /\ fifo' = after.buffer
         /\ wrong' = (wrong \/ rb'.errors)
  /\ pending' = IF Waits(s) THEN <<Waiting(s)>> ELSE <<>>
  /\ displaced' = (displaced \/ s.kind \in {"derive", "icon"})
  /\ length' = length + 1
  /\ source_stack' = NextLine(source_stack, LinesOf(s))
  /\ UNCHANGED <<text, phase, todo, failed, script>>

SyntaxError ==
  /\ phase = "reading"
  /\ length < text.length
  /\ length >= Len(text.first)
  /\ EndOfInput(TRUE)
  /\ UNCHANGED source_stack

(* source: the line of the including file is kept for when it goes on.     *)
Source(file) ==
  /\ phase = "reading"
  /\ source_stack # <<>>
  /\ Len(source_stack) < MaxOpen
  /\ length < text.length
  /\ length >= Len(text.first)
  /\ length' = length + 1
  /\ source_stack' = <<Opened(file)>> \o NextLine(source_stack, 1)
  /\ UNCHANGED <<text, fifo, pending, rb, displaced, phase, todo, failed, script, wrong>>

(* A file that cannot be opened ends the input; the stack is left as it is. *)
SourceFails ==
  /\ phase = "reading"
  /\ length < text.length
  /\ length >= Len(text.first)
  /\ LET end == Settled(State)
         r == yyerror(end.rulebase)
     IN  /\ rb' = r
         /\ fifo' = end.buffer
         /\ phase' = IF r.aborted THEN "parsed" ELSE "post_parse"
  /\ pending' = <<>>
  /\ wrong' = TRUE
  /\ UNCHANGED <<text, length, source_stack, displaced, todo, failed, script>>

(* yywrap: the including file goes on, or the input has ended.             *)
EndOfFile ==
  /\ phase = "reading"
  /\ source_stack # <<>>
  /\ length >= Len(text.first)
  /\ source_stack' = Tail(source_stack)
  /\ IF Len(source_stack) > 1
     THEN UNCHANGED <<text, length, fifo, pending, rb, displaced, phase, todo, failed, script,
                      wrong>>
     ELSE EndOfInput(FALSE)

-----------------------------------------------------------------------------
(* The checks.                                                             *)

StartCheck ==
  /\ phase = "post_parse"
  /\ rb' = CheckStart(rb)
  /\ todo' = Met(rb)
  /\ phase' = "checking"
  /\ wrong' = (wrong \/ rb'.errors)
  /\ Unread
  /\ UNCHANGED <<failed, script>>

(* The nodes are checked in the order of a hash table, which is any.       *)
CheckNode(n) ==
  /\ phase = "checking"
  /\ n \in todo
  /\ rb' = check_menu_node(rb, n)
  /\ todo' = todo \ {n}
  /\ wrong' = (wrong \/ rb'.errors)
  /\ Unread
  /\ UNCHANGED <<phase, failed, script>>

CheckRules ==
  /\ phase = "checking"
  /\ todo = {}
  /\ rb' = ConvertAndCheckRules(rb)
  /\ phase' = "parsed"
  /\ failed' = (failed \/ rb'.errors)
  /\ wrong' = (wrong \/ rb'.errors)
  /\ Unread
  /\ UNCHANGED <<todo, script>>

-----------------------------------------------------------------------------
(* The test script, run if the rulebase says so, whatever the checks said. *)
(* What the sets and commits do is not modelled here: a set may report an  *)
(* error, a commit may fail, an expression or a visibility be any.         *)

StartTest ==
  /\ phase = "parsed"
  /\ ~rb.aborted
  /\ phase' = IF rb.parsetest THEN "testing" ELSE "verdict"
  /\ Unread
  /\ UNCHANGED <<rb, todo, failed, script, wrong>>

TestPassed ==
  /\ phase = "testing"
  /\ script.at > Len(rb.test_script)
  /\ phase' = "verdict"
  /\ Unread
  /\ UNCHANGED <<rb, todo, failed, script, wrong>>

Goes(success) ==
  /\ script' = [at |-> script.at + 1, success |-> success]
  /\ UNCHANGED <<rb, phase, failed, wrong>>

CheckFails ==
  /\ rb' = yyerror(rb)
  /\ wrong' = TRUE
  /\ failed' = TRUE
  /\ phase' = "verdict"
  /\ UNCHANGED script

Check(holds) == IF holds THEN Goes(script.success) ELSE CheckFails

(* TS_FREEZE has no break: its expression, which is null, is then taken    *)
(* for the one of TS_ERROR.                                                *)
FreezeFallsThrough ==
  /\ rb' = Abort(rb)
  /\ phase' = "parsed"
  /\ UNCHANGED <<script, failed, wrong>>

SetReports ==
  /\ rb' = yyerror(rb)
  /\ wrong' = TRUE
  /\ script' = [script EXCEPT !.at = @ + 1]
  /\ UNCHANGED <<phase, failed>>

TestStep ==
  /\ phase = "testing"
  /\ script.at <= Len(rb.test_script)
  /\ LET ts == rb.test_script[script.at]
     IN  \/ ts.op \in {"set", "clear"} /\ Goes(script.success)
         \/ ts.op = "set" /\ SetReports
         \/ ts.op = "commit" /\ \E success \in BOOLEAN : Goes(success)
         \/ ts.op = "freeze" /\ FreezeFallsThrough
         \/ ts.op \in {"assert", "visible", "saveable"} /\ \E holds \in BOOLEAN : Check(holds)
         \/ ts.op = "error" /\ \E found \in BOOLEAN : Check(found /\ wrong)
         \/ ts.op = "succeeded" /\ Check(script.success = ts.expected)
         \/ ts.op = "noerror" /\ Check(~rb.errors)
  /\ Unread
  /\ UNCHANGED todo

-----------------------------------------------------------------------------
(* The result of cml_rulebase_parse().                                     *)

Verdict ==
  /\ phase = "verdict"
  /\ failed' = (failed \/ rb.errors)
  /\ phase' = "end"
  /\ Unread
  /\ UNCHANGED <<rb, todo, script, wrong>>

Next ==
  \/ \E s \in Statements(text) : Read(s)
  \/ SyntaxError
  \/ Source("more.cml")
  \/ SourceFails
  \/ EndOfFile
  \/ StartCheck
  \/ \E n \in Names : CheckNode(n)
  \/ CheckRules
  \/ StartTest
  \/ TestPassed
  \/ TestStep
  \/ Verdict

Spec == Init /\ [][Next]_vars

-----------------------------------------------------------------------------
(* Properties.                                                             *)

Accepted == phase = "end" /\ ~failed

Parents(n) == {m \in Names : n \in rb.nodes[m].children}

(* No list of children was replaced and no name is in two of them. "It is  *)
(* an error for any symbol or menu name to be referenced in more than one  *)
(* menu" (cml2_parser.y), but the members of choices menus, names that are *)
(* twice in a list, and a second definition of a menu are not checked.     *)
InOneMenu ==
  \A n \in Names : /\ rb.nodes[n].parent = None => Parents(n) = {}
                   /\ rb.nodes[n].parent # None => Parents(n) = {rb.nodes[n].parent}

(* A choices menu makes its members boolean, whatever they were before.    *)
InChoices(n) == rb.nodes[n].parent # None /\ rb.nodes[rb.nodes[n].parent].radio

(* What the rest of the library takes for granted of a rulebase it is      *)
(* given: a start menu, no menu inside itself (every walk down the menus   *)
(* would go on for ever), a value type for every symbol, derived ones too; *)
(* and a symbol derived from another one alone has the type of the other,  *)
(* however late that was known, unless a choices menu may have changed it  *)
(* since (postparse.c check_menu_node, conv_dep_to_rule_2; cml2_parser.y). *)
AcceptedIsWhole ==
  Accepted =>
    /\ rb.start # None /\ rb.nodes[rb.start].treetype = "menu"
    /\ ~Circular(rb.nodes)
    /\ \A n \in Names :
         rb.nodes[n].treetype \in {"symbol", "derived"} => rb.nodes[n].value_type # "none"
    /\ \A n \in Names :
         rb.nodes[n].treetype = "derived" /\ rb.nodes[n].expr.op = "symbol" =>
           \/ InChoices(rb.nodes[n].expr.node)
           \/ rb.nodes[n].value_type = rb.nodes[rb.nodes[n].expr.node].value_type

(* A name and the menus above it, up to the first choices menu.            *)
Ancestors(n) ==
  LET above == [m \in Names |-> {p \in Names : p = rb.nodes[m].parent /\ ~rb.nodes[p].radio}]
  IN  Reachable(above, {n})

(* "Putting a menu on the right side of a visibility rule with `dependent' *)
(* puts the constraint on all the configuration symbols in that menu. Any  *)
(* submenus will inherit the constraint" (cml2_parser.y): where names are  *)
(* in one menu each, every symbol of an accepted rulebase is at most each  *)
(* comparable symbol that it, or a menu above it, depends on, up to the    *)
(* first choices menu.                                                     *)
DependenciesAreRules ==
  Accepted /\ InOneMenu =>
    \A s, d \in Names :
      /\ rb.nodes[s].treetype = "symbol"
      /\ \E n \in Ancestors(s) : d \in rb.nodes[n].dependees
      /\ Comparable(rb.nodes[s].value_type, rb.nodes[d].value_type)
      => \E rule \in rb.rules : rule.expr = DependencyRule(s, d)

(* The names that a value rests on, through derived symbols.               *)
Through(names) ==
  Reachable([n \in Names |-> IF rb.nodes[n].treetype = "derived" THEN expr_symbols(rb.nodes[n].expr)
                             ELSE {}], names)

(* Setting a node triggers the rules that use it (rb_trigger_rules): in an *)
(* accepted rulebase each rule is with every symbol that its value rests   *)
(* on, through however many derived symbols, which may have been stated    *)
(* after it; and none of these rests on itself, though each of them was    *)
(* derived from what there was when its statement was read (expr.c         *)
(* _expr_add_using_rule_recursive, postparse.c).                           *)
RulesAreWoken ==
  Accepted =>
    \A rule \in rb.rules : \A n \in Through(expr_symbols(rule.expr)) :
      /\ rb.nodes[n].treetype = "symbol" => rule \in rb.nodes[n].rules_using
      /\ rb.nodes[n].treetype = "derived" => n \notin Through(expr_symbols(rb.nodes[n].expr))

(* The location of a rule, which is what a broken rule is shown with, and  *)
(* the "file location of "start" statement" (private.h, start_loc) are     *)
(* where the statement starts, in the file it is in, as long as neither a  *)
(* derive statement has been read, which leaves its location in the buffer *)
(* (cml2_parser.y derive_definition), nor an icon, whose lines are not     *)
(* counted (cml2_lexer.l CON_BASE64).                                      *)
LocatedWhereRead ==
  ~displaced =>
    /\ \A rule \in rb.rules : rule.location = rule.place
    /\ rb.start # None => rb.start_loc = rb.start_place
=============================================================================
