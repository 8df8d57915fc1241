# gcml2 in TLA+

gcml2 is an implementation in C of CML1 and CML2, languages for describing the options
of a kernel configuration and the rules between them. This directory holds a
formal model of its core: TLA+ modules translated from `libcml/`, TLC
configurations that check them on small instances, and proofs, checked by
TLAPS, of what holds for every instance. `PROJECT.json` lists the components,
the runs, the mutants, the lines of source behind every definition, the hazards
and the theorems.

All of the program is sequential: there is one process, no thread, and the
only callbacks are those of the user interface. What makes it hard is that one
call of the user triggers rules, which set further symbols, which trigger
rules; that such a call may fail half way and must then leave no trace; and
that every value is kept in a log with three views (the list of transactions, a
list for each guard and a list for each node) which undo, redo, commit and
abort change in different ways and which must agree afterwards.

## Inventory

### The library, `libcml/`

**Transaction log** (`transactions.c`). State: `rb->transactions`, a list of
transactions with a guard (the node the user set), flags (`NEW`, `UNDONE`,
`FROZEN`), the number of the undo step and a hash table of bindings; in each
node the bindings it has (`bindings`) and the transactions it guards
(`transactions_guarded`); `curr_undo_id` and `last_undo_id`; the set of chilled
nodes; `num_failed_sets`. Operations: set, get, commit, abort, undo, redo,
clear, and the nodes whose rules a new binding triggers. A transaction is
superceded when another one of its guard is newer: what it bound then falls
back by itself. Hard: after any order of calls the three views agree, the
loops that stop at the first transaction of another step miss none, redo finds
what undo left. Correct when the values it shows are those of a linear undo
history.

**Rule propagation** (`node.c`, `rule.c`, `rb_trigger_rules`). State: the chilled
nodes, `rb->broken_rules`, the recursion in progress. `cml_node_set_value` sets
a node, or a radio menu with all its children, triggers the rules that mention
what it set; `rule_trigger` evaluates a rule, and if it is broken simplifies and
solves it, which sets more nodes. Hard: failures half way, rules solved in an
unlucky order, a rule believed to hold without being evaluated again, the end
of the recursion. Correct when an accepted call leaves all rules holding, gives
the node the value that was asked for, and binds nothing that is not implied.

**Expressions** (`expr.c`, `atom.c`). No state but a loop check. Evaluation by
truth tables over n, y, m; simplification with the nodes whose value is fixed;
solution, which sets a symbol only when the rule leaves it one value. Correct
when simplification keeps the value for every way the free nodes may go, and
the solution is both sufficient and forced.

**Ranges** (`range.c`). A sorted list of subranges of `unsigned long`, built by
`range_add` with merging. Correct when the list stays sorted and apart, accepts
exactly what was added and counts it right. Hard: off-by-one at gaps, wrap-around.

**Loading and saving** (`load.c`, `save.c`). A file is a list of bindings made by
the start node; the outcome of a line is ignored. Saving walks the menu tree,
leaves out what is not saveable, and renames the old file before it writes the
new one. Correct when a saved configuration is loaded as it was, and when an
accident in the middle leaves a complete file behind. Hard: no step of the
replacement is looked at twice, and the end (`fclose`) not at all.

**CML2 parser and the checks after it** (`cml2_parser.y`, `cml2_lexer.l`,
`postparse.c`). State: the nodes of the menu tree, the rules, a stack of source
files, a ring of the places where statements start, a count of errors. Hard: an
action runs when the next token has been read already; a name may be used before
it is declared and derived before its type is known; dependencies are turned into
rules for menus that are filled later. Correct when an accepted rulebase is a
tree with typed symbols, each dependency is a rule, each rule has its place and is
found from the symbols it depends on. As the code stands, no program reaches this parser:
the choice of the parser (`rulebase.c:105`) sends every file to the other one, and
`_cml_rulebase_parse_cml2` would follow a null pointer if it were called (see Findings).
The parser is modelled by itself, from `yyparse()` on; the checks of `postparse.c` are
common to both languages.

**CML1 parser and second pass** (`cml1_parser.y`, `cml1pass2.c`, `dnf.c`). The first
pass keeps a stack of conditions and one of menus beside the parser's own and
makes each line a branch of its symbol. The second pass merges the branches of
a symbol into one default, one visibility, and rules for its dependencies; on
the way it warns of branches that overlap. Hard: error recovery against two
stacks it does not know; symbols that move; the order of the merge. Correct when
the merged rulebase shows, defaults and forbids what the script would, run line
by line.

**Choice of the parser and the result** (`cml_rulebase_parse` in `rulebase.c`). State: the
count of errors, which each file sets back, what the parts return, and the list of
files of merge mode. Hard: some parts count errors and return nothing, others go on
after errors, and with several files the second pass and the checks run once for all of
them. Correct when the result, the exit status of cml-check and the files it blames
agree with the errors that were reported.

**Test scripts** (`cml_rulebase_run_test` in `rulebase.c`), **messages**
(`message.c`: counts and a log of errors), **utilities** (`blob.c`, `base64.c`, `util.c`,
`debug.c`).

### The programs

`gtk/` shows the menus as pages of a notebook, with buttons that walk the stack of
pages, undo and redo, and windows for loading, saving and leaving; `curses/` is a
recursion of dialogs drawn by its own copy of lxdialog; `glass/` asks one question
after another and saves at the end; `check/` parses one rulebase or merges several, runs their test
scripts and exits with a status. All of them call the library in the same
pattern: set a value, commit at once, show the broken rules when the commit
reports failure. In gtk each row has a widget that signals every change, those the
program makes included. They differ where it matters: gtk clears the log before it
loads, curses does not; only gtk offers undo and redo; gtk does not look at the
result of a save. Hard: an event loop inside a handler, pages that show what
they were drawn from earlier, buttons that must be grey at the right time, the
edges of windows and buffers in lxdialog.

## Modules

    UndoHistory        what the log promises: values, steps, undo, redo
        ^ refinement (INSTANCE History in Transactions)
    Transactions       transactions.c and the calls that reach it
        ^ EXTENDS
    Rulebase --------> Atoms                        propagation; values of symbols
                        ^
                     ExprTree                       how expressions are built
                        ^  ^
                       Expr \ <------ Dnf           expressions; overlap
                        ^    \
                        |    Cml2 <-- Cml2Check     CML2 statements and checks; the CML2 parser
    Cml1Parse <------- Cml1                         first and second pass of CML1
    CmlCheck                                        cml-check, choice of the parser, results
    ExprTree <-------- Cml2Expr                     the expressions of CML2 statements
    Configfile <------ Terminal                     files; curses and glass
    Gtk                                             the gtk front end
    Widgets                                         the rows of its pages
    TextBox <--------- Dialogs                      lxdialog
    Range                                           range.c

    MC*                constants for TLC; MCParts runs the five parts that stand alone;
                       MCRulebase gives Rulebase the operators of Expr, MCCml2 gives Cml2 those of Cml2Expr
    TransactionsProofs <-- RulebaseProofs
    Cml2Proofs (Cml2Check and Range), Cml1Proofs (Cml1Parse and CmlCheck), GtkProofs, WidgetsProofs,
    TerminalProofs, DialogsProofs

The front ends do not run on the full log and the full propagation of rules.
They see the rulebase through what the checks of Transactions and Rulebase
establish: to Gtk it is a configuration with a history of the kind UndoHistory
describes; to Configfile and Terminal it is the values the user has set and any
completion of them that the rules allow.

**Transactions.** The variables carry the names of the C fields. The C lists are
most recent first; the model's are oldest first, so that prepending is
`Append`, and a transaction is its index, which is sound because only the
newest ones are ever deleted. Which nodes a call binds after the first is left
open (`Propagate`), so everything checked and proved here holds whatever the
rules do. `SetValue`, `Load`, `Propagate` and `Return` are the parts of one call;
`Commit`, `Abort`, `Undo`, `Redo`, `Clear` are the functions of those names with
what `rulebase.c` does around them. Each `assert()` is an action of its own
(`SetValueAsserts`, `UndoAsserts`, ...) that ends the process (`aborted`). Loops
that walk a list up to a condition are described by the point where they stop
(`LastOfStep`, `LastCommitted`, `Met`). `failed` keeps of `num_failed_sets` whether
it is positive, all that the code asks. There are three specifications: `Spec`,
any order of library calls; `GtkSpec` and `CursesSpec`, the orders in which
those programs make them.

**UndoHistory.** The abstract specification: a history of valuations, a position
in it, and whether the newest step is open. It has no guards, flags or lists.
`Transactions!IsUndoHistory` maps the log to it: the values after k steps are
those of the newest transaction of each guard among the steps up to k, and the
value shown is what `_cml_tx_get` finds by walking the lists.

**Expr.** Pure operators: `Eval`, `Simplify`, `Goals` (what `expr_solve` sets, in its
order, up to the point where it gives up or asserts), on expressions that are
records built as the C constructors build them. Symbols are boolean or
tristate. A derived symbol stands for its expression.

**Rulebase.** Extends the log. Expressions are left open: how one is evaluated, what
solving it sets and which symbols it has are constant operators (`expr_evaluate`,
`expr_solution`, `expr_symbols`), which MCRulebase sets to those of Expr. What the
solver promises is `SolverAssumption`; what post-parse has made sure of a rulebase (a
rule is among those of each of its symbols, default expressions do not refer to each
other in a circle, a symbol's values are of its type) is `RulebasesAssumption`. TLC
evaluates both on the fourteen rulebases, with the solver of Expr. The C recursion of
`mn_set_value`, `rb_trigger_rules`, `rule_trigger` and `expr_solve` is a stack of
frames, so that a step is one binding, one rule looked at, one symbol of a
solution or one return. `Bound` uses `Propagate` of Transactions, `UserSet` uses
`SetValue`, `Returned` uses `Return`. The order of a GHashTable, which the C code
iterates, is any order.

**Range.** `range_add` with its two loops, on numbers that wrap around at `ULONG_MAX`.
`RangeSpec` allows every subrange the grammar accepts; `TidySpec`, which is checked
and proved about, those that are not reversed and stay below `ULONG_MAX`. Beyond
these the code fails an assertion (`AddAsserts`): see the hazards.

**Dnf.** The normal form as a set of clauses of atoms, its inversion and
convolution as `dnf.c` makes them, and the warnings of
`check_branches_are_disjoint`. The null pointer is the empty set, which the code
uses both for "no condition" and for "nothing known".

**Cml1Parse, Cml1.** A script is read a line at a time, and any line of the
instance may come next. `cond_stack` and `menu_stack` are the C variables, `parser`
is what bison has open, so that error recovery pops one and not the others: it falls back on the
innermost construct whose block has a statement. The end of a line is a statement, so a blank
line fills a block, and the end of the line of an else makes an else part that needs nothing more.
`EndOfFile` has the two `assert()`s. `Pass2` of Cml1 converts the nodes: merging of
branches, choices, dependency lists, conditions on the symbol itself. The
properties compare the result with an interpretation of the script line by line
(`Scopes`, `Reached`).

**Cml2, Cml2Expr, Cml2Check.** Cml2 has one operator per action of the grammar and per check
of `postparse.c`, from a rulebase to a rulebase. It leaves open how an expression is built,
which names are in it, whether its operands are boolean and which symbols it rests on
(`expr_new`, `expr_symbols`, `check_expr`, `using_rule`); MCCml2 sets these to the recursive
operators of Cml2Expr. What Cml2 takes from them is that a built expression has a type and
is a symbol only if a name is all it says (`TextsAssumption`, with what the grammar lets a statement
be; TLC evaluates it for the texts of the run). Cml2Check is the parser around
them: the token read ahead (`pending`), the stack of source files, the ring of
locations, the walk over the nodes, the test script, the result. It begins where `yyparse()` is
called with the first file open and `rb` set, a state that no program of the repository gets
to: what holds of this parser is a promise for the day it is reached. A file on the
stack has the line that the lexer counts (`line`) and the one that is read (`at`).
`_expr_add_using_rule_recursive` is the walk that finds the symbols of a rule, with
its check for loops and for depth.

**CmlCheck.** `main()` of cml-check and `cml_rulebase_parse()`, on up to `MaxFiles` files. `lang` is
the parser each file was given to, `message_count` the counter of errors, `failed` and `ret`
the results; how many errors a part reports is any number up to `MaxErrors`. `reported` has the
files during which an error was reported, and 0 for the check of all files together; the code has
nothing like it. `Dies` is where the process ends without a status: the asserts on the stacks,
`@freeze`, and the second pass when no file could be opened.

**Configfile, Terminal.** Configfile has the lines a save writes and what a load
makes of lines, and the steps of a save (`SaveRenames`, `SaveOpens`, `SaveCloses`,
`SaveFails`, `Killed`), between which the process may die and the disk may fill up.
Terminal runs curses or glass on that, one run after the other with the files in
between; a handler is an action, a nested menu an entry of `menus`.

**Gtk.** One handler is one action. `loops` is the stack of main loops: Save As
starts one inside its handler, and `Return` is the return from the innermost
after `gtk_main_quit()`. `page_stack`, `current` and `sensitive` are the notebook's
state; `drawn` remembers for each page the configuration it shows. The row of a
symbol is seen through its page.

**Widgets.** The rows of two pages. One handler is one step, but what happens inside it
is the point: a widget's callback sets the value and draws all rows, and drawing changes
widgets, which call callbacks back. A handler is a record `h` that the operators with the
names of the C functions hand on, `set_active` and `select_child` being gtk's functions that
call the callbacks back. The C `set_value()`, the last thing each callback does, is in two
parts: `set_value` notes what is set (`asked`) and takes it over, `Redrawn` draws the page
when the callback has returned. A signal that came from inside a drawing would be one more
entry of `asked`, which `OnlyGesturesSet` excludes. gtk is taken to signal a selection once. What the rulebase
makes of a value is any of `Outcomes`: it is refused, or taken, or taken with another
node that has to follow.

**TextBox, Dialogs.** A text box is the file, the buffer, the position of the
descriptor and the rows on the screen, with the loops of `textbox.c` as operators
on it. Dialogs adds the menu, the lists and the input field with the screen
they draw incrementally, and what stays from one box to the next: the file
`lxdialog.scrltmp`, the buffer of the field and the statics of the text box.

Operators whose comment begins with "Mutant" or "A bug to look for" are not part
of the model. Each is a plausible mistake in one definition, and each property
of a passing run is violated when one of them takes the definition's place.

## What is checked

| run | specification | question | states |
|---|---|---|---|
| `transactions_calls` | `Spec` | does the log keep its structure under any order of calls? | 152,449 |
| `transactions_session` | `GtkSpec` | is it an undo history as gtk uses it, without failed assertions? | 148,354 |
| `rulebase_calls` | `RSpec` | whole sessions on fourteen rulebases | 282,519 |
| `cml1_scripts` | Cml1 `Spec` | every script of up to six lines of a kind | 237,174 |
| `gtk_session` | Gtk `Spec` | pages, undo, files and the save question | 1,505,782 |
| `terminal_runs` | Terminal `Spec` | two runs of curses or glass with an accident | 81,753 |
| `cml2_check` | Cml2Check `Spec` | the CML2 parser on every text of eight kinds | 1,195,406 |
| `parts` | MCParts `PartsSpec` | five parts that share no state, one at a time: | 170,446 |
| | `TidySpec` of Range | every list of subranges built over 0..8 | 756 |
| | `RuleSpec` of MCExpr | about 1100 rules against every way to set their nodes | 59,436 |
| | `CheckSpec` of CmlCheck | cml-check on up to three files and any errors | 14,205 |
| | `RowsSpec` of Widgets | rows of every kind under every gesture | 30,944 |
| | `Spec` of Dialogs | every box of lxdialog under every key | 65,105 |
| `transactions_second_load` | `CursesSpec` | finding | |
| `gtk_exit` | Gtk `Spec` | finding | |
| `cml1_errors` | Cml1 `Spec` | finding | |
| `check_language` | CmlCheck `CheckSpec` | finding | |

**transactions_calls** checks that the flags are right (`FlagsExact`: exactly the
steps ahead are undone, exactly the newest step is uncommitted), that the three
views agree (`ListsExact`) and that whatever value changes by a new binding belongs to
a node whose rules are triggered (`BindingChangesOnlyTriggerable`). That no assertion
of redo fails in any order of calls (`RedoAssertsHold`) follows from these and is
proved (`RedoIsSafe`). No step may be lost by undo, redo,
abort or set in any order, committed or not, with failed calls in between.

**transactions_session** shows the refinement `IsUndoHistory` and that no assertion
of the log fails (`NeverAborts`) in the order of calls gtk makes.

**rulebase_calls** checks whole calls: after an accepted call the rules it could
disturb hold (`AcceptedRulesHold`), the node has the value asked for and a radio menu and its
children agree (`AcceptedAsAsked`), what was
bound is implied by the request and by what is frozen (`BindingsImplied`: the
solver never guesses, compared with all assignments), after a failure every broken
rule is named (`BrokenAreNamed`), and every call returns (`CallReturns`). The rulebases hold
chains of rules, rules with a choice, rules that contradict each other, relations
such as a dependency makes, rules solved in either order, radio menus, frozen
children of them and defaults. In each all rules hold before the first call.
`AcceptedRulesHold` and `BrokenAreNamed` are about the rules that the call
`Watched`: those that mention a node it bound, unless they also read a value that
changed without being bound, that of a default or of a child of a radio menu that
the call chose in and was refused before it reached the child. Nothing triggers
these, and three of the rulebases hold a case of each kind in which the property would be
false without the exception. Trying random rulebases of up to three rules is how the
exceptions, and that of `SolutionForced`, which `BindingsImplied` shares, were found.

**cml1_scripts** checks that a clean script passes the asserts on the two stacks
(`CleanScriptsParse`), that a symbol ends in the menu that asks for it first
(`StandsWhereAsked`), is in view exactly when the script would ask for it
(`AskedIsShown`), gets the default of the last definition reached
(`DefinedAsScript`) and is bound by its dependencies (`DependenciesBind`), and that
evaluating what was merged ends (`DerivationsEnd`). The preconditions of these
name what the merge does not promise: overlapping conditional definitions,
symbols asked for in two menus, forward references, choices given twice.

**gtk_session** checks that the pages are a path of the menu tree (`PageStackIsPath`),
that a button that can be pressed has a page to go to (`MovesHaveTarget`), that
the current page shows the configuration (`PageIsFresh`, which says where it does
not: after a failed load), that a session that ends without the Exit of the question
ends with the configuration that its file holds (`AskedBeforeLoss`), and that a save that the
question asked for leads out of the program through the loop of Save As it was chosen from
(`SavedThenExits`, which is about one such loop inside the main loop). `AskedBeforeLoss` compares
values (`Config` with what the file would load, `Stored`), not the flag `changed` that the code goes by,
and names what that flag does not count: an undo or redo since the last load or save (`walked`), a
last save that failed (`unwritten`) and an exit that quit the loop of a Save As (`escaped`). Without
any of the three it is false. The third is the finding of **gtk_exit**.

**terminal_runs** checks that one accident leaves a whole file (`SurvivesAnAccident`),
that a saved configuration comes back (`LoadedAsSaved`) and that what the program
says last is true (`LastWordsTrue`).

**cml2_check** checks that what is accepted is a typed tree (`AcceptedIsWhole`; of a symbol derived from
another alone it says the type, unless a choices menu may have changed that of the other), that
dependencies are rules (`DependenciesAreRules`), that rules carry the place of
their statement (`LocatedWhereRead`, as long as no derive statement, which leaves
its entry in the ring, and no icon, whose lines are not counted, has been read), that
a rule is among those of every symbol its value depends on, through symbols derived
later too (`RulesAreWoken`: the list a new binding wakes rules from).

**parts** chooses one of five parts at the start and runs it alone; the other four have no steps. Its
states are those of the five added up, and a part that has come to its end stays there
(`Over`), so that a deadlock in the middle of one would be found.

In *Range*, the list is kept in order with gaps (`SubrangesApart`) and accepts only what was added
(`OnlyAdded`). That what has just been added is accepted is proved (`AcceptsAdded`).

*MCExpr* compares simplification and solution with evaluation: the value is
kept under every assignment that agrees with the fixed nodes
(`SimplifyKeepsValue`), carrying out a solution makes the rule hold whatever
else happens (`SolutionSuffices`), and every assignment that satisfies the rule
agrees with it (`SolutionForced`). The last leaves out one form of rule, where a
tristate symbol is to differ from a boolean constant, because there the solver
does more than is forced; the exception is written out in MCExpr.
`ClausesAreCondition` compares the normal form with the condition it was made of,
and what is warned of with the conditions of both branches.

For *CmlCheck*, it checks that cml-check exits with 2 exactly when an error was reported
(`ExitTellsErrors`) and blames exactly the files in which one was (`BlamesTheFile`), though each file
sets the counter back, the second pass returns nothing and in merge mode the checks run after files
that failed.

For *Widgets*, it checks that the rows of the current page are those of the visible nodes
and show their values after every handler (`RowsShowValues`), and that a handler sets
what the user asked for by it and nothing else (`OnlyGesturesSet`).

For *Dialogs*, it checks that what is drawn row by row is what drawing everything
would give and the field shows the end of the text it returns (`BoxShown`), and that the
text box shows consecutive lines across the edges of its buffer (`TextShown`).

### Bounds

Undo steps and transactions are bounded by `MaxUndoId` and `MaxTransactions`, in
the guard of `TxSet` alone. `Spec` is checked with two undo steps and three
transactions: enough for a step of two transactions that is undone, redone or
cut off by a new one, and for a superceded transaction under an undone one. The
session has three steps, so that a new step follows an undo of two. The
theorems have no such bound to rely on: `MaxUndoId` and `MaxTransactions` are any
numbers. `transactions_calls` has a single value, because the structure of the log does not
depend on values (a value falls back to the default or comes back from it); the
session has two, so that undo has to find the right one. Numbers
0..8 hold three subranges with gaps of one and of more. Rules of two and three
levels over three symbols contain every operator in every position.

Scripts of CML1 have up to six lines over three symbols, two menus and a choice:
two blocks inside each other with an else, and a symbol declared in two of them.
Scripts with errors end a few lines after the first (`MaxBadLines`). Texts of CML2
come in eight kinds, each about one thing that can go wrong, because their product
would be too large; each kind has the statements that can disturb one another.
The pages have one row of each kind of widget, some behind a guard; at most `MaxChanged` of them
differ from their first value at a time.
cml-check reads three files, one of each kind of name that matters, and a part reports up to two errors:
a file between two others can leave the counter high for the next and be cleared by it.
`MaxOpen` is two files, enough to read on in a file after another has ended.
The gtk session has three menus, a history of two steps (`MaxSteps`) and three
loops inside each other (`MaxLoops`): the question asked from within a Save As. A
terminal starts twice (`MaxRuns`) and one save is made in one of the two runs (`MaxSaves`
counts over both): the second run loads what the first has left. Windows of lxdialog are three rows or
columns for up to six items or four characters, files nine bytes for a buffer of
four, so that every window scrolls to both of its ends and every buffer is left and
filled again.

### Fairness

`CallReturns` (Rulebase) says that a call ends. `Running` says that a call that is
in progress goes on: the code is sequential, and once the library is called
nothing else runs until it returns. It is the weak fairness of `CallStep`,
written without ENABLED: a step of a call is always possible inside it.
`SavedThenExits` (Gtk) assumes weak fairness of `Return` alone: a main loop that was
told to quit returns, which gtk guarantees. The specifications of Cml1 assume
that a parser that is at the end of its input finishes. Nothing is assumed of
the user, who may stop at any time. `CHECK_DEADLOCK FALSE` is said where a session
or a parse may end: the process is gone, the bounds are reached, the status has
been returned.

## What is proved

**TransactionsProofs** proves `Spec => []IInv`, for any sets of symbols and values,
any tree of menus and any bounds, from the assumptions that the start node is
not among the symbols, that `NoCall` is neither, and that the parent of a symbol
is a menu or the start node (`GuardsAssumption`), and that the bounds are natural
numbers (`BoundsAssumption`). The invariant is the conjunction of the checked ones
with `ListsByStep` and `StepsListable`. None of the parts is inductive alone:

* that an undone transaction is on no guard's list (`GuardListsExact`) needs that
  the loop of undo meets the whole step, which is `StepsInOrder`;
* that set deletes only what is undone needs `UndoneAreAhead`;
* that abort removes a whole step needs `NewAreNewestStep`;
* that a node is not bound twice by one transaction, and so is taken off the
  right list when it is deleted (`NodeListsExact`), needs `NewAreChilled`;
* that a list can be shortened at a step at all needs that the entries of the
  steps up to it come first (`ListsByStep`). The stronger statement, that lists
  ascend, is false for the lists of guards: after a redo of a step with two
  transactions of one guard they do not;
* `StepsListable` says that the order in which redo pushes exists. It is an
  induction over the size of a step carried along as an invariant.

The proof has one lemma per function (`BindPreserves`, `AbortPreserves`,
`CommitPreserves`, `UndoPreserves`, `RedoPreserves`, `ClearPreserves`) over lemmas
about shortened and concatenated lists, and `NextPreserves` puts them together.
From it follow the theorems `TypeCorrect`, `Ordered`, `FlagsCorrect`,
`ListsCorrect`, `NewStayChilled`, and
`RedoIsSafe`: no assertion of `_cml_tx_redo` can fail, whatever was called.

Its second half says first what is read off the log in any order of calls. A transaction counts
when it is last on its guard's list; `GetIsNewest` says that the walk of `_cml_tx_get` along
a node's list finds the newest transaction that counts and binds the node. What is bound
in an open step is seen at once, because the newest transaction of the step counts
(`NewestInForce`), which every call has to keep (`StaysNewest`). From both follows
`OnlyTriggerableChange`: a new binding gives its node a value, and the other values that
change are of nodes that the transaction it overrides had bound; these are among the
triggered ones. Here a set of numbers up to a bound is given a maximum (`HasNewest`) out
of `NatLessThanWellFounded` and `WFMin`, which take a set and no operator.

Then it is about the order of calls of gtk (`GtkSpec`), where a call is committed
or aborted before the next one and files are read into an empty log, so that each step has
one transaction (`OneTxPerStep`). `SessionInv` adds that a committed transaction binds its
guard (what `TriggerAssert` asks), that a call in progress has its transaction open, and that
`aborted` is false. `AssertionsHold` is its last part. `LogIsHistory` proves the
refinement of `UndoHistory`: the lemmas `BindIsStep`, `CommitIsClose`, `AbortIsDiscard`,
`UndoIsBack`, `RedoIsForth` and `ClearIsReset` map each operation to the abstract one or
to a stutter. Its core is that the transactions up to a step are the same before and after
every call that does not remove that step (`Same`), and that the value read off the lists is the one
of the current step (`GetIsNewest`). Neither holds under `Spec`, where a step may have
several transactions: see the finding about a second load; and two transactions of one
guard are put on its list in the other order by redo.

**RulebaseProofs** proves the four safety and action properties of `rulebase_calls`
(`CallsDoAsAsked`, `AcceptedCallsHoldRules`, `FailedCallsNameRules`, `CallsBindImplied`)
and that calls with their rules still implement `UndoHistory` (`CallsAreHistory`). They hold
for any symbols, tree, radio menus and rulebases, any number of rules and any depth of
nesting, under the assumptions above and three more: `RulebaseAssumption` (children of a
radio menu are boolean and know their parent), `RulebasesAssumption` and
`SolverAssumption`. The last is what the proof takes from the solver: of a broken rule and
the symbols that keep their values, it gives goals for symbols of the rule, values that meet all
of them do not break the rule, and values that satisfy the rule meet all of them.

The invariant has layers, since each property needs the ones before:

* `Live`: the frames of the stack are of the rulebase and nest as the C functions call each
  other (`Nested`), a call in progress has frames (`CallHasFrames`), `chilled` is what the open
  transaction has bound (`OpenIsChilled`), and the log is as TransactionsProofs has it.
  `RInv` adds that after a failed assertion nothing happens. That a step of a call
  is a step of Transactions is then enough for `CallsAreHistory`.
* `Asking`: of what a frame has to set, all that is no longer on its list is bound, and a
  menu that is bound has all its children bound, is about to, or a frame has failed. A
  chilled node is not bound again, so this cannot be undone before the call ends:
  `CallsDoAsAsked`.
* `Trying`: each rule that the call has to do with (`Watched`) holds, or is named and some
  frame has failed, or will be looked at, or is being solved (`Seen`); one that is being solved
  holds, or has a goal that is not met, or something that was called to meet one will come
  back to it (`Solving`). Neither is inductive without the other: when the last goal has been met the
  rule holds by `SolverAssumption` only if nothing that happened meanwhile has moved a goal already
  met. The symbols of a watched rule are bound or out of reach of what is: the
  bound ones stay because they are chilled, the others because nothing they are read off
  is bound (`Unreached`, `RuleStays`). When the stack is empty nothing
  is pending (`Checked`): `AcceptedCallsHoldRules`, `FailedCallsNameRules`.
* `Implying`: every assignment that has what was asked for, keeps what is frozen and satisfies
  the rules has all that is bound and all that frames still ask for. A solution is computed from
  the values of the nodes that keep theirs, so the assignment has to have these too: chilled
  ones by the invariant, frozen ones because a transaction that is frozen stays in force
  until the call overrides it (`KeptAgree`, `FrozenStays`): `CallsBindImplied`.

What a step does to the stack is said once, whichever the function is: the frame on top goes
on (`Goes`), calls another (`Calls`) or returns and tells its outcome (`Tells`), or a call begins
(`Begins`). The layers are proved about these.

**Cml2Proofs** proves three of the properties of `cml2_check`:
`AcceptedRulebasesAreWhole`, `DependenciesBecomeRules` and `LocationsAreRead`, for any names,
any texts and any number of open files, from `TextsAssumption` and that `None` is no name. `IInv` has
three parts:

* `ShapeInv`: the rulebase has its fields, and its nodes are `Sound` as long as nothing was
  reported and no assertion has failed. What sound is had to be found: a symbol has a type exactly when
  it has a menu, only menus have children, derived symbols have an expression, and one that is
  derived from another alone has no type yet or that of the other, unless a choices menu holds
  the other. Nothing of this survives a statement that reports an error, since the
  code goes on with what it has changed by then; that is why soundness is only claimed without errors, and why
  errors must never be forgotten.
* `ErrorsInv`: what was reported shows in the count or in the result of the parse.
* `ChecksInv`: a check that was passed without an error leaves behind what it looks for; the
  nodes still to be checked are excepted (`todo`), as the types of derived symbols are filled in one node after
  another in any order, each from the one it is derived from.

What a statement does to a rulebase is said once for all of them (`Kept`: an error stays, a failed assertion
stays, and soundness is kept) and shown statement by statement (`ReduceKeeps`), of which the
menus, whose items may be the same name twice, and the choices, which take symbols over from
other menus, are the long ones. `DependenciesBecomeRules` needs one more fact: where each name is
in the menu that is its parent, the way up from a name by parents is the way down to it by
children (`AncestorsAbove`), an argument about sets closed under steps that takes the place of an
induction over the tree. `LocationsAreRead` adds `LocInv`: the lexer knows its line in each
open file, and the buffer of two places holds the place of the statement that waits for
its next token, if it takes one, and nothing else.

Its last part proves, for any largest number (`UlongMaxAssumption`), that every list
`range_add` builds from tidy subranges is sorted with gaps (`ApartAlways`), accepts
only what was added (`InventsNothing`) and accepts all that was just added
(`AcceptsAdded`), and that no assertion fails (`RangeTypeCorrect`). The list must
be in normal form for the two loops to stop at the right place, so sortedness
and the bound on the ends are proved together.

**Cml1Proofs** proves, for any symbols, banners and lines a script may have, that a
script without errors passes the asserts (`CleanScripts`). `StacksFollow` is the
strengthening: while nothing has gone wrong, each construct bison has open is one
entry higher on one of the two stacks than the one around it. It also proves that a symbol
stands where it is asked for first (`StandWhereAsked`), of scripts in which the statements
that declare symbols name symbols and the others banners (`LinesAssumption`). The strengthening
(`StandInv`) follows a symbol through its life: unknown until a line declares it, `weak` until a
line asks for it, then a child of that line's menu. It needs `StacksFollow`, so that there is a menu
to stand in, and that the menu stack is what a reading of the script from its beginning gives
(`Opened`, `MenusFollow`). A symbol mentioned before it is declared is left out: the reference
makes a node that is not weak, and `MCCml1` has scripts in which it then does not move.
Both are about the first pass alone (`ParseSpec`); that the second leaves the symbols where they
are is checked by TLC, for it has recursive operators.

Its last part proves `ExitTellsErrors` and `BlamesTheFile` (`StatusTellsErrors`, `FilesAreBlamed`) for
any files and bounds. `CheckInv` says, for each part that may come next, how the counter, the results
and `reported` stand to each other: the counter speaks of the file being read from when it was set
back, `ret` is 2 exactly if a file before was blamed, and a file that could not be opened is told by
its own error whatever the counter held.

**GtkProofs** proves `PagesArePath` and `MovesAreSafe` for any menus in which the start
is one and the children of a menu are menus (`MenusAssumption`), a tree or not.
Each needs the other: the buttons are greyed by the place of the current page in
the stack, which has one place because the stack is a path without repetition.
`CurrentPageIsFresh` goes through the handlers: each that sets a value, walks the history
or turns the page ends by drawing the page it has turned to (`DrawsWhatChanges`).
`NothingLostUnasked` proves `AskedBeforeLoss` with two invariants. `StoredInv`: as long as nothing was
undone or redone since, no save failed and `changed` is false, the configuration is the one in the
file. `LossInv` is about the stack of main loops: only the outermost loop returns to `main`, and it
is told to quit without changes or by Exit in the query. OK and Cancel of Save As quit
a loop too; they can be clicked only while a loop of Save As is innermost, unless
an exit has already ended that loop in place of the outermost one (`escaped`).

**WidgetsProofs** proves `RowsAlwaysShowValues` and `OnlyGesturesAlwaysSet` for any nodes in any
tree or graph of pages, any guards, ranges and enumerations. `WidgetsInv` says of a page at rest
that callbacks are not suppressed and that what is shown is in order (`Rests`): the toggles
of a row are among those it has, what was typed is one text, an entry whose text was looked at shows its
value, and the rows of the current page are those the property asks for. A row is drawn by steps
(a toggle, a selection, the text), each of which changes only the widgets of its own row
and, while callbacks are suppressed, asks for nothing (`Changed`, `ToggleRight`); a row just
drawn is right, and stays so when the ones below it are drawn. That is carried
down the page by the same set form of induction as in DialogsProofs, after the function over the
rows has been shown to exist. The handlers then differ in what has been set
before the page is drawn: one pair, or none.

**TerminalProofs** proves `OneAccident` for any files, values, rules and bounds, from
`ConfigAssumption` and the assumption in Configfile that the names with `.old`
are names of other files. `DInv` says where the configuration is in each step of a
replacement: before the rename under its name, until the close under the other
one, and after one accident under one of them. `LastWords` proves `LastWordsTrue`
with `WordsInv`: while `changed` is false the values are those of the last load or save,
and what is being written at the end is what is shown. It needs that
`None`, which stands for nothing said, is neither of the two messages (`WordsAssumption`).

**DialogsProofs** proves `BoxShown` for menus and lists of any length, texts of any length
and boxes of any size, under the assumptions that a box has a row or a column, a list an item,
and that an initial value fits the buffer it is copied to and holds no NUL
(`DialogsAssumption`). For menus and lists the invariant is the property itself and the
shape of the record (`Shown`); in between, while a menu moves, no row is lit (`Dark`), and
every step of scrolling keeps that. Page up and page down are loops of as many turns as the
window has rows; that each turn keeps `Dark` is carried through the loop by induction
(`Induction`). It is stated of a set instead of a predicate, for the provers cannot
instantiate the predicate of `NatInduction`, and follows from `WFMin`. The field needs
more than it shows (`FieldText`): the buffer may have the rest of an earlier text
behind the cursor, but in a field that has scrolled not as far as its last column,
for backspace at the left edge scrolls those columns back into view.

It also proves `TextShown`, for any files, any even size of the buffer and any number of
rows (`BoxAssumption`). The invariant has two parts. `Rest` holds of every box: the
buffer reaches up to the descriptor's position and is full unless it reaches the end of the file
(`Buffered`), and page points to the start of a line or, with `end_reached`, to the end of the file
(`Settled`). That is what makes the "Internal error" of `back_lines` impossible.
`Screen` holds of boxes that have opened with `begin_reached` set: the rows are
consecutive lines, as many are counted in `page_length` as the file has there, `end_reached` says that the
last one counted is the last of the file, and `begin_reached` that the first row is the first.
An earlier box can leave `begin_reached` unset, and then PageUp on the first page, which
does nothing in other boxes, goes on with a `page_length` that fits no screen; so these boxes are excepted.
Each loop of `textbox.c` is a function from the turns to text boxes that is shown to
exist (`LoopRuns`) and carries a predicate by induction. `get_line` and the way back to a newline
carry how far they have come at least: two turns a byte, for one may read
a part of the file in, or one turn a byte (`GoneAhead`, `GoneBehind`). Printing carries
the rows counted so far (`Counting`). `UpLines` carries a path of lines upward (`IsPath`), which
for the row above the screen are the rows themselves from the last one counted up and
the line before the first (`RowsArePath`).

Only model-checked, and why:

* `CallReturns` and `SavedThenExits` are liveness, out of the prover's reach.
* What Expr, Dnf and Cml1 after its first pass say is about recursive
  operators over expressions and trees (`Eval`, `Simplify`, `Goals`, `pass2_node`), which the prover
  cannot use; that a solution suffices or is forced, or that a derivation ends, is an induction over
  these data. `SolverAssumption` is therefore proved of no solver; TLC
  finds it true of Expr on the fourteen rulebases, and `SolutionSuffices` and `SolutionForced` on the
  rules of `parts`.
* `RulesAreWoken` compares the recursion over an expression and the derived symbols in it, with
  its check for loops, with what can be reached from its names: an induction over expressions.
* `LoadedAsSaved` compares the values of a run with those of another one two handlers and a file
  apart, through what every line of the file makes of them.

## Findings

A run finds the property violated; `PROJECT.json` quotes the assertion or the text it contradicts.

* The second load of a file in curses fails an assertion: what files bind has
  the start node as source, which is never bound itself
  (`transactions.c:485`, run `transactions_second_load`).
* An exit from gtk while Save As is asking for a name quits the loop of Save As and not
  the main loop: the program goes on with its callbacks suppressed, and OK or Cancel of the window that
  is left ends it, unsaved changes or not (`gtk/main.c:288`, run `gtk_exit`).
* After a syntax error inside an if that has no statement yet, the condition stays on the
  stack, and at the end of the file an assertion fails where the errors should be told
  (`cml1_parser.y:1917`, run `cml1_errors`).
* No file is given to the CML2 parser: `str_has_suffix` returns 0 for a match and is used as a truth
  value, so that all go to the CML1 parser and the rest of `cml_rulebase_parse` is dead
  (`rulebase.c:105`, run `check_language`; the CML2 parser would crash in any case, `cml2_lexer.l:119`).

Other behaviour met while modelling. The models have it as the code does, and
the properties that come near say so in their statement or their precondition:

* Selecting in curses the child of a radio menu that is chosen already crashes:
  the code expects the old and the new name, lxdialog prints one
  (`curses/main.c:757`).
* After a derive statement, the places of later statements are those of earlier ones:
  derive puts its place into the ring and nobody takes it out
  (`cml2_parser.y:848`).
* After an icon every place is some lines above where it should be: newlines in the
  data are not counted (`cml2_lexer.l:341`).
* A call whose commit aborts keeps its undo step, so the next undo takes nothing
  back (`transactions.c:372`), although the comment at line 341 speaks of the
  most recent transaction that is not undone.
* Adding a subrange inside one of the list can cut that one short: {1-2, 5} add
  1 1 gives {1, 5} (`range.c:172`).
* A satisfiable choice is refused as unsatisfiable when one rule has already set
  a child of a radio menu in which another rule chooses (`node.c:365`).
* A rule that is disturbed through the default expression of a symbol is not
  looked at, or not again, and the call is committed although the rule is broken
  (`expr.c:343`, against ChangeLog:344). With the rules `b -> r2` and `b -> a`, where
  a has the default r1, setting b looks at the second, which holds, then
  chooses r2 for the first, and the default of a changes.
* When a choice in a radio menu is refused half way, a rule about a child that it did
  not reach can be broken without being among the broken rules: the child reads its
  value off the menu (`node.c:309`).
* A frozen node can be bound again: only chilled nodes are refused (`node.c:363`).
  Choosing in a menu overrules its frozen children, and what rules bound before that was
  bound for the sake of the old value.
* Solving a dependency can bind a tristate value to a boolean symbol, and the
  next logical use of the symbol fails an assertion (`expr.c:875`).
* `cml_node_is_visible` ignores what a node depends on when the node has no
  visibility expression of its own (`node.c:191`).
* `num_failed_sets` counts failures of `cml_node_set_value` only (`node.c:440`), not
  those of the lines of a file, so that the message of curses that the file has
  errors cannot come up. Strings with a quote in them come back shortened
  (`save.c:78`).
* After a save that was cut short, the next save renames the partial file over
  the backup: a second accident loses the configuration.
* At the end of its input glass exits with status 0 and saves nothing
  (`glass/main.c:304`); the value it shows for a radio menu is read through a
  pointer that was not set (`glass/main.c:441-463`).
* gtk exits after a save that failed, since the result is not looked at
  (`gtk/main.c:211`), and without a question after an undo or redo that
  follows a save (`gtk/main.c:331-345`).
* In gtk, pressing the active toggle of a row leaves none active until something else
  is set, and the callback of a pressed toggle releases that one instead of the
  others (`tristate.c:73`; drawing the row puts it right). A value that is no item of a
  combo box leaves the old selection in view. Text typed into an entry is lost when
  anything draws the page before the entry is left. Rows of text alone (menus without
  children) are never shown, because a row needs a value or visible children
  (`node_gui.c:375`).
* A name may be in two CML2 menus when one of them is a choices menu
  (`cml2_parser.y:696`). A symbol that a choices menu takes over becomes boolean; what was derived
  from it before keeps the type it had (`cml2_parser.y:811`, `cml2_parser.y:848`). `@freeze` falls through to `@error` (`rulebase.c:790`).
* The second pass of CML1 goes on after errors of the first branches; circles of
  derivations through other symbols are not found.

## Not modelled, and why

* **Merge mode, magic comments and the guess of the architecture** (CML1): CmlCheck has what merge
  mode runs and when; how the scripts are merged is the same code with one more
  condition on the stack. The others read comments and file names.
* **Prefixes, enums, symbol ranges, debug and warndepend statements** (CML2): they
  bear neither on acceptance nor on rules. Of icons
  the lines they take are modelled, which the lexer does not count, and not their data.
* **Integers and strings** in Expr and Rulebase: the
  solver treats arithmetic as something it gives up on; values of that kind
  would multiply the states without a new control path.
* **Help, log and debugging windows, labels and the list of broken rules** of gtk; the options and listings of cml-check: wording and toolkit.
* **Grammar and lexer tables**, autoconf, m4 and make files: generated.
* `base64.c`, `blob.c`, `util.c`, `debug.c`: helpers, and the bytes of icons, on which
  nothing else depends.

What could follow: strings and integers as values of Rulebase; a recursive-function form
of Expr that the prover could use.
