---------------------------------- MODULE Gtk ----------------------------------
(***************************************************************************)
(* The gtk front end: gtk/main.c, page_gui.c, node_gui.c and the widgets   *)
(* of the rows. One handler runs at a time and each handler is a step; but *)
(* Save As runs a main loop of its own, in which all other windows go on   *)
(* working, and returns into the handler that asked for it when that loop  *)
(* has been told to quit.                                                  *)
(*                                                                         *)
(* The rulebase is seen through its configuration, one value, and the      *)
(* history of it that Transactions keeps. A page is remembered by the      *)
(* configuration it was last drawn from; how rows look is left out, and    *)
(* with it what the View menu chooses. The Freeze item is left out, it is  *)
(* never sensitive: every handler commits what it sets.                    *)
(***************************************************************************)
EXTENDS Naturals, Sequences

CONSTANTS
  Menus,      \* the nodes that have a page
  Start,      \* the root of the menu tree
  Children,   \* the menus in a menu
  Values,     \* configurations
  Cleared,    \* the one of an empty log
  Files,
  MaxSteps,   \* the bound on the steps of the history
  MaxLoops    \* the bound on the main loops that run inside each other

None == "none"

ASSUME MenusAssumption == Start \in Menus /\ Children \in [Menus -> SUBSET Menus]
ASSUME ValuesAssumption == Cleared \in Values /\ None \notin Files \cup Values

VARIABLES
  page_stack,       \* leafmost page first
  current,          \* the current page of the notebook
  drawn,            \* by page: the configuration it was drawn from last
  creating,         \* callbacks are suppressed
  sensitive,        \* the items of menus and toolbar that can be used
  log, at,          \* the configurations of the undo history and where we are
  changed,
  defconfig_filename,
  disk,             \* what each file holds
  windows,          \* the dialogs on the screen
  loops,            \* the main loops, innermost last, each with what it returns to
  quit,             \* the innermost loop has been told to quit
  status,           \* running, ended or crashed
  load_failed,      \* a load failed and nothing was drawn since
  discard,          \* Exit was chosen although there are changes
  escaped,          \* an exit has only quit a subsidiary loop
  walked,           \* something was undone or redone since the last load or save
  unwritten         \* the last save failed

pageVars == <<page_stack, current, drawn>>
fileVars == <<defconfig_filename, disk, unwritten>>
changeVars == <<changed, walked>>
loopVars == <<loops, quit, status, discard, escaped>>
logVars  == <<log, at>>
vars == <<pageVars, creating, sensitive, logVars, changeVars, fileVars, windows, load_failed, loopVars>>

Last(stack) == stack[Len(stack)]
Elements(stack) == {stack[i] : i \in 1..Len(stack)}

-----------------------------------------------------------------------------
(* Pages. Each of these operators says what the next state of a handler    *)
(* is, and is used after the handler's other changes.                      *)

page_gui_get_rootmost == Last(page_stack)
page_gui_get_leafmost == page_stack[1]

Config == log[at]

(* The page is built the first time, and all its rows are updated.         *)
page_gui_update(mn) ==
  /\ drawn' = [m \in DOMAIN drawn \cup {mn} |-> IF m = mn THEN Config' ELSE drawn[m]]
  /\ load_failed' = FALSE

(* A row that is updated and visible ends with creating = FALSE, so it     *)
(* stays only when the page has no such row.                               *)
node_gui_update == \E visible \in BOOLEAN : creating' = (creating /\ ~visible)

page_gui_update_current ==
  /\ page_gui_update(current)
  /\ node_gui_update
  /\ UNCHANGED <<page_stack, current>>

make_current(mn) ==
  /\ current' = mn
  /\ page_gui_update(mn)
  /\ creating' = FALSE

Items == {"undo", "redo", "up", "down", "save", "save_as"}

Usable(item) ==
  CASE item = "undo"    -> at > 1
    [] item = "redo"    -> at < Len(log)
    [] item = "up"      -> current # page_gui_get_rootmost
    [] item = "down"    -> current # page_gui_get_leafmost
    [] item = "save"    -> changed /\ defconfig_filename # None
    [] item = "save_as" -> changed

grey_items == sensitive' = {item \in Items : Usable(item)'}

(* Where the current page is in the stack.                                 *)
Position == CHOOSE i \in 1..Len(page_stack) : page_stack[i] = current

(* Handlers run in the innermost loop until it has been told to quit.      *)
Handler == status = "running" /\ ~quit

-----------------------------------------------------------------------------
(* The rows.                                                               *)

(* set_value() commits; a call that fails leaves its step in the log, with *)
(* the configuration there was. It counts as a change all the same.        *)
set_value(v) ==
  /\ at < MaxSteps
  /\ log' = Append(SubSeq(log, 1, at), v)
  /\ at' = at + 1
  /\ changed' = TRUE
  /\ UNCHANGED <<walked, fileVars, windows, loopVars>>
  /\ page_gui_update_current
  /\ grey_items

(* Toggles, and combos of choices and of a few numbers.                    *)
on_tristate_toggle_toggled(v) == Handler /\ ~creating /\ set_value(v)
on_choice_combo_changed(v) == Handler /\ ~creating /\ set_value(v)
on_limited_int_combo_changed(v) == Handler /\ ~creating /\ set_value(v)

(* Strings and numbers, on activate or when the entry loses the focus,     *)
(* when they differ from the value. creating does not hold them back.      *)
string_set(v) == Handler /\ v # Config /\ set_value(v)
integer_set(v) == Handler /\ v # Config /\ set_value(v)

(* Mutant: the pages above the current one stay in the stack.              *)
on_menu_button_kept(mn) ==
  /\ Handler /\ ~creating
  /\ mn \in Children[current]
  /\ UNCHANGED <<logVars, changeVars, fileVars, windows, loopVars>>
  /\ make_current(mn)
  /\ page_stack' = IF mn \in Elements(page_stack) THEN page_stack ELSE <<mn>> \o page_stack
  /\ grey_items

(* The arrow of a row whose node has visible children.                     *)
on_menu_button_clicked(mn) ==
  /\ Handler /\ ~creating
  /\ mn \in Children[current]
  /\ UNCHANGED <<logVars, changeVars, fileVars, windows, loopVars>>
  /\ make_current(mn)
  /\ page_stack' = IF mn \in Elements(page_stack) THEN page_stack
                   ELSE <<mn>> \o SubSeq(page_stack, Position, Len(page_stack))
  /\ grey_items

-----------------------------------------------------------------------------
(* The View menu, the toolbar and the tabs.                                *)

Move(mn) ==
  /\ UNCHANGED <<page_stack, logVars, changeVars, fileVars, windows, loopVars>>
  /\ make_current(mn)
  /\ grey_items

(* Beyond the end of the stack is a null pointer.                          *)
Crash ==
  /\ status' = "crashed"
  /\ UNCHANGED <<pageVars, creating, sensitive, logVars, changeVars, fileVars, windows, load_failed,
                 loops, quit, discard, escaped>>

on_view_rootmost_activate == Handler /\ "up" \in sensitive /\ Move(page_gui_get_rootmost)
on_view_leafmost_activate == Handler /\ "down" \in sensitive /\ Move(page_gui_get_leafmost)

on_view_up_activate ==
  /\ Handler /\ "up" \in sensitive
  /\ IF Position < Len(page_stack) THEN Move(page_stack[Position + 1]) ELSE Crash

on_view_down_activate ==
  /\ Handler /\ "down" \in sensitive
  /\ IF Position > 1 THEN Move(page_stack[Position - 1]) ELSE Crash

(* Mutant: the items are not greyed for the page that was turned to.       *)
on_notebook_switch_ungreyed(mn) ==
  /\ Handler
  /\ mn \in Elements(page_stack) \ {current}
  /\ current' = mn
  /\ UNCHANGED <<page_stack, creating, sensitive, logVars, changeVars, fileVars, windows, loopVars>>
  /\ IF creating THEN UNCHANGED <<drawn, load_failed>> ELSE page_gui_update(mn)

(* A tab is clicked. The notebook turns the page even when the callback is *)
(* suppressed.                                                             *)
on_notebook_switch_page(mn) ==
  /\ Handler
  /\ mn \in Elements(page_stack) \ {current}
  /\ current' = mn
  /\ UNCHANGED <<page_stack, creating, logVars, changeVars, fileVars, windows, loopVars>>
  /\ IF creating THEN UNCHANGED <<drawn, load_failed, sensitive>>
     ELSE page_gui_update(mn) /\ grey_items

(* The check items: the current page is drawn anew.                        *)
on_show_check_activate ==
  /\ Handler /\ ~creating
  /\ UNCHANGED <<sensitive, logVars, changeVars, fileVars, windows, loopVars>>
  /\ page_gui_update_current

-----------------------------------------------------------------------------
(* The Edit menu. Neither undo nor redo counts as a change.                *)

Walk(step) ==
  /\ at' = step
  /\ walked' = TRUE
  /\ UNCHANGED <<log, changed, fileVars, windows, loopVars>>
  /\ page_gui_update_current
  /\ grey_items

(* Mutant: redo draws nothing.                                             *)
on_edit_redo_undrawn ==
  /\ Handler /\ "redo" \in sensitive
  /\ at' = IF at < Len(log) THEN at + 1 ELSE at
  /\ UNCHANGED <<pageVars, creating, load_failed, log, changed, fileVars, windows, loopVars>>
  /\ walked' = TRUE
  /\ grey_items

on_edit_undo_activate == Handler /\ "undo" \in sensitive /\ Walk(IF at > 1 THEN at - 1 ELSE at)
on_edit_redo_activate == Handler /\ "redo" \in sensitive /\ Walk(IF at < Len(log) THEN at + 1 ELSE at)

-----------------------------------------------------------------------------
(* The File menu.                                                          *)

Show(window) ==
  /\ windows' = windows \cup {window}
  /\ UNCHANGED <<pageVars, creating, sensitive, logVars, changeVars, fileVars, load_failed>>

Hide(window) ==
  /\ windows' = windows \ {window}
  /\ UNCHANGED <<pageVars, creating, sensitive, logVars, changeVars, fileVars, load_failed>>

on_file_load_activate == Handler /\ Show("load") /\ UNCHANGED loopVars
on_load_cancel_clicked == Handler /\ "load" \in windows /\ Hide("load") /\ UNCHANGED loopVars

(* The log is cleared first. A file that cannot be read leaves it so, and  *)
(* leaves the page, the items and changed as they were.                    *)
on_load_ok_clicked(f) ==
  /\ Handler
  /\ "load" \in windows
  /\ windows' = windows \ {"load"}
  /\ defconfig_filename' = f
  /\ UNCHANGED <<disk, loopVars>>
  /\ IF disk[f] = None
     THEN /\ log' = <<Cleared>> /\ at' = 1
          /\ load_failed' = TRUE
          /\ UNCHANGED <<page_stack, current, drawn, creating, sensitive, changeVars, unwritten>>
     ELSE /\ log' = IF disk[f] = Cleared THEN <<Cleared>> ELSE <<Cleared, disk[f]>>
          /\ at' = Len(log')
          /\ changed' = FALSE /\ walked' = FALSE /\ unwritten' = FALSE
          /\ page_gui_update_current
          /\ grey_items

(* Saving may fail, with or without the old file out of the way; nobody    *)
(* asks.                                                                   *)
cml_rulebase_save_defconfig(f) ==
  \E held \in {Config, disk[f], None} :
    disk' = [disk EXCEPT ![f] = held] /\ unwritten' = (held # Config)

do_actual_save(f) ==
  /\ cml_rulebase_save_defconfig(f)
  /\ changed' = FALSE /\ walked' = FALSE
  /\ UNCHANGED <<pageVars, logVars, load_failed>>
  /\ grey_items

(* do_save_as() shows its window and runs a loop.                          *)
do_save_as(returns) ==
  /\ Len(loops) < MaxLoops
  /\ Show("save_as")
  /\ loops' = Append(loops, returns)
  /\ UNCHANGED <<quit, status, discard, escaped>>

on_file_save_activate ==
  /\ Handler
  /\ "save" \in sensitive
  /\ do_actual_save(defconfig_filename)
  /\ UNCHANGED <<creating, defconfig_filename, windows, loopVars>>

on_file_save_as_activate == Handler /\ "save_as" \in sensitive /\ do_save_as("menu")

(* gtk_main_quit(): the innermost loop, whichever that is.                 *)
gtk_main_quit == quit' = TRUE /\ UNCHANGED <<loops, status>>

on_save_as_ok_clicked(f) ==
  /\ Handler
  /\ "save_as" \in windows
  /\ windows' = windows \ {"save_as"}
  /\ defconfig_filename' = f
  /\ do_actual_save(f)
  /\ gtk_main_quit
  /\ UNCHANGED <<creating, discard, escaped>>

on_save_as_cancel_clicked ==
  /\ Handler
  /\ "save_as" \in windows
  /\ Hide("save_as")
  /\ gtk_main_quit
  /\ UNCHANGED <<discard, escaped>>

-----------------------------------------------------------------------------
(* Leaving. do_quit() suppresses the callbacks and quits a loop; depth is  *)
(* how many loops run by then.                                             *)

do_quit(depth) ==
  /\ creating' = TRUE
  /\ quit' = TRUE
  /\ escaped' = (escaped \/ depth > 1)

file_exit_cb ==
  /\ Handler
  /\ IF changed
     THEN Show("save_query") /\ UNCHANGED loopVars
     ELSE /\ do_quit(Len(loops))
          /\ UNCHANGED <<pageVars, sensitive, logVars, changeVars, fileVars, windows, load_failed,
                         loops, status, discard>>

on_save_query_cancel_clicked ==
  Handler /\ "save_query" \in windows /\ Hide("save_query") /\ UNCHANGED loopVars

on_save_query_exit_clicked ==
  /\ Handler
  /\ "save_query" \in windows
  /\ do_quit(Len(loops))
  /\ discard' = TRUE
  /\ UNCHANGED <<pageVars, sensitive, logVars, changeVars, fileVars, windows, load_failed, loops, status>>

(* With a file name it saves and quits; without one it asks for a name in  *)
(* a loop of its own, see Return.                                          *)
on_save_query_save_clicked ==
  /\ Handler
  /\ "save_query" \in windows
  /\ IF defconfig_filename = None THEN do_save_as("query")
     ELSE /\ do_actual_save(defconfig_filename)
          /\ UNCHANGED <<defconfig_filename, windows, loops, status, discard>>
          /\ do_quit(Len(loops))

(* Mutant: quits whatever came of saving.                                  *)
ReturnAndQuit ==
  /\ status = "running" /\ quit
  /\ loops' = SubSeq(loops, 1, Len(loops) - 1)
  /\ UNCHANGED <<pageVars, sensitive, logVars, changeVars, fileVars, windows, load_failed, discard>>
  /\ IF Last(loops) = "query"
     THEN do_quit(Len(loops')) /\ UNCHANGED status
     ELSE /\ quit' = FALSE
          /\ status' = IF Last(loops) = "main" THEN "ended" ELSE status
          /\ UNCHANGED <<creating, escaped>>

(* Mutant: nothing is left to do after the loop.                           *)
ReturnAndStay ==
  /\ status = "running" /\ quit
  /\ loops' = SubSeq(loops, 1, Len(loops) - 1)
  /\ UNCHANGED <<pageVars, sensitive, logVars, changeVars, fileVars, windows, load_failed, discard>>
  /\ quit' = FALSE
  /\ status' = IF Last(loops) = "main" THEN "ended" ELSE status
  /\ UNCHANGED <<creating, escaped>>

(* A loop that was told to quit returns: to main(), which ends, to the     *)
(* menu item, or to the query, which quits if there are no changes left.   *)
Return ==
  /\ status = "running" /\ quit
  /\ loops' = SubSeq(loops, 1, Len(loops) - 1)
  /\ UNCHANGED <<pageVars, sensitive, logVars, changeVars, fileVars, windows, load_failed, discard>>
  /\ IF Last(loops) = "query" /\ ~changed
     THEN do_quit(Len(loops')) /\ UNCHANGED status
     ELSE /\ quit' = FALSE
          /\ status' = IF Last(loops) = "main" THEN "ended" ELSE status
          /\ UNCHANGED <<creating, escaped>>

-----------------------------------------------------------------------------
(* delayed_initialise() pushes the start page; a configuration named on    *)
(* the command line has been loaded by then, if it could be.               *)
Init ==
  /\ page_stack = <<Start>>
  /\ current = Start
  /\ creating = FALSE
  /\ disk \in [Files -> Values \cup {None}]
  /\ defconfig_filename \in Files \cup {None}
  /\ LET loaded == IF defconfig_filename = None THEN None ELSE disk[defconfig_filename]
     IN  log = IF loaded \in {None, Cleared} THEN <<Cleared>> ELSE <<Cleared, loaded>>
  /\ at = Len(log)
  /\ drawn = [m \in {Start} |-> Config]
  /\ changed = FALSE
  /\ sensitive = {item \in Items : Usable(item)}
  /\ windows = {}
  /\ loops = <<"main">>
  /\ quit = FALSE
  /\ status = "running"
  /\ load_failed = FALSE
  /\ discard = FALSE
  /\ escaped = FALSE
  /\ walked = FALSE
  /\ unwritten = FALSE

Next ==
  \/ \E v \in Values : \/ on_tristate_toggle_toggled(v) \/ on_choice_combo_changed(v)
                       \/ on_limited_int_combo_changed(v) \/ string_set(v) \/ integer_set(v)
  \/ \E mn \in Menus : on_menu_button_clicked(mn) \/ on_notebook_switch_page(mn)
  \/ \E f \in Files : on_load_ok_clicked(f) \/ on_save_as_ok_clicked(f)
  \/ on_view_rootmost_activate \/ on_view_up_activate
  \/ on_view_down_activate \/ on_view_leafmost_activate
  \/ on_show_check_activate
  \/ on_edit_undo_activate \/ on_edit_redo_activate
  \/ on_file_load_activate \/ on_load_cancel_clicked
  \/ on_file_save_activate \/ on_file_save_as_activate \/ on_save_as_cancel_clicked
  \/ file_exit_cb
  \/ on_save_query_save_clicked \/ on_save_query_exit_clicked \/ on_save_query_cancel_clicked
  \/ Return

(* gtk_main() returns once it has been told to quit. What the user does is *)
(* not up to the program.                                                  *)
Spec == Init /\ [][Next]_vars /\ WF_vars(Return)

-----------------------------------------------------------------------------
(* The pages of the notebook are a path in the menu tree from the start    *)
(* menu, without a menu twice, and the current page is one of them:        *)
(* page_gui_push() from the middle takes away what lay above.              *)
PageStackIsPath ==
  /\ Len(page_stack) > 0 /\ Last(page_stack) = Start
  /\ \A i \in 1..(Len(page_stack) - 1) : page_stack[i] \in Children[page_stack[i + 1]]
  /\ \A i, j \in 1..Len(page_stack) : page_stack[i] = page_stack[j] => i = j
  /\ current \in Elements(page_stack)

(* Up and Down can only be used where there is a page to move to, so that  *)
(* page_gui_move_up() and page_gui_move_down() meet no null pointer, as    *)
(* long as the callbacks are not suppressed.                               *)
MovesHaveTarget ==
  ~creating =>
    /\ "up" \in sensitive => current # page_gui_get_rootmost
    /\ "down" \in sensitive => current # page_gui_get_leafmost

(* The current page shows the configuration after every handler that got   *)
(* as far as drawing.                                                      *)
PageIsFresh == ~creating /\ ~load_failed => drawn[current] = Config

(* What a load of the current file would give.                            *)
Stored ==
  IF defconfig_filename = None THEN Cleared
  ELSE IF disk[defconfig_filename] = None THEN Cleared ELSE disk[defconfig_filename]

(* "You have made unsaved configuration changes" (gcml2.glade): the        *)
(* configuration that the program ends with is the one in its file unless  *)
(* Exit was chosen in the query that says so, however sets, loads, saves   *)
(* and the loops of Save As followed each other. What the code does not    *)
(* count is left out by name: undo and redo (on_edit_undo_activate does    *)
(* not touch `changed'), a save that failed (do_actual_save does not look) *)
(* and an exit that quit the loop of a Save As, see BreaksMainLoop.        *)
AskedBeforeLoss ==
  status = "ended" /\ ~discard /\ ~walked /\ ~unwritten /\ ~escaped => Config = Stored

(* "break main event loop" (gtk/main.c do_quit): the loop that an exit     *)
(* quits is the one of main(). While Save As runs a loop of its own it is  *)
(* not.                                                                    *)
BreaksMainLoop == creating /\ quit => Len(loops) = 1

(* Save in the query of File->Exit, then OK in Save As, ends the program:  *)
(* the subsidiary loop "to handle the case where we are called from the    *)
(* File->Exit handler" returns into that handler.                          *)
SavedThenExits == (quit /\ ~changed /\ loops = <<"main", "query">>) ~> status = "ended"
=============================================================================
