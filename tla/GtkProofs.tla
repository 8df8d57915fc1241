------------------------------- MODULE GtkProofs -------------------------------
(***************************************************************************)
(* The pages of the gtk front end for every tree of menus: whatever the    *)
(* user clicks, and whichever main loop it reaches, the notebook holds a   *)
(* path of the tree, and Up and Down can only be clicked where there is a  *)
(* page to go to. The page on screen shows the configuration, and what     *)
(* it ends with is in the file unless the user was asked.                  *)
(***************************************************************************)
EXTENDS Gtk, SequenceTheorems, TLAPS

IInv ==
  /\ page_stack \in Seq(Menus)
  /\ PageStackIsPath
  /\ MovesHaveTarget

(* Where the current page is: the CHOOSE in Position finds one.            *)
LEMMA PositionInStack ==
  ASSUME IInv
  PROVE  Position \in 1..Len(page_stack) /\ page_stack[Position] = current
BY DEF IInv, PageStackIsPath, Elements, Position

(* Greying the items makes them say where there is a page to go to.        *)
LEMMA GreyedRight ==
  ASSUME grey_items
  PROVE  MovesHaveTarget'
<1>1. "up" \in sensitive' => Usable("up")'
  BY DEF grey_items, Items
<1>2. "down" \in sensitive' => Usable("down")'
  BY DEF grey_items, Items
<1> QED BY <1>1, <1>2 DEF MovesHaveTarget, Usable

(* A handler that leaves the pages alone either greys the items, or leaves *)
(* them alone as well and does not end the suppression of callbacks, or    *)
(* suppresses them.                                                        *)
Undisturbed ==
  /\ UNCHANGED <<page_stack, current>>
  /\ \/ grey_items
     \/ sensitive' = sensitive /\ (creating' \/ ~creating)
     \/ creating'

LEMMA KeepsPages ==
  ASSUME IInv, Undisturbed
  PROVE  IInv'
<1>1. page_stack' = page_stack /\ current' = current
  BY DEF Undisturbed
<1>2. page_stack' \in Seq(Menus) /\ PageStackIsPath'
  BY <1>1 DEF IInv, PageStackIsPath, Elements, Last
<1>3. MovesHaveTarget'
  <2>1. CASE grey_items BY <2>1, GreyedRight
  <2>2. CASE sensitive' = sensitive /\ (creating' \/ ~creating)
    BY <1>1, <2>2 DEF IInv, MovesHaveTarget, page_gui_get_rootmost, page_gui_get_leafmost, Last
  <2>3. CASE creating' BY <2>3 DEF MovesHaveTarget
  <2> QED BY <2>1, <2>2, <2>3 DEF Undisturbed
<1> QED BY <1>2, <1>3 DEF IInv

(* Turning to a page of the stack.                                         *)
LEMMA TurnsPage ==
  ASSUME IInv, page_stack' = page_stack, current' \in Elements(page_stack),
         grey_items \/ creating'
  PROVE  IInv'
<1>1. page_stack' \in Seq(Menus) /\ PageStackIsPath'
  BY DEF IInv, PageStackIsPath, Elements, Last
<1>2. MovesHaveTarget'
  BY GreyedRight DEF MovesHaveTarget
<1> QED BY <1>1, <1>2 DEF IInv

(* Entering a menu of the current page: what was above the page goes, the  *)
(* rest of the stack is still a path, and the menu goes on top of it.      *)
LEMMA EntersMenu ==
  ASSUME IInv, NEW mn \in Menus, on_menu_button_clicked(mn)
  PROVE  IInv'
<1>1. mn \in Children[current] /\ current' = mn /\ grey_items
  BY DEF on_menu_button_clicked, make_current
<1>2. CASE mn \in Elements(page_stack)
  <2>1. page_stack' = page_stack
    BY <1>2 DEF on_menu_button_clicked
  <2> QED BY <1>1, <1>2, <2>1, TurnsPage
<1>3. CASE mn \notin Elements(page_stack)
  <2> DEFINE n == Len(page_stack)
             p == Position
  <2>1. page_stack \in Seq(Menus) /\ p \in 1..n /\ page_stack[p] = current /\ n \in Nat
    BY PositionInStack DEF IInv
  <2>2. page_stack' = <<mn>> \o SubSeq(page_stack, p, n)
    BY <1>3 DEF on_menu_button_clicked
  <2> HIDE DEF p
  <2>3. /\ SubSeq(page_stack, p, n) \in Seq(Menus)
        /\ Len(SubSeq(page_stack, p, n)) = n - p + 1
        /\ \A i \in 1..(n - p + 1) : SubSeq(page_stack, p, n)[i] = page_stack[p + i - 1]
    BY <2>1
  <2>4. /\ page_stack' \in Seq(Menus) /\ Len(page_stack') = n - p + 2
        /\ page_stack'[1] = mn
        /\ \A i \in 2..(n - p + 2) : page_stack'[i] = page_stack[p + i - 2]
    BY <2>1, <2>2, <2>3
  <2>5. Last(page_stack') = Start
    <3>1. n - p + 2 \in 2..(n - p + 2) /\ p + (n - p + 2) - 2 = n
      BY <2>1
    <3> QED BY <2>4, <3>1 DEF Last, IInv, PageStackIsPath
  <2>6. \A i \in 1..(Len(page_stack') - 1) : page_stack'[i] \in Children[page_stack'[i + 1]]
    <3> TAKE i \in 1..(Len(page_stack') - 1)
    <3>1. CASE i = 1
      <4>1. page_stack'[2] = current
        BY <2>1, <2>4
      <4> QED BY <1>1, <2>4, <3>1, <4>1
    <3>2. CASE i # 1
      <4>1. i \in 2..(n - p + 2) /\ i + 1 \in 2..(n - p + 2)
        BY <2>1, <2>4, <3>2
      <4>2. page_stack'[i] = page_stack[p + i - 2] /\ page_stack'[i + 1] = page_stack[p + (i + 1) - 2]
        BY <2>4, <4>1
      <4>4. p + (i + 1) - 2 = (p + i - 2) + 1
        BY <2>1, <4>1
      <4>3. p + i - 2 \in 1..(n - 1)
        BY <2>1, <4>1
      <4> QED BY <4>2, <4>3, <4>4 DEF IInv, PageStackIsPath
    <3> QED BY <3>1, <3>2
  <2>7. \A i, j \in 1..Len(page_stack') : page_stack'[i] = page_stack'[j] => i = j
    <3> SUFFICES ASSUME NEW i \in 1..Len(page_stack'), NEW j \in 1..Len(page_stack'),
                        page_stack'[i] = page_stack'[j], i < j
                 PROVE  FALSE
      BY <2>4, <2>1
    <3>1. j \in 2..(n - p + 2) /\ p + j - 2 \in 1..n /\ page_stack'[j] = page_stack[p + j - 2]
      BY <2>1, <2>4
    <3>2. CASE i = 1
      BY <1>3, <2>4, <3>1, <3>2 DEF Elements
    <3>3. CASE i # 1
      <4>0. i \in 2..(n - p + 2)
        BY <2>1, <2>4, <3>3
      <4>1. p + i - 2 \in 1..n /\ page_stack'[i] = page_stack[p + i - 2]
        BY <2>1, <2>4, <4>0
      <4>2. p + i - 2 = p + j - 2
        BY <3>1, <4>1 DEF IInv, PageStackIsPath
      <4> QED BY <2>1, <3>1, <4>1, <4>2
    <3> QED BY <3>2, <3>3
  <2>8. current' \in Elements(page_stack')
    BY <1>1, <2>1, <2>4 DEF Elements
  <2>9. PageStackIsPath'
    BY <2>1, <2>4, <2>5, <2>6, <2>7, <2>8 DEF PageStackIsPath
  <2> QED BY <1>1, <2>4, <2>9, GreyedRight DEF IInv
<1> QED BY <1>2, <1>3

LEMMA StartsOnPath == Init => IInv
<1> SUFFICES ASSUME Init PROVE IInv
  OBVIOUS
<1>1. page_stack = <<Start>> /\ current = Start /\ Start \in Menus
  BY MenusAssumption DEF Init
<1>2. page_stack \in Seq(Menus) /\ Len(page_stack) = 1 /\ page_stack[1] = Start
  BY <1>1
<1>3. PageStackIsPath
  BY <1>1, <1>2 DEF PageStackIsPath, Last, Elements
<1>4. sensitive = {item \in Items : Usable(item)}
  BY DEF Init
<1>5. MovesHaveTarget
  BY <1>4 DEF MovesHaveTarget, Usable
<1> QED BY <1>2, <1>3, <1>5 DEF IInv

(* Every handler but the ones that turn or enter a page.                   *)
LEMMA RowsStay ==
  ASSUME NEW v \in Values,
         \/ on_tristate_toggle_toggled(v) \/ on_choice_combo_changed(v)
         \/ on_limited_int_combo_changed(v) \/ string_set(v) \/ integer_set(v)
  PROVE  Undisturbed
BY DEF on_tristate_toggle_toggled, on_choice_combo_changed, on_limited_int_combo_changed,
       string_set, integer_set, set_value, page_gui_update_current, Undisturbed

LEMMA EditStays ==
  ASSUME on_edit_undo_activate \/ on_edit_redo_activate \/ on_show_check_activate
  PROVE  Undisturbed
BY DEF on_edit_undo_activate, on_edit_redo_activate, on_show_check_activate, Walk,
       page_gui_update_current, Undisturbed

LEMMA LoadStays ==
  ASSUME \/ \E f \in Files : on_load_ok_clicked(f)
         \/ on_file_load_activate
         \/ on_load_cancel_clicked
  PROVE  Undisturbed
BY DEF on_load_ok_clicked, on_file_load_activate, on_load_cancel_clicked, Show, Hide,
       page_gui_update_current, pageVars, Undisturbed

LEMMA SaveStays ==
  ASSUME \/ \E f \in Files : on_save_as_ok_clicked(f)
         \/ on_file_save_activate \/ on_file_save_as_activate
         \/ on_save_as_cancel_clicked
  PROVE  Undisturbed
BY DEF on_save_as_ok_clicked, on_file_save_activate, on_file_save_as_activate,
       on_save_as_cancel_clicked, do_actual_save, do_save_as, Show, Hide, pageVars, Undisturbed

LEMMA ExitStays ==
  ASSUME \/ file_exit_cb \/ on_save_query_save_clicked \/ on_save_query_exit_clicked
         \/ on_save_query_cancel_clicked \/ Return \/ Crash
         \/ UNCHANGED vars
  PROVE  Undisturbed
BY DEF file_exit_cb, on_save_query_save_clicked, on_save_query_exit_clicked,
       on_save_query_cancel_clicked, Return, Crash, do_quit, do_save_as, do_actual_save, Show,
       Hide, pageVars, vars, Undisturbed

(* Up, Down and the two ends of the stack.                                 *)
LEMMA MovesStay ==
  ASSUME IInv, NEW mn \in Elements(page_stack), Move(mn)
  PROVE  IInv'
BY TurnsPage DEF Move, make_current

LEMMA ViewMoves ==
  ASSUME IInv,
         \/ on_view_rootmost_activate \/ on_view_up_activate
         \/ on_view_down_activate \/ on_view_leafmost_activate
  PROVE  IInv'
<1>1. Len(page_stack) \in Nat \ {0} /\ Position \in 1..Len(page_stack)
  BY PositionInStack DEF IInv, PageStackIsPath
<1>2. CASE Crash
  BY <1>2, ExitStays, KeepsPages
<1>3. CASE \E mn \in Elements(page_stack) : Move(mn)
  BY <1>3, MovesStay
<1>4. \A i \in 1..Len(page_stack) : page_stack[i] \in Elements(page_stack)
  BY DEF Elements
<1>5. page_gui_get_rootmost \in Elements(page_stack) /\ page_gui_get_leafmost \in Elements(page_stack)
  BY <1>1, <1>4 DEF page_gui_get_rootmost, page_gui_get_leafmost, Last
<1>6. CASE on_view_rootmost_activate \/ on_view_leafmost_activate
  BY <1>3, <1>5, <1>6 DEF on_view_rootmost_activate, on_view_leafmost_activate
<1>7. CASE on_view_up_activate
  <2>1. Position < Len(page_stack) => Position + 1 \in 1..Len(page_stack)
    BY <1>1
  <2> QED BY <1>2, <1>3, <1>4, <1>7, <2>1 DEF on_view_up_activate
<1>8. CASE on_view_down_activate
  <2>1. Position > 1 => Position - 1 \in 1..Len(page_stack)
    BY <1>1
  <2> QED BY <1>2, <1>3, <1>4, <1>8, <2>1 DEF on_view_down_activate
<1> QED BY <1>6, <1>7, <1>8

LEMMA TurnsTab ==
  ASSUME IInv, NEW mn \in Menus, on_notebook_switch_page(mn)
  PROVE  IInv'
<1>1. page_stack' = page_stack /\ current' \in Elements(page_stack) /\ creating' = creating
  BY DEF on_notebook_switch_page
<1>2. grey_items \/ creating
  BY DEF on_notebook_switch_page
<1> QED BY <1>1, <1>2, TurnsPage

LEMMA StaysOnPath == IInv /\ [Next]_vars => IInv'
<1> SUFFICES ASSUME IInv, [Next]_vars PROVE IInv'
  OBVIOUS
<1>1. ASSUME NEW v \in Values,
         \/ on_tristate_toggle_toggled(v) \/ on_choice_combo_changed(v)
         \/ on_limited_int_combo_changed(v) \/ string_set(v) \/ integer_set(v) PROVE IInv'
  BY <1>1, RowsStay, KeepsPages
<1>2. ASSUME NEW mn \in Menus, on_menu_button_clicked(mn) \/ on_notebook_switch_page(mn) PROVE IInv'
  BY <1>2, EntersMenu, TurnsTab
<1>3. ASSUME NEW f \in Files, on_load_ok_clicked(f) \/ on_save_as_ok_clicked(f) PROVE IInv'
  <2>1. CASE on_load_ok_clicked(f) BY <2>1, LoadStays, KeepsPages
  <2>2. CASE on_save_as_ok_clicked(f) BY <2>2, SaveStays, KeepsPages
  <2> QED BY <1>3, <2>1, <2>2
<1>4. CASE \/ on_view_rootmost_activate \/ on_view_up_activate
           \/ on_view_down_activate \/ on_view_leafmost_activate
  BY <1>4, ViewMoves
<1>5. CASE on_show_check_activate \/ on_edit_undo_activate \/ on_edit_redo_activate
  BY <1>5, EditStays, KeepsPages
<1>6. CASE on_file_load_activate \/ on_load_cancel_clicked
  BY <1>6, LoadStays, KeepsPages
<1>7. CASE on_file_save_activate \/ on_file_save_as_activate \/ on_save_as_cancel_clicked
  BY <1>7, SaveStays, KeepsPages
<1>8. CASE \/ file_exit_cb \/ on_save_query_save_clicked \/ on_save_query_exit_clicked
           \/ on_save_query_cancel_clicked \/ Return \/ UNCHANGED vars
  BY <1>8, ExitStays, KeepsPages
<1> QED BY <1>1, <1>2, <1>3, <1>4, <1>5, <1>6, <1>7, <1>8 DEF Next

(* The invariant that the two theorems rest on. Up and Down need to know   *)
(* that the current page is in the stack, and it stays there because the   *)
(* stack is a path whose pages are entered from one another.               *)
THEOREM Invariance == Spec => []IInv
BY StartsOnPath, StaysOnPath, PTL DEF Spec

(* Whatever is clicked, the pages of the notebook are a path of the menu   *)
(* tree from the start menu, without a menu twice: page_gui_push().        *)
THEOREM PagesArePath == Spec => []PageStackIsPath
BY Invariance, PTL DEF IInv

(* page_gui_move_up() and page_gui_move_down() have a page to move to      *)
(* whenever the user can ask for it and callbacks are not suppressed.      *)
THEOREM MovesAreSafe == Spec => []MovesHaveTarget
BY Invariance, PTL DEF IInv

-----------------------------------------------------------------------------
(* What is on the screen.                                                  *)

(* A handler draws the page that is current afterwards, or leaves the page *)
(* and the configuration alone, or lets no callback run from now on, or    *)
(* has not got as far as drawing.                                          *)
DrawsWhatChanges ==
  \/ page_gui_update(current')
  \/ /\ UNCHANGED <<drawn, current, log, at, load_failed>>
     /\ creating' \/ ~creating
  \/ creating'
  \/ load_failed'

LEMMA DrawsConfig ==
  ASSUME PageIsFresh, DrawsWhatChanges
  PROVE  PageIsFresh'
<1>1. CASE page_gui_update(current')
  BY <1>1 DEF PageIsFresh, page_gui_update
<1>2. CASE /\ UNCHANGED <<drawn, current, log, at, load_failed>>
           /\ creating' \/ ~creating
  BY <1>2 DEF PageIsFresh, Config
<1>3. CASE creating' \/ load_failed'
  BY <1>3 DEF PageIsFresh
<1> QED BY <1>1, <1>2, <1>3 DEF DrawsWhatChanges

LEMMA StaysFresh == PageIsFresh /\ [Next]_vars => PageIsFresh'
<1> SUFFICES ASSUME PageIsFresh, [Next]_vars PROVE DrawsWhatChanges
  BY DrawsConfig
<1> USE DEF DrawsWhatChanges, logVars, pageVars
<1>1. ASSUME page_gui_update_current PROVE DrawsWhatChanges
  BY <1>1 DEF page_gui_update_current
<1>2. ASSUME NEW v \in Values,
         \/ on_tristate_toggle_toggled(v) \/ on_choice_combo_changed(v)
         \/ on_limited_int_combo_changed(v) \/ string_set(v) \/ integer_set(v) PROVE DrawsWhatChanges
  BY <1>1, <1>2 DEF on_tristate_toggle_toggled, on_choice_combo_changed,
                    on_limited_int_combo_changed, string_set, integer_set, set_value
<1>3. ASSUME NEW mn, make_current(mn) PROVE DrawsWhatChanges
  BY <1>3 DEF make_current
<1>4. CASE Crash
  BY <1>4 DEF Crash
<1>5. ASSUME NEW mn \in Menus, on_menu_button_clicked(mn) PROVE DrawsWhatChanges
  BY <1>3, <1>5 DEF on_menu_button_clicked
<1>6. ASSUME NEW mn \in Menus, on_notebook_switch_page(mn) PROVE DrawsWhatChanges
  BY <1>6 DEF on_notebook_switch_page
<1>7. ASSUME NEW f \in Files, on_load_ok_clicked(f) PROVE DrawsWhatChanges
  BY <1>1, <1>7 DEF on_load_ok_clicked
<1>8. CASE \/ on_view_rootmost_activate \/ on_view_up_activate
           \/ on_view_down_activate \/ on_view_leafmost_activate
  BY <1>3, <1>4, <1>8 DEF on_view_rootmost_activate, on_view_up_activate,
       on_view_down_activate, on_view_leafmost_activate, Move
<1>9. CASE on_show_check_activate \/ on_edit_undo_activate \/ on_edit_redo_activate
  BY <1>1, <1>9 DEF on_show_check_activate, on_edit_undo_activate, on_edit_redo_activate, Walk
<1>10. CASE \/ on_file_load_activate \/ on_load_cancel_clicked
            \/ on_file_save_activate \/ on_file_save_as_activate \/ on_save_as_cancel_clicked
            \/ \E f \in Files : on_save_as_ok_clicked(f)
  BY <1>10 DEF on_file_load_activate, on_load_cancel_clicked, on_file_save_activate,
       on_file_save_as_activate, on_save_as_cancel_clicked, on_save_as_ok_clicked,
       do_actual_save, do_save_as, Show, Hide
<1>11. CASE \/ file_exit_cb \/ on_save_query_save_clicked \/ on_save_query_exit_clicked
            \/ on_save_query_cancel_clicked \/ Return \/ UNCHANGED vars
  BY <1>11 DEF file_exit_cb, on_save_query_save_clicked, on_save_query_exit_clicked,
       on_save_query_cancel_clicked, Return, do_quit, do_save_as, do_actual_save, Show, Hide, vars
<1> QED BY <1>2, <1>5, <1>6, <1>7, <1>8, <1>9, <1>10, <1>11 DEF Next

(* The current page shows the configuration after every handler that got   *)
(* as far as drawing: whatever sets a value, walks the history or turns    *)
(* the page ends in page_gui_update_current() for the page it has turned   *)
(* to.                                                                     *)
THEOREM CurrentPageIsFresh == Spec => []PageIsFresh
<1>1. Init => PageIsFresh
  BY DEF Init, PageIsFresh
<1> QED BY <1>1, StaysFresh, PTL DEF Spec

-----------------------------------------------------------------------------
(* Leaving.                                                                *)

(* The program ends with the flag `changed' only after Exit in the query.  *)
QuitUnchanged == status = "ended" /\ ~escaped => ~changed \/ discard

(* What makes QuitUnchanged inductive: only the outermost loop returns to  *)
(* main(), and it is told to quit only without changes or because of Exit  *)
(* in the query. OK and Cancel of Save As quit a loop too; they can be     *)
(* clicked only while a loop of Save As is the innermost one, unless an    *)
(* exit has quit that loop in place of the outermost and left the window.  *)
LossInv ==
  /\ loops \in Seq({"main", "menu", "query"})
  /\ status = "running" => Len(loops) > 0 /\ loops[1] = "main"
  /\ \A i \in 2..Len(loops) : loops[i] # "main"
  /\ ~escaped /\ status = "running" =>
       /\ "save_as" \in windows => Len(loops) > 1 /\ ~quit
       /\ quit /\ Len(loops) = 1 => ~changed \/ discard
  /\ QuitUnchanged

(* A handler that starts no loop and tells none to quit, shows no window   *)
(* of Save As.                                                             *)
StaysInLoop ==
  /\ UNCHANGED loopVars
  /\ "save_as" \in windows' => "save_as" \in windows
  /\ ~quit \/ changed' = changed

LEMMA LoopKeepsLoss ==
  ASSUME LossInv, status = "running" \/ changed' = changed, StaysInLoop
  PROVE  LossInv'
BY DEF LossInv, StaysInLoop, loopVars, QuitUnchanged

(* A handler runs in a loop that has not been told to quit.                *)
LEMMA HandlersStay ==
  ASSUME LossInv, Handler, UNCHANGED loopVars, "save_as" \in windows' => "save_as" \in windows
  PROVE  LossInv'
BY LoopKeepsLoss DEF Handler, StaysInLoop

(* do_save_as() puts a loop of its own on top.                             *)
LEMMA LoopStarts ==
  ASSUME LossInv, Handler, NEW returns \in {"menu", "query"}, do_save_as(returns)
  PROVE  LossInv'
<1>1. /\ loops' = Append(loops, returns) /\ loops \in Seq({"main", "menu", "query"})
      /\ UNCHANGED <<quit, status, discard, escaped>> /\ Len(loops) > 0 /\ ~quit
  BY DEF LossInv, Handler, do_save_as
<1>2. /\ loops' \in Seq({"main", "menu", "query"})
      /\ Len(loops') = Len(loops) + 1 /\ Len(loops) \in Nat
      /\ \A i \in 1..Len(loops) : loops'[i] = loops[i]
      /\ loops'[Len(loops) + 1] = returns
  BY <1>1
<1>3. \A i \in 2..Len(loops') : loops'[i] # "main"
  <2> TAKE i \in 2..Len(loops')
  <2>1. CASE i = Len(loops) + 1 BY <1>2, <2>1
  <2>2. CASE i # Len(loops) + 1
    <3>1. i \in 2..Len(loops) /\ i \in 1..Len(loops)
      BY <1>2, <2>2
    <3> QED BY <1>2, <3>1 DEF LossInv
  <2> QED BY <2>1, <2>2
<1> QED BY <1>1, <1>2, <1>3 DEF LossInv, QuitUnchanged, Handler

(* A loop is told to quit. If it is the outermost one, there is nothing    *)
(* left to ask about.                                                      *)
LEMMA LoopQuits ==
  ASSUME LossInv, Handler, UNCHANGED <<loops, status>>, quit',
         escaped => escaped',
         ~escaped' => "save_as" \notin windows',
         ~escaped' /\ Len(loops) = 1 => ~changed' \/ discard'
  PROVE  LossInv'
BY DEF LossInv, QuitUnchanged, Handler

(* An exit that quits an inner loop escapes.                               *)
LEMMA ExitQuits ==
  ASSUME LossInv, Handler, UNCHANGED <<loops, status>>, do_quit(Len(loops)),
         "save_as" \in windows' => "save_as" \in windows,
         ~changed' \/ discard'
  PROVE  LossInv'
<1>1. loops \in Seq({"main", "menu", "query"}) /\ Len(loops) > 0 /\ Len(loops) \in Nat
  BY DEF LossInv, Handler
<1>2. quit' /\ (escaped' <=> escaped \/ Len(loops) > 1)
  BY DEF do_quit
<1>3. ~escaped' => "save_as" \notin windows'
  BY <1>1, <1>2 DEF LossInv, Handler
<1> QED BY <1>1, <1>2, <1>3, LoopQuits

(* OK and Cancel of Save As.                                               *)
LEMMA SaveAsQuits ==
  ASSUME LossInv, Handler, "save_as" \in windows, windows' = windows \ {"save_as"},
         gtk_main_quit, UNCHANGED <<discard, escaped>>
  PROVE  LossInv'
<1>1. quit' /\ UNCHANGED <<loops, status>>
  BY DEF gtk_main_quit
<1>2. ~escaped => Len(loops) > 1 /\ Len(loops) # 1
  BY DEF LossInv, Handler
<1> QED BY <1>1, <1>2, LoopQuits

(* A loop returns. Only the outermost one returns to main().               *)
LEMMA LoopReturns ==
  ASSUME LossInv, Return
  PROVE  LossInv'
<1> DEFINE n == Len(loops)
<1>1. /\ loops \in Seq({"main", "menu", "query"})
      /\ Len(loops) > 0
      /\ loops' = SubSeq(loops, 1, Len(loops) - 1)
  BY DEF LossInv, Return
<1>2. /\ status = "running" /\ quit
      /\ UNCHANGED <<changed, windows, discard>>
  BY DEF Return, changeVars
<1>3. n \in Nat /\ n > 0
  BY <1>1
<1> HIDE DEF n
<1>4. /\ loops' \in Seq({"main", "menu", "query"}) /\ Len(loops') = n - 1
      /\ \A i \in 1..n - 1 : loops'[i] = loops[i]
  <2>1. \A i \in 1..n - 1 : loops[i] \in {"main", "menu", "query"}
    BY <1>1, <1>3, ElementOfSeq DEF n
  <2>2. loops' = SubSeq(loops, 1, n - 1)
    BY <1>1 DEF n
  <2> QED BY <1>3, <2>1, <2>2, SubSeqProperties
<1>5. \A i \in 2..Len(loops') : loops'[i] # "main"
  <2> TAKE i \in 2..Len(loops')
  <2>1. i \in 1..n - 1 /\ i \in 2..n
    BY <1>3, <1>4
  <2> QED BY <1>4, <2>1 DEF LossInv, n
<1>6. Last(loops) = "main" => n = 1
  <2>1. n # 1 => n \in 2..n
    BY <1>3
  <2> QED BY <2>1 DEF LossInv, Last, n
<1>7. n = 1 => Last(loops) = "main"
  BY <1>2 DEF LossInv, Last, n
<1>8. n # 1 => loops'[1] = "main" /\ n - 1 > 0
  <2>1. n # 1 => 1 \in 1..n - 1 /\ n - 1 > 0
    BY <1>3
  <2> QED BY <1>2, <1>4, <2>1 DEF LossInv
<1>9. ~escaped => "save_as" \notin windows /\ (n = 1 => ~changed \/ discard)
  BY <1>2 DEF LossInv, n
<1>10. CASE Last(loops) = "query" /\ ~changed
  <2>1. quit' /\ status' = "running" /\ (escaped => escaped')
    BY <1>2, <1>10 DEF Return, do_quit
  <2> QED BY <1>2, <1>3, <1>4, <1>5, <1>9, <1>10, <1>7, <1>8, <2>1 DEF LossInv, QuitUnchanged
<1>11. CASE ~(Last(loops) = "query" /\ ~changed)
  <2>1. /\ quit' = FALSE /\ escaped' = escaped
        /\ status' = IF Last(loops) = "main" THEN "ended" ELSE status
    BY <1>2, <1>11 DEF Return
  <2> QED BY <1>2, <1>3, <1>4, <1>5, <1>6, <1>9, <1>7, <1>8, <2>1 DEF LossInv, QuitUnchanged
<1> QED BY <1>10, <1>11

LEMMA StaysAsked == LossInv /\ [Next]_vars => LossInv'
<1> SUFFICES ASSUME LossInv, [Next]_vars PROVE LossInv'
  OBVIOUS
<1>1. ASSUME NEW v \in Values,
         \/ on_tristate_toggle_toggled(v) \/ on_choice_combo_changed(v)
         \/ on_limited_int_combo_changed(v) \/ string_set(v) \/ integer_set(v) PROVE LossInv'
  BY <1>1, HandlersStay DEF on_tristate_toggle_toggled, on_choice_combo_changed,
       on_limited_int_combo_changed, string_set, integer_set, set_value
<1>2. CASE Crash /\ Handler
  <2>1. UNCHANGED <<loops, quit, discard, escaped, changed, windows>> /\ status' = "crashed"
    BY <1>2 DEF Crash, changeVars
  <2> QED BY <2>1 DEF LossInv, QuitUnchanged
<1>3. ASSUME NEW mn \in Menus, on_menu_button_clicked(mn) \/ on_notebook_switch_page(mn) PROVE LossInv'
  BY <1>3, HandlersStay DEF on_menu_button_clicked, on_notebook_switch_page
<1>4. ASSUME NEW mn, Handler, Move(mn) PROVE LossInv'
  BY <1>4, HandlersStay DEF Move
<1>5. CASE \/ on_view_rootmost_activate \/ on_view_up_activate
           \/ on_view_down_activate \/ on_view_leafmost_activate
  BY <1>2, <1>4, <1>5 DEF on_view_rootmost_activate, on_view_up_activate,
       on_view_down_activate, on_view_leafmost_activate
<1>6. CASE on_show_check_activate \/ on_edit_undo_activate \/ on_edit_redo_activate
  BY <1>6, HandlersStay DEF on_show_check_activate, on_edit_undo_activate, on_edit_redo_activate, Walk
<1>7. CASE \/ \E f \in Files : on_load_ok_clicked(f)
           \/ on_file_load_activate \/ on_load_cancel_clicked \/ on_file_save_activate
           \/ on_save_query_cancel_clicked
  BY <1>7, HandlersStay DEF on_load_ok_clicked, on_file_load_activate, on_load_cancel_clicked,
       on_file_save_activate, on_save_query_cancel_clicked, Show, Hide
<1>8. CASE on_file_save_as_activate
  BY <1>8, LoopStarts DEF on_file_save_as_activate
<1>9. CASE on_save_as_cancel_clicked \/ \E f \in Files : on_save_as_ok_clicked(f)
  BY <1>9, SaveAsQuits DEF on_save_as_cancel_clicked, on_save_as_ok_clicked, Hide
<1>10. CASE file_exit_cb
  <2>1. CASE changed
    BY <1>10, <2>1, HandlersStay DEF file_exit_cb, Show
  <2>2. CASE ~changed
    BY <1>10, <2>2, ExitQuits DEF file_exit_cb, changeVars
  <2> QED BY <2>1, <2>2
<1>11. CASE on_save_query_exit_clicked
  BY <1>11, ExitQuits DEF on_save_query_exit_clicked
<1>12. CASE on_save_query_save_clicked
  <2>1. CASE defconfig_filename = None
    BY <1>12, <2>1, LoopStarts DEF on_save_query_save_clicked
  <2>2. CASE defconfig_filename # None
    BY <1>12, <2>2, ExitQuits DEF on_save_query_save_clicked, do_actual_save
  <2> QED BY <2>1, <2>2
<1>13. CASE Return
  BY <1>13, LoopReturns
<1>14. CASE UNCHANGED vars
  BY <1>14 DEF vars, loopVars, changeVars, LossInv, QuitUnchanged
<1> QED BY <1>1, <1>3, <1>5, <1>6, <1>7, <1>8, <1>9, <1>10, <1>11, <1>12, <1>13, <1>14 DEF Next

LEMMA StartsAsked == Init => LossInv
<1> SUFFICES ASSUME Init PROVE LossInv
  OBVIOUS
<1>1. loops = <<"main">> /\ status = "running" /\ windows = {} /\ ~quit
  BY DEF Init
<1>2. loops \in Seq({"main", "menu", "query"}) /\ Len(loops) = 1 /\ loops[1] = "main"
  BY <1>1
<1> QED BY <1>1, <1>2 DEF LossInv, QuitUnchanged

-----------------------------------------------------------------------------
(* What the flag stands for.                                               *)

(* Without a change, an undo or redo, or a failed save since the last load *)
(* or save, the configuration is the one in the file. Save is greyed       *)
(* without a file name, so what it writes is read back from there.         *)
StoredInv ==
  /\ log \in Seq(Values) /\ at \in 1..Len(log)
  /\ disk \in [Files -> Values \cup {None}]
  /\ defconfig_filename \in Files \cup {None}
  /\ "save" \in sensitive => defconfig_filename \in Files
  /\ ~changed /\ ~walked /\ ~unwritten => Config = Stored

LEMMA GreyedSave ==
  ASSUME grey_items, defconfig_filename' \in Files \cup {None}
  PROVE  "save" \in sensitive' => defconfig_filename' \in Files
<1>1. "save" \in sensitive' => Usable("save")'
  BY DEF grey_items, Items
<1> QED BY <1>1 DEF Usable

(* A handler that neither sets, walks, loads nor saves.                    *)
StaysStored ==
  /\ UNCHANGED <<logVars, changeVars, fileVars>>
  /\ sensitive' = sensitive \/ grey_items

LEMMA KeepsStored ==
  ASSUME StoredInv, StaysStored
  PROVE  StoredInv'
<1>1. UNCHANGED <<log, at, changed, walked, defconfig_filename, disk, unwritten>>
  BY DEF StaysStored, logVars, changeVars, fileVars
<1>2. "save" \in sensitive' => defconfig_filename' \in Files
  BY <1>1, GreyedSave DEF StaysStored, StoredInv
<1> QED BY <1>1, <1>2 DEF StoredInv, Config, Stored

(* Setting a value is a change.                                            *)
LEMMA SetsStored ==
  ASSUME StoredInv, NEW v \in Values, set_value(v)
  PROVE  StoredInv'
<1>1. /\ log' = Append(SubSeq(log, 1, at), v) /\ at' = at + 1 /\ changed'
      /\ UNCHANGED <<defconfig_filename, disk>> /\ grey_items
  BY DEF set_value, fileVars
<1>2. /\ SubSeq(log, 1, at) \in Seq(Values) /\ Len(SubSeq(log, 1, at)) = at /\ at \in Nat
  BY DEF StoredInv
<1>3. log' \in Seq(Values) /\ Len(log') = at + 1
  BY <1>1, <1>2
<1> QED BY <1>1, <1>2, <1>3, GreyedSave DEF StoredInv

LEMMA WalksStored ==
  ASSUME StoredInv, on_edit_undo_activate \/ on_edit_redo_activate
  PROVE  StoredInv'
<1>1. /\ at' \in 1..Len(log) /\ log' = log /\ walked'
      /\ UNCHANGED <<defconfig_filename, disk>> /\ grey_items
  BY DEF on_edit_undo_activate, on_edit_redo_activate, Walk, fileVars, StoredInv
<1> QED BY <1>1, GreyedSave DEF StoredInv

(* A load makes the configuration that of the file, or leaves the log      *)
(* empty, which is what the next load would leave too.                     *)
LEMMA LoadsStored ==
  ASSUME StoredInv, NEW f \in Files, on_load_ok_clicked(f)
  PROVE  StoredInv'
<1>1. defconfig_filename' = f /\ disk' = disk /\ Cleared \in Values /\ None \notin Files
  BY ValuesAssumption DEF on_load_ok_clicked
<1>2. CASE disk[f] = None
  <2>1. log' = <<Cleared>> /\ at' = 1 /\ sensitive' = sensitive
    BY <1>2 DEF on_load_ok_clicked
  <2>2. log' \in Seq(Values) /\ at' \in 1..Len(log') /\ Config' = Cleared
    BY <1>1, <2>1 DEF Config
  <2> QED BY <1>1, <1>2, <2>1, <2>2 DEF StoredInv, Stored
<1>3. CASE disk[f] # None
  <2>1. /\ log' = IF disk[f] = Cleared THEN <<Cleared>> ELSE <<Cleared, disk[f]>>
        /\ at' = Len(log') /\ grey_items
    BY <1>3 DEF on_load_ok_clicked
  <2>2. disk[f] \in Values
    BY <1>3 DEF StoredInv
  <2>3. log' \in Seq(Values) /\ at' \in 1..Len(log') /\ Config' = disk[f]
    <3>1. CASE disk[f] = Cleared BY <1>1, <2>1, <3>1 DEF Config
    <3>2. CASE disk[f] # Cleared
      <4>1. log' = <<Cleared, disk[f]>> BY <2>1, <3>2
      <4>2. log' \in Seq(Values) /\ Len(log') = 2 /\ log'[2] = disk[f]
        BY <1>1, <2>2, <4>1
      <4> QED BY <2>1, <4>2 DEF Config
    <3> QED BY <3>1, <3>2
  <2>4. Stored' = disk[f]
    BY <1>1, <1>3 DEF Stored
  <2> QED BY <1>1, <2>1, <2>3, <2>4, GreyedSave DEF StoredInv
<1> QED BY <1>2, <1>3

(* A save that does not fail makes the file hold the configuration.        *)
LEMMA SavesStored ==
  ASSUME StoredInv, NEW f \in Files, do_actual_save(f), defconfig_filename' = f
  PROVE  StoredInv'
<1>0. UNCHANGED <<log, at>> /\ grey_items
  BY DEF do_actual_save, logVars
<1>1. Config \in Values /\ Config' = Config /\ None \notin Files /\ None \notin Values
  BY <1>0, ValuesAssumption, ElementOfSeq DEF StoredInv, Config
<1>2. PICK held \in {Config, disk[f], None} :
        disk' = [disk EXCEPT ![f] = held] /\ unwritten' = (held # Config)
  BY DEF do_actual_save, cml_rulebase_save_defconfig
<1>3. held \in Values \cup {None}
  BY <1>1, <1>2 DEF StoredInv
<1>4. disk' \in [Files -> Values \cup {None}] /\ disk'[f] = held
  BY <1>2, <1>3 DEF StoredInv
<1>5. ~unwritten' => Config' = Stored'
  BY <1>1, <1>2, <1>4 DEF Stored
<1> QED BY <1>0, <1>4, <1>5, GreyedSave DEF StoredInv

LEMMA StaysStoredThere == StoredInv /\ [Next]_vars => StoredInv'
<1> SUFFICES ASSUME StoredInv, [Next]_vars PROVE StoredInv'
  OBVIOUS
<1>1. ASSUME NEW v \in Values,
         \/ on_tristate_toggle_toggled(v) \/ on_choice_combo_changed(v)
         \/ on_limited_int_combo_changed(v) \/ string_set(v) \/ integer_set(v) PROVE StoredInv'
  BY <1>1, SetsStored DEF on_tristate_toggle_toggled, on_choice_combo_changed,
       on_limited_int_combo_changed, string_set, integer_set
<1>2. CASE Crash
  BY <1>2, KeepsStored DEF Crash, StaysStored
<1>3. ASSUME NEW mn \in Menus, on_menu_button_clicked(mn) PROVE StoredInv'
  BY <1>3, KeepsStored DEF on_menu_button_clicked, StaysStored
<1>4. ASSUME NEW mn \in Menus, on_notebook_switch_page(mn) PROVE StoredInv'
  BY <1>4, KeepsStored DEF on_notebook_switch_page, StaysStored
<1>5. ASSUME NEW mn, Move(mn) PROVE StoredInv'
  BY <1>5, KeepsStored DEF Move, StaysStored
<1>6. CASE \/ on_view_rootmost_activate \/ on_view_up_activate
           \/ on_view_down_activate \/ on_view_leafmost_activate
  BY <1>2, <1>5, <1>6 DEF on_view_rootmost_activate, on_view_up_activate,
       on_view_down_activate, on_view_leafmost_activate
<1>7. CASE on_edit_undo_activate \/ on_edit_redo_activate
  BY <1>7, WalksStored
<1>8. ASSUME NEW f \in Files, on_load_ok_clicked(f) PROVE StoredInv'
  BY <1>8, LoadsStored
<1>9. CASE on_file_save_activate
  <2>1. defconfig_filename \in Files
    BY <1>9 DEF on_file_save_activate, StoredInv
  <2> QED BY <1>9, <2>1, SavesStored DEF on_file_save_activate
<1>10. ASSUME NEW f \in Files, on_save_as_ok_clicked(f) PROVE StoredInv'
  BY <1>10, SavesStored DEF on_save_as_ok_clicked
<1>11. CASE on_save_query_save_clicked
  <2>1. CASE defconfig_filename = None
    BY <1>11, <2>1, KeepsStored DEF on_save_query_save_clicked, do_save_as, Show, StaysStored
  <2>2. CASE defconfig_filename # None
    <3>1. defconfig_filename \in Files
      BY <2>2 DEF StoredInv
    <3> QED BY <1>11, <2>2, <3>1, SavesStored DEF on_save_query_save_clicked
  <2> QED BY <2>1, <2>2
<1>12. CASE \/ on_show_check_activate \/ on_file_load_activate \/ on_load_cancel_clicked
            \/ on_file_save_as_activate \/ on_save_as_cancel_clicked
  BY <1>12, KeepsStored DEF on_show_check_activate, on_file_load_activate, on_load_cancel_clicked,
       on_file_save_as_activate, on_save_as_cancel_clicked, do_save_as, Show, Hide, StaysStored
<1>13. CASE \/ file_exit_cb \/ on_save_query_exit_clicked \/ on_save_query_cancel_clicked
            \/ Return \/ UNCHANGED vars
  BY <1>13, KeepsStored DEF file_exit_cb, on_save_query_exit_clicked,
       on_save_query_cancel_clicked, Return, Show, Hide, vars, StaysStored
<1> QED BY <1>1, <1>3, <1>4, <1>6, <1>7, <1>8, <1>9, <1>10, <1>11, <1>12, <1>13 DEF Next

LEMMA StartsStored == Init => StoredInv
<1> SUFFICES ASSUME Init PROVE StoredInv
  OBVIOUS
<1> DEFINE loaded == IF defconfig_filename = None THEN None ELSE disk[defconfig_filename]
<1>1. /\ disk \in [Files -> Values \cup {None}] /\ defconfig_filename \in Files \cup {None}
      /\ log = IF loaded \in {None, Cleared} THEN <<Cleared>> ELSE <<Cleared, loaded>>
      /\ at = Len(log) /\ sensitive = {item \in Items : Usable(item)} /\ changed = FALSE
  BY DEF Init
<1>2. Cleared \in Values /\ None \notin Files /\ None \notin Values
  BY ValuesAssumption
<1>3. loaded \in Values \cup {None}
  BY <1>1
<1>4. "save" \notin sensitive
  BY <1>1 DEF Usable
<1>5. CASE loaded \in {None, Cleared}
  <2>1. log = <<Cleared>> /\ at = 1
    BY <1>1, <1>5
  <2>2. Config = Cleared /\ Stored = Cleared
    BY <1>5, <2>1 DEF Config, Stored
  <2>3. log \in Seq(Values) /\ at \in 1..Len(log)
    BY <1>2, <2>1
  <2> QED BY <1>1, <1>4, <2>2, <2>3 DEF StoredInv
<1>6. CASE loaded \notin {None, Cleared}
  <2>1. log = <<Cleared, loaded>> /\ at = 2 /\ Stored = loaded
    BY <1>1, <1>6 DEF Stored
  <2> HIDE DEF loaded
  <2>2. Config = loaded /\ log \in Seq(Values) /\ at \in 1..Len(log)
    BY <1>2, <1>3, <1>6, <2>1 DEF Config
  <2> QED BY <1>1, <1>4, <2>1, <2>2 DEF StoredInv
<1> QED BY <1>5, <1>6

(* The program does not end with a configuration that its file does not    *)
(* hold unless Exit was chosen in the query that says so: do_quit(),       *)
(* file_exit_cb(), do_actual_save() and on_load_ok_clicked(). An undo or   *)
(* redo, a save that failed and an exit that quit the loop of a Save As    *)
(* are the cases in which the code asks nothing.                           *)
THEOREM NothingLostUnasked == Spec => []AskedBeforeLoss
<1>1. LossInv /\ StoredInv => AskedBeforeLoss
  BY DEF LossInv, StoredInv, QuitUnchanged, AskedBeforeLoss
<1> QED BY <1>1, StartsAsked, StaysAsked, StartsStored, StaysStoredThere, PTL DEF Spec
=============================================================================
