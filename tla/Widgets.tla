-------------------------------- MODULE Widgets --------------------------------
(***************************************************************************)
(* The rows of a page of the gtk front end (gtk/node_gui.c) and the        *)
(* widgets in them: toggles (tristate.c), combo boxes (choice.c,           *)
(* limited_integer.c) and entries (string.c, integer.c).                   *)
(*                                                                         *)
(* A widget signals every change, those that the program makes included,   *)
(* and the callback sets the value of the node, which draws all rows of    *)
(* the page, which changes widgets. What happens inside a handler is a     *)
(* record h that goes from one call to the next; a handler is a step. Gtk  *)
(* has the pages, the history and the windows around the rows.             *)
(***************************************************************************)
EXTENDS Naturals, FiniteSets, SequencesExt

CONSTANTS
  Nodes,
  Start,        \* the node of the first page
  Description,  \* of each node: treetype, value_type, radio, children, enumdefs, range
  Guard,        \* the symbol that must be y for a node to be visible, or None
  Domain,       \* the values a node may be given
  Initial,      \* the values at the start
  Texts,        \* what may be typed into the entry of a node
  strtoul,      \* the number in a text
  MaxChanged    \* the bound on the nodes that differ from their initial value

None == "none"

ASSUME NodesAssumption == Start \in Nodes /\ None \notin Nodes
ASSUME DescriptionAssumption == \A n \in Nodes : Description[n].children \in Seq(Nodes)
ASSUME GuardAssumption == Guard \in [Nodes -> Nodes \cup {None}]
ASSUME TextsAssumption == DOMAIN Texts = Nodes
ASSUME InitialAssumption == DOMAIN Initial = Nodes /\ \A n \in Nodes : Initial[n] \in Domain[n]
ASSUME ChangesAssumption == MaxChanged \in Nat

VARIABLES
  value,            \* the configuration of the rulebase
  built,            \* the nodes that have a row
  visible,          \* those whose row is shown on its page
  shown,            \* the active toggles, the selected item, the text of the entry
  typed,            \* the entries whose text has not been looked at
  current,          \* the current page
  show_suppressed,  \* chosen in the View menu
  creating,         \* callbacks are suppressed
  astray            \* whether the last handler set other values than the user asked
                    \* for by it

row_vars == <<value, built, visible, shown, typed, current, show_suppressed, creating, astray>>

-----------------------------------------------------------------------------
(* What kind of row a node has.                                            *)

LIMITED_MAX == 32

Enumerated(n) == Description[n].enumdefs # {}

is_limited(n) ==
  \/ Enumerated(n)
  \/ Description[n].range # {} /\ Cardinality(Description[n].range) < LIMITED_MAX

Children(n) == Description[n].children

node_gui_classify(n) ==
  LET d == Description[n]
  IN  CASE d.treetype = "symbol" /\ d.value_type \in {"boolean", "tristate", "string"} -> d.value_type
        [] d.treetype = "symbol" /\ d.value_type \in {"decimal", "hexadecimal"} ->
             IF is_limited(n) THEN "limited" ELSE "integer"
        [] d.treetype = "menu" /\ Children(n) = <<>> -> "banner"
        [] d.treetype = "menu" /\ Children(n) # <<>> ->
             IF d.radio THEN "choice" ELSE "menu"
        [] OTHER -> "unknown"

ops == [n \in Nodes |-> node_gui_classify(n)]

OfKind(kinds) == {n \in Nodes : ops[n] \in kinds}

Toggled == OfKind({"boolean", "tristate"})
Combos  == OfKind({"choice", "limited"})
Entries == OfKind({"string", "integer"})

(* boolean_build_value, tristate_build_value.                              *)
Toggles(n) == IF ops[n] = "boolean" THEN {"n", "y"} ELSE {"n", "y", "m"}

(* The items of a combo box: the children, the enumeration, or the range.  *)
Items(n) ==
  IF ops[n] = "choice" THEN ToSet(Children(n))
  ELSE IF Enumerated(n) THEN Description[n].enumdefs ELSE Description[n].range

HasValueWidget(n) == ops[n] \notin {"banner", "menu"}

-----------------------------------------------------------------------------
(* Visibility.                                                             *)

(* The visibility expression is that of one symbol; Configfile has those   *)
(* of other forms and what a node depends on.                              *)
cml_node_is_visible(h, n) == Guard[n] # None => h.value[Guard[n]] = "y"

node_has_visible_children(h, n) == \E c \in ToSet(Children(n)) : cml_node_is_visible(h, c)

node_is_visible(h, n) ==
  /\ h.show_suppressed \/ cml_node_is_visible(h, n)
  /\ HasValueWidget(n) \/ node_has_visible_children(h, n)

-----------------------------------------------------------------------------
(* Signals. The last thing a callback does is to set the value: the page   *)
(* is drawn when it has returned (Redrawn). That a page would be drawn     *)
(* from inside the drawing of a page is what OnlyGesturesSet excludes.     *)

(* The rulebase takes the value, or refuses it: h.result.                  *)
set_value(h, n, v) == [h EXCEPT !.value = h.result, !.asked = Append(@, <<n, v>>)]

(* A toggle that is made inactive does nothing. The other toggles are      *)
(* meant to be made inactive, but it is the one that was pressed; its      *)
(* signal finds it inactive.                                               *)
on_tristate_toggle_toggled(h, n, v) ==
  IF h.creating \/ v \notin h.shown[n] THEN h
  ELSE set_value([h EXCEPT !.shown[n] = @ \ {v}], n, v)

(* gtk_toggle_button_set_active.                                           *)
set_active(h, n, v, active) ==
  IF (v \in h.shown[n]) = active THEN h
  ELSE on_tristate_toggle_toggled(
         [h EXCEPT !.shown[n] = IF active THEN @ \cup {v} ELSE @ \ {v}], n, v)

on_choice_combo_changed(h, n) ==
  IF h.creating THEN h ELSE set_value(h, n, CHOOSE item \in h.shown[n] : TRUE)

on_limited_int_combo_changed(h, n) ==
  IF h.creating THEN h ELSE set_value(h, n, CHOOSE item \in h.shown[n] : TRUE)

(* gtk_list_select_child.                                                  *)
select_child(h, n, item) ==
  LET selected == [h EXCEPT !.shown[n] = {item}]
  IN  IF h.shown[n] = {item} THEN h
      ELSE IF ops[n] = "choice" THEN on_choice_combo_changed(selected, n)
      ELSE on_limited_int_combo_changed(selected, n)

-----------------------------------------------------------------------------
(* Drawing.                                                                *)

update_toggle(h, n, v) == set_active(h, n, v, v = h.value[n])

tristate_update_value(h, n) ==
  LET binary == update_toggle(update_toggle(h, n, "n"), n, "y")
  IN  IF "m" \in Toggles(n) THEN update_toggle(binary, n, "m") ELSE binary

(* choice_update_value and limited_int_update_value: a value that is not   *)
(* an item leaves the selection as it is.                                  *)
combo_update_value(h, n) ==
  IF h.value[n] \in Items(n) THEN select_child(h, n, h.value[n]) ELSE h

(* string_update_value and integer_update_value: whatever was typed.       *)
entry_update_value(h, n) == [h EXCEPT !.shown[n] = {h.value[n]}, !.typed = @ \ {n}]

update_value(h, n) ==
  CASE n \in Toggled -> tristate_update_value(h, n)
    [] n \in Combos   -> combo_update_value(h, n)
    [] n \in Entries   -> entry_update_value(h, n)
    [] OTHER -> h

(* Mutant: callbacks are not suppressed while a row is drawn.              *)
node_gui_update_signalling(h, n) ==
  IF ~node_is_visible(h, n) THEN [h EXCEPT !.visible = @ \ {n}]
  ELSE update_value([h EXCEPT !.visible = @ \cup {n}], n)

node_gui_update(h, n) ==
  IF ~node_is_visible(h, n) THEN [h EXCEPT !.visible = @ \ {n}]
  ELSE [update_value([h EXCEPT !.visible = @ \cup {n}, !.creating = TRUE], n)
          EXCEPT !.creating = FALSE]

(* A new toggle is not active; the other widgets have the value.           *)
node_gui_build(h, n) ==
  LET built_h == [h EXCEPT !.built = @ \cup {n}, !.creating = FALSE]
  IN  IF n \in OfKind({"choice", "string", "integer"})
      THEN [built_h EXCEPT !.shown[n] = {h.value[n]}]
      ELSE built_h

update_row(h, n) == node_gui_update(IF n \in h.built THEN h ELSE node_gui_build(h, n), n)

(* The rows one after the other.                                           *)
page_gui_update(h, page) ==
  LET rows == Children(page)
      drawn[i \in 0..Len(rows)] == IF i = 0 THEN h ELSE update_row(drawn[i - 1], rows[i])
  IN  drawn[Len(rows)]

(* Mutant: only the row whose value was set is drawn.                      *)
RedrawnOwnRow(h) ==
  IF h.asked = <<>> THEN h ELSE node_gui_update(h, Head(h.asked)[1])

(* The other half of set_value().                                          *)
Redrawn(h) == IF h.asked = <<>> THEN h ELSE page_gui_update(h, h.current)

-----------------------------------------------------------------------------
(* Handlers.                                                               *)

Before ==
  [value |-> value, built |-> built, visible |-> visible, shown |-> shown, typed |-> typed,
   current |-> current, show_suppressed |-> show_suppressed, creating |-> creating,
   asked |-> <<>>, result |-> value]

Done(h, wanted) ==
  /\ value' = h.value /\ built' = h.built /\ visible' = h.visible /\ shown' = h.shown
  /\ typed' = h.typed /\ current' = h.current /\ show_suppressed' = h.show_suppressed
  /\ creating' = h.creating
  /\ astray' = (ToSet(h.asked) # ToSet(wanted))

OnScreen == visible \cap ToSet(Children(current))

(* The nodes that have more than one value.                                *)
Settable == {n \in Nodes : Domain[n] # {Initial[n]}}

(* What may come of asking for v: nothing, or v and one other node that    *)
(* has to follow.                                                          *)
Outcomes(n, v) ==
  LET taken == [value EXCEPT ![n] = v]
      following == UNION {{[taken EXCEPT ![m] = w] : w \in Domain[m]} : m \in Settable \ {n}}
  IN  {value} \cup
      {r \in {taken} \cup following :
         v \in Domain[n] /\ Cardinality({m \in Settable : r[m] # Initial[m]}) <= MaxChanged}

Press(n, v) ==
  /\ n \in OnScreen \cap Toggled
  /\ v \in Toggles(n)
  /\ \E result \in Outcomes(n, v) :
       Done(Redrawn(set_active([Before EXCEPT !.result = result], n, v, v \notin shown[n])),
            IF v \in shown[n] THEN <<>> ELSE << <<n, v>> >>)

Pick(n, item) ==
  /\ n \in OnScreen \cap Combos
  /\ item \in Items(n) \ shown[n]
  /\ \E result \in Outcomes(n, item) :
       Done(Redrawn(select_child([Before EXCEPT !.result = result], n, item)), << <<n, item>> >>)

(* Nothing is connected to the change of an entry.                         *)
Type(n, t) ==
  /\ n \in OnScreen \cap Entries
  /\ t \in Texts[n]
  /\ Done([Before EXCEPT !.shown[n] = {t}, !.typed = @ \cup {n}], <<>>)

Text(n) == CHOOSE t \in shown[n] : TRUE

(* An entry has been activated, or has lost the focus.                     *)
string_set(n) ==
  /\ n \in OnScreen \cap OfKind({"string"})
  /\ LET new == Text(n)
     IN  IF new = value[n] THEN Done([Before EXCEPT !.typed = @ \ {n}], <<>>)
         ELSE \E result \in Outcomes(n, new) :
                Done(Redrawn(set_value([Before EXCEPT !.result = result], n, new)),
                     << <<n, new>> >>)

integer_set(n) ==
  /\ n \in OnScreen \cap OfKind({"integer"})
  /\ LET new == strtoul[Text(n)]
     IN  IF new = value[n] THEN Done(entry_update_value(Before, n), <<>>)
         ELSE \E result \in Outcomes(n, new) :
                Done(entry_update_value(
                       Redrawn(set_value([Before EXCEPT !.result = result], n, new)), n),
                     << <<n, new>> >>)

(* Undo, redo and loading: other values, and the page is drawn. A call     *)
(* that is undone has changed what a call changes.                         *)
Walk ==
  \E result \in UNION {UNION {Outcomes(n, v) : v \in Domain[n]} : n \in Settable} :
    Done(page_gui_update([Before EXCEPT !.value = result], current), <<>>)

on_show_suppressed_check_activate ==
  /\ ~creating
  /\ Done(page_gui_update([Before EXCEPT !.show_suppressed = ~@], current), <<>>)

(* page_gui_push of the node of a row; its page becomes the current one.   *)
on_menu_button_clicked(n) ==
  /\ ~creating
  /\ n \in OnScreen \cap OfKind({"menu"})
  /\ node_has_visible_children(Before, n)
  /\ Done([page_gui_update(Before, n) EXCEPT !.current = n, !.creating = FALSE], <<>>)

(* The tab of a page that has been built.                                  *)
on_notebook_switch_page(page) ==
  /\ page # current
  /\ page \in OfKind({"menu"})
  /\ ToSet(Children(page)) \subseteq built
  /\ LET turned == [Before EXCEPT !.current = page]
     IN  Done(IF creating THEN turned ELSE page_gui_update(turned, page), <<>>)

-----------------------------------------------------------------------------
(* The first page has been pushed.                                         *)
RowsInit ==
  LET blank == [value |-> Initial, built |-> {}, visible |-> {},
                shown |-> [n \in Nodes |-> {}], typed |-> {},
                current |-> Start, show_suppressed |-> FALSE, creating |-> FALSE,
                asked |-> <<>>, result |-> Initial]
      h == page_gui_update(blank, Start)
  IN  /\ value = h.value /\ built = h.built /\ visible = h.visible /\ shown = h.shown
      /\ typed = h.typed /\ current = h.current /\ show_suppressed = h.show_suppressed
      /\ creating = FALSE /\ astray = FALSE

RowsNext ==
  \/ \E n \in Nodes, v \in {"y", "m", "n"} : Press(n, v)
  \/ \E n \in Nodes : \E item \in Domain[n] : Pick(n, item)
  \/ \E n \in Nodes : \E t \in Texts[n] : Type(n, t)
  \/ \E n \in Nodes : string_set(n) \/ integer_set(n) \/ on_menu_button_clicked(n)
                      \/ on_notebook_switch_page(n)
  \/ Walk
  \/ on_show_suppressed_check_activate

RowsSpec == RowsInit /\ [][RowsNext]_row_vars

-----------------------------------------------------------------------------
(* Properties.                                                             *)

(* What is on the screen is what the rulebase holds, after every handler,  *)
(* whatever rules bound besides and whichever page was changed meanwhile:  *)
(* the rows are those of the nodes that are visible; no toggle is active   *)
(* but that of the value (none is when the active one was pressed), a      *)
(* combo box has the value selected, if the value is one of its items, and *)
(* an entry shows it until something is typed (node_gui.c node_gui_update, *)
(* the update_value functions).                                            *)
RowsShowValues ==
  /\ OnScreen = {n \in ToSet(Children(current)) : node_is_visible(Before, n)}
  /\ \A n \in OnScreen :
       /\ n \in Toggled => shown[n] \subseteq {value[n]}
       /\ n \in Combos /\ value[n] \in Items(n) => shown[n] = {value[n]}
       /\ n \in Entries \ typed => shown[n] = {value[n]}

(* A handler sets what the user asked for by it, and nothing else:         *)
(* the signals of the widgets that it draws, and of those that it changes  *)
(* in passing, set nothing, and an entry that only loses the focus does    *)
(* not either, so that undo goes back by what the user has done (creating  *)
(* in node_gui.c and page_gui.c).                                          *)
OnlyGesturesSet == ~astray
===============================================================================
