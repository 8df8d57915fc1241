----------------------------- MODULE WidgetsProofs -----------------------------
(***************************************************************************)
(* What is on a page of the gtk front end, for every tree of nodes, every  *)
(* guard and every value: the rows show what the rulebase holds, and no    *)
(* signal that comes of drawing sets a value.                              *)
(***************************************************************************)
EXTENDS Widgets, WellFoundedInduction, TLAPS

-----------------------------------------------------------------------------
(* What a handler has in its hands.                                        *)

HandlerFields ==
  {"value", "built", "visible", "shown", "typed", "current", "show_suppressed", "creating",
   "asked", "result"}

(* No toggle is active that the row does not have, and what has been typed *)
(* is one text, in an entry.                                               *)
RowsSound(shown_h, typed_h) ==
  /\ \A n \in Toggled : shown_h[n] \subseteq Toggles(n)
  /\ \A n \in typed_h : n \in Entries /\ \E t : shown_h[n] = {t}

WellFormed(h) ==
  /\ h = [f \in HandlerFields |-> h[f]]
  /\ h.shown = [n \in Nodes |-> h.shown[n]]
  /\ h.current \in Nodes
  /\ RowsSound(h.shown, h.typed)

(* What drawing leaves alone.                                              *)
Like(h, g) ==
  /\ g.value = h.value /\ g.current = h.current /\ g.show_suppressed = h.show_suppressed
  /\ g.asked = h.asked /\ g.result = h.result

SameRow(h, g, n) ==
  /\ n \in g.visible <=> n \in h.visible
  /\ g.shown[n] = h.shown[n]
  /\ n \in g.typed <=> n \in h.typed

RowRight(h, n) ==
  /\ n \in Toggled => h.shown[n] \subseteq {h.value[n]}
  /\ n \in Combos /\ h.value[n] \in Items(n) => h.shown[n] = {h.value[n]}
  /\ n \in Entries /\ n \notin h.typed => h.shown[n] = {h.value[n]}

Shows(h, n) ==
  /\ n \in h.visible <=> node_is_visible(h, n)
  /\ n \in h.visible => RowRight(h, n)

(* A row has one kind.                                                     *)
LEMMA Kinds ==
  ASSUME NEW n \in Nodes
  PROVE  /\ n \in Toggled <=> ops[n] \in {"boolean", "tristate"}
         /\ n \in Combos  <=> ops[n] \in {"choice", "limited"}
         /\ n \in Entries <=> ops[n] \in {"string", "integer"}
         /\ n \in OfKind({"choice", "string", "integer"}) <=> ops[n] \in {"choice", "string", "integer"}
         /\ n \in Toggled => n \notin Combos /\ n \notin Entries
         /\ n \in Combos => n \notin Entries
BY DEF Toggled, Combos, Entries, OfKind

LEMMA RowsAreNodes == Toggled \subseteq Nodes /\ Combos \subseteq Nodes /\ Entries \subseteq Nodes
BY DEF Toggled, Combos, Entries, OfKind

LEMMA SeenAlike ==
  ASSUME NEW h, NEW g, Like(h, g), NEW n
  PROVE  node_is_visible(g, n) = node_is_visible(h, n)
BY DEF Like, node_is_visible, cml_node_is_visible, node_has_visible_children

LEMMA LikeIsTransitive ==
  ASSUME NEW f, NEW g, NEW h, Like(f, g), Like(g, h)
  PROVE  Like(f, h)
BY DEF Like

-----------------------------------------------------------------------------
(* Drawing one row: the signals find that callbacks are suppressed.        *)

(* One row has been changed, as little as may be.                          *)
Touched(h, g, n) ==
  /\ WellFormed(g) /\ Like(h, g) /\ g.creating = h.creating
  /\ \A m \in Nodes : m # n => SameRow(h, g, m)

LEMMA TouchedTwice ==
  ASSUME NEW f, NEW g, NEW h, NEW n, Touched(f, g, n), Touched(g, h, n)
  PROVE  Touched(f, h, n)
BY DEF Touched, Like, SameRow

(* It has been given a new content, as if typed or not.                    *)
Changed(h, g, n, content, typed_h) ==
  Touched(h, g, n) /\ g.shown[n] = content /\ g.visible = h.visible /\ g.typed = typed_h

Replaced(h, g, n, content, typed_h) ==
  /\ g = [f \in HandlerFields |-> g[f]]
  /\ g.shown = [h.shown EXCEPT ![n] = content] /\ g.typed = typed_h
  /\ \A f \in HandlerFields \ {"shown", "typed"} : g[f] = h[f]

LEMMA EntryReplaced ==
  ASSUME NEW h, WellFormed(h), NEW n, NEW content, NEW typed_h, NEW g,
         g = [h EXCEPT !.shown[n] = content, !.typed = typed_h]
  PROVE  Replaced(h, g, n, content, typed_h)
BY DEF WellFormed, HandlerFields, Replaced

LEMMA ContentReplaced ==
  ASSUME NEW h, WellFormed(h), NEW n, NEW content, NEW g, g = [h EXCEPT !.shown[n] = content]
  PROVE  Replaced(h, g, n, content, h.typed)
BY DEF WellFormed, HandlerFields, Replaced

LEMMA RowChanged ==
  ASSUME NEW h, WellFormed(h), NEW n \in Nodes, NEW content, NEW typed_h, NEW g,
         n \in Toggled => content \subseteq Toggles(n),
         n \in typed_h => n \in Entries /\ \E t : content = {t},
         typed_h \subseteq h.typed \cup {n}, h.typed \subseteq typed_h \cup {n},
         Replaced(h, g, n, content, typed_h)
  PROVE  Changed(h, g, n, content, typed_h)
<1>1. /\ g = [f \in HandlerFields |-> g[f]]
      /\ g.shown = [h.shown EXCEPT ![n] = content] /\ g.typed = typed_h
      /\ \A f \in HandlerFields \ {"shown", "typed"} : g[f] = h[f]
  BY DEF Replaced
<1>2. /\ g.value = h.value /\ g.visible = h.visible /\ g.current = h.current
      /\ g.show_suppressed = h.show_suppressed /\ g.creating = h.creating
      /\ g.asked = h.asked /\ g.result = h.result
  BY <1>1 DEF HandlerFields
<1>3. /\ g.shown = [m \in Nodes |-> g.shown[m]] /\ g.shown[n] = content
      /\ \A m \in Nodes : m # n => g.shown[m] = h.shown[m]
  BY <1>1 DEF WellFormed
<1>4. RowsSound(g.shown, g.typed)
  <2>1. ASSUME NEW m \in Toggled
        PROVE  g.shown[m] \subseteq Toggles(m)
    <3>1. CASE m = n
      BY <1>3, <3>1
    <3>2. CASE m # n
      BY <1>3, <3>2, RowsAreNodes DEF WellFormed, RowsSound
    <3>3. QED
      BY <3>1, <3>2
  <2>2. ASSUME NEW m \in g.typed
        PROVE  m \in Entries /\ \E t : g.shown[m] = {t}
    <3>1. CASE m = n
      BY <1>1, <1>3, <2>2, <3>1
    <3>2. CASE m # n
      <4>1. m \in h.typed
        BY <1>1, <2>2, <3>2
      <4>2. m \in Entries /\ \E t : h.shown[m] = {t}
        BY <4>1 DEF WellFormed, RowsSound
      <4>3. QED
        BY <1>3, <3>2, <4>2, RowsAreNodes
    <3>3. QED
      BY <3>1, <3>2
  <2>3. QED
    BY <2>1, <2>2 DEF RowsSound
<1>5. WellFormed(g)
  BY <1>1, <1>2, <1>3, <1>4 DEF WellFormed
<1>6. \A m \in Nodes : m # n => SameRow(h, g, m)
  BY <1>1, <1>2, <1>3 DEF SameRow
<1>7. Touched(h, g, n)
  BY <1>2, <1>5, <1>6 DEF Touched, Like
<1>8. QED
  BY <1>1, <1>2, <1>3, <1>7 DEF Changed

(* The same, of a row of which nothing is known to have been typed.        *)
LEMMA ContentChanged ==
  ASSUME NEW h, WellFormed(h), NEW n \in Nodes, NEW content, NEW g,
         n \in Toggled => content \subseteq Toggles(n),
         n \notin Entries,
         g = [h EXCEPT !.shown[n] = content]
  PROVE  Changed(h, g, n, content, h.typed)
<1>1. Replaced(h, g, n, content, h.typed)
  BY ContentReplaced
<1>2. n \notin h.typed
  BY DEF WellFormed, RowsSound
<1>3. h.typed \subseteq h.typed \cup {n}
  OBVIOUS
<1>4. QED
  BY <1>1, <1>2, <1>3, RowChanged

LEMMA Untouched ==
  ASSUME NEW h, WellFormed(h), NEW n
  PROVE  Touched(h, h, n)
BY DEF Touched, Like, SameRow

(* A toggle that is made active or inactive while the row is drawn: the    *)
(* others stay.                                                            *)
ToggleRight(h, g, n, v) ==
  /\ Touched(h, g, n) /\ g.visible = h.visible /\ g.typed = h.typed
  /\ v \in g.shown[n] <=> v = h.value[n]
  /\ \A u : u # v => (u \in g.shown[n] <=> u \in h.shown[n])

LEMMA ToggleUpdated ==
  ASSUME NEW h, WellFormed(h), h.creating = TRUE, NEW n \in Toggled, NEW v \in Toggles(n),
         NEW k, k = update_toggle(h, n, v)
  PROVE  ToggleRight(h, k, n, v)
<1> DEFINE active == (v = h.value[n])
           content == IF active THEN h.shown[n] \cup {v} ELSE h.shown[n] \ {v}
           g == [h EXCEPT !.shown[n] = content]
<1>1. n \in Nodes /\ n \notin Entries
  BY RowsAreNodes, Kinds
<1>2. content \subseteq Toggles(n)
  BY DEF WellFormed, RowsSound
<1>3. Touched(h, g, n) /\ g.shown[n] = content /\ g.visible = h.visible /\ g.typed = h.typed
  <2> HIDE DEF content
  <2>1. QED
    <3>1. Changed(h, g, n, content, h.typed)
      <4> HIDE DEF g
      <4>1. g = [h EXCEPT !.shown[n] = content]
        BY DEF g
      <4>2. QED
        BY <1>1, <1>2, <4>1, ContentChanged
    <3> HIDE DEF g
    <3>2. QED
      BY <3>1 DEF Changed
<1> HIDE DEF content
<1>4. g = [h EXCEPT !.shown[n] = IF active THEN @ \cup {v} ELSE @ \ {v}]
  BY <1>1 DEF content, WellFormed, HandlerFields
<1>5. g.creating = TRUE
  BY <1>3 DEF Touched
<1> HIDE DEF g
<1>6. CASE (v \in h.shown[n]) = active
  <2>1. k = h
    BY <1>6 DEF update_toggle, set_active
  <2>2. Touched(h, h, n)
    BY Untouched
  <2>3. QED
    BY <1>6, <2>1, <2>2 DEF ToggleRight
<1>7. CASE (v \in h.shown[n]) # active
  <2>1. update_toggle(h, n, v) = on_tristate_toggle_toggled(g, n, v)
    BY <1>4, <1>7 DEF update_toggle, set_active
  <2>2. k = g
    BY <1>5, <2>1 DEF on_tristate_toggle_toggled
  <2>3. QED
    BY <1>3, <2>2 DEF content, ToggleRight
<1>8. QED
  BY <1>6, <1>7

LEMMA ToggleNames ==
  ASSUME NEW n
  PROVE  /\ "n" \in Toggles(n) /\ "y" \in Toggles(n)
         /\ Toggles(n) \subseteq {"n", "y", "m"}
BY DEF Toggles

(* The toggles of a row: that of the value is active, if there is one.     *)
LEMMA TogglesUpdated ==
  ASSUME NEW h, WellFormed(h), h.creating = TRUE, NEW n \in Toggled
  PROVE  LET g == tristate_update_value(h, n)
         IN  /\ Touched(h, g, n) /\ g.visible = h.visible /\ g.typed = h.typed
             /\ g.shown[n] \subseteq {h.value[n]}
<1> DEFINE f == update_toggle(h, n, "n")
           g == update_toggle(f, n, "y")
           e == update_toggle(g, n, "m")
<1>1. /\ Touched(h, f, n) /\ f.visible = h.visible /\ f.typed = h.typed
      /\ "n" \in f.shown[n] <=> "n" = h.value[n]
  <2>1. "n" \in Toggles(n)
    BY ToggleNames
  <2> HIDE DEF f
  <2>2. f = update_toggle(h, n, "n")
    BY DEF f
  <2>3. ToggleRight(h, f, n, "n")
    BY <2>1, <2>2, ToggleUpdated
  <2>4. QED
    BY <2>1, <2>3 DEF ToggleRight
<1>2. WellFormed(f) /\ f.creating = TRUE /\ f.value = h.value
  BY <1>1 DEF Touched, Like
<1> HIDE DEF f
<1>3. /\ Touched(f, g, n) /\ g.visible = f.visible /\ g.typed = f.typed
      /\ "y" \in g.shown[n] <=> "y" = f.value[n]
      /\ "n" \in g.shown[n] <=> "n" \in f.shown[n]
  <2>1. "y" \in Toggles(n) /\ "n" # "y"
    BY ToggleNames
  <2> HIDE DEF g
  <2>2. g = update_toggle(f, n, "y")
    BY DEF g
  <2>3. ToggleRight(f, g, n, "y")
    BY <1>2, <2>1, <2>2, ToggleUpdated
  <2>4. QED
    BY <2>1, <2>3 DEF ToggleRight
<1>4. WellFormed(g) /\ g.creating = TRUE /\ g.value = h.value
  BY <1>2, <1>3 DEF Touched, Like
<1>5. Touched(h, g, n)
  BY <1>1, <1>3, TouchedTwice
<1> HIDE DEF g
<1>6. CASE "m" \in Toggles(n)
  <2>1. /\ Touched(g, e, n) /\ e.visible = g.visible /\ e.typed = g.typed
        /\ "m" \in e.shown[n] <=> "m" = g.value[n]
        /\ "n" \in e.shown[n] <=> "n" \in g.shown[n]
        /\ "y" \in e.shown[n] <=> "y" \in g.shown[n]
    <3> HIDE DEF e
    <3>1. e = update_toggle(g, n, "m") /\ "n" # "m" /\ "y" # "m"
      BY DEF e
    <3>2. ToggleRight(g, e, n, "m")
      BY <1>4, <1>6, <3>1, ToggleUpdated
    <3>3. QED
      BY <3>1, <3>2 DEF ToggleRight
  <2>2. Touched(h, e, n)
    BY <1>5, <2>1, TouchedTwice
  <2>3. e.shown[n] \subseteq {"n", "y", "m"}
    BY <2>1, ToggleNames DEF Touched, WellFormed, RowsSound
  <2>4. e.shown[n] \subseteq {h.value[n]}
    BY <1>1, <1>2, <1>3, <1>4, <2>1, <2>3
  <2>5. tristate_update_value(h, n) = e
    BY <1>6 DEF tristate_update_value, f, g
  <2> HIDE DEF e
  <2>6. QED
    BY <1>1, <1>3, <2>1, <2>2, <2>4, <2>5
<1>7. CASE "m" \notin Toggles(n)
  <2>1. g.shown[n] \subseteq Toggles(n)
    BY <1>4 DEF WellFormed, RowsSound
  <2>2. g.shown[n] \subseteq {h.value[n]}
    BY <1>1, <1>2, <1>3, <1>7, <2>1, ToggleNames
  <2>3. tristate_update_value(h, n) = g
    BY <1>7 DEF tristate_update_value, f, g
  <2>4. QED
    BY <1>1, <1>3, <1>5, <2>2, <2>3
<1>8. QED
  BY <1>6, <1>7

(* What drawing a visible row comes to, as far as its widgets go.          *)
RowUpdated(h, g, n) ==
  /\ Touched(h, g, n) /\ g.visible = h.visible
  /\ RowRight(g, n)

LEMMA ToggledUpdated ==
  ASSUME NEW h, WellFormed(h), h.creating = TRUE, NEW n \in Toggled
  PROVE  RowUpdated(h, update_value(h, n), n)
<1> DEFINE g == tristate_update_value(h, n)
<1>1. /\ Touched(h, g, n) /\ g.visible = h.visible /\ g.typed = h.typed
      /\ g.shown[n] \subseteq {h.value[n]}
  BY TogglesUpdated
<1>2. update_value(h, n) = g
  BY RowsAreNodes, Kinds DEF update_value
<1> HIDE DEF g
<1>3. g.value = h.value /\ n \notin Combos /\ n \notin Entries
  BY <1>1, RowsAreNodes, Kinds DEF Touched, Like
<1>4. RowRight(g, n)
  BY <1>1, <1>3 DEF RowRight
<1>5. QED
  BY <1>1, <1>2, <1>4 DEF RowUpdated

LEMMA ComboUpdated ==
  ASSUME NEW h, WellFormed(h), h.creating = TRUE, NEW n \in Combos
  PROVE  RowUpdated(h, update_value(h, n), n)
<1> DEFINE item == h.value[n]
           k == [h EXCEPT !.shown[n] = {item}]
<1>1. n \in Nodes /\ n \notin Toggled /\ n \notin Entries
  BY RowsAreNodes, Kinds
<1>2. update_value(h, n) = combo_update_value(h, n)
  BY <1>1 DEF update_value
<1>3. Changed(h, k, n, {item}, h.typed)
  <2> HIDE DEF k
  <2>1. k = [h EXCEPT !.shown[n] = {item}]
    BY DEF k
  <2> HIDE DEF item
  <2>2. QED
    BY <1>1, <2>1, ContentChanged
<1>4. k.creating = TRUE
  <2> HIDE DEF k
  <2>1. QED
    BY <1>3 DEF Changed, Touched
<1>5. CASE item \notin Items(n)
  <2>1. combo_update_value(h, n) = h
    BY <1>5 DEF combo_update_value
  <2>2. Touched(h, h, n) /\ RowRight(h, n)
    BY <1>1, <1>5, Untouched DEF RowRight
  <2>3. QED
    BY <1>2, <2>1, <2>2 DEF RowUpdated
<1>6. CASE item \in Items(n) /\ h.shown[n] = {item}
  <2>1. combo_update_value(h, n) = h
    BY <1>6 DEF combo_update_value, select_child
  <2>2. Touched(h, h, n) /\ RowRight(h, n)
    BY <1>1, <1>6, Untouched DEF RowRight
  <2>3. QED
    BY <1>2, <2>1, <2>2 DEF RowUpdated
<1>7. CASE item \in Items(n) /\ h.shown[n] # {item}
  <2> HIDE DEF k
  <2>1. select_child(h, n, item) = k
    <3>1. on_choice_combo_changed(k, n) = k /\ on_limited_int_combo_changed(k, n) = k
      BY <1>4 DEF on_choice_combo_changed, on_limited_int_combo_changed
    <3>2. k = [h EXCEPT !.shown[n] = {item}]
      BY DEF k
    <3>3. QED
      BY <1>7, <3>1, <3>2 DEF select_child
  <2>2. combo_update_value(h, n) = k
    BY <1>7, <2>1 DEF combo_update_value
  <2>3. Touched(h, k, n) /\ k.shown[n] = {item} /\ k.visible = h.visible
    BY <1>3 DEF Changed
  <2>4. k.value = h.value
    BY <2>3 DEF Touched, Like
  <2>5. RowRight(k, n)
    BY <1>1, <2>3, <2>4 DEF RowRight
  <2>6. QED
    BY <1>2, <2>2, <2>3, <2>5 DEF RowUpdated
<1>8. QED
  BY <1>5, <1>6, <1>7

LEMMA EntryChanged ==
  ASSUME NEW h, WellFormed(h), NEW n \in Entries
  PROVE  Changed(h, entry_update_value(h, n), n, {h.value[n]}, h.typed \ {n})
<1> DEFINE g == entry_update_value(h, n)
           content == {h.value[n]}
           typed_h == h.typed \ {n}
<1>1. n \in Nodes /\ n \notin Toggled
  BY RowsAreNodes, Kinds
<1>2. g = [h EXCEPT !.shown[n] = content, !.typed = typed_h]
  BY DEF entry_update_value, WellFormed, HandlerFields
<1>3. n \notin typed_h /\ typed_h \subseteq h.typed \cup {n} /\ h.typed \subseteq typed_h \cup {n}
  OBVIOUS
<1> HIDE DEF g, content, typed_h
<1>4. Replaced(h, g, n, content, typed_h)
  BY <1>2, EntryReplaced
<1>5. Changed(h, g, n, content, typed_h)
  BY <1>1, <1>3, <1>4, RowChanged
<1>6. QED
  BY <1>5 DEF g, content, typed_h

LEMMA EntryUpdated ==
  ASSUME NEW h, WellFormed(h), NEW n \in Entries
  PROVE  RowUpdated(h, entry_update_value(h, n), n) /\ n \notin entry_update_value(h, n).typed
<1> DEFINE g == entry_update_value(h, n)
<1>1. Changed(h, g, n, {h.value[n]}, h.typed \ {n})
  BY EntryChanged
<1> HIDE DEF g
<1>2. Touched(h, g, n) /\ g.shown[n] = {h.value[n]} /\ g.visible = h.visible /\ g.typed = h.typed \ {n}
  BY <1>1 DEF Changed
<1>3. g.value = h.value /\ n \notin Toggled /\ n \notin Combos
  BY <1>2, RowsAreNodes, Kinds DEF Touched, Like
<1>4. RowRight(g, n)
  BY <1>2, <1>3 DEF RowRight
<1>5. RowUpdated(h, g, n) /\ n \notin g.typed
  BY <1>2, <1>4 DEF RowUpdated
<1>6. QED
  BY <1>5 DEF g

LEMMA ValueUpdated ==
  ASSUME NEW h, WellFormed(h), h.creating = TRUE, NEW n \in Nodes
  PROVE  RowUpdated(h, update_value(h, n), n)
<1>1. CASE n \in Toggled
  BY <1>1, ToggledUpdated
<1>2. CASE n \in Combos
  BY <1>2, ComboUpdated
<1>3. CASE n \in Entries
  <2>1. update_value(h, n) = entry_update_value(h, n)
    BY <1>3, Kinds DEF update_value
  <2>2. QED
    BY <1>3, <2>1, EntryUpdated
<1>4. CASE n \notin Toggled /\ n \notin Combos /\ n \notin Entries
  <2>1. update_value(h, n) = h
    BY <1>4 DEF update_value
  <2>2. Touched(h, h, n) /\ RowRight(h, n)
    BY <1>4, Untouched DEF RowRight
  <2>3. QED
    BY <2>1, <2>2 DEF RowUpdated
<1>5. QED
  BY <1>1, <1>2, <1>3, <1>4

(* A row that is not visible is hidden, and the others are drawn.          *)
RowDrawn(h, g, n) ==
  Touched(h, g, n) /\ Shows(g, n)

(* The flags around the drawing of a row: its widgets are what they were.  *)
Flagged(h, g) ==
  /\ g = [f \in HandlerFields |-> g[f]]
  /\ Like(h, g) /\ g.shown = h.shown /\ g.typed = h.typed

LEMMA FlaggedIsWellFormed ==
  ASSUME NEW h, NEW g, WellFormed(h), Flagged(h, g)
  PROVE  WellFormed(g)
BY DEF WellFormed, Flagged, Like

LEMMA RowIsDrawn ==
  ASSUME NEW h, WellFormed(h), h.creating = FALSE, NEW n \in Nodes
  PROVE  RowDrawn(h, node_gui_update(h, n), n)
<1> DEFINE hidden == [h EXCEPT !.visible = @ \ {n}]
           begun == [h EXCEPT !.visible = @ \cup {n}, !.creating = TRUE]
           drawn == update_value(begun, n)
           ended == [drawn EXCEPT !.creating = FALSE]
<1>1. CASE ~node_is_visible(h, n)
  <2>1. Flagged(h, hidden) /\ hidden.creating = FALSE /\ hidden.visible = h.visible \ {n}
    BY DEF Flagged, Like, WellFormed, HandlerFields
  <2>2. node_gui_update(h, n) = hidden
    BY <1>1 DEF node_gui_update
  <2> HIDE DEF hidden
  <2>3. WellFormed(hidden)
    BY <2>1, FlaggedIsWellFormed
  <2>4. Touched(h, hidden, n)
    BY <2>1, <2>3 DEF Touched, Flagged, SameRow
  <2>5. ~node_is_visible(hidden, n)
    BY <1>1, <2>1, SeenAlike DEF Flagged
  <2>6. QED
    BY <2>1, <2>2, <2>4, <2>5 DEF RowDrawn, Shows
<1>2. CASE node_is_visible(h, n)
  <2>1. Flagged(h, begun) /\ begun.creating = TRUE /\ begun.visible = h.visible \cup {n}
    BY DEF Flagged, Like, WellFormed, HandlerFields
  <2>2. node_gui_update(h, n) = ended
    BY <1>2 DEF node_gui_update
  <2> HIDE DEF begun
  <2>3. WellFormed(begun)
    BY <2>1, FlaggedIsWellFormed
  <2>4. RowUpdated(begun, drawn, n)
    BY <2>1, <2>3, ValueUpdated
  <2> HIDE DEF drawn
  <2>5. /\ WellFormed(drawn) /\ Like(begun, drawn) /\ drawn.visible = begun.visible /\ RowRight(drawn, n)
        /\ \A m \in Nodes : m # n => SameRow(begun, drawn, m)
    BY <2>4 DEF RowUpdated, Touched
  <2>6. Flagged(drawn, ended) /\ ended.creating = FALSE /\ ended.visible = drawn.visible
    BY <2>5 DEF Flagged, Like, WellFormed, HandlerFields
  <2> HIDE DEF ended
  <2>7. WellFormed(ended)
    BY <2>5, <2>6, FlaggedIsWellFormed
  <2>8. Like(h, ended)
    BY <2>1, <2>5, <2>6, LikeIsTransitive DEF Flagged
  <2>9. \A m \in Nodes : m # n => SameRow(h, ended, m)
    BY <2>1, <2>5, <2>6 DEF SameRow, Flagged
  <2>10. Touched(h, ended, n)
    BY <2>6, <2>7, <2>8, <2>9 DEF Touched
  <2>11. RowRight(ended, n)
    BY <2>5, <2>6 DEF RowRight, Flagged, Like
  <2>12. n \in ended.visible /\ node_is_visible(ended, n)
    BY <1>2, <2>1, <2>5, <2>6, <2>8, SeenAlike
  <2>13. QED
    BY <2>2, <2>10, <2>11, <2>12 DEF RowDrawn, Shows
<1>3. QED
  BY <1>1, <1>2

(* A row that has just been built is what the value makes it, or empty.    *)
LEMMA RowIsBuilt ==
  ASSUME NEW h, WellFormed(h), h.creating = FALSE, NEW n \in Nodes
  PROVE  Touched(h, node_gui_build(h, n), n)
<1> DEFINE new == [h EXCEPT !.built = @ \cup {n}, !.creating = FALSE]
           content == {h.value[n]}
           filled == [new EXCEPT !.shown[n] = content]
<1>1. Flagged(h, new) /\ new.creating = FALSE /\ new.visible = h.visible
  BY DEF Flagged, Like, WellFormed, HandlerFields
<1>2. node_gui_build(h, n) = IF n \in OfKind({"choice", "string", "integer"}) THEN filled ELSE new
  BY DEF node_gui_build
<1> HIDE DEF new
<1>3. WellFormed(new)
  BY <1>1, FlaggedIsWellFormed
<1>4. Touched(h, new, n)
  BY <1>1, <1>3 DEF Touched, Flagged, SameRow
<1>5. CASE n \in OfKind({"choice", "string", "integer"})
  <2> HIDE DEF filled, content
  <2>1. Replaced(new, filled, n, content, new.typed)
    BY <1>3, ContentReplaced DEF filled
  <2>2. n \notin Toggled
    BY <1>5, Kinds
  <2>3. n \in new.typed => n \in Entries
    BY <1>3 DEF WellFormed, RowsSound
  <2>4. \E t : content = {t}
    BY DEF content
  <2>5. new.typed \subseteq new.typed \cup {n}
    OBVIOUS
  <2>6. Changed(new, filled, n, content, new.typed)
    BY <1>3, <2>1, <2>2, <2>3, <2>4, <2>5, RowChanged
  <2>7. Touched(new, filled, n)
    BY <2>6 DEF Changed
  <2>8. QED
    BY <1>2, <1>4, <1>5, <2>7, TouchedTwice
<1>6. CASE n \notin OfKind({"choice", "string", "integer"})
  BY <1>2, <1>4, <1>6
<1>7. QED
  BY <1>5, <1>6

LEMMA RowUpdates ==
  ASSUME NEW h, WellFormed(h), h.creating = FALSE, NEW n \in Nodes
  PROVE  RowDrawn(h, update_row(h, n), n)
<1>1. CASE n \in h.built
  BY <1>1, RowIsDrawn DEF update_row
<1>2. CASE n \notin h.built
  <2> DEFINE g == node_gui_build(h, n)
             e == node_gui_update(g, n)
  <2>1. Touched(h, g, n)
    BY RowIsBuilt
  <2>2. update_row(h, n) = e
    BY <1>2 DEF update_row
  <2> HIDE DEF g
  <2>3. WellFormed(g) /\ g.creating = FALSE
    BY <2>1 DEF Touched
  <2>4. RowDrawn(g, e, n)
    BY <2>3, RowIsDrawn
  <2> HIDE DEF e
  <2>5. Touched(g, e, n) /\ Shows(e, n)
    BY <2>4 DEF RowDrawn
  <2>6. Touched(h, e, n)
    BY <2>1, <2>5, TouchedTwice
  <2>7. QED
    BY <2>2, <2>5, <2>6 DEF RowDrawn
<1>3. QED
  BY <1>1, <1>2

-----------------------------------------------------------------------------
(* Drawing a page, row after row.                                          *)

(* Induction, of a set instead of a predicate: the provers cannot put an   *)
(* operator for the P(_) of NatInduction.                                  *)
LEMMA Induction ==
  ASSUME NEW S, 0 \in S, \A n \in Nat : n \in S => n + 1 \in S
  PROVE  \A n \in Nat : n \in S
<1> DEFINE R == OpToRel(<, Nat)
           T == {n \in Nat : n \notin S}
<1>1. IsWellFoundedOn(R, Nat)
  BY NatLessThanWellFounded
<1>2. \A x, y \in Nat : <<x, y>> \in R <=> x < y
  BY DEF OpToRel
<1> HIDE DEF R
<1>3. ASSUME T # {}
      PROVE  FALSE
  <2>1. T \subseteq Nat
    OBVIOUS
  <2> HIDE DEF T
  <2>2. PICK x \in T : \A y \in T : ~(<<y, x>> \in R)
    BY <1>1, <1>3, <2>1, WFMin
  <2>3. x \in Nat /\ x \notin S /\ x # 0
    BY DEF T
  <2>4. x - 1 \in Nat /\ x - 1 < x /\ (x - 1) + 1 = x
    BY <2>3
  <2>5. x - 1 \notin T
    BY <1>2, <2>2, <2>3, <2>4
  <2>6. x - 1 \in S
    BY <2>4, <2>5 DEF T
  <2>7. (x - 1) + 1 \in S
    BY <2>4, <2>6
  <2>8. QED
    BY <2>3, <2>4, <2>7
<1>4. QED
  BY <1>3

(* The function that page_gui_update picks goes through the rows.          *)
Drew(f, h, rows) ==
  /\ f[0] = h
  /\ \A k \in Nat : k + 1 <= Len(rows) => f[k + 1] = update_row(f[k], rows[k + 1])

Drawing(f, h, rows, n) ==
  f = [i \in 0..n |-> IF i = 0 THEN h ELSE update_row(f[i - 1], rows[i])]

LEMMA DrawingRuns ==
  ASSUME NEW h, NEW rows, NEW n \in Nat
  PROVE  \E f : Drawing(f, h, rows, n)
<1> DEFINE Is(f, k) == f = [i \in 0..k |-> IF i = 0 THEN h ELSE update_row(f[i - 1], rows[i])]
           S == {k \in Nat : \E f : Is(f, k)}
<1>1. 0 \in S
  <2>1. Is([i \in 0..0 |-> h], 0)
    OBVIOUS
  <2>2. QED
    BY <2>1
<1>2. ASSUME NEW k \in Nat, k \in S
      PROVE  k + 1 \in S
  <2>1. PICK f : Is(f, k)
    BY <1>2
  <2> DEFINE g == [i \in 0..(k + 1) |-> IF i = k + 1 THEN update_row(f[k], rows[k + 1]) ELSE f[i]]
  <2>2. \A i \in 0..k : f[i] = IF i = 0 THEN h ELSE update_row(f[i - 1], rows[i])
    BY <2>1
  <2>3. ASSUME NEW i \in 0..(k + 1)
        PROVE  g[i] = IF i = 0 THEN h ELSE update_row(g[i - 1], rows[i])
    <3>1. CASE i = k + 1
      <4>1. k \in 0..(k + 1) /\ k # k + 1 /\ i - 1 = k /\ i # 0
        BY <3>1
      <4>2. g[i - 1] = f[k]
        BY <4>1
      <4>3. QED
        BY <3>1, <4>1, <4>2
    <3>2. CASE i # k + 1
      <4>1. i \in 0..k
        BY <3>2
      <4>2. CASE i = 0
        BY <2>2, <3>2, <4>1, <4>2
      <4>3. CASE i # 0
        <5>1. i - 1 \in 0..(k + 1) /\ i - 1 # k + 1
          BY <4>1, <4>3
        <5>2. g[i - 1] = f[i - 1]
          BY <5>1
        <5>3. QED
          BY <2>2, <3>2, <4>1, <4>3, <5>2
      <4>4. QED
        BY <4>2, <4>3
    <3>3. QED
      BY <3>1, <3>2
  <2>4. Is(g, k + 1)
    BY <2>3
  <2> HIDE DEF g, Is
  <2>5. QED
    BY <2>4
<1>3. n \in S
  <2> HIDE DEF S
  <2> QED BY <1>1, <1>2, Induction
<1>4. PICK f : Is(f, n)
  BY <1>3
<1>5. Drawing(f, h, rows, n)
  BY <1>4 DEF Drawing
<1>6. QED
  BY <1>5

LEMMA PageGoesThroughRows ==
  ASSUME NEW h, NEW page \in Nodes
  PROVE  \E f : Drew(f, h, Children(page)) /\ page_gui_update(h, page) = f[Len(Children(page))]
<1> DEFINE rows == Children(page)
           n == Len(rows)
           Is(f) == f = [i \in 0..n |-> IF i = 0 THEN h ELSE update_row(f[i - 1], rows[i])]
<1>1. rows \in Seq(Nodes)
  BY DescriptionAssumption DEF Children
<1>2. page_gui_update(h, page) = (CHOOSE f : Is(f))[n]
  BY DEF page_gui_update
<1> HIDE DEF rows
<1>3. n \in Nat
  BY <1>1
<1>4. \E f : Is(f)
  <2> HIDE DEF n, Is
  <2>1. PICK f : Drawing(f, h, rows, n)
    BY <1>3, DrawingRuns
  <2>2. Is(f)
    BY <2>1 DEF Drawing, Is
  <2>3. QED
    BY <2>2
<1>5. Is(CHOOSE f : Is(f))
  BY <1>4
<1>6. ASSUME NEW f, Is(f)
      PROVE  Drew(f, h, rows)
  <2> HIDE DEF n
  <2>1. \A i \in 0..n : f[i] = IF i = 0 THEN h ELSE update_row(f[i - 1], rows[i])
    BY <1>6
  <2>2. f[0] = h
    <3>1. 0 \in 0..n
      BY <1>3
    <3>2. QED
      BY <2>1, <3>1
  <2>3. ASSUME NEW k \in Nat, k + 1 <= n
        PROVE  f[k + 1] = update_row(f[k], rows[k + 1])
    <3>1. k + 1 \in 0..n /\ k + 1 # 0 /\ (k + 1) - 1 = k
      BY <1>3, <2>3
    <3>2. f[k + 1] = update_row(f[(k + 1) - 1], rows[k + 1])
      BY <2>1, <3>1
    <3>3. QED
      BY <3>1, <3>2
  <2>4. QED
    BY <2>2, <2>3 DEF Drew, n
<1> HIDE DEF Is, n
<1>7. Drew(CHOOSE f : Is(f), h, rows)
  BY <1>5, <1>6
<1>8. \E f : Drew(f, h, rows) /\ page_gui_update(h, page) = f[n]
  BY <1>2, <1>7
<1>9. QED
  BY <1>8 DEF rows, n

(* What a page shows when it has been drawn: all of its rows are right,    *)
(* whatever other rows there are stay.                                     *)
PageDrawn(h, g, page) ==
  /\ WellFormed(g) /\ Like(h, g) /\ g.creating = FALSE
  /\ \A n \in ToSet(Children(page)) : Shows(g, n)

(* A row that has been drawn stays right while others are.                 *)
LEMMA ShownStays ==
  ASSUME NEW h, NEW g, NEW n \in Nodes, Shows(h, n), Like(h, g), SameRow(h, g, n)
  PROVE  Shows(g, n)
<1>1. node_is_visible(g, n) = node_is_visible(h, n)
  BY SeenAlike
<1>2. n \in g.visible <=> node_is_visible(g, n)
  BY <1>1 DEF Shows, SameRow
<1>3. ASSUME n \in g.visible
      PROVE  RowRight(g, n)
  <2>1. RowRight(h, n)
    BY <1>3 DEF Shows, SameRow
  <2>2. QED
    BY <2>1 DEF RowRight, SameRow, Like
<1>4. QED
  BY <1>2, <1>3 DEF Shows

LEMMA PageIsDrawn ==
  ASSUME NEW h, WellFormed(h), h.creating = FALSE, NEW page \in Nodes
  PROVE  PageDrawn(h, page_gui_update(h, page), page)
<1> DEFINE rows == Children(page)
<1>1. PICK f : Drew(f, h, Children(page)) /\ page_gui_update(h, page) = f[Len(Children(page))]
  BY PageGoesThroughRows
<1>2. rows \in Seq(Nodes)
  BY DescriptionAssumption DEF Children
<1>3. Drew(f, h, rows) /\ page_gui_update(h, page) = f[Len(rows)]
  BY <1>1
<1> HIDE DEF rows
<1> DEFINE Good(g, k) == /\ WellFormed(g) /\ Like(h, g) /\ g.creating = FALSE
                         /\ \A i \in 1..k : Shows(g, rows[i])
           S == {k \in Nat : k <= Len(rows) => Good(f[k], k)}
<1>4. 0 \in S
  <2>1. f[0] = h /\ Like(h, h)
    BY <1>3 DEF Drew, Like
  <2>2. QED
    BY <2>1
<1>5. ASSUME NEW k \in Nat, k \in S
      PROVE  k + 1 \in S
  <2>1. SUFFICES ASSUME k + 1 <= Len(rows)
                 PROVE  Good(f[k + 1], k + 1)
    <3> HIDE DEF Good
    <3>1. k + 1 \in Nat
      OBVIOUS
    <3>2. QED
      BY <3>1
  <2>2. Len(rows) \in Nat /\ k <= Len(rows) /\ k + 1 \in 1..Len(rows)
    BY <1>2, <2>1
  <2>3. /\ WellFormed(f[k]) /\ Like(h, f[k]) /\ f[k].creating = FALSE
        /\ \A i \in 1..k : Shows(f[k], rows[i])
    BY <1>5, <2>2
  <2> DEFINE n == rows[k + 1]
  <2>4. n \in Nodes
    BY <1>2, <2>2
  <2>5. f[k + 1] = update_row(f[k], n)
    BY <1>3, <2>1 DEF Drew
  <2> HIDE DEF n
  <2>6. RowDrawn(f[k], f[k + 1], n)
    BY <2>3, <2>4, <2>5, RowUpdates
  <2>7. /\ WellFormed(f[k + 1]) /\ Like(f[k], f[k + 1]) /\ f[k + 1].creating = FALSE
        /\ Shows(f[k + 1], n)
        /\ \A m \in Nodes : m # n => SameRow(f[k], f[k + 1], m)
    BY <2>3, <2>6 DEF RowDrawn, Touched
  <2>8. Like(h, f[k + 1])
    BY <2>3, <2>7, LikeIsTransitive
  <2>9. ASSUME NEW i \in 1..(k + 1)
        PROVE  Shows(f[k + 1], rows[i])
    <3>1. CASE rows[i] = n
      BY <2>7, <3>1
    <3>2. CASE rows[i] # n
      <4>1. i \in 1..k
        <5>1. i # k + 1
          BY <3>2 DEF n
        <5>2. QED
          BY <5>1
      <4>2. rows[i] \in Nodes
        BY <1>2, <2>2, <4>1
      <4>3. SameRow(f[k], f[k + 1], rows[i])
        BY <2>7, <3>2, <4>2
      <4>4. QED
        BY <2>3, <2>7, <4>1, <4>2, <4>3, ShownStays
    <3>3. QED
      BY <3>1, <3>2
  <2>10. QED
    BY <2>7, <2>8, <2>9
<1>6. Len(rows) \in S
  <2> HIDE DEF S
  <2>1. Len(rows) \in Nat
    BY <1>2
  <2>2. QED
    BY <1>4, <1>5, <2>1, Induction
<1>7. Good(f[Len(rows)], Len(rows))
  BY <1>2, <1>6
<1>8. ASSUME NEW n \in ToSet(rows)
      PROVE  \E i \in 1..Len(rows) : n = rows[i]
  BY <1>2 DEF ToSet
<1>9. PageDrawn(h, f[Len(rows)], page)
  BY <1>7, <1>8 DEF PageDrawn, rows
<1>10. QED
  BY <1>3, <1>9

-----------------------------------------------------------------------------
(* Between the handlers.                                                   *)

Rests(h) ==
  /\ WellFormed(h) /\ h.creating = FALSE
  /\ \A n \in ToSet(Children(h.current)) : Shows(h, n)

(* The inductive invariant: what rests are the variables.                  *)
WidgetsInv == Rests(Before) /\ astray = FALSE

LEMMA ChildrenAreNodes ==
  ASSUME NEW n \in Nodes
  PROVE  ToSet(Children(n)) \subseteq Nodes
<1>1. Children(n) \in Seq(Nodes)
  BY DescriptionAssumption DEF Children
<1> HIDE DEF Children
<1>2. QED
  BY <1>1 DEF ToSet

(* The invariant says more than the properties.                            *)
LEMMA InvariantShowsValues == WidgetsInv => RowsShowValues /\ OnlyGesturesSet
<1> SUFFICES ASSUME WidgetsInv
             PROVE  RowsShowValues /\ OnlyGesturesSet
  OBVIOUS
<1>1. /\ Before.current = current /\ Before.visible = visible /\ Before.shown = shown
      /\ Before.typed = typed /\ Before.value = value
  BY DEF Before
<1>2. \A n \in ToSet(Children(current)) : Shows(Before, n)
  BY <1>1 DEF WidgetsInv, Rests
<1> HIDE DEF Before
<1>3. OnScreen = {n \in ToSet(Children(current)) : node_is_visible(Before, n)}
  BY <1>1, <1>2 DEF OnScreen, Shows
<1>4. ASSUME NEW n \in OnScreen
      PROVE  /\ n \in Toggled => shown[n] \subseteq {value[n]}
             /\ n \in Combos /\ value[n] \in Items(n) => shown[n] = {value[n]}
             /\ n \in Entries \ typed => shown[n] = {value[n]}
  <2>1. RowRight(Before, n)
    BY <1>1, <1>2 DEF OnScreen, Shows
  <2>2. QED
    BY <1>1, <2>1 DEF RowRight
<1>5. QED
  BY <1>3, <1>4 DEF RowsShowValues, OnlyGesturesSet, WidgetsInv

(* What a handler leaves at rest is left to the next one.                  *)
LEMMA HandlerEnds ==
  ASSUME NEW h, NEW wanted, Rests(h), ToSet(h.asked) = ToSet(wanted), Done(h, wanted)
  PROVE  WidgetsInv'
<1> DEFINE g == Before'
<1>1. /\ g = [f \in HandlerFields |-> g[f]]
      /\ g.value = h.value /\ g.visible = h.visible /\ g.shown = h.shown /\ g.typed = h.typed
      /\ g.current = h.current /\ g.show_suppressed = h.show_suppressed /\ g.creating = h.creating
  BY DEF Before, HandlerFields, Done
<1> HIDE DEF g
<1>2. WellFormed(g) /\ g.creating = FALSE
  BY <1>1 DEF Rests, WellFormed
<1>3. ASSUME NEW n \in ToSet(Children(g.current))
      PROVE  Shows(g, n)
  <2>1. Shows(h, n)
    BY <1>1 DEF Rests
  <2>2. node_is_visible(g, n) = node_is_visible(h, n)
    BY <1>1 DEF node_is_visible, cml_node_is_visible, node_has_visible_children
  <2>3. RowRight(g, n) <=> RowRight(h, n)
    BY <1>1 DEF RowRight
  <2>4. QED
    BY <1>1, <2>1, <2>2, <2>3 DEF Shows
<1>4. Rests(g)
  BY <1>2, <1>3 DEF Rests
<1>5. astray' = FALSE
  BY DEF Done
<1>6. QED
  BY <1>4, <1>5 DEF WidgetsInv, g

(* Of a page that has been drawn, the rows are at rest.                    *)
LEMMA DrawnRests ==
  ASSUME NEW h, WellFormed(h), h.creating = FALSE
  PROVE  Rests(page_gui_update(h, h.current)) /\ Like(h, page_gui_update(h, h.current))
<1> DEFINE g == page_gui_update(h, h.current)
<1>1. h.current \in Nodes
  BY DEF WellFormed
<1>2. PageDrawn(h, g, h.current)
  BY <1>1, PageIsDrawn
<1> HIDE DEF g
<1>3. Rests(g) /\ Like(h, g)
  BY <1>2 DEF PageDrawn, Rests, Like
<1>4. QED
  BY <1>3 DEF g

(* A value is set and the page drawn: what was asked for is noted once.    *)
SetAndDrawn(h, g, n, v) ==
  Rests(g) /\ g.asked = << <<n, v>> >> /\ g.current = h.current

LEMMA ValueIsSet ==
  ASSUME NEW h, WellFormed(h), h.creating = FALSE, h.asked = <<>>, NEW n, NEW v
  PROVE  SetAndDrawn(h, Redrawn(set_value(h, n, v)), n, v)
<1> DEFINE k == set_value(h, n, v)
           g == page_gui_update(k, k.current)
<1>1. /\ k = [f \in HandlerFields |-> k[f]]
      /\ k.asked = Append(h.asked, <<n, v>>) /\ k.shown = h.shown /\ k.typed = h.typed
      /\ k.current = h.current /\ k.creating = FALSE
  BY DEF set_value, WellFormed, HandlerFields
<1> HIDE DEF k
<1>2. WellFormed(k)
  BY <1>1 DEF WellFormed
<1>3. Rests(g) /\ Like(k, g)
  BY <1>1, <1>2, DrawnRests
<1>4. k.asked = << <<n, v>> >> /\ k.asked # <<>>
  <2> DEFINE e == <<n, v>>
  <2> HIDE DEF e
  <2>1. Append(<<>>, e) = <<e>> /\ Len(<<e>>) = 1 /\ Len(<<>>) = 0
    <3>1. <<>> \in Seq({e}) /\ e \in {e}
      OBVIOUS
    <3>2. QED
      BY <3>1
  <2>2. k.asked = <<e>>
    BY <1>1, <2>1 DEF e
  <2>3. <<e>> # <<>>
    BY <2>1
  <2>4. QED
    BY <2>2, <2>3 DEF e
<1>5. Redrawn(k) = g
  BY <1>4 DEF Redrawn
<1> HIDE DEF g
<1>6. SetAndDrawn(h, g, n, v)
  BY <1>1, <1>3, <1>4 DEF SetAndDrawn, Like
<1>7. QED
  BY <1>5, <1>6 DEF k

(* A row of a page at rest is touched, and is right again.                 *)
LEMMA TouchedRests ==
  ASSUME NEW h, Rests(h), NEW n \in Nodes, NEW g, Touched(h, g, n), g.visible = h.visible,
         RowRight(h, n) => RowRight(g, n)
  PROVE  Rests(g) /\ g.asked = h.asked
<1>1. WellFormed(g) /\ Like(h, g) /\ g.creating = FALSE
  BY DEF Touched, Rests
<1>2. h.current \in Nodes /\ g.current = h.current /\ g.asked = h.asked
  BY <1>1 DEF Rests, WellFormed, Like
<1>3. ASSUME NEW m \in ToSet(Children(h.current))
      PROVE  Shows(g, m)
  <2>1. m \in Nodes /\ Shows(h, m)
    BY <1>2, ChildrenAreNodes DEF Rests
  <2>2. CASE m = n
    BY <1>1, <2>1, <2>2, SeenAlike DEF Shows
  <2>3. CASE m # n
    <3>1. SameRow(h, g, m)
      BY <2>1, <2>3 DEF Touched
    <3>2. QED
      BY <1>1, <2>1, <3>1, ShownStays
  <2>4. QED
    BY <2>2, <2>3
<1>4. QED
  BY <1>1, <1>2, <1>3 DEF Rests

(* What a handler starts with.                                             *)
Started(result) == [Before EXCEPT !.result = result]

LEMMA Starts ==
  ASSUME WidgetsInv, NEW result
  PROVE  LET h == Started(result)
         IN  /\ Rests(h) /\ h.asked = <<>> /\ h.creating = FALSE /\ WellFormed(h)
             /\ h.shown = shown /\ h.current = current /\ h.visible = visible /\ h.value = value
<1> DEFINE b == Before
           h == [b EXCEPT !.result = result]
<1>1. /\ b.asked = <<>> /\ b.shown = shown /\ b.current = current
      /\ b.visible = visible /\ b.value = value
  BY DEF Before
<1>2. Rests(b)
  BY DEF WidgetsInv
<1> HIDE DEF b
<1>3. WellFormed(b) /\ b.creating = FALSE
  BY <1>2 DEF Rests
<1>5. /\ h = [f \in HandlerFields |-> h[f]]
      /\ \A f \in HandlerFields \ {"result"} : h[f] = b[f]
  BY <1>3 DEF WellFormed, HandlerFields
<1> HIDE DEF h
<1>6. /\ h.value = b.value /\ h.visible = b.visible /\ h.shown = b.shown /\ h.typed = b.typed
      /\ h.current = b.current /\ h.show_suppressed = b.show_suppressed
      /\ h.creating = b.creating /\ h.asked = b.asked
  BY <1>5 DEF HandlerFields
<1>7. WellFormed(h)
  BY <1>3, <1>5, <1>6 DEF WellFormed
<1>8. ASSUME NEW n \in ToSet(Children(h.current))
      PROVE  Shows(h, n)
  <2>1. Shows(b, n)
    BY <1>2, <1>6 DEF Rests
  <2>2. node_is_visible(h, n) = node_is_visible(b, n)
    BY <1>6 DEF node_is_visible, cml_node_is_visible, node_has_visible_children
  <2>3. QED
    BY <1>6, <2>1, <2>2 DEF Shows, RowRight
<1>9. Rests(h)
  BY <1>3, <1>6, <1>7, <1>8 DEF Rests
<1>10. QED
  BY <1>1, <1>3, <1>6, <1>7, <1>9 DEF h, b, Started

-----------------------------------------------------------------------------
(* The handlers.                                                           *)

LEMMA OnScreenIsNode ==
  ASSUME WidgetsInv, NEW n \in OnScreen
  PROVE  n \in Nodes /\ RowRight(Before, n)
<1>1. current \in Nodes
  BY DEF WidgetsInv, Rests, WellFormed, Before
<1>2. n \in ToSet(Children(current)) /\ n \in visible
  BY DEF OnScreen
<1>3. Before.current = current /\ Before.visible = visible
  BY DEF Before
<1>4. Shows(Before, n)
  BY <1>2, <1>3 DEF WidgetsInv, Rests
<1>5. QED
  BY <1>1, <1>2, <1>3, <1>4, ChildrenAreNodes DEF Shows

(* A toggle that is released sets nothing; one that is pressed sets its    *)
(* value, once.                                                            *)
LEMMA PressRests ==
  ASSUME WidgetsInv, NEW n, NEW v, Press(n, v)
  PROVE  WidgetsInv'
<1>1. n \in Toggled /\ v \in Toggles(n) /\ n \in OnScreen
  BY DEF Press
<1>2. n \in Nodes /\ n \notin Entries /\ n \notin Combos
  BY <1>1, RowsAreNodes, Kinds
<1> DEFINE wanted == IF v \in shown[n] THEN <<>> ELSE << <<n, v>> >>
<1>3. PICK result :
        Done(Redrawn(set_active(Started(result), n, v, v \notin shown[n])), wanted)
  BY DEF Press, Started
<1> DEFINE h == Started(result)
           k == set_active(h, n, v, v \notin shown[n])
<1>4. /\ Rests(h) /\ h.asked = <<>> /\ h.creating = FALSE /\ WellFormed(h)
      /\ h.shown = shown /\ h.current = current
  BY Starts
<1> HIDE DEF h
<1>5. CASE v \in shown[n]
  <2> DEFINE content == h.shown[n] \ {v}
             g == [h EXCEPT !.shown[n] = content]
  <2>1. content \subseteq Toggles(n)
    BY <1>1, <1>4 DEF WellFormed, RowsSound
  <2>2. Changed(h, g, n, content, h.typed)
    <3> HIDE DEF content, g
    <3>1. g = [h EXCEPT !.shown[n] = content]
      BY DEF g
    <3>2. QED
      BY <1>2, <1>4, <2>1, <3>1, ContentChanged
  <2>3. g = [h EXCEPT !.shown[n] = IF v \notin shown[n] THEN @ \cup {v} ELSE @ \ {v}]
    BY <1>2, <1>4, <1>5 DEF WellFormed, HandlerFields
  <2> HIDE DEF g
  <2>4. Touched(h, g, n) /\ g.shown[n] = content /\ g.visible = h.visible
    BY <2>2 DEF Changed
  <2>5. k = g
    <3>1. (v \in h.shown[n]) # (v \notin shown[n])
      BY <1>4, <1>5
    <3>2. k = on_tristate_toggle_toggled(g, n, v)
      BY <2>3, <3>1 DEF set_active
    <3>3. v \notin g.shown[n]
      BY <2>4
    <3>4. QED
      BY <3>2, <3>3 DEF on_tristate_toggle_toggled
  <2>6. g.value = h.value
    BY <2>4 DEF Touched, Like
  <2>7. RowRight(h, n) => RowRight(g, n)
    BY <1>2, <2>4, <2>6 DEF RowRight
  <2>8. Rests(g) /\ g.asked = <<>>
    BY <1>2, <1>4, <2>4, <2>7, TouchedRests
  <2>9. Redrawn(k) = g
    BY <2>5, <2>8 DEF Redrawn
  <2>10. wanted = <<>>
    BY <1>5
  <2>11. Done(g, wanted)
    BY <1>3, <2>9 DEF h
  <2> HIDE DEF wanted
  <2>12. ToSet(g.asked) = ToSet(wanted)
    BY <2>8, <2>10
  <2>13. QED
    BY <2>8, <2>11, <2>12, HandlerEnds
<1>6. CASE v \notin shown[n]
  <2> DEFINE content == h.shown[n] \cup {v}
             g == [h EXCEPT !.shown[n] = content]
             less == g.shown[n] \ {v}
             e == [g EXCEPT !.shown[n] = less]
             d == Redrawn(set_value(e, n, v))
  <2>1. content \subseteq Toggles(n)
    BY <1>1, <1>4 DEF WellFormed, RowsSound
  <2>2. Changed(h, g, n, content, h.typed)
    <3> HIDE DEF content, g
    <3>1. g = [h EXCEPT !.shown[n] = content]
      BY DEF g
    <3>2. QED
      BY <1>2, <1>4, <2>1, <3>1, ContentChanged
  <2>3. g = [h EXCEPT !.shown[n] = IF v \notin shown[n] THEN @ \cup {v} ELSE @ \ {v}]
    BY <1>2, <1>4, <1>6 DEF WellFormed, HandlerFields
  <2> HIDE DEF g
  <2>4. WellFormed(g) /\ g.creating = FALSE /\ g.asked = <<>> /\ g.shown[n] = content
    BY <1>4, <2>2 DEF Changed, Touched, Like
  <2>5. less \subseteq Toggles(n)
    BY <2>1, <2>4
  <2>6. Changed(g, e, n, less, g.typed)
    <3> HIDE DEF less, e
    <3>1. e = [g EXCEPT !.shown[n] = less]
      BY DEF e
    <3>2. QED
      BY <1>2, <2>4, <2>5, <3>1, ContentChanged
  <2>7. e = [g EXCEPT !.shown[n] = @ \ {v}]
    BY <1>2, <2>4 DEF WellFormed, HandlerFields
  <2> HIDE DEF e
  <2>8. WellFormed(e) /\ e.creating = FALSE /\ e.asked = <<>>
    BY <2>4, <2>6 DEF Changed, Touched, Like
  <2>9. k = set_value(e, n, v)
    <3>1. (v \in h.shown[n]) # (v \notin shown[n])
      BY <1>4, <1>6
    <3>2. k = on_tristate_toggle_toggled(g, n, v)
      BY <2>3, <3>1 DEF set_active
    <3>3. v \in g.shown[n]
      BY <2>4
    <3>4. QED
      BY <2>4, <2>7, <3>2, <3>3 DEF on_tristate_toggle_toggled
  <2>10. SetAndDrawn(e, d, n, v)
    BY <2>8, ValueIsSet
  <2>11. Done(d, wanted)
    BY <1>3, <2>9 DEF h
  <2>12. wanted = << <<n, v>> >>
    BY <1>6
  <2> HIDE DEF wanted, d
  <2>13. Rests(d) /\ ToSet(d.asked) = ToSet(wanted)
    BY <2>10, <2>12 DEF SetAndDrawn
  <2>14. QED
    BY <2>11, <2>13, HandlerEnds
<1>7. QED
  BY <1>5, <1>6

(* An item is selected: it is the only one, and its value is set, once.    *)
LEMMA PickRests ==
  ASSUME WidgetsInv, NEW n, NEW item, Pick(n, item)
  PROVE  WidgetsInv'
<1>1. n \in Combos /\ item \notin shown[n]
  BY DEF Pick
<1>2. n \in Nodes /\ n \notin Entries /\ n \notin Toggled
  BY <1>1, RowsAreNodes, Kinds
<1> DEFINE wanted == << <<n, item>> >>
<1>3. PICK result : Done(Redrawn(select_child(Started(result), n, item)), wanted)
  BY DEF Pick, Started
<1> DEFINE h == Started(result)
<1>4. /\ Rests(h) /\ h.asked = <<>> /\ h.creating = FALSE /\ WellFormed(h)
      /\ h.shown = shown /\ h.current = current
  BY Starts
<1> HIDE DEF h, wanted
<1> DEFINE content == {item}
           g == [h EXCEPT !.shown[n] = content]
           d == Redrawn(set_value(g, n, item))
<1>5. Changed(h, g, n, content, h.typed)
  <2> HIDE DEF content, g
  <2>1. g = [h EXCEPT !.shown[n] = content]
    BY DEF g
  <2>2. QED
    BY <1>2, <1>4, <2>1, ContentChanged
<1>6. g = [h EXCEPT !.shown[n] = {item}]
  OBVIOUS
<1> HIDE DEF g
<1>7. WellFormed(g) /\ g.creating = FALSE /\ g.asked = <<>> /\ g.shown[n] = {item}
  BY <1>4, <1>5 DEF Changed, Touched, Like
<1>8. select_child(h, n, item) = set_value(g, n, item)
  <2>1. h.shown[n] # {item}
    BY <1>1, <1>4
  <2>2. (CHOOSE i \in g.shown[n] : TRUE) = item
    BY <1>7
  <2>3. /\ on_choice_combo_changed(g, n) = set_value(g, n, item)
        /\ on_limited_int_combo_changed(g, n) = set_value(g, n, item)
    BY <1>7, <2>2 DEF on_choice_combo_changed, on_limited_int_combo_changed
  <2>4. QED
    BY <1>6, <2>1, <2>3 DEF select_child
<1>9. SetAndDrawn(g, d, n, item)
  BY <1>7, ValueIsSet
<1>10. Done(d, wanted)
  BY <1>3, <1>8 DEF h
<1> HIDE DEF d
<1>11. Rests(d) /\ ToSet(d.asked) = ToSet(wanted)
  BY <1>9 DEF SetAndDrawn, wanted
<1>12. QED
  BY <1>10, <1>11, HandlerEnds

(* What is typed is in the entry, and nothing is set.                      *)
LEMMA TypeRests ==
  ASSUME WidgetsInv, NEW n, NEW t, Type(n, t)
  PROVE  WidgetsInv'
<1> DEFINE b == Before
           content == {t}
           typed_h == b.typed \cup {n}
           g == [b EXCEPT !.shown[n] = content, !.typed = typed_h]
           wanted == <<>>
<1>1. n \in Entries /\ n \in Nodes /\ n \notin Toggled /\ n \notin Combos
  BY RowsAreNodes, Kinds DEF Type
<1>2. Done(g, wanted)
  <2>1. Done([Before EXCEPT !.shown[n] = {t}, !.typed = @ \cup {n}], <<>>)
    BY DEF Type
  <2>2. g = [Before EXCEPT !.shown[n] = {t}, !.typed = @ \cup {n}]
    BY DEF Before
  <2>3. QED
    BY <2>1, <2>2
<1>3. Rests(b) /\ WellFormed(b) /\ b.asked = <<>>
  BY DEF WidgetsInv, Rests, Before
<1> HIDE DEF b
<1>4. typed_h \subseteq b.typed \cup {n} /\ b.typed \subseteq typed_h \cup {n} /\ n \in typed_h
  OBVIOUS
<1>5. \E u : content = {u}
  OBVIOUS
<1> HIDE DEF content, typed_h
<1>6. Replaced(b, g, n, content, typed_h)
  BY <1>3, EntryReplaced
<1> HIDE DEF g
<1>7. Changed(b, g, n, content, typed_h)
  BY <1>1, <1>3, <1>4, <1>5, <1>6, RowChanged
<1>8. Touched(b, g, n) /\ g.visible = b.visible /\ RowRight(g, n)
  BY <1>1, <1>4, <1>7 DEF Changed, RowRight
<1>9. Rests(g) /\ g.asked = <<>>
  BY <1>1, <1>3, <1>8, TouchedRests
<1> HIDE DEF wanted
<1>10. ToSet(g.asked) = ToSet(wanted)
  BY <1>9 DEF wanted
<1>11. QED
  BY <1>2, <1>9, <1>10, HandlerEnds

(* There is one text in an entry on the screen.                            *)
LEMMA EntryHasText ==
  ASSUME WidgetsInv, NEW n \in OnScreen, n \in Entries
  PROVE  shown[n] = {Text(n)} /\ n \in Nodes
<1>1. n \in Nodes /\ RowRight(Before, n)
  BY OnScreenIsNode
<1>2. Before.typed = typed /\ Before.shown = shown
  BY DEF Before
<1>3. \E t : shown[n] = {t}
  <2>1. CASE n \in typed
    BY <1>2, <2>1 DEF WidgetsInv, Rests, WellFormed, RowsSound
  <2>2. CASE n \notin typed
    BY <1>1, <1>2, <2>2 DEF RowRight
  <2>3. QED
    BY <2>1, <2>2
<1>4. QED
  BY <1>1, <1>3 DEF Text

(* An entry that only loses the focus sets nothing; it shows the value.    *)
LEMMA StringSetRests ==
  ASSUME WidgetsInv, NEW n, string_set(n)
  PROVE  WidgetsInv'
<1>1. n \in OnScreen /\ n \in OfKind({"string"})
  BY DEF string_set
<1>2. n \in Entries
  BY <1>1 DEF OfKind, Entries
<1>3. n \in Nodes /\ n \notin Toggled /\ n \notin Combos /\ shown[n] = {Text(n)}
  BY <1>1, <1>2, EntryHasText, Kinds
<1> DEFINE new == Text(n)
<1>4. CASE new = value[n]
  <2> DEFINE b == Before
             typed_h == b.typed \ {n}
             g == [b EXCEPT !.typed = typed_h]
             wanted == <<>>
  <2>1. Done(g, wanted)
    <3>1. Done([Before EXCEPT !.typed = @ \ {n}], <<>>)
      BY <1>4 DEF string_set
    <3>2. g = [Before EXCEPT !.typed = @ \ {n}]
      BY DEF Before
    <3>3. QED
      BY <3>1, <3>2
  <2>2. /\ Rests(b) /\ WellFormed(b) /\ b.asked = <<>>
        /\ b.shown[n] = {value[n]} /\ b.value = value
    BY <1>3, <1>4 DEF WidgetsInv, Rests, Before
  <2> HIDE DEF b
  <2>3. /\ g = [f \in HandlerFields |-> g[f]] /\ g.typed = b.typed \ {n}
        /\ \A f \in HandlerFields \ {"typed"} : g[f] = b[f]
    BY <2>2 DEF WellFormed, HandlerFields
  <2> HIDE DEF g
  <2>4. /\ g.value = b.value /\ g.visible = b.visible /\ g.shown = b.shown
        /\ g.current = b.current /\ g.show_suppressed = b.show_suppressed
        /\ g.creating = b.creating /\ g.asked = b.asked /\ g.result = b.result
    BY <2>3 DEF HandlerFields
  <2>5. WellFormed(g)
    <3>1. RowsSound(b.shown, b.typed) /\ g.typed \subseteq b.typed
      BY <2>2, <2>3 DEF WellFormed
    <3>2. RowsSound(g.shown, g.typed)
      BY <2>4, <3>1 DEF RowsSound
    <3>3. QED
      BY <2>2, <2>3, <2>4, <3>2 DEF WellFormed
  <2>6. Touched(b, g, n)
    BY <2>3, <2>4, <2>5 DEF Touched, Like, SameRow
  <2>7. RowRight(g, n)
    BY <1>3, <2>2, <2>4 DEF RowRight
  <2>8. Rests(g) /\ g.asked = <<>>
    BY <1>3, <2>2, <2>4, <2>6, <2>7, TouchedRests
  <2> HIDE DEF wanted
  <2>9. ToSet(g.asked) = ToSet(wanted)
    BY <2>8 DEF wanted
  <2>10. QED
    BY <2>1, <2>8, <2>9, HandlerEnds
<1>5. CASE new # value[n]
  <2> DEFINE wanted == << <<n, new>> >>
  <2>1. PICK result : Done(Redrawn(set_value(Started(result), n, new)), wanted)
    BY <1>5 DEF string_set, Started
  <2> DEFINE h == Started(result)
             d == Redrawn(set_value(h, n, new))
  <2>2. h.asked = <<>> /\ h.creating = FALSE /\ WellFormed(h)
    BY Starts
  <2>3. Done(d, wanted)
    BY <2>1
  <2> HIDE DEF h, new
  <2>4. SetAndDrawn(h, d, n, new)
    BY <2>2, ValueIsSet
  <2> HIDE DEF d, wanted
  <2>5. Rests(d) /\ ToSet(d.asked) = ToSet(wanted)
    BY <2>4 DEF SetAndDrawn, wanted
  <2>6. QED
    BY <2>3, <2>5, HandlerEnds
<1>6. QED
  BY <1>4, <1>5

LEMMA EntryRests ==
  ASSUME NEW h, Rests(h), NEW n \in Entries
  PROVE  Rests(entry_update_value(h, n)) /\ entry_update_value(h, n).asked = h.asked
<1>1. n \in Nodes
  BY RowsAreNodes
<1>2. RowUpdated(h, entry_update_value(h, n), n)
  BY EntryUpdated DEF Rests
<1>3. QED
  BY <1>1, <1>2, TouchedRests DEF RowUpdated

LEMMA IntegerSetRests ==
  ASSUME WidgetsInv, NEW n, integer_set(n)
  PROVE  WidgetsInv'
<1>1. n \in OfKind({"integer"})
  BY DEF integer_set
<1>2. n \in Entries
  BY <1>1 DEF OfKind, Entries
<1> DEFINE new == strtoul[Text(n)]
<1>3. CASE new = value[n]
  <2> DEFINE g == entry_update_value(Before, n)
             wanted == <<>>
  <2>1. Done(g, wanted)
    BY <1>3 DEF integer_set
  <2>2. Rests(Before) /\ Before.asked = <<>>
    BY DEF WidgetsInv, Before
  <2>3. Rests(g) /\ g.asked = <<>>
    BY <1>2, <2>2, EntryRests
  <2> HIDE DEF g, wanted
  <2>4. ToSet(g.asked) = ToSet(wanted)
    BY <2>3 DEF wanted
  <2>5. QED
    BY <2>1, <2>3, <2>4, HandlerEnds
<1>4. CASE new # value[n]
  <2> DEFINE wanted == << <<n, new>> >>
  <2>1. PICK result :
          Done(entry_update_value(Redrawn(set_value(Started(result), n, new)), n), wanted)
    BY <1>4 DEF integer_set, Started
  <2> DEFINE h == Started(result)
             d == Redrawn(set_value(h, n, new))
             g == entry_update_value(d, n)
  <2>2. h.asked = <<>> /\ h.creating = FALSE /\ WellFormed(h)
    BY Starts
  <2>3. Done(g, wanted)
    BY <2>1
  <2> HIDE DEF h, new
  <2>4. SetAndDrawn(h, d, n, new)
    BY <2>2, ValueIsSet
  <2> HIDE DEF d
  <2>5. Rests(g) /\ g.asked = d.asked
    BY <1>2, <2>4, EntryRests DEF SetAndDrawn
  <2> HIDE DEF g, wanted
  <2>6. ToSet(g.asked) = ToSet(wanted)
    BY <2>4, <2>5 DEF SetAndDrawn, wanted
  <2>7. QED
    BY <2>3, <2>5, <2>6, HandlerEnds
<1>5. QED
  BY <1>3, <1>4

(* Other values or another choice of what is shown, and no value set.      *)
LEMMA ViewRests ==
  ASSUME WidgetsInv, NEW h, WellFormed(h), h.creating = FALSE, h.asked = <<>>,
         Done(page_gui_update(h, h.current), <<>>)
  PROVE  WidgetsInv'
<1> DEFINE g == page_gui_update(h, h.current)
           wanted == <<>>
<1>1. Rests(g) /\ Like(h, g)
  BY DrawnRests
<1>2. Done(g, wanted)
  OBVIOUS
<1> HIDE DEF g, wanted
<1>3. ToSet(g.asked) = ToSet(wanted)
  BY <1>1 DEF Like, wanted
<1>4. QED
  BY <1>1, <1>2, <1>3, HandlerEnds

LEMMA BeforeIs ==
  /\ Before = [f \in HandlerFields |-> Before[f]]
  /\ Before.value = value /\ Before.visible = visible /\ Before.shown = shown
  /\ Before.typed = typed /\ Before.current = current /\ Before.creating = creating
  /\ Before.show_suppressed = show_suppressed /\ Before.asked = <<>>
BY DEF Before, HandlerFields

LEMMA WalkRests ==
  ASSUME WidgetsInv, Walk
  PROVE  WidgetsInv'
<1>1. PICK result : Done(page_gui_update([Before EXCEPT !.value = result], current), <<>>)
  BY DEF Walk
<1> DEFINE b == Before
           h == [b EXCEPT !.value = result]
<1>2. /\ WellFormed(b) /\ b.creating = FALSE /\ b.asked = <<>> /\ b.current = current
  BY BeforeIs DEF WidgetsInv, Rests
<1>3. Done(page_gui_update(h, current), <<>>)
  BY <1>1
<1> HIDE DEF b
<1>4. WellFormed(h) /\ h.creating = FALSE /\ h.asked = <<>> /\ h.current = current
  BY <1>2 DEF WellFormed, HandlerFields
<1> HIDE DEF h
<1>5. QED
  BY <1>3, <1>4, ViewRests

LEMMA ShowSuppressedRests ==
  ASSUME WidgetsInv, on_show_suppressed_check_activate
  PROVE  WidgetsInv'
<1> DEFINE b == Before
           h == [b EXCEPT !.show_suppressed = ~@]
<1>1. Done(page_gui_update(h, current), <<>>)
  BY DEF on_show_suppressed_check_activate
<1>2. /\ WellFormed(b) /\ b.creating = FALSE /\ b.asked = <<>> /\ b.current = current
  BY BeforeIs DEF WidgetsInv, Rests
<1> HIDE DEF b
<1>3. WellFormed(h) /\ h.creating = FALSE /\ h.asked = <<>> /\ h.current = current
  BY <1>2 DEF WellFormed, HandlerFields
<1> HIDE DEF h
<1>4. QED
  BY <1>1, <1>3, ViewRests

(* The page of a node is drawn before it becomes the current one.          *)
LEMMA MenuRests ==
  ASSUME WidgetsInv, NEW n, on_menu_button_clicked(n)
  PROVE  WidgetsInv'
<1> DEFINE g == page_gui_update(Before, n)
           e == [g EXCEPT !.current = n, !.creating = FALSE]
           wanted == <<>>
<1>1. Done(e, wanted)
  BY DEF on_menu_button_clicked
<1>2. n \in Nodes
  BY OnScreenIsNode DEF on_menu_button_clicked
<1>3. WellFormed(Before) /\ Before.creating = FALSE
  BY DEF WidgetsInv, Rests
<1>4. PageDrawn(Before, g, n)
  BY <1>2, <1>3, PageIsDrawn
<1> HIDE DEF g
<1>5. /\ WellFormed(g) /\ g.asked = <<>>
      /\ \A m \in ToSet(Children(n)) : Shows(g, m)
  BY <1>4, BeforeIs DEF PageDrawn, Like
<1>6. /\ e = [f \in HandlerFields |-> e[f]]
      /\ e.value = g.value /\ e.visible = g.visible /\ e.shown = g.shown /\ e.typed = g.typed
      /\ e.show_suppressed = g.show_suppressed /\ e.asked = g.asked
      /\ e.current = n /\ e.creating = FALSE
  BY <1>5 DEF WellFormed, HandlerFields
<1> HIDE DEF e
<1>7. WellFormed(e)
  BY <1>2, <1>5, <1>6 DEF WellFormed
<1>8. ASSUME NEW m \in ToSet(Children(n))
      PROVE  Shows(e, m)
  <2>1. Shows(g, m)
    BY <1>5
  <2>2. node_is_visible(e, m) = node_is_visible(g, m)
    BY <1>6 DEF node_is_visible, cml_node_is_visible, node_has_visible_children
  <2>3. QED
    BY <1>6, <2>1, <2>2 DEF Shows, RowRight
<1>9. Rests(e)
  BY <1>6, <1>7, <1>8 DEF Rests
<1> HIDE DEF wanted
<1>10. ToSet(e.asked) = ToSet(wanted)
  BY <1>5, <1>6 DEF wanted
<1>11. QED
  BY <1>1, <1>9, <1>10, HandlerEnds

LEMMA NotebookRests ==
  ASSUME WidgetsInv, NEW page, on_notebook_switch_page(page)
  PROVE  WidgetsInv'
<1> DEFINE b == Before
           h == [b EXCEPT !.current = page]
<1>1. page \in Nodes
  BY DEF on_notebook_switch_page, OfKind
<1>2. creating = FALSE
  BY BeforeIs DEF WidgetsInv, Rests
<1>3. Done(page_gui_update(h, page), <<>>)
  BY <1>2 DEF on_notebook_switch_page
<1>4. WellFormed(b) /\ b.creating = FALSE /\ b.asked = <<>>
  BY BeforeIs DEF WidgetsInv, Rests
<1> HIDE DEF b
<1>5. WellFormed(h) /\ h.creating = FALSE /\ h.asked = <<>> /\ h.current = page
  BY <1>1, <1>4 DEF WellFormed, HandlerFields
<1> HIDE DEF h
<1>6. QED
  BY <1>3, <1>5, ViewRests

-----------------------------------------------------------------------------
(* The theorems.                                                           *)

LEMMA InitRests == RowsInit => WidgetsInv
<1> SUFFICES ASSUME RowsInit
             PROVE  WidgetsInv
  OBVIOUS
<1> DEFINE blank == [value |-> Initial, built |-> {}, visible |-> {},
                     shown |-> [n \in Nodes |-> {}], typed |-> {},
                     current |-> Start, show_suppressed |-> FALSE, creating |-> FALSE,
                     asked |-> <<>>, result |-> Initial]
           h == page_gui_update(blank, Start)
           b == Before
<1>1. /\ blank = [f \in HandlerFields |-> blank[f]]
      /\ blank.shown = [n \in Nodes |-> {}] /\ blank.typed = {}
      /\ blank.current = Start /\ blank.creating = FALSE
  BY DEF HandlerFields
<1>2. /\ value = h.value /\ visible = h.visible /\ shown = h.shown
      /\ typed = h.typed /\ current = h.current /\ show_suppressed = h.show_suppressed
      /\ creating = FALSE /\ astray = FALSE
  BY DEF RowsInit
<1>3. /\ b = [f \in HandlerFields |-> b[f]]
      /\ b.value = value /\ b.visible = visible /\ b.shown = shown /\ b.typed = typed
      /\ b.current = current /\ b.show_suppressed = show_suppressed /\ b.creating = creating
  BY BeforeIs
<1> HIDE DEF blank, b
<1>4. WellFormed(blank)
  <2>1. blank.shown = [n \in Nodes |-> blank.shown[n]]
    BY <1>1
  <2>2. \A n \in Toggled : blank.shown[n] = {}
    BY <1>1, RowsAreNodes
  <2>3. RowsSound(blank.shown, blank.typed)
    BY <1>1, <2>2 DEF RowsSound
  <2>4. QED
    BY <1>1, <2>1, <2>3, NodesAssumption DEF WellFormed
<1>5. Rests(h)
  BY <1>1, <1>4, DrawnRests
<1> HIDE DEF h
<1>6. WellFormed(b)
  BY <1>2, <1>3, <1>5 DEF Rests, WellFormed
<1>7. ASSUME NEW n \in ToSet(Children(b.current))
      PROVE  Shows(b, n)
  <2>1. Shows(h, n)
    BY <1>2, <1>3, <1>5 DEF Rests
  <2>2. node_is_visible(b, n) = node_is_visible(h, n)
    BY <1>2, <1>3 DEF node_is_visible, cml_node_is_visible, node_has_visible_children
  <2>3. QED
    BY <1>2, <1>3, <2>1, <2>2 DEF Shows, RowRight
<1>8. Rests(b)
  BY <1>2, <1>3, <1>6, <1>7 DEF Rests
<1>9. QED
  BY <1>2, <1>8 DEF WidgetsInv, b

LEMMA StepRests == WidgetsInv /\ [RowsNext]_row_vars => WidgetsInv'
<1> SUFFICES ASSUME WidgetsInv, [RowsNext]_row_vars
             PROVE  WidgetsInv'
  OBVIOUS
<1>1. CASE \E n \in Nodes, v \in {"y", "m", "n"} : Press(n, v)
  BY <1>1, PressRests
<1>2. CASE \E n \in Nodes : \E item \in Domain[n] : Pick(n, item)
  BY <1>2, PickRests
<1>3. CASE \E n \in Nodes : \E t \in Texts[n] : Type(n, t)
  BY <1>3, TypeRests
<1>4. CASE \E n \in Nodes : string_set(n)
  BY <1>4, StringSetRests
<1>5. CASE \E n \in Nodes : integer_set(n)
  BY <1>5, IntegerSetRests
<1>6. CASE \E n \in Nodes : on_menu_button_clicked(n)
  BY <1>6, MenuRests
<1>7. CASE \E n \in Nodes : on_notebook_switch_page(n)
  BY <1>7, NotebookRests
<1>8. CASE Walk
  BY <1>8, WalkRests
<1>9. CASE on_show_suppressed_check_activate
  BY <1>9, ShowSuppressedRests
<1>10. CASE UNCHANGED row_vars
  <2>1. Before' = Before /\ astray' = astray
    BY <1>10 DEF Before, row_vars
  <2>2. QED
    BY <2>1 DEF WidgetsInv
<1>11. QED
  BY <1>1, <1>2, <1>3, <1>4, <1>5, <1>6, <1>7, <1>8, <1>9, <1>10 DEF RowsNext

LEMMA WidgetsInvariance == RowsSpec => []WidgetsInv
<1>1. QED
  BY InitRests, StepRests, PTL DEF RowsSpec

(* After every handler the rows of the current page show what the rulebase *)
(* holds: the visible nodes and no other have a row, the toggles, combo    *)
(* boxes and entries agree with the value, whatever rules bound besides    *)
(* and whichever page was changed meanwhile (page_gui_update and           *)
(* node_gui_update).                                                       *)
THEOREM RowsAlwaysShowValues == RowsSpec => []RowsShowValues
<1>1. QED
  BY WidgetsInvariance, InvariantShowsValues, PTL

(* A handler sets what the user asked for and nothing else: no signal of a *)
(* widget that is drawn gets as far as set_value().                        *)
THEOREM OnlyGesturesAlwaysSet == RowsSpec => []OnlyGesturesSet
<1>1. QED
  BY WidgetsInvariance, InvariantShowsValues, PTL
================================================================================
