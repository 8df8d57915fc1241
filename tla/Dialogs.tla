-------------------------------- MODULE Dialogs --------------------------------
(***************************************************************************)
(* The boxes of the curses front end (curses/linux-scripts/lxdialog): the  *)
(* menu, the list, the input box, the text box of TextBox, the question    *)
(* and the message. One box is open at a time; from one box to the next    *)
(* stay the file lxdialog.scrltmp, the buffer dialog_input_result and the  *)
(* statics of the text box.                                                *)
(*                                                                         *)
(* Items are numbered from 0 and known by the letter that selects them. A  *)
(* row of the screen has the item printed there, whether it is marked and  *)
(* whether it is lit.                                                      *)
(***************************************************************************)
EXTENDS Integers, TextBox, TLC

CONSTANTS
  Menus,        \* the letters of the items of a menu, in order
  ListHeight,   \* rows of a menu or list
  Marks,        \* the items of a list that may be "on" when it opens
  Width,        \* columns of an input box (box_width)
  Characters,   \* what can be typed
  Values,       \* initial values of an input box, sequences of Characters
  Files,        \* the files a text box may show
  Sessions      \* sets of kinds of boxes: a session opens those of one of them

NUL   == "nul"
Blank == " "

(* A box has items and a place for them, and an initial value fits into    *)
(* the buffer of the input box, to which strcpy copies it.                 *)
ASSUME DialogsAssumption ==
  /\ ListHeight \in Nat \ {0} /\ Width \in Nat \ {0}
  /\ \A letters \in Menus : Len(letters) \in Nat \ {0}
  /\ NUL \notin Characters
  /\ \A init \in Values : /\ Len(init) \in 0..MAX_LEN
                          /\ \A i \in 1..Len(init) : init[i] # NUL
  /\ Files \subseteq Seq({"n", "x"})

VARIABLES
  session,              \* the kinds of boxes it opens
  box,                  \* the open box, or what the last one returned and wrote
  scrltmp,              \* the contents of lxdialog.scrltmp
  dialog_input_result,
  statics               \* of the text box

vars == <<session, box, scrltmp, dialog_input_result, statics>>

NoFile == -1
ESC    == -1

Closed(code, items) == [kind |-> "none", code |-> code, items |-> items]

Least(n, m) == IF n < m THEN n ELSE m

-----------------------------------------------------------------------------
(* What menus and lists have in common: a window of max_choice items from  *)
(* "scroll" on, of which "choice" is lit.                                  *)

item_no(m) == Len(m.letters)
Lit(m) == m.scroll + m.choice
Row0(m, row, lit) == [item |-> m.scroll + row, on |-> m.status[m.scroll + row], lit |-> lit]

print_item(m, row, lit) == [m EXCEPT !.screen[row] = Row0(m, row, lit)]

Printed(m) == [m EXCEPT !.screen = [i \in 0..(m.max_choice - 1) |-> Row0(m, i, i = m.choice)]]

(* wscrl and scroll move the rows, scroll by one. A row comes in that is   *)
(* then printed.                                                           *)
ScrollDown(m) ==
  [m EXCEPT !.scroll = @ - 1,
            !.screen = [i \in DOMAIN @ |-> IF i = 0 THEN @[0] ELSE @[i - 1]]]
ScrollUp(m) ==
  [m EXCEPT !.scroll = @ + 1,
            !.screen = [i \in DOMAIN @ |-> IF i + 1 \in DOMAIN @ THEN @[i + 1] ELSE @[i]]]

BottomRow(m) == m.max_choice - 1

(* The first row from "from" on whose item has the letter, or max_choice.  *)
Found(m, from, key) ==
  Min({m.max_choice} \cup {i \in from..BottomRow(m) : m.letters[m.scroll + i + 1] = key})

-----------------------------------------------------------------------------
(* dialog_menu                                                             *)

(* Mutant: a scroll position below the current item is taken.              *)
FitsAnyhow(scroll, choice, max_choice, items) ==
  scroll + max_choice > choice /\ scroll >= 0 /\ scroll + max_choice <= items

Fits(scroll, choice, max_choice, items) ==
  /\ scroll <= choice
  /\ scroll + max_choice > choice
  /\ scroll >= 0
  /\ scroll + max_choice <= items

(* Where the window begins when the file does not say: the current item is *)
(* in the middle, as far as there are items below it.                      *)
Centred(choice, max_choice, items) ==
  CASE choice < max_choice \div 2 -> 0
    [] choice >= max_choice \div 2 /\ choice >= items - max_choice \div 2 -> items - max_choice
    [] choice >= max_choice \div 2 /\ choice < items - max_choice \div 2 ->
         choice - max_choice \div 2

OpenMenu(letters, current) ==
  LET items == Len(letters)
      max_choice == Least(ListHeight, items)
      fits == scrltmp # NoFile /\ Fits(scrltmp, current, max_choice, items)
      scroll == IF fits THEN scrltmp ELSE Centred(current, max_choice, items)
  IN  /\ box' = Printed([kind |-> "menu", letters |-> letters,
                         status |-> [i \in 0..(items - 1) |-> FALSE],
                         max_choice |-> max_choice, scroll |-> scroll, button |-> 0,
                         choice |-> current - scroll, screen |-> <<>>])
      /\ scrltmp' = IF fits THEN scrltmp ELSE NoFile

(* y, n and m are no letters of items.                                     *)
Hot(m, key) ==
  CASE key \in {"y", "n", "m"} -> m.max_choice
    [] key \notin {"y", "n", "m"} /\ Found(m, m.choice + 1, key) < m.max_choice ->
         Found(m, m.choice + 1, key)
    [] OTHER -> Found(m, 0, key)

Up(m) ==
  IF m.choice < 2 /\ m.scroll > 0 THEN print_item(ScrollDown(m), 0, FALSE)
  ELSE [m EXCEPT !.choice = IF @ > 0 THEN @ - 1 ELSE 0]

Down(m) ==
  IF m.choice > m.max_choice - 3 /\ m.scroll + m.max_choice < item_no(m)
  THEN print_item(ScrollUp(m), BottomRow(m), FALSE)
  ELSE [m EXCEPT !.choice = Least(@ + 1, BottomRow(m))]

PageUpStep(m) ==
  IF m.scroll > 0 THEN print_item(ScrollDown(m), 0, FALSE)
  ELSE [m EXCEPT !.choice = IF @ > 0 THEN @ - 1 ELSE @]

PageDownStep(m) ==
  IF m.scroll + m.max_choice < item_no(m) THEN print_item(ScrollUp(m), BottomRow(m), FALSE)
  ELSE [m EXCEPT !.choice = IF @ + 1 < m.max_choice THEN @ + 1 ELSE @]

Unlit(m) == print_item(m, m.choice, FALSE)

MenuMoved(m, key) ==
  LET u == Unlit(m)
      v == CASE key = "up"   -> Up(u)
             [] key = "down" -> Down(u)
             [] key = "ppage" -> Repeated(PageUpStep, u, m.max_choice)
             [] key = "npage" -> Repeated(PageDownStep, u, m.max_choice)
             [] OTHER -> [u EXCEPT !.choice = Hot(m, key)]
  IN  print_item(v, v.choice, TRUE)

MenuCode ==
  ("s" :> 3) @@ ("y" :> 3) @@ ("n" :> 4) @@ ("m" :> 5) @@ (Blank :> 6)

Moves == {"up", "down", "ppage", "npage"}
Turned(b, n, key) == (b + (IF key = "left" THEN n - 1 ELSE 1)) % n

MenuKey(key) ==
  /\ box.kind = "menu"
  /\ LET hot == key \in Moves \/ Hot(box, key) < box.max_choice
     IN  \/ /\ hot
            /\ box' = MenuMoved(box, key)
            /\ UNCHANGED scrltmp
         \/ /\ ~hot /\ key \in {"left", "right"}
            /\ box' = [box EXCEPT !.button = Turned(@, 3, key)]
            /\ UNCHANGED scrltmp
         \/ /\ ~hot /\ key \in DOMAIN MenuCode
            /\ scrltmp' = box.scroll
            /\ box' = Closed(MenuCode[key], {Lit(box)})
         \/ /\ ~hot /\ key \in {"h", "enter"}
            /\ scrltmp' = NoFile
            /\ box' = Closed(IF key = "h" THEN 2 ELSE box.button, {Lit(box)})
         \/ /\ ~hot /\ key \in {"x", "esc"}
            /\ scrltmp' = NoFile
            /\ box' = Closed(ESC, {})
  /\ UNCHANGED <<session, dialog_input_result, statics>>
-----------------------------------------------------------------------------
(* dialog_checklist. Of a radio list one item is marked, of a check list   *)
(* any.                                                                    *)

(* The first marked item; the next one if that is the very first.          *)
FirstMarked(status) ==
  LET marked == {i \in DOMAIN status : status[i] /\ i > 0} IN IF marked = {} THEN 0 ELSE Min(marked)

OpenList(letters, marked, flag) ==
  LET status == [i \in 0..(Len(letters) - 1) |-> i \in marked]
      first == FirstMarked(status)
      scroll == IF first >= ListHeight THEN first - ListHeight + 1 ELSE 0
  IN  box' = Printed([kind |-> "list", letters |-> letters, status |-> status, flag |-> flag,
                      max_choice |-> Least(ListHeight, Len(letters)), scroll |-> scroll,
                      choice |-> first - scroll, button |-> 0, screen |-> <<>>])

(* The screen is scrolled by one row with the row at its edge unlit first, *)
(* unless there is only that row, which is printed over.                   *)
ListUp(m) ==
  CASE m.choice = 0 /\ m.scroll = 0 -> m
    [] m.choice = 0 /\ m.scroll > 0 ->
         print_item(ScrollDown(IF ListHeight > 1 THEN print_item(m, 0, FALSE) ELSE m), 0, TRUE)
    [] OTHER -> print_item([print_item(m, m.choice, FALSE) EXCEPT !.choice = @ - 1],
                           m.choice - 1, TRUE)

ListDown(m) ==
  CASE m.choice = BottomRow(m) /\ Lit(m) >= item_no(m) - 1 -> m
    [] m.choice = BottomRow(m) /\ Lit(m) < item_no(m) - 1 ->
         print_item(ScrollUp(IF ListHeight > 1 THEN print_item(m, BottomRow(m), FALSE) ELSE m),
                    BottomRow(m), TRUE)
    [] OTHER -> print_item([print_item(m, m.choice, FALSE) EXCEPT !.choice = @ + 1],
                           m.choice + 1, TRUE)

ListMoved(m, key) ==
  LET i == Found(m, 0, key)
  IN  CASE key = "up" -> ListUp(m)
        [] key = "down" -> ListDown(m)
        [] OTHER -> print_item([print_item(m, m.choice, FALSE) EXCEPT !.choice = i], i, TRUE)

Picked(m) == IF m.flag = "check" THEN [m.status EXCEPT ![Lit(m)] = ~@]
             ELSE [i \in DOMAIN m.status |-> i = Lit(m)]

Marked(status) == {i \in DOMAIN status : status[i]}

ListKey(key) ==
  /\ box.kind = "list"
  /\ LET hot == key \in {"up", "down"} \/ Found(box, 0, key) < box.max_choice
     IN  \/ /\ hot
            /\ box' = ListMoved(box, key)
         \/ /\ ~hot /\ key \in {"left", "right"}
            /\ box' = [box EXCEPT !.button = Turned(@, 2, key)]
         \/ /\ ~hot /\ key = "h"
            /\ box' = Closed(1, {})
         \/ /\ ~hot /\ key \in {"s", Blank, "enter"}
            /\ box' = Closed(box.button, IF box.button = 0 THEN Marked(Picked(box)) ELSE {})
         \/ /\ ~hot /\ key \in {"x", "esc"}
            /\ box' = Closed(ESC, {})
  /\ UNCHANGED <<session, scrltmp, dialog_input_result, statics>>

-----------------------------------------------------------------------------
(* dialog_inputbox. The text is a buffer of MAX_LEN + 1 bytes, ended by a  *)
(* NUL; button -1 is the field itself.                                     *)

Field == -1

strlen(instr) == Min({i \in DOMAIN instr : instr[i] = NUL})

strcpy(instr, s) ==
  [i \in DOMAIN instr |-> IF i < Len(s) THEN s[i + 1] ELSE IF i = Len(s) THEN NUL ELSE instr[i]]

(* "count" characters from the scroll position on; a NUL shows as a blank. *)
Columns(instr, scroll, count) ==
  [c \in 0..(Width - 1) |->
     IF c < count /\ instr[scroll + c] # NUL THEN instr[scroll + c] ELSE Blank]

OpenInput(init) ==
  LET instr == strcpy(dialog_input_result, init)
      scroll == IF Len(init) >= Width THEN Len(init) - Width + 1 ELSE 0
  IN  box' = [kind |-> "input", instr |-> instr, scroll |-> scroll, button |-> Field,
              input_x |-> Len(init) - scroll,
              columns |-> Columns(instr, scroll, Len(init) - scroll)]

(* At the right edge the field scrolls by one.                             *)
Typed(b, c) ==
  LET end == b.scroll + b.input_x
      instr == [b.instr EXCEPT ![end] = c, ![end + 1] = NUL]
  IN  CASE end >= MAX_LEN -> b
        [] end < MAX_LEN /\ b.input_x = Width - 1 ->
             [b EXCEPT !.instr = instr, !.scroll = @ + 1,
                       !.columns = [Columns(instr, b.scroll + 1, Width - 1)
                                      EXCEPT ![Width - 1] = b.columns[Width - 1]]]
        [] OTHER -> [b EXCEPT !.instr = instr, !.input_x = @ + 1, !.columns[b.input_x] = c]

(* At the left edge the field scrolls and no character is deleted.         *)
FieldBack(b) ==
  LET scroll == IF b.scroll < Width - 1 THEN 0 ELSE b.scroll - (Width - 1)
  IN  [b EXCEPT !.scroll = scroll, !.columns = Columns(b.instr, scroll, Width),
                !.input_x = strlen(b.instr) - scroll]

Backspaced(b) ==
  LET c == IF b.input_x = 0 THEN FieldBack(b) ELSE [b EXCEPT !.input_x = @ - 1]
  IN  IF b.input_x = 0 /\ b.scroll = 0 THEN b
      ELSE [c EXCEPT !.instr[c.scroll + c.input_x] = NUL, !.columns[c.input_x] = Blank]

NextButton     == (Field :> 0) @@ (0 :> 1) @@ (1 :> Field)
PreviousButton == (Field :> 1) @@ (0 :> Field) @@ (1 :> 0)

Leave(code) ==
  /\ box' = Closed(code, {})
  /\ dialog_input_result' = box.instr

InputKey(key) ==
  /\ box.kind = "input"
  /\ LET field == box.button = Field
     IN  \/ /\ field /\ key \in Characters
            /\ box' = Typed(box, key)
            /\ UNCHANGED dialog_input_result
         \/ /\ field /\ key = "backspace"
            /\ box' = Backspaced(box)
            /\ UNCHANGED dialog_input_result
         \/ /\ key = "up" \/ (~field /\ key = "left")
            /\ box' = [box EXCEPT !.button = PreviousButton[@]]
            /\ UNCHANGED dialog_input_result
         \/ /\ key = "down" \/ (~field /\ key = "right")
            /\ box' = [box EXCEPT !.button = NextButton[@]]
            /\ UNCHANGED dialog_input_result
         \/ /\ ~field /\ key \in {"o", "h"}
            /\ Leave(IF key = "o" THEN 0 ELSE 1)
         \/ /\ key = "enter" \/ (~field /\ key = Blank)
            /\ Leave(IF field THEN 0 ELSE box.button)
         \/ /\ key = "esc" \/ (~field /\ key = "x")
            /\ Leave(ESC)
  /\ UNCHANGED <<session, scrltmp, statics>>

-----------------------------------------------------------------------------
(* dialog_textbox, dialog_yesno and dialog_msgbox.                         *)

TextKey ==
  /\ box.kind = "text"
  /\ \E t \in TextKeys(box.text) : box' = [box EXCEPT !.text = t]
  /\ UNCHANGED <<session, scrltmp, dialog_input_result, statics>>

(* E and X return 0, escape and the return key -1.                         *)
TextLeft(code) ==
  /\ box.kind = "text"
  /\ statics' = Statics(box.text)
  /\ box' = Closed(code, {})
  /\ UNCHANGED <<session, scrltmp, dialog_input_result>>

QuestionKey(key) ==
  /\ box.kind = "yesno"
  /\ \/ /\ key \in {"left", "right"}
        /\ box' = [box EXCEPT !.button = Turned(@, 2, key)]
     \/ /\ key \in {"y", "n"}
        /\ box' = Closed(IF key = "y" THEN 0 ELSE 1, {})
     \/ /\ key \in {Blank, "enter"}
        /\ box' = Closed(box.button, {})
     \/ /\ key = "esc"
        /\ box' = Closed(ESC, {})
  /\ UNCHANGED <<session, scrltmp, dialog_input_result, statics>>

MessageKey(key) ==
  /\ box.kind = "message"
  /\ key \in {"o", "x", Blank, "enter", "esc"}
  /\ box' = Closed(IF key = "esc" THEN ESC ELSE 0, {})
  /\ UNCHANGED <<session, scrltmp, dialog_input_result, statics>>

-----------------------------------------------------------------------------
Opens(kind) == box.kind = "none" /\ kind \in session

OpenBox ==
  \/ /\ Opens("menu")
     /\ \E letters \in Menus : \E current \in 0..(Len(letters) - 1) : OpenMenu(letters, current)
     /\ UNCHANGED <<session, dialog_input_result, statics>>
  \/ /\ Opens("list")
     /\ \E letters \in Menus, flag \in {"radio", "check"}, marked \in Marks :
          marked \subseteq 0..(Len(letters) - 1) /\ OpenList(letters, marked, flag)
     /\ UNCHANGED <<session, scrltmp, dialog_input_result, statics>>
  \/ /\ Opens("input")
     /\ \E init \in Values : OpenInput(init)
     /\ UNCHANGED <<session, scrltmp, dialog_input_result, statics>>
  \/ /\ Opens("text")
     /\ \E file \in Files : box' = [kind |-> "text", text |-> OpenText(file, statics)]
     /\ UNCHANGED <<session, scrltmp, dialog_input_result, statics>>
  \/ /\ Opens("ask")
     /\ box' \in {[kind |-> "yesno", button |-> 0], [kind |-> "message"]}
     /\ UNCHANGED <<session, scrltmp, dialog_input_result, statics>>

Letters == UNION {ToSet(letters) : letters \in Menus}
Keys == Letters \cup Characters \cup Moves
          \cup {"left", "right", "enter", "esc", "backspace", Blank}
          \cup {"s", "y", "n", "m", "h", "o", "x"}

Init ==
  /\ session \in Sessions
  /\ box = Closed(ESC, {})
  /\ scrltmp = NoFile
  /\ dialog_input_result = [i \in 0..MAX_LEN |-> NUL]
  /\ statics = [begin_reached |-> TRUE, end_reached |-> FALSE, hscroll |-> 0]

Next ==
  \/ OpenBox
  \/ \E key \in Keys : MenuKey(key) \/ ListKey(key) \/ InputKey(key)
  \/ \E key \in Keys : QuestionKey(key) \/ MessageKey(key)
  \/ TextKey
  \/ \E code \in {0, ESC} : TextLeft(code)

Spec == Init /\ [][Next]_vars

-----------------------------------------------------------------------------
(* What the boxes promise.                                                 *)

(* The rows that menus and lists print one by one, between rows that the   *)
(* terminal scrolls, are those that printing all of them would give: the   *)
(* items of the window, within the list, and just the chosen one lit. A    *)
(* menu opens so whatever lxdialog.scrltmp still has of another menu.      *)
WindowShown ==
  box.kind \in {"menu", "list"} =>
    /\ box.choice \in 0..BottomRow(box)
    /\ box.scroll \in 0..(item_no(box) - box.max_choice)
    /\ box.screen = Printed(box).screen

(* The field shows the end of the text up to the cursor, which is in the   *)
(* field and behind the last character, after any typing and deleting, and *)
(* whatever an earlier text has left in the buffer.                        *)
FieldShown ==
  box.kind = "input" =>
    /\ box.input_x \in 0..(Width - 1)
    /\ box.scroll + box.input_x = strlen(box.instr)
    /\ box.columns = Columns(box.instr, box.scroll, box.input_x)

(* Both draw only what changes, and remember where that is: what the       *)
(* screen has is what drawing everything would give (menubox.c,            *)
(* checklist.c, inputbox.c).                                               *)
BoxShown == WindowShown /\ FieldShown

(* The rows of text are consecutive lines of the file, and reading goes on *)
(* after the last of them, however the file was read into the buffer; that *)
(* lines do not end where expected ("Internal error") does not happen. It  *)
(* is said of boxes that open at the beginning with begin_reached set.     *)
TextShown ==
  box.kind = "text" => ~box.text.internal_error /\ (~box.text.stale => RowsInOrder(box.text))
=============================================================================
