----------------------------- MODULE DialogsProofs -----------------------------
(***************************************************************************)
(* What a box of lxdialog has on the screen, for every menu, list and text *)
(* and every size: the rows that are printed one by one between rows that  *)
(* the terminal scrolls, and the columns of the input field, are those     *)
(* that drawing everything would give; the rows of a text box are lines of *)
(* its file that follow each other, whatever part of it is in memory.      *)
(***************************************************************************)
EXTENDS Dialogs, WellFoundedInduction, TLAPS

-----------------------------------------------------------------------------
(* Natural numbers.                                                        *)

(* A set of them has a least one.                                          *)
LEMMA HasLeast ==
  ASSUME NEW T, T \subseteq Nat, T # {}
  PROVE  Min(T) \in T /\ \A x \in T : Min(T) <= x
<1> DEFINE R == OpToRel(<, Nat)
<1>1. IsWellFoundedOn(R, Nat)
  BY NatLessThanWellFounded
<1>2. \A x, y \in Nat : <<x, y>> \in R <=> x < y
  BY DEF OpToRel
<1> HIDE DEF R
<1>3. PICK x \in T : \A y \in T : ~(<<y, x>> \in R)
  BY <1>1, WFMin
<1>4. \E z \in T : \A y \in T : z <= y
  <2>1. ASSUME NEW y \in T
        PROVE  x <= y
    <3>1. x \in Nat /\ y \in Nat /\ ~(y < x)
      BY <1>2, <1>3
    <3>2. QED
      BY <3>1
  <2> WITNESS x \in T
  <2> QED
    BY <2>1
<1>5. QED
  BY <1>4 DEF Min

(* Induction, of a set instead of a predicate: the provers cannot put an   *)
(* operator for the P(_) of NatInduction.                                  *)
LEMMA Induction ==
  ASSUME NEW S, 0 \in S, \A n \in Nat : n \in S => n + 1 \in S
  PROVE  \A n \in Nat : n \in S
<1> DEFINE T == {n \in Nat : n \notin S}
<1>1. ASSUME T # {}
      PROVE  FALSE
  <2>1. Min(T) \in T /\ \A x \in T : Min(T) <= x
    BY <1>1, HasLeast
  <2> DEFINE n == Min(T)
  <2> HIDE DEF n
  <2>2. n \in Nat /\ n \notin S /\ \A x \in Nat : x \notin S => n <= x
    BY <2>1 DEF n
  <2>3. n # 0
    BY <2>2
  <2>4. n - 1 \in Nat /\ n - 1 \in S
    BY <2>2, <2>3
  <2>5. (n - 1) + 1 \in S
    BY <2>4
  <2>6. QED
    BY <2>2, <2>5
<1>2. QED
  BY <1>1

-----------------------------------------------------------------------------
(* The loops of the boxes: of a page up and down in a menu, of get_line,   *)
(* of back_lines, of the rows of a text. The turns are numbered from 1.    *)
Loops == {"ppage", "npage", "ahead", "behind", "up", "row", "print"}

Body(loop, i, x) ==
  CASE loop = "ppage"  -> PageUpStep(x)
    [] loop = "npage"  -> PageDownStep(x)
    [] loop = "ahead"  -> Ahead(x)
    [] loop = "behind" -> Behind(x)
    [] loop = "up"     -> LineUp(x)
    [] loop = "row"    -> NextRow(x)
    [] loop = "print"  -> PrintRow(x, i)

Went(f, loop, x, n) ==
  /\ f = [i \in 0..n |-> f[i]]
  /\ \A i \in 0..n : f[i] = IF i = 0 THEN x ELSE Body(loop, i, f[i - 1])

(* A loop goes through n steps, and the function that Repeated picks exists.   *)
LEMMA LoopRuns ==
  ASSUME NEW loop \in Loops, NEW x, NEW n \in Nat
  PROVE  \E f : Went(f, loop, x, n)
<1> DEFINE Is(f, k) == f = [i \in 0..k |-> IF i = 0 THEN x ELSE Body(loop, i, f[i - 1])]
           S == {k \in Nat : \E f : Is(f, k)}
<1>1. 0 \in S
  <2>1. Is([i \in 0..0 |-> x], 0)
    OBVIOUS
  <2>2. QED
    BY <2>1
<1>2. ASSUME NEW k \in Nat, k \in S
      PROVE  k + 1 \in S
  <2>1. PICK f : Is(f, k)
    BY <1>2
  <2> DEFINE g == [i \in 0..(k + 1) |-> IF i = k + 1 THEN Body(loop, k + 1, f[k]) ELSE f[i]]
  <2>2. \A i \in 0..k : f[i] = IF i = 0 THEN x ELSE Body(loop, i, f[i - 1])
    BY <2>1
  <2>3. ASSUME NEW i \in 0..(k + 1)
        PROVE  g[i] = IF i = 0 THEN x ELSE Body(loop, i, g[i - 1])
    <3>1. CASE i = k + 1
      <4>1. k \in 0..(k + 1) /\ k # k + 1 /\ i - 1 = k /\ i # 0
        BY <3>1
      <4>2. g[i - 1] = f[k]
        BY <4>1
      <4>3. QED
        BY <3>1, <4>1, <4>2
    <3>2. CASE i # k + 1
      <4>1. i \in 0..k
        BY <3>2
      <4>2. CASE i = 0
        BY <2>2, <3>2, <4>1, <4>2
      <4>3. CASE i # 0
        <5>1. i - 1 \in 0..(k + 1) /\ i - 1 # k + 1
          BY <4>1, <4>3
        <5>2. g[i - 1] = f[i - 1]
          BY <5>1
        <5>3. QED
          BY <2>2, <3>2, <4>1, <4>3, <5>2
      <4>4. QED
        BY <4>2, <4>3
    <3>3. QED
      BY <3>1, <3>2
  <2>4. Is(g, k + 1)
    BY <2>3
  <2> HIDE DEF g, Is
  <2>5. QED
    BY <2>4
<1>3. n \in S
  <2> HIDE DEF S
  <2> QED BY <1>1, <1>2, Induction
<1>4. PICK f : Is(f, n)
  BY <1>3
<1>5. Went(f, loop, x, n)
  BY <1>4 DEF Went
<1>6. QED
  BY <1>5

LEMMA WentSteps ==
  ASSUME NEW f, NEW loop, NEW x, NEW n \in Nat, Went(f, loop, x, n)
  PROVE  f[0] = x /\ \A k \in Nat : k + 1 <= n => f[k + 1] = Body(loop, k + 1, f[k])
<1>1. f[0] = x
  <2>1. 0 \in 0..n
    OBVIOUS
  <2>2. QED
    BY <2>1 DEF Went
<1>2. ASSUME NEW k \in Nat, k + 1 <= n
      PROVE  f[k + 1] = Body(loop, k + 1, f[k])
  <2>1. k + 1 \in 0..n /\ k + 1 # 0 /\ (k + 1) - 1 = k
    BY <1>2
  <2>2. f[k + 1] = Body(loop, k + 1, f[(k + 1) - 1])
    BY <2>1 DEF Went
  <2>3. QED
    BY <2>1, <2>2
<1>3. QED
  BY <1>1, <1>2

-----------------------------------------------------------------------------
(* Windows: the part of a menu or list that is on the screen.              *)

WindowFields == {"kind", "letters", "status", "max_choice", "scroll", "choice", "button", "screen"}

IsWindow(m) ==
  /\ WindowFields \subseteq DOMAIN m
  /\ m = [f \in DOMAIN m |-> m[f]]
  /\ item_no(m) \in Nat
  /\ m.max_choice \in 1..item_no(m)
  /\ m.scroll \in 0..(item_no(m) - m.max_choice)
  /\ m.choice \in 0..BottomRow(m)
  /\ m.screen = [i \in 0..BottomRow(m) |-> m.screen[i]]

(* The row is what printing it would give.                                 *)
Right(m, row, lit) == m.screen[row] = Row0(m, row, lit)

(* Just one row is lit, or none.                                           *)
Drawn(m, row) == \A i \in 0..BottomRow(m) : Right(m, i, i = row)
None == -1

SameList(m, n) ==
  /\ DOMAIN n = DOMAIN m
  /\ n.kind = m.kind /\ n.letters = m.letters /\ n.status = m.status
  /\ n.max_choice = m.max_choice /\ n.button = m.button

(* What is drawn right is what print_item would draw of every row.         *)
LEMMA DrawnIsShown ==
  ASSUME NEW m, IsWindow(m), Drawn(m, m.choice)
  PROVE  m.screen = Printed(m).screen
<1>1. Printed(m).screen = [i \in 0..(m.max_choice - 1) |-> Row0(m, i, i = m.choice)]
  BY DEF Printed, IsWindow, WindowFields
<1>2. QED
  BY <1>1 DEF IsWindow, Drawn, Right, BottomRow

(* print_item draws its row and leaves everything else be.                 *)
LEMMA ItemPrinted ==
  ASSUME NEW m, IsWindow(m), NEW row \in 0..BottomRow(m), NEW lit \in BOOLEAN
  PROVE  LET n == print_item(m, row, lit)
         IN  /\ IsWindow(n) /\ SameList(m, n)
             /\ n.scroll = m.scroll /\ n.choice = m.choice
             /\ \A i \in 0..BottomRow(m) :
                  n.screen[i] = IF i = row THEN Row0(m, row, lit) ELSE m.screen[i]
             /\ \A i, l : Row0(n, i, l) = Row0(m, i, l)
<1> DEFINE n == print_item(m, row, lit)
<1>1. /\ DOMAIN n = DOMAIN m /\ n = [f \in DOMAIN n |-> n[f]]
      /\ \A f \in DOMAIN m : f # "screen" => n[f] = m[f]
      /\ n.screen = [m.screen EXCEPT ![row] = Row0(m, row, lit)]
  BY DEF print_item, IsWindow, WindowFields
<1> HIDE DEF n
<1>2. SameList(m, n) /\ n.scroll = m.scroll /\ n.choice = m.choice
  BY <1>1 DEF SameList, IsWindow, WindowFields
<1>3. IsWindow(n)
  BY <1>1, <1>2 DEF IsWindow, WindowFields, SameList, item_no, BottomRow
<1>4. \A i \in 0..BottomRow(m) : n.screen[i] = IF i = row THEN Row0(m, row, lit) ELSE m.screen[i]
  BY <1>1 DEF IsWindow
<1>5. \A i, l : Row0(n, i, l) = Row0(m, i, l)
  BY <1>2 DEF Row0, SameList
<1>6. QED
  BY <1>2, <1>3, <1>4, <1>5 DEF n

(* Moving the light alone.                                                 *)
LEMMA ChoiceMoved ==
  ASSUME NEW m, IsWindow(m), NEW c \in 0..BottomRow(m)
  PROVE  LET n == [m EXCEPT !.choice = c]
         IN  /\ IsWindow(n) /\ SameList(m, n)
             /\ n.scroll = m.scroll /\ n.choice = c
             /\ \A i, l : Right(n, i, l) <=> Right(m, i, l)
<1> DEFINE n == [m EXCEPT !.choice = c]
<1>1. /\ DOMAIN n = DOMAIN m /\ n = [f \in DOMAIN n |-> n[f]]
      /\ \A f \in DOMAIN m : f # "choice" => n[f] = m[f]
      /\ n.choice = c
  BY DEF IsWindow, WindowFields
<1> HIDE DEF n
<1>2. SameList(m, n) /\ n.scroll = m.scroll /\ n.screen = m.screen
  BY <1>1 DEF SameList, IsWindow, WindowFields
<1>3. IsWindow(n)
  BY <1>1, <1>2 DEF IsWindow, SameList, item_no, BottomRow
<1>4. \A i, l : Right(n, i, l) <=> Right(m, i, l)
  BY <1>2 DEF Right, Row0, SameList
<1>5. QED
  BY <1>1, <1>2, <1>3, <1>4 DEF n

(* Scrolling by a row and printing the one that comes in: the others may   *)
(* not be lit.                                                             *)
LEMMA ScrolledDown ==
  ASSUME NEW m, IsWindow(m), m.scroll > 0, NEW lit \in BOOLEAN,
         \A i \in 0..(BottomRow(m) - 1) : Right(m, i, FALSE)
  PROVE  LET n == print_item(ScrollDown(m), 0, lit)
         IN  /\ IsWindow(n) /\ SameList(m, n)
             /\ n.scroll = m.scroll - 1 /\ n.choice = m.choice
             /\ \A i \in 0..BottomRow(m) : Right(n, i, lit /\ i = 0)
<1> DEFINE w == ScrollDown(m)
           n == print_item(w, 0, lit)
<1>1. /\ DOMAIN w = DOMAIN m /\ w = [f \in DOMAIN w |-> w[f]]
      /\ \A f \in DOMAIN m : f \notin {"screen", "scroll"} => w[f] = m[f]
      /\ w.scroll = m.scroll - 1
      /\ w.screen = [i \in DOMAIN m.screen |-> IF i = 0 THEN m.screen[0] ELSE m.screen[i - 1]]
  BY DEF ScrollDown, IsWindow, WindowFields
<1> HIDE DEF w
<1>2. SameList(m, w) /\ w.choice = m.choice
  BY <1>1 DEF SameList, IsWindow, WindowFields
<1>3. /\ DOMAIN m.screen = 0..BottomRow(m) /\ 0 \in 0..BottomRow(m)
      /\ m.scroll \in Nat /\ BottomRow(m) \in Nat
  BY DEF IsWindow, BottomRow
<1>4. IsWindow(w)
  <2>1. item_no(w) = item_no(m) /\ BottomRow(w) = BottomRow(m)
    BY <1>2 DEF SameList, item_no, BottomRow
  <2>2. w.screen = [i \in 0..BottomRow(w) |-> w.screen[i]]
    BY <1>1, <1>3, <2>1
  <2>3. w.scroll \in 0..(item_no(w) - w.max_choice)
    BY <1>1, <1>2, <2>1 DEF IsWindow, SameList
  <2>4. QED
    BY <1>1, <1>2, <2>1, <2>2, <2>3 DEF IsWindow, SameList
<1>5. /\ IsWindow(n) /\ SameList(w, n)
      /\ n.scroll = w.scroll /\ n.choice = w.choice
      /\ \A i \in 0..BottomRow(w) :
           n.screen[i] = IF i = 0 THEN Row0(w, 0, lit) ELSE w.screen[i]
      /\ \A i, l : Row0(n, i, l) = Row0(w, i, l)
  <2>1. 0 \in 0..BottomRow(w)
    BY <1>2, <1>3 DEF SameList, BottomRow
  <2>2. QED
    BY <1>4, <2>1, ItemPrinted
<1> HIDE DEF n
<1>6. ASSUME NEW i \in 0..BottomRow(m)
      PROVE  Right(n, i, lit /\ i = 0)
  <2>1. i \in 0..BottomRow(w)
    BY <1>2 DEF SameList, BottomRow
  <2>2. CASE i = 0
    BY <1>5, <2>1, <2>2 DEF Right
  <2>3. CASE i # 0
    <3>1. i - 1 \in 0..(BottomRow(m) - 1) /\ i \in DOMAIN m.screen
      BY <1>3, <2>3
    <3>2. n.screen[i] = Row0(m, i - 1, FALSE)
      <4>1. n.screen[i] = w.screen[i]
        BY <1>5, <2>1, <2>3
      <4>2. w.screen[i] = m.screen[i - 1]
        BY <1>1, <2>3, <3>1
      <4>3. m.screen[i - 1] = Row0(m, i - 1, FALSE)
        BY <3>1 DEF Right
      <4>4. QED
        BY <4>1, <4>2, <4>3
    <3>3. w.scroll + i = m.scroll + (i - 1)
      <4>1. w.scroll = m.scroll - 1
        BY <1>1
      <4>2. m.scroll \in Nat /\ i \in Nat
        BY <1>3
      <4>3. QED
        BY <4>1, <4>2
    <3>4. Row0(m, i - 1, FALSE) = Row0(w, i, FALSE)
      BY <1>2, <3>3 DEF Row0, SameList
    <3>5. QED
      BY <1>5, <2>3, <3>2, <3>4 DEF Right
  <2>4. QED
    BY <2>2, <2>3
<1>7. SameList(m, n)
  BY <1>2, <1>5 DEF SameList
<1>8. QED
  BY <1>1, <1>2, <1>5, <1>6, <1>7 DEF n, w

(* And of scrolling up.                                                    *)
LEMMA ScrolledUp ==
  ASSUME NEW m, IsWindow(m), m.scroll + m.max_choice < item_no(m), NEW lit \in BOOLEAN,
         \A i \in 1..BottomRow(m) : Right(m, i, FALSE)
  PROVE  LET n == print_item(ScrollUp(m), BottomRow(m), lit)
         IN  /\ IsWindow(n) /\ SameList(m, n)
             /\ n.scroll = m.scroll + 1 /\ n.choice = m.choice
             /\ \A i \in 0..BottomRow(m) : Right(n, i, lit /\ i = BottomRow(m))
<1> DEFINE w == ScrollUp(m)
           n == print_item(w, BottomRow(m), lit)
<1>1. /\ DOMAIN w = DOMAIN m /\ w = [f \in DOMAIN w |-> w[f]]
      /\ \A f \in DOMAIN m : f \notin {"screen", "scroll"} => w[f] = m[f]
      /\ w.scroll = m.scroll + 1
      /\ w.screen = [i \in DOMAIN m.screen |-> IF i + 1 \in DOMAIN m.screen THEN m.screen[i + 1] ELSE m.screen[i]]
  BY DEF ScrollUp, IsWindow, WindowFields
<1> HIDE DEF w
<1>2. SameList(m, w) /\ w.choice = m.choice
  BY <1>1 DEF SameList, IsWindow, WindowFields
<1>3. /\ DOMAIN m.screen = 0..BottomRow(m) /\ BottomRow(m) \in 0..BottomRow(m)
      /\ m.scroll \in Nat /\ BottomRow(m) \in Nat
  BY DEF IsWindow, BottomRow
<1>4. IsWindow(w)
  <2>1. item_no(w) = item_no(m) /\ BottomRow(w) = BottomRow(m)
    BY <1>2 DEF SameList, item_no, BottomRow
  <2>2. w.screen = [i \in 0..BottomRow(w) |-> w.screen[i]]
    BY <1>1, <1>3, <2>1
  <2>3. w.scroll \in 0..(item_no(w) - w.max_choice)
    BY <1>1, <1>2, <2>1 DEF IsWindow, SameList
  <2>4. QED
    BY <1>1, <1>2, <2>1, <2>2, <2>3 DEF IsWindow, SameList
<1>5. /\ IsWindow(n) /\ SameList(w, n)
      /\ n.scroll = w.scroll /\ n.choice = w.choice
      /\ \A i \in 0..BottomRow(w) :
           n.screen[i] = IF i = BottomRow(m) THEN Row0(w, BottomRow(m), lit) ELSE w.screen[i]
      /\ \A i, l : Row0(n, i, l) = Row0(w, i, l)
  <2>1. BottomRow(m) \in 0..BottomRow(w)
    BY <1>2, <1>3 DEF SameList, BottomRow
  <2>2. QED
    BY <1>4, <2>1, ItemPrinted
<1> HIDE DEF n
<1>6. ASSUME NEW i \in 0..BottomRow(m)
      PROVE  Right(n, i, lit /\ i = BottomRow(m))
  <2>1. i \in 0..BottomRow(w)
    BY <1>2 DEF SameList, BottomRow
  <2>2. CASE i = BottomRow(m)
    BY <1>5, <2>1, <2>2 DEF Right
  <2>3. CASE i # BottomRow(m)
    <3>1. i + 1 \in 1..BottomRow(m) /\ i + 1 \in DOMAIN m.screen /\ i \in DOMAIN m.screen
      BY <1>3, <2>3
    <3>2. n.screen[i] = Row0(m, i + 1, FALSE)
      <4>1. n.screen[i] = w.screen[i]
        BY <1>5, <2>1, <2>3
      <4>2. w.screen[i] = m.screen[i + 1]
        BY <1>1, <2>3, <3>1
      <4>3. m.screen[i + 1] = Row0(m, i + 1, FALSE)
        BY <3>1 DEF Right
      <4>4. QED
        BY <4>1, <4>2, <4>3
    <3>3. w.scroll + i = m.scroll + (i + 1)
      <4>1. w.scroll = m.scroll + 1
        BY <1>1
      <4>2. m.scroll \in Nat /\ i \in Nat
        BY <1>3
      <4>3. QED
        BY <4>1, <4>2
    <3>4. Row0(m, i + 1, FALSE) = Row0(w, i, FALSE)
      BY <1>2, <3>3 DEF Row0, SameList
    <3>5. QED
      BY <1>5, <2>3, <3>2, <3>4 DEF Right
  <2>4. QED
    BY <2>2, <2>3
<1>7. SameList(m, n)
  BY <1>2, <1>5 DEF SameList
<1>8. QED
  BY <1>1, <1>2, <1>5, <1>6, <1>7 DEF n, w

-----------------------------------------------------------------------------
(* Menus. While the keys move it, no row of the window is lit.             *)

Dark(m) == IsWindow(m) /\ \A i \in 0..BottomRow(m) : Right(m, i, FALSE)

(* One of the steps that move a menu: a row scrolled or the light moved.   *)
LEMMA DarkScrolledDown ==
  ASSUME NEW m, Dark(m), m.scroll > 0
  PROVE  LET n == print_item(ScrollDown(m), 0, FALSE) IN Dark(n) /\ SameList(m, n)
<1> DEFINE n == print_item(ScrollDown(m), 0, FALSE)
<1>1. IsWindow(m) /\ \A i \in 0..(BottomRow(m) - 1) : Right(m, i, FALSE)
  <2>1. \A i \in 0..(BottomRow(m) - 1) : i \in 0..BottomRow(m)
    BY DEF Dark, IsWindow, BottomRow
  <2>2. QED
    BY <2>1 DEF Dark
<1>2. /\ IsWindow(n) /\ SameList(m, n)
      /\ \A i \in 0..BottomRow(m) : Right(n, i, FALSE /\ i = 0)
  BY <1>1, ScrolledDown
<1> HIDE DEF n
<1>3. Dark(n)
  BY <1>2 DEF Dark, SameList, BottomRow
<1>4. QED
  BY <1>2, <1>3 DEF n

LEMMA DarkScrolledUp ==
  ASSUME NEW m, Dark(m), m.scroll + m.max_choice < item_no(m)
  PROVE  LET n == print_item(ScrollUp(m), BottomRow(m), FALSE) IN Dark(n) /\ SameList(m, n)
<1> DEFINE n == print_item(ScrollUp(m), BottomRow(m), FALSE)
<1>1. IsWindow(m) /\ \A i \in 1..BottomRow(m) : Right(m, i, FALSE)
  <2>1. \A i \in 1..BottomRow(m) : i \in 0..BottomRow(m)
    BY DEF Dark, IsWindow, BottomRow
  <2>2. QED
    BY <2>1 DEF Dark
<1>2. /\ IsWindow(n) /\ SameList(m, n)
      /\ \A i \in 0..BottomRow(m) : Right(n, i, FALSE /\ i = BottomRow(m))
  BY <1>1, ScrolledUp
<1> HIDE DEF n
<1>3. Dark(n)
  BY <1>2 DEF Dark, SameList, BottomRow
<1>4. QED
  BY <1>2, <1>3 DEF n

(* No row is lit: the choice may be any.                                   *)
LEMMA DarkChoiceMoved ==
  ASSUME NEW m, Dark(m), NEW c \in 0..BottomRow(m)
  PROVE  LET n == [m EXCEPT !.choice = c] IN Dark(n) /\ SameList(m, n)
<1> DEFINE n == [m EXCEPT !.choice = c]
<1>1. /\ IsWindow(n) /\ SameList(m, n)
      /\ \A i, l : Right(n, i, l) <=> Right(m, i, l)
  BY ChoiceMoved DEF Dark
<1> HIDE DEF n
<1>2. Dark(n)
  BY <1>1 DEF Dark, SameList, BottomRow
<1>3. QED
  BY <1>1, <1>2 DEF n

(* Where the light can go.                                                 *)
LEMMA ChoiceBounds ==
  ASSUME NEW m, IsWindow(m)
  PROVE  /\ m.choice \in 0..BottomRow(m) /\ m.choice \in Nat /\ BottomRow(m) \in Nat
         /\ BottomRow(m) = m.max_choice - 1 /\ m.max_choice \in Nat
         /\ (IF m.choice > 0 THEN m.choice - 1 ELSE 0) \in 0..BottomRow(m)
         /\ (IF m.choice > 0 THEN m.choice - 1 ELSE m.choice) \in 0..BottomRow(m)
         /\ (IF m.choice + 1 < m.max_choice THEN m.choice + 1 ELSE m.choice) \in 0..BottomRow(m)
         /\ Least(m.choice + 1, BottomRow(m)) \in 0..BottomRow(m)
<1>1. m.choice \in Nat /\ m.max_choice \in Nat /\ m.choice < m.max_choice /\ m.max_choice > 0
  BY DEF IsWindow, BottomRow
<1>2. BottomRow(m) = m.max_choice - 1
  BY DEF BottomRow
<1>3. QED
  BY <1>1, <1>2 DEF Least

(* The up key of a menu.                                                   *)
LEMMA DarkUp ==
  ASSUME NEW m, Dark(m)
  PROVE  Dark(Up(m)) /\ SameList(m, Up(m))
<1>1. CASE m.choice < 2 /\ m.scroll > 0
  BY <1>1, DarkScrolledDown DEF Up
<1>2. CASE ~(m.choice < 2 /\ m.scroll > 0)
  <2> DEFINE c == IF m.choice > 0 THEN m.choice - 1 ELSE 0
  <2>1. c \in 0..BottomRow(m)
    BY ChoiceBounds DEF Dark
  <2>2. Up(m) = [m EXCEPT !.choice = c]
    BY <1>2 DEF Up
  <2>3. QED
    BY <2>1, <2>2, DarkChoiceMoved
<1>3. QED
  BY <1>1, <1>2

(* The down key of a menu.                                                 *)
LEMMA DarkDown ==
  ASSUME NEW m, Dark(m)
  PROVE  Dark(Down(m)) /\ SameList(m, Down(m))
<1> DEFINE scrolls == m.choice > m.max_choice - 3 /\ m.scroll + m.max_choice < item_no(m)
<1>1. CASE scrolls
  BY <1>1, DarkScrolledUp DEF Down
<1>2. CASE ~scrolls
  <2> DEFINE c == Least(m.choice + 1, BottomRow(m))
  <2>1. c \in 0..BottomRow(m)
    BY ChoiceBounds DEF Dark
  <2>2. Down(m) = [m EXCEPT !.choice = c]
    BY <1>2 DEF Down
  <2>3. QED
    BY <2>1, <2>2, DarkChoiceMoved
<1>3. QED
  BY <1>1, <1>2

(* One turn of the loop of the page up key.                                *)
LEMMA DarkPageUpStep ==
  ASSUME NEW m, Dark(m)
  PROVE  Dark(PageUpStep(m)) /\ SameList(m, PageUpStep(m))
<1>1. CASE m.scroll > 0
  BY <1>1, DarkScrolledDown DEF PageUpStep
<1>2. CASE ~(m.scroll > 0)
  <2> DEFINE c == IF m.choice > 0 THEN m.choice - 1 ELSE m.choice
  <2>1. c \in 0..BottomRow(m)
    BY ChoiceBounds DEF Dark
  <2>2. PageUpStep(m) = [m EXCEPT !.choice = c]
    BY <1>2 DEF PageUpStep
  <2>3. QED
    BY <2>1, <2>2, DarkChoiceMoved
<1>3. QED
  BY <1>1, <1>2

(* One turn of the loop of the page down key.                              *)
LEMMA DarkPageDownStep ==
  ASSUME NEW m, Dark(m)
  PROVE  Dark(PageDownStep(m)) /\ SameList(m, PageDownStep(m))
<1> DEFINE scrolls == m.scroll + m.max_choice < item_no(m)
<1>1. CASE scrolls
  BY <1>1, DarkScrolledUp DEF PageDownStep
<1>2. CASE ~scrolls
  <2> DEFINE c == IF m.choice + 1 < m.max_choice THEN m.choice + 1 ELSE m.choice
  <2>1. c \in 0..BottomRow(m)
    BY ChoiceBounds DEF Dark
  <2>2. PageDownStep(m) = [m EXCEPT !.choice = c]
    BY <1>2 DEF PageDownStep
  <2>3. QED
    BY <2>1, <2>2, DarkChoiceMoved
<1>3. QED
  BY <1>1, <1>2

(* What page up and page down go through.                                  *)
LEMMA PagedUp ==
  ASSUME NEW m, NEW n \in Nat
  PROVE  \E f : Went(f, "ppage", m, n) /\ Repeated(PageUpStep, m, n) = f[n]
<1> DEFINE Is(f) == f = [i \in 0..n |-> IF i = 0 THEN m ELSE PageUpStep(f[i - 1])]
<1>1. \A i, x : Body("ppage", i, x) = PageUpStep(x)
  BY DEF Body
<1>2. \E f : Is(f)
  <2> "ppage" \in Loops
    BY DEF Loops
  <2>1. PICK f : Went(f, "ppage", m, n)
    BY LoopRuns
  <2>2. f = [i \in 0..n |-> f[i]] /\ \A i \in 0..n : f[i] = IF i = 0 THEN m ELSE PageUpStep(f[i - 1])
    BY <1>1, <2>1 DEF Went
  <2>3. Is(f)
    BY <2>2
  <2>4. QED
    BY <2>3
<1>3. Is(CHOOSE f : Is(f))
  BY <1>2
<1>4. Repeated(PageUpStep, m, n) = (CHOOSE f : Is(f))[n]
  BY DEF Repeated
<1>5. ASSUME NEW f, Is(f)
      PROVE  Went(f, "ppage", m, n)
  BY <1>1, <1>5 DEF Went
<1> HIDE DEF Is
<1>6. QED
  BY <1>3, <1>4, <1>5

LEMMA PagedDown ==
  ASSUME NEW m, NEW n \in Nat
  PROVE  \E f : Went(f, "npage", m, n) /\ Repeated(PageDownStep, m, n) = f[n]
<1> DEFINE Is(f) == f = [i \in 0..n |-> IF i = 0 THEN m ELSE PageDownStep(f[i - 1])]
<1>1. \A i, x : Body("npage", i, x) = PageDownStep(x)
  BY DEF Body
<1>2. \E f : Is(f)
  <2> "npage" \in Loops
    BY DEF Loops
  <2>1. PICK f : Went(f, "npage", m, n)
    BY LoopRuns
  <2>2. f = [i \in 0..n |-> f[i]] /\ \A i \in 0..n : f[i] = IF i = 0 THEN m ELSE PageDownStep(f[i - 1])
    BY <1>1, <2>1 DEF Went
  <2>3. Is(f)
    BY <2>2
  <2>4. QED
    BY <2>3
<1>3. Is(CHOOSE f : Is(f))
  BY <1>2
<1>4. Repeated(PageDownStep, m, n) = (CHOOSE f : Is(f))[n]
  BY DEF Repeated
<1>5. ASSUME NEW f, Is(f)
      PROVE  Went(f, "npage", m, n)
  BY <1>1, <1>5 DEF Went
<1> HIDE DEF Is
<1>6. QED
  BY <1>3, <1>4, <1>5

(* A page up or down leaves the window dark.                               *)
LEMMA DarkPaged ==
  ASSUME NEW m, Dark(m), NEW n \in Nat, NEW loop \in {"ppage", "npage"},
         NEW f, Went(f, loop, m, n)
  PROVE  Dark(f[n]) /\ SameList(m, f[n])
<1> DEFINE S == {k \in Nat : k <= n => Dark(f[k]) /\ SameList(m, f[k])}
<1>1. 0 \in S
  <2>1. f[0] = m
    BY WentSteps
  <2>2. QED
    BY <2>1 DEF SameList
<1>2. ASSUME NEW k \in Nat, k \in S
      PROVE  k + 1 \in S
  <2>1. SUFFICES ASSUME k + 1 <= n
                 PROVE  Dark(f[k + 1]) /\ SameList(m, f[k + 1])
    OBVIOUS
  <2>2. Dark(f[k]) /\ SameList(m, f[k])
    BY <1>2, <2>1
  <2>3. f[k + 1] = Body(loop, k + 1, f[k])
    BY <2>1, WentSteps
  <2>4. Dark(Body(loop, k + 1, f[k])) /\ SameList(f[k], Body(loop, k + 1, f[k]))
    BY <2>2, DarkPageUpStep, DarkPageDownStep DEF Body
  <2>5. QED
    BY <2>2, <2>3, <2>4 DEF SameList
<1> HIDE DEF S
<1>3. n \in S
  BY <1>1, <1>2, Induction
<1>4. QED
  BY <1>3 DEF S

(* The first row whose item has the letter, if there is one.               *)
LEMMA FoundInWindow ==
  ASSUME NEW m, IsWindow(m), NEW from \in Nat, NEW key
  PROVE  Found(m, from, key) \in from..BottomRow(m) \/ Found(m, from, key) = m.max_choice
<1> DEFINE T == {m.max_choice} \cup
                  {i \in from..BottomRow(m) : m.letters[m.scroll + i + 1] = key}
<1>1. T \subseteq Nat /\ T # {}
  BY DEF IsWindow, BottomRow
<1>2. Min(T) \in T
  BY <1>1, HasLeast
<1>3. Found(m, from, key) = Min(T)
  BY DEF Found
<1>4. QED
  BY <1>2, <1>3

(* What print_item leaves dark, and lights.                                *)
LEMMA UnlitIsDark ==
  ASSUME NEW m, IsWindow(m), Drawn(m, m.choice)
  PROVE  Dark(Unlit(m)) /\ SameList(m, Unlit(m))
<1> DEFINE n == print_item(m, m.choice, FALSE)
<1>1. /\ IsWindow(n) /\ SameList(m, n)
      /\ \A i \in 0..BottomRow(m) :
           n.screen[i] = IF i = m.choice THEN Row0(m, m.choice, FALSE) ELSE m.screen[i]
      /\ \A i, l : Row0(n, i, l) = Row0(m, i, l)
  <2>1. m.choice \in 0..BottomRow(m)
    BY DEF IsWindow
  <2>2. QED
    BY <2>1, ItemPrinted
<1>2. n = Unlit(m)
  BY DEF Unlit
<1> HIDE DEF n
<1>3. ASSUME NEW i \in 0..BottomRow(m)
      PROVE  n.screen[i] = Row0(m, i, FALSE)
  <2>1. CASE i = m.choice
    BY <1>1, <2>1
  <2>2. CASE i # m.choice
    BY <1>1, <2>2 DEF Drawn, Right
  <2>3. QED
    BY <2>1, <2>2
<1>4. Dark(n)
  <2>1. BottomRow(n) = BottomRow(m)
    BY <1>1 DEF SameList, BottomRow
  <2>2. ASSUME NEW i \in 0..BottomRow(n)
        PROVE  Right(n, i, FALSE)
    <3>1. n.screen[i] = Row0(m, i, FALSE)
      BY <1>3, <2>1
    <3>2. Row0(n, i, FALSE) = Row0(m, i, FALSE)
      BY <1>1
    <3>3. QED
      BY <3>1, <3>2 DEF Right
  <2>3. QED
    BY <1>1, <2>2 DEF Dark
<1>5. QED
  BY <1>1, <1>2, <1>4

(* print_item lights the choice at last.                                   *)
LEMMA DarkIsLit ==
  ASSUME NEW m, Dark(m)
  PROVE  LET n == print_item(m, m.choice, TRUE)
         IN  IsWindow(n) /\ SameList(m, n) /\ Drawn(n, n.choice)
<1> DEFINE n == print_item(m, m.choice, TRUE)
<1>1. /\ IsWindow(n) /\ SameList(m, n) /\ n.choice = m.choice
      /\ \A i \in 0..BottomRow(m) :
           n.screen[i] = IF i = m.choice THEN Row0(m, m.choice, TRUE) ELSE m.screen[i]
      /\ \A i, l : Row0(n, i, l) = Row0(m, i, l)
  <2>1. IsWindow(m) /\ m.choice \in 0..BottomRow(m)
    BY DEF Dark, IsWindow
  <2>2. QED
    BY <2>1, ItemPrinted
<1> HIDE DEF n
<1>2. ASSUME NEW i \in 0..BottomRow(m)
      PROVE  n.screen[i] = Row0(m, i, i = m.choice)
  <2>1. CASE i = m.choice
    BY <1>1, <2>1
  <2>2. CASE i # m.choice
    BY <1>1, <2>2 DEF Dark, Right
  <2>3. QED
    BY <2>1, <2>2
<1>3. Drawn(n, n.choice)
  <2>1. BottomRow(n) = BottomRow(m)
    BY <1>1 DEF SameList, BottomRow
  <2>2. QED
    BY <1>1, <1>2, <2>1 DEF Drawn, Right
<1>4. QED
  BY <1>1, <1>3 DEF n

(* The keys that move a menu draw it right.                                *)
LEMMA MenuMovedRight ==
  ASSUME NEW m, IsWindow(m), Drawn(m, m.choice),
         NEW key, key \in Moves \/ Hot(m, key) < m.max_choice
  PROVE  LET n == MenuMoved(m, key)
         IN  IsWindow(n) /\ SameList(m, n) /\ Drawn(n, n.choice)
<1> DEFINE u == Unlit(m)
           v == CASE key = "up"   -> Up(u)
                  [] key = "down" -> Down(u)
                  [] key = "ppage" -> Repeated(PageUpStep, u, m.max_choice)
                  [] key = "npage" -> Repeated(PageDownStep, u, m.max_choice)
                  [] OTHER -> [u EXCEPT !.choice = Hot(m, key)]
<1>1. MenuMoved(m, key) = print_item(v, v.choice, TRUE)
  BY DEF MenuMoved
<1>2. Dark(u) /\ SameList(m, u)
  BY UnlitIsDark
<1>3. m.max_choice \in Nat
  BY DEF IsWindow
<1> HIDE DEF u
<1>4. Dark(v) /\ SameList(u, v)
  <2>1. CASE key = "up"
    BY <1>2, <2>1, DarkUp
  <2>2. CASE key = "down"
    BY <1>2, <2>2, DarkDown
  <2>3. CASE key = "ppage"
    <3>1. PICK f : Went(f, "ppage", u, m.max_choice)
                   /\ Repeated(PageUpStep, u, m.max_choice) = f[m.max_choice]
      BY <1>3, PagedUp
    <3>2. Dark(f[m.max_choice]) /\ SameList(u, f[m.max_choice])
      BY <1>2, <1>3, <3>1, DarkPaged
    <3>3. v = f[m.max_choice]
      BY <2>3, <3>1
    <3>4. QED
      BY <3>2, <3>3
  <2>4. CASE key = "npage"
    <3>1. PICK f : Went(f, "npage", u, m.max_choice)
                   /\ Repeated(PageDownStep, u, m.max_choice) = f[m.max_choice]
      BY <1>3, PagedDown
    <3>2. Dark(f[m.max_choice]) /\ SameList(u, f[m.max_choice])
      BY <1>2, <1>3, <3>1, DarkPaged
    <3>3. v = f[m.max_choice]
      BY <2>4, <3>1
    <3>4. QED
      BY <3>2, <3>3
  <2>5. CASE key \notin Moves
    <3>1. Hot(m, key) < m.max_choice
      BY <2>5
    <3>2. Hot(m, key) \in 0..BottomRow(m)
      <4>1. key \notin {"y", "n", "m"}
        BY <1>3, <3>1 DEF Hot
      <4>2. m.choice + 1 \in Nat /\ BottomRow(m) \in Nat
        BY ChoiceBounds
      <4>3. Found(m, 0, key) \in 0..BottomRow(m) \/ Found(m, 0, key) = m.max_choice
        BY FoundInWindow
      <4>4. \/ Found(m, m.choice + 1, key) \in (m.choice + 1)..BottomRow(m)
            \/ Found(m, m.choice + 1, key) = m.max_choice
        BY <4>2, FoundInWindow
      <4>5. \/ Hot(m, key) = Found(m, 0, key)
            \/ Hot(m, key) = Found(m, m.choice + 1, key)
        BY <4>1 DEF Hot
      <4>6. Hot(m, key) # m.max_choice
        BY <1>3, <3>1
      <4>7. QED
        BY <4>2, <4>3, <4>4, <4>5, <4>6
    <3>3. BottomRow(u) = BottomRow(m)
      BY <1>2 DEF SameList, BottomRow
    <3>4. v = [u EXCEPT !.choice = Hot(m, key)]
      BY <2>5 DEF Moves
    <3>5. QED
      BY <1>2, <3>2, <3>3, <3>4, DarkChoiceMoved
  <2>6. QED
    BY <2>1, <2>2, <2>3, <2>4, <2>5 DEF Moves
<1> HIDE DEF v
<1>5. QED
  BY <1>1, <1>2, <1>4, DarkIsLit DEF SameList

-----------------------------------------------------------------------------
(* Lists.                                                                  *)

(* A window as WindowShown asks for it.                                    *)
Shown(m) == IsWindow(m) /\ Drawn(m, m.choice)

(* The light goes from its row to another.                                 *)
LEMMA LightMoved ==
  ASSUME NEW m, Shown(m), NEW c \in 0..BottomRow(m)
  PROVE  LET n == print_item([print_item(m, m.choice, FALSE) EXCEPT !.choice = c], c, TRUE)
         IN  Shown(n) /\ SameList(m, n)
<1> DEFINE u == Unlit(m)
           v == [u EXCEPT !.choice = c]
           n == print_item(v, c, TRUE)
<1>1. Dark(u) /\ SameList(m, u) /\ u = print_item(m, m.choice, FALSE)
  BY UnlitIsDark DEF Shown, Unlit
<1> HIDE DEF u
<1>2. c \in 0..BottomRow(u)
  BY <1>1 DEF SameList, BottomRow
<1>3. Dark(v) /\ SameList(u, v) /\ v.choice = c
  BY <1>1, <1>2, DarkChoiceMoved, ChoiceMoved DEF Dark
<1> HIDE DEF v
<1>4. n = print_item(v, v.choice, TRUE)
  BY <1>3
<1> HIDE DEF n
<1>5. Shown(n) /\ SameList(v, n)
  BY <1>3, <1>4, DarkIsLit DEF Shown
<1>6. SameList(m, n)
  BY <1>1, <1>3, <1>5 DEF SameList
<1>7. QED
  BY <1>1, <1>5, <1>6 DEF n, v

(* At the edge of the window it stays in its row, and the list moves. With *)
(* one row only there is no other that could be left lit.                  *)
LEMMA EdgeUnlit ==
  ASSUME NEW m, Shown(m), m.max_choice = Least(ListHeight, item_no(m))
  PROVE  LET u == IF ListHeight > 1 THEN print_item(m, m.choice, FALSE) ELSE m
         IN  /\ IsWindow(u) /\ SameList(m, u)
             /\ u.scroll = m.scroll /\ u.choice = m.choice
             /\ BottomRow(m) > 0 => Dark(u)
<1>1. CASE ListHeight > 1
  <2> DEFINE u == print_item(m, m.choice, FALSE)
  <2>1. Dark(u) /\ SameList(m, u)
    BY UnlitIsDark DEF Shown, Unlit
  <2>2. m.choice \in 0..BottomRow(m) /\ IsWindow(m)
    BY DEF Shown, IsWindow
  <2>3. u.scroll = m.scroll /\ u.choice = m.choice
    BY <2>2, ItemPrinted
  <2> HIDE DEF u
  <2>4. QED
    BY <1>1, <2>1, <2>3 DEF Dark, u
<1>2. CASE ~(ListHeight > 1)
  <2>1. ListHeight = 1
    BY <1>2, DialogsAssumption
  <2>2. ~(BottomRow(m) > 0)
    BY <2>1 DEF Least, Shown, IsWindow, BottomRow
  <2>3. QED
    BY <1>2, <2>2 DEF Shown, SameList
<1>3. QED
  BY <1>1, <1>2

(* The up key of a list.                                                   *)
LEMMA ListUpRight ==
  ASSUME NEW m, Shown(m), m.max_choice = Least(ListHeight, item_no(m))
  PROVE  Shown(ListUp(m)) /\ SameList(m, ListUp(m))
<1>0. /\ m.choice \in Nat /\ m.scroll \in Nat /\ BottomRow(m) \in Nat
      /\ m.choice \in 0..BottomRow(m)
  BY DEF Shown, IsWindow, BottomRow
<1>1. CASE m.choice = 0 /\ m.scroll = 0
  BY <1>1 DEF ListUp, SameList
<1>2. CASE m.choice = 0 /\ m.scroll > 0
  <2> DEFINE u == IF ListHeight > 1 THEN print_item(m, m.choice, FALSE) ELSE m
             n == print_item(ScrollDown(u), 0, TRUE)
  <2>1. ListUp(m) = n
    <3>1. ListUp(m) = print_item(ScrollDown(IF ListHeight > 1 THEN print_item(m, 0, FALSE) ELSE m), 0, TRUE)
      <4>1. ~(m.scroll = 0)
        BY <1>0, <1>2
      <4>2. QED
        BY <1>2, <4>1 DEF ListUp
    <3>2. QED
      BY <1>2, <3>1
  <2>2. /\ IsWindow(u) /\ SameList(m, u)
        /\ u.scroll = m.scroll /\ u.choice = m.choice
        /\ BottomRow(m) > 0 => Dark(u)
    BY EdgeUnlit
  <2> HIDE DEF u
  <2>3. BottomRow(u) = BottomRow(m)
    BY <2>2 DEF SameList, BottomRow
  <2>4. \A i \in 0..(BottomRow(u) - 1) : Right(u, i, FALSE)
    <3>1. SUFFICES ASSUME NEW i \in 0..(BottomRow(u) - 1)
                   PROVE  Right(u, i, FALSE)
      OBVIOUS
    <3>2. BottomRow(m) > 0 /\ i \in 0..BottomRow(u)
      BY <1>0, <2>3
    <3>3. QED
      BY <2>2, <3>2 DEF Dark
  <2>5. /\ IsWindow(n) /\ SameList(u, n) /\ n.choice = u.choice
        /\ \A i \in 0..BottomRow(u) : Right(n, i, TRUE /\ i = 0)
    BY <1>2, <2>2, <2>4, ScrolledDown
  <2> HIDE DEF n
  <2>6. SameList(m, n) /\ BottomRow(n) = BottomRow(u) /\ n.choice = 0
    BY <1>2, <2>2, <2>5 DEF SameList, BottomRow
  <2>7. Drawn(n, n.choice)
    BY <2>5, <2>6 DEF Drawn
  <2>8. QED
    BY <2>1, <2>5, <2>6, <2>7 DEF Shown
<1>3. CASE m.choice # 0
  <2>1. m.choice - 1 \in 0..BottomRow(m)
    BY <1>0, <1>3
  <2>2. print_item(m, m.choice, FALSE).choice = m.choice
    BY <1>0, ItemPrinted DEF Shown
  <2>3. ListUp(m) = print_item([print_item(m, m.choice, FALSE) EXCEPT !.choice = m.choice - 1],
                               m.choice - 1, TRUE)
    BY <1>3, <2>2 DEF ListUp
  <2>4. QED
    BY <2>1, <2>3, LightMoved
<1>4. QED
  BY <1>0, <1>1, <1>2, <1>3

(* The down key of a list.                                                 *)
LEMMA ListDownRight ==
  ASSUME NEW m, Shown(m), m.max_choice = Least(ListHeight, item_no(m))
  PROVE  Shown(ListDown(m)) /\ SameList(m, ListDown(m))
<1>0. /\ m.choice \in Nat /\ m.scroll \in Nat /\ BottomRow(m) \in Nat /\ item_no(m) \in Nat
      /\ m.choice \in 0..BottomRow(m) /\ BottomRow(m) = m.max_choice - 1 /\ m.max_choice \in Nat
  BY DEF Shown, IsWindow, BottomRow
<1>1. CASE m.choice = BottomRow(m) /\ Lit(m) >= item_no(m) - 1
  <2>1. ListDown(m) = m
    <3>1. ~(Lit(m) < item_no(m) - 1)
      BY <1>0, <1>1 DEF Lit
    <3>2. QED
      BY <1>1, <3>1 DEF ListDown
  <2>2. QED
    BY <2>1 DEF SameList
<1>2. CASE m.choice = BottomRow(m) /\ Lit(m) < item_no(m) - 1
  <2> DEFINE u == IF ListHeight > 1 THEN print_item(m, m.choice, FALSE) ELSE m
             n == print_item(ScrollUp(u), BottomRow(u), TRUE)
  <2>1. /\ IsWindow(u) /\ SameList(m, u)
        /\ u.scroll = m.scroll /\ u.choice = m.choice
        /\ BottomRow(m) > 0 => Dark(u)
    BY EdgeUnlit
  <2>2. BottomRow(u) = BottomRow(m) /\ item_no(u) = item_no(m) /\ u.max_choice = m.max_choice
    BY <2>1 DEF SameList, BottomRow, item_no
  <2>3. ListDown(m) = n
    <3>1. ListDown(m) = print_item(ScrollUp(IF ListHeight > 1 THEN print_item(m, BottomRow(m), FALSE) ELSE m),
                                   BottomRow(m), TRUE)
      <4>1. ~(Lit(m) >= item_no(m) - 1)
        BY <1>0, <1>2 DEF Lit
      <4>2. QED
        BY <1>2, <4>1 DEF ListDown
    <3>2. QED
      BY <1>2, <2>2, <3>1
  <2> HIDE DEF u
  <2>4. \A i \in 1..BottomRow(u) : Right(u, i, FALSE)
    <3>1. SUFFICES ASSUME NEW i \in 1..BottomRow(u)
                   PROVE  Right(u, i, FALSE)
      OBVIOUS
    <3>2. BottomRow(m) > 0 /\ i \in 0..BottomRow(u)
      BY <1>0, <2>2
    <3>3. QED
      BY <2>1, <3>2 DEF Dark
  <2>5. u.scroll + u.max_choice < item_no(u)
    <3>1. m.scroll + m.choice < item_no(m) - 1
      BY <1>2 DEF Lit
    <3>2. m.scroll + m.max_choice < item_no(m)
      BY <1>0, <1>2, <3>1
    <3>3. QED
      BY <2>1, <2>2, <3>2
  <2>6. /\ IsWindow(n) /\ SameList(u, n) /\ n.choice = u.choice
        /\ \A i \in 0..BottomRow(u) : Right(n, i, TRUE /\ i = BottomRow(u))
    BY <2>1, <2>4, <2>5, ScrolledUp
  <2> HIDE DEF n
  <2>7. SameList(m, n) /\ BottomRow(n) = BottomRow(u) /\ n.choice = BottomRow(u)
    BY <1>2, <2>1, <2>2, <2>6 DEF SameList, BottomRow
  <2>8. Drawn(n, n.choice)
    BY <2>6, <2>7 DEF Drawn
  <2>9. QED
    BY <2>3, <2>6, <2>7, <2>8 DEF Shown
<1>3. CASE m.choice # BottomRow(m)
  <2>1. m.choice + 1 \in 0..BottomRow(m)
    BY <1>0, <1>3
  <2>2. print_item(m, m.choice, FALSE).choice = m.choice
    BY <1>0, ItemPrinted DEF Shown
  <2>3. ListDown(m) = print_item([print_item(m, m.choice, FALSE) EXCEPT !.choice = m.choice + 1],
                                 m.choice + 1, TRUE)
    BY <1>3, <2>2 DEF ListDown
  <2>4. QED
    BY <2>1, <2>3, LightMoved
<1>4. Lit(m) >= item_no(m) - 1 \/ Lit(m) < item_no(m) - 1
  BY <1>0 DEF Lit
<1>5. QED
  BY <1>1, <1>2, <1>3, <1>4

(* The keys that move a list draw it right.                                *)
LEMMA ListMovedRight ==
  ASSUME NEW m, Shown(m), m.max_choice = Least(ListHeight, item_no(m)),
         NEW key, key \in {"up", "down"} \/ Found(m, 0, key) < m.max_choice
  PROVE  Shown(ListMoved(m, key)) /\ SameList(m, ListMoved(m, key))
<1>1. CASE key = "up"
  BY <1>1, ListUpRight DEF ListMoved
<1>2. CASE key = "down"
  BY <1>2, ListDownRight DEF ListMoved
<1>3. CASE key \notin {"up", "down"}
  <2> DEFINE i == Found(m, 0, key)
  <2>1. i \in 0..BottomRow(m)
    <3>1. m.max_choice \in Nat /\ i < m.max_choice
      BY <1>3 DEF Shown, IsWindow
    <3>2. i \in 0..BottomRow(m) \/ i = m.max_choice
      BY FoundInWindow DEF Shown
    <3>3. QED
      BY <3>1, <3>2
  <2>2. ListMoved(m, key) = print_item([print_item(m, m.choice, FALSE) EXCEPT !.choice = i], i, TRUE)
    BY <1>3 DEF ListMoved
  <2> HIDE DEF i
  <2>3. QED
    BY <2>1, <2>2, LightMoved
<1>4. QED
  BY <1>1, <1>2, <1>3

-----------------------------------------------------------------------------
(* Opening.                                                                *)

(* A menu opens with the current item in the window, whatever position     *)
(* lxdialog.scrltmp has.                                                   *)
LEMMA CurrentInWindow ==
  ASSUME NEW n \in Nat \ {0}, NEW max_choice, max_choice = Least(ListHeight, n),
         NEW current \in 0..(n - 1), NEW scrl \in Int,
         NEW scroll, scroll = IF scrl # NoFile /\ Fits(scrl, current, max_choice, n) THEN scrl
                              ELSE Centred(current, max_choice, n)
  PROVE  /\ max_choice \in 1..n
         /\ scroll \in 0..(n - max_choice)
         /\ current - scroll \in 0..(max_choice - 1)
<1>1. max_choice \in 1..n /\ max_choice \in Nat /\ n \in Nat /\ current \in Nat /\ current < n
  BY DialogsAssumption DEF Least
<1>2. CASE scrl # NoFile /\ Fits(scrl, current, max_choice, n)
  <2>1. /\ scroll = scrl /\ scroll \in Int
        /\ scroll <= current /\ scroll + max_choice > current
        /\ scroll >= 0 /\ scroll + max_choice <= n
    BY <1>2 DEF Fits
  <2>2. QED
    BY <1>1, <2>1
<1>3. CASE ~(scrl # NoFile /\ Fits(scrl, current, max_choice, n))
  <2> DEFINE h == max_choice \div 2
  <2>1. h \in Nat /\ 2 * h <= max_choice /\ max_choice <= 2 * h + 1
    BY <1>1
  <2>2. scroll = Centred(current, max_choice, n)
    BY <1>3
  <2>3. CASE current < h
    <3>1. scroll = 0
      <4>1. ~(current >= h)
        BY <1>1, <2>1, <2>3
      <4>2. QED
        BY <2>2, <2>3, <4>1 DEF Centred
    <3>2. QED
      BY <1>1, <2>1, <2>3, <3>1
  <2>4. CASE current >= h /\ current >= n - h
    <3>1. scroll = n - max_choice
      BY <1>1, <2>1, <2>2, <2>4 DEF Centred
    <3>2. QED
      BY <1>1, <2>1, <2>4, <3>1
  <2>5. CASE current >= h /\ current < n - h
    <3>1. scroll = current - h
      BY <1>1, <2>1, <2>2, <2>5 DEF Centred
    <3>2. QED
      BY <1>1, <2>1, <2>5, <3>1
  <2>6. QED
    BY <1>1, <2>1, <2>3, <2>4, <2>5
<1>4. QED
  BY <1>2, <1>3

(* What is printed when a window opens is right.                           *)
LEMMA PrintedIsShown ==
  ASSUME NEW m, WindowFields \subseteq DOMAIN m, m = [f \in DOMAIN m |-> m[f]],
         item_no(m) \in Nat, m.max_choice \in 1..item_no(m),
         m.scroll \in 0..(item_no(m) - m.max_choice), m.choice \in 0..(m.max_choice - 1)
  PROVE  Shown(Printed(m)) /\ SameList(m, Printed(m))
<1> DEFINE n == Printed(m)
<1>1. /\ DOMAIN n = DOMAIN m /\ n = [f \in DOMAIN n |-> n[f]]
      /\ \A f \in DOMAIN m : f # "screen" => n[f] = m[f]
      /\ n.screen = [i \in 0..(m.max_choice - 1) |-> Row0(m, i, i = m.choice)]
  BY DEF Printed, WindowFields
<1> HIDE DEF n
<1>2. SameList(m, n) /\ n.scroll = m.scroll /\ n.choice = m.choice
  BY <1>1 DEF SameList, WindowFields
<1>3. IsWindow(n)
  <2>1. item_no(n) = item_no(m) /\ BottomRow(n) = m.max_choice - 1
    BY <1>2 DEF SameList, item_no, BottomRow
  <2>2. n.screen = [i \in 0..BottomRow(n) |-> n.screen[i]]
    BY <1>1, <2>1
  <2>3. QED
    BY <1>1, <1>2, <2>1, <2>2 DEF IsWindow, SameList
<1>4. Drawn(n, n.choice)
  <2>1. ASSUME NEW i \in 0..BottomRow(n)
        PROVE  n.screen[i] = Row0(n, i, i = n.choice)
    <3>1. i \in 0..(m.max_choice - 1)
      BY <1>2 DEF SameList, BottomRow
    <3>2. n.screen[i] = Row0(m, i, i = m.choice)
      BY <1>1, <3>1
    <3>3. Row0(m, i, i = m.choice) = Row0(n, i, i = n.choice)
      BY <1>2 DEF Row0, SameList
    <3>4. QED
      BY <3>2, <3>3
  <2>2. QED
    BY <2>1 DEF Drawn, Right
<1>5. QED
  BY <1>2, <1>3, <1>4 DEF n, Shown

(* A menu opens right whatever was in lxdialog.scrltmp.                    *)
LEMMA MenuOpensRight ==
  ASSUME NEW letters \in Menus, NEW current \in 0..(Len(letters) - 1), scrltmp \in Int,
         OpenMenu(letters, current)
  PROVE  Shown(box') /\ box'.kind = "menu" /\ scrltmp' \in Int
<1> DEFINE items == Len(letters)
           max_choice == Least(ListHeight, items)
           fits == scrltmp # NoFile /\ Fits(scrltmp, current, max_choice, items)
           scroll == IF fits THEN scrltmp ELSE Centred(current, max_choice, items)
           m == [kind |-> "menu", letters |-> letters,
                 status |-> [i \in 0..(items - 1) |-> FALSE],
                 max_choice |-> max_choice, scroll |-> scroll, button |-> 0,
                 choice |-> current - scroll, screen |-> <<>>]
<1>1. box' = Printed(m)
  BY DEF OpenMenu
<1>2. items \in Nat \ {0}
  BY DialogsAssumption
<1>3. /\ max_choice \in 1..items
      /\ scroll \in 0..(items - max_choice)
      /\ current - scroll \in 0..(max_choice - 1)
  BY <1>2, CurrentInWindow
<1>4. scrltmp' \in Int
  <2>1. scrltmp' = scrltmp \/ scrltmp' = NoFile
    BY DEF OpenMenu
  <2>2. QED
    BY <2>1 DEF NoFile
<1> HIDE DEF max_choice, scroll
<1>5. /\ WindowFields \subseteq DOMAIN m /\ m = [f \in DOMAIN m |-> m[f]]
      /\ item_no(m) = items /\ m.max_choice = max_choice
      /\ m.scroll = scroll /\ m.choice = current - scroll /\ m.kind = "menu"
  BY DEF WindowFields, item_no
<1> HIDE DEF m
<1>6. Shown(Printed(m)) /\ SameList(m, Printed(m))
  BY <1>2, <1>3, <1>5, PrintedIsShown
<1>7. QED
  BY <1>1, <1>4, <1>5, <1>6 DEF SameList

(* A list opens with its first mark in the window.                         *)
LEMMA ListOpensRight ==
  ASSUME NEW letters \in Menus, NEW marked, NEW flag, OpenList(letters, marked, flag)
  PROVE  /\ Shown(box') /\ box'.kind = "list"
         /\ box'.max_choice = Least(ListHeight, item_no(box'))
<1> DEFINE items == Len(letters)
           status == [i \in 0..(items - 1) |-> i \in marked]
           max_choice == Least(ListHeight, items)
           first == FirstMarked(status)
           scroll == IF first >= ListHeight THEN first - ListHeight + 1 ELSE 0
           m == [kind |-> "list", letters |-> letters, status |-> status, flag |-> flag,
                 max_choice |-> max_choice, scroll |-> scroll,
                 choice |-> first - scroll, button |-> 0, screen |-> <<>>]
<1>1. box' = Printed(m)
  BY DEF OpenList
<1>2. items \in Nat \ {0}
  BY DialogsAssumption
<1>3. first \in 0..(items - 1)
  <2> DEFINE T == {i \in DOMAIN status : status[i] /\ i > 0}
  <2>1. first = IF T = {} THEN 0 ELSE Min(T)
    BY DEF FirstMarked
  <2>2. T \subseteq 0..(items - 1)
    OBVIOUS
  <2> HIDE DEF T, status, first, items
  <2>3. T \subseteq Nat
    BY <1>2, <2>2
  <2>4. T # {} => Min(T) \in T
    BY <2>3, HasLeast
  <2>5. 0 \in 0..(items - 1)
    BY <1>2
  <2>6. QED
    BY <2>1, <2>2, <2>4, <2>5
<1> HIDE DEF first
<1>4. /\ max_choice \in 1..items
      /\ scroll \in 0..(items - max_choice)
      /\ first - scroll \in 0..(max_choice - 1)
  BY <1>2, <1>3, DialogsAssumption DEF Least
<1> HIDE DEF max_choice, scroll
<1>5. /\ WindowFields \subseteq DOMAIN m /\ m = [f \in DOMAIN m |-> m[f]]
      /\ item_no(m) = items /\ m.max_choice = max_choice
      /\ m.scroll = scroll /\ m.choice = first - scroll /\ m.kind = "list"
  BY DEF WindowFields, item_no
<1> HIDE DEF m
<1>6. Shown(Printed(m)) /\ SameList(m, Printed(m))
  BY <1>2, <1>4, <1>5, PrintedIsShown
<1>7. item_no(Printed(m)) = items
  BY <1>5, <1>6 DEF SameList, item_no
<1>8. QED
  BY <1>1, <1>5, <1>6, <1>7 DEF SameList, max_choice

-----------------------------------------------------------------------------
(* The input field.                                                        *)

(* The least one is known by its being least.                              *)
LEMMA LeastIs ==
  ASSUME NEW T, T \subseteq Nat, NEW x \in T, \A y \in T : x <= y
  PROVE  Min(T) = x
<1>1. Min(T) \in T /\ \A y \in T : Min(T) <= y
  BY HasLeast
<1>2. Min(T) <= x /\ x <= Min(T) /\ x \in Nat /\ Min(T) \in Nat
  BY <1>1
<1>3. QED
  BY <1>2

Whole(f, S) == f = [i \in S |-> f[i]]

EndOf(b) == b.scroll + b.input_x

FieldNames == {"kind", "instr", "scroll", "button", "input_x", "columns"}
FieldRecord(b) == Whole(b, FieldNames) /\ b.kind = "input"

(* What FieldShown leaves out: behind the cursor the buffer may have the   *)
(* rest of an earlier text, but not in the columns that come into view     *)
(* when the field scrolls back.                                            *)
FieldText(b) ==
  /\ Whole(b.instr, 0..MAX_LEN)
  /\ b.scroll \in Nat
  /\ b.input_x \in 0..(Width - 1)
  /\ EndOf(b) <= MAX_LEN
  /\ b.instr[EndOf(b)] = NUL
  /\ \A i \in 0..(EndOf(b) - 1) : b.instr[i] # NUL
  /\ b.scroll > 0 =>
       /\ b.scroll + (Width - 1) <= MAX_LEN
       /\ \A i \in EndOf(b)..(b.scroll + (Width - 1)) : b.instr[i] = NUL

FieldColumns(b) ==
  /\ Whole(b.columns, 0..(Width - 1))
  /\ \A c \in 0..(Width - 1) : b.columns[c] = Columns(b.instr, b.scroll, b.input_x)[c]

IsField(b) == FieldRecord(b) /\ FieldText(b) /\ FieldColumns(b)

(* The cursor is where the text ends.                                      *)
LEMMA FieldTypes ==
  ASSUME NEW b, IsField(b)
  PROVE  /\ Width \in Nat /\ Width > 0 /\ MAX_LEN \in Nat
         /\ b.scroll \in Nat /\ b.input_x \in Nat /\ b.input_x < Width
         /\ EndOf(b) = b.scroll + b.input_x
         /\ EndOf(b) \in Nat /\ EndOf(b) <= MAX_LEN
         /\ strlen(b.instr) = EndOf(b)
         /\ DOMAIN b.instr = 0..MAX_LEN
<1>1. /\ Width \in Nat /\ Width > 0 /\ MAX_LEN \in Nat
      /\ b.scroll \in Nat /\ b.input_x \in Nat /\ b.input_x < Width
      /\ EndOf(b) = b.scroll + b.input_x
      /\ EndOf(b) \in Nat /\ EndOf(b) <= MAX_LEN
  BY DialogsAssumption, BoxAssumption DEF IsField, FieldText, EndOf
<1> DEFINE T == {i \in DOMAIN b.instr : b.instr[i] = NUL}
<1>2. DOMAIN b.instr = 0..MAX_LEN
  BY DEF IsField, FieldText, Whole
<1>3. T \subseteq Nat
  BY <1>1, <1>2
<1>4. EndOf(b) \in T
  BY <1>1, <1>2 DEF IsField, FieldText
<1>5. ASSUME NEW y \in T
      PROVE  EndOf(b) <= y
  <2>1. b.instr[y] = NUL /\ y \in Nat
    BY <1>3
  <2>2. y \notin 0..(EndOf(b) - 1)
    BY <2>1 DEF IsField, FieldText
  <2>3. QED
    BY <1>1, <2>1, <2>2
<1>6. strlen(b.instr) = Min(T)
  BY DEF strlen
<1> HIDE DEF T
<1>7. Min(T) = EndOf(b)
  BY <1>3, <1>4, <1>5, LeastIs
<1>8. QED
  BY <1>1, <1>2, <1>6, <1>7

(* One column of what the field should show.                               *)
LEMMA ColumnAt ==
  ASSUME NEW instr, NEW scroll, NEW count
  PROVE  /\ DOMAIN Columns(instr, scroll, count) = 0..(Width - 1)
         /\ \A c \in 0..(Width - 1) : Columns(instr, scroll, count)[c] =
              IF c < count /\ instr[scroll + c] # NUL THEN instr[scroll + c] ELSE Blank
         /\ Whole(Columns(instr, scroll, count), 0..(Width - 1))
BY DEF Columns, Whole

(* Columns that are right one by one are right.                            *)
LEMMA FieldDrawn ==
  ASSUME NEW b, FieldColumns(b)
  PROVE  b.columns = Columns(b.instr, b.scroll, b.input_x)
<1> DEFINE other   == Columns(b.instr, b.scroll, b.input_x)
           columns == b.columns
<1>1. Whole(other, 0..(Width - 1))
  BY ColumnAt
<1>2. Whole(columns, 0..(Width - 1)) /\ \A c \in 0..(Width - 1) : columns[c] = other[c]
  BY DEF FieldColumns
<1> HIDE DEF other, columns
<1>3. columns = other
  BY <1>1, <1>2 DEF Whole
<1>4. QED
  BY <1>3 DEF columns, other

(* What the columns of a field are.                                        *)
LEMMA FieldColumn ==
  ASSUME NEW b, IsField(b)
  PROVE  /\ DOMAIN b.columns = 0..(Width - 1)
         /\ \A c \in 0..(Width - 1) :
              b.columns[c] = IF c < b.input_x THEN b.instr[b.scroll + c] ELSE Blank
<1>1. FieldColumns(b)
  BY DEF IsField
<1>2. /\ DOMAIN b.columns = 0..(Width - 1)
      /\ \A c \in 0..(Width - 1) : b.columns[c] =
           IF c < b.input_x /\ b.instr[b.scroll + c] # NUL THEN b.instr[b.scroll + c] ELSE Blank
  BY <1>1, ColumnAt DEF FieldColumns, Whole
<1>3. ASSUME NEW c \in 0..(Width - 1), c < b.input_x
      PROVE  b.instr[b.scroll + c] # NUL
  <2>1. b.scroll + c \in 0..(EndOf(b) - 1)
    BY <1>3, FieldTypes
  <2>2. QED
    BY <2>1 DEF IsField, FieldText
<1>4. QED
  BY <1>2, <1>3

(* A character is typed at the end of the text.                            *)
LEMMA TypedRight ==
  ASSUME NEW b, IsField(b), NEW c \in Characters
  PROVE  IsField(Typed(b, c))
<1> DEFINE end == b.scroll + b.input_x
           instr == [b.instr EXCEPT ![end] = c, ![end + 1] = NUL]
           n == Typed(b, c)
<1>1. /\ Width \in Nat /\ Width > 0 /\ MAX_LEN \in Nat
      /\ b.scroll \in Nat /\ b.input_x \in Nat /\ b.input_x < Width
      /\ end = EndOf(b) /\ end \in Nat /\ end <= MAX_LEN
  BY FieldTypes
<1>2. c # NUL
  BY DialogsAssumption
<1>3. CASE end >= MAX_LEN
  <2>1. ~(end < MAX_LEN)
    BY <1>1, <1>3
  <2>2. Typed(b, c) = b
    BY <1>3, <2>1 DEF Typed
  <2>3. QED
    BY <2>2
<1>4. CASE end < MAX_LEN
  <2>1. /\ Whole(instr, 0..MAX_LEN)
        /\ instr[end] = c /\ instr[end + 1] = NUL
        /\ \A i \in 0..MAX_LEN : i # end /\ i # end + 1 => instr[i] = b.instr[i]
    <3> DEFINE old == b.instr
    <3>1. Whole(old, 0..MAX_LEN)
      BY DEF IsField, FieldText
    <3> HIDE DEF old, end
    <3>2. /\ end \in 0..MAX_LEN /\ end + 1 \in 0..MAX_LEN /\ end + 1 # end
          /\ instr = [[old EXCEPT ![end] = c] EXCEPT ![end + 1] = NUL]
      BY <1>1, <1>4 DEF old
    <3> HIDE DEF instr
    <3>3. QED
      BY <3>1, <3>2 DEF Whole, old
  <2> HIDE DEF instr
  <2>2. \A i \in 0..end : instr[i] # NUL
    BY <1>1, <1>2, <1>4, <2>1 DEF IsField, FieldText
  <2>3. CASE b.input_x = Width - 1
    <3> DEFINE columns == [Columns(instr, b.scroll + 1, Width - 1)
                             EXCEPT ![Width - 1] = b.columns[Width - 1]]
    <3>1. n = [b EXCEPT !.instr = instr, !.scroll = @ + 1, !.columns = columns]
      BY <1>1, <1>4, <2>3 DEF Typed, instr
    <3>2. b.columns[Width - 1] = Blank
      BY <1>1, <2>3, FieldColumn
    <3>3. /\ Whole(columns, 0..(Width - 1))
          /\ \A k \in 0..(Width - 1) :
               columns[k] = Columns(instr, b.scroll + 1, Width - 1)[k]
      <4> DEFINE other == Columns(instr, b.scroll + 1, Width - 1)
      <4>1. Whole(other, 0..(Width - 1)) /\ other[Width - 1] = Blank
        BY <1>1, ColumnAt
      <4> HIDE DEF other
      <4>2. columns = [other EXCEPT ![Width - 1] = Blank]
        BY <3>2 DEF other
      <4> HIDE DEF columns
      <4>3. Whole(columns, 0..(Width - 1)) /\ \A k \in 0..(Width - 1) : columns[k] = other[k]
        BY <4>1, <4>2 DEF Whole
      <4>4. QED
        BY <4>3 DEF other
    <3> HIDE DEF columns, n
    <3>4. /\ FieldRecord(n)
          /\ n.instr = instr /\ n.scroll = b.scroll + 1 /\ n.input_x = Width - 1
          /\ n.columns = columns
      <4>1. FieldRecord(b)
        BY DEF IsField
      <4>2. QED
        BY <2>3, <3>1, <4>1 DEF FieldRecord, FieldNames, Whole
    <3>5. (b.scroll + 1) + (Width - 1) = end + 1
      BY <1>1, <2>3
    <3>6. /\ b.scroll + 1 \in Nat /\ Width - 1 \in 0..(Width - 1)
          /\ end + 1 <= MAX_LEN
          /\ \A i \in 0..(end + 1 - 1) : instr[i] # NUL
          /\ \A i \in (end + 1)..(end + 1) : instr[i] = NUL
      BY <1>1, <1>4, <2>1, <2>2
    <3>7. EndOf(n) = end + 1
      BY <3>4, <3>5 DEF EndOf
    <3> HIDE DEF end
    <3>8. FieldText(n)
      BY <1>1, <2>1, <3>4, <3>5, <3>6, <3>7 DEF FieldText
    <3>9. FieldColumns(n)
      BY <3>3, <3>4 DEF FieldColumns
    <3>10. QED
      BY <3>4, <3>8, <3>9 DEF n, IsField
  <2>4. CASE b.input_x # Width - 1
    <3> DEFINE x == b.input_x + 1
               columns == [b.columns EXCEPT ![b.input_x] = c]
    <3>1. n = [b EXCEPT !.instr = instr, !.input_x = @ + 1, !.columns = columns]
      BY <1>1, <1>4, <2>4 DEF Typed, instr
    <3>2. /\ Whole(columns, 0..(Width - 1))
          /\ columns[b.input_x] = c
          /\ \A k \in 0..(Width - 1) : k # b.input_x => columns[k] = b.columns[k]
      <4> DEFINE old == b.columns
                 at == b.input_x
      <4>1. Whole(old, 0..(Width - 1)) /\ at \in 0..(Width - 1)
        BY DEF IsField, FieldColumns, FieldText
      <4>2. columns = [old EXCEPT ![at] = c]
        OBVIOUS
      <4> HIDE DEF old, at, columns
      <4>3. QED
        BY <4>1, <4>2 DEF Whole, old, at
    <3> HIDE DEF columns, n
    <3>3. /\ FieldRecord(n)
          /\ n.instr = instr /\ n.scroll = b.scroll /\ n.input_x = x
          /\ n.columns = columns
      <4>1. FieldRecord(b)
        BY DEF IsField
      <4>2. QED
        BY <3>1, <4>1 DEF FieldRecord, FieldNames, Whole
    <3>4. x \in 0..(Width - 1) /\ b.scroll + x = end + 1 /\ x \in Nat
      BY <1>1, <2>4
    <3>5. ASSUME NEW k \in 0..(Width - 1)
          PROVE  columns[k] = Columns(instr, b.scroll, x)[k]
      <4>1. Columns(instr, b.scroll, x)[k] =
              IF k < x /\ instr[b.scroll + k] # NUL THEN instr[b.scroll + k] ELSE Blank
        BY ColumnAt
      <4>2. CASE k = b.input_x
        <5>1. k < x /\ b.scroll + k = end
          BY <1>1, <4>2
        <5>2. instr[b.scroll + k] = c /\ columns[k] = c
          BY <2>1, <3>2, <4>2, <5>1
        <5>3. QED
          BY <1>2, <4>1, <5>1, <5>2
      <4>3. CASE k < b.input_x
        <5>1. b.scroll + k \in 0..(end - 1) /\ k < x
          BY <1>1, <4>3
        <5>2. instr[b.scroll + k] = b.instr[b.scroll + k] /\ instr[b.scroll + k] # NUL
          <6> DEFINE at == b.scroll + k
          <6>1. at \in 0..end /\ at \in 0..MAX_LEN /\ at # end /\ at # end + 1
            BY <1>1, <5>1
          <6> HIDE DEF at, end
          <6>2. instr[at] = b.instr[at] /\ instr[at] # NUL
            BY <2>1, <2>2, <6>1
          <6>3. QED
            BY <6>2 DEF at
        <5>3. columns[k] = b.instr[b.scroll + k]
          BY <1>1, <3>2, <4>3, FieldColumn
        <5>4. QED
          BY <4>1, <5>1, <5>2, <5>3
      <4>4. CASE k > b.input_x
        <5>1. ~(k < x)
          BY <1>1, <4>4
        <5>2. columns[k] = Blank
          BY <1>1, <3>2, <4>4, FieldColumn
        <5>3. QED
          BY <4>1, <5>1, <5>2
      <4>5. QED
        BY <1>1, <4>2, <4>3, <4>4
    <3>6. /\ end + 1 <= MAX_LEN
          /\ \A i \in 0..(end + 1 - 1) : instr[i] # NUL
          /\ instr[end + 1] = NUL
      <4>1. end + 1 <= MAX_LEN /\ 0..(end + 1 - 1) = 0..end
        BY <1>1, <1>4
      <4> HIDE DEF end
      <4>2. QED
        BY <2>1, <2>2, <4>1
    <3>7. ASSUME b.scroll > 0
          PROVE  /\ b.scroll + (Width - 1) <= MAX_LEN
                 /\ \A i \in (end + 1)..(b.scroll + (Width - 1)) : instr[i] = NUL
      <4>1. /\ b.scroll + (Width - 1) <= MAX_LEN
            /\ \A i \in end..(b.scroll + (Width - 1)) : b.instr[i] = NUL
        BY <1>1, <3>7 DEF IsField, FieldText
      <4> DEFINE last == b.scroll + (Width - 1)
      <4>2. last \in Nat /\ last <= MAX_LEN /\ end \in Nat
        BY <1>1, <4>1
      <4>3. \A i \in end..last : b.instr[i] = NUL
        BY <4>1
      <4> HIDE DEF end, last
      <4>4. ASSUME NEW i \in (end + 1)..last
            PROVE  instr[i] = NUL
        <5>1. i \in end..last /\ i \in 0..MAX_LEN /\ i # end
          BY <1>1, <4>2
        <5>2. CASE i = end + 1
          BY <2>1, <5>2
        <5>3. CASE i # end + 1
          <6>1. instr[i] = b.instr[i]
            BY <2>1, <5>1, <5>3
          <6>2. QED
            BY <4>3, <5>1, <6>1
        <5>4. QED
          BY <5>2, <5>3
      <4>5. QED
        BY <4>1, <4>4 DEF last
    <3>8. EndOf(n) = end + 1
      BY <3>3, <3>4 DEF EndOf
    <3>9. b.scroll \in Nat
      BY <1>1
    <3> HIDE DEF end, x
    <3>10. FieldText(n)
      BY <1>1, <2>1, <3>3, <3>4, <3>6, <3>7, <3>8, <3>9 DEF FieldText
    <3>11. FieldColumns(n)
      BY <3>2, <3>3, <3>5 DEF FieldColumns
    <3>12. QED
      BY <3>3, <3>10, <3>11 DEF n, IsField
  <2>5. QED
    BY <2>3, <2>4
<1>5. QED
  BY <1>1, <1>3, <1>4

(* At the left edge the field scrolls; else a character is deleted.        *)
LEMMA BackspacedRight ==
  ASSUME NEW b, IsField(b)
  PROVE  IsField(Backspaced(b))
<1> DEFINE end == b.scroll + b.input_x
           n   == Backspaced(b)
<1>1. /\ Width \in Nat /\ Width > 0 /\ MAX_LEN \in Nat
      /\ b.scroll \in Nat /\ b.input_x \in Nat /\ b.input_x < Width
      /\ end = EndOf(b) /\ end \in Nat /\ end <= MAX_LEN
      /\ strlen(b.instr) = end
  BY FieldTypes
<1>2. /\ FieldRecord(b)
      /\ Whole(b.instr, 0..MAX_LEN) /\ Whole(b.columns, 0..(Width - 1))
  BY DEF IsField, FieldText, FieldColumns
<1>3. CASE b.input_x = 0 /\ b.scroll = 0
  BY <1>3 DEF Backspaced
<1>4. CASE b.input_x > 0
  <2> DEFINE x       == b.input_x - 1
             instr   == [b.instr EXCEPT ![b.scroll + x] = NUL]
             columns == [b.columns EXCEPT ![x] = Blank]
             e       == b.scroll + x
  <2>1. /\ FieldRecord(n)
        /\ n.instr = instr /\ n.scroll = b.scroll /\ n.input_x = x /\ n.columns = columns
    <3> DEFINE c == [b EXCEPT !.input_x = @ - 1]
    <3>1. n = [c EXCEPT !.instr[c.scroll + c.input_x] = NUL, !.columns[c.input_x] = Blank]
      <4>1. b.input_x # 0 /\ ~(b.input_x = 0 /\ b.scroll = 0)
        BY <1>1, <1>4
      <4>2. QED
        BY <4>1 DEF Backspaced
    <3>2. /\ FieldRecord(c) /\ c.instr = b.instr /\ c.scroll = b.scroll
          /\ c.input_x = x /\ c.columns = b.columns
      BY <1>2 DEF FieldRecord, FieldNames, Whole
    <3> HIDE DEF c, n
    <3>3. QED
      BY <3>1, <3>2 DEF FieldRecord, FieldNames, Whole
  <2>2. /\ x \in 0..(Width - 1) /\ x \in Nat /\ e \in Nat /\ e + 1 = end
        /\ e \in 0..MAX_LEN /\ EndOf(n) = e
    BY <1>1, <1>4, <2>1 DEF EndOf
  <2>3. /\ Whole(instr, 0..MAX_LEN) /\ instr[e] = NUL
        /\ \A i \in 0..MAX_LEN : i # e => instr[i] = b.instr[i]
    <3> DEFINE old == b.instr
    <3>1. Whole(old, 0..MAX_LEN) /\ instr = [old EXCEPT ![e] = NUL]
      BY <1>2
    <3> HIDE DEF old, e, instr
    <3>2. QED
      BY <2>2, <3>1 DEF Whole, old
  <2>4. /\ Whole(columns, 0..(Width - 1)) /\ columns[x] = Blank
        /\ \A k \in 0..(Width - 1) : k # x => columns[k] = b.columns[k]
    <3> DEFINE old == b.columns
    <3>1. Whole(old, 0..(Width - 1)) /\ columns = [old EXCEPT ![x] = Blank]
      BY <1>2
    <3> HIDE DEF old, x, columns
    <3>2. QED
      BY <2>2, <3>1 DEF Whole, old
  <2> HIDE DEF instr, columns, n
  <2>5. \A i \in 0..(e - 1) : instr[i] # NUL
    <3>1. \A i \in 0..(end - 1) : b.instr[i] # NUL
      BY <1>1 DEF IsField, FieldText
    <3> HIDE DEF e, x
    <3>2. \A i \in 0..(e - 1) : i \in 0..(end - 1) /\ i \in 0..MAX_LEN /\ i # e
      BY <1>1, <2>2
    <3>3. QED
      BY <2>3, <3>1, <3>2
  <2>6. ASSUME b.scroll > 0
        PROVE  /\ b.scroll + (Width - 1) <= MAX_LEN
               /\ \A i \in e..(b.scroll + (Width - 1)) : instr[i] = NUL
    <3>1. /\ b.scroll + (Width - 1) <= MAX_LEN
          /\ \A i \in end..(b.scroll + (Width - 1)) : b.instr[i] = NUL
      BY <1>1, <2>6 DEF IsField, FieldText
    <3> HIDE DEF e, x
    <3>2. \A i \in e..(b.scroll + (Width - 1)) :
            i = e \/ (i \in end..(b.scroll + (Width - 1)) /\ i \in 0..MAX_LEN /\ i # e)
      BY <1>1, <2>2, <3>1
    <3>3. QED
      BY <2>3, <3>1, <3>2
  <2>7. ASSUME NEW k \in 0..(Width - 1)
        PROVE  columns[k] = Columns(instr, b.scroll, x)[k]
    <3>1. Columns(instr, b.scroll, x)[k] =
            IF k < x /\ instr[b.scroll + k] # NUL THEN instr[b.scroll + k] ELSE Blank
      BY ColumnAt
    <3>2. CASE k < x
      <4>1. b.scroll + k \in 0..(e - 1) /\ b.scroll + k \in 0..MAX_LEN /\ b.scroll + k # e
        BY <1>1, <2>2, <3>2
      <4>2. instr[b.scroll + k] = b.instr[b.scroll + k] /\ instr[b.scroll + k] # NUL
        BY <2>3, <2>5, <4>1
      <4>3. k # x /\ k < b.input_x
        BY <1>1, <2>2, <3>2
      <4>4. columns[k] = b.instr[b.scroll + k]
        BY <2>4, <4>3, FieldColumn
      <4>5. QED
        BY <3>1, <3>2, <4>2, <4>4
    <3>3. CASE k = x
      BY <2>2, <2>4, <3>1, <3>3
    <3>4. CASE k > x
      <4>1. ~(k < x) /\ ~(k < b.input_x) /\ k # x
        BY <1>1, <2>2, <3>4
      <4>2. columns[k] = Blank
        BY <2>4, <4>1, FieldColumn
      <4>3. QED
        BY <3>1, <4>1, <4>2
    <3>5. QED
      BY <2>2, <3>2, <3>3, <3>4
  <2>8. FieldText(n)
    <3>1. b.scroll \in Nat /\ e <= MAX_LEN
      BY <1>1, <2>2
    <3> HIDE DEF e, x
    <3>2. QED
      BY <2>1, <2>2, <2>3, <2>5, <2>6, <3>1 DEF FieldText
  <2>9. FieldColumns(n)
    <3> HIDE DEF e, x
    <3>1. QED
      BY <2>1, <2>4, <2>7 DEF FieldColumns
  <2>10. QED
    BY <2>1, <2>8, <2>9 DEF n, IsField
<1>5. CASE b.input_x = 0 /\ b.scroll > 0
  <2> DEFINE scroll  == IF b.scroll < Width - 1 THEN 0 ELSE b.scroll - (Width - 1)
             x       == end - scroll
             whole   == Columns(b.instr, scroll, Width)
             columns == [whole EXCEPT ![x] = Blank]
             instr   == [b.instr EXCEPT ![scroll + x] = NUL]
  <2>1. /\ scroll \in Nat /\ x \in Nat /\ x \in 0..(Width - 1) /\ scroll + x = end
        /\ end = b.scroll /\ end \in 0..MAX_LEN
        /\ scroll + (Width - 1) <= b.scroll + (Width - 1)
        /\ scroll > 0 => scroll + (Width - 1) = end
    BY <1>1, <1>5
  <2>2. /\ FieldRecord(n)
        /\ n.instr = instr /\ n.scroll = scroll /\ n.input_x = x /\ n.columns = columns
    <3> DEFINE c == FieldBack(b)
    <3>1. n = [c EXCEPT !.instr[c.scroll + c.input_x] = NUL, !.columns[c.input_x] = Blank]
      BY <1>1, <1>5 DEF Backspaced
    <3>2. /\ FieldRecord(c) /\ c.instr = b.instr /\ c.scroll = scroll
          /\ c.input_x = x /\ c.columns = whole
      <4>1. c = [b EXCEPT !.scroll = scroll, !.columns = whole, !.input_x = x]
        BY <1>1 DEF FieldBack
      <4> HIDE DEF c, scroll, whole, x
      <4>2. QED
        BY <1>2, <4>1 DEF FieldRecord, FieldNames, Whole
    <3> HIDE DEF c, n, scroll, whole, x
    <3>3. QED
      BY <3>1, <3>2 DEF FieldRecord, FieldNames, Whole
  <2>3. instr = b.instr
    <3> DEFINE old == b.instr
    <3>1. Whole(old, 0..MAX_LEN) /\ instr = [old EXCEPT ![end] = NUL] /\ old[end] = NUL
      BY <1>1, <1>2, <2>1 DEF IsField, FieldText
    <3> HIDE DEF old, end, instr
    <3>2. instr = old
      BY <2>1, <3>1 DEF Whole
    <3>3. QED
      BY <3>2 DEF old
  <2>4. /\ Whole(columns, 0..(Width - 1)) /\ columns[x] = Blank
        /\ \A k \in 0..(Width - 1) : k # x => columns[k] = whole[k]
    <3>1. Whole(whole, 0..(Width - 1))
      BY ColumnAt
    <3> HIDE DEF whole, x
    <3>2. QED
      BY <2>1, <3>1 DEF Whole
  <2>5. /\ b.scroll + (Width - 1) <= MAX_LEN
        /\ \A i \in end..(b.scroll + (Width - 1)) : b.instr[i] = NUL
    BY <1>1, <1>5 DEF IsField, FieldText
  <2> HIDE DEF instr, columns, n
  <2>6. ASSUME NEW k \in 0..(Width - 1)
        PROVE  columns[k] = Columns(b.instr, scroll, x)[k]
    <3>1. /\ Columns(b.instr, scroll, x)[k] =
               IF k < x /\ b.instr[scroll + k] # NUL THEN b.instr[scroll + k] ELSE Blank
          /\ whole[k] =
               IF k < Width /\ b.instr[scroll + k] # NUL THEN b.instr[scroll + k] ELSE Blank
      BY ColumnAt
    <3>2. k < Width /\ k \in Nat
      BY <1>1
    <3> HIDE DEF whole, scroll
    <3>3. CASE k < x
      <4>1. k # x
        BY <2>1, <3>2, <3>3
      <4>2. QED
        BY <2>4, <3>1, <3>2, <3>3, <4>1
    <3>4. CASE k = x
      BY <2>1, <2>4, <3>1, <3>4
    <3>5. CASE k > x
      <4>1. k # x /\ ~(k < x) /\ scroll + k \in end..(b.scroll + (Width - 1))
        BY <1>1, <2>1, <3>2, <3>5
      <4>2. b.instr[scroll + k] = NUL
        BY <2>5, <4>1
      <4>3. QED
        BY <2>4, <3>1, <4>1, <4>2
    <3>6. QED
      BY <2>1, <3>2, <3>3, <3>4, <3>5
  <2>7. EndOf(n) = end
    BY <2>1, <2>2 DEF EndOf
  <2>8. FieldText(n)
    <3>1. b.instr[end] = NUL /\ \A i \in 0..(end - 1) : b.instr[i] # NUL
      BY <1>1 DEF IsField, FieldText
    <3>2. scroll > 0 => /\ scroll + (Width - 1) <= MAX_LEN
                        /\ \A i \in end..(scroll + (Width - 1)) : b.instr[i] = NUL
      BY <1>1, <2>1, <2>5
    <3> HIDE DEF end, scroll, x
    <3>3. QED
      BY <1>1, <1>2, <2>1, <2>2, <2>3, <2>7, <3>1, <3>2 DEF FieldText
  <2>9. FieldColumns(n)
    <3> HIDE DEF end, scroll, x
    <3>1. QED
      BY <2>2, <2>3, <2>4, <2>6 DEF FieldColumns
  <2>10. QED
    BY <2>2, <2>8, <2>9 DEF n, IsField
<1>6. QED
  BY <1>1, <1>3, <1>4, <1>5

(* An initial value is copied over the last text, of which the rest stays. *)
LEMMA InputOpensRight ==
  ASSUME NEW init \in Values, Whole(dialog_input_result, 0..MAX_LEN), OpenInput(init)
  PROVE  IsField(box')
<1> DEFINE old     == dialog_input_result
           len     == Len(init)
           instr   == strcpy(old, init)
           scroll  == IF len >= Width THEN len - Width + 1 ELSE 0
           x       == len - scroll
           columns == Columns(instr, scroll, x)
           n       == [kind |-> "input", instr |-> instr, scroll |-> scroll, button |-> Field,
                       input_x |-> x, columns |-> columns]
<1>1. box' = n
  BY DEF OpenInput
<1>2. /\ Width \in Nat /\ Width > 0 /\ MAX_LEN \in Nat
      /\ len \in 0..MAX_LEN /\ \A i \in 1..len : init[i] # NUL
  BY DialogsAssumption, BoxAssumption
<1> HIDE DEF len
<1>3. /\ scroll \in Nat /\ x \in 0..(Width - 1) /\ scroll + x = len
      /\ scroll > 0 => scroll + (Width - 1) = len
  BY <1>2
<1>4. /\ Whole(instr, 0..MAX_LEN)
      /\ instr[len] = NUL
      /\ \A i \in 0..(len - 1) : instr[i] # NUL
  <2>1. DOMAIN old = 0..MAX_LEN
    BY DEF Whole
  <2> HIDE DEF old
  <2>2. instr = [i \in 0..MAX_LEN |-> IF i < len THEN init[i + 1]
                                      ELSE IF i = len THEN NUL ELSE old[i]]
    BY <2>1 DEF strcpy, len
  <2> HIDE DEF instr
  <2>3. Whole(instr, 0..MAX_LEN) /\ instr[len] = NUL
    BY <1>2, <2>2 DEF Whole
  <2>4. ASSUME NEW i \in 0..(len - 1)
        PROVE  instr[i] # NUL
    <3>1. i \in 0..MAX_LEN /\ i < len /\ i + 1 \in 1..len
      BY <1>2
    <3>2. instr[i] = init[i + 1]
      BY <2>2, <3>1
    <3>3. QED
      BY <1>2, <3>1, <3>2
  <2>5. QED
    BY <2>3, <2>4
<1> HIDE DEF instr, scroll, x
<1>5. /\ Whole(columns, 0..(Width - 1))
      /\ \A c \in 0..(Width - 1) : columns[c] = Columns(instr, scroll, x)[c]
  BY ColumnAt
<1> HIDE DEF columns
<1>6. /\ FieldRecord(n) /\ n.instr = instr /\ n.scroll = scroll /\ n.input_x = x
      /\ n.columns = columns
  BY DEF FieldRecord, FieldNames, Whole
<1> HIDE DEF n
<1>7. EndOf(n) = len
  BY <1>3, <1>6 DEF EndOf
<1>8. FieldText(n)
  BY <1>2, <1>3, <1>4, <1>6, <1>7 DEF FieldText
<1>9. FieldColumns(n)
  BY <1>5, <1>6 DEF FieldColumns
<1>10. QED
  BY <1>1, <1>6, <1>8, <1>9 DEF IsField

-----------------------------------------------------------------------------
(* Sessions.                                                               *)

(* The buttons are drawn apart.                                            *)
LEMMA ButtonOfWindow ==
  ASSUME NEW m, Shown(m), NEW button
  PROVE  LET n == [m EXCEPT !.button = button]
         IN  /\ Shown(n) /\ n.kind = m.kind
             /\ n.max_choice = m.max_choice /\ item_no(n) = item_no(m)
<1> DEFINE n == [m EXCEPT !.button = button]
<1>1. /\ DOMAIN n = DOMAIN m /\ n = [f \in DOMAIN n |-> n[f]]
      /\ \A f \in DOMAIN m : f # "button" => n[f] = m[f]
  BY DEF Shown, IsWindow, WindowFields
<1> HIDE DEF n
<1>2. /\ n.kind = m.kind /\ n.letters = m.letters /\ n.status = m.status
      /\ n.max_choice = m.max_choice /\ n.scroll = m.scroll /\ n.choice = m.choice
      /\ n.screen = m.screen
  BY <1>1 DEF Shown, IsWindow, WindowFields
<1>3. IsWindow(n)
  BY <1>1, <1>2 DEF Shown, IsWindow, item_no, BottomRow
<1>4. Drawn(n, n.choice)
  BY <1>2 DEF Shown, Drawn, Right, Row0, BottomRow
<1>5. QED
  BY <1>2, <1>3, <1>4 DEF Shown, n, item_no

(* The same of the field.                                                  *)
LEMMA ButtonOfField ==
  ASSUME NEW b, IsField(b), NEW button
  PROVE  IsField([b EXCEPT !.button = button])
<1> DEFINE n == [b EXCEPT !.button = button]
<1>1. /\ FieldRecord(n) /\ n.instr = b.instr /\ n.scroll = b.scroll
      /\ n.input_x = b.input_x /\ n.columns = b.columns
  <2>1. FieldRecord(b)
    BY DEF IsField
  <2>2. QED
    BY <2>1 DEF FieldRecord, FieldNames, Whole
<1> HIDE DEF n
<1>2. EndOf(n) = EndOf(b)
  BY <1>1 DEF EndOf
<1>3. FieldText(n)
  BY <1>1, <1>2 DEF IsField, FieldText
<1>4. FieldColumns(n)
  BY <1>1 DEF IsField, FieldColumns
<1>5. QED
  BY <1>1, <1>3, <1>4 DEF n, IsField

-----------------------------------------------------------------------------
(* What a text box keeps of its file.                                      *)

TextFields ==
  {"file", "fpos", "bytes_read", "page", "begin_reached", "end_reached", "hscroll",
   "page_length", "passed_end", "rows", "internal_error", "stale"}

IsText(t) ==
  /\ t = [f \in TextFields |-> t[f]]
  /\ t.file \in Seq({"n", "x"})
  /\ t.rows = [i \in 1..Rows |-> t.rows[i]]
  /\ t.begin_reached \in BOOLEAN /\ t.end_reached \in BOOLEAN /\ t.passed_end \in BOOLEAN
  /\ t.page_length \in Nat

(* The buffer is full unless it reaches to the end of the file.            *)
Buffered(t) ==
  /\ t.fpos \in Nat /\ t.bytes_read \in Nat /\ t.page \in Nat
  /\ t.page <= t.bytes_read /\ t.bytes_read <= t.fpos /\ t.fpos <= Len(t.file)
  /\ t.fpos < Len(t.file) => t.bytes_read = BUF_SIZE

Sound(t) == IsText(t) /\ Buffered(t)

(* What moving in the file leaves alone.                                   *)
Kept(t, u) ==
  /\ u.file = t.file /\ u.hscroll = t.hscroll /\ u.rows = t.rows
  /\ u.page_length = t.page_length /\ u.passed_end = t.passed_end
  /\ u.internal_error = t.internal_error /\ u.stale = t.stale
  /\ u.end_reached = t.end_reached

Moved(t, u) == IsText(u) /\ Kept(t, u) /\ u.begin_reached = t.begin_reached

(* The buffer holds the bytes up to fpos, and page points into it.         *)
Placed(t, u, fpos, bytes_read, page) ==
  Moved(t, u) /\ u.fpos = fpos /\ u.bytes_read = bytes_read /\ u.page = page

LEMMA PageSet ==
  ASSUME NEW t, IsText(t), NEW page, NEW u, u = [t EXCEPT !.page = page]
  PROVE  Placed(t, u, t.fpos, t.bytes_read, page)
<1>1. /\ u = [f \in TextFields |-> u[f]]
      /\ u.page = page
      /\ \A f \in TextFields \ {"page"} : u[f] = t[f]
  BY DEF IsText, TextFields
<1>2. Moved(t, u) /\ u.fpos = t.fpos /\ u.bytes_read = t.bytes_read
  BY <1>1 DEF Moved, Kept, IsText, TextFields
<1>3. QED
  BY <1>1, <1>2 DEF Placed

LEMMA MinOfTwo ==
  ASSUME NEW a \in Int, NEW b \in Int
  PROVE  Min({a, b}) = IF a <= b THEN a ELSE b
BY DEF Min

LEMMA BoxSizes ==
  /\ BUF_SIZE \in Nat /\ BUF_SIZE \div 2 \in Nat \ {0}
  /\ BUF_SIZE = (BUF_SIZE \div 2) + (BUF_SIZE \div 2)
  /\ Rows \in Nat \ {0}
BY BoxAssumption

LEMMA FileLength ==
  ASSUME NEW t, IsText(t)
  PROVE  Len(t.file) \in Nat /\ file_size(t) = Len(t.file)
BY DEF IsText, file_size

(* As much as there is of the file at an offset is read.                   *)
HasRead(t, u, at) ==
  /\ Moved(t, u) /\ u.page = t.page
  /\ u.fpos \in Nat /\ u.bytes_read = u.fpos - at
  /\ at <= u.fpos /\ u.fpos <= Len(t.file)
  /\ u.fpos = at + BUF_SIZE \/ (u.fpos = Len(t.file) /\ u.fpos <= at + BUF_SIZE)

LEMMA ReadRight ==
  ASSUME NEW t, IsText(t), NEW at \in 0..Len(t.file)
  PROVE  HasRead(t, ReadFrom(t, at), at)
<1> DEFINE end == Min({at + BUF_SIZE, file_size(t)})
           u == [t EXCEPT !.fpos = end, !.bytes_read = end - at]
<1>1. Len(t.file) \in Nat /\ file_size(t) = Len(t.file) /\ BUF_SIZE \in Nat
  BY FileLength, BoxSizes
<1>2. end = IF at + BUF_SIZE <= Len(t.file) THEN at + BUF_SIZE ELSE Len(t.file)
  BY <1>1, MinOfTwo
<1>3. /\ end \in Nat /\ at <= end /\ end <= Len(t.file)
      /\ end = at + BUF_SIZE \/ (end = Len(t.file) /\ end <= at + BUF_SIZE)
  BY <1>1, <1>2
<1> HIDE DEF end
<1>4. /\ u = [f \in TextFields |-> u[f]]
      /\ u.fpos = end /\ u.bytes_read = end - at
      /\ \A f \in TextFields \ {"fpos", "bytes_read"} : u[f] = t[f]
  BY DEF IsText, TextFields
<1> HIDE DEF u
<1>5. Moved(t, u) /\ u.page = t.page
  BY <1>4 DEF Moved, Kept, IsText, TextFields
<1>6. HasRead(t, u, at)
  BY <1>3, <1>4, <1>5 DEF HasRead
<1>7. QED
  BY <1>6 DEF u, end, ReadFrom

LEMMA Places ==
  ASSUME NEW t, Sound(t)
  PROVE  /\ Len(t.file) \in Nat /\ At(t) \in 0..Len(t.file)
         /\ At(t) = (t.fpos - t.bytes_read) + t.page
         /\ AtNewline(t) => t.page < t.bytes_read /\ t.file[At(t) + 1] = "n" /\ At(t) < Len(t.file)
         /\ At(t) = Len(t.file) <=> AtBufferEnd(t) /\ t.fpos = Len(t.file)
<1>1. /\ Len(t.file) \in Nat
      /\ t.fpos \in Nat /\ t.bytes_read \in Nat /\ t.page \in Nat
      /\ t.page <= t.bytes_read /\ t.bytes_read <= t.fpos /\ t.fpos <= Len(t.file)
  BY FileLength DEF Sound, Buffered
<1>2. At(t) = (t.fpos - t.bytes_read) + t.page
  BY DEF At, Base
<1>3. At(t) \in 0..Len(t.file)
  BY <1>1, <1>2
<1>4. At(t) = Len(t.file) <=> t.page = t.bytes_read /\ t.fpos = Len(t.file)
  BY <1>1, <1>2
<1>5. t.page < t.bytes_read => At(t) < Len(t.file)
  BY <1>1, <1>2
<1>6. QED
  BY <1>1, <1>2, <1>3, <1>4, <1>5 DEF AtNewline, AtBufferEnd

LEMMA MovedTwice ==
  ASSUME NEW t, NEW u, NEW v, Moved(t, u), Moved(u, v)
  PROVE  Moved(t, v)
BY DEF Moved, Kept

(* A part of the file is read in, and page points into it.                 *)
ReadIn(t, u, v, at, page) ==
  /\ Sound(v) /\ Moved(t, v)
  /\ At(v) = at + page
  /\ v.page = page /\ v.fpos = u.fpos /\ v.bytes_read = u.bytes_read

LEMMA ReadIsBuffered ==
  ASSUME NEW t, NEW u, NEW v, NEW at \in Nat, IsText(t), NEW page \in Nat,
         HasRead(t, u, at), v = [u EXCEPT !.page = page], at + page <= u.fpos
  PROVE  ReadIn(t, u, v, at, page)
<1>1. Len(t.file) \in Nat /\ BUF_SIZE \in Nat
  BY FileLength, BoxSizes
<1>2. IsText(u) /\ Moved(t, u)
  BY DEF HasRead, Moved
<1>3. Placed(u, v, u.fpos, u.bytes_read, page)
  BY <1>2, PageSet
<1>4. Moved(t, v) /\ v.file = t.file /\ IsText(v)
  BY <1>2, <1>3, MovedTwice DEF Placed, Moved, Kept
<1>5. v.fpos = u.fpos /\ v.bytes_read = u.bytes_read /\ v.page = page
  BY <1>3 DEF Placed
<1>6. /\ u.fpos \in Nat /\ u.bytes_read = u.fpos - at /\ at <= u.fpos /\ u.fpos <= Len(t.file)
      /\ u.fpos = at + BUF_SIZE \/ u.fpos = Len(t.file)
  BY DEF HasRead
<1>7. Buffered(v)
  BY <1>1, <1>4, <1>5, <1>6 DEF Buffered
<1>8. At(v) = at + page
  BY <1>5, <1>6 DEF At, Base
<1>9. QED
  BY <1>4, <1>5, <1>7, <1>8 DEF Sound, ReadIn

-----------------------------------------------------------------------------
(* get_line: a step of the loop.                                           *)

AheadEnds(t) == AtNewline(t) \/ At(t) = Len(t.file)

SteppedAhead(t, u) ==
  /\ Sound(u) /\ Moved(t, u)
  /\ \/ AheadEnds(t) /\ u = t
     \/ /\ ~AheadEnds(t)
        /\ \/ At(u) = At(t) /\ AtBufferEnd(t) /\ ~AtBufferEnd(u)
           \/ At(u) = At(t) + 1 /\ ~AtBufferEnd(t) /\ t.file[At(t) + 1] # "n"

LEMMA AheadSteps ==
  ASSUME NEW t, Sound(t)
  PROVE  SteppedAhead(t, Ahead(t))
<1>1. /\ Len(t.file) \in Nat /\ At(t) \in 0..Len(t.file)
      /\ At(t) = (t.fpos - t.bytes_read) + t.page
      /\ At(t) = Len(t.file) <=> AtBufferEnd(t) /\ t.fpos = Len(t.file)
  BY Places
<1>2. /\ IsText(t) /\ file_size(t) = Len(t.file)
      /\ t.fpos \in Nat /\ t.bytes_read \in Nat /\ t.page \in Nat
      /\ t.page <= t.bytes_read /\ t.bytes_read <= t.fpos /\ t.fpos <= Len(t.file)
      /\ t.fpos < Len(t.file) => t.bytes_read = BUF_SIZE
  BY FileLength DEF Sound, Buffered
<1>3. Moved(t, t)
  BY <1>2 DEF Moved, Kept
<1>4. CASE AheadEnds(t)
  <2>1. Ahead(t) = t
    BY <1>1, <1>2, <1>4 DEF Ahead, AheadEnds, AtBufferEnd, AtNewline
  <2>2. QED
    BY <1>3, <1>4, <2>1 DEF SteppedAhead
<1>5. CASE ~AheadEnds(t) /\ AtBufferEnd(t)
  <2>1. ~AtNewline(t) /\ t.fpos < Len(t.file)
    BY <1>1, <1>2, <1>5 DEF AheadEnds
  <2> DEFINE r == ReadFrom(t, t.fpos)
             u == [r EXCEPT !.page = 0]
  <2>2. Ahead(t) = u
    BY <1>2, <1>5, <2>1 DEF Ahead
  <2>3. t.fpos \in 0..Len(t.file)
    BY <1>2
  <2>4. HasRead(t, r, t.fpos)
    BY <1>2, <2>3, ReadRight
  <2> HIDE DEF r
  <2>5. t.fpos + 0 <= r.fpos /\ r.fpos > t.fpos /\ r.bytes_read = r.fpos - t.fpos /\ r.fpos \in Nat
    BY <1>1, <1>2, <2>1, <2>4, BoxSizes DEF HasRead
  <2>6. ReadIn(t, r, u, t.fpos, 0)
    <3>1. u = [r EXCEPT !.page = 0] /\ 0 \in Nat
      OBVIOUS
    <3> HIDE DEF u
    <3>2. QED
      BY <1>2, <2>4, <2>5, <3>1, ReadIsBuffered
  <2> HIDE DEF u
  <2>7. At(u) = At(t) /\ ~AtBufferEnd(u)
    BY <1>1, <1>2, <1>5, <2>5, <2>6 DEF AtBufferEnd, ReadIn
  <2>8. QED
    BY <1>5, <2>2, <2>6, <2>7 DEF SteppedAhead, ReadIn
<1>6. CASE ~AheadEnds(t) /\ ~AtBufferEnd(t)
  <2> DEFINE u == [t EXCEPT !.page = t.page + 1]
  <2>1. ~AtNewline(t)
    BY <1>6 DEF AheadEnds
  <2>2. Ahead(t) = u
    BY <1>6, <2>1 DEF Ahead
  <2>3. Placed(t, u, t.fpos, t.bytes_read, t.page + 1)
    BY <1>2, PageSet
  <2> HIDE DEF u
  <2>4. Moved(t, u) /\ IsText(u) /\ u.file = t.file
        /\ u.fpos = t.fpos /\ u.bytes_read = t.bytes_read /\ u.page = t.page + 1
    BY <2>3 DEF Placed, Moved, Kept
  <2>5. t.page < t.bytes_read
    BY <1>2, <1>6 DEF AtBufferEnd
  <2>6. Sound(u)
    BY <1>2, <2>4, <2>5 DEF Sound, Buffered
  <2>7. At(u) = At(t) + 1
    BY <1>1, <1>2, <2>4 DEF At, Base
  <2>8. t.file[At(t) + 1] # "n"
    BY <2>1, <2>5 DEF AtNewline
  <2>9. QED
    BY <1>6, <2>2, <2>4, <2>6, <2>7, <2>8 DEF SteppedAhead
<1>7. QED
  BY <1>4, <1>5, <1>6

(* What it has gone through after so many steps.                           *)
GoneAhead(t, u, k) ==
  /\ Sound(u) /\ Moved(t, u)
  /\ At(t) <= At(u)
  /\ \A o \in (At(t) + 1)..At(u) : t.file[o] # "n"
  /\ AheadEnds(u) \/ 2 * At(u) + (IF AtBufferEnd(u) THEN 0 ELSE 1) >= k

LEMMA GoesAhead ==
  ASSUME NEW t, NEW u, NEW k \in Nat, Sound(t), GoneAhead(t, u, k)
  PROVE  GoneAhead(t, Ahead(u), k + 1)
<1> DEFINE v == Ahead(u)
<1>1. Sound(u) /\ Moved(t, u) /\ At(t) <= At(u) /\ u.file = t.file
  BY DEF GoneAhead, Moved, Kept
<1>2. SteppedAhead(u, v)
  BY <1>1, AheadSteps
<1> SUFFICES GoneAhead(t, v, k + 1)
  OBVIOUS
<1> HIDE DEF v
<1>3. Sound(v) /\ Moved(t, v) /\ v.file = t.file
  BY <1>1, <1>2, MovedTwice DEF SteppedAhead, Moved, Kept
<1>4. At(t) \in Nat /\ At(u) \in Nat /\ At(v) \in Nat
  BY <1>1, <1>3, Places
<1>5. CASE AheadEnds(u) /\ v = u
  BY <1>5 DEF GoneAhead
<1>6. CASE ~AheadEnds(u) /\ At(v) = At(u) /\ AtBufferEnd(u) /\ ~AtBufferEnd(v)
  <2>1. 2 * At(u) + 0 >= k
    BY <1>6 DEF GoneAhead
  <2>2. 2 * At(v) + (IF AtBufferEnd(v) THEN 0 ELSE 1) >= k + 1
    BY <1>4, <1>6, <2>1
  <2>3. QED
    BY <1>1, <1>3, <1>6, <2>2 DEF GoneAhead
<1>7. CASE ~AheadEnds(u) /\ At(v) = At(u) + 1 /\ ~AtBufferEnd(u) /\ u.file[At(u) + 1] # "n"
  <2>1. 2 * At(u) + 1 >= k
    BY <1>7 DEF GoneAhead
  <2>2. 2 * At(v) + (IF AtBufferEnd(v) THEN 0 ELSE 1) >= k + 1
    BY <1>4, <1>7, <2>1
  <2>3. \A o \in (At(t) + 1)..At(v) : t.file[o] # "n"
    <3> SUFFICES ASSUME NEW o \in (At(t) + 1)..At(v) PROVE t.file[o] # "n"
      OBVIOUS
    <3>1. CASE o = At(u) + 1
      BY <1>1, <1>7, <3>1
    <3>2. CASE o # At(u) + 1
      <4>1. o \in (At(t) + 1)..At(u)
        BY <1>4, <1>7, <3>2
      <4>2. QED
        BY <4>1 DEF GoneAhead
    <3>3. QED
      BY <3>1, <3>2
  <2>4. At(t) <= At(v)
    BY <1>1, <1>4, <1>7
  <2>5. QED
    BY <1>3, <2>2, <2>3, <2>4 DEF GoneAhead
<1>8. QED
  BY <1>2, <1>5, <1>6, <1>7 DEF SteppedAhead

-----------------------------------------------------------------------------
(* What each loop goes through.                                             *)
LEMMA RepeatedAhead ==
  ASSUME NEW t, NEW n \in Nat
  PROVE  \E f : Went(f, "ahead", t, n) /\ Repeated(Ahead, t, n) = f[n]
<1> DEFINE Is(f) == f = [i \in 0..n |-> IF i = 0 THEN t ELSE Ahead(f[i - 1])]
<1>1. \A i, x : Body("ahead", i, x) = Ahead(x)
  BY DEF Body
<1>2. \E f : Is(f)
  <2> "ahead" \in Loops
    BY DEF Loops
  <2>1. PICK f : Went(f, "ahead", t, n)
    BY LoopRuns
  <2>2. f = [i \in 0..n |-> f[i]] /\ \A i \in 0..n : f[i] = IF i = 0 THEN t ELSE Ahead(f[i - 1])
    BY <1>1, <2>1 DEF Went
  <2>3. Is(f)
    BY <2>2
  <2>4. QED
    BY <2>3
<1>3. Is(CHOOSE f : Is(f))
  BY <1>2
<1>4. Repeated(Ahead, t, n) = (CHOOSE f : Is(f))[n]
  BY DEF Repeated
<1>5. ASSUME NEW f, Is(f)
      PROVE  Went(f, "ahead", t, n)
  BY <1>1, <1>5 DEF Went
<1> HIDE DEF Is
<1>6. QED
  BY <1>3, <1>4, <1>5

LEMMA RepeatedBehind ==
  ASSUME NEW t, NEW n \in Nat
  PROVE  \E f : Went(f, "behind", t, n) /\ Repeated(Behind, t, n) = f[n]
<1> DEFINE Is(f) == f = [i \in 0..n |-> IF i = 0 THEN t ELSE Behind(f[i - 1])]
<1>1. \A i, x : Body("behind", i, x) = Behind(x)
  BY DEF Body
<1>2. \E f : Is(f)
  <2> "behind" \in Loops
    BY DEF Loops
  <2>1. PICK f : Went(f, "behind", t, n)
    BY LoopRuns
  <2>2. f = [i \in 0..n |-> f[i]] /\ \A i \in 0..n : f[i] = IF i = 0 THEN t ELSE Behind(f[i - 1])
    BY <1>1, <2>1 DEF Went
  <2>3. Is(f)
    BY <2>2
  <2>4. QED
    BY <2>3
<1>3. Is(CHOOSE f : Is(f))
  BY <1>2
<1>4. Repeated(Behind, t, n) = (CHOOSE f : Is(f))[n]
  BY DEF Repeated
<1>5. ASSUME NEW f, Is(f)
      PROVE  Went(f, "behind", t, n)
  BY <1>1, <1>5 DEF Went
<1> HIDE DEF Is
<1>6. QED
  BY <1>3, <1>4, <1>5

LEMMA RepeatedUp ==
  ASSUME NEW t, NEW n \in Nat
  PROVE  \E f : Went(f, "up", t, n) /\ Repeated(LineUp, t, n) = f[n]
<1> DEFINE Is(f) == f = [i \in 0..n |-> IF i = 0 THEN t ELSE LineUp(f[i - 1])]
<1>1. \A i, x : Body("up", i, x) = LineUp(x)
  BY DEF Body
<1>2. \E f : Is(f)
  <2> "up" \in Loops
    BY DEF Loops
  <2>1. PICK f : Went(f, "up", t, n)
    BY LoopRuns
  <2>2. f = [i \in 0..n |-> f[i]] /\ \A i \in 0..n : f[i] = IF i = 0 THEN t ELSE LineUp(f[i - 1])
    BY <1>1, <2>1 DEF Went
  <2>3. Is(f)
    BY <2>2
  <2>4. QED
    BY <2>3
<1>3. Is(CHOOSE f : Is(f))
  BY <1>2
<1>4. Repeated(LineUp, t, n) = (CHOOSE f : Is(f))[n]
  BY DEF Repeated
<1>5. ASSUME NEW f, Is(f)
      PROVE  Went(f, "up", t, n)
  BY <1>1, <1>5 DEF Went
<1> HIDE DEF Is
<1>6. QED
  BY <1>3, <1>4, <1>5

LEMMA RepeatedRow ==
  ASSUME NEW t, NEW n \in Nat
  PROVE  \E f : Went(f, "row", t, n) /\ Repeated(NextRow, t, n) = f[n]
<1> DEFINE Is(f) == f = [i \in 0..n |-> IF i = 0 THEN t ELSE NextRow(f[i - 1])]
<1>1. \A i, x : Body("row", i, x) = NextRow(x)
  BY DEF Body
<1>2. \E f : Is(f)
  <2> "row" \in Loops
    BY DEF Loops
  <2>1. PICK f : Went(f, "row", t, n)
    BY LoopRuns
  <2>2. f = [i \in 0..n |-> f[i]] /\ \A i \in 0..n : f[i] = IF i = 0 THEN t ELSE NextRow(f[i - 1])
    BY <1>1, <2>1 DEF Went
  <2>3. Is(f)
    BY <2>2
  <2>4. QED
    BY <2>3
<1>3. Is(CHOOSE f : Is(f))
  BY <1>2
<1>4. Repeated(NextRow, t, n) = (CHOOSE f : Is(f))[n]
  BY DEF Repeated
<1>5. ASSUME NEW f, Is(f)
      PROVE  Went(f, "row", t, n)
  BY <1>1, <1>5 DEF Went
<1> HIDE DEF Is
<1>6. QED
  BY <1>3, <1>4, <1>5

LEMMA PrintedRows ==
  ASSUME NEW t
  PROVE  \E f : Went(f, "print", Uncounted(t), Rows) /\ print_page(t) = f[Rows]
<1> DEFINE x == Uncounted(t)
           Is(f) == f = [i \in 0..Rows |-> IF i = 0 THEN x ELSE PrintRow(f[i - 1], i)]
<1>0. Rows \in Nat
  BY BoxSizes
<1>1. \A i, u : Body("print", i, u) = PrintRow(u, i)
  BY DEF Body
<1>4. print_page(t) = (CHOOSE f : Is(f))[Rows]
  BY DEF print_page
<1> HIDE DEF x
<1>2. \E f : Is(f)
  <2> "print" \in Loops
    BY DEF Loops
  <2>1. PICK f : Went(f, "print", x, Rows)
    BY <1>0, LoopRuns
  <2>2. f = [i \in 0..Rows |-> f[i]] /\ \A i \in 0..Rows : f[i] = IF i = 0 THEN x ELSE PrintRow(f[i - 1], i)
    BY <1>1, <2>1 DEF Went
  <2>3. Is(f)
    BY <2>2
  <2>4. QED
    BY <2>3
<1>3. Is(CHOOSE f : Is(f))
  BY <1>2
<1>5. ASSUME NEW f, Is(f)
      PROVE  Went(f, "print", x, Rows)
  BY <1>1, <1>5 DEF Went
<1> HIDE DEF Is
<1>6. Went(CHOOSE f : Is(f), "print", x, Rows)
  BY <1>3, <1>5
<1>7. QED
  BY <1>4, <1>6 DEF x

-----------------------------------------------------------------------------
(* Lines. That the one at an offset is the last, and that another starts   *)
(* at q.                                                                   *)
NoMore(file, from) == \A o \in (from + 1)..Len(file) : file[o] # "n"

Starts(file, s) == s \in 0..Len(file) /\ (s = 0 \/ file[s] = "n")

Follows(file, from, q) ==
  /\ q \in (from + 1)..Len(file) /\ file[q] = "n"
  /\ \A o \in (from + 1)..(q - 1) : file[o] # "n"

LEMMA LineFollows ==
  ASSUME NEW file, NEW n \in Nat, Len(file) = n, NEW from \in Nat, NEW q, Follows(file, from, q)
  PROVE  LineAfter(file, from) = q /\ ~NoMore(file, from)
<1> DEFINE newlines == {o \in (from + 1)..n : file[o] = "n"}
<1>1. q \in newlines
  BY DEF Follows
<1>2. ASSUME NEW o \in newlines
      PROVE  q <= o
  <2>1. o \in (from + 1)..n /\ q \in (from + 1)..n /\ o \notin (from + 1)..(q - 1)
    BY DEF Follows
  <2>2. QED
    BY <2>1
<1>3. newlines \subseteq Int
  OBVIOUS
<1>4. LineAfter(file, from) = IF newlines = {} THEN n ELSE Min(newlines)
  BY DEF LineAfter
<1>5. ~NoMore(file, from)
  BY DEF Follows, NoMore
<1> HIDE DEF newlines
<1>6. \A m \in newlines : (\A o \in newlines : m <= o) => m = q
  BY <1>1, <1>2, <1>3
<1>7. Min(newlines) = q
  BY <1>1, <1>2, <1>6 DEF Min
<1>8. QED
  BY <1>1, <1>4, <1>5, <1>7

LEMMA LastLine ==
  ASSUME NEW file, NEW from, NoMore(file, from)
  PROVE  LineAfter(file, from) = Len(file)
BY DEF NoMore, LineAfter

LEMMA NextLineFollows ==
  ASSUME NEW file, NEW n \in Nat, Len(file) = n, NEW from \in Nat, ~NoMore(file, from)
  PROVE  Follows(file, from, LineAfter(file, from))
<1> DEFINE newlines == {o \in (from + 1)..n : file[o] = "n"}
<1>1. newlines # {} /\ newlines \subseteq Nat
  BY DEF NoMore
<1>2. LineAfter(file, from) = IF newlines = {} THEN n ELSE Min(newlines)
  BY DEF LineAfter
<1>3. Min(newlines) \in newlines /\ \A x \in newlines : Min(newlines) <= x
  <2> HIDE DEF newlines
  <2> QED BY <1>1, HasLeast
<1>4. PICK q \in newlines : LineAfter(file, from) = q /\ \A x \in newlines : q <= x
  <2> HIDE DEF newlines
  <2> QED BY <1>1, <1>2, <1>3
<1>5. \A o \in (from + 1)..(q - 1) : file[o] # "n"
  <2> SUFFICES ASSUME NEW o \in (from + 1)..(q - 1), file[o] = "n" PROVE FALSE
    OBVIOUS
  <2>1. q \in (from + 1)..n
    OBVIOUS
  <2>2. o \in (from + 1)..n /\ o < q
    BY <2>1
  <2>3. QED
    BY <1>4, <2>1, <2>2
<1>6. QED
  BY <1>4, <1>5 DEF Follows

-----------------------------------------------------------------------------
(* What drawing rows leaves alone.                                         *)
Carried(t, u) ==
  /\ u.file = t.file /\ u.hscroll = t.hscroll
  /\ u.internal_error = t.internal_error /\ u.stale = t.stale
  /\ u.begin_reached = t.begin_reached

GotLine(t, u) ==
  /\ Sound(u) /\ Carried(t, u)
  /\ u.rows = t.rows /\ u.page_length = t.page_length /\ u.passed_end = t.passed_end
  /\ At(u) = LineAfter(t.file, At(t))
  /\ u.end_reached <=> NoMore(t.file, At(t))

LEMMA WentAhead ==
  ASSUME NEW t, Sound(t), NEW n \in Nat, NEW f, Went(f, "ahead", t, n)
  PROVE  GoneAhead(t, f[n], n)
<1> DEFINE S == {k \in Nat : k <= n => GoneAhead(t, f[k], k)}
<1>1. 0 \in S
  <2>1. f[0] = t
    BY WentSteps
  <2>2. At(t) \in Nat /\ IsText(t)
    BY Places DEF Sound
  <2>3. GoneAhead(t, t, 0)
    BY <2>2 DEF GoneAhead, Moved, Kept
  <2>4. QED
    BY <2>1, <2>3
<1>2. ASSUME NEW k \in Nat, k \in S
      PROVE  k + 1 \in S
  <2>1. SUFFICES ASSUME k + 1 <= n
                 PROVE  GoneAhead(t, f[k + 1], k + 1)
    OBVIOUS
  <2>2. GoneAhead(t, f[k], k)
    BY <1>2, <2>1
  <2>3. f[k + 1] = Body("ahead", k + 1, f[k])
    BY <2>1, WentSteps
  <2>4. f[k + 1] = Ahead(f[k])
    BY <2>3 DEF Body
  <2>5. GoneAhead(t, Ahead(f[k]), k + 1)
    BY <2>2, GoesAhead
  <2>6. QED
    BY <2>4, <2>5
<1> HIDE DEF S
<1>3. n \in S
  BY <1>1, <1>2, Induction
<1>4. QED
  BY <1>3 DEF S

EndedAt(t, u, page, end) ==
  /\ Sound(u) /\ Carried(t, u)
  /\ u.rows = t.rows /\ u.page_length = t.page_length /\ u.passed_end = t.passed_end
  /\ u.end_reached = end
  /\ At(u) = (t.fpos - t.bytes_read) + page

LEMMA EndSet ==
  ASSUME NEW t, Sound(t), NEW page, NEW end \in BOOLEAN, NEW u,
         u = [t EXCEPT !.page = page, !.end_reached = end], page \in Nat, page <= t.bytes_read
  PROVE  EndedAt(t, u, page, end)
<1>1. /\ u = [f \in TextFields |-> u[f]]
      /\ u.page = page /\ u.end_reached = end
      /\ \A f \in TextFields \ {"page", "end_reached"} : u[f] = t[f]
  BY DEF Sound, IsText, TextFields
<1>2. /\ Carried(t, u) /\ u.fpos = t.fpos /\ u.bytes_read = t.bytes_read
      /\ u.rows = t.rows /\ u.page_length = t.page_length /\ u.passed_end = t.passed_end
  BY <1>1 DEF Carried, TextFields
<1>3. IsText(u)
  BY <1>1, <1>2 DEF Sound, IsText, Carried
<1>4. Buffered(u)
  BY <1>1, <1>2 DEF Sound, Buffered, Carried
<1>5. At(u) = (t.fpos - t.bytes_read) + page
  BY <1>1, <1>2 DEF At, Base
<1>6. QED
  BY <1>1, <1>2, <1>3, <1>4, <1>5 DEF Sound, EndedAt

(* get_line ends at the start of the next line, or at the end of the file. *)
LEMMA LineRead ==
  ASSUME NEW t, Sound(t)
  PROVE  GotLine(t, get_line(t))
<1> DEFINE n == Len(t.file)
           u == Repeated(Ahead, t, 2 * n)
<1>1. n \in Nat /\ file_size(t) = n /\ 2 * n \in Nat /\ At(t) \in 0..n
  BY FileLength, Places DEF Sound
<1>2. GoneAhead(t, u, 2 * n)
  <2>1. PICK f : Went(f, "ahead", t, 2 * n) /\ u = f[2 * n]
    BY <1>1, RepeatedAhead
  <2> HIDE DEF n, u
  <2>2. QED
    BY <1>1, <2>1, WentAhead
<1>3. get_line(t) = IF AtNewline(u) THEN [u EXCEPT !.page = u.page + 1, !.end_reached = FALSE]
                    ELSE [u EXCEPT !.end_reached = TRUE]
  BY <1>1 DEF get_line
<1> HIDE DEF n, u
<1>4. /\ Sound(u) /\ Moved(t, u) /\ u.file = t.file /\ Len(u.file) = n
      /\ At(t) <= At(u)
      /\ \A o \in (At(t) + 1)..At(u) : t.file[o] # "n"
  BY <1>2 DEF GoneAhead, Moved, Kept, n
<1>5. /\ At(u) \in 0..n
      /\ At(u) = (u.fpos - u.bytes_read) + u.page
      /\ AtNewline(u) => u.page < u.bytes_read /\ u.file[At(u) + 1] = "n" /\ At(u) < n
      /\ At(u) = n <=> AtBufferEnd(u) /\ u.fpos = n
      /\ u.fpos \in Nat /\ u.bytes_read \in Nat /\ u.page \in Nat /\ u.page <= u.bytes_read
  BY <1>4, Places DEF Sound, Buffered
<1>6. Carried(t, u) /\ u.rows = t.rows /\ u.page_length = t.page_length /\ u.passed_end = t.passed_end
  BY <1>4 DEF Moved, Kept, Carried
<1>7. CASE AtNewline(u)
  <2> DEFINE v == [u EXCEPT !.page = u.page + 1, !.end_reached = FALSE]
  <2>1. EndedAt(u, v, u.page + 1, FALSE)
    <3>1. u.page + 1 \in Nat /\ u.page + 1 <= u.bytes_read /\ FALSE \in BOOLEAN
      BY <1>5, <1>7
    <3>2. v = [u EXCEPT !.page = u.page + 1, !.end_reached = FALSE]
      OBVIOUS
    <3> HIDE DEF v
    <3>3. QED
      BY <1>4, <3>1, <3>2, EndSet
  <2>2. get_line(t) = v
    BY <1>3, <1>7
  <2> HIDE DEF v
  <2>3. At(v) = At(u) + 1
    BY <1>5, <2>1 DEF EndedAt
  <2>4. Follows(t.file, At(t), At(u) + 1)
    <3>1. At(u) + 1 \in (At(t) + 1)..Len(t.file) /\ t.file[At(u) + 1] = "n"
      BY <1>1, <1>4, <1>5, <1>7
    <3>2. (At(u) + 1) - 1 = At(u)
      BY <1>5
    <3>3. QED
      BY <1>4, <3>1, <3>2 DEF Follows
  <2>5. LineAfter(t.file, At(t)) = At(u) + 1 /\ ~NoMore(t.file, At(t))
    BY <1>1, <2>4, LineFollows DEF n
  <2>6. GotLine(t, v)
    BY <1>6, <2>1, <2>3, <2>5 DEF GotLine, Carried, EndedAt
  <2>7. QED
    BY <2>2, <2>6
<1>8. CASE ~AtNewline(u)
  <2> DEFINE v == [u EXCEPT !.end_reached = TRUE]
  <2>1. At(u) = n
    <3>1. CASE 2 * At(u) + (IF AtBufferEnd(u) THEN 0 ELSE 1) >= 2 * n
      <4>1. 2 * At(u) + 1 >= 2 * n
        <5>1. (IF AtBufferEnd(u) THEN 0 ELSE 1) \in {0, 1}
          OBVIOUS
        <5>2. \A b \in {0, 1} : 2 * At(u) + b >= 2 * n => 2 * At(u) + 1 >= 2 * n
          BY <1>1, <1>5
        <5>3. QED
          BY <3>1, <5>1, <5>2
      <4>2. QED
        BY <1>1, <1>5, <4>1
    <3>2. CASE AheadEnds(u)
      BY <1>4, <1>8, <3>2 DEF AheadEnds
    <3>3. QED
      BY <1>2, <3>1, <3>2 DEF GoneAhead
  <2>2. EndedAt(u, v, u.page, TRUE)
    <3>1. v = [u EXCEPT !.page = u.page, !.end_reached = TRUE] /\ TRUE \in BOOLEAN
      BY <1>4 DEF Sound, IsText, TextFields
    <3> HIDE DEF v
    <3>2. QED
      BY <1>4, <1>5, <3>1, EndSet
  <2>3. get_line(t) = v
    BY <1>3, <1>8
  <2> HIDE DEF v
  <2>4. At(v) = n
    BY <1>5, <2>1, <2>2 DEF EndedAt
  <2>5. NoMore(t.file, At(t))
    BY <1>4, <2>1 DEF NoMore, n
  <2>6. LineAfter(t.file, At(t)) = n
    BY <2>5, LastLine DEF n
  <2>7. GotLine(t, v)
    BY <1>6, <2>2, <2>4, <2>5, <2>6 DEF GotLine, Carried, EndedAt
  <2>8. QED
    BY <2>3, <2>7
<1>9. QED
  BY <1>7, <1>8

-----------------------------------------------------------------------------
(* Rows.                                                                   *)

CountedAs(t, u, page_length, passed_end) ==
  /\ Sound(u) /\ Carried(t, u) /\ u.rows = t.rows /\ u.end_reached = t.end_reached
  /\ u.page_length = page_length /\ u.passed_end = passed_end
  /\ At(u) = At(t)

LEMMA CountSet ==
  ASSUME NEW t, Sound(t), NEW page_length \in Nat, NEW passed_end \in BOOLEAN, NEW u,
         u = [t EXCEPT !.page_length = page_length, !.passed_end = passed_end]
  PROVE  CountedAs(t, u, page_length, passed_end)
<1>1. /\ u = [f \in TextFields |-> u[f]]
      /\ u.page_length = page_length /\ u.passed_end = passed_end
      /\ \A f \in TextFields \ {"page_length", "passed_end"} : u[f] = t[f]
  BY DEF Sound, IsText, TextFields
<1>2. /\ Carried(t, u) /\ u.rows = t.rows /\ u.end_reached = t.end_reached
      /\ u.fpos = t.fpos /\ u.bytes_read = t.bytes_read /\ u.page = t.page
  BY <1>1 DEF Carried, TextFields
<1>3. Sound(u)
  BY <1>1, <1>2 DEF Sound, IsText, Buffered, Carried
<1>4. At(u) = At(t)
  BY <1>2 DEF At, Base
<1>5. QED
  BY <1>1, <1>2, <1>3, <1>4 DEF CountedAs

RowsAre(t, u, rows) ==
  /\ Sound(u) /\ Carried(t, u) /\ u.end_reached = t.end_reached
  /\ u.page_length = t.page_length /\ u.passed_end = t.passed_end
  /\ u.rows = rows
  /\ At(u) = At(t)

LEMMA RowsSet ==
  ASSUME NEW t, Sound(t), NEW rows, rows = [i \in 1..Rows |-> rows[i]], NEW u,
         u = [t EXCEPT !.rows = rows]
  PROVE  RowsAre(t, u, rows)
<1>1. /\ u = [f \in TextFields |-> u[f]]
      /\ u.rows = rows
      /\ \A f \in TextFields \ {"rows"} : u[f] = t[f]
  BY DEF Sound, IsText, TextFields
<1>2. /\ Carried(t, u) /\ u.end_reached = t.end_reached
      /\ u.page_length = t.page_length /\ u.passed_end = t.passed_end
      /\ u.fpos = t.fpos /\ u.bytes_read = t.bytes_read /\ u.page = t.page
  BY <1>1 DEF Carried, TextFields
<1>3. Sound(u)
  BY <1>1, <1>2 DEF Sound, IsText, Buffered, Carried
<1>4. At(u) = At(t)
  BY <1>2 DEF At, Base
<1>5. QED
  BY <1>1, <1>2, <1>3, <1>4 DEF RowsAre

(* Where get_line leaves a text box, whatever is on the screen.            *)
Settled(t) == IF t.end_reached THEN At(t) = Len(t.file) ELSE Starts(t.file, At(t))

RowDone(t, u) ==
  /\ Sound(u) /\ Carried(t, u) /\ u.rows = t.rows /\ Settled(u)
  /\ u.page_length = IF t.passed_end THEN t.page_length ELSE t.page_length + 1
  /\ u.passed_end <=> t.passed_end \/ NoMore(t.file, At(t))
  /\ u.end_reached <=> NoMore(t.file, At(t))
  /\ At(u) = LineAfter(t.file, At(t))

LEMMA LineReadSettles ==
  ASSUME NEW t, Sound(t), NEW u, GotLine(t, u)
  PROVE  Settled(u)
<1>1. /\ u.file = t.file /\ At(u) = LineAfter(t.file, At(t))
      /\ u.end_reached <=> NoMore(t.file, At(t))
      /\ Len(t.file) \in Nat /\ At(t) \in Nat
  BY Places DEF GotLine, Carried
<1>2. CASE NoMore(t.file, At(t))
  BY <1>1, <1>2, LastLine DEF Settled
<1>3. CASE ~NoMore(t.file, At(t))
  <2>1. Follows(t.file, At(t), LineAfter(t.file, At(t)))
    BY <1>1, <1>3, NextLineFollows
  <2>2. Starts(t.file, LineAfter(t.file, At(t)))
    BY <1>1, <2>1 DEF Follows, Starts
  <2>3. QED
    BY <1>1, <1>3, <2>2 DEF Settled
<1>4. QED
  BY <1>2, <1>3

LEMMA NextRowDone ==
  ASSUME NEW t, Sound(t)
  PROVE  RowDone(t, NextRow(t))
<1> DEFINE g == get_line(t)
           a == IF t.passed_end THEN g.page_length ELSE g.page_length + 1
           b == g.passed_end \/ g.end_reached
           u == [g EXCEPT !.page_length = a, !.passed_end = b]
<1>1. GotLine(t, g)
  BY LineRead
<1>2. NextRow(t) = u
  BY DEF NextRow
<1> HIDE DEF g
<1>3. Settled(g)
  BY <1>1, LineReadSettles
<1>4. /\ Sound(g) /\ Carried(t, g) /\ g.file = t.file /\ g.rows = t.rows
      /\ g.page_length = t.page_length /\ g.passed_end = t.passed_end
      /\ At(g) = LineAfter(t.file, At(t))
      /\ g.end_reached <=> NoMore(t.file, At(t))
  BY <1>1 DEF GotLine, Carried
<1>5. g.page_length \in Nat /\ g.passed_end \in BOOLEAN /\ g.end_reached \in BOOLEAN
  BY <1>4 DEF Sound, IsText
<1>6. a \in Nat /\ b \in BOOLEAN
  BY <1>5
<1>7. CountedAs(g, u, a, b)
  <2>1. u = [g EXCEPT !.page_length = a, !.passed_end = b]
    OBVIOUS
  <2> HIDE DEF u, a, b
  <2>2. QED
    BY <1>4, <1>6, <2>1, CountSet
<1> HIDE DEF u
<1>8. /\ Sound(u) /\ Carried(g, u) /\ u.rows = g.rows /\ u.end_reached = g.end_reached
      /\ u.page_length = a /\ u.passed_end = b /\ At(u) = At(g) /\ u.file = g.file
  BY <1>7 DEF CountedAs, Carried
<1>9. Settled(u)
  BY <1>3, <1>8 DEF Settled
<1>10. Carried(t, u)
  BY <1>4, <1>8 DEF Carried
<1>11. RowDone(t, u)
  BY <1>4, <1>8, <1>9, <1>10 DEF RowDone
<1>12. QED
  BY <1>2, <1>11

(* After k rows from p, as many are counted as the file has lines there,   *)
(* and page points to the line after the last one.                         *)
Window(t, p, k) ==
  /\ t.rows[1].line = p
  /\ \A i \in 1..(k - 1) : t.rows[i + 1].line = LineAfter(t.file, t.rows[i].line)
  /\ \A i \in 1..k : t.rows[i].column = t.hscroll
  /\ At(t) = LineAfter(t.file, t.rows[k].line)
  /\ t.page_length \in 1..k
  /\ \A i \in 1..(t.page_length - 1) : ~NoMore(t.file, t.rows[i].line)
  /\ t.end_reached <=> NoMore(t.file, t.rows[t.page_length].line)
  /\ ~t.end_reached => t.page_length = k

Counting(t, p, k) ==
  IF k = 0 THEN At(t) = p /\ t.page_length = 0 /\ ~t.passed_end
  ELSE Window(t, p, k) /\ Settled(t) /\ (t.passed_end <=> t.end_reached)

LEMMA RowCounts ==
  ASSUME NEW t, Sound(t), NEW p, NEW k \in Nat, Counting(t, p, k),
         t.rows[k + 1].line = At(t), t.rows[k + 1].column = t.hscroll
  PROVE  Counting(NextRow(t), p, k + 1)
<1> DEFINE u == NextRow(t)
<1> SUFFICES Counting(u, p, k + 1)
  OBVIOUS
<1>1. RowDone(t, u)
  BY NextRowDone
<1> HIDE DEF u
<1>2. /\ Sound(u) /\ u.file = t.file /\ u.hscroll = t.hscroll /\ u.rows = t.rows /\ Settled(u)
      /\ u.page_length = IF t.passed_end THEN t.page_length ELSE t.page_length + 1
      /\ u.passed_end <=> t.passed_end \/ NoMore(t.file, At(t))
      /\ u.end_reached <=> NoMore(t.file, At(t))
      /\ At(u) = LineAfter(t.file, At(t))
  BY <1>1 DEF RowDone, Carried
<1>3. At(u) = LineAfter(u.file, u.rows[k + 1].line)
  BY <1>2
<1>4. CASE k = 0
  <2>1. /\ u.page_length = 1 /\ u.rows[1].line = p
        /\ u.end_reached <=> NoMore(u.file, u.rows[1].line)
        /\ u.passed_end <=> u.end_reached
    BY <1>2, <1>4 DEF Counting
  <2>2. Window(u, p, 1)
    BY <1>2, <1>3, <1>4, <2>1 DEF Window
  <2>3. QED
    BY <1>2, <1>4, <2>1, <2>2 DEF Counting
<1>5. CASE k # 0
  <2>1. Window(t, p, k) /\ Settled(t) /\ (t.passed_end <=> t.end_reached)
    BY <1>5 DEF Counting
  <2>2. /\ u.rows[1].line = p /\ (k + 1) - 1 = k
        /\ \A i \in 1..k : u.rows[i + 1].line = LineAfter(u.file, u.rows[i].line)
        /\ \A i \in 1..(k + 1) : u.rows[i].column = u.hscroll
    <3>1. ASSUME NEW i \in 1..k
          PROVE  u.rows[i + 1].line = LineAfter(u.file, u.rows[i].line)
      <4>1. CASE i = k
        BY <1>2, <2>1, <4>1 DEF Window
      <4>2. CASE i # k
        <5>1. i \in 1..(k - 1)
          BY <4>2
        <5>2. QED
          BY <1>2, <2>1, <5>1 DEF Window
      <4>3. QED
        BY <4>1, <4>2
    <3>2. ASSUME NEW i \in 1..(k + 1)
          PROVE  u.rows[i].column = u.hscroll
      <4>1. i = k + 1 \/ i \in 1..k
        OBVIOUS
      <4>2. QED
        BY <1>2, <2>1, <4>1 DEF Window
    <3>3. QED
      BY <1>2, <2>1, <3>1, <3>2 DEF Window
  <2>3. CASE t.passed_end
    <3>1. t.end_reached /\ At(t) = Len(t.file) /\ Len(t.file) \in Nat
      BY <2>1, <2>3, Places DEF Settled
    <3>2. NoMore(t.file, At(t))
      BY <3>1 DEF NoMore
    <3>3. /\ u.page_length = t.page_length /\ u.page_length \in 1..(k + 1)
          /\ u.end_reached /\ u.passed_end
          /\ NoMore(u.file, u.rows[u.page_length].line)
          /\ \A i \in 1..(u.page_length - 1) : ~NoMore(u.file, u.rows[i].line)
      BY <1>2, <2>1, <2>3, <3>1, <3>2 DEF Window
    <3>4. Window(u, p, k + 1)
      BY <1>3, <2>2, <3>3 DEF Window
    <3>5. QED
      BY <1>2, <3>3, <3>4 DEF Counting
  <2>4. CASE ~t.passed_end
    <3>1. ~t.end_reached /\ t.page_length = k
      BY <2>1, <2>4 DEF Window
    <3>2. \A i \in 1..k : ~NoMore(t.file, t.rows[i].line)
      <4> TAKE i \in 1..k
      <4>1. i = k \/ i \in 1..(k - 1)
        OBVIOUS
      <4>2. QED
        BY <2>1, <3>1, <4>1 DEF Window
    <3>3. u.page_length = k + 1 /\ (u.passed_end <=> u.end_reached)
      BY <1>2, <2>4, <3>1
    <3>4. u.end_reached <=> NoMore(u.file, u.rows[k + 1].line)
      BY <1>2
    <3>5. Window(u, p, k + 1)
      BY <1>2, <1>3, <2>2, <3>2, <3>3, <3>4 DEF Window
    <3>6. QED
      BY <1>2, <3>3, <3>5 DEF Counting
  <2>5. QED
    BY <2>3, <2>4
<1>6. QED
  BY <1>4, <1>5

(* A row is printed and the next line found.                               *)
LEMMA RowPrinted ==
  ASSUME NEW t, Sound(t), NEW i \in 1..Rows, NEW u, u = [t EXCEPT !.rows[i] = Row(t)]
  PROVE  RowsAre(t, u, [t.rows EXCEPT ![i] = Row(t)])
<1> DEFINE rows == [t.rows EXCEPT ![i] = Row(t)]
           v == [t EXCEPT !.rows = rows]
<1>1. t.rows = [j \in 1..Rows |-> t.rows[j]] /\ t = [f \in TextFields |-> t[f]]
  BY DEF Sound, IsText
<1>2. rows = [j \in 1..Rows |-> rows[j]]
  BY <1>1
<1>3. u = v
  BY <1>1 DEF TextFields
<1> HIDE DEF rows
<1>4. QED
  BY <1>2, <1>3, RowsSet DEF rows

LEMMA PrintCounts ==
  ASSUME NEW t, Sound(t), NEW p, NEW k \in Nat, k + 1 <= Rows, Counting(t, p, k)
  PROVE  /\ Sound(PrintRow(t, k + 1)) /\ Carried(t, PrintRow(t, k + 1))
         /\ Counting(PrintRow(t, k + 1), p, k + 1)
<1> DEFINE u == [t EXCEPT !.rows[k + 1] = Row(t)]
           row == Row(t)
           rows == [t.rows EXCEPT ![k + 1] = row]
<1>1. k + 1 \in 1..Rows
  BY BoxSizes
<1>2. RowsAre(t, u, rows)
  BY <1>1, RowPrinted
<1>3. PrintRow(t, k + 1) = NextRow(u)
  BY DEF PrintRow
<1>4. row.line = At(t) /\ row.column = t.hscroll
  BY DEF Row
<1> HIDE DEF u, row
<1>5. /\ Sound(u) /\ Carried(t, u) /\ u.end_reached = t.end_reached
      /\ u.page_length = t.page_length /\ u.passed_end = t.passed_end
      /\ u.rows = rows /\ At(u) = At(t) /\ u.file = t.file /\ u.hscroll = t.hscroll
  BY <1>2 DEF RowsAre, Carried
<1>6. t.rows = [j \in 1..Rows |-> t.rows[j]] /\ Rows \in Nat
  BY BoxSizes DEF Sound, IsText
<1>7. u.rows[k + 1] = row /\ \A j \in 1..k : u.rows[j] = t.rows[j]
  <2>1. u.rows[k + 1] = row
    BY <1>1, <1>5, <1>6
  <2>2. ASSUME NEW j \in 1..k
        PROVE  u.rows[j] = t.rows[j]
    <3>1. j \in 1..Rows /\ j # k + 1
      BY <1>1, <1>6
    <3>2. QED
      BY <1>5, <1>6, <3>1
  <2>3. QED
    BY <2>1, <2>2
<1> HIDE DEF rows
<1>8. Counting(u, p, k)
  <2>1. CASE k = 0
    BY <1>5, <2>1 DEF Counting
  <2>2. CASE k # 0
    <3>1. Window(t, p, k) /\ Settled(t) /\ (t.passed_end <=> t.end_reached)
      BY <2>2 DEF Counting
    <3>2. Settled(u)
      BY <1>5, <3>1 DEF Settled
    <3>3. /\ 1 \in 1..k /\ k \in 1..k /\ t.page_length \in 1..k
          /\ \A i \in 1..(k - 1) : i \in 1..k /\ i + 1 \in 1..k
          /\ \A i \in 1..(t.page_length - 1) : i \in 1..k
      BY <2>2, <3>1 DEF Window
    <3>4. Window(u, p, k)
      BY <1>5, <1>7, <3>1, <3>3 DEF Window
    <3>5. QED
      BY <1>5, <2>2, <3>1, <3>2, <3>4 DEF Counting
  <2>3. QED
    BY <2>1, <2>2
<1>9. u.rows[k + 1].line = At(u) /\ u.rows[k + 1].column = u.hscroll
  BY <1>4, <1>5, <1>7
<1>10. Counting(NextRow(u), p, k + 1)
  BY <1>5, <1>8, <1>9, RowCounts
<1>11. RowDone(u, NextRow(u))
  BY <1>5, NextRowDone
<1>12. Sound(NextRow(u)) /\ Carried(t, NextRow(u))
  BY <1>5, <1>11 DEF RowDone, Carried
<1>13. QED
  BY <1>3, <1>10, <1>12

(* print_page                                                              *)
PagePrinted(t, u) == Sound(u) /\ Carried(t, u) /\ Counting(u, At(t), Rows)

LEMMA PagePrints ==
  ASSUME NEW t, Sound(t)
  PROVE  PagePrinted(t, print_page(t))
<1> DEFINE x == Uncounted(t)
           p == At(t)
<1>0. Rows \in Nat
  BY BoxSizes
<1>1. PICK f : Went(f, "print", x, Rows) /\ print_page(t) = f[Rows]
  BY PrintedRows
<1>2. CountedAs(t, x, 0, FALSE)
  <2>1. x = [t EXCEPT !.page_length = 0, !.passed_end = FALSE] /\ 0 \in Nat /\ FALSE \in BOOLEAN
    BY DEF Uncounted
  <2> HIDE DEF x
  <2>2. QED
    BY <2>1, CountSet
<1> HIDE DEF x, p
<1>3. Sound(x) /\ Carried(t, x) /\ At(x) = p /\ x.page_length = 0 /\ ~x.passed_end
  BY <1>2 DEF CountedAs, p
<1> DEFINE S == {k \in Nat : k <= Rows => Sound(f[k]) /\ Carried(t, f[k]) /\ Counting(f[k], p, k)}
<1>4. 0 \in S
  <2>1. f[0] = x
    BY <1>0, <1>1, WentSteps
  <2>2. QED
    BY <1>3, <2>1 DEF Counting
<1>5. ASSUME NEW k \in Nat, k \in S
      PROVE  k + 1 \in S
  <2>1. SUFFICES ASSUME k + 1 <= Rows
                 PROVE  Sound(f[k + 1]) /\ Carried(t, f[k + 1]) /\ Counting(f[k + 1], p, k + 1)
    OBVIOUS
  <2>2. Sound(f[k]) /\ Carried(t, f[k]) /\ Counting(f[k], p, k)
    BY <1>0, <1>5, <2>1
  <2>3. f[k + 1] = Body("print", k + 1, f[k])
    BY <1>0, <1>1, <2>1, WentSteps
  <2>4. f[k + 1] = PrintRow(f[k], k + 1)
    BY <2>3 DEF Body
  <2>5. /\ Sound(PrintRow(f[k], k + 1)) /\ Carried(f[k], PrintRow(f[k], k + 1))
        /\ Counting(PrintRow(f[k], k + 1), p, k + 1)
    BY <2>1, <2>2, PrintCounts
  <2>6. QED
    BY <2>2, <2>4, <2>5 DEF Carried
<1> HIDE DEF S
<1>6. Rows \in S
  BY <1>0, <1>4, <1>5, Induction
<1>7. Sound(f[Rows]) /\ Carried(t, f[Rows]) /\ Counting(f[Rows], p, Rows)
  BY <1>0, <1>6 DEF S
<1>8. QED
  BY <1>1, <1>7 DEF PagePrinted, p

-----------------------------------------------------------------------------
(* back_lines: a step of the loop.                                         *)

BeginSetTo(t, u, begin) ==
  /\ Sound(u) /\ Kept(t, u) /\ u.begin_reached = begin
  /\ At(u) = At(t) /\ u.page = t.page /\ u.bytes_read = t.bytes_read /\ u.fpos = t.fpos

LEMMA BeginSet ==
  ASSUME NEW t, Sound(t), NEW begin \in BOOLEAN, NEW u, u = [t EXCEPT !.begin_reached = begin]
  PROVE  BeginSetTo(t, u, begin)
<1>1. /\ u = [f \in TextFields |-> u[f]]
      /\ u.begin_reached = begin
      /\ \A f \in TextFields \ {"begin_reached"} : u[f] = t[f]
  BY DEF Sound, IsText, TextFields
<1>2. Kept(t, u) /\ u.fpos = t.fpos /\ u.bytes_read = t.bytes_read /\ u.page = t.page
  BY <1>1 DEF Kept, TextFields
<1>3. Sound(u)
  BY <1>1, <1>2 DEF Sound, IsText, Buffered, Kept
<1>4. At(u) = At(t)
  BY <1>2 DEF At, Base
<1>5. QED
  BY <1>1, <1>2, <1>3, <1>4 DEF BeginSetTo

LEMMA BeginIsZero ==
  ASSUME NEW t, Sound(t)
  PROVE  AtBegin(t) <=> At(t) = 0
<1>1. /\ t.fpos \in Nat /\ t.bytes_read \in Nat /\ t.page \in Nat
      /\ t.bytes_read <= t.fpos /\ At(t) = (t.fpos - t.bytes_read) + t.page
  BY Places DEF Sound, Buffered
<1>2. QED
  BY <1>1 DEF AtBegin

(* The part before the buffer is read; page points at the same byte.       *)
LEMMA ReadsEarlier ==
  ASSUME NEW t, Sound(t), t.page = 0, ~AtBegin(t)
  PROVE  /\ Sound(Earlier(t)) /\ Moved(t, Earlier(t))
         /\ At(Earlier(t)) = At(t) /\ Earlier(t).page > 0
<1> DEFINE h == BUF_SIZE \div 2
           n == Len(t.file)
           b == t.fpos - t.bytes_read
<1>1. /\ n \in Nat /\ At(t) = b + t.page /\ At(t) \in 0..n
      /\ IsText(t) /\ t.fpos \in Nat /\ t.bytes_read \in Nat /\ t.bytes_read <= t.fpos
      /\ t.fpos <= n
  BY Places DEF Sound, Buffered
<1>2. h \in Nat \ {0} /\ BUF_SIZE = h + h
  BY BoxSizes
<1>3. b \in Nat /\ b > 0 /\ b <= n /\ At(t) = b
  BY <1>1, BeginIsZero
<1>4. Earlier(t) = IF t.fpos < h + t.bytes_read
                   THEN [ReadFrom(t, 0) EXCEPT !.page = b]
                   ELSE [ReadFrom(t, t.fpos - (h + t.bytes_read)) EXCEPT !.page = h]
  BY DEF Earlier, Base
<1> HIDE DEF h, n
<1>5. CASE b < h
  <2> DEFINE r == ReadFrom(t, 0)
             u == [r EXCEPT !.page = b]
  <2>1. Earlier(t) = u
    BY <1>1, <1>2, <1>4, <1>5
  <2>2. 0 \in 0..Len(t.file) /\ 0 \in Nat
    BY <1>1 DEF n
  <2>3. HasRead(t, r, 0)
    BY <1>1, <2>2, ReadRight
  <2> HIDE DEF r, b
  <2>4. 0 + b <= r.fpos
    BY <1>2, <1>3, <1>5, <2>3 DEF HasRead, n
  <2>5. ReadIn(t, r, u, 0, b)
    <3>1. u = [r EXCEPT !.page = b]
      OBVIOUS
    <3> HIDE DEF u
    <3>2. QED
      BY <1>1, <1>3, <2>2, <2>3, <2>4, <3>1, ReadIsBuffered
  <2> HIDE DEF u
  <2>6. QED
    BY <1>3, <2>1, <2>5 DEF ReadIn
<1>6. CASE b >= h
  <2> DEFINE at == b - h
             r == ReadFrom(t, at)
             u == [r EXCEPT !.page = h]
  <2>1. Earlier(t) = u
    <3>1. t.fpos - (h + t.bytes_read) = at /\ ~(t.fpos < h + t.bytes_read)
      BY <1>1, <1>2, <1>6
    <3>2. QED
      BY <1>4, <3>1
  <2>2. at \in 0..Len(t.file) /\ at \in Nat /\ at + h = b
    BY <1>1, <1>2, <1>3, <1>6 DEF n
  <2> HIDE DEF at
  <2>3. HasRead(t, r, at)
    BY <1>1, <2>2, ReadRight
  <2> HIDE DEF r, b
  <2>4. at + h <= r.fpos
    BY <1>2, <1>3, <2>2, <2>3 DEF HasRead, n
  <2>5. ReadIn(t, r, u, at, h)
    <3>1. u = [r EXCEPT !.page = h] /\ h \in Nat
      BY <1>2
    <3> HIDE DEF u
    <3>2. QED
      BY <1>1, <2>2, <2>3, <2>4, <3>1, ReadIsBuffered
  <2> HIDE DEF u
  <2>6. QED
    BY <1>2, <1>3, <2>1, <2>2, <2>5 DEF ReadIn
<1>7. QED
  BY <1>2, <1>3, <1>5, <1>6

WentBack(t, u) ==
  /\ Sound(u) /\ Moved(t, u) /\ At(u) = At(t) - 1 /\ u.page < u.bytes_read

LEMMA BackwardRight ==
  ASSUME NEW t, Sound(t), ~AtBegin(t)
  PROVE  WentBack(t, Backward(t))
<1> DEFINE e == IF t.page = 0 THEN Earlier(t) ELSE t
           u == [e EXCEPT !.page = e.page - 1]
<1>1. Sound(e) /\ Moved(t, e) /\ At(e) = At(t) /\ e.page > 0
  <2>1. CASE t.page = 0
    BY <2>1, ReadsEarlier
  <2>2. CASE t.page # 0
    BY <2>2 DEF Sound, Buffered, Moved, Kept
  <2>3. QED
    BY <2>1, <2>2
<1>2. Backward(t) = u
  BY DEF Backward
<1> HIDE DEF e
<1>3. /\ e.fpos \in Nat /\ e.bytes_read \in Nat /\ e.page \in Nat
      /\ e.page <= e.bytes_read /\ e.bytes_read <= e.fpos
      /\ At(e) = (e.fpos - e.bytes_read) + e.page /\ IsText(e)
  BY <1>1, Places DEF Sound, Buffered
<1>4. Placed(e, u, e.fpos, e.bytes_read, e.page - 1)
  <2>1. u = [e EXCEPT !.page = e.page - 1]
    OBVIOUS
  <2> HIDE DEF u
  <2>2. QED
    BY <1>3, <2>1, PageSet
<1> HIDE DEF u
<1>5. /\ Moved(e, u) /\ u.fpos = e.fpos /\ u.bytes_read = e.bytes_read /\ u.page = e.page - 1
      /\ IsText(u) /\ u.file = e.file
  BY <1>4 DEF Placed, Moved, Kept
<1>6. Sound(u)
  BY <1>1, <1>3, <1>5 DEF Sound, Buffered
<1>7. At(u) = At(t) - 1
  BY <1>1, <1>3, <1>5 DEF At, Base
<1>8. Moved(t, u)
  BY <1>1, <1>5, MovedTwice
<1>9. u.page < u.bytes_read
  BY <1>3, <1>5
<1>10. WentBack(t, u)
  BY <1>6, <1>7, <1>8, <1>9 DEF WentBack
<1>11. QED
  BY <1>2, <1>10

(* Where it is after so many steps from an offset.                         *)
OnItsWay(file, p, u, k) ==
  /\ ~u.begin_reached /\ u.page < u.bytes_read
  /\ At(u) < p
  /\ \A o \in (At(u) + 2)..p : file[o] # "n"
  /\ AtNewline(u) \/ At(u) + k < p

Begins(file, p, u) ==
  /\ u.begin_reached /\ At(u) = 0
  /\ \A o \in 1..p : file[o] # "n"

GoneBehind(t, u, k) ==
  /\ Sound(u) /\ Kept(t, u)
  /\ OnItsWay(t.file, At(t), u, k) \/ Begins(t.file, At(t), u)

LEMMA BackRight ==
  ASSUME NEW t, Sound(t)
  PROVE  \/ AtBegin(t) /\ BeginSetTo(t, Back(t), TRUE)
         \/ ~AtBegin(t) /\ WentBack(t, Back(t))
<1>1. CASE AtBegin(t)
  <2> DEFINE u == [t EXCEPT !.begin_reached = TRUE]
  <2>1. Back(t) = u
    BY <1>1 DEF Back, Begun
  <2>2. u = [t EXCEPT !.begin_reached = TRUE] /\ TRUE \in BOOLEAN
    OBVIOUS
  <2> HIDE DEF u
  <2>3. BeginSetTo(t, u, TRUE)
    BY <2>2, BeginSet
  <2>4. QED
    BY <1>1, <2>1, <2>3
<1>2. CASE ~AtBegin(t)
  BY <1>2, BackwardRight DEF Back
<1>3. QED
  BY <1>1, <1>2

LEMMA StartsBehind ==
  ASSUME NEW t, Sound(t), ~t.begin_reached
  PROVE  GoneBehind(t, Back(t), 0)
<1> DEFINE u == Back(t)
<1> SUFFICES GoneBehind(t, u, 0)
  OBVIOUS
<1>1. \/ AtBegin(t) /\ BeginSetTo(t, u, TRUE)
      \/ ~AtBegin(t) /\ WentBack(t, u)
  BY BackRight
<1> HIDE DEF u
<1>2. At(t) \in Nat /\ (AtBegin(t) <=> At(t) = 0)
  BY Places, BeginIsZero
<1>3. CASE AtBegin(t) /\ BeginSetTo(t, u, TRUE)
  <2>1. Begins(t.file, At(t), u)
    BY <1>2, <1>3 DEF Begins, BeginSetTo
  <2>2. QED
    BY <1>3, <2>1 DEF GoneBehind, BeginSetTo
<1>4. CASE ~AtBegin(t) /\ WentBack(t, u)
  <2>1. /\ Sound(u) /\ Kept(t, u) /\ u.begin_reached = t.begin_reached
        /\ At(u) = At(t) - 1 /\ u.page < u.bytes_read
    BY <1>4 DEF WentBack, Moved
  <2>2. \A o \in (At(u) + 2)..At(t) : t.file[o] # "n"
    BY <1>2, <2>1
  <2>3. At(u) < At(t) /\ At(u) + 0 < At(t)
    BY <1>2, <2>1
  <2>4. OnItsWay(t.file, At(t), u, 0)
    BY <2>1, <2>2, <2>3 DEF OnItsWay
  <2>5. QED
    BY <2>1, <2>4 DEF GoneBehind
<1>5. QED
  BY <1>1, <1>3, <1>4

LEMMA GoesBehind ==
  ASSUME NEW t, Sound(t), NEW u, NEW k \in Nat, GoneBehind(t, u, k)
  PROVE  GoneBehind(t, Behind(u), k + 1)
<1> DEFINE v == Behind(u)
           p == At(t)
<1> SUFFICES GoneBehind(t, v, k + 1)
  OBVIOUS
<1>1. Sound(u) /\ Kept(t, u) /\ u.file = t.file /\ At(u) \in Nat /\ At(t) \in Nat
      /\ (AtBegin(u) <=> At(u) = 0)
  BY Places, BeginIsZero DEF GoneBehind, Kept
<1>2. CASE u.begin_reached
  <2>1. Begins(t.file, p, u)
    BY <1>2 DEF GoneBehind, OnItsWay
  <2>2. v = u
    BY <1>2 DEF Behind
  <2> HIDE DEF v
  <2>3. QED
    BY <1>1, <2>1, <2>2 DEF GoneBehind
<1>3. CASE ~u.begin_reached /\ AtNewline(u)
  <2>1. OnItsWay(t.file, p, u, k)
    BY <1>3 DEF GoneBehind, Begins
  <2>2. v = u
    BY <1>3 DEF Behind
  <2> HIDE DEF v
  <2>3. OnItsWay(t.file, p, u, k + 1)
    BY <1>3, <2>1 DEF OnItsWay
  <2>4. QED
    BY <1>1, <2>2, <2>3 DEF GoneBehind
<1>4. CASE ~u.begin_reached /\ ~AtNewline(u)
  <2>1. /\ u.page < u.bytes_read /\ At(u) < p
        /\ \A o \in (At(u) + 2)..p : t.file[o] # "n"
        /\ At(u) + k < p
    BY <1>4 DEF GoneBehind, Begins, OnItsWay
  <2>2. t.file[At(u) + 1] # "n"
    BY <1>1, <1>4, <2>1 DEF AtNewline
  <2>3. \A o \in (At(u) + 1)..p : t.file[o] # "n"
    <3> TAKE o \in (At(u) + 1)..p
    <3>1. o = At(u) + 1 \/ o \in (At(u) + 2)..p
      BY <1>1
    <3>2. QED
      BY <2>1, <2>2, <3>1
  <2>4. v = Back(u)
    BY <1>4 DEF Behind
  <2>5. \/ AtBegin(u) /\ BeginSetTo(u, v, TRUE)
        \/ ~AtBegin(u) /\ WentBack(u, v)
    BY <1>1, <2>4, BackRight
  <2> HIDE DEF v
  <2>6. CASE AtBegin(u) /\ BeginSetTo(u, v, TRUE)
    <3>1. Sound(v) /\ Kept(t, v) /\ v.begin_reached /\ At(v) = 0
      BY <1>1, <2>6 DEF BeginSetTo, Kept
    <3>2. \A o \in 1..p : t.file[o] # "n"
      BY <1>1, <2>3, <2>6
    <3>3. QED
      BY <3>1, <3>2 DEF GoneBehind, Begins
  <2>7. CASE ~AtBegin(u) /\ WentBack(u, v)
    <3>1. /\ Sound(v) /\ Kept(t, v) /\ ~v.begin_reached /\ At(v) = At(u) - 1
          /\ v.page < v.bytes_read
      BY <1>1, <1>4, <2>7 DEF WentBack, Moved, Kept
    <3>2. At(v) < p /\ At(v) + 2 = At(u) + 1 /\ At(v) + (k + 1) < p
      BY <1>1, <2>1, <3>1
    <3>3. OnItsWay(t.file, p, v, k + 1)
      BY <2>3, <3>1, <3>2 DEF OnItsWay
    <3>4. QED
      BY <3>1, <3>3 DEF GoneBehind
  <2>8. QED
    BY <2>5, <2>6, <2>7
<1>5. QED
  BY <1>2, <1>3, <1>4

-----------------------------------------------------------------------------
(* One line up.                                                            *)

LEMMA KeptTwice ==
  ASSUME NEW t, NEW u, NEW v, Kept(t, u), Kept(u, v)
  PROVE  Kept(t, v)
BY DEF Kept

(* The line that a byte belongs to starts at s.                            *)
LineBegins(file, s, p) ==
  /\ s \in 0..p /\ Starts(file, s)
  /\ \A o \in (s + 1)..p : file[o] # "n"

LEMMA OneBegin ==
  ASSUME NEW file, NEW p \in Nat, NEW s, NEW r, LineBegins(file, s, p), LineBegins(file, r, p)
  PROVE  s = r
<1>1. s \in 0..p /\ r \in 0..p
  BY DEF LineBegins
<1>2. ~(s < r)
  <2> SUFFICES ASSUME s < r PROVE FALSE
    OBVIOUS
  <2>1. r \in (s + 1)..p /\ r # 0
    BY <1>1
  <2>2. QED
    BY <2>1 DEF LineBegins, Starts
<1>3. ~(r < s)
  <2> SUFFICES ASSUME r < s PROVE FALSE
    OBVIOUS
  <2>1. s \in (r + 1)..p /\ s # 0
    BY <1>1
  <2>2. QED
    BY <2>1 DEF LineBegins, Starts
<1>4. QED
  BY <1>1, <1>2, <1>3

(* It is at the beginning, or at the newline before a line.                *)
AtLine(t) == IF t.begin_reached THEN At(t) = 0 ELSE AtNewline(t)

StartOf(t) == IF t.begin_reached THEN At(t) ELSE At(t) + 1

Upped(t, u) ==
  Sound(u) /\ Kept(t, u) /\ AtLine(u) /\ LineBegins(t.file, StartOf(u), At(t))

LEMMA WentBehind ==
  ASSUME NEW t, Sound(t), NEW x, GoneBehind(t, x, 0), NEW n \in Nat, NEW f, Went(f, "behind", x, n)
  PROVE  GoneBehind(t, f[n], n)
<1> DEFINE S == {k \in Nat : k <= n => GoneBehind(t, f[k], k)}
<1>1. 0 \in S
  BY WentSteps
<1>2. ASSUME NEW k \in Nat, k \in S
      PROVE  k + 1 \in S
  <2>1. SUFFICES ASSUME k + 1 <= n
                 PROVE  GoneBehind(t, f[k + 1], k + 1)
    OBVIOUS
  <2>2. GoneBehind(t, f[k], k)
    BY <1>2, <2>1
  <2>3. f[k + 1] = Body("behind", k + 1, f[k])
    BY <2>1, WentSteps
  <2>4. f[k + 1] = Behind(f[k])
    BY <2>3 DEF Body
  <2>5. GoneBehind(t, Behind(f[k]), k + 1)
    BY <2>2, GoesBehind
  <2>6. QED
    BY <2>4, <2>5
<1> HIDE DEF S
<1>3. n \in S
  BY <1>1, <1>2, Induction
<1>4. QED
  BY <1>3 DEF S

LEMMA LineUpRight ==
  ASSUME NEW t, Sound(t), ~t.begin_reached
  PROVE  Upped(t, LineUp(t))
<1> DEFINE n == Len(t.file)
           x == Back(t)
           u == Repeated(Behind, x, n)
<1>1. n \in Nat /\ file_size(t) = n /\ At(t) \in 0..n
  BY FileLength, Places DEF Sound
<1>2. LineUp(t) = u
  BY <1>1 DEF LineUp, BackToNewline
<1>3. GoneBehind(t, x, 0)
  BY StartsBehind
<1> HIDE DEF x
<1>4. GoneBehind(t, u, n)
  <2>1. PICK f : Went(f, "behind", x, n) /\ u = f[n]
    BY <1>1, RepeatedBehind
  <2> HIDE DEF n, u
  <2>2. QED
    BY <1>1, <1>3, <2>1, WentBehind
<1> HIDE DEF u
<1>5. Sound(u) /\ Kept(t, u) /\ u.file = t.file /\ At(u) \in 0..n
  BY <1>4, Places DEF GoneBehind, Kept
<1>6. CASE Begins(t.file, At(t), u)
  <2>1. u.begin_reached /\ At(u) = 0 /\ \A o \in (0 + 1)..At(t) : t.file[o] # "n"
    BY <1>6 DEF Begins
  <2>2. StartOf(u) = 0 /\ AtLine(u)
    BY <2>1 DEF StartOf, AtLine
  <2>3. LineBegins(t.file, StartOf(u), At(t))
    BY <1>1, <2>1, <2>2 DEF LineBegins, Starts, n
  <2>4. Upped(t, u)
    BY <1>5, <2>2, <2>3 DEF Upped
  <2>5. QED
    BY <1>2, <2>4
<1>7. CASE OnItsWay(t.file, At(t), u, n)
  <2>1. /\ ~u.begin_reached /\ u.page < u.bytes_read /\ At(u) < At(t)
        /\ \A o \in (At(u) + 2)..At(t) : t.file[o] # "n"
        /\ AtNewline(u) \/ At(u) + n < At(t)
    BY <1>7 DEF OnItsWay
  <2>2. ~(At(u) + n < At(t))
    BY <1>1, <1>5
  <2>3. AtNewline(u) /\ t.file[At(u) + 1] = "n"
    BY <1>5, <2>1, <2>2 DEF AtNewline
  <2>4. StartOf(u) = At(u) + 1 /\ AtLine(u)
    BY <2>1, <2>3 DEF StartOf, AtLine
  <2>5. (At(u) + 1) + 1 = At(u) + 2 /\ At(u) + 1 \in 0..At(t) /\ At(u) + 1 \in 0..n
    BY <1>1, <1>5, <2>1
  <2>6. LineBegins(t.file, At(u) + 1, At(t))
    BY <1>1, <2>1, <2>3, <2>5 DEF LineBegins, Starts, n
  <2>7. Upped(t, u)
    BY <1>5, <2>4, <2>6 DEF Upped
  <2>8. QED
    BY <1>2, <2>7
<1>8. QED
  BY <1>4, <1>6, <1>7 DEF GoneBehind

-----------------------------------------------------------------------------
(* Some lines up.                                                          *)

(* The k-th step up is to the line at lines[k].                            *)
IsPath(file, p, lines, n) ==
  /\ LineBegins(file, lines[1], p)
  /\ \A k \in Nat \ {0} : k + 1 <= n =>
       lines[k] \in Nat \ {0} /\ LineBegins(file, lines[k + 1], lines[k] - 1)

(* After k steps up.                                                       *)
UpSteps(t, u, lines, n, k) ==
  /\ Sound(u) /\ Kept(t, u)
  /\ IF k = 0 THEN u = t
     ELSE AtLine(u) /\ (IsPath(t.file, At(t), lines, n) => StartOf(u) = lines[k])

LEMMA StepsUp ==
  ASSUME NEW t, Sound(t), ~t.begin_reached, NEW lines, NEW n, NEW k \in Nat, NEW u,
         UpSteps(t, u, lines, n, k), k + 1 <= n
  PROVE  UpSteps(t, LineUp(u), lines, n, k + 1)
<1> DEFINE v == LineUp(u)
<1> SUFFICES UpSteps(t, v, lines, n, k + 1)
  OBVIOUS
<1>1. Sound(u) /\ Kept(t, u) /\ u.file = t.file /\ At(u) \in Nat /\ At(t) \in Nat
  BY Places DEF UpSteps, Kept
<1>2. ~u.begin_reached => Upped(u, v)
  BY <1>1, LineUpRight
<1>3. u.begin_reached => v = u
  BY DEF LineUp
<1> HIDE DEF v
<1>4. CASE k = 0
  <2>1. Upped(t, v)
    BY <1>2, <1>4 DEF UpSteps
  <2>2. ASSUME IsPath(t.file, At(t), lines, n)
        PROVE  StartOf(v) = lines[1]
    <3>1. LineBegins(t.file, lines[1], At(t)) /\ LineBegins(t.file, StartOf(v), At(t))
      BY <2>1, <2>2 DEF IsPath, Upped
    <3>2. QED
      BY <1>1, <3>1, OneBegin
  <2>3. QED
    BY <1>4, <2>1, <2>2 DEF UpSteps, Upped
<1>5. CASE k # 0
  <2>1. AtLine(u) /\ (IsPath(t.file, At(t), lines, n) => StartOf(u) = lines[k])
    BY <1>5 DEF UpSteps
  <2>2. ASSUME IsPath(t.file, At(t), lines, n)
        PROVE  ~u.begin_reached /\ StartOf(v) = lines[k + 1]
    <3>1. lines[k] \in Nat \ {0} /\ LineBegins(t.file, lines[k + 1], lines[k] - 1)
      BY <1>5, <2>2 DEF IsPath
    <3>2. StartOf(u) = lines[k]
      BY <2>1, <2>2
    <3>3. ~u.begin_reached /\ At(u) = lines[k] - 1
      BY <1>1, <2>1, <3>1, <3>2 DEF AtLine, StartOf
    <3>4. LineBegins(t.file, StartOf(v), At(u))
      BY <1>1, <1>2, <3>3 DEF Upped
    <3>5. LineBegins(t.file, lines[k + 1], At(u))
      BY <3>1, <3>3
    <3>6. QED
      BY <1>1, <3>3, <3>4, <3>5, OneBegin
  <2>3. CASE u.begin_reached
    <3>1. v = u /\ ~IsPath(t.file, At(t), lines, n)
      BY <1>3, <2>2, <2>3
    <3>2. QED
      BY <1>1, <1>5, <2>1, <3>1 DEF UpSteps
  <2>4. CASE ~u.begin_reached
    <3>1. Sound(v) /\ Kept(t, v) /\ AtLine(v)
      BY <1>1, <1>2, <2>4, KeptTwice DEF Upped
    <3>2. QED
      BY <1>5, <2>2, <3>1 DEF UpSteps
  <2>5. QED
    BY <2>3, <2>4
<1>6. QED
  BY <1>4, <1>5

LEMMA WentUp ==
  ASSUME NEW t, Sound(t), ~t.begin_reached, NEW lines, NEW n \in Nat,
         NEW f, Went(f, "up", t, n)
  PROVE  UpSteps(t, f[n], lines, n, n)
<1> DEFINE S == {k \in Nat : k <= n => UpSteps(t, f[k], lines, n, k)}
<1>1. 0 \in S
  <2>1. f[0] = t
    BY WentSteps
  <2>2. UpSteps(t, t, lines, n, 0)
    BY DEF UpSteps, Kept
  <2>3. QED
    BY <2>1, <2>2
<1>2. ASSUME NEW k \in Nat, k \in S
      PROVE  k + 1 \in S
  <2>1. SUFFICES ASSUME k + 1 <= n
                 PROVE  UpSteps(t, f[k + 1], lines, n, k + 1)
    OBVIOUS
  <2>2. UpSteps(t, f[k], lines, n, k)
    BY <1>2, <2>1
  <2>3. f[k + 1] = Body("up", k + 1, f[k])
    BY <2>1, WentSteps
  <2>4. f[k + 1] = LineUp(f[k])
    BY <2>3 DEF Body
  <2>5. UpSteps(t, LineUp(f[k]), lines, n, k + 1)
    BY <2>1, <2>2, StepsUp
  <2>6. QED
    BY <2>4, <2>5
<1> HIDE DEF S
<1>3. n \in S
  BY <1>1, <1>2, Induction
<1>4. QED
  BY <1>3 DEF S

(* UpLines ends at the start of a line, and sets begin_reached there if it *)
(* is the first one.                                                       *)
AtStart(t, u) ==
  /\ Sound(u) /\ Kept(t, u) /\ Starts(u.file, At(u))
  /\ u.begin_reached <=> At(u) = 0

LinesUp(t, u, lines, n) ==
  AtStart(t, u) /\ (IsPath(t.file, At(t), lines, n) => At(u) = lines[n])

LEMMA UpLinesRight ==
  ASSUME NEW t, Sound(t), ~t.begin_reached, NEW lines, NEW n \in Nat \ {0}
  PROVE  LinesUp(t, UpLines(t, n), lines, n)
<1> DEFINE u == Repeated(LineUp, t, n)
           v == [u EXCEPT !.page = u.page + 1]
<1>1. UpSteps(t, u, lines, n, n)
  <2>1. PICK f : Went(f, "up", t, n) /\ u = f[n]
    BY RepeatedUp
  <2> HIDE DEF u
  <2>2. QED
    BY <2>1, WentUp
<1>2. UpLines(t, n) = IF u.begin_reached THEN u ELSE v
  BY DEF UpLines
<1> HIDE DEF u
<1>3. /\ Sound(u) /\ Kept(t, u) /\ AtLine(u) /\ u.file = t.file
      /\ IsPath(t.file, At(t), lines, n) => StartOf(u) = lines[n]
  BY <1>1 DEF UpSteps, Kept
<1>4. /\ Len(u.file) \in Nat /\ At(u) \in 0..Len(u.file)
      /\ At(u) = (u.fpos - u.bytes_read) + u.page
      /\ AtNewline(u) => u.page < u.bytes_read /\ u.file[At(u) + 1] = "n" /\ At(u) < Len(u.file)
      /\ u.fpos \in Nat /\ u.bytes_read \in Nat /\ u.page \in Nat /\ u.bytes_read <= u.fpos
      /\ IsText(u)
  BY <1>3, Places DEF Sound, Buffered
<1>5. CASE u.begin_reached
  <2>1. At(u) = 0 /\ StartOf(u) = At(u)
    BY <1>3, <1>5 DEF AtLine, StartOf
  <2>2. Starts(u.file, At(u))
    BY <1>4, <2>1 DEF Starts
  <2>3. LinesUp(t, u, lines, n)
    BY <1>3, <1>5, <2>1, <2>2 DEF LinesUp, AtStart
  <2>4. QED
    BY <1>2, <1>5, <2>3
<1>6. CASE ~u.begin_reached
  <2>1. AtNewline(u) /\ StartOf(u) = At(u) + 1
    BY <1>3, <1>6 DEF AtLine, StartOf
  <2>2. Placed(u, v, u.fpos, u.bytes_read, u.page + 1)
    <3>1. v = [u EXCEPT !.page = u.page + 1]
      OBVIOUS
    <3> HIDE DEF v
    <3>2. QED
      BY <1>4, <3>1, PageSet
  <2>3. UpLines(t, n) = v
    BY <1>2, <1>6
  <2> HIDE DEF v
  <2>4. /\ IsText(v) /\ Kept(u, v) /\ v.begin_reached = u.begin_reached /\ v.file = u.file
        /\ v.fpos = u.fpos /\ v.bytes_read = u.bytes_read /\ v.page = u.page + 1
    BY <2>2 DEF Placed, Moved, Kept
  <2>5. Sound(v)
    BY <1>3, <1>4, <2>1, <2>4 DEF Sound, Buffered
  <2>6. At(v) = At(u) + 1
    BY <1>4, <2>4 DEF At, Base
  <2>7. Starts(v.file, At(v)) /\ At(v) # 0
    BY <1>4, <2>1, <2>4, <2>6 DEF Starts
  <2>8. Kept(t, v)
    BY <1>3, <2>4, KeptTwice
  <2>9. AtStart(t, v)
    BY <1>6, <2>4, <2>5, <2>7, <2>8 DEF AtStart
  <2>10. LinesUp(t, v, lines, n)
    BY <1>3, <2>1, <2>6, <2>9 DEF LinesUp
  <2>11. QED
    BY <2>3, <2>10
<1>7. QED
  BY <1>5, <1>6

(* Where the line above ends.                                              *)
EndOfLine(t) == IF t.end_reached THEN At(t) ELSE At(t) - 1

LinesBack(t, u, lines, n) ==
  AtStart(t, u) /\ (IsPath(t.file, EndOfLine(t), lines, n) => At(u) = lines[n])

(* back_lines goes up to the start of a line, and does not fail.           *)
LEMMA BackLinesRight ==
  ASSUME NEW t, Sound(t), Settled(t), NEW lines, NEW n \in Nat \ {0}
  PROVE  LinesBack(t, back_lines(t, n), lines, n)
<1> DEFINE u == [t EXCEPT !.begin_reached = FALSE]
           b == Backward(u)
           r == back_lines(t, n)
<1> SUFFICES LinesBack(t, r, lines, n)
  OBVIOUS
<1>1. BeginSetTo(t, u, FALSE)
  <2>1. u = [t EXCEPT !.begin_reached = FALSE] /\ FALSE \in BOOLEAN
    OBVIOUS
  <2> HIDE DEF u
  <2>2. QED
    BY <2>1, BeginSet
<1>2. /\ u.end_reached => r = UpLines(u, n)
      /\ ~u.end_reached /\ AtBegin(u) => r = Begun(u)
      /\ ~u.end_reached /\ ~AtBegin(u) /\ AtNewline(b) => r = UpLines(b, n)
  BY DEF back_lines
<1> HIDE DEF u, r
<1>3. /\ Sound(u) /\ Kept(t, u) /\ ~u.begin_reached /\ At(u) = At(t) /\ u.file = t.file
      /\ u.end_reached = t.end_reached /\ u.end_reached \in BOOLEAN
      /\ At(u) \in 0..Len(t.file) /\ Len(t.file) \in Nat
      /\ AtBegin(u) <=> At(u) = 0
  BY <1>1, Places, BeginIsZero DEF BeginSetTo, Kept, Sound, IsText
<1>4. CASE u.end_reached
  <2>1. LinesUp(u, UpLines(u, n), lines, n)
    BY <1>3, UpLinesRight
  <2>2. AtStart(u, r) /\ (IsPath(t.file, At(u), lines, n) => At(r) = lines[n])
    BY <1>2, <1>3, <1>4, <2>1 DEF LinesUp
  <2>3. AtStart(t, r)
    BY <1>3, <2>2, KeptTwice DEF AtStart
  <2>4. EndOfLine(t) = At(u)
    BY <1>3, <1>4 DEF EndOfLine
  <2>5. QED
    BY <2>2, <2>3, <2>4 DEF LinesBack
<1>5. CASE ~u.end_reached /\ AtBegin(u)
  <2> DEFINE v == [u EXCEPT !.begin_reached = TRUE]
  <2>1. r = v
    BY <1>2, <1>5 DEF Begun
  <2>2. v = [u EXCEPT !.begin_reached = TRUE] /\ TRUE \in BOOLEAN
    OBVIOUS
  <2> HIDE DEF v
  <2>3. BeginSetTo(u, v, TRUE)
    BY <1>3, <2>2, BeginSet
  <2>4. Sound(v) /\ Kept(u, v) /\ v.begin_reached /\ At(v) = 0 /\ v.file = t.file
    BY <1>3, <1>5, <2>3 DEF BeginSetTo, Kept
  <2>5. AtStart(t, r)
    BY <1>3, <2>1, <2>4, KeptTwice DEF AtStart, Starts
  <2>6. EndOfLine(t) = 0 - 1
    BY <1>3, <1>5 DEF EndOfLine
  <2>7. ~IsPath(t.file, EndOfLine(t), lines, n)
    BY <2>6 DEF IsPath, LineBegins
  <2>8. QED
    BY <2>5, <2>7 DEF LinesBack
<1>6. CASE ~u.end_reached /\ ~AtBegin(u)
  <2>1. WentBack(u, b)
    BY <1>3, <1>6, BackwardRight
  <2> HIDE DEF b
  <2>2. /\ Sound(b) /\ Kept(u, b) /\ ~b.begin_reached /\ At(b) = At(u) - 1
        /\ b.page < b.bytes_read /\ b.file = t.file
    BY <1>3, <2>1 DEF WentBack, Moved, Kept
  <2>3. Starts(t.file, At(t)) /\ At(t) # 0
    BY <1>3, <1>6 DEF Settled
  <2>4. AtNewline(b)
    <3>1. At(b) + 1 = At(t) /\ t.file[At(t)] = "n"
      BY <1>3, <2>2, <2>3 DEF Starts
    <3>2. QED
      BY <2>2, <3>1 DEF AtNewline
  <2>5. LinesUp(b, UpLines(b, n), lines, n)
    BY <2>2, UpLinesRight
  <2>6. AtStart(b, r) /\ (IsPath(t.file, At(b), lines, n) => At(r) = lines[n])
    BY <1>2, <1>6, <2>2, <2>4, <2>5 DEF LinesUp
  <2>7. AtStart(t, r)
    BY <1>3, <2>2, <2>6, KeptTwice DEF AtStart
  <2>8. EndOfLine(t) = At(b)
    BY <1>3, <1>6, <2>2 DEF EndOfLine
  <2>9. QED
    BY <2>6, <2>7, <2>8 DEF LinesBack
<1>7. QED
  BY <1>3, <1>4, <1>5, <1>6

-----------------------------------------------------------------------------
(* Between the keys.                                                       *)

(* What holds of every box, also of one that has opened with what an       *)
(* earlier one left in begin_reached.                                      *)
Rest(t) == Sound(t) /\ ~t.internal_error /\ t.page_length > 0 /\ Settled(t)

Screen(t) ==
  /\ Window(t, t.rows[1].line, Rows)
  /\ Starts(t.file, t.rows[1].line)
  /\ t.begin_reached <=> t.rows[1].line = 0

TextRight(t) == Rest(t) /\ (~t.stale => Screen(t))

(* A page is printed from the start of a line.                             *)
Opened(t) ==
  /\ Sound(t) /\ ~t.internal_error /\ Starts(t.file, At(t))
  /\ ~t.stale => (t.begin_reached <=> At(t) = 0)

LEMMA PrintedRight ==
  ASSUME NEW t, Opened(t)
  PROVE  TextRight(print_page(t))
<1> DEFINE u == print_page(t)
<1> SUFFICES TextRight(u)
  OBVIOUS
<1>1. PagePrinted(t, u)
  BY PagePrints DEF Opened
<1> HIDE DEF u
<1>2. /\ Sound(u) /\ u.file = t.file /\ u.internal_error = t.internal_error /\ u.stale = t.stale
      /\ u.begin_reached = t.begin_reached /\ Counting(u, At(t), Rows)
  BY <1>1 DEF PagePrinted, Carried
<1>3. Window(u, At(t), Rows) /\ Settled(u)
  BY <1>2, BoxSizes DEF Counting
<1>4. u.page_length > 0 /\ u.rows[1].line = At(t)
  BY <1>3, BoxSizes DEF Window
<1>5. Rest(u)
  BY <1>2, <1>3, <1>4 DEF Rest, Opened
<1>6. ASSUME ~u.stale
      PROVE  Screen(u)
  BY <1>2, <1>3, <1>4, <1>6 DEF Screen, Opened
<1>7. QED
  BY <1>5, <1>6 DEF TextRight

LEMMA BackIsOpened ==
  ASSUME NEW t, Rest(t), NEW n \in Nat \ {0}
  PROVE  Opened(back_lines(t, n))
<1>1. LinesBack(t, back_lines(t, n), <<>>, n)
  BY BackLinesRight DEF Rest
<1>2. QED
  BY <1>1 DEF LinesBack, AtStart, Kept, Opened, Rest

LEMMA PreviousPageRight ==
  ASSUME NEW t, TextRight(t)
  PROVE  TextRight(PreviousPage(t))
<1>1. Rest(t) /\ t.page_length + Rows \in Nat \ {0}
  <2>1. Rest(t) /\ t.page_length \in Nat
    BY DEF TextRight, Rest, Sound, IsText
  <2>2. QED
    BY <2>1, BoxSizes
<1>2. TextRight(print_page(back_lines(t, t.page_length + Rows)))
  BY <1>1, BackIsOpened, PrintedRight
<1>3. QED
  BY <1>2 DEF PreviousPage

LEMMA SidewaysRight ==
  ASSUME NEW t, TextRight(t), NEW column
  PROVE  TextRight(Sideways(t, column))
<1> DEFINE u == [t EXCEPT !.hscroll = column]
<1>1. Rest(t) /\ t.page_length \in Nat \ {0}
  BY DEF TextRight, Rest, Sound, IsText
<1>2. u = [f \in TextFields |-> u[f]] /\ \A f \in TextFields \ {"hscroll"} : u[f] = t[f]
  BY <1>1 DEF Rest, Sound, IsText, TextFields
<1>3. Sideways(t, column) = print_page(back_lines(u, t.page_length))
  BY DEF Sideways
<1> HIDE DEF u
<1>4. /\ u.file = t.file /\ u.fpos = t.fpos /\ u.bytes_read = t.bytes_read /\ u.page = t.page
      /\ u.rows = t.rows /\ u.begin_reached = t.begin_reached /\ u.end_reached = t.end_reached
      /\ u.passed_end = t.passed_end /\ u.page_length = t.page_length
      /\ u.internal_error = t.internal_error
  BY <1>2 DEF TextFields
<1>5. Sound(u)
  BY <1>1, <1>2, <1>4 DEF Rest, Sound, IsText, Buffered
<1>6. At(u) = At(t)
  BY <1>4 DEF At, Base
<1>7. Rest(u)
  BY <1>1, <1>4, <1>5, <1>6 DEF Rest, Settled
<1>8. QED
  BY <1>1, <1>3, <1>7, BackIsOpened, PrintedRight

LEMMA FirstPageRight ==
  ASSUME NEW t, TextRight(t)
  PROVE  TextRight(FirstPage(t))
<1>0. Sound(t) /\ ~t.internal_error
  BY DEF TextRight, Rest
<1> DEFINE r == IF t.fpos > t.bytes_read THEN ReadFrom(t, 0) ELSE t
           v == [r EXCEPT !.page = 0]
           u == [r EXCEPT !.page = 0, !.begin_reached = TRUE]
<1>1. /\ IsText(t) /\ Len(t.file) \in Nat /\ 0 \in 0..Len(t.file)
      /\ t.fpos \in Nat /\ t.bytes_read \in Nat /\ t.bytes_read <= t.fpos /\ t.fpos <= Len(t.file)
      /\ t.fpos < Len(t.file) => t.bytes_read = BUF_SIZE
  BY <1>0, Places DEF Sound, Buffered
<1>2. FirstPage(t) = IF t.begin_reached THEN t ELSE print_page(u)
  BY DEF FirstPage
<1>3. Sound(v) /\ Moved(t, v) /\ At(v) = 0
  <2>1. CASE t.fpos > t.bytes_read
    <3>1. r = ReadFrom(t, 0)
      BY <2>1
    <3>2. HasRead(t, r, 0)
      BY <1>1, <3>1, ReadRight
    <3>3. 0 + 0 <= r.fpos /\ 0 \in Nat
      BY <3>2 DEF HasRead
    <3>4. v = [r EXCEPT !.page = 0]
      OBVIOUS
    <3> HIDE DEF r, v
    <3>5. ReadIn(t, r, v, 0, 0)
      BY <1>1, <3>2, <3>3, <3>4, ReadIsBuffered
    <3>6. QED
      BY <3>5 DEF ReadIn
  <2>2. CASE ~(t.fpos > t.bytes_read)
    <3>1. r = t /\ t.fpos = t.bytes_read
      BY <1>1, <2>2
    <3>2. v = [t EXCEPT !.page = 0]
      BY <3>1
    <3> HIDE DEF r, v
    <3>3. Placed(t, v, t.fpos, t.bytes_read, 0)
      BY <1>1, <3>2, PageSet
    <3>4. Moved(t, v) /\ IsText(v) /\ v.file = t.file /\ v.fpos = t.fpos /\ v.bytes_read = t.bytes_read
          /\ v.page = 0
      BY <3>3 DEF Placed, Moved, Kept
    <3>5. Sound(v)
      BY <1>1, <3>4 DEF Sound, Buffered
    <3>6. At(v) = 0
      BY <1>1, <3>1, <3>4 DEF At, Base
    <3>7. QED
      BY <3>4, <3>5, <3>6
  <2>3. QED
    BY <2>1, <2>2
<1>4. u = [v EXCEPT !.begin_reached = TRUE]
  <2>1. IsText(r)
    BY <1>1, ReadRight DEF HasRead, Moved
  <2> HIDE DEF r
  <2>2. QED
    BY <2>1 DEF IsText, TextFields
<1> HIDE DEF r, v, u
<1>5. BeginSetTo(v, u, TRUE)
  <2>1. TRUE \in BOOLEAN
    OBVIOUS
  <2>2. QED
    BY <1>3, <1>4, <2>1, BeginSet
<1>6. /\ Sound(u) /\ At(u) = 0 /\ u.begin_reached /\ u.internal_error = t.internal_error
      /\ u.file = t.file
  BY <1>3, <1>5 DEF BeginSetTo, Moved, Kept
<1>7. Opened(u)
  BY <1>0, <1>1, <1>6 DEF Opened, Starts
<1>8. QED
  BY <1>2, <1>7, PrintedRight

LEMMA LastPageRight ==
  ASSUME NEW t, TextRight(t)
  PROVE  TextRight(LastPage(t))
<1>0. Sound(t) /\ ~t.internal_error /\ t.page_length > 0
  BY DEF TextRight, Rest
<1> DEFINE n == Len(t.file)
           r == IF t.fpos < file_size(t) THEN ReadFrom(t, file_size(t) - BUF_SIZE) ELSE t
           v == [r EXCEPT !.page = r.bytes_read]
           u == [r EXCEPT !.page = r.bytes_read, !.end_reached = TRUE]
<1>1. /\ IsText(t) /\ n \in Nat /\ file_size(t) = n /\ BUF_SIZE \in Nat
      /\ t.fpos \in Nat /\ t.bytes_read \in Nat /\ t.bytes_read <= t.fpos /\ t.fpos <= n
      /\ t.fpos < n => t.bytes_read = BUF_SIZE
  BY <1>0, Places, BoxSizes, FileLength DEF Sound, Buffered
<1>2. LastPage(t) = print_page(back_lines(u, Rows))
  BY DEF LastPage
<1>3. Sound(v) /\ Moved(t, v) /\ At(v) = n /\ IsText(r)
  <2>1. CASE t.fpos < n
    <3> DEFINE at == n - BUF_SIZE
    <3>1. r = ReadFrom(t, at) /\ at \in 0..n /\ at + BUF_SIZE = n /\ at \in Nat
      BY <1>1, <2>1
    <3> HIDE DEF at
    <3>2. HasRead(t, r, at)
      BY <1>1, <3>1, ReadRight
    <3> HIDE DEF r
    <3>3. r.fpos = n /\ r.bytes_read = n - at /\ IsText(r)
      BY <1>1, <3>1, <3>2 DEF HasRead, Moved
    <3>4. at + r.bytes_read <= r.fpos /\ at + r.bytes_read = n /\ r.bytes_read \in Nat
      BY <1>1, <3>1, <3>3
    <3>5. ReadIn(t, r, v, at, r.bytes_read)
      <4>1. v = [r EXCEPT !.page = r.bytes_read]
        OBVIOUS
      <4> HIDE DEF v
      <4>2. QED
        BY <1>1, <3>1, <3>2, <3>4, <4>1, ReadIsBuffered
    <3> HIDE DEF v
    <3>6. QED
      BY <3>3, <3>4, <3>5 DEF ReadIn
  <2>2. CASE ~(t.fpos < n)
    <3>1. r = t /\ t.fpos = n
      BY <1>1, <2>2
    <3>2. v = [t EXCEPT !.page = t.bytes_read]
      BY <3>1
    <3> HIDE DEF r, v
    <3>3. Placed(t, v, t.fpos, t.bytes_read, t.bytes_read)
      BY <1>1, <3>2, PageSet
    <3>4. Moved(t, v) /\ IsText(v) /\ v.file = t.file /\ v.fpos = t.fpos /\ v.bytes_read = t.bytes_read
          /\ v.page = t.bytes_read
      BY <3>3 DEF Placed, Moved, Kept
    <3>5. Sound(v)
      BY <1>1, <3>4 DEF Sound, Buffered
    <3>6. At(v) = n
      BY <1>1, <3>1, <3>4 DEF At, Base
    <3>7. QED
      BY <1>1, <3>1, <3>4, <3>5, <3>6
  <2>3. QED
    BY <2>1, <2>2
<1>4. u = [v EXCEPT !.page = v.page, !.end_reached = TRUE] /\ v.page = r.bytes_read
  <2> HIDE DEF r
  <2>1. QED
    BY <1>3 DEF IsText, TextFields
<1> HIDE DEF r, v, u
<1>5. EndedAt(v, u, v.page, TRUE)
  <2>1. TRUE \in BOOLEAN /\ v.page \in Nat /\ v.page <= v.bytes_read
    BY <1>3 DEF Sound, Buffered
  <2>2. QED
    BY <1>3, <1>4, <2>1, EndSet
<1>6. At(v) = (v.fpos - v.bytes_read) + v.page
  BY <1>3, Places
<1>7. /\ Sound(u) /\ At(u) = n /\ u.end_reached /\ u.internal_error = t.internal_error
      /\ u.page_length = t.page_length /\ u.file = t.file
  BY <1>3, <1>5, <1>6 DEF EndedAt, Carried, Moved, Kept
<1>8. Rest(u)
  BY <1>0, <1>7 DEF Rest, Settled, n
<1>9. QED
  BY <1>2, <1>8, BackIsOpened, PrintedRight, BoxSizes

(* The rows counted are lines of the file, each the one after the one      *)
(* above it.                                                               *)
RowsFollow(t) ==
  /\ \A i \in 1..t.page_length : Starts(t.file, t.rows[i].line) /\ t.rows[i].line \in Nat
  /\ \A i \in 1..(t.page_length - 1) : Follows(t.file, t.rows[i].line, t.rows[i + 1].line)

LEMMA RowsStart ==
  ASSUME NEW t, Rest(t), Screen(t)
  PROVE  RowsFollow(t)
<1> DEFINE m == t.page_length
           file == t.file
<1>1. /\ m \in 1..Rows /\ Rows \in Nat /\ Len(file) \in Nat
      /\ \A i \in 1..(Rows - 1) : t.rows[i + 1].line = LineAfter(file, t.rows[i].line)
      /\ \A i \in 1..(m - 1) : ~NoMore(file, t.rows[i].line)
      /\ Starts(file, t.rows[1].line)
  BY Places, BoxSizes DEF Screen, Window, Rest
<1> HIDE DEF m, file
<1>2. ASSUME NEW i \in 1..(m - 1), Starts(file, t.rows[i].line)
      PROVE  Follows(file, t.rows[i].line, t.rows[i + 1].line) /\ Starts(file, t.rows[i + 1].line)
  <2>1. t.rows[i].line \in Nat /\ i \in 1..(Rows - 1)
    BY <1>1, <1>2 DEF Starts
  <2>2. ~NoMore(file, t.rows[i].line)
    BY <1>1
  <2>3. Follows(file, t.rows[i].line, t.rows[i + 1].line)
    BY <1>1, <2>1, <2>2, NextLineFollows
  <2>4. t.rows[i + 1].line \in (t.rows[i].line + 1)..Len(file) /\ file[t.rows[i + 1].line] = "n"
    BY <2>3 DEF Follows
  <2>5. t.rows[i + 1].line \in 0..Len(file)
    BY <1>1, <2>1, <2>4
  <2>6. QED
    BY <2>3, <2>4, <2>5 DEF Starts
<1> DEFINE S == {k \in Nat : k + 1 <= m => Starts(file, t.rows[k + 1].line)}
<1>3. 0 \in S
  BY <1>1
<1>4. ASSUME NEW k \in Nat, k \in S
      PROVE  k + 1 \in S
  <2> SUFFICES ASSUME (k + 1) + 1 <= m PROVE Starts(file, t.rows[(k + 1) + 1].line)
    OBVIOUS
  <2>1. k + 1 <= m /\ k + 1 \in 1..(m - 1)
    BY <1>1
  <2>2. Starts(file, t.rows[k + 1].line)
    BY <1>4, <2>1
  <2>3. QED
    BY <1>2, <2>1, <2>2
<1>5. ASSUME NEW i \in 1..m
      PROVE  Starts(file, t.rows[i].line)
  <2>1. i - 1 \in Nat /\ (i - 1) + 1 = i /\ i <= m
    BY <1>1
  <2>2. i - 1 \in S
    <3> HIDE DEF S
    <3> QED BY <1>3, <1>4, <2>1, Induction
  <2>3. (i - 1) + 1 <= m => Starts(file, t.rows[(i - 1) + 1].line)
    BY <2>2
  <2>4. QED
    BY <2>1, <2>3
<1>6. ASSUME NEW i \in 1..m
      PROVE  t.rows[i].line \in Nat
  BY <1>5 DEF Starts
<1>7. ASSUME NEW i \in 1..(m - 1)
      PROVE  Follows(file, t.rows[i].line, t.rows[i + 1].line)
  <2>1. i \in 1..m
    BY <1>1
  <2>2. QED
    BY <1>2, <1>5, <2>1
<1>8. QED
  BY <1>5, <1>6, <1>7 DEF RowsFollow, m, file

(* Where the last row ends before the end of the file, the next line       *)
(* starts behind it.                                                       *)
GoesOn(t) ==
  /\ t.page_length = Rows
  /\ Follows(t.file, t.rows[Rows].line, At(t)) /\ ~NoMore(t.file, t.rows[Rows].line)
  /\ At(t) > 0 /\ Starts(t.file, At(t))

LEMMA WindowGoesOn ==
  ASSUME NEW t, Rest(t), Screen(t), ~t.end_reached
  PROVE  GoesOn(t)
<1>1. Window(t, t.rows[1].line, Rows)
  BY DEF Screen
<1>2. t.page_length = Rows /\ ~NoMore(t.file, t.rows[Rows].line)
      /\ At(t) = LineAfter(t.file, t.rows[Rows].line)
  BY <1>1 DEF Window
<1>3. At(t) \in 0..Len(t.file) /\ Len(t.file) \in Nat
  BY Places DEF Rest
<1>4. t.rows[Rows].line \in Nat
  <2>1. RowsFollow(t) /\ Rows \in 1..t.page_length
    BY <1>2, RowsStart, BoxSizes
  <2>2. QED
    BY <2>1 DEF RowsFollow
<1>5. Follows(t.file, t.rows[Rows].line, At(t))
  BY <1>2, <1>3, <1>4, NextLineFollows
<1>6. At(t) \in (t.rows[Rows].line + 1)..Len(t.file)
  BY <1>5 DEF Follows
<1>7. At(t) > 0
  BY <1>3, <1>4, <1>6
<1>8. Starts(t.file, At(t))
  BY DEF Rest, Settled
<1>9. QED
  BY <1>2, <1>5, <1>7, <1>8 DEF GoesOn

LEMMA NextPageRight ==
  ASSUME NEW t, TextRight(t)
  PROVE  TextRight(NextPage(t))
<1> DEFINE u == [t EXCEPT !.begin_reached = FALSE]
<1>1. Rest(t) /\ Sound(t)
  BY DEF TextRight, Rest
<1>2. BeginSetTo(t, u, FALSE)
  <2>1. u = [t EXCEPT !.begin_reached = FALSE] /\ FALSE \in BOOLEAN
    OBVIOUS
  <2> HIDE DEF u
  <2>2. QED
    BY <1>1, <2>1, BeginSet
<1>3. NextPage(t) = IF t.end_reached THEN t ELSE print_page(u)
  BY DEF NextPage
<1> HIDE DEF u
<1>4. /\ Sound(u) /\ u.internal_error = t.internal_error /\ u.file = t.file /\ u.stale = t.stale
      /\ At(u) = At(t) /\ u.begin_reached = FALSE
  BY <1>2 DEF BeginSetTo, Kept
<1>5. ASSUME ~t.end_reached
      PROVE  Opened(u)
  <2>1. Starts(u.file, At(u)) /\ ~u.internal_error
    BY <1>1, <1>4, <1>5 DEF Rest, Settled
  <2>2. ASSUME ~t.stale
        PROVE  At(t) # 0
    <3>1. GoesOn(t)
      BY <1>1, <1>5, <2>2, WindowGoesOn DEF TextRight
    <3>2. At(t) > 0 /\ At(t) \in Nat
      BY <1>1, <3>1, Places DEF GoesOn
    <3>3. QED
      BY <3>2
  <2>3. QED
    BY <1>4, <2>1, <2>2 DEF Opened
<1>6. QED
  BY <1>3, <1>5, PrintedRight

(* The screen is scrolled up by a row.                                     *)
LEMMA NextLineRight ==
  ASSUME NEW t, TextRight(t)
  PROVE  TextRight(NextLine(t))
<1> DEFINE rows == [i \in 1..Rows |-> IF i = Rows THEN Row(t) ELSE t.rows[i + 1]]
           v == [t EXCEPT !.rows = rows]
           s == [t EXCEPT !.rows = rows, !.begin_reached = FALSE]
           u == get_line(s)
<1>1. Rest(t) /\ Sound(t) /\ Rows \in Nat \ {0}
  BY BoxSizes DEF TextRight, Rest
<1>2. NextLine(t) = IF t.end_reached THEN t ELSE u
  BY DEF NextLine
<1>3. RowsAre(t, v, rows)
  <2>1. rows = [i \in 1..Rows |-> rows[i]] /\ v = [t EXCEPT !.rows = rows]
    OBVIOUS
  <2> HIDE DEF rows, v
  <2>2. QED
    BY <1>1, <2>1, RowsSet
<1>4. s = [v EXCEPT !.begin_reached = FALSE]
  BY <1>1 DEF Sound, IsText, TextFields
<1>5. /\ rows[Rows].line = At(t) /\ rows[Rows].column = t.hscroll
      /\ \A i \in 1..(Rows - 1) : rows[i] = t.rows[i + 1]
  <2>1. rows[Rows] = Row(t)
    BY <1>1
  <2>2. ASSUME NEW i \in 1..(Rows - 1)
        PROVE  rows[i] = t.rows[i + 1]
    <3>1. i \in 1..Rows /\ i # Rows
      BY <1>1
    <3>2. QED
      BY <3>1
  <2>3. QED
    BY <2>1, <2>2 DEF Row
<1> HIDE DEF rows, v, s
<1>6. BeginSetTo(v, s, FALSE)
  <2>1. FALSE \in BOOLEAN
    OBVIOUS
  <2>2. QED
    BY <1>3, <1>4, <2>1, BeginSet DEF RowsAre
<1>7. GotLine(s, u)
  BY <1>6, LineRead DEF BeginSetTo
<1>8. Settled(u)
  BY <1>6, <1>7, LineReadSettles DEF BeginSetTo
<1> HIDE DEF u
<1>9. /\ s.file = t.file /\ s.hscroll = t.hscroll /\ s.rows = rows /\ s.page_length = t.page_length
      /\ s.internal_error = t.internal_error /\ s.stale = t.stale
      /\ s.begin_reached = FALSE /\ At(s) = At(t)
  BY <1>3, <1>6 DEF BeginSetTo, Kept, RowsAre, Carried
<1>10. /\ Sound(u) /\ u.file = t.file /\ u.hscroll = t.hscroll /\ u.rows = rows
       /\ u.page_length = t.page_length
       /\ u.internal_error = t.internal_error /\ u.stale = t.stale
       /\ u.begin_reached = FALSE /\ At(u) = LineAfter(t.file, At(t))
       /\ u.end_reached <=> NoMore(t.file, At(t))
  BY <1>7, <1>9 DEF GotLine, Carried
<1>11. Rest(u)
  BY <1>1, <1>8, <1>10 DEF Rest
<1>12. ASSUME ~t.stale, ~t.end_reached
       PROVE  Screen(u)
  <2>1. Screen(t) /\ Window(t, t.rows[1].line, Rows) /\ GoesOn(t) /\ RowsFollow(t)
    BY <1>1, <1>12, WindowGoesOn, RowsStart DEF TextRight, Screen
  <2>2. t.page_length = Rows /\ At(t) > 0 /\ ~NoMore(t.file, t.rows[Rows].line)
        /\ At(t) = LineAfter(t.file, t.rows[Rows].line)
    BY <2>1 DEF GoesOn, Window
  <2>3. ASSUME NEW i \in 1..(Rows - 1)
        PROVE  /\ rows[i + 1].line = LineAfter(t.file, rows[i].line)
               /\ rows[i].column = t.hscroll
               /\ ~NoMore(t.file, rows[i].line)
    <3>1. rows[i] = t.rows[i + 1] /\ i + 1 \in 1..Rows
      BY <1>1, <1>5
    <3>2. CASE i + 1 = Rows
      BY <1>5, <2>1, <2>2, <3>1, <3>2 DEF Window
    <3>3. CASE i + 1 # Rows
      <4>1. i + 1 \in 1..(Rows - 1)
        BY <1>1, <3>3
      <4>2. rows[i + 1] = t.rows[(i + 1) + 1]
        BY <1>5, <4>1
      <4>3. QED
        BY <2>1, <2>2, <3>1, <4>1, <4>2 DEF Window
    <3>4. QED
      BY <3>2, <3>3
  <2>4. ASSUME NEW i \in 1..Rows
        PROVE  rows[i].column = t.hscroll
    <3>1. i = Rows \/ i \in 1..(Rows - 1)
      BY <1>1
    <3>2. QED
      BY <1>5, <2>3, <3>1
  <2>5. Window(u, u.rows[1].line, Rows)
    BY <1>1, <1>5, <1>10, <2>2, <2>3, <2>4 DEF Window
  <2>6. Starts(t.file, rows[1].line) /\ rows[1].line # 0
    <3>1. CASE Rows = 1
      BY <1>1, <1>5, <2>1, <2>2, <3>1 DEF GoesOn
    <3>2. CASE Rows # 1
      <4>1. 1 \in 1..(Rows - 1) /\ 1 + 1 \in 1..Rows /\ 1 \in 1..Rows
        BY <1>1, <3>2
      <4>2. rows[1] = t.rows[1 + 1]
        BY <1>5, <4>1
      <4>3. /\ Starts(t.file, t.rows[1 + 1].line) /\ t.rows[1].line \in Nat
            /\ Follows(t.file, t.rows[1].line, t.rows[1 + 1].line)
        BY <2>1, <2>2, <4>1 DEF RowsFollow
      <4>4. t.rows[1 + 1].line \in (t.rows[1].line + 1)..Len(t.file)
        BY <4>3 DEF Follows
      <4>5. t.rows[1 + 1].line # 0
        BY <4>3, <4>4
      <4>6. QED
        BY <4>2, <4>3, <4>5
    <3>3. QED
      BY <3>1, <3>2
  <2>7. QED
    BY <1>10, <2>5, <2>6 DEF Screen
<1>13. QED
  BY <1>2, <1>10, <1>11, <1>12 DEF TextRight

-----------------------------------------------------------------------------
(* The line above the screen.                                              *)

LEMMA LineHasBegin ==
  ASSUME NEW file, NEW n \in Nat, Len(file) = n, NEW p \in 0..n
  PROVE  \E s : LineBegins(file, s, p)
<1> DEFINE S == {q \in Nat : q <= n => \E s : LineBegins(file, s, q)}
<1>1. 0 \in S
  <2>1. LineBegins(file, 0, 0)
    BY DEF LineBegins, Starts
  <2>2. QED
    BY <2>1
<1>2. ASSUME NEW q \in Nat, q \in S
      PROVE  q + 1 \in S
  <2> SUFFICES ASSUME q + 1 <= n PROVE \E s : LineBegins(file, s, q + 1)
    OBVIOUS
  <2>1. PICK s : LineBegins(file, s, q)
    BY <1>2
  <2>2. CASE file[q + 1] = "n"
    <3>1. q + 1 \in 0..(q + 1) /\ q + 1 \in 0..n
      OBVIOUS
    <3>2. LineBegins(file, q + 1, q + 1)
      BY <2>2, <3>1 DEF LineBegins, Starts
    <3>3. QED
      BY <3>2
  <2>3. CASE file[q + 1] # "n"
    <3>1. s \in 0..q /\ Starts(file, s) /\ \A o \in (s + 1)..q : file[o] # "n"
      BY <2>1 DEF LineBegins
    <3>2. ASSUME NEW o \in (s + 1)..(q + 1)
          PROVE  file[o] # "n"
      <4>1. o = q + 1 \/ o \in (s + 1)..q
        BY <3>1
      <4>2. QED
        BY <2>3, <3>1, <4>1
    <3>3. s \in 0..(q + 1)
      BY <3>1
    <3>4. LineBegins(file, s, q + 1)
      BY <3>1, <3>2, <3>3 DEF LineBegins
    <3>5. QED
      BY <3>4
  <2>4. QED
    BY <2>2, <2>3
<1> HIDE DEF S
<1>3. p \in S /\ p \in Nat /\ p <= n
  BY <1>1, <1>2, Induction
<1>4. QED
  BY <1>3 DEF S

LEMMA FollowsBegins ==
  ASSUME NEW file, NEW a \in Nat, NEW q, Starts(file, a), Follows(file, a, q)
  PROVE  q \in Nat \ {0} /\ LineBegins(file, a, q - 1)
<1>1. q \in (a + 1)..Len(file) /\ \A o \in (a + 1)..(q - 1) : file[o] # "n"
  BY DEF Follows
<1>2. q \in Nat \ {0} /\ a \in 0..(q - 1)
  BY <1>1
<1>3. QED
  BY <1>1, <1>2 DEF LineBegins

(* The last line counted ends where back_lines sets out.                   *)
LEMMA LastRowBegins ==
  ASSUME NEW t, Rest(t), Screen(t)
  PROVE  LineBegins(t.file, t.rows[t.page_length].line, EndOfLine(t))
<1> DEFINE r == t.rows[t.page_length].line
<1>1. /\ t.page_length \in 1..t.page_length /\ Len(t.file) \in Nat
      /\ At(t) \in 0..Len(t.file)
      /\ t.end_reached <=> NoMore(t.file, r)
  BY Places, BoxSizes DEF Rest, Screen, Window
<1>2. Starts(t.file, r) /\ r \in Nat /\ r \in 0..Len(t.file)
  BY <1>1, RowsStart DEF RowsFollow, Starts
<1>3. CASE t.end_reached
  <2>1. EndOfLine(t) = Len(t.file)
    BY <1>3 DEF EndOfLine, Rest, Settled
  <2>2. QED
    BY <1>1, <1>2, <1>3, <2>1 DEF LineBegins, NoMore
<1>4. CASE ~t.end_reached
  <2>1. Follows(t.file, r, At(t))
    BY <1>4, WindowGoesOn DEF GoesOn
  <2>2. LineBegins(t.file, r, At(t) - 1)
    BY <1>2, <2>1, FollowsBegins
  <2>3. QED
    BY <1>4, <2>2 DEF EndOfLine
<1>5. QED
  BY <1>3, <1>4

(* The rows, from the last one counted up, and the line above them.        *)
LEMMA RowsArePath ==
  ASSUME NEW t, Rest(t), Screen(t), ~t.begin_reached, NEW s,
         LineBegins(t.file, s, t.rows[1].line - 1), NEW lines,
         lines = [k \in 1..(t.page_length + 1) |->
                    IF k = t.page_length + 1 THEN s ELSE t.rows[(t.page_length + 1) - k].line]
  PROVE  IsPath(t.file, EndOfLine(t), lines, t.page_length + 1)
<1> DEFINE m == t.page_length
<1>1. m \in Nat \ {0} /\ RowsFollow(t)
  BY BoxSizes, RowsStart DEF Rest, Screen, Window
<1>2. /\ \A i \in 1..m : Starts(t.file, t.rows[i].line) /\ t.rows[i].line \in Nat
      /\ \A i \in 1..(m - 1) : Follows(t.file, t.rows[i].line, t.rows[i + 1].line)
  BY <1>1 DEF RowsFollow
<1>3. t.rows[1].line # 0
  BY DEF Screen
<1>4. LineBegins(t.file, t.rows[m].line, EndOfLine(t))
  BY LastRowBegins
<1> HIDE DEF m
<1>5. /\ lines[m + 1] = s
      /\ \A k \in 1..m : lines[k] = t.rows[(m + 1) - k].line
  <2>1. lines = [k \in 1..(m + 1) |-> IF k = m + 1 THEN s ELSE t.rows[(m + 1) - k].line]
    BY DEF m
  <2>2. m + 1 \in 1..(m + 1) /\ \A k \in 1..m : k \in 1..(m + 1) /\ k # m + 1
    BY <1>1
  <2>3. QED
    BY <2>1, <2>2
<1>6. LineBegins(t.file, lines[1], EndOfLine(t))
  <2>1. 1 \in 1..m /\ (m + 1) - 1 = m
    BY <1>1
  <2>2. QED
    BY <1>4, <1>5, <2>1
<1>7. ASSUME NEW k \in Nat \ {0}, k + 1 <= m + 1
      PROVE  lines[k] \in Nat \ {0} /\ LineBegins(t.file, lines[k + 1], lines[k] - 1)
  <2>1. k \in 1..m
    BY <1>1, <1>7
  <2>2. CASE k = m
    <3>1. lines[k] = t.rows[1].line /\ lines[k + 1] = s /\ 1 \in 1..m
      <4>1. (m + 1) - k = 1 /\ 1 \in 1..m
        BY <1>1, <2>2
      <4>2. QED
        BY <1>5, <2>1, <2>2, <4>1
    <3>2. t.rows[1].line \in Nat
      BY <1>2, <3>1
    <3>3. QED
      BY <1>3, <3>1, <3>2
  <2>3. CASE k # m
    <3> DEFINE i == m - k
    <3>1. /\ i \in 1..(m - 1) /\ i \in 1..m /\ k + 1 \in 1..m
          /\ (m + 1) - k = i + 1 /\ (m + 1) - (k + 1) = i
      BY <1>1, <2>1, <2>3
    <3> HIDE DEF i
    <3>2. lines[k] = t.rows[i + 1].line /\ lines[k + 1] = t.rows[i].line
      BY <1>5, <2>1, <3>1
    <3>3. /\ Starts(t.file, t.rows[i].line) /\ t.rows[i].line \in Nat
          /\ Follows(t.file, t.rows[i].line, t.rows[i + 1].line)
      BY <1>2, <3>1
    <3>4. t.rows[i + 1].line \in Nat \ {0} /\ LineBegins(t.file, t.rows[i].line, t.rows[i + 1].line - 1)
      BY <3>3, FollowsBegins
    <3>5. QED
      BY <3>2, <3>4
  <2>4. QED
    BY <2>2, <2>3
<1>8. IsPath(t.file, EndOfLine(t), lines, m + 1)
  BY <1>6, <1>7 DEF IsPath
<1>9. QED
  BY <1>8 DEF m

(* A line up from the screen is the line before its first row.             *)
LineAbove(t, u) ==
  AtStart(t, u) /\ (Screen(t) /\ ~t.begin_reached => LineAfter(t.file, At(u)) = t.rows[1].line)

LEMMA BackAbove ==
  ASSUME NEW t, Rest(t)
  PROVE  LineAbove(t, back_lines(t, t.page_length + 1))
<1> DEFINE m == t.page_length
           u == back_lines(t, m + 1)
<1>1. m + 1 \in Nat \ {0} /\ Sound(t) /\ Settled(t)
  BY DEF Rest, Sound, IsText
<1>2. AtStart(t, u)
  BY <1>1, BackLinesRight DEF LinesBack
<1>3. ASSUME Screen(t), ~t.begin_reached
      PROVE  LineAfter(t.file, At(u)) = t.rows[1].line
  <2> DEFINE q == t.rows[1].line
  <2>1. q # 0 /\ Starts(t.file, q) /\ Len(t.file) \in Nat
    BY <1>1, <1>3, Places DEF Screen
  <2>2. q \in 1..Len(t.file) /\ t.file[q] = "n" /\ q - 1 \in 0..Len(t.file)
    BY <2>1 DEF Starts
  <2>3. PICK s : LineBegins(t.file, s, q - 1)
    BY <2>1, <2>2, LineHasBegin
  <2> DEFINE lines == [k \in 1..(m + 1) |-> IF k = m + 1 THEN s ELSE t.rows[(m + 1) - k].line]
  <2>4. IsPath(t.file, EndOfLine(t), lines, m + 1)
    <3>1. lines = [k \in 1..(t.page_length + 1) |->
                    IF k = t.page_length + 1 THEN s ELSE t.rows[(t.page_length + 1) - k].line]
      OBVIOUS
    <3> HIDE DEF lines
    <3>2. QED
      BY <1>3, <2>3, <3>1, RowsArePath
  <2>5. lines[m + 1] = s
    BY <1>1
  <2> HIDE DEF lines, q
  <2>6. At(u) = s
    BY <1>1, <2>4, <2>5, BackLinesRight DEF LinesBack
  <2>7. /\ s \in 0..(q - 1)
        /\ \A o \in (s + 1)..(q - 1) : t.file[o] # "n"
    BY <2>3 DEF LineBegins
  <2>8. s \in Nat /\ q \in (s + 1)..Len(t.file)
    BY <2>1, <2>2, <2>7
  <2>9. Follows(t.file, s, q)
    BY <2>2, <2>7, <2>8 DEF Follows
  <2>10. LineAfter(t.file, s) = q
    BY <2>1, <2>8, <2>9, LineFollows
  <2>11. QED
    BY <2>6, <2>10 DEF q
<1>4. QED
  BY <1>2, <1>3 DEF LineAbove

(* Rows that are on the screen already are counted.                        *)
InOrder(t) ==
  /\ t.rows[1].line = At(t)
  /\ \A i \in 1..(Rows - 1) : t.rows[i + 1].line = LineAfter(t.file, t.rows[i].line)
  /\ \A i \in 1..Rows : t.rows[i].column = t.hscroll

RowsCounted(t, u, k) ==
  /\ Sound(u) /\ Carried(t, u) /\ u.rows = t.rows
  /\ k > 0 => Settled(u) /\ u.page_length > 0
  /\ k = 0 => ~u.passed_end
  /\ InOrder(t) => Counting(u, t.rows[1].line, k)

LEMMA RowGoes ==
  ASSUME NEW t, NEW k \in Nat, k + 1 <= Rows, NEW x, RowsCounted(t, x, k)
  PROVE  RowsCounted(t, NextRow(x), k + 1)
<1> DEFINE u == NextRow(x)
<1> SUFFICES RowsCounted(t, u, k + 1)
  OBVIOUS
<1>1. /\ Sound(x) /\ x.rows = t.rows /\ x.file = t.file /\ x.hscroll = t.hscroll
      /\ Carried(t, x) /\ x.page_length \in Nat
  BY DEF RowsCounted, Carried, Sound, IsText
<1>2. RowDone(x, u)
  BY <1>1, NextRowDone
<1>3. ASSUME InOrder(t)
      PROVE  Counting(u, t.rows[1].line, k + 1)
  <2> DEFINE p == t.rows[1].line
  <2>1. Counting(x, p, k)
    BY <1>3 DEF RowsCounted
  <2>2. k + 1 \in 1..Rows
    BY BoxSizes
  <2>3. x.rows[k + 1].line = At(x)
    <3>1. CASE k = 0
      BY <1>1, <2>1, <3>1 DEF Counting
    <3>2. CASE k # 0
      <4>1. k \in 1..(Rows - 1)
        BY <3>2, BoxSizes
      <4>2. At(x) = LineAfter(x.file, x.rows[k].line)
        BY <2>1, <3>2 DEF Counting, Window
      <4>3. QED
        BY <1>1, <1>3, <4>1, <4>2 DEF InOrder
    <3>3. QED
      BY <3>1, <3>2
  <2>4. x.rows[k + 1].column = x.hscroll
    BY <1>1, <1>3, <2>2 DEF InOrder
  <2> HIDE DEF u, p
  <2>5. Counting(NextRow(x), p, k + 1)
    BY <1>1, <2>1, <2>3, <2>4, RowCounts
  <2>6. QED
    BY <2>5 DEF u, p
<1> HIDE DEF u
<1>4. /\ Sound(u) /\ Carried(x, u) /\ u.rows = x.rows /\ Settled(u)
      /\ u.page_length = IF x.passed_end THEN x.page_length ELSE x.page_length + 1
  BY <1>2 DEF RowDone
<1>5. u.page_length > 0
  <2>1. CASE k = 0
    <3>1. ~x.passed_end
      BY <2>1 DEF RowsCounted
    <3>2. QED
      BY <1>1, <1>4, <3>1
  <2>2. CASE k # 0
    <3>1. x.page_length > 0
      BY <2>2 DEF RowsCounted
    <3>2. QED
      BY <1>1, <1>4, <3>1
  <2>3. QED
    BY <2>1, <2>2
<1>6. Carried(t, u) /\ u.rows = t.rows
  BY <1>1, <1>4 DEF Carried
<1>7. k + 1 # 0
  OBVIOUS
<1>8. QED
  BY <1>3, <1>4, <1>5, <1>6, <1>7 DEF RowsCounted

LEMMA RowsGoOn ==
  ASSUME NEW t, Sound(t), t.page_length = 0, ~t.passed_end
  PROVE  RowsCounted(t, Repeated(NextRow, t, Rows), Rows)
<1>1. Rows \in Nat
  BY BoxSizes
<1>2. PICK f : Went(f, "row", t, Rows) /\ Repeated(NextRow, t, Rows) = f[Rows]
  BY <1>1, RepeatedRow
<1> DEFINE S == {k \in Nat : k <= Rows => RowsCounted(t, f[k], k)}
<1>3. 0 \in S
  <2>1. f[0] = t
    BY <1>1, <1>2, WentSteps
  <2>2. RowsCounted(t, t, 0)
    BY DEF RowsCounted, Carried, Counting, InOrder
  <2>3. QED
    BY <2>1, <2>2
<1>4. ASSUME NEW k \in Nat, k \in S
      PROVE  k + 1 \in S
  <2>1. SUFFICES ASSUME k + 1 <= Rows
                 PROVE  RowsCounted(t, f[k + 1], k + 1)
    OBVIOUS
  <2>2. RowsCounted(t, f[k], k)
    BY <1>1, <1>4, <2>1
  <2>3. f[k + 1] = Body("row", k + 1, f[k])
    BY <1>1, <1>2, <2>1, WentSteps
  <2>4. f[k + 1] = NextRow(f[k])
    BY <2>3 DEF Body
  <2>5. RowsCounted(t, NextRow(f[k]), k + 1)
    BY <2>1, <2>2, RowGoes
  <2>6. QED
    BY <2>4, <2>5
<1> HIDE DEF S
<1>5. Rows \in S
  BY <1>1, <1>3, <1>4, Induction
<1>6. QED
  BY <1>1, <1>2, <1>5 DEF S

(* The screen is scrolled down by a row.                                   *)
LEMMA PreviousLineRight ==
  ASSUME NEW t, TextRight(t)
  PROVE  TextRight(PreviousLine(t))
<1> DEFINE b == back_lines(t, t.page_length + 1)
           u == Uncounted(b)
           rows == [i \in 1..Rows |-> IF i = 1 THEN Row(u) ELSE t.rows[i - 1]]
           s == [u EXCEPT !.rows = rows]
           r == Repeated(NextRow, s, Rows)
<1>1. Rest(t) /\ Sound(t) /\ Rows \in Nat \ {0} /\ 1 \in 1..Rows
  BY BoxSizes DEF TextRight, Rest
<1>2. PreviousLine(t) = IF t.begin_reached THEN t ELSE r
  BY DEF PreviousLine
<1>3. LineAbove(t, b)
  BY <1>1, BackAbove
<1> HIDE DEF b
<1>4. /\ Sound(b) /\ b.file = t.file /\ b.hscroll = t.hscroll /\ b.rows = t.rows
      /\ b.internal_error = t.internal_error /\ b.stale = t.stale
      /\ Starts(t.file, At(b)) /\ (b.begin_reached <=> At(b) = 0)
      /\ Screen(t) /\ ~t.begin_reached => LineAfter(t.file, At(b)) = t.rows[1].line
  BY <1>3 DEF LineAbove, AtStart, Kept
<1>5. CountedAs(b, u, 0, FALSE)
  <2>1. u = [b EXCEPT !.page_length = 0, !.passed_end = FALSE] /\ 0 \in Nat /\ FALSE \in BOOLEAN
    BY DEF Uncounted
  <2> HIDE DEF u
  <2>2. QED
    BY <1>4, <2>1, CountSet
<1> HIDE DEF u
<1>6. RowsAre(u, s, rows)
  <2>1. rows = [i \in 1..Rows |-> rows[i]] /\ s = [u EXCEPT !.rows = rows] /\ Sound(u)
    BY <1>5 DEF CountedAs
  <2> HIDE DEF rows, s
  <2>2. QED
    BY <2>1, RowsSet
<1>7. /\ rows[1].line = At(u) /\ rows[1].column = u.hscroll
      /\ \A i \in 1..(Rows - 1) : rows[i + 1] = t.rows[i]
  <2>1. rows[1] = Row(u)
    BY <1>1
  <2>2. ASSUME NEW i \in 1..(Rows - 1)
        PROVE  rows[i + 1] = t.rows[i]
    <3>1. i + 1 \in 1..Rows /\ i + 1 # 1 /\ (i + 1) - 1 = i
      BY <1>1
    <3>2. rows[i + 1] = t.rows[(i + 1) - 1]
      BY <3>1
    <3>3. QED
      BY <3>1, <3>2
  <2>3. QED
    BY <2>1, <2>2 DEF Row
<1> HIDE DEF rows, s
<1>8. /\ Sound(s) /\ s.page_length = 0 /\ ~s.passed_end /\ s.rows = rows
      /\ s.file = t.file /\ s.hscroll = t.hscroll
      /\ s.internal_error = t.internal_error /\ s.stale = t.stale
      /\ s.begin_reached = b.begin_reached /\ At(s) = At(b)
      /\ rows[1].line = At(b) /\ rows[1].column = t.hscroll
  BY <1>4, <1>5, <1>6, <1>7 DEF CountedAs, RowsAre, Carried
<1>9. RowsCounted(s, r, Rows)
  BY <1>8, RowsGoOn
<1> HIDE DEF r
<1>10. /\ Sound(r) /\ r.rows = rows /\ Settled(r) /\ r.page_length > 0
       /\ r.file = t.file /\ r.internal_error = t.internal_error /\ r.stale = t.stale
       /\ r.begin_reached = b.begin_reached
       /\ InOrder(s) => Counting(r, rows[1].line, Rows)
  BY <1>1, <1>8, <1>9 DEF RowsCounted, Carried
<1>11. Rest(r)
  BY <1>1, <1>10 DEF Rest
<1>12. ASSUME ~t.stale, ~t.begin_reached
       PROVE  Screen(r)
  <2>1. Screen(t) /\ Window(t, t.rows[1].line, Rows)
    BY <1>12 DEF TextRight, Screen
  <2>2. LineAfter(t.file, rows[1].line) = t.rows[1].line
    BY <1>4, <1>8, <1>12, <2>1
  <2>3. ASSUME NEW i \in 1..(Rows - 1)
        PROVE  /\ rows[i + 1].line = LineAfter(t.file, rows[i].line)
               /\ rows[i + 1].column = t.hscroll
    <3>1. rows[i + 1] = t.rows[i] /\ i \in 1..Rows
      BY <1>1, <1>7
    <3>2. CASE i = 1
      BY <2>1, <2>2, <3>1, <3>2 DEF Window
    <3>3. CASE i # 1
      <4> DEFINE j == i - 1
      <4>1. j \in 1..(Rows - 1) /\ j + 1 = i
        BY <3>3, <1>1
      <4> HIDE DEF j
      <4>2. rows[i] = t.rows[j] /\ t.rows[i].line = LineAfter(t.file, t.rows[j].line)
        BY <1>7, <2>1, <4>1 DEF Window
      <4>3. QED
        BY <2>1, <3>1, <4>2 DEF Window
    <3>4. QED
      BY <3>2, <3>3
  <2>4. ASSUME NEW i \in 1..Rows
        PROVE  rows[i].column = t.hscroll
    <3>1. CASE i = 1
      BY <1>8, <3>1
    <3>2. CASE i # 1
      <4>1. i - 1 \in 1..(Rows - 1) /\ (i - 1) + 1 = i
        BY <1>1, <3>2
      <4>2. rows[(i - 1) + 1].column = t.hscroll
        BY <2>3, <4>1
      <4>3. QED
        BY <4>1, <4>2
    <3>3. QED
      BY <3>1, <3>2
  <2>5. InOrder(s)
    BY <1>8, <2>3, <2>4 DEF InOrder
  <2>6. Window(r, rows[1].line, Rows)
    BY <1>1, <1>10, <2>5 DEF Counting
  <2>7. QED
    BY <1>4, <1>8, <1>10, <2>6 DEF Screen
<1>13. QED
  BY <1>2, <1>10, <1>11, <1>12 DEF TextRight

LEMMA TextKeysRight ==
  ASSUME NEW t, TextRight(t), NEW u \in TextKeys(t)
  PROVE  TextRight(u)
<1>1. TextRight(LineStart(t))
  BY SidewaysRight DEF LineStart
<1>2. TextRight(ScrollLeft(t))
  BY SidewaysRight DEF ScrollLeft
<1>3. TextRight(ScrollRight(t))
  BY SidewaysRight DEF ScrollRight
<1>4. /\ TextRight(FirstPage(t)) /\ TextRight(LastPage(t)) /\ TextRight(PreviousLine(t))
      /\ TextRight(PreviousPage(t)) /\ TextRight(NextLine(t)) /\ TextRight(NextPage(t))
  BY FirstPageRight, LastPageRight, PreviousLineRight, PreviousPageRight, NextLineRight,
     NextPageRight
<1>5. QED
  BY <1>1, <1>2, <1>3, <1>4 DEF TextKeys

LEMMA OpenTextRight ==
  ASSUME NEW file \in Seq({"n", "x"}), NEW left,
         left.begin_reached \in BOOLEAN, left.end_reached \in BOOLEAN
  PROVE  TextRight(OpenText(file, left))
<1> DEFINE t == [file |-> file, fpos |-> 0, bytes_read |-> 0, page |-> 0,
                 begin_reached |-> left.begin_reached, end_reached |-> left.end_reached,
                 hscroll |-> left.hscroll, page_length |-> 0, passed_end |-> FALSE,
                 rows |-> [i \in 1..Rows |-> [line |-> 0, column |-> 0]],
                 internal_error |-> FALSE, stale |-> ~left.begin_reached]
           r == ReadFrom(t, 0)
           v == [r EXCEPT !.page = 0]
<1>1. IsText(t)
  BY DEF IsText, TextFields
<1>2. /\ t.file = file /\ t.page = 0 /\ t.begin_reached = left.begin_reached
      /\ ~t.internal_error /\ (t.stale <=> ~left.begin_reached)
  OBVIOUS
<1>3. OpenText(file, left) = print_page(r)
  BY DEF OpenText
<1> HIDE DEF t
<1>4. Len(t.file) \in Nat /\ 0 \in 0..Len(t.file) /\ 0 \in Nat
  BY <1>1, FileLength
<1>5. HasRead(t, r, 0)
  BY <1>1, <1>4, ReadRight
<1> HIDE DEF r
<1>6. 0 + 0 <= r.fpos /\ IsText(r) /\ r.page = 0 /\ Moved(t, r)
  BY <1>2, <1>5 DEF HasRead, Moved
<1>7. ReadIn(t, r, v, 0, 0)
  <2>1. v = [r EXCEPT !.page = 0]
    OBVIOUS
  <2> HIDE DEF v
  <2>2. QED
    BY <1>1, <1>4, <1>5, <1>6, <2>1, ReadIsBuffered
<1>8. v = r
  BY <1>6 DEF IsText, TextFields
<1> HIDE DEF v
<1>9. Sound(r) /\ At(r) = 0
  BY <1>7, <1>8 DEF ReadIn
<1>10. Opened(r)
  BY <1>2, <1>4, <1>6, <1>9 DEF Opened, Starts, Moved, Kept
<1>11. QED
  BY <1>3, <1>10, PrintedRight

LEMMA RightShows ==
  ASSUME NEW t, TextRight(t)
  PROVE  ~t.internal_error /\ (~t.stale => RowsInOrder(t))
<1>1. ~t.internal_error
  BY DEF TextRight, Rest
<1>2. ASSUME ~t.stale
      PROVE  RowsInOrder(t)
  <2>1. Window(t, t.rows[1].line, Rows)
    BY <1>2 DEF TextRight, Screen
  <2>2. QED
    BY <2>1, BoxSizes DEF Window, RowsInOrder
<1>3. QED
  BY <1>1, <1>2

-----------------------------------------------------------------------------
(* What is right of the open box.                                          *)
RightBox(b) ==
  /\ b.kind \in {"menu", "list"} => Shown(b)
  /\ b.kind = "list" => b.max_choice = Least(ListHeight, item_no(b))
  /\ b.kind = "input" => IsField(b)
  /\ b.kind = "text" => b = [kind |-> "text", text |-> b.text] /\ TextRight(b.text)

(* And of what stays from one box to the next.                             *)
BoxInv ==
  /\ RightBox(box)
  /\ scrltmp \in Int
  /\ Whole(dialog_input_result, 0..MAX_LEN)
  /\ statics.begin_reached \in BOOLEAN /\ statics.end_reached \in BOOLEAN

(* The other boxes have no window, no field and no text.                   *)
LEMMA OtherBox ==
  ASSUME NEW b, b.kind \notin {"menu", "list", "input", "text"}
  PROVE  RightBox(b)
BY DEF RightBox

LEMMA ClosedBox == \A code, items : RightBox(Closed(code, items))
BY OtherBox DEF Closed, RightBox

(* A list that stays the same and right.                                   *)
LEMMA ListBox ==
  ASSUME NEW m, RightBox(m), m.kind = "list", NEW n, Shown(n), SameList(m, n)
  PROVE  RightBox(n)
<1>1. n.kind = "list" /\ n.max_choice = m.max_choice /\ item_no(n) = item_no(m)
  BY DEF SameList, item_no
<1>2. QED
  BY <1>1 DEF RightBox

(* A session starts with no box.                                           *)
LEMMA BoxInvInit == Init => BoxInv
<1> SUFFICES ASSUME Init PROVE BoxInv
  OBVIOUS
<1>1. RightBox(box)
  BY ClosedBox DEF Init
<1>2. scrltmp \in Int
  BY DEF Init, NoFile
<1>3. Whole(dialog_input_result, 0..MAX_LEN)
  BY DEF Init, Whole
<1>4. statics.begin_reached \in BOOLEAN /\ statics.end_reached \in BOOLEAN
  BY DEF Init
<1>5. QED
  BY <1>1, <1>2, <1>3, <1>4 DEF BoxInv

(* Opening a box.                                                          *)
LEMMA OpenBoxStep ==
  ASSUME BoxInv, OpenBox
  PROVE  BoxInv'
<1> USE DEF BoxInv
<1>1. ASSUME NEW letters \in Menus, NEW current \in 0..(Len(letters) - 1),
             OpenMenu(letters, current), UNCHANGED <<dialog_input_result, statics>>
      PROVE  BoxInv'
  BY <1>1, MenuOpensRight DEF RightBox
<1>2. ASSUME NEW letters \in Menus, NEW marked, NEW flag, OpenList(letters, marked, flag),
             UNCHANGED <<scrltmp, dialog_input_result, statics>>
      PROVE  BoxInv'
  BY <1>2, ListOpensRight DEF RightBox
<1>3. ASSUME NEW init \in Values, OpenInput(init),
             UNCHANGED <<scrltmp, dialog_input_result, statics>>
      PROVE  BoxInv'
  <2>1. IsField(box') /\ box'.kind = "input"
    BY <1>3, InputOpensRight DEF IsField, FieldRecord
  <2>2. QED
    BY <1>3, <2>1 DEF RightBox
<1>4. ASSUME NEW file \in Files, box' = [kind |-> "text", text |-> OpenText(file, statics)],
             UNCHANGED <<scrltmp, dialog_input_result, statics>>
      PROVE  BoxInv'
  <2>1. file \in Seq({"n", "x"})
    BY DialogsAssumption
  <2>2. TextRight(OpenText(file, statics))
    BY <2>1, OpenTextRight
  <2> DEFINE t == OpenText(file, statics)
  <2> HIDE DEF t
  <2>3. box' = [kind |-> "text", text |-> t] /\ TextRight(t)
    BY <1>4, <2>2 DEF t
  <2>4. box'.kind = "text" /\ box'.text = t
    BY <2>3
  <2>5. RightBox(box')
    BY <2>3, <2>4 DEF RightBox
  <2>6. QED
    BY <1>4, <2>5
<1>5. ASSUME box'.kind \in {"yesno", "message"},
             UNCHANGED <<scrltmp, dialog_input_result, statics>>
      PROVE  BoxInv'
  BY <1>5, OtherBox
<1>6. QED
  <2> USE DEF OpenBox
  <2>1. CASE \E letters \in Menus : \E current \in 0..(Len(letters) - 1) :
               OpenMenu(letters, current) /\ UNCHANGED <<dialog_input_result, statics>>
    BY <1>1, <2>1
  <2>2. CASE \E letters \in Menus, flag \in {"radio", "check"}, marked \in Marks :
               OpenList(letters, marked, flag) /\ UNCHANGED <<scrltmp, dialog_input_result, statics>>
    BY <1>2, <2>2
  <2>3. CASE \E init \in Values : OpenInput(init) /\ UNCHANGED <<scrltmp, dialog_input_result, statics>>
    BY <1>3, <2>3
  <2>4. CASE /\ \E file \in Files : box' = [kind |-> "text", text |-> OpenText(file, statics)]
             /\ UNCHANGED <<scrltmp, dialog_input_result, statics>>
    BY <1>4, <2>4
  <2>5. CASE /\ box' \in {[kind |-> "yesno", button |-> 0], [kind |-> "message"]}
             /\ UNCHANGED <<scrltmp, dialog_input_result, statics>>
    <3>1. box'.kind \in {"yesno", "message"}
      BY <2>5
    <3>2. QED
      BY <1>5, <2>5, <3>1
  <2>6. QED
    BY <2>1, <2>2, <2>3, <2>4, <2>5

(* A key in a menu, which may write lxdialog.scrltmp.                      *)
LEMMA MenuKeyStep ==
  ASSUME BoxInv, NEW key, MenuKey(key)
  PROVE  BoxInv'
<1>1. /\ box.kind = "menu" /\ Shown(box) /\ scrltmp \in Int
      /\ UNCHANGED <<dialog_input_result, statics>> /\ Whole(dialog_input_result, 0..MAX_LEN)
      /\ statics.begin_reached \in BOOLEAN /\ statics.end_reached \in BOOLEAN
  BY DEF MenuKey, BoxInv, RightBox
<1>2. box.scroll \in Int /\ NoFile \in Int
  BY <1>1 DEF Shown, IsWindow, NoFile
<1> DEFINE hot == key \in Moves \/ Hot(box, key) < box.max_choice
<1>3. CASE hot /\ box' = MenuMoved(box, key) /\ UNCHANGED scrltmp
  <2>1. Shown(box') /\ SameList(box, box')
    BY <1>1, <1>3, MenuMovedRight DEF Shown
  <2>2. QED
    BY <1>1, <1>3, <2>1 DEF BoxInv, RightBox, SameList
<1>4. CASE box' = [box EXCEPT !.button = Turned(@, 3, key)] /\ UNCHANGED scrltmp
  <2>1. Shown(box') /\ box'.kind = "menu"
    BY <1>1, <1>4, ButtonOfWindow
  <2>2. QED
    BY <1>1, <1>4, <2>1 DEF BoxInv, RightBox
<1>5. CASE /\ scrltmp' \in {box.scroll, NoFile}
           /\ \E code, items : box' = Closed(code, items)
  BY <1>1, <1>2, <1>5, ClosedBox DEF BoxInv
<1>6. QED
  <2> HIDE DEF hot
  <2>1. \/ hot /\ box' = MenuMoved(box, key) /\ UNCHANGED scrltmp
        \/ box' = [box EXCEPT !.button = Turned(@, 3, key)] /\ UNCHANGED scrltmp
        \/ scrltmp' = box.scroll /\ box' = Closed(MenuCode[key], {Lit(box)})
        \/ scrltmp' = NoFile /\ box' = Closed(IF key = "h" THEN 2 ELSE box.button, {Lit(box)})
        \/ scrltmp' = NoFile /\ box' = Closed(ESC, {})
    BY DEF MenuKey, hot
  <2>2. QED
    BY <1>3, <1>4, <1>5, <2>1

(* A key in a list.                                                        *)
LEMMA ListKeyStep ==
  ASSUME BoxInv, NEW key, ListKey(key)
  PROVE  BoxInv'
<1>1. /\ box.kind = "list" /\ Shown(box) /\ RightBox(box)
      /\ box.max_choice = Least(ListHeight, item_no(box))
      /\ scrltmp' \in Int /\ Whole(dialog_input_result, 0..MAX_LEN)'
      /\ (statics.begin_reached \in BOOLEAN /\ statics.end_reached \in BOOLEAN)'
  BY DEF ListKey, BoxInv, RightBox
<1> DEFINE hot == key \in {"up", "down"} \/ Found(box, 0, key) < box.max_choice
<1>2. CASE hot /\ box' = ListMoved(box, key)
  <2>1. Shown(box') /\ SameList(box, box')
    BY <1>1, <1>2, ListMovedRight
  <2>2. RightBox(box')
    BY <1>1, <2>1, ListBox
  <2>3. QED
    BY <1>1, <2>2 DEF BoxInv
<1>3. CASE box' = [box EXCEPT !.button = Turned(@, 2, key)]
  <2>1. /\ Shown(box') /\ box'.kind = "list"
        /\ box'.max_choice = box.max_choice /\ item_no(box') = item_no(box)
    BY <1>1, <1>3, ButtonOfWindow
  <2>2. RightBox(box')
    BY <1>1, <2>1 DEF RightBox
  <2>3. QED
    BY <1>1, <2>2 DEF BoxInv
<1>4. CASE \E code, items : box' = Closed(code, items)
  BY <1>1, <1>4, ClosedBox DEF BoxInv
<1>5. QED
  <2> HIDE DEF hot
  <2>1. \/ hot /\ box' = ListMoved(box, key)
        \/ box' = [box EXCEPT !.button = Turned(@, 2, key)]
        \/ \E code, items : box' = Closed(code, items)
    BY DEF ListKey, hot
  <2>2. QED
    BY <1>2, <1>3, <1>4, <2>1

(* A key in the field, which may leave the text to the next one.           *)
LEMMA InputKeyStep ==
  ASSUME BoxInv, NEW key, InputKey(key)
  PROVE  BoxInv'
<1>1. /\ box.kind = "input" /\ IsField(box)
      /\ scrltmp' \in Int /\ Whole(dialog_input_result, 0..MAX_LEN)
      /\ Whole(box.instr, 0..MAX_LEN)
      /\ (statics.begin_reached \in BOOLEAN /\ statics.end_reached \in BOOLEAN)'
  BY DEF InputKey, BoxInv, RightBox, IsField, FieldText
<1>2. ASSUME IsField(box'), UNCHANGED dialog_input_result
      PROVE  BoxInv'
  <2>1. box'.kind = "input"
    BY <1>2 DEF IsField, FieldRecord
  <2>2. QED
    BY <1>1, <1>2, <2>1 DEF BoxInv, RightBox
<1>3. CASE key \in Characters /\ box' = Typed(box, key) /\ UNCHANGED dialog_input_result
  BY <1>1, <1>2, <1>3, TypedRight
<1>4. CASE box' = Backspaced(box) /\ UNCHANGED dialog_input_result
  BY <1>1, <1>2, <1>4, BackspacedRight
<1>5. CASE /\ \E button : box' = [box EXCEPT !.button = button]
           /\ UNCHANGED dialog_input_result
  <2>1. PICK button : box' = [box EXCEPT !.button = button]
    BY <1>5
  <2>2. IsField([box EXCEPT !.button = button])
    BY <1>1, ButtonOfField
  <2>3. QED
    BY <1>2, <1>5, <2>1, <2>2
<1>6. CASE \E code : Leave(code)
  BY <1>1, <1>6, ClosedBox DEF BoxInv, Leave
<1>7. QED
  <2>1. \/ key \in Characters /\ box' = Typed(box, key) /\ UNCHANGED dialog_input_result
        \/ box' = Backspaced(box) /\ UNCHANGED dialog_input_result
        \/ /\ box' = [box EXCEPT !.button = PreviousButton[@]]
           /\ UNCHANGED dialog_input_result
        \/ /\ box' = [box EXCEPT !.button = NextButton[@]]
           /\ UNCHANGED dialog_input_result
        \/ \E code : Leave(code)
    BY DEF InputKey
  <2>2. QED
    BY <1>3, <1>4, <1>5, <1>6, <2>1

(* The text box, the question and the message.                             *)
LEMMA OtherStep ==
  ASSUME BoxInv,
         \/ \E key \in Keys : QuestionKey(key) \/ MessageKey(key)
         \/ TextKey
         \/ \E code \in {0, ESC} : TextLeft(code)
  PROVE  BoxInv'
<1>1. UNCHANGED <<scrltmp, dialog_input_result>>
  BY DEF QuestionKey, MessageKey, TextKey, TextLeft
<1>2. ASSUME NEW key, QuestionKey(key)
      PROVE  RightBox(box')
  <2>1. CASE box' = [box EXCEPT !.button = Turned(@, 2, key)]
    <3>1. box.kind = "yesno"
      BY <1>2 DEF QuestionKey
    <3>2. box'.kind = "yesno"
      BY <2>1, <3>1
    <3>3. QED
      BY <3>2 DEF RightBox
  <2>2. CASE \E code : box' = Closed(code, {})
    BY <2>2, ClosedBox
  <2>3. QED
    BY <1>2, <2>1, <2>2 DEF QuestionKey
<1>3. ASSUME NEW key, MessageKey(key)
      PROVE  RightBox(box')
  BY <1>3, ClosedBox DEF MessageKey
<1>4. ASSUME TextKey
      PROVE  RightBox(box')
  <2>1. PICK t \in TextKeys(box.text) : box' = [box EXCEPT !.text = t]
    BY <1>4 DEF TextKey
  <2>2. box = [kind |-> "text", text |-> box.text] /\ TextRight(box.text)
    BY <1>4 DEF TextKey, BoxInv, RightBox
  <2>3. TextRight(t)
    BY <2>2, TextKeysRight
  <2>4. box' = [kind |-> "text", text |-> t]
    BY <2>1, <2>2
  <2>5. box'.kind = "text" /\ box'.text = t
    BY <2>4
  <2>6. QED
    BY <2>3, <2>4, <2>5 DEF RightBox
<1>5. ASSUME NEW code, TextLeft(code)
      PROVE  RightBox(box')
  BY <1>5, ClosedBox DEF TextLeft
<1>6. RightBox(box')
  BY <1>2, <1>3, <1>4, <1>5
<1>7. (statics.begin_reached \in BOOLEAN /\ statics.end_reached \in BOOLEAN)'
  <2>1. CASE UNCHANGED statics
    BY <2>1 DEF BoxInv
  <2>2. CASE box.kind = "text" /\ statics' = Statics(box.text)
    <3>1. TextRight(box.text)
      BY <2>2 DEF BoxInv, RightBox
    <3>2. box.text.begin_reached \in BOOLEAN /\ box.text.end_reached \in BOOLEAN
      BY <3>1 DEF TextRight, Rest, Sound, IsText
    <3>3. QED
      BY <2>2, <3>2 DEF Statics
  <2>3. QED
    BY <2>1, <2>2 DEF QuestionKey, MessageKey, TextKey, TextLeft
<1>8. QED
  BY <1>1, <1>6, <1>7 DEF BoxInv

(* Every step.                                                             *)
LEMMA BoxInvStep == BoxInv /\ [Next]_vars => BoxInv'
<1> SUFFICES ASSUME BoxInv, [Next]_vars PROVE BoxInv'
  OBVIOUS
<1>1. CASE OpenBox
  BY <1>1, OpenBoxStep
<1>2. ASSUME NEW key, MenuKey(key) \/ ListKey(key) \/ InputKey(key)
      PROVE  BoxInv'
  BY <1>2, MenuKeyStep, ListKeyStep, InputKeyStep
<1>3. CASE \/ \E key \in Keys : QuestionKey(key) \/ MessageKey(key)
           \/ TextKey
           \/ \E code \in {0, ESC} : TextLeft(code)
  BY <1>3, OtherStep
<1>4. CASE UNCHANGED vars
  BY <1>4 DEF BoxInv, vars
<1>5. QED
  BY <1>1, <1>2, <1>3, <1>4 DEF Next

(* What BoxShown asks for is part of the invariant.                        *)
LEMMA BoxInvShows == BoxInv => BoxShown
<1> SUFFICES ASSUME BoxInv PROVE BoxShown
  OBVIOUS
<1>1. WindowShown
  <2> SUFFICES ASSUME box.kind \in {"menu", "list"}
               PROVE  /\ box.choice \in 0..BottomRow(box)
                      /\ box.scroll \in 0..(item_no(box) - box.max_choice)
                      /\ box.screen = Printed(box).screen
    BY DEF WindowShown
  <2>1. IsWindow(box) /\ Drawn(box, box.choice)
    BY DEF BoxInv, RightBox, Shown
  <2>2. QED
    BY <2>1, DrawnIsShown DEF IsWindow
<1>2. FieldShown
  <2> SUFFICES ASSUME box.kind = "input"
               PROVE  /\ box.input_x \in 0..(Width - 1)
                      /\ box.scroll + box.input_x = strlen(box.instr)
                      /\ box.columns = Columns(box.instr, box.scroll, box.input_x)
    BY DEF FieldShown
  <2>1. IsField(box)
    BY DEF BoxInv, RightBox
  <2>2. box.input_x \in 0..(Width - 1) /\ FieldColumns(box)
    BY <2>1 DEF IsField, FieldText
  <2>3. QED
    BY <2>1, <2>2, FieldTypes, FieldDrawn
<1>3. QED
  BY <1>1, <1>2 DEF BoxShown

(* Whatever menus, lists and texts are opened and whatever keys are        *)
(* pressed, in boxes of any size: the rows that menubox.c and checklist.c  *)
(* print one by one, between those that the terminal scrolls, and the      *)
(* columns that inputbox.c puts, are what drawing the whole box would give.*)
THEOREM BoxesShown == Spec => []BoxShown
<1>1. Init => BoxInv
  BY BoxInvInit
<1>2. BoxInv /\ [Next]_vars => BoxInv'
  BY BoxInvStep
<1>3. BoxInv => BoxShown
  BY BoxInvShows
<1>4. QED
  BY <1>1, <1>2, <1>3, PTL DEF Spec

(* Of every file that a text box shows, whatever the sizes of the buffer   *)
(* and of the screen and whatever keys are pressed: the rows that          *)
(* textbox.c leaves on the screen are consecutive lines, it reads on after *)
(* the last of them, and back_lines finds every line where it looks for it.*)
THEOREM TextIsShown == Spec => []TextShown
<1>1. Init => BoxInv
  BY BoxInvInit
<1>2. BoxInv /\ [Next]_vars => BoxInv'
  BY BoxInvStep
<1>3. BoxInv => TextShown
  BY RightShows DEF BoxInv, RightBox, TextShown
<1>4. QED
  BY <1>1, <1>2, <1>3, PTL DEF Spec
=============================================================================
