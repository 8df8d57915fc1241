----------------------------- MODULE Cml1Proofs -----------------------------
(***************************************************************************)
(* The first pass over a CML1 script. Without an error, the condition and  *)
(* menu stacks stand, after every line, as the open constructs say, so the *)
(* asserts at the end of the pass hold; nothing is assumed of the lines.   *)
(* And the symbols stand in the menus that ask for them first, when the    *)
(* lines that declare symbols name symbols and the others banners. Last,   *)
(* cml-check, which reads the scripts of all its arguments, exits as they  *)
(* deserve.                                                                *)
(***************************************************************************)
EXTENDS Cml1Parse, CmlCheck, WellFoundedInduction, TLAPS

(* A sequence of anything.                                                 *)
IsSeq(s) == \E S : s \in Seq(S)

Constructs == [kind : {"toplevel", "if", "else", "menu"}, empty : BOOLEAN, conds : Nat, menus : Nat \ {0}]

ParseTyped ==
  /\ IsSeq(cond_stack) /\ IsSeq(menu_stack)
  /\ parser \in Seq(Constructs)

(* Nothing is claimed of the stacks once there has been an error.          *)
IInv ==
  /\ errors \in Nat
  /\ errors = 0 /\ status = "parsing" => ParseTyped
  /\ status = "skipping" => errors # 0
  /\ StacksFollow
  /\ CleanScriptsParse

-----------------------------------------------------------------------------
(* What the stack operations return.                                       *)

LEMMA Appended ==
  ASSUME NEW s, NEW e, IsSeq(s)
  PROVE  /\ IsSeq(Append(s, e))
         /\ Len(Append(s, e)) = Len(s) + 1
         /\ Len(s) \in Nat
         /\ \A i \in 1..Len(s) : Append(s, e)[i] = s[i]
         /\ Append(s, e)[Len(s) + 1] = e
<1>1. PICK S : s \in Seq(S)
  BY DEF IsSeq
<1>2. s \in Seq(S \cup {e}) /\ e \in S \cup {e}
  BY <1>1
<1>3. Append(s, e) \in Seq(S \cup {e})
  BY <1>2
<1> QED
  BY <1>2, <1>3 DEF IsSeq

LEMMA PoppedOnce ==
  ASSUME NEW s, IsSeq(s), Len(s) > 0
  PROVE  /\ IsSeq(Popped(s))
         /\ Len(Popped(s)) = Len(s) - 1
         /\ \A i \in 1..(Len(s) - 1) : Popped(s)[i] = s[i]
<1>1. PICK S : s \in Seq(S)
  BY DEF IsSeq
<1>2. Len(s) \in Nat /\ Len(s) - 1 \in Nat /\ \A i \in 1..(Len(s) - 1) : s[i] \in S
  BY <1>1
<1>3. Popped(s) = [i \in 1..(Len(s) - 1) |-> s[i]]
  BY <1>1, <1>2 DEF Popped
<1>4. Popped(s) \in Seq(S)
  BY <1>2, <1>3
<1>5. Len(Popped(s)) = Len(s) - 1
  BY <1>2, <1>3, <1>4
<1> QED
  BY <1>3, <1>4, <1>5 DEF IsSeq

LEMMA Toggled ==
  ASSUME NEW conds, IsSeq(conds), Len(conds) > 0
  PROVE  IsSeq(cond_else(conds)) /\ Len(cond_else(conds)) = Len(conds)
<1>1. PICK S : conds \in Seq(S)
  BY DEF IsSeq
<1> DEFINE top == TopOf(conds)
           e == [top EXCEPT ![Len(top)].negated = ~@]
<1>2. cond_else(conds) = [conds EXCEPT ![Len(conds)] = e]
  BY DEF cond_else
<1> HIDE DEF e
<1>3. conds \in Seq(S \cup {e}) /\ e \in S \cup {e}
  BY <1>1
<1>4. [conds EXCEPT ![Len(conds)] = e] \in Seq(S \cup {e})
  BY <1>3
<1>5. Len([conds EXCEPT ![Len(conds)] = e]) = Len(conds)
  BY <1>3, <1>4
<1> QED
  BY <1>2, <1>4, <1>5 DEF IsSeq

-----------------------------------------------------------------------------
(* What the parser's constructs become.                                    *)

LEMMA FilledIn ==
  ASSUME NEW ps, ps \in Seq(Constructs), Len(ps) > 0
  PROVE  /\ Filled(ps) \in Seq(Constructs)
         /\ Len(Filled(ps)) = Len(ps)
         /\ \A i \in 1..Len(ps) : /\ Filled(ps)[i].kind = ps[i].kind
                                 /\ Filled(ps)[i].conds = ps[i].conds
                                 /\ Filled(ps)[i].menus = ps[i].menus
<1> DEFINE n == Len(ps)
           e == [ps[n] EXCEPT !.empty = FALSE]
<1>1. n \in 1..Len(ps) /\ ps[n] \in Constructs
  OBVIOUS
<1>2. e \in Constructs /\ e.kind = ps[n].kind /\ e.conds = ps[n].conds /\ e.menus = ps[n].menus
  BY <1>1 DEF Constructs
<1>3. Filled(ps) = [ps EXCEPT ![n] = e]
  BY <1>1 DEF Filled
<1> HIDE DEF e
<1> QED
  BY <1>1, <1>2, <1>3

LEMMA ElsePart ==
  ASSUME NEW ps, ps \in Seq(Constructs), Len(ps) > 0
  PROVE  LET qs == [ps EXCEPT ![Len(ps)].kind = "else"]
         IN  /\ qs \in Seq(Constructs)
             /\ Len(qs) = Len(ps)
             /\ qs[Len(ps)].kind = "else"
             /\ \A i \in 1..(Len(ps) - 1) : qs[i].kind = ps[i].kind
             /\ \A i \in 1..Len(ps) : qs[i].conds = ps[i].conds /\ qs[i].menus = ps[i].menus
<1> DEFINE n == Len(ps)
           e == [ps[n] EXCEPT !.kind = "else"]
           qs == [ps EXCEPT ![Len(ps)].kind = "else"]
<1>1. n \in 1..Len(ps) /\ ps[n] \in Constructs
  OBVIOUS
<1>2. e \in Constructs /\ e.kind = "else" /\ e.conds = ps[n].conds /\ e.menus = ps[n].menus
  BY <1>1 DEF Constructs
<1>3. qs = [ps EXCEPT ![n] = e]
  BY <1>1
<1> HIDE DEF e
<1>4. [ps EXCEPT ![n] = e] \in Seq(Constructs) /\ Len([ps EXCEPT ![n] = e]) = Len(ps)
  BY <1>1, <1>2
<1>5. \A i \in 1..Len(ps) : [ps EXCEPT ![n] = e][i] = IF i = n THEN e ELSE ps[i]
  BY <1>1
<1> QED
  BY <1>1, <1>2, <1>3, <1>4, <1>5

-----------------------------------------------------------------------------
(* The preservation of the invariant, by action.                           *)

(* The claim about the stacks, without its condition.                      *)
Follow ==
  /\ ParseTyped
  /\ Len(parser) > 0 /\ parser[1].kind = "toplevel" /\ parser[1].conds = 0 /\ parser[1].menus = 1
  /\ \A i \in 1..(Len(parser) - 1) : Nested(parser[i], parser[i + 1])
  /\ Len(cond_stack) = parser[Len(parser)].conds
  /\ Len(menu_stack) = parser[Len(parser)].menus
  /\ Len(menu_stack) > 0 /\ menu_stack[1] = Start

(* A step after an error, or to one, has nothing to show.                  *)
LEMMA WithErrors ==
  ASSUME IInv, errors' \in Nat, errors' # 0
  PROVE  IInv'
BY DEF IInv, StacksFollow, CleanScriptsParse

(* A step that goes on parsing needs to keep the claim about the stacks.   *)
LEMMA WithoutErrors ==
  ASSUME IInv, errors' = errors, status' = "parsing", status = "parsing",
         errors = 0 /\ Follow => Follow'
  PROVE  IInv'
<1>1. errors # 0 => IInv'
  BY WithErrors DEF IInv
<1>2. ASSUME errors = 0
      PROVE  IInv'
  <2>1. Follow
    BY <1>2 DEF IInv, StacksFollow, Follow
  <2>2. Follow'
    BY <1>2, <2>1
  <2> QED
    BY <1>2, <2>2 DEF IInv, StacksFollow, CleanScriptsParse, Follow
<1> QED
  BY <1>1, <1>2

(* The innermost block gains a statement and the stacks stay.              *)
LEMMA StatementKeeps ==
  ASSUME Follow, parser' = Filled(parser), UNCHANGED <<cond_stack, menu_stack>>
  PROVE  Follow'
<1>1. parser \in Seq(Constructs) /\ Len(parser) > 0 /\ Len(parser) \in Nat
  BY DEF Follow, ParseTyped
<1>2. /\ parser' \in Seq(Constructs) /\ Len(parser') = Len(parser)
      /\ \A i \in 1..Len(parser) : /\ parser'[i].kind = parser[i].kind
                                  /\ parser'[i].conds = parser[i].conds
                                  /\ parser'[i].menus = parser[i].menus
  BY <1>1, FilledIn
<1>3. \A i \in 1..(Len(parser') - 1) : Nested(parser'[i], parser'[i + 1])
  BY <1>1, <1>2 DEF Follow, Nested
<1> QED
  BY <1>1, <1>2, <1>3 DEF Follow, ParseTyped

LEMMA OpenKeeps ==
  ASSUME NEW c, c \in Constructs, Follow, parser' = Append(parser, c),
         Nested(parser[Len(parser)], c),
         Len(cond_stack') = c.conds, Len(menu_stack') = c.menus,
         IsSeq(cond_stack'), IsSeq(menu_stack'), menu_stack'[1] = Start, Len(menu_stack') > 0
  PROVE  Follow'
<1>1. parser \in Seq(Constructs) /\ Len(parser) > 0 /\ Len(parser) \in Nat
  BY DEF Follow, ParseTyped
<1>2. /\ parser' \in Seq(Constructs) /\ Len(parser') = Len(parser) + 1
      /\ \A i \in 1..Len(parser) : parser'[i] = parser[i]
      /\ parser'[Len(parser) + 1] = c
  BY <1>1
<1>3. \A i \in 1..(Len(parser') - 1) : Nested(parser'[i], parser'[i + 1])
  BY <1>1, <1>2 DEF Follow
<1> QED
  BY <1>1, <1>2, <1>3 DEF Follow, ParseTyped

LEMMA CloseKeeps ==
  ASSUME Follow, parser' = Filled(Popped(parser)), Len(parser) > 1,
         IsSeq(cond_stack'), IsSeq(menu_stack'), menu_stack'[1] = Start, Len(menu_stack') > 0,
         Len(cond_stack') = parser[Len(parser) - 1].conds,
         Len(menu_stack') = parser[Len(parser) - 1].menus
  PROVE  Follow'
<1>1. parser \in Seq(Constructs) /\ Len(parser) \in Nat
  BY DEF Follow, ParseTyped
<1> DEFINE ps == Popped(parser)
<1>2. /\ ps \in Seq(Constructs) /\ Len(ps) = Len(parser) - 1
      /\ \A i \in 1..Len(ps) : ps[i] = parser[i]
  BY <1>1 DEF Popped
<1> HIDE DEF ps
<1>3. /\ Filled(ps) \in Seq(Constructs) /\ Len(Filled(ps)) = Len(ps)
      /\ \A i \in 1..Len(ps) : /\ Filled(ps)[i].kind = ps[i].kind
                              /\ Filled(ps)[i].conds = ps[i].conds
                              /\ Filled(ps)[i].menus = ps[i].menus
  <2>1. ps \in Seq(Constructs) /\ Len(ps) > 0
    BY <1>1, <1>2
  <2> QED
    BY <2>1, FilledIn
<1>4. parser' = Filled(ps)
  BY DEF ps
<1>5. \A i \in 1..(Len(ps) - 1) : Nested(parser'[i], parser'[i + 1])
  <2>1. SUFFICES ASSUME NEW i \in 1..(Len(ps) - 1)
                 PROVE  Nested(parser'[i], parser'[i + 1])
    OBVIOUS
  <2>2. Nested(parser[i], parser[i + 1])
    BY <1>1, <1>2, <2>1 DEF Follow
  <2>3. i \in 1..Len(ps) /\ i + 1 \in 1..Len(ps)
    BY <1>1, <1>2, <2>1
  <2>4. ps[i] = parser[i] /\ ps[i + 1] = parser[i + 1]
    BY <1>2, <2>3
  <2> QED
    BY <1>3, <1>4, <2>2, <2>3, <2>4 DEF Nested
<1>6. /\ parser'[1].kind = "toplevel" /\ parser'[1].conds = 0 /\ parser'[1].menus = 1
      /\ parser'[Len(ps)].conds = parser[Len(parser) - 1].conds
      /\ parser'[Len(ps)].menus = parser[Len(parser) - 1].menus
  <2>1. 1 \in 1..Len(ps) /\ Len(ps) \in 1..Len(ps) /\ Len(ps) = Len(parser) - 1
    BY <1>1, <1>2
  <2> QED
    BY <1>2, <1>3, <1>4, <2>1 DEF Follow
<1>7. parser' \in Seq(Constructs) /\ Len(parser') = Len(ps) /\ Len(ps) > 0
  BY <1>1, <1>2, <1>3, <1>4
<1>8. /\ Len(cond_stack') = parser'[Len(parser')].conds
      /\ Len(menu_stack') = parser'[Len(parser')].menus
  BY <1>6, <1>7
<1>9. ParseTyped'
  BY <1>7 DEF ParseTyped
<1> QED
  BY <1>5, <1>6, <1>7, <1>8, <1>9 DEF Follow

LEMMA Statements1 ==
  ASSUME IInv, NEW st, BasicStatement(st) \/ TestStatement(st)
  PROVE  IInv'
<1>1. /\ status = "parsing" /\ status' = "parsing" /\ errors' = errors
      /\ parser' = Filled(parser) /\ UNCHANGED <<cond_stack, menu_stack>>
  BY DEF BasicStatement, TestStatement, Read
<1> QED
  BY <1>1, StatementKeeps, WithoutErrors

LEMMA MainmenuName1 ==
  ASSUME IInv, NEW st, MainmenuName(st)
  PROVE  IInv'
<1>1. /\ status = "parsing" /\ status' = "parsing" /\ errors' \in {errors, errors + 1}
      /\ parser' = Filled(parser) /\ UNCHANGED <<cond_stack, menu_stack>>
  BY DEF MainmenuName, Read
<1>2. CASE errors' = errors
  BY <1>1, <1>2, StatementKeeps, WithoutErrors
<1>3. CASE errors' = errors + 1
  BY <1>3, WithErrors DEF IInv
<1> QED
  BY <1>1, <1>2, <1>3

LEMMA OpenIf1 ==
  ASSUME IInv, NEW st, OpenIf(st)
  PROVE  IInv'
<1>1. /\ status = "parsing" /\ status' = "parsing" /\ errors' = errors /\ menu_stack' = menu_stack
      /\ cond_stack' = cond_push_m(cond_stack, st.cond)
      /\ parser' = Append(parser, Construct("if", Len(cond_stack) + 1, Len(menu_stack)))
  BY DEF OpenIf, Read
<1>2. ASSUME errors = 0, Follow
      PROVE  Follow'
  <2> DEFINE c == Construct("if", Len(cond_stack) + 1, Len(menu_stack))
             e == Append(cond_copy_top(cond_stack), Literal(st.cond))
  <2>1. IsSeq(cond_stack) /\ IsSeq(menu_stack) /\ parser \in Seq(Constructs)
    BY <1>2 DEF Follow, ParseTyped
  <2>2. cond_stack' = Append(cond_stack, e)
    BY <1>1 DEF cond_push_m
  <2> HIDE DEF e
  <2>3. IsSeq(cond_stack') /\ Len(cond_stack') = Len(cond_stack) + 1 /\ Len(cond_stack) \in Nat
    BY <2>1, <2>2, Appended
  <2>4. Len(menu_stack) \in Nat
    BY <2>1 DEF IsSeq
  <2>5. c \in Constructs /\ Nested(parser[Len(parser)], c)
    BY <1>2, <2>3, <2>4 DEF Construct, Constructs, Follow, Nested
  <2>6. c.conds = Len(cond_stack') /\ c.menus = Len(menu_stack')
    BY <1>1, <2>3 DEF Construct
  <2>7. parser' = Append(parser, c)
    BY <1>1
  <2>8. menu_stack'[1] = Start /\ Len(menu_stack') > 0 /\ IsSeq(menu_stack')
    BY <1>1, <1>2, <2>1 DEF Follow
  <2> HIDE DEF c
  <2> QED
    BY <1>2, <2>3, <2>5, <2>6, <2>7, <2>8, OpenKeeps
<1> QED
  BY <1>1, <1>2, WithoutErrors

LEMMA OpenMenu1 ==
  ASSUME IInv, NEW st, OpenMenu(st)
  PROVE  IInv'
<1>1. /\ status = "parsing" /\ status' = "parsing" /\ errors' = errors /\ cond_stack' = cond_stack
      /\ menu_stack' = Append(menu_stack, st.name)
      /\ parser' = Append(parser, Construct("menu", Len(cond_stack), Len(menu_stack) + 1))
  BY DEF OpenMenu, Read
<1>2. ASSUME errors = 0, Follow
      PROVE  Follow'
  <2> DEFINE c == Construct("menu", Len(cond_stack), Len(menu_stack) + 1)
  <2>1. IsSeq(cond_stack) /\ IsSeq(menu_stack) /\ parser \in Seq(Constructs)
    BY <1>2 DEF Follow, ParseTyped
  <2>2. /\ IsSeq(menu_stack') /\ Len(menu_stack') = Len(menu_stack) + 1 /\ Len(menu_stack) \in Nat
        /\ \A i \in 1..Len(menu_stack) : menu_stack'[i] = menu_stack[i]
    BY <1>1, <2>1, Appended
  <2>3. Len(cond_stack) \in Nat
    BY <2>1 DEF IsSeq
  <2>4. c \in Constructs /\ Nested(parser[Len(parser)], c)
    BY <1>2, <2>2, <2>3 DEF Construct, Constructs, Follow, Nested
  <2>5. c.conds = Len(cond_stack') /\ c.menus = Len(menu_stack')
    BY <1>1, <2>2 DEF Construct
  <2>6. parser' = Append(parser, c)
    BY <1>1
  <2>7. menu_stack'[1] = Start /\ Len(menu_stack') > 0 /\ IsSeq(cond_stack')
    BY <1>1, <1>2, <2>1, <2>2 DEF Follow
  <2> HIDE DEF c
  <2> QED
    BY <1>2, <2>2, <2>4, <2>5, <2>6, <2>7, OpenKeeps
<1> QED
  BY <1>1, <1>2, WithoutErrors

LEMMA Else1 ==
  ASSUME IInv, NEW st, Else(st)
  PROVE  IInv'
<1>1. /\ status = "parsing" /\ status' = "parsing" /\ errors' = errors /\ menu_stack' = menu_stack
      /\ cond_stack' = cond_else(cond_stack) /\ TopOf(parser).kind = "if"
      /\ parser' = [parser EXCEPT ![Len(parser)].kind = "else"]
  BY DEF Else, Read, Fits
<1>2. ASSUME errors = 0, Follow
      PROVE  Follow'
  <2> DEFINE n == Len(parser)
  <2>1. /\ IsSeq(cond_stack) /\ IsSeq(menu_stack) /\ parser \in Seq(Constructs)
        /\ n \in Nat /\ n > 0 /\ parser[n].kind = "if"
    BY <1>1, <1>2 DEF Follow, ParseTyped, TopOf
  <2>2. n > 1
    BY <1>2, <2>1 DEF Follow
  <2>3. Nested(parser[n - 1], parser[n]) /\ parser[n - 1] \in Constructs
    BY <1>2, <2>1, <2>2 DEF Follow
  <2>4. Len(cond_stack) > 0
    BY <1>2, <2>1, <2>3 DEF Follow, Nested, Constructs
  <2>5. IsSeq(cond_stack') /\ Len(cond_stack') = Len(cond_stack)
    BY <1>1, <2>1, <2>4, Toggled
  <2>6. /\ parser' \in Seq(Constructs) /\ Len(parser') = n /\ parser'[n].kind = "else"
        /\ \A i \in 1..(n - 1) : parser'[i].kind = parser[i].kind
        /\ \A i \in 1..n : parser'[i].conds = parser[i].conds /\ parser'[i].menus = parser[i].menus
    BY <1>1, <2>1, ElsePart
  <2>7. \A i \in 1..(n - 1) : Nested(parser'[i], parser'[i + 1])
    <3>1. SUFFICES ASSUME NEW i \in 1..(n - 1)
                   PROVE  Nested(parser'[i], parser'[i + 1])
      OBVIOUS
    <3>2. Nested(parser[i], parser[i + 1]) /\ i \in 1..n /\ i + 1 \in 1..n
      BY <1>2, <2>1 DEF Follow
    <3>3. CASE i + 1 = n
      BY <2>1, <2>6, <3>2, <3>3 DEF Nested
    <3>4. CASE i + 1 # n
      <4>1. i + 1 \in 1..(n - 1)
        BY <2>1, <3>4
      <4> QED
        BY <2>6, <3>2, <4>1 DEF Nested
    <3> QED
      BY <3>3, <3>4
  <2>8. parser'[1].kind = "toplevel" /\ parser'[1].conds = 0 /\ parser'[1].menus = 1
    <3>1. 1 \in 1..(n - 1) /\ 1 \in 1..n
      BY <2>1, <2>2
    <3> QED
      BY <1>2, <2>6, <3>1 DEF Follow
  <2>9. Len(cond_stack') = parser'[n].conds /\ Len(menu_stack') = parser'[n].menus
    BY <1>1, <1>2, <2>1, <2>5, <2>6 DEF Follow
  <2> QED
    BY <1>1, <1>2, <2>1, <2>5, <2>6, <2>7, <2>8, <2>9 DEF Follow, ParseTyped
<1> QED
  BY <1>1, <1>2, WithoutErrors

LEMMA CloseIf1 ==
  ASSUME IInv, NEW st, CloseIf(st)
  PROVE  IInv'
<1>1. /\ status = "parsing" /\ status' = "parsing" /\ errors' = errors /\ menu_stack' = menu_stack
      /\ cond_stack' = Popped(cond_stack) /\ TopOf(parser).kind \in {"if", "else"}
      /\ parser' = Filled(Popped(parser))
  BY DEF CloseIf, Read, Fits
<1>2. ASSUME errors = 0, Follow
      PROVE  Follow'
  <2> DEFINE n == Len(parser)
  <2>1. /\ IsSeq(cond_stack) /\ IsSeq(menu_stack) /\ parser \in Seq(Constructs)
        /\ n \in Nat /\ n > 0 /\ parser[n].kind \in {"if", "else"}
    BY <1>1, <1>2 DEF Follow, ParseTyped, TopOf
  <2>2. n > 1
    BY <1>2, <2>1 DEF Follow
  <2>3. Nested(parser[n - 1], parser[n]) /\ parser[n - 1] \in Constructs
    BY <1>2, <2>1, <2>2 DEF Follow
  <2>4. Len(cond_stack) = parser[n].conds /\ Len(menu_stack) = parser[n].menus
    BY <1>2 DEF Follow
  <2>5. Len(cond_stack) > 0 /\ Len(cond_stack) \in Nat
    BY <2>1, <2>3, <2>4 DEF Nested, Constructs
  <2>6. /\ IsSeq(cond_stack') /\ Len(cond_stack') = Len(cond_stack) - 1
        /\ \A i \in 1..(Len(cond_stack) - 1) : cond_stack'[i] = cond_stack[i]
    BY <1>1, <2>1, <2>5, PoppedOnce
  <2>7. Len(cond_stack') = parser[n - 1].conds /\ Len(menu_stack') = parser[n - 1].menus
    <3>1. parser[n].conds = parser[n - 1].conds + 1 /\ parser[n].menus = parser[n - 1].menus
      BY <2>1, <2>3 DEF Nested
    <3>2. parser[n - 1].conds \in Nat
      BY <2>3 DEF Constructs
    <3>3. QED
      BY <1>1, <2>4, <2>6, <3>1, <3>2
  <2>8. Len(menu_stack') > 0 /\ menu_stack'[1] = Start
    BY <1>1, <1>2 DEF Follow
  <2> QED
    BY <1>1, <1>2, <2>1, <2>2, <2>6, <2>7, <2>8, CloseKeeps
<1> QED
  BY <1>1, <1>2, WithoutErrors

LEMMA CloseMenu1 ==
  ASSUME IInv, NEW st, CloseMenu(st)
  PROVE  IInv'
<1>1. /\ status = "parsing" /\ status' = "parsing" /\ errors' = errors /\ cond_stack' = cond_stack
      /\ menu_stack' = Popped(menu_stack) /\ TopOf(parser).kind = "menu"
      /\ parser' = Filled(Popped(parser))
  BY DEF CloseMenu, Read, Fits
<1>2. ASSUME errors = 0, Follow
      PROVE  Follow'
  <2> DEFINE n == Len(parser)
  <2>1. /\ IsSeq(cond_stack) /\ IsSeq(menu_stack) /\ parser \in Seq(Constructs)
        /\ n \in Nat /\ n > 0 /\ parser[n].kind = "menu"
    BY <1>1, <1>2 DEF Follow, ParseTyped, TopOf
  <2>2. n > 1
    BY <1>2, <2>1 DEF Follow
  <2>3. Nested(parser[n - 1], parser[n]) /\ parser[n - 1] \in Constructs
    BY <1>2, <2>1, <2>2 DEF Follow
  <2>4. Len(cond_stack) = parser[n].conds /\ Len(menu_stack) = parser[n].menus
    BY <1>2 DEF Follow
  <2>5. Len(menu_stack) > 0 /\ Len(menu_stack) \in Nat
    BY <2>1, <2>3, <2>4 DEF Nested, Constructs
  <2>6. /\ IsSeq(menu_stack') /\ Len(menu_stack') = Len(menu_stack) - 1
        /\ \A i \in 1..(Len(menu_stack) - 1) : menu_stack'[i] = menu_stack[i]
    BY <1>1, <2>1, <2>5, PoppedOnce
  <2>7. Len(cond_stack') = parser[n - 1].conds /\ Len(menu_stack') = parser[n - 1].menus
    BY <1>1, <2>1, <2>3, <2>4, <2>5, <2>6 DEF Nested, Constructs
  <2>8. parser[n - 1].menus > 0
    BY <2>3 DEF Constructs
  <2>9. Len(menu_stack') > 0 /\ menu_stack'[1] = Start
    <3>1. Len(menu_stack') > 0
      BY <2>7, <2>8
    <3>2. 1 \in 1..(Len(menu_stack) - 1)
      BY <2>5, <2>6, <3>1
    <3> QED
      BY <1>2, <2>6, <3>1, <3>2 DEF Follow
  <2> QED
    BY <1>1, <1>2, <2>1, <2>2, <2>6, <2>7, <2>9, CloseKeeps
<1> QED
  BY <1>1, <1>2, WithoutErrors

(* The actions that report an error.                                       *)
LEMMA Errors1 ==
  ASSUME IInv, NEW st,
         UnbalancedEndmenu(st) \/ SyntaxError(st) \/ BadNumber(st) \/ PrematureEnd
  PROVE  IInv'
<1>1. errors' = errors + 1
  BY DEF UnbalancedEndmenu, SyntaxError, BadNumber, PrematureEnd
<1>2. errors' \in Nat /\ errors' # 0
  BY <1>1 DEF IInv
<1> QED
  BY <1>2, WithErrors

(* There is an error behind every line that is dropped.                    *)
LEMMA DropLine1 ==
  ASSUME IInv, NEW st, DropLine(st)
  PROVE  IInv'
<1>1. errors' = errors /\ errors # 0 /\ errors \in Nat
  BY DEF DropLine, IInv
<1> QED
  BY <1>1, WithErrors

LEMMA EndOfFile1 ==
  ASSUME IInv, EndOfFile
  PROVE  IInv'
<1>1. CASE errors # 0
  BY <1>1, WithErrors DEF EndOfFile, IInv
<1>2. CASE errors = 0
  <2>1. Follow /\ status = "parsing" /\ Len(parser) = 1 /\ errors' = 0
    BY <1>2 DEF EndOfFile, IInv, StacksFollow, Follow
  <2>2. Len(cond_stack) = 0 /\ Len(menu_stack) = 1 /\ menu_stack[1] = Start
    BY <2>1 DEF Follow
  <2>3. cond_stack = <<>>
    BY <2>1, <2>2 DEF Follow, ParseTyped, IsSeq
  <2>4. StacksAreBack
    BY <2>2, <2>3 DEF StacksAreBack, TopOf
  <2>5. IsSeq(Popped(menu_stack)) /\ Len(Popped(menu_stack)) = 0
    <3>1. IsSeq(menu_stack) /\ Len(menu_stack) > 0
      BY <2>1, <2>2 DEF Follow, ParseTyped
    <3>2. IsSeq(Popped(menu_stack)) /\ Len(Popped(menu_stack)) = Len(menu_stack) - 1
      BY <3>1, PoppedOnce
    <3> QED
      BY <2>2, <3>2
  <2>6. Popped(menu_stack) = <<>>
    BY <2>5 DEF IsSeq
  <2>7. status' = "accepted"
    BY <1>2, <2>4, <2>6 DEF EndOfFile
  <2> QED
    BY <2>1, <2>7 DEF IInv, StacksFollow, CleanScriptsParse
<1> QED
  BY <1>1, <1>2

-----------------------------------------------------------------------------
(* The stacks follow the open constructs in every state without an error.  *)
THEOREM Invariance == ParseSpec => []IInv
<1>1. ParseInit => IInv
  <2>1. SUFFICES ASSUME ParseInit
                 PROVE  IInv
    OBVIOUS
  <2>2. errors = 0 /\ status = "parsing" /\ cond_stack = <<>> /\ menu_stack = <<Start>>
        /\ parser = <<Construct("toplevel", 0, 1)>>
    BY <2>1 DEF ParseInit
  <2>3. IsSeq(cond_stack) /\ Len(cond_stack) = 0
    <3>1. <<>> \in Seq({}) /\ Len(<<>>) = 0
      OBVIOUS
    <3> QED
      BY <2>2, <3>1 DEF IsSeq
  <2>4. IsSeq(menu_stack) /\ Len(menu_stack) = 1 /\ menu_stack[1] = Start
    <3>1. <<Start>> \in Seq({Start}) /\ Len(<<Start>>) = 1 /\ <<Start>>[1] = Start
      OBVIOUS
    <3> QED
      BY <2>2, <3>1 DEF IsSeq
  <2>5. /\ parser \in Seq(Constructs) /\ Len(parser) = 1
        /\ parser[1].kind = "toplevel" /\ parser[1].conds = 0 /\ parser[1].menus = 1
    <3>1. Construct("toplevel", 0, 1) \in Constructs
      BY DEF Construct, Constructs
    <3> QED
      BY <2>2, <3>1 DEF Construct
  <2> QED
    BY <2>2, <2>3, <2>4, <2>5 DEF IInv, ParseTyped, StacksFollow, CleanScriptsParse
<1>2. IInv /\ [ParseNext]_parseVars => IInv'
  <2>1. SUFFICES ASSUME IInv, [ParseNext]_parseVars
                 PROVE  IInv'
    OBVIOUS
  <2>2. CASE EndOfFile
    BY <2>1, <2>2, EndOfFile1
  <2>3. CASE PrematureEnd
    BY <2>1, <2>3, Errors1
  <2>4. CASE ReadLine
    <3>1. PICK st : \/ BasicStatement(st) \/ MainmenuName(st) \/ OpenIf(st) \/ Else(st) \/ CloseIf(st)
                    \/ OpenMenu(st) \/ CloseMenu(st) \/ UnbalancedEndmenu(st) \/ TestStatement(st)
                    \/ SyntaxError(st) \/ BadNumber(st) \/ DropLine(st)
      BY <2>4 DEF ReadLine
    <3>2. CASE BasicStatement(st) \/ TestStatement(st)
      BY <2>1, <3>2, Statements1
    <3>3. CASE MainmenuName(st)
      BY <2>1, <3>3, MainmenuName1
    <3>4. CASE OpenIf(st)
      BY <2>1, <3>4, OpenIf1
    <3>5. CASE Else(st)
      BY <2>1, <3>5, Else1
    <3>6. CASE CloseIf(st)
      BY <2>1, <3>6, CloseIf1
    <3>7. CASE OpenMenu(st)
      BY <2>1, <3>7, OpenMenu1
    <3>8. CASE CloseMenu(st)
      BY <2>1, <3>8, CloseMenu1
    <3>9. CASE UnbalancedEndmenu(st) \/ SyntaxError(st) \/ BadNumber(st)
      BY <2>1, <3>9, Errors1
    <3>10. CASE DropLine(st)
      BY <2>1, <3>10, DropLine1
    <3> QED
      BY <3>1, <3>2, <3>3, <3>4, <3>5, <3>6, <3>7, <3>8, <3>9, <3>10
  <2>5. CASE UNCHANGED parseVars
    BY <2>1, <2>5 DEF parseVars, IInv, ParseTyped, StacksFollow, CleanScriptsParse
  <2> QED
    BY <2>1, <2>2, <2>3, <2>4, <2>5 DEF ParseNext
<1> QED
  BY <1>1, <1>2, PTL DEF ParseSpec

(* A script without an error passes the asserts at the end of the first    *)
(* pass, whatever its lines.                                               *)
THEOREM CleanScripts == ParseSpec => []CleanScriptsParse
<1>1. IInv => CleanScriptsParse
  BY DEF IInv
<1> QED
  BY <1>1, Invariance, PTL

-----------------------------------------------------------------------------
(* What a declaration does to the parents of the nodes, and to which of    *)
(* them are weak: all that the place of a symbol rests on.                 *)
Fields == {"parent", "weak"}

Known(ns) == \A n \in DOMAIN ns : Fields \subseteq DOMAIN ns[n]

SameAt(ns, ms, n) == ms[n].parent = ns[n].parent /\ ms[n].weak = ns[n].weak

LEMMA ChildrenSet ==
  ASSUME NEW ns, Known(ns), NEW m, NEW v
  PROVE  LET ms == [ns EXCEPT ![m].children = v]
         IN  DOMAIN ms = DOMAIN ns /\ Known(ms) /\ \A n \in DOMAIN ns : SameAt(ns, ms, n)
BY DEF Known, Fields, SameAt

LEMMA BranchAdded ==
  ASSUME NEW ns, Known(ns), NEW m, NEW branch
  PROVE  LET ms == [ns EXCEPT ![m].branches = Append(@, branch)]
         IN  DOMAIN ms = DOMAIN ns /\ Known(ms) /\ \A n \in DOMAIN ns : SameAt(ns, ms, n)
BY DEF Known, Fields, SameAt

LEMMA ChildAdded ==
  ASSUME NEW ns, Known(ns), NEW menu, NEW name \in DOMAIN ns
  PROVE  LET ms == mn_add_child(ns, menu, name)
         IN  /\ DOMAIN ms = DOMAIN ns /\ Known(ms)
             /\ ms[name].parent = menu /\ ms[name].weak = ns[name].weak
             /\ \A n \in DOMAIN ns : n # name => SameAt(ns, ms, n)
<1> DEFINE ks == [ns EXCEPT ![menu].children = Append(@, name)]
           ms == [ks EXCEPT ![name].parent = menu]
<1>1. mn_add_child(ns, menu, name) = ms
  BY DEF mn_add_child
<1>2. DOMAIN ks = DOMAIN ns /\ Known(ks) /\ \A n \in DOMAIN ns : SameAt(ns, ks, n)
  BY DEF Known, Fields, SameAt
<1> HIDE DEF ks
<1>3. /\ DOMAIN ms = DOMAIN ks /\ Known(ms)
      /\ ms[name].parent = menu /\ ms[name].weak = ks[name].weak
      /\ \A n \in DOMAIN ks : n # name => SameAt(ks, ms, n)
  BY <1>2 DEF Known, Fields, SameAt
<1> HIDE DEF ms
<1> QED
  BY <1>1, <1>2, <1>3 DEF SameAt

LEMMA ChildMoved ==
  ASSUME NEW ns, Known(ns), NEW menu, NEW name \in DOMAIN ns
  PROVE  LET ms == mn_reparent(ns, menu, name)
         IN  /\ DOMAIN ms = DOMAIN ns /\ Known(ms)
             /\ ms[name].parent = menu /\ ms[name].weak = ns[name].weak
             /\ \A n \in DOMAIN ns : n # name => SameAt(ns, ms, n)
<1> DEFINE m == ns[name].parent
           v == Without(ns[m].children, name)
           ks == [ns EXCEPT ![m].children = v]
<1>1. mn_reparent(ns, menu, name) = mn_add_child(ks, menu, name)
  BY DEF mn_reparent
<1>2. DOMAIN ks = DOMAIN ns /\ Known(ks) /\ \A n \in DOMAIN ns : SameAt(ns, ks, n)
  BY ChildrenSet
<1> HIDE DEF ks
<1>3. LET ms == mn_add_child(ks, menu, name)
      IN  /\ DOMAIN ms = DOMAIN ks /\ Known(ms)
          /\ ms[name].parent = menu /\ ms[name].weak = ks[name].weak
          /\ \A n \in DOMAIN ks : n # name => SameAt(ks, ms, n)
  BY <1>2, ChildAdded
<1> QED
  BY <1>1, <1>2, <1>3 DEF SameAt

LEMMA ReferencedNodes ==
  ASSUME NEW ns, Known(ns), NEW names
  PROVE  LET ms == Referenced(ns, names)
         IN  /\ DOMAIN ms = DOMAIN ns \cup names /\ Known(ms)
             /\ \A n \in DOMAIN ns : SameAt(ns, ms, n)
<1>1. Fields \subseteq DOMAIN mn_new("unknown")
  BY DEF Fields, mn_new
<1> HIDE DEF mn_new
<1> QED
  BY <1>1 DEF Referenced, Known, SameAt

(* A menu, comment or choice of another name.                              *)
LEMMA CompoundAdded ==
  ASSUME NEW ns, Known(ns), NEW name, NEW branch, NEW menu
  PROVE  LET ms == add_compound_branch(ns, name, branch, menu)
         IN  /\ DOMAIN ms = DOMAIN ns \cup {name} /\ Known(ms)
             /\ \A n \in DOMAIN ns : n # name => SameAt(ns, ms, n)
<1> DEFINE node == [mn_new("menu") EXCEPT !.radio = branch.type = "choice"]
           with == Put(ns, name, node)
           fresh == mn_add_child(with, menu, name)
           ks == IF name \in DOMAIN ns THEN ns ELSE fresh
           ms == [ks EXCEPT ![name].branches = Append(@, branch)]
<1>1. add_compound_branch(ns, name, branch, menu) = ms
  BY DEF add_compound_branch
<1>2. Fields \subseteq DOMAIN node
  BY DEF Fields, mn_new
<1> HIDE DEF node
<1>3. DOMAIN with = DOMAIN ns \cup {name} /\ Known(with) /\ \A n \in DOMAIN ns : n # name => SameAt(ns, with, n)
  BY <1>2 DEF Put, Known, SameAt
<1> HIDE DEF with
<1>4. /\ DOMAIN fresh = DOMAIN with /\ Known(fresh)
      /\ \A n \in DOMAIN with : n # name => SameAt(with, fresh, n)
  BY <1>3, ChildAdded
<1> HIDE DEF fresh
<1>5. /\ DOMAIN ks = DOMAIN ns \cup {name} /\ Known(ks)
      /\ \A n \in DOMAIN ns : n # name => SameAt(ns, ks, n)
  <2>1. CASE name \in DOMAIN ns
    BY <2>1 DEF SameAt
  <2>2. CASE name \notin DOMAIN ns
    BY <1>3, <1>4, <2>2 DEF SameAt
  <2> QED
    BY <2>1, <2>2
<1> HIDE DEF ks
<1>6. DOMAIN ms = DOMAIN ks /\ Known(ms) /\ \A n \in DOMAIN ks : SameAt(ks, ms, n)
  BY <1>5, BranchAdded
<1> HIDE DEF ms
<1> QED
  BY <1>1, <1>5, <1>6 DEF SameAt

(* A symbol: a new one takes its place, and so does a weak one that is     *)
(* asked for; everything else stays where it is.                           *)
LEMMA PrimitiveAdded ==
  ASSUME NEW ns, Known(ns), NEW name, NEW branch, NEW menu
  PROVE  LET ms == add_primitive_branch(ns, name, branch, menu)
         IN  /\ DOMAIN ms = DOMAIN ns \cup {name} /\ Known(ms)
             /\ \A n \in DOMAIN ns : n # name => SameAt(ns, ms, n)
             /\ name \notin DOMAIN ns =>
                  ms[name].parent = menu /\ ms[name].weak = (branch.type = "define")
             /\ name \in DOMAIN ns /\ ns[name].parent # None =>
                  IF branch.type # "define" /\ ns[name].weak
                  THEN ms[name].parent = menu /\ ms[name].weak = FALSE
                  ELSE SameAt(ns, ms, name)
<1> DEFINE node == IF name \in DOMAIN ns THEN ns[name]
                   ELSE [mn_new("unknown") EXCEPT !.weak = branch.type = "define"]
           with == Put(ns, name, node)
           added == mn_add_child(with, menu, name)
           there == mn_reparent(with, menu, name)
           moved == [there EXCEPT ![name].weak = FALSE]
           placed == IF node.parent = None THEN added
                     ELSE IF Moves(node, branch) THEN moved ELSE with
           ms == [placed EXCEPT ![name].branches = Append(@, branch)]
<1>1. add_primitive_branch(ns, name, branch, menu) = ms
  BY DEF add_primitive_branch
<1>2. /\ Fields \subseteq DOMAIN node
      /\ name \in DOMAIN ns => node = ns[name]
      /\ name \notin DOMAIN ns => node.parent = None /\ node.weak = (branch.type = "define")
  BY DEF Fields, mn_new, Known
<1> HIDE DEF node
<1>3. /\ DOMAIN with = DOMAIN ns \cup {name} /\ Known(with) /\ with[name] = node
      /\ \A n \in DOMAIN ns : n # name => SameAt(ns, with, n)
  BY <1>2 DEF Put, Known, SameAt
<1> HIDE DEF with
<1>4. /\ DOMAIN added = DOMAIN with /\ Known(added)
      /\ added[name].parent = menu /\ added[name].weak = with[name].weak
      /\ \A n \in DOMAIN with : n # name => SameAt(with, added, n)
  BY <1>3, ChildAdded
<1> HIDE DEF added
<1>5. /\ DOMAIN there = DOMAIN with /\ Known(there)
      /\ there[name].parent = menu
      /\ \A n \in DOMAIN with : n # name => SameAt(with, there, n)
  BY <1>3, ChildMoved
<1> HIDE DEF there
<1>6. /\ DOMAIN moved = DOMAIN with /\ Known(moved)
      /\ moved[name].parent = menu /\ moved[name].weak = FALSE
      /\ \A n \in DOMAIN with : n # name => SameAt(with, moved, n)
  BY <1>3, <1>5 DEF Known, Fields, SameAt
<1> HIDE DEF moved
<1>7. /\ DOMAIN placed = DOMAIN with /\ Known(placed)
      /\ \A n \in DOMAIN with : n # name => SameAt(with, placed, n)
      /\ node.parent = None => placed[name].parent = menu /\ placed[name].weak = node.weak
      /\ node.parent # None /\ branch.type # "define" /\ node.weak =>
           placed[name].parent = menu /\ placed[name].weak = FALSE
      /\ node.parent # None /\ ~(branch.type # "define" /\ node.weak) => SameAt(with, placed, name)
  <2>1. CASE node.parent = None
    BY <1>3, <1>4, <2>1
  <2>2. CASE node.parent # None /\ branch.type # "define" /\ node.weak
    BY <1>6, <2>2 DEF Moves
  <2>3. CASE node.parent # None /\ ~(branch.type # "define" /\ node.weak)
    BY <1>3, <2>3 DEF Moves, SameAt
  <2> QED
    BY <2>1, <2>2, <2>3
<1> HIDE DEF placed
<1>8. DOMAIN ms = DOMAIN placed /\ Known(ms) /\ \A n \in DOMAIN placed : SameAt(placed, ms, n)
  BY <1>7, BranchAdded
<1> HIDE DEF ms
<1>9. name \in DOMAIN placed
  BY <1>3, <1>7
<1> QED
  BY <1>1, <1>2, <1>3, <1>7, <1>8, <1>9 DEF SameAt

-----------------------------------------------------------------------------
(* Induction, of a set instead of a predicate: the provers cannot put an   *)
(* operator for the P(_) of NatInduction.                                  *)
LEMMA Induction ==
  ASSUME NEW S, 0 \in S, \A n \in Nat : n \in S => n + 1 \in S
  PROVE  \A n \in Nat : n \in S
<1> DEFINE R == OpToRel(<, Nat)
           T == {n \in Nat : n \notin S}
<1>1. IsWellFoundedOn(R, Nat)
  BY NatLessThanWellFounded
<1>2. \A x, y \in Nat : <<x, y>> \in R <=> x < y
  BY DEF OpToRel
<1> HIDE DEF R
<1>3. ASSUME T # {}
      PROVE  FALSE
  <2>1. PICK n \in T : \A y \in T : ~(<<y, n>> \in R)
    BY <1>1, <1>3, WFMin
  <2>2. n \in Nat /\ n \notin S /\ n # 0
    OBVIOUS
  <2>3. n - 1 \in Nat /\ n - 1 < n
    BY <2>2
  <2>4. n - 1 \in S
    BY <1>2, <2>1, <2>2, <2>3
  <2>5. (n - 1) + 1 \in S
    BY <2>3, <2>4
  <2> QED
    BY <2>2, <2>5
<1> QED
  BY <1>3

(* The names of a choice are gone through one by one.                      *)
Through(f, ns, names, branch, menu) ==
  /\ Listed(ns, names, branch, menu) = f[Len(names)]
  /\ f[0] = ns
  /\ \A i \in 1..Len(names) :
       f[i] = add_primitive_branch(f[i - 1], names[i], branch, menu)

LEMMA ListRuns ==
  ASSUME NEW ns, NEW names, Len(names) \in Nat, NEW branch, NEW menu
  PROVE  \E f : Through(f, ns, names, branch, menu)
<1> DEFINE Step(x, i) == add_primitive_branch(x, names[i], branch, menu)
           Is(f, k) == f = [i \in 0..k |-> IF i = 0 THEN ns ELSE Step(f[i - 1], i)]
           S == {k \in Nat : \E f : Is(f, k)}
<1> HIDE DEF Step
<1>1. 0 \in S
  <2>1. Is([i \in 0..0 |-> ns], 0)
    OBVIOUS
  <2> QED
    BY <2>1
<1>2. ASSUME NEW k \in Nat, k \in S
      PROVE  k + 1 \in S
  <2>1. PICK f : Is(f, k)
    BY <1>2
  <2> DEFINE g == [i \in 0..(k + 1) |-> IF i = k + 1 THEN Step(f[k], k + 1) ELSE f[i]]
  <2>2. \A i \in 0..k : f[i] = IF i = 0 THEN ns ELSE Step(f[i - 1], i)
    BY <2>1
  <2>3. ASSUME NEW i \in 0..(k + 1)
        PROVE  g[i] = IF i = 0 THEN ns ELSE Step(g[i - 1], i)
    <3>1. CASE i = k + 1
      <4>1. i - 1 = k /\ i # 0 /\ k \in 0..(k + 1) /\ k # k + 1
        BY <3>1
      <4>2. g[i - 1] = f[k]
        BY <4>1
      <4> QED
        BY <3>1, <4>1, <4>2
    <3>2. CASE i # k + 1 /\ i # 0
      <4>1. i \in 0..k /\ i - 1 \in 0..(k + 1) /\ i - 1 # k + 1
        BY <3>2
      <4>2. g[i - 1] = f[i - 1] /\ g[i] = f[i]
        BY <3>2, <4>1
      <4> QED
        BY <2>2, <3>2, <4>1, <4>2
    <3>3. CASE i # k + 1 /\ i = 0
      BY <2>2, <3>3
    <3> QED
      BY <3>1, <3>2, <3>3
  <2>4. Is(g, k + 1)
    BY <2>3
  <2> HIDE DEF g, Is
  <2> QED
    BY <2>4
<1>3. Len(names) \in S
  <2> HIDE DEF S
  <2> QED
    BY <1>1, <1>2, Induction
<1>4. \E f : Is(f, Len(names))
  BY <1>3
<1> DEFINE h == CHOOSE f : Is(f, Len(names))
<1>5. Is(h, Len(names))
  BY <1>4
<1>6. Listed(ns, names, branch, menu) = h[Len(names)]
  BY DEF Listed, Step
<1> HIDE DEF h
<1>7. h[0] = ns
  <2>1. 0 \in 0..Len(names)
    OBVIOUS
  <2> QED
    BY <1>5, <2>1
<1>8. ASSUME NEW i \in 1..Len(names)
      PROVE  h[i] = Step(h[i - 1], i)
  <2>1. i \in 0..Len(names) /\ i # 0
    OBVIOUS
  <2> QED
    BY <1>5, <2>1
<1>9. Through(h, ns, names, branch, menu)
  BY <1>6, <1>7, <1>8 DEF Step, Through
<1> QED
  BY <1>9

(* What asking for a symbol in a menu comes to.                            *)
Settles(ns, ms, n, menu) ==
  /\ n \in DOMAIN ms
  /\ n \notin DOMAIN ns => ms[n].parent = menu /\ ms[n].weak = FALSE
  /\ n \in DOMAIN ns /\ ns[n].parent # None =>
       IF ns[n].weak THEN ms[n].parent = menu /\ ms[n].weak = FALSE ELSE SameAt(ns, ms, n)

LEMMA ListedNodes ==
  ASSUME NEW ns, Known(ns), NEW names, Len(names) \in Nat, NEW branch, branch.type # "define",
         NEW menu, menu # None
  PROVE  LET ms == Listed(ns, names, branch, menu)
         IN  /\ Known(ms)
             /\ \A n : IF \E i \in 1..Len(names) : names[i] = n
                       THEN Settles(ns, ms, n, menu)
                       ELSE /\ n \in DOMAIN ms <=> n \in DOMAIN ns
                            /\ n \in DOMAIN ns => SameAt(ns, ms, n)
<1>0. PICK f : Through(f, ns, names, branch, menu)
  BY ListRuns
<1>1. /\ Listed(ns, names, branch, menu) = f[Len(names)]
      /\ f[0] = ns
      /\ \A i \in 1..Len(names) :
           f[i] = add_primitive_branch(f[i - 1], names[i], branch, menu)
  BY <1>0 DEF Through
<1> DEFINE Among(n, k) == \E i \in 1..k : names[i] = n
           Right(n, k) == IF Among(n, k) THEN Settles(ns, f[k], n, menu)
                          ELSE /\ n \in DOMAIN f[k] <=> n \in DOMAIN ns
                               /\ n \in DOMAIN ns => SameAt(ns, f[k], n)
           S == {k \in Nat : k <= Len(names) => Known(f[k]) /\ \A n : Right(n, k)}
<1>2. 0 \in S
  BY <1>1 DEF SameAt
<1>3. ASSUME NEW k \in Nat, k \in S
      PROVE  k + 1 \in S
  <2>1. SUFFICES ASSUME k + 1 <= Len(names)
                 PROVE  Known(f[k + 1]) /\ \A n : Right(n, k + 1)
    OBVIOUS
  <2>2. Known(f[k]) /\ \A n : Right(n, k)
    BY <1>3, <2>1
  <2>3. f[k + 1] = add_primitive_branch(f[k], names[k + 1], branch, menu)
    <3>1. k + 1 \in 1..Len(names) /\ (k + 1) - 1 = k
      BY <2>1
    <3> QED
      BY <1>1, <3>1
  <2> DEFINE name == names[k + 1]
  <2>4. LET ms == add_primitive_branch(f[k], name, branch, menu)
        IN  /\ DOMAIN ms = DOMAIN f[k] \cup {name} /\ Known(ms)
            /\ \A n \in DOMAIN f[k] : n # name => SameAt(f[k], ms, n)
            /\ name \notin DOMAIN f[k] =>
                 ms[name].parent = menu /\ ms[name].weak = (branch.type = "define")
            /\ name \in DOMAIN f[k] /\ f[k][name].parent # None =>
                 IF branch.type # "define" /\ f[k][name].weak
                 THEN ms[name].parent = menu /\ ms[name].weak = FALSE
                 ELSE SameAt(f[k], ms, name)
    BY <2>2, PrimitiveAdded
  <2>5. /\ DOMAIN f[k + 1] = DOMAIN f[k] \cup {name} /\ Known(f[k + 1])
        /\ \A n \in DOMAIN f[k] : n # name => SameAt(f[k], f[k + 1], n)
        /\ name \notin DOMAIN f[k] => f[k + 1][name].parent = menu /\ f[k + 1][name].weak = FALSE
        /\ name \in DOMAIN f[k] /\ f[k][name].parent # None =>
             IF f[k][name].weak
             THEN f[k + 1][name].parent = menu /\ f[k + 1][name].weak = FALSE
             ELSE SameAt(f[k], f[k + 1], name)
    BY <2>3, <2>4
  <2>6. \A n : Among(n, k + 1) <=> Among(n, k) \/ n = name
    OBVIOUS
  <2> HIDE DEF name
  <2>7. ASSUME NEW n
        PROVE  Right(n, k + 1)
    <3> HIDE DEF Among
    <3>1. CASE n # name
      BY <2>2, <2>5, <2>6, <3>1 DEF Settles, SameAt
    <3>2. CASE n = name /\ Among(n, k)
      BY <2>2, <2>5, <2>6, <3>2 DEF Settles, SameAt
    <3>3. CASE n = name /\ ~Among(n, k)
      BY <2>2, <2>5, <2>6, <3>3 DEF Settles, SameAt
    <3> QED
      BY <3>1, <3>2, <3>3
  <2> QED
    BY <2>5, <2>7
<1>4. Len(names) \in S
  <2> HIDE DEF S
  <2> QED
    BY <1>2, <1>3, Induction
<1> QED
  BY <1>1, <1>4

-----------------------------------------------------------------------------
(* What a line comes to for a symbol that is not mentioned in it, or was   *)
(* there before.                                                           *)
PlaceFor(st) == IF st.kind = "choice" THEN st.name ELSE TopOf(menu_stack)

Untouched(ms, n) ==
  /\ n \in DOMAIN ms <=> n \in DOMAIN nodes
  /\ n \in DOMAIN nodes => SameAt(nodes, ms, n)

Effect(st, ms, sym) ==
  (sym \in Mentions(st) => sym \in DOMAIN nodes) =>
    /\ Asking(st, sym) => Settles(nodes, ms, sym, PlaceFor(st))
    /\ Defining(st, sym) =>
         /\ sym \in DOMAIN ms
         /\ sym \in DOMAIN nodes /\ nodes[sym].parent # None => SameAt(nodes, ms, sym)
         /\ sym \notin DOMAIN nodes => ms[sym].parent = PlaceFor(st) /\ ms[sym].weak = TRUE
    /\ ~Asking(st, sym) /\ ~Defining(st, sym) => Untouched(ms, sym)

WellNamed(st) ==
  /\ st.kind \in {"menu", "comment", "choice"} => st.name \in Banners
  /\ st.kind \in {"query", "define", "dep_bool", "dep_mbool", "dep_tristate"} => st.name \in Symbols
  /\ st.kind = "choice" => st.names \in Seq(Symbols)

LEMMA ChoiceNodes ==
  ASSUME NEW ns, Known(ns), NEW st, WellNamed(st), st.kind = "choice", NEW cond, NEW menu
  PROVE  LET ms == choice_statement(ns, st, cond, menu)
         IN  /\ Known(ms)
             /\ \A sym \in Symbols :
                  IF Asking(st, sym) THEN Settles(ns, ms, sym, st.name)
                  ELSE /\ sym \in DOMAIN ms <=> sym \in DOMAIN ns
                       /\ sym \in DOMAIN ns => SameAt(ns, ms, sym)
<1> DEFINE compound == add_compound_branch(ns, st.name, branch_new("choice", cond, menu), menu)
           child == [branch_new("query", <<>>, st.name) EXCEPT !.value_type = "boolean"]
           listed == Listed(compound, st.names, child, st.name)
           children == listed[st.name].children
           deflt == IF st.deflt # None THEN st.deflt
                    ELSE IF children # <<>> THEN children[1] ELSE None
           last == Len(listed[st.name].branches)
           ms == [listed EXCEPT ![st.name].branches[last].choice_default = deflt]
<1>1. choice_statement(ns, st, cond, menu) = ms
  BY DEF choice_statement
<1>2. /\ DOMAIN compound = DOMAIN ns \cup {st.name} /\ Known(compound)
      /\ \A n \in DOMAIN ns : n # st.name => SameAt(ns, compound, n)
  BY CompoundAdded
<1> HIDE DEF compound
<1>3. child.type # "define"
  BY DEF branch_new
<1> HIDE DEF child
<1>4. st.name \in Banners /\ st.name # None /\ st.name \notin Symbols /\ Len(st.names) \in Nat
  BY NamesAssumption DEF WellNamed
<1>5. /\ Known(listed)
      /\ \A n : IF \E i \in 1..Len(st.names) : st.names[i] = n
                THEN Settles(compound, listed, n, st.name)
                ELSE /\ n \in DOMAIN listed <=> n \in DOMAIN compound
                     /\ n \in DOMAIN compound => SameAt(compound, listed, n)
  BY <1>2, <1>3, <1>4, ListedNodes
<1> HIDE DEF listed
<1>6. DOMAIN ms = DOMAIN listed /\ Known(ms) /\ \A n \in DOMAIN listed : SameAt(listed, ms, n)
  <2> HIDE DEF deflt, last
  <2> QED
    BY <1>5 DEF Known, Fields, SameAt
<1> HIDE DEF ms
<1>7. ASSUME NEW sym \in Symbols
      PROVE  IF Asking(st, sym) THEN Settles(ns, ms, sym, st.name)
             ELSE /\ sym \in DOMAIN ms <=> sym \in DOMAIN ns
                  /\ sym \in DOMAIN ns => SameAt(ns, ms, sym)
  <2>1. sym # st.name
    BY <1>4
  <2>2. Asking(st, sym) <=> \E i \in 1..Len(st.names) : st.names[i] = sym
    BY DEF Asking, Dep
  <2>3. CASE Asking(st, sym)
    <3>1. Settles(compound, listed, sym, st.name)
      BY <1>5, <2>2, <2>3
    <3> QED
      BY <1>2, <1>6, <2>1, <2>3, <3>1 DEF Settles, SameAt
  <2>4. CASE ~Asking(st, sym)
    <3>1. /\ sym \in DOMAIN listed <=> sym \in DOMAIN compound
          /\ sym \in DOMAIN compound => SameAt(compound, listed, sym)
      BY <1>5, <2>2, <2>4
    <3> QED
      BY <1>2, <1>6, <2>1, <2>4, <3>1 DEF SameAt
  <2> QED
    BY <2>3, <2>4
<1> QED
  BY <1>1, <1>6, <1>7

LEMMA DeclaredNodes ==
  ASSUME Known(nodes), NEW st, WellNamed(st), st.kind \in Basic, TopOf(menu_stack) # None
  PROVE  Known(Declared(st)) /\ \A sym \in Symbols : Effect(st, Declared(st), sym)
<1> DEFINE cond == cond_copy_top(cond_stack)
           menu == TopOf(menu_stack)
           seen == Referenced(nodes, Mentions(st))
           ms == Declared(st)
<1>1. /\ DOMAIN seen = DOMAIN nodes \cup Mentions(st) /\ Known(seen)
      /\ \A n \in DOMAIN nodes : SameAt(nodes, seen, n)
  BY ReferencedNodes
<1> HIDE DEF seen, menu, cond
<1>2. CASE st.kind \in {"unset", "blank"}
  <2>1. Declared(st) = nodes
    BY <1>2 DEF Declared
  <2>2. ASSUME NEW sym \in Symbols
        PROVE  ~Asking(st, sym) /\ ~Defining(st, sym)
    BY <1>2 DEF Asking, Defining, Dep
  <2> QED
    BY <2>1, <2>2 DEF Effect, Untouched, SameAt
<1>3. CASE st.kind = "comment"
  <2> DEFINE branch == branch_new(st.kind, cond, menu)
  <2>1. ms = add_compound_branch(seen, st.name, branch, menu)
    BY <1>3 DEF Declared, cond, menu, seen
  <2> HIDE DEF branch, ms
  <2>2. /\ DOMAIN ms = DOMAIN seen \cup {st.name} /\ Known(ms)
        /\ \A n \in DOMAIN seen : n # st.name => SameAt(seen, ms, n)
    BY <1>1, <2>1, CompoundAdded
  <2>3. st.name \in Banners
    BY <1>3 DEF WellNamed
  <2>4. ASSUME NEW sym \in Symbols
        PROVE  Effect(st, ms, sym)
    <3>1. ~Asking(st, sym) /\ ~Defining(st, sym) /\ sym # st.name
      BY <1>3, <2>3, NamesAssumption DEF Asking, Defining, Dep
    <3> QED
      BY <1>1, <2>2, <3>1 DEF Effect, Untouched, SameAt
  <2> QED
    BY <2>2, <2>4 DEF ms
<1>4. CASE st.kind = "choice"
  <2>1. ms = choice_statement(seen, st, cond, menu)
    BY <1>4 DEF Declared, cond, menu, seen
  <2> HIDE DEF ms
  <2>2. /\ Known(ms)
        /\ \A sym \in Symbols :
             IF Asking(st, sym) THEN Settles(seen, ms, sym, st.name)
             ELSE /\ sym \in DOMAIN ms <=> sym \in DOMAIN seen
                  /\ sym \in DOMAIN seen => SameAt(seen, ms, sym)
    BY <1>1, <1>4, <2>1, ChoiceNodes
  <2>3. PlaceFor(st) = st.name
    BY <1>4 DEF PlaceFor
  <2>4. ASSUME NEW sym \in Symbols
        PROVE  Effect(st, ms, sym)
    <3>1. SUFFICES ASSUME sym \in Mentions(st) => sym \in DOMAIN nodes
                   PROVE  /\ Asking(st, sym) => Settles(nodes, ms, sym, st.name)
                          /\ ~Asking(st, sym) => Untouched(ms, sym)
      BY <1>4, <2>3 DEF Effect, Defining
    <3>2. sym \in DOMAIN seen <=> sym \in DOMAIN nodes
      BY <1>1, <3>1
    <3> QED
      BY <1>1, <2>2, <3>2 DEF Settles, Untouched, SameAt
  <2> QED
    BY <2>2, <2>4 DEF ms
<1>5. CASE st.kind \in {"query", "define"} \cup Dep
  <2>1. PICK branch : ms = add_primitive_branch(seen, st.name, branch, menu) /\ branch.type = st.kind
    <3> DEFINE made == branch_new(st.kind, cond, menu)
               asked == [made EXCEPT !.exprs = st.exprs, !.value_type = st.type]
               depends == [made EXCEPT !.exprs = st.exprs]
    <3>1. asked.type = st.kind /\ depends.type = st.kind
      BY DEF branch_new
    <3>2. ms = add_primitive_branch(seen, st.name, asked, menu)
          \/ ms = add_primitive_branch(seen, st.name, depends, menu)
      BY <1>5 DEF Declared, cond, menu, seen, Dep
    <3> HIDE DEF asked, depends, ms
    <3> QED
      BY <3>1, <3>2
  <2> HIDE DEF ms
  <2> DEFINE name == st.name
  <2>2. /\ DOMAIN ms = DOMAIN seen \cup {name} /\ Known(ms)
        /\ \A n \in DOMAIN seen : n # name => SameAt(seen, ms, n)
        /\ name \notin DOMAIN seen => ms[name].parent = menu /\ ms[name].weak = (branch.type = "define")
        /\ name \in DOMAIN seen /\ seen[name].parent # None =>
             IF branch.type # "define" /\ seen[name].weak
             THEN ms[name].parent = menu /\ ms[name].weak = FALSE
             ELSE SameAt(seen, ms, name)
    <3>1. Known(seen)
      BY <1>1
    <3>2. LET ks == add_primitive_branch(seen, name, branch, menu)
          IN  /\ DOMAIN ks = DOMAIN seen \cup {name} /\ Known(ks)
              /\ \A n \in DOMAIN seen : n # name => SameAt(seen, ks, n)
              /\ name \notin DOMAIN seen =>
                   ks[name].parent = menu /\ ks[name].weak = (branch.type = "define")
              /\ name \in DOMAIN seen /\ seen[name].parent # None =>
                   IF branch.type # "define" /\ seen[name].weak
                   THEN ks[name].parent = menu /\ ks[name].weak = FALSE
                   ELSE SameAt(seen, ks, name)
      BY <3>1, PrimitiveAdded
    <3> QED
      BY <2>1, <3>2
  <2>3. PlaceFor(st) = menu
    BY <1>5 DEF PlaceFor, menu, Dep
  <2>4. ASSUME NEW sym \in Symbols
        PROVE  Effect(st, ms, sym)
    <3>1. SUFFICES ASSUME sym \in Mentions(st) => sym \in DOMAIN nodes
                   PROVE  /\ Asking(st, sym) => Settles(nodes, ms, sym, menu)
                          /\ Defining(st, sym) =>
                               /\ sym \in DOMAIN ms
                               /\ sym \in DOMAIN nodes /\ nodes[sym].parent # None => SameAt(nodes, ms, sym)
                               /\ sym \notin DOMAIN nodes => ms[sym].parent = menu /\ ms[sym].weak = TRUE
                          /\ ~Asking(st, sym) /\ ~Defining(st, sym) => Untouched(ms, sym)
      BY <2>3 DEF Effect
    <3>2. sym \in DOMAIN seen <=> sym \in DOMAIN nodes
      BY <1>1, <3>1
    <3>3. /\ Asking(st, sym) <=> st.kind # "define" /\ sym = name
          /\ Defining(st, sym) <=> st.kind = "define" /\ sym = name
      BY <1>5 DEF Asking, Defining, Dep
    <3>4. CASE sym # name
      BY <1>1, <2>2, <3>2, <3>3, <3>4 DEF Untouched, SameAt
    <3>5. CASE sym = name /\ st.kind = "define"
      BY <1>1, <2>1, <2>2, <3>2, <3>3, <3>5 DEF SameAt
    <3>6. CASE sym = name /\ st.kind # "define"
      <4>1. branch.type # "define" /\ Asking(st, sym) /\ ~Defining(st, sym)
        BY <2>1, <3>3, <3>6
      <4>2. Settles(nodes, ms, sym, menu)
        BY <1>1, <2>2, <3>2, <3>6, <4>1 DEF Settles, SameAt
      <4> QED
        BY <4>1, <4>2
    <3> QED
      BY <3>4, <3>5, <3>6
  <2> QED
    BY <2>2, <2>4 DEF ms
<1> QED
  BY <1>2, <1>3, <1>4, <1>5 DEF Basic

(* The lines that declare no symbol.                                       *)
LEMMA OtherLines ==
  ASSUME Known(nodes), NEW st, st.kind \notin {"query", "define", "choice"} \cup Dep,
         NEW ms, ms = Referenced(nodes, Mentions(st)) \/ ms = nodes
  PROVE  Known(ms) /\ \A sym \in Symbols : Effect(st, ms, sym)
<1>1. /\ DOMAIN nodes \subseteq DOMAIN ms /\ DOMAIN ms \subseteq DOMAIN nodes \cup Mentions(st)
      /\ Known(ms) /\ \A n \in DOMAIN nodes : SameAt(nodes, ms, n)
  <2>1. CASE ms = nodes
    BY <2>1 DEF SameAt
  <2>2. CASE ms = Referenced(nodes, Mentions(st))
    BY <2>2, ReferencedNodes
  <2> QED
    BY <2>1, <2>2
<1>2. \A sym : ~Asking(st, sym) /\ ~Defining(st, sym)
  BY DEF Asking, Defining, Dep
<1> QED
  BY <1>1, <1>2 DEF Effect, Untouched

LEMMA MenuNodes ==
  ASSUME Known(nodes), NEW st, WellNamed(st), st.kind = "menu", NEW branch, NEW menu
  PROVE  LET ms == add_compound_branch(nodes, st.name, branch, menu)
         IN  Known(ms) /\ \A sym \in Symbols : Effect(st, ms, sym)
<1> DEFINE ms == add_compound_branch(nodes, st.name, branch, menu)
<1>1. /\ DOMAIN ms = DOMAIN nodes \cup {st.name} /\ Known(ms)
      /\ \A n \in DOMAIN nodes : n # st.name => SameAt(nodes, ms, n)
  BY CompoundAdded
<1> HIDE DEF ms
<1>2. ASSUME NEW sym \in Symbols
      PROVE  ~Asking(st, sym) /\ ~Defining(st, sym) /\ sym # st.name
  BY NamesAssumption DEF Asking, Defining, Dep, WellNamed
<1>3. \A sym \in Symbols : Effect(st, ms, sym)
  BY <1>1, <1>2 DEF Effect, Untouched
<1> QED
  BY <1>1, <1>3 DEF ms

-----------------------------------------------------------------------------
(* Where the symbols stand while a script without an error is read. The    *)
(* menus that are open after each line are a function of the line; the     *)
(* last of them is the menu stack.                                         *)
MenuNames == Banners \cup {Start}
Line == UNION {Statements[i] : i \in 1..Len(Statements)}

Opened(f) ==
  /\ f[0] = <<Start>>
  /\ \A i \in 1..Len(script) : f[i] = OpenAfter(f[i - 1], script[i])

PlaceIn(f, i) == IF script[i].kind = "choice" THEN script[i].name ELSE TopOf(f[i])

FirstPlace(f, sym) ==
  \E i \in Asks(sym) : (\A j \in Asks(sym) : i <= j) /\ nodes[sym].parent = PlaceIn(f, i)

(* A symbol that is not mentioned too early is unknown until it is         *)
(* declared, then weak until it is asked for.                              *)
Standing(f, sym) ==
  ~Forward(sym) =>
    /\ Asks(sym) = {} /\ Defines(sym) = {} => sym \notin DOMAIN nodes
    /\ Asks(sym) # {} \/ Defines(sym) # {} => sym \in DOMAIN nodes /\ nodes[sym].parent # None
    /\ Asks(sym) = {} /\ Defines(sym) # {} => nodes[sym].weak = TRUE
    /\ Asks(sym) # {} => nodes[sym].weak = FALSE /\ FirstPlace(f, sym)

Stands(f) ==
  /\ Opened(f)
  /\ status = "parsing" => f[Len(script)] = menu_stack
  /\ \A sym \in Symbols : Standing(f, sym)

Clean ==
  /\ script \in Seq(Line)
  /\ Known(nodes)
  /\ status = "parsing" => menu_stack \in Seq(MenuNames)
  /\ \E f : Stands(f)

StandInv ==
  /\ IInv
  /\ status \in {"parsing", "skipping", "accepted", "rejected", "aborted"}
  /\ status = "accepted" => errors = 0
  /\ errors = 0 /\ status \in {"parsing", "accepted"} => Clean

LEMMA Grown ==
  ASSUME script \in Seq(Line), NEW st, script' = Append(script, st), st \in Line
  PROVE  /\ Len(script) \in Nat /\ script' \in Seq(Line) /\ Len(script') = Len(script) + 1
         /\ \A i \in 1..Len(script) : script'[i] = script[i]
         /\ script'[Len(script) + 1] = st
OBVIOUS

LEMMA DeclaredAt ==
  ASSUME script \in Seq(Line), NEW st, script' = Append(script, st), st \in Line, NEW sym
  PROVE  /\ Asks(sym)' = Asks(sym) \cup IF Asking(st, sym) THEN {Len(script) + 1} ELSE {}
         /\ Defines(sym)' = Defines(sym) \cup IF Defining(st, sym) THEN {Len(script) + 1} ELSE {}
         /\ ~Forward(sym)' =>
              /\ ~Forward(sym)
              /\ sym \in Mentions(st) => Asks(sym) # {} \/ Defines(sym) # {}
<1> DEFINE n == Len(script)
<1>1. /\ n \in Nat /\ Len(script') = n + 1
      /\ \A i \in 1..n : script'[i] = script[i]
      /\ script'[n + 1] = st
  BY Grown
<1>2. \A i : i \in 1..(n + 1) <=> i \in 1..n \/ i = n + 1
  BY <1>1
<1>3. Asks(sym)' = Asks(sym) \cup IF Asking(st, sym) THEN {n + 1} ELSE {}
  <2>1. Asks(sym)' = {i \in 1..(n + 1) : Asking(script'[i], sym)}
    BY <1>1 DEF Asks, Asking
  <2> QED
    BY <1>1, <1>2, <2>1 DEF Asks
<1>4. Defines(sym)' = Defines(sym) \cup IF Defining(st, sym) THEN {n + 1} ELSE {}
  <2>1. Defines(sym)' = {i \in 1..(n + 1) : Defining(script'[i], sym)}
    BY <1>1 DEF Defines, Defining
  <2> QED
    BY <1>1, <1>2, <2>1 DEF Defines
<1>5. Asks(sym) \subseteq 1..n /\ Defines(sym) \subseteq 1..n
  BY DEF Asks, Defines
<1>6. Forward(sym)' <=> \E i \in 1..(n + 1) :
                           /\ sym \in Mentions(script'[i])
                           /\ \A j \in 1..(i - 1) : j \notin Defines(sym)' \cup Asks(sym)'
  BY <1>1 DEF Forward, Mentions
<1>7. Forward(sym) => Forward(sym)'
  <2>1. SUFFICES ASSUME NEW i \in 1..n, sym \in Mentions(script[i]),
                        \A j \in 1..(i - 1) : j \notin Defines(sym) \cup Asks(sym)
                 PROVE  Forward(sym)'
    BY DEF Forward
  <2>2. i \in 1..(n + 1) /\ sym \in Mentions(script'[i])
    BY <1>1, <2>1
  <2>3. \A j \in 1..(i - 1) : j # n + 1
    BY <1>1
  <2>4. \A j \in 1..(i - 1) : j \notin Defines(sym)' \cup Asks(sym)'
    BY <1>3, <1>4, <2>1, <2>3
  <2> QED
    BY <1>6, <2>2, <2>4
<1>8. sym \in Mentions(st) /\ Asks(sym) = {} /\ Defines(sym) = {} => Forward(sym)'
  <2>1. SUFFICES ASSUME sym \in Mentions(st), Asks(sym) = {}, Defines(sym) = {}
                 PROVE  Forward(sym)'
    OBVIOUS
  <2>2. n + 1 \in 1..(n + 1) /\ sym \in Mentions(script'[n + 1])
    BY <1>1, <2>1
  <2>3. \A j \in 1..((n + 1) - 1) : j # n + 1
    BY <1>1
  <2>4. \A j \in 1..((n + 1) - 1) : j \notin Defines(sym)' \cup Asks(sym)'
    BY <1>3, <1>4, <2>1, <2>3
  <2> QED
    BY <1>6, <2>2, <2>4
<1> QED
  BY <1>3, <1>4, <1>7, <1>8

(* A line that is read without an error leaves every symbol where it       *)
(* should stand.                                                           *)
LEMMA LineKeeps ==
  ASSUME StandInv, errors = 0, status = "parsing", NEW st \in Line, WellNamed(st),
         script' = Append(script, st), status' = "parsing",
         menu_stack' = OpenAfter(menu_stack, st), menu_stack' \in Seq(MenuNames),
         Known(nodes'), \A sym \in Symbols : Effect(st, nodes', sym)
  PROVE  Clean'
<1>0. PICK n : n = Len(script)
  OBVIOUS
<1>1. Clean /\ script \in Seq(Line) /\ menu_stack \in Seq(MenuNames) /\ Len(menu_stack) > 0
  BY DEF StandInv, Clean, IInv, StacksFollow
<1>2. /\ n \in Nat /\ script' \in Seq(Line) /\ Len(script') = n + 1
      /\ \A i \in 1..n : script'[i] = script[i]
      /\ script'[n + 1] = st
  BY <1>0, <1>1, Grown
<1>3. PICK f : Stands(f)
  BY <1>1 DEF Clean
<1>4. PICK g : g = [i \in 0..(n + 1) |-> IF i = n + 1 THEN menu_stack' ELSE f[i]]
  OBVIOUS
<1>5. g[n + 1] = menu_stack' /\ \A i \in 0..n : g[i] = f[i]
  BY <1>2, <1>4
<1>6. Opened(g)'
  <2>1. g[0] = <<Start>>
    <3>1. 0 \in 0..n
      BY <1>2
    <3> QED
      BY <1>3, <1>5, <3>1 DEF Stands, Opened
  <2>2. ASSUME NEW i \in 1..(n + 1)
        PROVE  g[i] = OpenAfter(g[i - 1], script'[i])
    <3>1. CASE i = n + 1
      <4>1. n \in 0..n /\ i - 1 = n
        BY <1>2, <3>1
      <4>2. g[i - 1] = menu_stack
        BY <1>0, <1>3, <1>5, <4>1 DEF Stands
      <4> QED
        BY <1>2, <1>5, <3>1, <4>2
    <3>2. CASE i # n + 1
      <4>1. i \in 1..n /\ i \in 0..n /\ i - 1 \in 0..n
        BY <1>2, <3>2
      <4>2. f[i] = OpenAfter(f[i - 1], script[i])
        BY <1>0, <1>3, <4>1 DEF Stands, Opened
      <4> QED
        BY <1>2, <1>5, <4>1, <4>2
    <3> QED
      BY <3>1, <3>2
  <2> QED
    BY <1>2, <2>1, <2>2 DEF Opened
<1>7. PlaceFor(st) # None
  <2>1. TopOf(menu_stack) \in MenuNames
    BY <1>1 DEF TopOf
  <2> QED
    BY <2>1, NamesAssumption DEF PlaceFor, WellNamed, MenuNames, Start, None
<1>8. ASSUME NEW i \in 1..n
      PROVE  PlaceIn(g, i)' = PlaceIn(f, i)
  <2>1. g[i] = f[i] /\ script'[i] = script[i]
    BY <1>2, <1>5
  <2> QED
    BY <2>1 DEF PlaceIn
<1>9. ASSUME NEW sym \in Symbols, Asking(st, sym)
      PROVE  PlaceIn(g, n + 1)' = PlaceFor(st) /\ ~Defining(st, sym)
  BY <1>2, <1>5, <1>9 DEF PlaceIn, PlaceFor, Asking, Defining, Dep, OpenAfter
<1>10. ASSUME NEW sym \in Symbols, ~Forward(sym)'
       PROVE  /\ Asks(sym)' = {} /\ Defines(sym)' = {} => sym \notin DOMAIN nodes'
              /\ Asks(sym)' # {} \/ Defines(sym)' # {} => sym \in DOMAIN nodes' /\ nodes'[sym].parent # None
              /\ Asks(sym)' = {} /\ Defines(sym)' # {} => nodes'[sym].weak = TRUE
              /\ Asks(sym)' # {} => nodes'[sym].weak = FALSE /\ FirstPlace(g, sym)'
  <2>1. /\ Asks(sym)' = Asks(sym) \cup IF Asking(st, sym) THEN {n + 1} ELSE {}
        /\ Defines(sym)' = Defines(sym) \cup IF Defining(st, sym) THEN {n + 1} ELSE {}
        /\ ~Forward(sym)
        /\ sym \in Mentions(st) => Asks(sym) # {} \/ Defines(sym) # {}
    BY <1>0, <1>1, <1>10, DeclaredAt
  <2>2. /\ Asks(sym) = {} /\ Defines(sym) = {} => sym \notin DOMAIN nodes
        /\ Asks(sym) # {} \/ Defines(sym) # {} => sym \in DOMAIN nodes /\ nodes[sym].parent # None
        /\ Asks(sym) = {} /\ Defines(sym) # {} => nodes[sym].weak = TRUE
        /\ Asks(sym) # {} => nodes[sym].weak = FALSE /\ FirstPlace(f, sym)
    BY <1>3, <2>1 DEF Stands, Standing
  <2>3. /\ Asking(st, sym) => Settles(nodes, nodes', sym, PlaceFor(st))
        /\ Defining(st, sym) =>
             /\ sym \in DOMAIN nodes'
             /\ sym \in DOMAIN nodes /\ nodes[sym].parent # None => SameAt(nodes, nodes', sym)
             /\ sym \notin DOMAIN nodes =>
                  nodes'[sym].parent = PlaceFor(st) /\ nodes'[sym].weak = TRUE
        /\ ~Asking(st, sym) /\ ~Defining(st, sym) => Untouched(nodes', sym)
    BY <2>1, <2>2 DEF Effect
  <2>4. Asks(sym) \subseteq 1..n
    BY <1>0 DEF Asks
  <2>5. /\ FirstPlace(f, sym) <=> \E i \in Asks(sym) : (\A j \in Asks(sym) : i <= j)
                                                      /\ nodes[sym].parent = PlaceIn(f, i)
        /\ FirstPlace(g, sym)' <=> \E i \in Asks(sym)' : (\A j \in Asks(sym)' : i <= j)
                                                        /\ nodes'[sym].parent = PlaceIn(g, i)'
    BY DEF FirstPlace
  <2>6. Asks(sym) # {} /\ nodes'[sym].parent = nodes[sym].parent => FirstPlace(g, sym)'
    <3>1. SUFFICES ASSUME Asks(sym) # {}, nodes'[sym].parent = nodes[sym].parent
                   PROVE  FirstPlace(g, sym)'
      OBVIOUS
    <3>2. PICK i \in Asks(sym) : (\A j \in Asks(sym) : i <= j) /\ nodes[sym].parent = PlaceIn(f, i)
      BY <2>2, <2>5, <3>1
    <3>3. i \in 1..n /\ i <= n + 1
      BY <1>2, <2>4
    <3>4. i \in Asks(sym)' /\ \A j \in Asks(sym)' : i <= j
      BY <2>1, <3>2, <3>3
    <3>5. nodes'[sym].parent = PlaceIn(g, i)'
      BY <1>8, <3>1, <3>2, <3>3
    <3> QED
      BY <2>5, <3>4, <3>5
  <2>7. CASE Asking(st, sym)
    <3>1. /\ PlaceIn(g, n + 1)' = PlaceFor(st) /\ ~Defining(st, sym)
          /\ Asks(sym)' = Asks(sym) \cup {n + 1}
      BY <1>9, <2>1, <2>7
    <3>2. CASE Asks(sym) = {}
      <4>1. nodes'[sym].parent = PlaceFor(st) /\ nodes'[sym].weak = FALSE /\ sym \in DOMAIN nodes'
        BY <2>2, <2>3, <2>7, <3>2 DEF Settles
      <4>2. FirstPlace(g, sym)'
        <5>1. n + 1 \in Asks(sym)' /\ \A j \in Asks(sym)' : n + 1 <= j
          BY <1>2, <3>1, <3>2
        <5> QED
          BY <2>5, <3>1, <4>1, <5>1
      <4> QED
        BY <1>7, <3>1, <4>1, <4>2
    <3>3. CASE Asks(sym) # {}
      <4>1. SameAt(nodes, nodes', sym) /\ sym \in DOMAIN nodes'
        BY <2>2, <2>3, <2>7, <3>3 DEF Settles
      <4> QED
        BY <2>2, <2>6, <3>1, <3>3, <4>1 DEF SameAt
    <3> QED
      BY <3>2, <3>3
  <2>8. CASE Defining(st, sym)
    <3>1. /\ ~Asking(st, sym) /\ Asks(sym)' = Asks(sym)
          /\ Defines(sym)' = Defines(sym) \cup {n + 1}
      BY <1>9, <2>1, <2>8
    <3>2. CASE Asks(sym) = {} /\ Defines(sym) = {}
      BY <1>7, <2>2, <2>3, <2>8, <3>1, <3>2
    <3>3. CASE Asks(sym) # {} \/ Defines(sym) # {}
      <4>1. SameAt(nodes, nodes', sym) /\ sym \in DOMAIN nodes'
        BY <2>2, <2>3, <2>8, <3>3
      <4> QED
        BY <2>2, <2>6, <3>1, <3>3, <4>1 DEF SameAt
    <3> QED
      BY <3>2, <3>3
  <2>9. CASE ~Asking(st, sym) /\ ~Defining(st, sym)
    <3>1. Asks(sym)' = Asks(sym) /\ Defines(sym)' = Defines(sym) /\ Untouched(nodes', sym)
      BY <2>1, <2>3, <2>9
    <3> QED
      BY <2>2, <2>6, <3>1 DEF Untouched, SameAt
  <2> QED
    BY <2>7, <2>8, <2>9
<1>11. ASSUME NEW sym \in Symbols
       PROVE  Standing(g, sym)'
  BY <1>10 DEF Standing
<1>12. Stands(g)'
  BY <1>2, <1>5, <1>6, <1>11 DEF Stands
<1> QED
  BY <1>2, <1>12 DEF Clean

LEMMA LinesAreNamed ==
  ASSUME NEW st \in Line
  PROVE  WellNamed(st)
BY LinesAssumption DEF Line, WellNamed

(* Once there is an error, or the reading is over, nothing is claimed.     *)
LEMMA NothingToShow ==
  ASSUME IInv', status' \in {"parsing", "skipping", "rejected", "aborted"},
         errors' # 0 \/ status' \in {"rejected", "aborted"}
  PROVE  StandInv'
BY DEF StandInv

LEMMA LinesStand ==
  ASSUME StandInv, IInv', NEW st \in Line,
         \/ BasicStatement(st) \/ MainmenuName(st) \/ OpenIf(st) \/ Else(st) \/ CloseIf(st)
         \/ OpenMenu(st) \/ CloseMenu(st) \/ TestStatement(st)
  PROVE  StandInv'
<1>1. /\ status = "parsing" /\ status' = "parsing" /\ script' = Append(script, st)
      /\ errors' \in {errors, errors + 1} /\ errors \in Nat
  BY DEF BasicStatement, MainmenuName, OpenIf, Else, CloseIf, OpenMenu, CloseMenu, TestStatement,
         Read, NextLine, StandInv, IInv
<1>2. CASE errors' # 0
  BY <1>1, <1>2, NothingToShow
<1>3. CASE errors' = 0
  <2>1. errors = 0 /\ WellNamed(st)
    BY <1>1, <1>3, LinesAreNamed
  <2>2. /\ Known(nodes) /\ menu_stack \in Seq(MenuNames) /\ Len(menu_stack) > 0 /\ Len(menu_stack) \in Nat
    BY <1>1, <2>1 DEF StandInv, Clean, IInv, StacksFollow
  <2>3. TopOf(menu_stack) # None
    <3>1. TopOf(menu_stack) \in MenuNames
      BY <2>2 DEF TopOf
    <3> QED
      BY <3>1, NamesAssumption DEF MenuNames, Start, None
  <2>4. /\ Known(nodes') /\ (\A sym \in Symbols : Effect(st, nodes', sym))
        /\ menu_stack' = OpenAfter(menu_stack, st) /\ menu_stack' \in Seq(MenuNames)
    <3>1. CASE BasicStatement(st)
      <4>1. st.kind \in Basic /\ nodes' = Declared(st) /\ menu_stack' = menu_stack
        BY <3>1 DEF BasicStatement
      <4>2. OpenAfter(menu_stack, st) = menu_stack
        BY <4>1 DEF OpenAfter, Basic, Dep
      <4>3. Known(Declared(st)) /\ \A sym \in Symbols : Effect(st, Declared(st), sym)
        BY <2>1, <2>2, <2>3, <4>1, DeclaredNodes
      <4> QED
        BY <2>2, <4>1, <4>2, <4>3
    <3>2. CASE MainmenuName(st) \/ OpenIf(st) \/ Else(st) \/ CloseIf(st) \/ TestStatement(st)
      <4>1. /\ st.kind \in {"mainmenu_name", "if", "else", "fi", "test"} /\ menu_stack' = menu_stack
            /\ nodes' = Referenced(nodes, Mentions(st)) \/ nodes' = nodes
        BY <3>2 DEF MainmenuName, OpenIf, Else, CloseIf, TestStatement
      <4>2. OpenAfter(menu_stack, st) = menu_stack
        BY <4>1 DEF OpenAfter
      <4>3. st.kind \notin {"query", "define", "choice"} \cup Dep
        BY <4>1 DEF Dep
      <4>4. Known(nodes') /\ \A sym \in Symbols : Effect(st, nodes', sym)
        BY <2>2, <4>1, <4>3, OtherLines
      <4> QED
        BY <2>2, <4>1, <4>2, <4>4
    <3>3. CASE OpenMenu(st)
      <4> DEFINE branch == branch_new("menu", cond_copy_top(cond_stack), TopOf(menu_stack))
      <4>1. /\ st.kind = "menu" /\ menu_stack' = Append(menu_stack, st.name)
            /\ nodes' = add_compound_branch(nodes, st.name, branch, TopOf(menu_stack))
        BY <3>3 DEF OpenMenu
      <4> HIDE DEF branch
      <4>2. menu_stack' \in Seq(MenuNames)
        BY <2>1, <2>2, <4>1 DEF WellNamed, MenuNames
      <4>3. LET ms == add_compound_branch(nodes, st.name, branch, TopOf(menu_stack))
            IN  Known(ms) /\ \A sym \in Symbols : Effect(st, ms, sym)
        BY <2>1, <2>2, <4>1, MenuNodes
      <4>4. OpenAfter(menu_stack, st) = menu_stack'
        BY <4>1 DEF OpenAfter
      <4> QED
        BY <4>1, <4>2, <4>3, <4>4
    <3>4. CASE CloseMenu(st)
      <4>1. /\ st.kind = "endmenu" /\ menu_stack' = Popped(menu_stack) /\ nodes' = nodes
        BY <3>4 DEF CloseMenu
      <4>2. menu_stack' \in Seq(MenuNames)
        BY <2>2, <4>1 DEF Popped
      <4>3. st.kind \notin {"query", "define", "choice"} \cup Dep
        BY <4>1 DEF Dep
      <4>4. Known(nodes') /\ \A sym \in Symbols : Effect(st, nodes', sym)
        BY <2>2, <4>1, <4>3, OtherLines
      <4>5. OpenAfter(menu_stack, st) = menu_stack'
        BY <4>1 DEF OpenAfter
      <4> QED
        BY <4>2, <4>4, <4>5
    <3> QED
      BY <3>1, <3>2, <3>3, <3>4
  <2>5. Clean'
    BY <1>1, <2>1, <2>4, LineKeeps
  <2> QED
    BY <1>1, <2>5 DEF StandInv
<1> QED
  BY <1>2, <1>3

LEMMA ErrorsStand ==
  ASSUME StandInv, IInv', NEW st,
         UnbalancedEndmenu(st) \/ SyntaxError(st) \/ BadNumber(st) \/ DropLine(st) \/ PrematureEnd
  PROVE  StandInv'
<1>1. errors \in Nat /\ errors' \in Nat
  BY DEF StandInv, IInv
<1>2. CASE DropLine(st)
  <2>1. errors' # 0 /\ status' = "parsing"
    BY <1>2 DEF DropLine, StandInv, IInv
  <2> QED
    BY <2>1, NothingToShow
<1>3. CASE UnbalancedEndmenu(st) \/ SyntaxError(st) \/ BadNumber(st) \/ PrematureEnd
  <2>1. errors' = errors + 1
    BY <1>3 DEF UnbalancedEndmenu, SyntaxError, BadNumber, PrematureEnd
  <2>2. status' \in {"parsing", "skipping", "rejected"}
    BY <1>3 DEF UnbalancedEndmenu, SyntaxError, BadNumber, PrematureEnd, Rejected, Read
  <2>3. errors' # 0
    BY <1>1, <2>1
  <2> QED
    BY <2>2, <2>3, NothingToShow
<1> QED
  BY <1>2, <1>3

LEMMA EndStands ==
  ASSUME StandInv, IInv', EndOfFile
  PROVE  StandInv'
<1>1. /\ status = "parsing" /\ UNCHANGED <<nodes, errors, script>>
      /\ status' \in {"accepted", "rejected", "aborted"}
      /\ status' = "accepted" => errors = 0
  BY DEF EndOfFile
<1>2. CASE status' # "accepted"
  BY <1>1, <1>2, NothingToShow
<1>3. CASE status' = "accepted"
  <2>1. Clean
    BY <1>1, <1>3 DEF StandInv
  <2>2. PICK f : Stands(f)
    BY <2>1 DEF Clean
  <2>3. Opened(f)'
    BY <1>1, <2>2 DEF Stands, Opened
  <2>4. ASSUME NEW sym \in Symbols
        PROVE  Standing(f, sym)'
    <3>1. Standing(f, sym)
      BY <2>2 DEF Stands
    <3> QED
      BY <1>1, <3>1 DEF Standing, FirstPlace, Forward, Asks, Defines, PlaceIn
  <2>5. Stands(f)'
    BY <1>3, <2>3, <2>4 DEF Stands
  <2>6. Clean'
    BY <1>1, <1>3, <2>1, <2>5 DEF Clean
  <2> QED
    BY <1>1, <1>3, <2>6 DEF StandInv
<1> QED
  BY <1>2, <1>3

(* Before the first line no symbol is known.                               *)
LEMMA FirstStands ==
  ASSUME ParseInit, IInv
  PROVE  StandInv
<1>1. /\ script = <<>> /\ menu_stack = <<Start>> /\ status = "parsing" /\ errors = 0
      /\ nodes = [n \in {Start} |-> mn_new("menu")]
  BY DEF ParseInit
<1>2. script \in Seq(Line) /\ Len(script) = 0 /\ menu_stack \in Seq(MenuNames)
  BY <1>1 DEF MenuNames
<1>3. Known(nodes)
  BY <1>1 DEF Known, Fields, mn_new
<1> DEFINE f == [i \in {0} |-> <<Start>>]
<1>4. f[0] = <<Start>>
  OBVIOUS
<1> HIDE DEF f
<1>5. Opened(f) /\ f[Len(script)] = menu_stack
  BY <1>1, <1>2, <1>4 DEF Opened
<1>6. ASSUME NEW sym \in Symbols
      PROVE  Standing(f, sym)
  <2>1. Asks(sym) = {} /\ Defines(sym) = {}
    BY <1>2 DEF Asks, Defines
  <2>2. sym \notin DOMAIN nodes
    BY <1>1, NamesAssumption
  <2> QED
    BY <2>1, <2>2 DEF Standing
<1>7. Stands(f)
  BY <1>5, <1>6 DEF Stands
<1> QED
  BY <1>1, <1>2, <1>3, <1>7 DEF StandInv, Clean

(* Where the symbols stand, in every state without an error.               *)
THEOREM StandInvariance == ParseSpec => []StandInv
<1>1. ParseInit /\ IInv => StandInv
  BY FirstStands
<1>2. StandInv /\ IInv' /\ [ParseNext]_parseVars => StandInv'
  <2>1. SUFFICES ASSUME StandInv, IInv', [ParseNext]_parseVars
                 PROVE  StandInv'
    OBVIOUS
  <2>2. CASE EndOfFile
    BY <2>1, <2>2, EndStands
  <2>3. CASE PrematureEnd
    BY <2>1, <2>3, ErrorsStand
  <2>4. CASE ReadLine
    <3>1. PICK st \in Line :
            \/ BasicStatement(st) \/ MainmenuName(st) \/ OpenIf(st) \/ Else(st) \/ CloseIf(st)
            \/ OpenMenu(st) \/ CloseMenu(st) \/ UnbalancedEndmenu(st) \/ TestStatement(st)
            \/ SyntaxError(st) \/ BadNumber(st) \/ DropLine(st)
      BY <2>4 DEF ReadLine, Line
    <3>2. CASE \/ BasicStatement(st) \/ MainmenuName(st) \/ OpenIf(st) \/ Else(st) \/ CloseIf(st)
               \/ OpenMenu(st) \/ CloseMenu(st) \/ TestStatement(st)
      BY <2>1, <3>2, LinesStand
    <3>3. CASE UnbalancedEndmenu(st) \/ SyntaxError(st) \/ BadNumber(st) \/ DropLine(st)
      BY <2>1, <3>3, ErrorsStand
    <3> QED
      BY <3>1, <3>2, <3>3
  <2>5. CASE UNCHANGED parseVars
    <3>1. /\ UNCHANGED <<nodes, menu_stack, errors, status, script>>
      BY <2>5 DEF parseVars
    <3>2. Clean => Clean'
      <4>1. SUFFICES ASSUME Clean
                     PROVE  Clean'
        OBVIOUS
      <4>2. PICK f : Stands(f)
        BY <4>1 DEF Clean
      <4>3. ASSUME NEW sym \in Symbols
            PROVE  Standing(f, sym)'
        BY <3>1, <4>2 DEF Stands, Standing, FirstPlace, Forward, Asks, Defines, PlaceIn
      <4>4. Stands(f)'
        BY <3>1, <4>2, <4>3 DEF Stands, Opened
      <4> QED
        BY <3>1, <4>1, <4>4 DEF Clean
    <3> QED
      BY <2>1, <3>1, <3>2 DEF StandInv
  <2> QED
    BY <2>1, <2>2, <2>3, <2>4, <2>5 DEF ParseNext
<1> QED
  BY <1>1, <1>2, Invariance, PTL DEF ParseSpec

(* MenusAt is the function that the invariant speaks of.                   *)
LEMMA MenusFollow ==
  ASSUME script \in Seq(Line), NEW f, Opened(f)
  PROVE  \A i \in 1..Len(script) : MenusAt[i] = f[i]
<1> DEFINE Is(h) == h = [i \in 0..Len(script) |-> IF i = 0 THEN <<Start>> ELSE OpenAfter(h[i - 1], script[i])]
           g == [i \in 0..Len(script) |-> f[i]]
           open == CHOOSE h : Is(h)
<1>1. Len(script) \in Nat
  OBVIOUS
<1>2. ASSUME NEW i \in 0..Len(script)
      PROVE  g[i] = IF i = 0 THEN <<Start>> ELSE OpenAfter(g[i - 1], script[i])
  <2>1. CASE i = 0
    BY <2>1 DEF Opened
  <2>2. CASE i # 0
    <3>1. i \in 1..Len(script) /\ i - 1 \in 0..Len(script)
      BY <1>1, <2>2
    <3> QED
      BY <2>2, <3>1 DEF Opened
  <2> QED
    BY <2>1, <2>2
<1>3. Is(g)
  BY <1>2
<1>4. Is(open)
  <2> HIDE DEF g, Is
  <2> QED
    BY <1>3
<1>5. MenusAt = open
  BY DEF MenusAt
<1> HIDE DEF open
<1>6. \A i \in 0..Len(script) : open[i] = IF i = 0 THEN <<Start>> ELSE OpenAfter(open[i - 1], script[i])
  BY <1>4
<1> DEFINE S == {i \in Nat : i <= Len(script) => open[i] = f[i]}
<1>7. 0 \in S
  <2>1. 0 \in 0..Len(script)
    BY <1>1
  <2> QED
    BY <1>6, <2>1 DEF Opened
<1>8. ASSUME NEW i \in Nat, i \in S
      PROVE  i + 1 \in S
  <2>1. SUFFICES ASSUME i + 1 <= Len(script)
                 PROVE  open[i + 1] = f[i + 1]
    OBVIOUS
  <2>2. /\ i + 1 \in 0..Len(script) /\ i + 1 \in 1..Len(script) /\ (i + 1) - 1 = i
        /\ i + 1 # 0 /\ i <= Len(script)
    BY <1>1, <2>1
  <2>3. open[i] = f[i]
    BY <1>8, <2>2
  <2>4. open[i + 1] = OpenAfter(open[i], script[i + 1])
    BY <1>6, <2>2
  <2>5. f[i + 1] = OpenAfter(f[i], script[i + 1])
    BY <2>2 DEF Opened
  <2> QED
    BY <2>3, <2>4, <2>5
<1>9. \A i \in Nat : i \in S
  <2> HIDE DEF S
  <2> QED
    BY <1>7, <1>8, Induction
<1> QED
  BY <1>1, <1>5, <1>9

(* At the end of the first pass over a script, whatever its lines and its  *)
(* names, a symbol stands in the menu or choice that asks for it first,    *)
(* unless it was mentioned before it was declared.                         *)
THEOREM StandWhereAsked == ParseSpec => []StandsWhereAsked
<1>1. StandInv => StandsWhereAsked
  <2>1. SUFFICES ASSUME StandInv, status \in {"accepted", "converted"},
                        NEW sym \in Symbols, NEW i \in Asks(sym),
                        \A j \in Asks(sym) : i <= j, ~Forward(sym)
                 PROVE  nodes[sym].parent = Places[i]
    BY DEF StandsWhereAsked
  <2>2. Clean
    BY <2>1 DEF StandInv
  <2>3. PICK f : Stands(f)
    BY <2>2 DEF Clean
  <2>4. script \in Seq(Line) /\ i \in 1..Len(script) /\ Asks(sym) \subseteq Nat
    BY <2>2 DEF Clean, Asks
  <2>5. FirstPlace(f, sym)
    BY <2>1, <2>3 DEF Stands, Standing
  <2>6. PICK k \in Asks(sym) : (\A j \in Asks(sym) : k <= j) /\ nodes[sym].parent = PlaceIn(f, k)
    BY <2>5 DEF FirstPlace
  <2>7. k = i
    BY <2>1, <2>4, <2>6
  <2>8. MenusAt[i] = f[i]
    BY <2>3, <2>4, MenusFollow DEF Stands
  <2> QED
    BY <2>4, <2>6, <2>7, <2>8 DEF Places, PlaceIn
<1> QED
  BY <1>1, StandInvariance, PTL

-----------------------------------------------------------------------------
(* cml-check. The counter is set back for each file and what the parts     *)
(* return says less than it. How the accounts of what went wrong stand to  *)
(* each other depends on the part that comes next: from when a file has    *)
(* been opened until the next one is, an error was reported of it exactly  *)
(* if the counter is not 0; what it holds before that says nothing.        *)
CheckTyped ==
  /\ Len(files) \in Nat \ {0} /\ nth \in 0..Len(files)
  /\ message_count \in Nat
  /\ stage \in {"main", "open", "yyparse", "cml1_pass2", "post_parse", "test", "count", "exit", "dead"}
  /\ blamed \subseteq 1..nth /\ reported \subseteq 0..nth

Accounts ==
  /\ stage # "exit" => (0 \notin reported) /\ (ret = 2 <=> blamed # {}) /\ ret \in {0, 2}
  /\ stage = "main" => blamed = reported
  /\ stage \in {"open", "yyparse", "cml1_pass2", "post_parse", "test", "count"} =>
       /\ nth > 0 /\ nth \notin blamed
       /\ blamed = reported \ {nth}
  /\ stage \in {"open", "yyparse", "cml1_pass2"} => nth \notin reported
  /\ stage \in {"yyparse", "cml1_pass2"} => message_count = 0
  /\ stage \in {"cml1_pass2", "post_parse"} => ~failed
  /\ stage \in {"post_parse", "test", "count"} => (nth \in reported <=> message_count > 0)
  /\ stage \in {"test", "count"} => (failed => message_count > 0)
  /\ ExitTellsErrors /\ BlamesTheFile

CheckInv == CheckTyped /\ Accounts

LEMMA CheckStarts == CheckInit => CheckInv
<1> SUFFICES ASSUME CheckInit PROVE CheckInv
  OBVIOUS
<1>1. PICK n \in 1..MaxFiles : files \in [1..n -> Paths]
  BY DEF CheckInit
<1>2. n \in Nat /\ n > 0
  BY <1>1, CallBoundsAssumption
<1>3. Len(files) = n
  BY <1>1, <1>2
<1> QED
  BY <1>2, <1>3 DEF CheckInit, CheckInv, CheckTyped, Accounts, ExitTellsErrors, BlamesTheFile

(* An error of the file that is read is counted, too.                      *)
LEMMA ReportsCounted ==
  ASSUME CheckTyped, NEW n \in 0..MaxErrors, NEW what \in 0..nth, Reporting(n, what)
  PROVE  /\ message_count' \in Nat /\ message_count' >= message_count
         /\ message_count' # message_count <=> n > 0
         /\ message_count' > 0 <=> message_count > 0 \/ n > 0
         /\ reported' \subseteq 0..nth
         /\ what \in reported' <=> what \in reported \/ n > 0
         /\ reported' \ {what} = reported \ {what}
<1>1. n \in Nat /\ message_count \in Nat /\ message_count' = message_count + n
  BY CallBoundsAssumption DEF CheckTyped, Reporting
<1>2. reported' = IF n > 0 THEN reported \cup {what} ELSE reported
  BY DEF Reporting
<1> QED
  BY <1>1, <1>2 DEF CheckTyped

LEMMA CheckKeeps == CheckInv /\ [CheckNext]_checkVars => CheckInv'
<1> SUFFICES ASSUME CheckInv, [CheckNext]_checkVars PROVE CheckInv'
  OBVIOUS
<1> USE DEF CheckInv, Accounts, ExitTellsErrors, BlamesTheFile
<1>0. Len(files) \in Nat /\ nth \in Nat /\ message_count \in Nat
  BY DEF CheckTyped
<1>1. CASE cml_rulebase_parse
  <2>1. nth' = nth + 1 /\ nth' \in 0..Len(files) /\ nth' \notin reported /\ nth' \notin blamed
    BY <1>0, <1>1 DEF cml_rulebase_parse, CheckTyped
  <2> QED BY <1>0, <1>1, <2>1 DEF cml_rulebase_parse, CheckTyped
<1>2. CASE CannotOpen
  <2>1. stage = "open" /\ nth \in 0..nth /\ nth > 0
    BY <1>0, <1>2 DEF CannotOpen
  <2>2. message_count' = message_count + 1 /\ reported' = reported \cup {nth}
    BY <1>2 DEF CannotOpen, Reporting
  <2> QED BY <1>0, <1>2, <2>1, <2>2 DEF CannotOpen, CheckTyped
<1>3. CASE OpensFile
  BY <1>3 DEF OpensFile, CheckTyped
<1>4. CASE Parses
  <2>1. PICK n \in 0..MaxErrors, gave_up \in BOOLEAN :
          /\ gave_up => n > 0
          /\ Reporting(n, nth)
          /\ failed' = (gave_up \/ message_count' > 0)
    BY <1>4 DEF Parses
  <2>2. stage = "yyparse" /\ nth \in 0..nth /\ nth > 0 /\ message_count = 0
    BY <1>0, <1>4 DEF Parses
  <2>3. /\ message_count' \in Nat
        /\ message_count' > 0 <=> n > 0
        /\ reported' \subseteq 0..nth
        /\ nth \in reported' <=> n > 0
        /\ reported' \ {nth} = reported \ {nth}
    BY <2>1, <2>2, ReportsCounted
  <2>4. failed' => message_count' > 0
    BY <2>1, <2>3
  <2>5. /\ UNCHANGED <<files, nth, ret, blamed>>
        /\ stage' \in {"test", "cml1_pass2"}
        /\ stage' = "cml1_pass2" => ~failed'
    BY <1>4 DEF Parses
  <2>6. message_count' > 0 => failed'
    BY <2>1
  <2>7. stage' = "cml1_pass2" => message_count' = 0
    BY <2>3, <2>5, <2>6
  <2>8. 0 \notin reported'
    BY <2>2, <2>3
  <2> QED BY <2>2, <2>3, <2>4, <2>5, <2>7, <2>8 DEF CheckTyped
<1>5. CASE Pass2 \/ PostParse
  <2>1. PICK n \in 0..MaxErrors : Reporting(n, nth)
    BY <1>5 DEF Pass2, PostParse
  <2>2. stage \in {"cml1_pass2", "post_parse"} /\ nth \in 0..nth /\ nth > 0
    BY <1>0, <1>5 DEF Pass2, PostParse
  <2>3. /\ message_count' \in Nat
        /\ message_count' # message_count <=> n > 0
        /\ message_count' > 0 <=> message_count > 0 \/ n > 0
        /\ reported' \subseteq 0..nth
        /\ nth \in reported' <=> nth \in reported \/ n > 0
        /\ reported' \ {nth} = reported \ {nth}
    BY <2>1, <2>2, ReportsCounted
  <2>4. 0 \notin reported'
    BY <2>2, <2>3
  <2>5. nth \in reported <=> message_count > 0
    BY <1>0, <2>2
  <2>6. CASE Pass2
    BY <2>2, <2>3, <2>4, <2>5, <2>6 DEF Pass2, CheckTyped
  <2>7. CASE PostParse
    BY <2>2, <2>3, <2>4, <2>5, <2>7 DEF PostParse, CheckTyped
  <2> QED BY <1>5, <2>6, <2>7
<1>6. CASE RunsTest
  <2>1. stage = "test" /\ nth \in 0..nth /\ nth > 0
    BY <1>0, <1>6 DEF RunsTest
  <2>2. CASE ~parsetest
    BY <1>6, <2>1, <2>2 DEF RunsTest, CheckTyped
  <2>3. CASE parsetest
    <3>1. PICK n \in 0..MaxErrors, passed \in BOOLEAN :
            /\ ~passed => n > 0
            /\ Reporting(n, nth)
            /\ failed' = (failed \/ ~passed)
      BY <1>6, <2>3 DEF RunsTest
    <3>2. /\ message_count' \in Nat
          /\ message_count' > 0 <=> message_count > 0 \/ n > 0
          /\ reported' \subseteq 0..nth
          /\ nth \in reported' <=> nth \in reported \/ n > 0
          /\ reported' \ {nth} = reported \ {nth}
      BY <2>1, <3>1, ReportsCounted
    <3>3. failed' => message_count' > 0
      <4>1. failed' => failed \/ n > 0
        BY <3>1
      <4>2. failed => message_count > 0
        BY <2>1
      <4> QED BY <3>2, <4>1, <4>2
    <3>5. 0 \notin reported'
      BY <2>1, <3>2
    <3>4. stage' = "count" /\ UNCHANGED <<files, nth, ret, blamed>>
      BY <1>6 DEF RunsTest
    <3> QED BY <2>1, <3>2, <3>3, <3>4, <3>5 DEF CheckTyped
  <2> QED BY <2>2, <2>3
<1>7. CASE Returns
  <2>1. stage = "count" /\ nth \in 0..nth /\ nth > 0 /\ stage' = "main" /\ UNCHANGED <<files, nth>>
    BY <1>0, <1>7 DEF Returns
  <2>2. failed' <=> nth \in reported
    BY <1>0, <1>7, <2>1 DEF Returns
  <2>3. reported' = reported /\ message_count' \in Nat
    BY <1>0, <1>7, <2>1 DEF Returns, Reporting
  <2>4. blamed' = reported' /\ (ret' = 2 <=> blamed' # {}) /\ ret' \in {0, 2}
    BY <1>7, <2>1, <2>2, <2>3 DEF Returns
  <2> QED BY <2>1, <2>3, <2>4 DEF CheckTyped
<1>8. CASE Exits
  <2>1. stage = "main" /\ stage' = "exit" /\ UNCHANGED <<files, nth, blamed>>
    BY <1>8 DEF Exits
  <2>2. CASE ~merge_mode
    BY <1>8, <2>1, <2>2 DEF Exits, CheckTyped
  <2>3. CASE merge_mode
    <3>1. PICK n \in 0..MaxErrors :
            Reporting(n, 0)
      BY <1>8, <2>3 DEF Exits
    <3>2. ret' = IF message_count' # message_count THEN 2 ELSE ret
      BY <1>8, <2>3 DEF Exits
    <3>3. /\ message_count' \in Nat
          /\ message_count' # message_count <=> n > 0
          /\ reported' \subseteq 0..nth
          /\ 0 \in reported' <=> 0 \in reported \/ n > 0
          /\ reported' \ {0} = reported \ {0}
      BY <1>0, <3>1, ReportsCounted
    <3> QED BY <2>1, <3>2, <3>3 DEF CheckTyped
  <2> QED BY <2>2, <2>3
<1>9. CASE Crashes
  BY <1>9 DEF Crashes, CheckTyped
<1>10. CASE UNCHANGED checkVars
  BY <1>10 DEF checkVars, CheckTyped
<1> QED
  BY <1>1, <1>2, <1>3, <1>4, <1>5, <1>6, <1>7, <1>8, <1>9, <1>10 DEF CheckNext

THEOREM CheckInvariance == CheckSpec => []CheckInv
BY CheckStarts, CheckKeeps, PTL DEF CheckSpec

(* For any number of files and of errors in them, cml-check exits with 2   *)
(* exactly when an error was reported, although the counter that has the   *)
(* last word (rulebase.c:147) is set back for every file that is opened.   *)
THEOREM StatusTellsErrors == CheckSpec => []ExitTellsErrors
BY CheckInvariance, PTL DEF CheckInv, Accounts

(* "failed to load rulebase" is said of the files in which an error was    *)
(* reported and of no other: no file is blamed for one before it, whose    *)
(* errors the counter still held when it was opened.                       *)
THEOREM FilesAreBlamed == CheckSpec => []BlamesTheFile
BY CheckInvariance, PTL DEF CheckInv, Accounts
=============================================================================
