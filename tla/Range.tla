-------------------------------- MODULE Range -------------------------------
(***************************************************************************)
(* A range of numbers, as a rulebase declares one for a symbol             *)
(* (libcml/range.c): a list of subranges built by calling range_add() for  *)
(* each subrange that the parser reads (subrange_list in cml2_parser.y),   *)
(* or for each command of the program rangetest.                           *)
(*                                                                         *)
(* Numbers are unsigned longs: Succ wraps around.                          *)
(***************************************************************************)
EXTENDS Integers, Sequences, FiniteSets, Functions

CONSTANT ULONG_MAX

ASSUME UlongMaxAssumption == ULONG_MAX \in Nat \ {0}

Numbers == 0..ULONG_MAX

Succ(x) == IF x = ULONG_MAX THEN 0 ELSE x + 1

Subrange == [begin : Numbers, end : Numbers]

VARIABLES
  subranges,    \* the list
  added,        \* history: the numbers of every subrange added since the last delete
  crashed       \* an assertion of range_add() failed

range_vars == <<subranges, added, crashed>>
-----------------------------------------------------------------------------
in_subrange(sr, x) == sr.begin <= x /\ x <= sr.end

\* range_check()
range_check(r, x) == \E k \in DOMAIN r : in_subrange(r[k], x)

Members(r) == {x \in Numbers : range_check(r, x)}

\* range_count(): the sum is an unsigned long too.
range_count(r) ==
  LET size == [k \in DOMAIN r |-> r[k].end - r[k].begin + 1]
  IN  FoldFunction(+, 0, size) % (ULONG_MAX + 1)

(***************************************************************************)
(* range_add(r, b, e) for a list that is not empty. The first loop stops   *)
(* at the first subrange that b is in, just after or before.               *)
(***************************************************************************)
Stops(sr, b) == in_subrange(sr, b) \/ b = Succ(sr.end) \/ b < sr.begin

Stopping(r, b) == {k \in DOMAIN r : Stops(r[k], b)}

LeastOf(S) == CHOOSE k \in S : \A j \in S : k <= j

\* A new subrange is inserted before the one where the loop stopped.
Inserts(sr, b) == ~in_subrange(sr, b) /\ b # Succ(sr.end)

\* `first`: the subrange that begins the one added, extended or inserted.
First(sr, b) ==
  IF Inserts(sr, b) THEN [begin |-> b, end |-> b]
  ELSE IF in_subrange(sr, b) THEN sr
  ELSE [sr EXCEPT !.end = Succ(@)]

(***************************************************************************)
(* The second loop goes on from there and merges each subrange into first, *)
(* up to one that begins more than one number after e. If there is one,    *)
(* first ends at e, whatever it had reached; if there is none it ends at   *)
(* the last subrange's end or at e, whichever is greater.                  *)
(***************************************************************************)
\* Bugs to look for: the bound of the merge is one number short, or one far.
BeyondEnd(r, k, e) == {j \in k..Len(r) : e < r[j].begin}
BeyondGap(r, k, e) == {j \in k..Len(r) : Succ(Succ(e)) < r[j].begin}

Beyond(r, k, e) == {j \in k..Len(r) : Succ(e) < r[j].begin}

Reaches(x, e) == IF x < e THEN e ELSE x

Extended(r, k, b, e) ==
  LET sr == r[k]
      first == First(sr, b)
      next == IF Inserts(sr, b) THEN k ELSE k + 1
      beyond == Beyond(r, k, e)
      stop == LeastOf(beyond)
      kept == IF beyond = {} THEN Len(r) + 1 ELSE IF stop < next THEN next ELSE stop
      last == IF next <= Len(r) THEN r[Len(r)].end ELSE first.end
      end == IF beyond = {} THEN Reaches(last, e) ELSE e
  IN  SubSeq(r, 1, k - 1) \o <<[first EXCEPT !.end = end]>> \o SubSeq(r, kept, Len(r))

Added(r, b, e) ==
  IF Stopping(r, b) = {} THEN Append(r, [begin |-> b, end |-> e])
  ELSE Extended(r, LeastOf(Stopping(r, b)), b, e)

\* assert(in_subrange(first, begin))
AddAsserts(r, b) ==
  Stopping(r, b) # {} => in_subrange(First(r[LeastOf(Stopping(r, b))], b), b)
-----------------------------------------------------------------------------
RangeInit == subranges = <<>> /\ added = {} /\ crashed = FALSE

range_add(b, e) ==
  /\ ~crashed
  /\ IF AddAsserts(subranges, b)
     THEN /\ subranges' = Added(subranges, b, e)
          /\ added' = added \union (b..e)
          /\ UNCHANGED crashed
     ELSE crashed' = TRUE /\ UNCHANGED <<subranges, added>>

range_delete ==
  /\ ~crashed
  /\ subranges' = <<>> /\ added' = {}
  /\ UNCHANGED crashed

\* Every subrange the grammar accepts: it compares neither bound with the
\* other nor with the largest number.
RangeNext == range_delete \/ \E b, e \in Numbers : range_add(b, e)

RangeSpec == RangeInit /\ [][RangeNext]_range_vars

\* The subranges that range_add() was written for.
TidyNext == range_delete \/ \E b \in Numbers : \E e \in b..ULONG_MAX - 1 : range_add(b, e)

TidySpec == RangeInit /\ [][TidyNext]_range_vars
-----------------------------------------------------------------------------
\* The state has its types; under TidySpec no subrange reaches ULONG_MAX, so
\* that no end wraps around, and no assertion fails.
RangeTypeOK ==
  /\ subranges \in Seq([begin : Numbers, end : 0..ULONG_MAX - 1])
  /\ added \subseteq Numbers
  /\ crashed = FALSE

\* The list is in the form that range_add()'s loops and range_count() rely
\* on: subranges ascend and leave at least one number between them.
SubrangesApart ==
  /\ \A k \in DOMAIN subranges : subranges[k].begin <= subranges[k].end
  /\ \A j, k \in DOMAIN subranges : j < k => subranges[j].end + 1 < subranges[k].begin

\* Merging invents nothing: range_check() accepts only numbers of some
\* subrange that was added.
OnlyAdded == Members(subranges) \subseteq added

\* After range_add(b, e) every number of b..e is accepted, however many
\* subranges were extended or merged for it.
AddedIsIn ==
  [][\A b \in Numbers : \A e \in b..ULONG_MAX - 1 :
       range_add(b, e) => b..e \subseteq Members(subranges')]_range_vars
=============================================================================
