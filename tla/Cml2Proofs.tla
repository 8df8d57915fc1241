------------------------------ MODULE Cml2Proofs ------------------------------
(***************************************************************************)
(* What the CML2 parser makes of a rulebase, for every rulebase and every  *)
(* set of names: that what it accepts is whole and has the rules that the  *)
(* dependencies come to, and that rules are located where they were read.  *)
(* What a statement keeps of a rulebase (Kept) is shown statement by       *)
(* statement, then the invariant IInv step by step. The last part is about *)
(* ranges.                                                                 *)
(***************************************************************************)
EXTENDS Cml2Check, Range, SequenceTheorems, FiniteSetTheorems, WellFoundedInduction, TLAPS

TreeTypes == {"unknown", "symbol", "menu", "explanation", "derived"}

NodeShape(mn) ==
  /\ mn.treetype \in TreeTypes
  /\ mn = [treetype |-> mn.treetype, value_type |-> mn.value_type, parent |-> mn.parent,
           children |-> mn.children, radio |-> mn.radio, expr |-> mn.expr,
           visibility_expr |-> mn.visibility_expr, saveability_expr |-> mn.saveability_expr,
           expr_count |-> mn.expr_count, dependees |-> mn.dependees, seen |-> mn.seen,
           rules_using |-> mn.rules_using]

NodesShape(nodes) ==
  /\ nodes = [n \in Names |-> nodes[n]]
  /\ \A n \in Names : NodeShape(nodes[n])

RbShape(r) ==
  /\ r = [nodes |-> r.nodes, rules |-> r.rules, start |-> r.start, start_loc |-> r.start_loc,
          start_place |-> r.start_place, banner |-> r.banner, icon |-> r.icon,
          conditions |-> r.conditions, test_script |-> r.test_script, parsetest |-> r.parsetest,
          errors |-> r.errors, aborted |-> r.aborted]
  /\ NodesShape(r.nodes)
  /\ r.errors \in BOOLEAN /\ r.aborted \in BOOLEAN
  /\ r.start \in Names \cup {None}

(* All but the nodes, the errors and what has no part in the properties.   *)
SameRest(r, q) ==
  /\ q.rules = r.rules /\ q.start = r.start /\ q.start_loc = r.start_loc
  /\ q.start_place = r.start_place

LEMMA NewNodes ==
  ASSUME NEW r, RbShape(r), NEW N, NodesShape(N)
  PROVE  /\ RbShape([r EXCEPT !.nodes = N])
         /\ [r EXCEPT !.nodes = N].nodes = N
         /\ SameRest(r, [r EXCEPT !.nodes = N])
         /\ [r EXCEPT !.nodes = N].errors = r.errors
         /\ [r EXCEPT !.nodes = N].aborted = r.aborted
<1> DEFINE q == [r EXCEPT !.nodes = N]
<1>1. /\ r = [nodes |-> r.nodes, rules |-> r.rules, start |-> r.start, start_loc |-> r.start_loc,
          start_place |-> r.start_place, banner |-> r.banner, icon |-> r.icon,
          conditions |-> r.conditions, test_script |-> r.test_script, parsetest |-> r.parsetest,
          errors |-> r.errors, aborted |-> r.aborted]
      /\ r.errors \in BOOLEAN /\ r.aborted \in BOOLEAN /\ r.start \in Names \cup {None}
  BY DEF RbShape
<1>2. q = [nodes |-> N, rules |-> r.rules, start |-> r.start, start_loc |-> r.start_loc,
          start_place |-> r.start_place, banner |-> r.banner, icon |-> r.icon,
          conditions |-> r.conditions, test_script |-> r.test_script, parsetest |-> r.parsetest,
          errors |-> r.errors, aborted |-> r.aborted]
  BY <1>1
<1> HIDE DEF q
<1>3. RbShape(q)
  BY <1>1, <1>2 DEF RbShape
<1>4. q.nodes = N /\ SameRest(r, q) /\ q.errors = r.errors /\ q.aborted = r.aborted
  BY <1>2 DEF SameRest
<1>5. QED
  BY <1>3, <1>4 DEF q

LEMMA CountedNodes ==
  ASSUME NEW r, RbShape(r), NEW e
  PROVE  /\ RbShape(Counted(r, e)) /\ SameRest(r, Counted(r, e))
         /\ Counted(r, e).errors = r.errors /\ Counted(r, e).aborted = r.aborted
<1> DEFINE N == [n \in Names |-> IF n \in expr_symbols(e) THEN [r.nodes[n] EXCEPT !.expr_count = 1] ELSE r.nodes[n]]
<1>1. NodesShape(N)
  <2> SUFFICES ASSUME NEW n \in Names PROVE NodeShape(N[n])
    BY DEF NodesShape
  <2>1. NodeShape(r.nodes[n])
    BY DEF RbShape, NodesShape
  <2>2. QED
    BY <2>1 DEF NodeShape
<1> HIDE DEF N
<1>2. Counted(r, e) = [r EXCEPT !.nodes = N]
  BY DEF Counted, N
<1>3. QED
  BY <1>1, <1>2, NewNodes

-----------------------------------------------------------------------------
(* What the nodes are like as long as nothing was reported.                *)

TypedNode(mn) ==
  /\ mn.treetype \in TreeTypes
  /\ mn.value_type \in ValueTypes
  /\ mn.parent \in Names \cup {None}
  /\ mn.children \subseteq Names
  /\ mn.radio \in BOOLEAN

(* Only menus have children, only symbols and menus a parent; a symbol has *)
(* its type from the menu it is in; and a derived symbol has an expression. *)
PlacedNode(mn) ==
  /\ mn.children # {} => mn.treetype = "menu"
  /\ mn.parent # None => mn.treetype \in {"symbol", "menu"}
  /\ mn.treetype = "symbol" => (mn.parent = None <=> mn.value_type = "none")
  /\ mn.treetype \in {"unknown", "menu", "explanation"} => mn.value_type = "none"
  /\ mn.treetype = "derived" =>
       IF mn.expr.op = "symbol" THEN mn.expr.node \in Names ELSE mn.expr.type \in ValueTypes

ChosenIn(nodes, n) == nodes[n].parent # None /\ nodes[nodes[n].parent].radio

FollowsOther(nodes, n) ==
  nodes[n].treetype = "derived" /\ nodes[n].expr.op = "symbol" =>
    \/ nodes[n].value_type = "none"
    \/ ChosenIn(nodes, nodes[n].expr.node)
    \/ nodes[n].value_type = nodes[nodes[n].expr.node].value_type

Sound(nodes) ==
  \A n \in Names : TypedNode(nodes[n]) /\ PlacedNode(nodes[n]) /\ FollowsOther(nodes, n)

SoundUnlessWrong(r) == ~r.errors /\ ~r.aborted => Sound(r.nodes)

(* What a statement may be: Grammatical, with what is asked of expr_new.   *)
Fits(s) ==
  /\ Grammatical(s)
  /\ s.kind \in Expressive /\ s.expr.op # "name" =>
       \A types \in [Names -> ValueTypes] :
         expr_new(s.expr, types).op # "symbol" /\ expr_new(s.expr, types).type \in ValueTypes

(* What no statement does.                                                 *)
Kept(r, q) ==
  /\ RbShape(q)
  /\ r.errors => q.errors
  /\ r.aborted => q.aborted
  /\ SoundUnlessWrong(q)

SameNode(mn, other) ==
  /\ other.treetype = mn.treetype /\ other.value_type = mn.value_type
  /\ other.parent = mn.parent /\ other.children = mn.children
  /\ other.radio = mn.radio
  /\ mn.treetype = "derived" => other.expr = mn.expr

LEMMA SoundSame ==
  ASSUME NEW nodes, NEW others, Sound(nodes), \A n \in Names : SameNode(nodes[n], others[n])
  PROVE  Sound(others)
<1> SUFFICES ASSUME NEW n \in Names
             PROVE TypedNode(others[n]) /\ PlacedNode(others[n]) /\ FollowsOther(others, n)
  BY DEF Sound
<1>1. SameNode(nodes[n], others[n]) /\ TypedNode(nodes[n]) /\ PlacedNode(nodes[n]) /\ FollowsOther(nodes, n)
  BY DEF Sound
<1>2. TypedNode(others[n]) /\ PlacedNode(others[n])
  BY <1>1 DEF SameNode, TypedNode, PlacedNode
<1>3. FollowsOther(others, n)
  <2> SUFFICES ASSUME others[n].treetype = "derived", others[n].expr.op = "symbol",
                      others[n].value_type # "none"
               PROVE  \/ ChosenIn(others, others[n].expr.node)
                      \/ others[n].value_type = others[others[n].expr.node].value_type
    BY DEF FollowsOther
  <2>1. PICK x \in Names : x = others[n].expr.node /\ x = nodes[n].expr.node
    BY <1>1 DEF SameNode, PlacedNode
  <2>2. \/ ChosenIn(nodes, x)
        \/ nodes[n].value_type = nodes[x].value_type
    BY <1>1, <2>1 DEF SameNode, FollowsOther
  <2>3. SameNode(nodes[x], others[x])
    BY <2>1
  <2>4. ASSUME ChosenIn(nodes, x) PROVE ChosenIn(others, x)
    <3>1. PICK m \in Names : m = nodes[x].parent
      BY <2>4, NoneAssumption DEF ChosenIn, Sound, TypedNode
    <3>2. SameNode(nodes[m], others[m])
      OBVIOUS
    <3>3. QED
      BY <2>3, <2>4, <3>1, <3>2 DEF ChosenIn, SameNode
  <2>5. QED
    BY <1>1, <2>1, <2>2, <2>3, <2>4 DEF SameNode
<1>4. QED
  BY <1>2, <1>3

LEMMA CountedSame ==
  ASSUME NEW r, RbShape(r), NEW e, NEW n \in Names
  PROVE  SameNode(r.nodes[n], Counted(r, e).nodes[n])
<1>1. NodeShape(r.nodes[n])
  BY DEF RbShape, NodesShape
<1>2. r = [nodes |-> r.nodes, rules |-> r.rules, start |-> r.start, start_loc |-> r.start_loc,
          start_place |-> r.start_place, banner |-> r.banner, icon |-> r.icon,
          conditions |-> r.conditions, test_script |-> r.test_script, parsetest |-> r.parsetest,
          errors |-> r.errors, aborted |-> r.aborted]
  BY DEF RbShape
<1>3. Counted(r, e).nodes[n] = IF n \in expr_symbols(e) THEN [r.nodes[n] EXCEPT !.expr_count = 1] ELSE r.nodes[n]
  BY <1>2 DEF Counted
<1>4. QED
  BY <1>1, <1>3 DEF SameNode, NodeShape

LEMMA Errors ==
  ASSUME NEW r, RbShape(r), NEW c \in BOOLEAN
  PROVE  /\ RbShape(ErrorIf(c, r)) /\ SameRest(r, ErrorIf(c, r))
         /\ ErrorIf(c, r).nodes = r.nodes /\ ErrorIf(c, r).aborted = r.aborted
         /\ ErrorIf(c, r).errors = (r.errors \/ c)
<1> DEFINE q == [r EXCEPT !.errors = @ \/ c]
<1>1. /\ r = [nodes |-> r.nodes, rules |-> r.rules, start |-> r.start, start_loc |-> r.start_loc,
          start_place |-> r.start_place, banner |-> r.banner, icon |-> r.icon,
          conditions |-> r.conditions, test_script |-> r.test_script, parsetest |-> r.parsetest,
          errors |-> r.errors, aborted |-> r.aborted]
      /\ r.errors \in BOOLEAN /\ r.aborted \in BOOLEAN /\ NodesShape(r.nodes)
      /\ r.start \in Names \cup {None}
  BY DEF RbShape
<1>2. q = [nodes |-> r.nodes, rules |-> r.rules, start |-> r.start, start_loc |-> r.start_loc,
          start_place |-> r.start_place, banner |-> r.banner, icon |-> r.icon,
          conditions |-> r.conditions, test_script |-> r.test_script, parsetest |-> r.parsetest,
          errors |-> (r.errors \/ c), aborted |-> r.aborted]
  BY <1>1
<1> HIDE DEF q
<1>3. /\ q.nodes = r.nodes /\ q.aborted = r.aborted /\ SameRest(r, q)
  BY <1>2 DEF SameRest
<1>4. q.errors = (r.errors \/ c)
  BY <1>2, Zenon
<1>5. (r.errors \/ c) \in BOOLEAN
  BY <1>1
<1>6. RbShape(q)
  <2> DEFINE b == r.errors \/ c
  <2>1. b \in BOOLEAN
    BY <1>5
  <2>2. /\ q.start = r.start /\ q.errors = b /\ q.nodes = r.nodes
        /\ q = [nodes |-> r.nodes, rules |-> r.rules, start |-> r.start, start_loc |-> r.start_loc,
          start_place |-> r.start_place, banner |-> r.banner, icon |-> r.icon,
          conditions |-> r.conditions, test_script |-> r.test_script, parsetest |-> r.parsetest,
          errors |-> b, aborted |-> r.aborted]
    BY <1>2, <1>3, <1>4 DEF SameRest
  <2> HIDE DEF b
  <2>3. QED
    BY <1>1, <2>1, <2>2 DEF RbShape
<1>7. QED
  BY <1>3, <1>4, <1>6, Zenon DEF q, ErrorIf

LEMMA SameKept ==
  ASSUME NEW r, NEW q, RbShape(r), SoundUnlessWrong(r), RbShape(q), q.aborted = r.aborted,
         r.errors => q.errors, \A n \in Names : SameNode(r.nodes[n], q.nodes[n])
  PROVE  Kept(r, q)
BY SoundSame DEF Kept, SoundUnlessWrong

LEMMA Aborted ==
  ASSUME NEW r, RbShape(r)
  PROVE  Kept(r, Abort(r)) /\ SameRest(r, Abort(r)) /\ Abort(r).errors = r.errors /\ Abort(r).aborted
<1>1. /\ r = [nodes |-> r.nodes, rules |-> r.rules, start |-> r.start, start_loc |-> r.start_loc,
          start_place |-> r.start_place, banner |-> r.banner, icon |-> r.icon,
          conditions |-> r.conditions, test_script |-> r.test_script, parsetest |-> r.parsetest,
          errors |-> r.errors, aborted |-> r.aborted]
      /\ r.errors \in BOOLEAN /\ r.aborted \in BOOLEAN /\ NodesShape(r.nodes)
      /\ r.start \in Names \cup {None}
  BY DEF RbShape
<1> DEFINE t == TRUE
<1>2. t = TRUE /\ Abort(r) = [r EXCEPT !.aborted = t]
  BY DEF Abort
<1> HIDE DEF t
<1>3. [r EXCEPT !.aborted = t] =
         [nodes |-> r.nodes, rules |-> r.rules, start |-> r.start, start_loc |-> r.start_loc,
          start_place |-> r.start_place, banner |-> r.banner, icon |-> r.icon,
          conditions |-> r.conditions, test_script |-> r.test_script, parsetest |-> r.parsetest,
          errors |-> r.errors, aborted |-> t]
  BY <1>1
<1> DEFINE q == [r EXCEPT !.aborted = t]
<1> HIDE DEF q
<1>4. RbShape(q) /\ q.aborted = t /\ q.errors = r.errors /\ SameRest(r, q)
  BY <1>1, <1>2, <1>3 DEF RbShape, SameRest, q
<1>5. QED
  BY <1>2, <1>4, Zenon DEF Kept, SoundUnlessWrong, q

LEMMA TypesTyped ==
  ASSUME NEW nodes, Sound(nodes)
  PROVE  [n \in Names |-> nodes[n].value_type] \in [Names -> ValueTypes]
BY DEF Sound, TypedNode

LEMMA BuiltTyped ==
  ASSUME NEW r, Sound(r.nodes), NEW s, Fits(s), s.kind \in Expressive, NEW e, e = Built(r, s.expr)
  PROVE  /\ e.type \in ValueTypes
         /\ e.op = "symbol" => (e.node \in Names /\ e.type = r.nodes[e.node].value_type)
<1>1. CASE s.expr.op = "name"
  <2>1. s.expr.name \in Names
    BY <1>1 DEF Fits, Grammatical
  <2>2. e = [op |-> "symbol", type |-> r.nodes[s.expr.name].value_type, node |-> s.expr.name]
    BY <1>1 DEF Built, Symbol, Node
  <2>3. r.nodes[s.expr.name].value_type \in ValueTypes
    BY <2>1 DEF Sound, TypedNode
  <2>4. QED
    BY <2>1, <2>2, <2>3
<1>2. CASE s.expr.op # "name"
  <2>1. e = expr_new(s.expr, Types(r))
    BY <1>2 DEF Built
  <2>2. Types(r) \in [Names -> ValueTypes]
    BY TypesTyped DEF Types, Node
  <2>3. QED
    BY <1>2, <2>1, <2>2 DEF Fits
<1>3. QED
  BY <1>1, <1>2

-----------------------------------------------------------------------------
(* Statement by statement.                                                 *)

LEMMA SuppressKeeps ==
  ASSUME NEW r, RbShape(r), SoundUnlessWrong(r), NEW s
  PROVE  Kept(r, visibility_rule(r, s)) /\ SameRest(r, visibility_rule(r, s))
<1> DEFINE e == Built(r, s.expr)
           D == IF s.dependent THEN expr_symbols(e) ELSE {}
           c == Counted(r, e)
           hidden(n, mn) == [mn EXCEPT !.visibility_expr = MergedBy(s.names, n, @, e), !.dependees = @ \cup D]
           N == [n \in Names |-> IF n \in ToSet(s.names) THEN hidden(n, c.nodes[n]) ELSE c.nodes[n]]
           bad == \E n \in ToSet(s.names) : \E d \in D : ~MayDepend(r, n, d)
<1>1. visibility_rule(r, s) = IF bad THEN Abort(r) ELSE [c EXCEPT !.nodes = N]
  BY DEF visibility_rule
<1>2. /\ RbShape(c) /\ SameRest(r, c) /\ c.errors = r.errors /\ c.aborted = r.aborted
      /\ \A n \in Names : SameNode(r.nodes[n], c.nodes[n])
  BY CountedNodes, CountedSame
<1>3. \A n \in Names : NodeShape(N[n]) /\ SameNode(r.nodes[n], N[n])
  <2> HIDE DEF c
  <2> SUFFICES ASSUME NEW n \in Names PROVE NodeShape(N[n]) /\ SameNode(r.nodes[n], N[n])
    OBVIOUS
  <2>1. NodeShape(c.nodes[n]) /\ SameNode(r.nodes[n], c.nodes[n])
    BY <1>2 DEF RbShape, NodesShape
  <2>2. N[n] = IF n \in ToSet(s.names)
               THEN [c.nodes[n] EXCEPT !.visibility_expr = MergedBy(s.names, n, @, e), !.dependees = @ \cup D]
               ELSE c.nodes[n]
    OBVIOUS
  <2> HIDE DEF N, D, e
  <2>3. QED
    BY <2>1, <2>2 DEF NodeShape, SameNode
<1>4. NodesShape(N)
  <2>1. N = [n \in Names |-> N[n]]
    OBVIOUS
  <2> HIDE DEF N
  <2>2. QED
    BY <1>3, <2>1 DEF NodesShape
<1> HIDE DEF N, c, bad, D, e
<1>5. CASE bad
  BY <1>1, <1>5, Aborted
<1>6. CASE ~bad
  <2> DEFINE q == [c EXCEPT !.nodes = N]
  <2>1. /\ RbShape(q) /\ q.nodes = N /\ SameRest(c, q) /\ q.errors = c.errors /\ q.aborted = c.aborted
    BY <1>2, <1>4, NewNodes
  <2> HIDE DEF q
  <2>2. Kept(r, q) /\ SameRest(r, q)
    BY <1>2, <1>3, <2>1, SameKept DEF SameRest
  <2>3. QED
    BY <1>1, <1>6, <2>2 DEF q
<1>7. QED
  BY <1>5, <1>6

LEMMA SaveKeeps ==
  ASSUME NEW r, RbShape(r), SoundUnlessWrong(r), NEW s
  PROVE  Kept(r, saveability_rule(r, s)) /\ SameRest(r, saveability_rule(r, s))
<1> DEFINE e == Built(r, s.expr)
           c == Counted(r, e)
           saved(n, mn) == [mn EXCEPT !.saveability_expr = MergedBy(s.names, n, @, e)]
           N == [n \in Names |-> saved(n, c.nodes[n])]
<1>1. saveability_rule(r, s) = [c EXCEPT !.nodes = N]
  BY DEF saveability_rule
<1>2. /\ RbShape(c) /\ SameRest(r, c) /\ c.errors = r.errors /\ c.aborted = r.aborted
      /\ \A n \in Names : SameNode(r.nodes[n], c.nodes[n])
  BY CountedNodes, CountedSame
<1>3. \A n \in Names : NodeShape(N[n]) /\ SameNode(r.nodes[n], N[n])
  <2> HIDE DEF c
  <2> SUFFICES ASSUME NEW n \in Names PROVE NodeShape(N[n]) /\ SameNode(r.nodes[n], N[n])
    OBVIOUS
  <2>1. NodeShape(c.nodes[n]) /\ SameNode(r.nodes[n], c.nodes[n])
    BY <1>2 DEF RbShape, NodesShape
  <2>2. N[n] = [c.nodes[n] EXCEPT !.saveability_expr = MergedBy(s.names, n, @, e)]
    OBVIOUS
  <2> HIDE DEF N, e
  <2>3. QED
    BY <2>1, <2>2 DEF NodeShape, SameNode
<1>4. NodesShape(N)
  <2>1. N = [n \in Names |-> N[n]]
    OBVIOUS
  <2> HIDE DEF N
  <2>2. QED
    BY <1>3, <2>1 DEF NodesShape
<1> HIDE DEF N, c, e
<1> DEFINE q == [c EXCEPT !.nodes = N]
<1>5. /\ RbShape(q) /\ q.nodes = N /\ SameRest(c, q) /\ q.errors = c.errors /\ q.aborted = c.aborted
  BY <1>2, <1>4, NewNodes
<1> HIDE DEF q
<1>6. Kept(r, q) /\ SameRest(r, q)
  BY <1>2, <1>3, <1>5, SameKept DEF SameRest
<1>7. QED
  BY <1>1, <1>6 DEF q

LEMMA DeclareKeeps ==
  ASSUME NEW r, RbShape(r), SoundUnlessWrong(r), NEW s, s.as \in {"symbol", "menu", "explanation"}
  PROVE  Kept(r, Declare(r, s)) /\ SameRest(r, Declare(r, s))
<1> DEFINE known(k) == \/ Node(r, s.names[k]).treetype # "unknown"
                       \/ \E j \in 1..k - 1 : s.names[j] = s.names[k]
           twice == \E k \in DOMAIN s.names : known(k)
           c == ErrorIf(twice, r)
           N == [n \in Names |-> IF n \in ToSet(s.names) THEN set_mn_treetype(c.nodes[n], s.as) ELSE c.nodes[n]]
<1>1. Declare(r, s) = [c EXCEPT !.nodes = N]
  BY DEF Declare
<1>2. twice \in BOOLEAN
  OBVIOUS
<1> HIDE DEF twice
<1>3. /\ RbShape(c) /\ SameRest(r, c) /\ c.nodes = r.nodes /\ c.aborted = r.aborted
      /\ c.errors = (r.errors \/ twice)
  BY <1>2, Errors
<1> HIDE DEF c
<1>4. \A n \in Names :
        /\ NodeShape(N[n])
        /\ N[n] = r.nodes[n] \/ (r.nodes[n].treetype = "unknown" /\ N[n] = [r.nodes[n] EXCEPT !.treetype = s.as])
  <2> SUFFICES ASSUME NEW n \in Names
               PROVE /\ NodeShape(N[n])
                     /\ N[n] = r.nodes[n] \/ (r.nodes[n].treetype = "unknown" /\ N[n] = [r.nodes[n] EXCEPT !.treetype = s.as])
    OBVIOUS
  <2>1. NodeShape(r.nodes[n])
    BY DEF RbShape, NodesShape
  <2>2. N[n] = IF n \in ToSet(s.names) THEN set_mn_treetype(r.nodes[n], s.as) ELSE r.nodes[n]
    BY <1>3
  <2> HIDE DEF N
  <2>3. N[n] = r.nodes[n] \/ (r.nodes[n].treetype = "unknown" /\ N[n] = [r.nodes[n] EXCEPT !.treetype = s.as])
    BY <2>2 DEF set_mn_treetype
  <2>4. QED
    BY <2>1, <2>3 DEF NodeShape, TreeTypes
<1>5. NodesShape(N)
  <2>1. N = [n \in Names |-> N[n]]
    OBVIOUS
  <2> HIDE DEF N
  <2>2. QED
    BY <1>4, <2>1 DEF NodesShape
<1> HIDE DEF N
<1>6. ASSUME Sound(r.nodes) PROVE Sound(N)
  <2>1. ASSUME NEW n \in Names PROVE
          /\ N[n].value_type = r.nodes[n].value_type /\ N[n].parent = r.nodes[n].parent
          /\ N[n].children = r.nodes[n].children /\ N[n].radio = r.nodes[n].radio /\ N[n].expr = r.nodes[n].expr
          /\ N[n].treetype = r.nodes[n].treetype \/ (r.nodes[n].treetype = "unknown" /\ N[n].treetype = s.as)
    <3>1. NodeShape(r.nodes[n])
      BY DEF RbShape, NodesShape
    <3>2. CASE N[n] = r.nodes[n]
      BY <3>2
    <3>3. CASE r.nodes[n].treetype = "unknown" /\ N[n] = [r.nodes[n] EXCEPT !.treetype = s.as]
      BY <3>1, <3>3 DEF NodeShape
    <3>4. QED
      BY <1>4, <3>2, <3>3
  <2> SUFFICES ASSUME NEW n \in Names
               PROVE TypedNode(N[n]) /\ PlacedNode(N[n]) /\ FollowsOther(N, n)
    BY DEF Sound
  <2>2. TypedNode(r.nodes[n]) /\ PlacedNode(r.nodes[n]) /\ FollowsOther(r.nodes, n)
    BY <1>6 DEF Sound
  <2>3. TypedNode(N[n]) /\ PlacedNode(N[n])
    BY <2>1, <2>2 DEF TypedNode, PlacedNode, TreeTypes
  <2>4. FollowsOther(N, n)
    <3> SUFFICES ASSUME N[n].treetype = "derived", N[n].expr.op = "symbol", N[n].value_type # "none"
                 PROVE  \/ ChosenIn(N, N[n].expr.node)
                        \/ N[n].value_type = N[N[n].expr.node].value_type
      BY DEF FollowsOther
    <3>1. r.nodes[n].treetype = "derived"
      BY <2>1
    <3>2. PICK x \in Names : x = N[n].expr.node /\ x = r.nodes[n].expr.node
      BY <2>1, <2>2, <3>1 DEF PlacedNode
    <3>3. ChosenIn(r.nodes, x) \/ r.nodes[n].value_type = r.nodes[x].value_type
      BY <2>1, <2>2, <3>1, <3>2 DEF FollowsOther
    <3>4. ASSUME ChosenIn(r.nodes, x) PROVE ChosenIn(N, x)
      <4>1. PICK m \in Names : m = r.nodes[x].parent
        BY <1>6, <3>4 DEF ChosenIn, Sound, TypedNode
      <4>2. QED
        BY <2>1, <3>4, <4>1 DEF ChosenIn
    <3>5. QED
      BY <2>1, <3>2, <3>3, <3>4
  <2>5. QED
    BY <2>3, <2>4
<1> DEFINE q == [c EXCEPT !.nodes = N]
<1>7. /\ RbShape(q) /\ q.nodes = N /\ SameRest(c, q) /\ q.errors = c.errors /\ q.aborted = c.aborted
  BY <1>3, <1>5, NewNodes
<1> HIDE DEF q
<1>8. Kept(r, q) /\ SameRest(r, q)
  BY <1>3, <1>6, <1>7 DEF SameRest, Kept, SoundUnlessWrong
<1>9. QED
  BY <1>1, <1>8 DEF q

LEMMA DeriveKeeps ==
  ASSUME NEW r, RbShape(r), SoundUnlessWrong(r), NEW s, Fits(s), s.kind = "derive"
  PROVE  Kept(r, derive_definition(r, s)) /\ SameRest(r, derive_definition(r, s))
<1> DEFINE e == Built(r, s.expr)
           c == Counted(r, e)
<1>1. PICK x \in Names : x = s.name
  BY DEF Fits, Grammatical
<1>2. /\ RbShape(c) /\ SameRest(r, c) /\ c.errors = r.errors /\ c.aborted = r.aborted
      /\ \A n \in Names : SameNode(r.nodes[n], c.nodes[n])
  BY CountedNodes, CountedSame
<1>3. Kept(r, c)
  BY <1>2, SameKept
<1> DEFINE q == [c EXCEPT !.nodes[x].treetype = "derived", !.nodes[x].expr = e, !.nodes[x].value_type = e.type]
<1>4. derive_definition(r, s) = IF r.nodes[x].treetype # "unknown" THEN yyerror(c) ELSE q
  BY <1>1 DEF derive_definition, Node
<1>5. ASSUME Sound(r.nodes)
      PROVE  /\ e.type \in ValueTypes
             /\ e.op = "symbol" => (e.node \in Names /\ e.type = r.nodes[e.node].value_type)
  BY <1>5, BuiltTyped DEF Expressive
<1> HIDE DEF c, e
<1> DEFINE derived == [c.nodes[x] EXCEPT !.treetype = "derived", !.expr = e, !.value_type = e.type]
           N == [n \in Names |-> IF n = x THEN derived ELSE c.nodes[n]]
<1>6. /\ NodesShape(N)
      /\ N[x].treetype = "derived" /\ N[x].expr = e /\ N[x].value_type = e.type
      /\ N[x].parent = c.nodes[x].parent /\ N[x].children = c.nodes[x].children
      /\ N[x].radio = c.nodes[x].radio
      /\ \A n \in Names \ {x} : N[n] = c.nodes[n]
  <2>1. \A n \in Names : NodeShape(c.nodes[n])
    BY <1>2 DEF RbShape, NodesShape
  <2>2. /\ NodeShape(derived) /\ derived.treetype = "derived" /\ derived.expr = e
        /\ derived.value_type = e.type /\ derived.parent = c.nodes[x].parent
        /\ derived.children = c.nodes[x].children /\ derived.radio = c.nodes[x].radio
    <3> DEFINE mn == c.nodes[x]
               type == e.type
    <3>1. mn = [treetype |-> mn.treetype, value_type |-> mn.value_type, parent |-> mn.parent,
                children |-> mn.children, radio |-> mn.radio, expr |-> mn.expr,
                visibility_expr |-> mn.visibility_expr, saveability_expr |-> mn.saveability_expr,
                expr_count |-> mn.expr_count, dependees |-> mn.dependees, seen |-> mn.seen,
                rules_using |-> mn.rules_using]
      BY <2>1 DEF NodeShape
    <3> HIDE DEF mn, type
    <3>2. [mn EXCEPT !.treetype = "derived", !.expr = e, !.value_type = type] =
               [treetype |-> "derived", value_type |-> type, parent |-> mn.parent,
               children |-> mn.children, radio |-> mn.radio, expr |-> e, visibility_expr
               |-> mn.visibility_expr, saveability_expr |-> mn.saveability_expr,
               expr_count |-> mn.expr_count, dependees |-> mn.dependees, seen |->
               mn.seen, rules_using |-> mn.rules_using]
      <4> DEFINE a == [mn EXCEPT !.treetype = "derived"]
                 b == [a EXCEPT !.expr = e]
      <4>1. a = [treetype |-> "derived", value_type |-> mn.value_type, parent |->
                mn.parent, children |-> mn.children, radio |-> mn.radio, expr |->
                mn.expr, visibility_expr |-> mn.visibility_expr, saveability_expr |->
                mn.saveability_expr, expr_count |-> mn.expr_count, dependees |->
                mn.dependees, seen |-> mn.seen, rules_using |-> mn.rules_using]
        BY <3>1
      <4> HIDE DEF a
      <4>2. b = [treetype |-> "derived", value_type |-> mn.value_type, parent |->
                mn.parent, children |-> mn.children, radio |-> mn.radio, expr |-> e,
                visibility_expr |-> mn.visibility_expr, saveability_expr |->
                mn.saveability_expr, expr_count |-> mn.expr_count, dependees |->
                mn.dependees, seen |-> mn.seen, rules_using |-> mn.rules_using]
        BY <4>1
      <4> HIDE DEF b
      <4>3. [b EXCEPT !.value_type = type] =
               [treetype |-> "derived", value_type |-> type, parent |-> mn.parent,
               children |-> mn.children, radio |-> mn.radio, expr |-> e, visibility_expr
               |-> mn.visibility_expr, saveability_expr |-> mn.saveability_expr,
               expr_count |-> mn.expr_count, dependees |-> mn.dependees, seen |->
               mn.seen, rules_using |-> mn.rules_using]
        BY <4>2
      <4>4. QED
        BY <4>3 DEF a, b
    <3>3. derived = [mn EXCEPT !.treetype = "derived", !.expr = e, !.value_type = type]
      BY DEF mn, type
    <3> HIDE DEF derived
    <3>4. /\ NodeShape(derived) /\ derived.treetype = "derived" /\ derived.expr = e
          /\ derived.value_type = type /\ derived.parent = mn.parent
          /\ derived.children = mn.children /\ derived.radio = mn.radio
      BY <3>2, <3>3 DEF NodeShape, TreeTypes
    <3>5. QED
      BY <3>4 DEF mn, type
  <2>3. N[x] = derived /\ \A n \in Names \ {x} : N[n] = c.nodes[n]
    OBVIOUS
  <2>4. N = [n \in Names |-> N[n]]
    OBVIOUS
  <2> HIDE DEF derived, N
  <2>5. QED
    BY <2>1, <2>2, <2>3, <2>4 DEF NodesShape
<1>7. q = [c EXCEPT !.nodes = N]
  <2>1. /\ c = [nodes |-> c.nodes, rules |-> c.rules, start |-> c.start, start_loc |-> c.start_loc,
          start_place |-> c.start_place, banner |-> c.banner, icon |-> c.icon,
          conditions |-> c.conditions, test_script |-> c.test_script, parsetest |-> c.parsetest,
          errors |-> c.errors, aborted |-> c.aborted]
        /\ c.nodes = [n \in Names |-> c.nodes[n]]
        /\ NodeShape(c.nodes[x])
    BY <1>2 DEF RbShape, NodesShape
  <2>2. N = [c.nodes EXCEPT ![x] = derived]
    BY <2>1
  <2>3. [c.nodes EXCEPT ![x].treetype = "derived", ![x].expr = e, ![x].value_type = e.type] = [c.nodes EXCEPT ![x] = derived]
    BY <2>1 DEF NodeShape
  <2>4. q = [c EXCEPT !.nodes = [c.nodes EXCEPT ![x].treetype = "derived", ![x].expr = e, ![x].value_type = e.type]]
    BY <2>1
  <2>5. QED
    BY <2>2, <2>3, <2>4
<1> HIDE DEF q, N, derived
<1>8. CASE r.nodes[x].treetype # "unknown"
  <2>1. /\ RbShape(yyerror(c)) /\ SameRest(c, yyerror(c)) /\ yyerror(c).errors /\ yyerror(c).aborted = c.aborted
    BY <1>2, Errors DEF yyerror
  <2>2. QED
    BY <1>2, <1>4, <1>8, <2>1 DEF Kept, SameRest, SoundUnlessWrong
<1>9. CASE r.nodes[x].treetype = "unknown"
  <2>1. /\ RbShape(q) /\ q.nodes = N /\ SameRest(c, q) /\ q.errors = c.errors /\ q.aborted = c.aborted
    BY <1>2, <1>6, <1>7, NewNodes
  <2>2. ASSUME Sound(r.nodes) PROVE Sound(N)
    <3>1. \A n \in Names : TypedNode(r.nodes[n]) /\ PlacedNode(r.nodes[n]) /\ FollowsOther(r.nodes, n)
      BY <2>2 DEF Sound
    <3>2. /\ r.nodes[x].parent = None /\ r.nodes[x].children = {} /\ r.nodes[x].value_type = "none"
      BY <1>9, <3>1 DEF PlacedNode
    <3>3. \A n \in Names : SameNode(r.nodes[n], c.nodes[n])
      BY <1>2
    <3>4. ASSUME NEW n \in Names PROVE TypedNode(N[n]) /\ PlacedNode(N[n])
      <4>1. CASE n = x
        BY <1>5, <1>6, <2>2, <3>1, <3>2, <3>3, <4>1 DEF TypedNode, PlacedNode, SameNode, TreeTypes
      <4>2. CASE n # x
        BY <1>6, <3>1, <3>3, <4>2 DEF TypedNode, PlacedNode, SameNode
      <4>3. QED
        BY <4>1, <4>2
    <3>5. \A n \in Names : N[n].parent = r.nodes[n].parent /\ N[n].radio = r.nodes[n].radio
      BY <1>6, <3>3 DEF SameNode
    <3>6. ASSUME NEW n \in Names, ChosenIn(r.nodes, n) PROVE ChosenIn(N, n)
      <4>1. PICK m \in Names : m = r.nodes[n].parent
        BY <3>1, <3>6 DEF ChosenIn, TypedNode
      <4>2. QED
        BY <3>5, <3>6, <4>1 DEF ChosenIn
    <3>7. ASSUME NEW n \in Names PROVE FollowsOther(N, n)
      <4> SUFFICES ASSUME N[n].treetype = "derived", N[n].expr.op = "symbol", N[n].value_type # "none"
                   PROVE  \/ ChosenIn(N, N[n].expr.node)
                          \/ N[n].value_type = N[N[n].expr.node].value_type
        BY DEF FollowsOther
      <4>1. PICK y \in Names : y = N[n].expr.node
        BY <3>4 DEF PlacedNode
      <4>2. CASE n = x
        <5>1. N[x].value_type = r.nodes[y].value_type
          BY <1>5, <1>6, <2>2, <4>1, <4>2
        <5>2. y # x
          BY <3>2, <5>1, <4>2
        <5>3. QED
          BY <1>6, <3>3, <4>1, <4>2, <5>1, <5>2 DEF SameNode
      <4>3. CASE n # x
        <5>1. SameNode(r.nodes[n], N[n])
          BY <1>6, <3>3, <4>3
        <5>2. ChosenIn(r.nodes, y) \/ r.nodes[n].value_type = r.nodes[y].value_type
          BY <3>1, <4>1, <5>1 DEF FollowsOther, SameNode
        <5>3. CASE ChosenIn(r.nodes, y)
          BY <3>6, <4>1, <5>3
        <5>4. CASE r.nodes[n].value_type = r.nodes[y].value_type
          <6>1. y # x
            BY <3>2, <5>1, <5>4 DEF SameNode
          <6>2. QED
            BY <1>6, <3>3, <4>1, <5>1, <5>4, <6>1 DEF SameNode
        <5>5. QED
          BY <5>2, <5>3, <5>4
      <4>4. QED
        BY <4>2, <4>3
    <3>8. QED
      BY <3>4, <3>7 DEF Sound
  <2>3. QED
    BY <1>2, <1>4, <1>9, <2>1, <2>2 DEF Kept, SameRest, SoundUnlessWrong
<1>10. QED
  BY <1>8, <1>9

LEMMA DefaultKeeps ==
  ASSUME NEW r, RbShape(r), SoundUnlessWrong(r), NEW s, s.name \in Names
  PROVE  Kept(r, set_default_expr(r, s)) /\ SameRest(r, set_default_expr(r, s))
<1> DEFINE e == Built(r, s.expr)
           c == Counted(r, e)
           refused == r.nodes[s.name].treetype # "symbol" \/ r.nodes[s.name].expr # NullExpr
           q == [c EXCEPT !.nodes[s.name].expr = e]
<1>1. PICK x \in Names : x = s.name
  OBVIOUS
<1>2. /\ RbShape(c) /\ SameRest(r, c) /\ c.errors = r.errors /\ c.aborted = r.aborted
      /\ \A n \in Names : SameNode(r.nodes[n], c.nodes[n])
  BY CountedNodes, CountedSame
<1>3. set_default_expr(r, s) = IF refused THEN yyerror(c) ELSE q
  BY DEF set_default_expr, Node
<1> HIDE DEF c, e
<1>4. CASE refused
  <2>1. /\ RbShape(yyerror(c)) /\ SameRest(c, yyerror(c)) /\ yyerror(c).errors
        /\ yyerror(c).aborted = c.aborted
    BY <1>2, Errors DEF yyerror
  <2>2. QED
    BY <1>2, <1>3, <1>4, <2>1 DEF Kept, SameRest, SoundUnlessWrong
<1>5. CASE ~refused
  <2> DEFINE given == [c.nodes[x] EXCEPT !.expr = e]
             N == [n \in Names |-> IF n = x THEN given ELSE c.nodes[n]]
  <2>1. r.nodes[x].treetype = "symbol"
    BY <1>1, <1>5
  <2>2. \A n \in Names : NodeShape(c.nodes[n])
    BY <1>2 DEF RbShape, NodesShape
  <2>3. NodeShape(given) /\ SameNode(r.nodes[x], given)
    <3> DEFINE mn == c.nodes[x]
    <3>1. SameNode(r.nodes[x], mn) /\ NodeShape(mn) /\ given = [mn EXCEPT !.expr = e]
      BY <1>2, <2>2
    <3> HIDE DEF mn, given
    <3>2. NodeShape(given) /\ given.treetype = mn.treetype /\ given.value_type = mn.value_type
          /\ given.parent = mn.parent /\ given.children = mn.children /\ given.radio = mn.radio
      BY <3>1 DEF NodeShape
    <3>3. QED
      BY <2>1, <3>1, <3>2 DEF SameNode
  <2>4. /\ c = [nodes |-> c.nodes, rules |-> c.rules, start |-> c.start, start_loc |-> c.start_loc,
          start_place |-> c.start_place, banner |-> c.banner, icon |-> c.icon,
          conditions |-> c.conditions, test_script |-> c.test_script, parsetest |-> c.parsetest,
          errors |-> c.errors, aborted |-> c.aborted]
        /\ c.nodes = [n \in Names |-> c.nodes[n]]
    BY <1>2 DEF RbShape, NodesShape
  <2>5. q = [c EXCEPT !.nodes = N]
    <3>1. [c.nodes EXCEPT ![x].expr = e] = N
      <4>1. [c.nodes EXCEPT ![x] = given] = N
        BY <2>4
      <4>2. [c.nodes EXCEPT ![x].expr = e] = [c.nodes EXCEPT ![x] = given]
        BY <2>2, <2>4 DEF NodeShape
      <4>3. QED
        BY <4>1, <4>2
    <3>2. q = [c EXCEPT !.nodes = [c.nodes EXCEPT ![x].expr = e]]
      BY <1>1, <2>4
    <3> HIDE DEF N
    <3>3. QED
      BY <3>1, <3>2
  <2>6. N[x] = given /\ (\A n \in Names \ {x} : N[n] = c.nodes[n]) /\ N = [n \in Names |-> N[n]]
    OBVIOUS
  <2> HIDE DEF N, given, q
  <2>7. NodesShape(N) /\ \A n \in Names : SameNode(r.nodes[n], N[n])
    BY <1>2, <2>2, <2>3, <2>6 DEF NodesShape
  <2>8. /\ RbShape(q) /\ q.nodes = N /\ SameRest(c, q) /\ q.errors = c.errors /\ q.aborted = c.aborted
    BY <1>2, <2>5, <2>7, NewNodes
  <2>9. Kept(r, q) /\ SameRest(r, q)
    BY <1>2, <2>7, <2>8, SameKept DEF SameRest
  <2>10. QED
    BY <1>3, <1>5, <2>9
<1>6. QED
  BY <1>4, <1>5

LEMMA TypeChecked ==
  ASSUME NEW r, RbShape(r), SoundUnlessWrong(r), NEW n, NEW types
  PROVE  /\ Kept(r, check_mn_type(r, n, types)) /\ SameRest(r, check_mn_type(r, n, types))
         /\ check_mn_type(r, n, types).nodes = r.nodes
         /\ check_mn_type(r, n, types).aborted = r.aborted
<1> DEFINE c == Node(r, n).treetype \notin types
           q == ErrorIf(c, r)
<1>1. check_mn_type(r, n, types) = q
  BY DEF check_mn_type
<1>2. c \in BOOLEAN
  OBVIOUS
<1> HIDE DEF c
<1>3. /\ RbShape(q) /\ SameRest(r, q) /\ q.nodes = r.nodes /\ q.aborted = r.aborted
      /\ q.errors = (r.errors \/ c)
  BY <1>2, Errors
<1> HIDE DEF q
<1>4. QED
  BY <1>1, <1>3 DEF Kept, SoundUnlessWrong

(* The other fields of a rulebase.                                         *)
LEMMA NewRest ==
  ASSUME NEW r, RbShape(r), SoundUnlessWrong(r), NEW q,
         q = [nodes |-> r.nodes, rules |-> q.rules, start |-> q.start, start_loc |-> q.start_loc,
          start_place |-> q.start_place, banner |-> q.banner, icon |-> q.icon,
          conditions |-> q.conditions, test_script |-> q.test_script, parsetest |-> q.parsetest,
          errors |-> r.errors, aborted |-> r.aborted],
         q.start \in Names \cup {None}
  PROVE  Kept(r, q)
<1>1. q.nodes = r.nodes /\ q.errors = r.errors /\ q.aborted = r.aborted
  OBVIOUS
<1>2. RbShape(q)
  BY <1>1 DEF RbShape
<1>3. QED
  BY <1>1, <1>2 DEF Kept, SoundUnlessWrong

LEMMA KeptTwice ==
  ASSUME NEW r, NEW q, NEW p, Kept(r, q), Kept(q, p)
  PROVE  Kept(r, p)
BY Zenon DEF Kept

LEMMA Whole ==
  ASSUME NEW r, RbShape(r)
  PROVE  /\ r = [nodes |-> r.nodes, rules |-> r.rules, start |-> r.start, start_loc |->
              r.start_loc, start_place |-> r.start_place, banner |-> r.banner, icon |->
              r.icon, conditions |-> r.conditions, test_script |-> r.test_script, parsetest
              |-> r.parsetest, errors |-> r.errors, aborted |-> r.aborted]
         /\ r.start \in Names \cup {None}
BY DEF RbShape

Located(r) ==
  /\ \A rule \in r.rules : rule.location = rule.place
  /\ r.start # None => r.start_loc = r.start_place

LEMMA RequireKeeps ==
  ASSUME NEW r, RbShape(r), SoundUnlessWrong(r), NEW s, NEW location, NEW place
  PROVE  LET q == requirement_definition(r, s, location, place)
         IN  Kept(r, q) /\ (Located(r) /\ location = place => Located(q))
<1> DEFINE e == Built(r, s.expr)
           c == Counted(r, e)
           d == IF s.explanation = None THEN c ELSE check_mn_type(c, s.explanation, {"explanation"})
           new == Rule(IF s.kind = "prohibit" THEN Not(e) ELSE e, location, place)
           q == [d EXCEPT !.rules = @ \cup {new}]
<1>1. requirement_definition(r, s, location, place) = q
  BY DEF requirement_definition
<1>2. Kept(r, c) /\ SameRest(r, c)
  <2>1. /\ RbShape(c) /\ SameRest(r, c) /\ c.errors = r.errors /\ c.aborted = r.aborted
        /\ \A n \in Names : SameNode(r.nodes[n], c.nodes[n])
    BY CountedNodes, CountedSame
  <2> HIDE DEF c
  <2>2. QED
    BY <2>1, SameKept
<1>3. new.location = location /\ new.place = place
  BY DEF Rule
<1> HIDE DEF c, new
<1>4. Kept(r, d) /\ SameRest(r, d)
  <2>1. RbShape(c) /\ SoundUnlessWrong(c)
    BY <1>2 DEF Kept
  <2>2. CASE s.explanation = None
    BY <1>2, <2>2
  <2>3. CASE s.explanation # None
    <3>1. Kept(c, d) /\ SameRest(c, d)
      BY <2>1, <2>3, TypeChecked
    <3> HIDE DEF d
    <3>2. QED
      BY <1>2, <3>1, KeptTwice DEF SameRest
  <2>4. QED
    BY <2>2, <2>3
<1> HIDE DEF d
<1>5. RbShape(d) /\ SoundUnlessWrong(d)
  BY <1>4 DEF Kept
<1>6. d = [nodes |-> d.nodes, rules |-> d.rules, start |-> d.start, start_loc |->
          d.start_loc, start_place |-> d.start_place, banner |-> d.banner, icon |-> d.icon,
          conditions |-> d.conditions, test_script |-> d.test_script, parsetest |->
          d.parsetest, errors |-> d.errors, aborted |-> d.aborted]
      /\ d.start \in Names \cup {None}
  BY <1>5, Whole
<1>7. q = [nodes |-> d.nodes, rules |-> (d.rules \cup {new}), start |-> d.start, start_loc
          |-> d.start_loc, start_place |-> d.start_place, banner |-> d.banner, icon |->
          d.icon, conditions |-> d.conditions, test_script |-> d.test_script, parsetest |->
          d.parsetest, errors |-> d.errors, aborted |-> d.aborted]
  BY <1>6
<1> HIDE DEF q
<1>8. Kept(d, q)
  BY <1>5, <1>6, <1>7, NewRest
<1>9. q.rules = d.rules \cup {new} /\ q.start = d.start /\ q.start_loc = d.start_loc /\ q.start_place = d.start_place
  BY <1>7
<1>10. Located(r) /\ location = place => Located(q)
  BY <1>3, <1>4, <1>9 DEF Located, SameRest
<1>11. QED
  BY <1>1, <1>4, <1>8, <1>10, KeptTwice

LEMMA StartKeeps ==
  ASSUME NEW r, RbShape(r), SoundUnlessWrong(r), NEW s, s.name \in Names, NEW location, NEW place
  PROVE  LET q == start_definition(r, s, location, place)
         IN  Kept(r, q) /\ (Located(r) /\ location = place => Located(q))
<1> DEFINE twice == r.start # None
           c == ErrorIf(twice, r)
           d == check_mn_type(c, s.name, {"menu", "unknown"})
           name == s.name
           q == [d EXCEPT !.start = name, !.start_loc = location, !.start_place = place]
<1>1. start_definition(r, s, location, place) = q
  BY DEF start_definition
<1>2. Kept(r, c) /\ SameRest(r, c)
  <2>1. twice \in BOOLEAN
    OBVIOUS
  <2> HIDE DEF twice
  <2>2. /\ RbShape(c) /\ SameRest(r, c) /\ c.nodes = r.nodes /\ c.aborted = r.aborted
        /\ c.errors = (r.errors \/ twice)
    BY <2>1, Errors
  <2> HIDE DEF c
  <2>3. QED
    BY <2>2 DEF Kept, SoundUnlessWrong
<1> HIDE DEF c
<1>3. Kept(c, d) /\ SameRest(c, d)
  <2>1. RbShape(c) /\ SoundUnlessWrong(c)
    BY <1>2 DEF Kept
  <2>2. QED
    BY <2>1, TypeChecked
<1>4. name \in Names
  OBVIOUS
<1> HIDE DEF d, name
<1>5. RbShape(d) /\ SoundUnlessWrong(d)
  BY <1>3 DEF Kept
<1>6. d = [nodes |-> d.nodes, rules |-> d.rules, start |-> d.start, start_loc |->
          d.start_loc, start_place |-> d.start_place, banner |-> d.banner, icon |-> d.icon,
          conditions |-> d.conditions, test_script |-> d.test_script, parsetest |->
          d.parsetest, errors |-> d.errors, aborted |-> d.aborted]
  BY <1>5, Whole
<1>7. q = [nodes |-> d.nodes, rules |-> d.rules, start |-> name, start_loc |-> location,
          start_place |-> place, banner |-> d.banner, icon |-> d.icon, conditions |->
          d.conditions, test_script |-> d.test_script, parsetest |-> d.parsetest, errors |->
          d.errors, aborted |-> d.aborted]
  <2> DEFINE a == [d EXCEPT !.start = name]
             b == [a EXCEPT !.start_loc = location]
  <2>1. a = [nodes |-> d.nodes, rules |-> d.rules, start |-> name, start_loc |->
            d.start_loc, start_place |-> d.start_place, banner |-> d.banner, icon |->
            d.icon, conditions |-> d.conditions, test_script |-> d.test_script, parsetest
            |-> d.parsetest, errors |-> d.errors, aborted |-> d.aborted]
    BY <1>6
  <2> HIDE DEF a
  <2>2. b = [nodes |-> d.nodes, rules |-> d.rules, start |-> name, start_loc |-> location,
            start_place |-> d.start_place, banner |-> d.banner, icon |-> d.icon, conditions
            |-> d.conditions, test_script |-> d.test_script, parsetest |-> d.parsetest,
            errors |-> d.errors, aborted |-> d.aborted]
    BY <2>1
  <2> HIDE DEF b
  <2>3. [b EXCEPT !.start_place = place] = [nodes |-> d.nodes, rules |-> d.rules, start |-> name, start_loc |-> location,
            start_place |-> place, banner |-> d.banner, icon |-> d.icon, conditions |->
            d.conditions, test_script |-> d.test_script, parsetest |-> d.parsetest, errors
            |-> d.errors, aborted |-> d.aborted]
    BY <2>2
  <2>4. QED
    BY <2>3 DEF a, b
<1> HIDE DEF q
<1>8. q.rules = d.rules /\ q.start = name /\ q.start_loc = location /\ q.start_place = place
  BY <1>7
<1>9. Kept(d, q)
  BY <1>4, <1>5, <1>7, <1>8, NewRest
<1>10. Located(r) /\ location = place => Located(q)
  BY <1>2, <1>3, <1>8 DEF Located, SameRest
<1>11. QED
  BY <1>1, <1>2, <1>3, <1>9, <1>10, KeptTwice

LEMMA ConditionKeeps ==
  ASSUME NEW r, RbShape(r), SoundUnlessWrong(r), NEW s
  PROVE  Kept(r, condition_declaration(r, s)) /\ SameRest(r, condition_declaration(r, s))
<1> DEFINE twice == s.flag \in DOMAIN r.conditions
           c == ErrorIf(twice, r)
           d == IF s.tie \in Names THEN check_mn_type(c, s.tie, {"symbol"}) ELSE c
           conditions == (s.flag :> s.tie) @@ d.conditions
           q == [d EXCEPT !.conditions = conditions]
<1>1. condition_declaration(r, s) = q
  BY DEF condition_declaration
<1>2. Kept(r, c) /\ SameRest(r, c)
  <2>1. twice \in BOOLEAN
    OBVIOUS
  <2> HIDE DEF twice
  <2>2. /\ RbShape(c) /\ SameRest(r, c) /\ c.nodes = r.nodes /\ c.aborted = r.aborted
        /\ c.errors = (r.errors \/ twice)
    BY <2>1, Errors
  <2> HIDE DEF c
  <2>3. QED
    BY <2>2 DEF Kept, SoundUnlessWrong
<1> HIDE DEF c
<1>3. Kept(r, d) /\ SameRest(r, d)
  <2>1. RbShape(c) /\ SoundUnlessWrong(c)
    BY <1>2 DEF Kept
  <2>2. CASE s.tie \notin Names
    BY <1>2, <2>2
  <2>3. CASE s.tie \in Names
    <3>1. Kept(c, d) /\ SameRest(c, d)
      BY <2>1, <2>3, TypeChecked
    <3> HIDE DEF d
    <3>2. QED
      BY <1>2, <3>1, KeptTwice DEF SameRest
  <2>4. QED
    BY <2>2, <2>3
<1> HIDE DEF d, conditions
<1>4. RbShape(d) /\ SoundUnlessWrong(d)
  BY <1>3 DEF Kept
<1>5. d = [nodes |-> d.nodes, rules |-> d.rules, start |-> d.start, start_loc |->
          d.start_loc, start_place |-> d.start_place, banner |-> d.banner, icon |-> d.icon,
          conditions |-> d.conditions, test_script |-> d.test_script, parsetest |->
          d.parsetest, errors |-> d.errors, aborted |-> d.aborted]
      /\ d.start \in Names \cup {None}
  BY <1>4, Whole
<1>6. q = [nodes |-> d.nodes, rules |-> d.rules, start |-> d.start, start_loc |->
          d.start_loc, start_place |-> d.start_place, banner |-> d.banner, icon |-> d.icon,
          conditions |-> conditions, test_script |-> d.test_script, parsetest |->
          d.parsetest, errors |-> d.errors, aborted |-> d.aborted]
  BY <1>5
<1> HIDE DEF q
<1>7. Kept(d, q) /\ SameRest(d, q)
  BY <1>4, <1>5, <1>6, NewRest DEF SameRest
<1>8. QED
  BY <1>1, <1>3, <1>7, KeptTwice DEF SameRest

LEMMA TestKeeps ==
  ASSUME NEW r, RbShape(r), SoundUnlessWrong(r), NEW s
  PROVE  Kept(r, test_script_entry(r, s)) /\ SameRest(r, test_script_entry(r, s))
<1> DEFINE d == IF s.name = None THEN r ELSE check_mn_type(r, s.name, {"symbol"})
           t == TRUE
           longer == Append(d.test_script, s)
           q == [d EXCEPT !.parsetest = t]
           p == [d EXCEPT !.test_script = longer]
<1>1. test_script_entry(r, s) = IF s.op = "parsetest" THEN q ELSE p
  BY DEF test_script_entry
<1>2. Kept(r, d) /\ SameRest(r, d)
  <2>1. CASE s.name = None
    BY <2>1 DEF Kept, SameRest
  <2>2. CASE s.name # None
    BY <2>2, TypeChecked
  <2>3. QED
    BY <2>1, <2>2
<1> HIDE DEF d, t, longer
<1>3. RbShape(d) /\ SoundUnlessWrong(d)
  BY <1>2 DEF Kept
<1>4. d = [nodes |-> d.nodes, rules |-> d.rules, start |-> d.start, start_loc |->
          d.start_loc, start_place |-> d.start_place, banner |-> d.banner, icon |-> d.icon,
          conditions |-> d.conditions, test_script |-> d.test_script, parsetest |->
          d.parsetest, errors |-> d.errors, aborted |-> d.aborted]
      /\ d.start \in Names \cup {None}
  BY <1>3, Whole
<1>5. /\ q = [nodes |-> d.nodes, rules |-> d.rules, start |-> d.start, start_loc |->
             d.start_loc, start_place |-> d.start_place, banner |-> d.banner, icon |->
             d.icon, conditions |-> d.conditions, test_script |-> d.test_script, parsetest
             |-> t, errors |-> d.errors, aborted |-> d.aborted]
      /\ p = [nodes |-> d.nodes, rules |-> d.rules, start |-> d.start, start_loc |->
             d.start_loc, start_place |-> d.start_place, banner |-> d.banner, icon |->
             d.icon, conditions |-> d.conditions, test_script |-> longer, parsetest |->
             d.parsetest, errors |-> d.errors, aborted |-> d.aborted]
  BY <1>4
<1> HIDE DEF q, p
<1>6. Kept(d, q) /\ SameRest(d, q)
  BY <1>3, <1>4, <1>5, NewRest DEF SameRest
<1>7. Kept(d, p) /\ SameRest(d, p)
  BY <1>3, <1>4, <1>5, NewRest DEF SameRest
<1>8. QED
  BY <1>1, <1>2, <1>6, <1>7, KeptTwice DEF SameRest

LEMMA BannerKeeps ==
  ASSUME NEW r, RbShape(r), SoundUnlessWrong(r), NEW b
  PROVE  /\ Kept(r, [r EXCEPT !.banner = b]) /\ SameRest(r, [r EXCEPT !.banner = b])
         /\ Kept(r, [r EXCEPT !.icon = TRUE]) /\ SameRest(r, [r EXCEPT !.icon = TRUE])
<1> DEFINE t == TRUE
           q == [r EXCEPT !.banner = b]
           p == [r EXCEPT !.icon = t]
<1>1. p = [r EXCEPT !.icon = TRUE]
  OBVIOUS
<1> HIDE DEF t
<1>2. r = [nodes |-> r.nodes, rules |-> r.rules, start |-> r.start, start_loc |->
          r.start_loc, start_place |-> r.start_place, banner |-> r.banner, icon |-> r.icon,
          conditions |-> r.conditions, test_script |-> r.test_script, parsetest |->
          r.parsetest, errors |-> r.errors, aborted |-> r.aborted]
      /\ r.start \in Names \cup {None}
  BY Whole
<1>3. /\ q = [nodes |-> r.nodes, rules |-> r.rules, start |-> r.start, start_loc |->
             r.start_loc, start_place |-> r.start_place, banner |-> b, icon |-> r.icon,
             conditions |-> r.conditions, test_script |-> r.test_script, parsetest |->
             r.parsetest, errors |-> r.errors, aborted |-> r.aborted]
      /\ p = [nodes |-> r.nodes, rules |-> r.rules, start |-> r.start, start_loc |->
             r.start_loc, start_place |-> r.start_place, banner |-> r.banner, icon |-> t,
             conditions |-> r.conditions, test_script |-> r.test_script, parsetest |->
             r.parsetest, errors |-> r.errors, aborted |-> r.aborted]
  BY <1>2
<1> HIDE DEF q, p
<1>4. Kept(r, q) /\ SameRest(r, q) /\ Kept(r, p) /\ SameRest(r, p)
  BY <1>2, <1>3, NewRest DEF SameRest
<1>5. QED
  BY <1>1, <1>4 DEF q

-----------------------------------------------------------------------------
(* Menus and choices.                                                      *)

(* A set of numbers up to a bound has a largest one.                       *)
LEMMA HasMax ==
  ASSUME NEW T, NEW b \in Nat, T \subseteq 0..b, T # {}
  PROVE  Max(T) \in T
<1> DEFINE R == OpToRel(<, Nat)
           D == {b - x : x \in T}
<1>1. IsWellFoundedOn(R, Nat)
  BY NatLessThanWellFounded
<1>2. D \subseteq Nat /\ D # {}
  <2>1. \A x \in T : b - x \in Nat /\ b - x \in D
    OBVIOUS
  <2>2. PICK x \in T : TRUE
    OBVIOUS
  <2>3. b - x \in D
    BY <2>1, <2>2
  <2>4. D \subseteq Nat
    BY <2>1
  <2>5. QED
    BY <2>3, <2>4
<1>3. \A x, y \in Nat : <<x, y>> \in R <=> x < y
  BY DEF OpToRel
<1> HIDE DEF R
<1>4. PICK d \in D : \A y \in D : ~(<<y, d>> \in R)
  BY <1>1, <1>2, WFMin
<1>5. PICK i \in T : d = b - i
  OBVIOUS
<1>6. ASSUME NEW j \in T
      PROVE  i >= j
  <2>1. b - j \in D /\ b - j \in Nat /\ b - i \in Nat
    OBVIOUS
  <2>2. ~(b - j < b - i)
    BY <1>3, <1>4, <1>5, <2>1
  <2>3. i \in Nat /\ j \in Nat
    OBVIOUS
  <2>4. QED
    BY <2>2, <2>3
<1>7. QED
  BY <1>6 DEF Max

LEMMA ValueTypeSet ==
  ASSUME NEW r, NEW items, items \in Seq([name : Names, suffix : DOMAIN SuffixType, below : SUBSET Names]),
         NEW n \in Names
  PROVE  IF n \in NamesOf(items) /\ r.nodes[n].treetype = "symbol"
         THEN set_value_type(r, items, n) \in ValueTypes \ {"none"}
         ELSE set_value_type(r, items, n) = r.nodes[n].value_type
<1> DEFINE mine == {k \in DOMAIN items : items[k].name = n}
<1>1. set_value_type(r, items, n) =
        IF mine # {} /\ r.nodes[n].treetype = "symbol" THEN SuffixType[items[Max(mine)].suffix]
        ELSE r.nodes[n].value_type
  BY DEF set_value_type, Node
<1>2. mine # {} <=> n \in NamesOf(items)
  BY DEF NamesOf
<1>3. ASSUME mine # {} PROVE SuffixType[items[Max(mine)].suffix] \in ValueTypes \ {"none"}
  <2>1. DOMAIN items = 1..Len(items) /\ Len(items) \in Nat
    OBVIOUS
  <2>2. mine \subseteq 0..Len(items)
    BY <2>1
  <2>3. Max(mine) \in DOMAIN items
    BY <1>3, <2>1, <2>2, HasMax
  <2>4. PICK suffix \in DOMAIN SuffixType : suffix = items[Max(mine)].suffix
    <3> DEFINE m == Max(mine)
    <3>1. m \in 1..Len(items)
      BY <2>1, <2>3
    <3> HIDE DEF m
    <3> DEFINE Items == [name : Names, suffix : DOMAIN SuffixType, below : SUBSET Names]
    <3>2. items[m] \in Items
      <4>1. items \in Seq(Items)
        OBVIOUS
      <4> HIDE DEF Items
      <4>2. QED
        BY <3>1, <4>1
    <3>3. QED
      BY <3>2 DEF m
  <2>5. SuffixType[suffix] \in ValueTypes \ {"none"}
    BY DEF SuffixType, ValueTypes
  <2>6. QED
    BY <2>4, <2>5
<1> HIDE DEF mine
<1>4. QED
  BY <1>1, <1>2, <1>3

LEMMA ChildrenSet ==
  ASSUME NEW mn, NodeShape(mn), NEW n, NEW menu, NEW children
  PROVE  LET q == mn_set_children(mn, n, menu, children)
         IN  /\ NodeShape(q) /\ q.treetype = mn.treetype /\ q.value_type = mn.value_type
             /\ q.radio = mn.radio /\ q.expr = mn.expr
             /\ q.children = IF n = menu THEN children ELSE mn.children
             /\ q.parent = IF n \in children THEN menu ELSE mn.parent
<1> DEFINE c == IF n = menu THEN children ELSE mn.children
           p == IF n \in children THEN menu ELSE mn.parent
           q == [mn EXCEPT !.children = c, !.parent = p]
<1>1. q = mn_set_children(mn, n, menu, children)
  BY DEF mn_set_children
<1> HIDE DEF c, p
<1>2. /\ NodeShape(q) /\ q.treetype = mn.treetype /\ q.value_type = mn.value_type
      /\ q.radio = mn.radio /\ q.expr = mn.expr /\ q.children = c /\ q.parent = p
  <2> DEFINE a == [mn EXCEPT !.children = c]
             b == [a EXCEPT !.parent = p]
  <2>1. /\ NodeShape(a) /\ a.treetype = mn.treetype /\ a.value_type = mn.value_type
        /\ a.radio = mn.radio /\ a.expr = mn.expr /\ a.children = c /\ a.parent = mn.parent
    BY DEF NodeShape
  <2> HIDE DEF a
  <2>2. /\ NodeShape(b) /\ b.treetype = mn.treetype /\ b.value_type = mn.value_type
        /\ b.radio = mn.radio /\ b.expr = mn.expr /\ b.children = c /\ b.parent = p
    BY <2>1 DEF NodeShape
  <2>3. b = q
    BY DEF a
  <2>4. QED
    BY <2>2, <2>3
<1> HIDE DEF q
<1>3. QED
  BY <1>1, <1>2 DEF c, p

LEMMA SubtreeHandled ==
  ASSUME NEW r, RbShape(r), NEW items, NEW n \in Names
  PROVE  LET q == handle_subtree(r, items, n)
         IN  /\ NodeShape(q) /\ q.treetype = r.nodes[n].treetype /\ q.parent = r.nodes[n].parent
             /\ q.children = r.nodes[n].children /\ q.radio = r.nodes[n].radio
             /\ q.expr = r.nodes[n].expr
<1> DEFINE mn == r.nodes[n]
           guards == {k \in Guards(r, items) : n \in items[k].below}
           g == items[Min(guards)]
           V == Merged(mn.visibility_expr, GuardExpr(g))
           D == IF mn.treetype = "symbol" THEN mn.dependees \cup {g.name} ELSE mn.dependees
           t == TRUE
           q == [mn EXCEPT !.visibility_expr = V, !.dependees = D, !.seen = t]
<1>1. handle_subtree(r, items, n) = mn \/ handle_subtree(r, items, n) = Governed(mn, g)
  BY DEF handle_subtree, Node
<1>2. Governed(mn, g) = q
  BY DEF Governed
<1>3. NodeShape(mn)
  BY DEF RbShape, NodesShape
<1> HIDE DEF V, D, g, t
<1>4. /\ NodeShape(q) /\ q.treetype = mn.treetype /\ q.parent = mn.parent
      /\ q.children = mn.children /\ q.radio = mn.radio /\ q.expr = mn.expr
  <2> HIDE DEF mn
  <2> DEFINE a == [mn EXCEPT !.visibility_expr = V]
             b == [a EXCEPT !.dependees = D]
             c == [b EXCEPT !.seen = t]
  <2>1. /\ NodeShape(a) /\ a.treetype = mn.treetype /\ a.parent = mn.parent
        /\ a.children = mn.children /\ a.radio = mn.radio /\ a.expr = mn.expr
    BY <1>3 DEF NodeShape
  <2> HIDE DEF a
  <2>2. /\ NodeShape(b) /\ b.treetype = mn.treetype /\ b.parent = mn.parent
        /\ b.children = mn.children /\ b.radio = mn.radio /\ b.expr = mn.expr
    BY <2>1 DEF NodeShape
  <2> HIDE DEF b
  <2>3. /\ NodeShape(c) /\ c.treetype = mn.treetype /\ c.parent = mn.parent
        /\ c.children = mn.children /\ c.radio = mn.radio /\ c.expr = mn.expr
    BY <2>2 DEF NodeShape
  <2>4. c = q
    BY DEF a, b
  <2>5. QED
    BY <2>3, <2>4
<1> HIDE DEF q, mn
<1>5. QED
  BY <1>1, <1>2, <1>3, <1>4 DEF mn

(* A menu is given members: symbols get a type; those that were in another *)
(* menu are taken over by a choices menu only.                             *)
LEMMA SoundMembers ==
  ASSUME NEW nodes, Sound(nodes), NEW N, NEW menu \in Names, NEW members \in SUBSET Names,
         nodes[menu].treetype = "menu",
         \A n \in Names :
           /\ N[n].treetype = nodes[n].treetype
           /\ nodes[n].treetype = "derived" => N[n].expr = nodes[n].expr
           /\ N[n].children = IF n = menu THEN members ELSE nodes[n].children
           /\ N[n].parent = IF n \in members THEN menu ELSE nodes[n].parent
           /\ N[n].radio \in BOOLEAN /\ (nodes[n].radio => N[n].radio)
           /\ IF n \in members /\ nodes[n].treetype = "symbol"
              THEN N[n].value_type \in ValueTypes \ {"none"}
              ELSE N[n].value_type = nodes[n].value_type,
         \A n \in members : /\ nodes[n].treetype \in {"symbol", "menu"}
                            /\ nodes[n].parent = None \/ N[menu].radio
  PROVE  Sound(N)
<1>1. \A n \in Names : TypedNode(nodes[n]) /\ PlacedNode(nodes[n]) /\ FollowsOther(nodes, n)
  BY DEF Sound
<1>2. ASSUME NEW n \in Names PROVE TypedNode(N[n])
  <2>1. TypedNode(nodes[n])
    BY <1>1
  <2>2. N[n].value_type \in ValueTypes
    BY <2>1 DEF TypedNode
  <2>3. QED
    BY <2>1, <2>2 DEF TypedNode
<1>3. ASSUME NEW n \in Names PROVE PlacedNode(N[n])
  <2>1. PlacedNode(nodes[n])
    BY <1>1
  <2>2. N[n].children # {} => N[n].treetype = "menu"
    BY <2>1 DEF PlacedNode
  <2>3. N[n].parent # None => N[n].treetype \in {"symbol", "menu"}
    BY <2>1 DEF PlacedNode
  <2>4. N[n].treetype = "symbol" => (N[n].parent = None <=> N[n].value_type = "none")
    BY <2>1, NoneAssumption DEF PlacedNode
  <2>5. N[n].treetype \in {"unknown", "menu", "explanation"} => N[n].value_type = "none"
    BY <2>1 DEF PlacedNode
  <2>6. N[n].treetype = "derived" =>
          IF N[n].expr.op = "symbol" THEN N[n].expr.node \in Names ELSE N[n].expr.type \in ValueTypes
    BY <2>1 DEF PlacedNode
  <2>7. QED
    BY <2>2, <2>3, <2>4, <2>5, <2>6 DEF PlacedNode
<1>4. ASSUME NEW n \in Names PROVE FollowsOther(N, n)
  <2> SUFFICES ASSUME N[n].treetype = "derived", N[n].expr.op = "symbol", N[n].value_type # "none"
               PROVE  \/ ChosenIn(N, N[n].expr.node)
                      \/ N[n].value_type = N[N[n].expr.node].value_type
    BY DEF FollowsOther
  <2>1. n \notin members /\ N[n].value_type = nodes[n].value_type /\ N[n].expr = nodes[n].expr
    OBVIOUS
  <2>2. PICK x \in Names : x = N[n].expr.node
    BY <1>3 DEF PlacedNode
  <2>3. ChosenIn(nodes, x) \/ nodes[n].value_type = nodes[x].value_type
    BY <1>1, <2>1, <2>2 DEF FollowsOther
  <2>4. CASE x \in members /\ N[menu].radio
    BY <2>2, <2>4, NoneAssumption DEF ChosenIn
  <2>5. CASE x \in members /\ nodes[x].parent = None
    <3>1. nodes[x].value_type = "none"
      BY <1>1, <2>5 DEF PlacedNode
    <3>2. QED
      BY <2>1, <2>3, <2>5, <3>1 DEF ChosenIn
  <2>6. CASE x \notin members
    <3>1. N[x].parent = nodes[x].parent /\ N[x].value_type = nodes[x].value_type
      BY <2>6
    <3>2. CASE ChosenIn(nodes, x)
      <4>1. PICK m \in Names : m = nodes[x].parent
        BY <1>1, <3>2 DEF ChosenIn, TypedNode
      <4>2. QED
        BY <2>2, <3>1, <3>2, <4>1 DEF ChosenIn
    <3>3. CASE nodes[n].value_type = nodes[x].value_type
      BY <2>1, <2>2, <3>1, <3>3
    <3>4. QED
      BY <2>3, <3>2, <3>3
  <2>7. QED
    BY <2>4, <2>5, <2>6
<1>5. QED
  BY <1>2, <1>3, <1>4 DEF Sound

LEMMA MenuKeeps ==
  ASSUME NEW r, RbShape(r), SoundUnlessWrong(r), NEW s, Fits(s), s.kind = "menu"
  PROVE  Kept(r, menu_definition(r, s)) /\ SameRest(r, menu_definition(r, s))
<1> DEFINE items == s.items
           members == NamesOf(items)
           guards == {items[k].name : k \in Guards(r, items)}
           bad == \/ \E k \in DOMAIN items : ItemErrs(r, items[k])
                  \/ Node(r, s.menu).treetype # "menu"
           c == ErrorIf(bad, r)
           typed(n) == [handle_subtree(r, items, n) EXCEPT
                          !.value_type = set_value_type(r, items, n),
                          !.expr_count = IF n \in guards THEN 1 ELSE @]
           N == [n \in Names |-> mn_set_children(typed(n), n, s.menu, members)]
<1>1. menu_definition(r, s) = [c EXCEPT !.nodes = N]
  BY DEF menu_definition
<1>2. items \in Seq([name : Names, suffix : DOMAIN SuffixType, below : SUBSET Names]) /\ s.menu \in Names
  BY DEF Fits, Grammatical
<1>3. bad \in BOOLEAN
  OBVIOUS
<1>4. ASSUME ~bad
      PROVE  /\ r.nodes[s.menu].treetype = "menu"
             /\ \A n \in members : r.nodes[n].treetype \in {"symbol", "menu"} /\ r.nodes[n].parent = None
  <2>1. r.nodes[s.menu].treetype = "menu" /\ \A k \in DOMAIN items : ~ItemErrs(r, items[k])
    BY <1>4 DEF Node
  <2>2. ASSUME NEW n \in members PROVE r.nodes[n].treetype \in {"symbol", "menu"} /\ r.nodes[n].parent = None
    <3>1. PICK k \in DOMAIN items : items[k].name = n
      BY <2>2 DEF NamesOf
    <3>2. ~ItemErrs(r, items[k])
      BY <2>1
    <3>3. QED
      BY <3>1, <3>2 DEF ItemErrs, Node
  <2>3. QED
    BY <2>1, <2>2
<1>5. members \in SUBSET Names
  <2> SUFFICES ASSUME NEW k \in DOMAIN items PROVE items[k].name \in Names
    BY DEF NamesOf
  <2> DEFINE Items == [name : Names, suffix : DOMAIN SuffixType, below : SUBSET Names]
  <2>1. items \in Seq(Items) /\ k \in 1..Len(items)
    BY <1>2
  <2>2. \A i \in Items : i.name \in Names
    OBVIOUS
  <2> HIDE DEF Items
  <2>3. items[k] \in Items
    BY <2>1
  <2>4. QED
    BY <2>2, <2>3
<1> HIDE DEF bad
<1>6. /\ RbShape(c) /\ SameRest(r, c) /\ c.nodes = r.nodes /\ c.aborted = r.aborted
      /\ c.errors = (r.errors \/ bad)
  BY <1>3, Errors
<1>7. ASSUME NEW n \in Names
      PROVE  /\ NodeShape(N[n]) /\ N[n].treetype = r.nodes[n].treetype /\ N[n].expr = r.nodes[n].expr
             /\ N[n].children = IF n = s.menu THEN members ELSE r.nodes[n].children
             /\ N[n].parent = IF n \in members THEN s.menu ELSE r.nodes[n].parent
             /\ N[n].radio = r.nodes[n].radio
             /\ N[n].value_type = set_value_type(r, items, n)
  <2> DEFINE h == handle_subtree(r, items, n)
             v == set_value_type(r, items, n)
             x == IF n \in guards THEN 1 ELSE h.expr_count
  <2>1. /\ NodeShape(h) /\ h.treetype = r.nodes[n].treetype /\ h.parent = r.nodes[n].parent
        /\ h.children = r.nodes[n].children /\ h.radio = r.nodes[n].radio /\ h.expr = r.nodes[n].expr
    BY SubtreeHandled
  <2>2. typed(n) = [h EXCEPT !.value_type = v, !.expr_count = x]
    BY DEF v, x
  <2> HIDE DEF h, v, x
  <2> DEFINE t == [h EXCEPT !.value_type = v, !.expr_count = x]
  <2>3. /\ NodeShape(t) /\ t.treetype = h.treetype /\ t.parent = h.parent /\ t.children = h.children
        /\ t.radio = h.radio /\ t.expr = h.expr /\ t.value_type = v
    <3> DEFINE a == [h EXCEPT !.value_type = v]
               b == [a EXCEPT !.expr_count = x]
    <3>1. /\ NodeShape(a) /\ a.treetype = h.treetype /\ a.parent = h.parent /\ a.children = h.children
          /\ a.radio = h.radio /\ a.expr = h.expr /\ a.value_type = v
      BY <2>1 DEF NodeShape
    <3> HIDE DEF a
    <3>2. /\ NodeShape(b) /\ b.treetype = h.treetype /\ b.parent = h.parent /\ b.children = h.children
          /\ b.radio = h.radio /\ b.expr = h.expr /\ b.value_type = v
      BY <3>1 DEF NodeShape
    <3>3. b = t
      BY DEF a
    <3>4. QED
      BY <3>2, <3>3
  <2>4. N[n] = mn_set_children(t, n, s.menu, members)
    BY <2>2
  <2> HIDE DEF N, t, typed, members, guards
  <2>5. /\ NodeShape(N[n]) /\ N[n].treetype = t.treetype /\ N[n].value_type = t.value_type
        /\ N[n].radio = t.radio /\ N[n].expr = t.expr
        /\ N[n].children = IF n = s.menu THEN members ELSE t.children
        /\ N[n].parent = IF n \in members THEN s.menu ELSE t.parent
    BY <2>3, <2>4, ChildrenSet
  <2>6. QED
    BY <2>1, <2>3, <2>5 DEF v
<1>8. NodesShape(N)
  <2>1. N = [n \in Names |-> N[n]]
    OBVIOUS
  <2> HIDE DEF N
  <2>2. QED
    BY <1>7, <2>1 DEF NodesShape
<1>9. \A n \in Names :
        IF n \in members /\ r.nodes[n].treetype = "symbol"
        THEN set_value_type(r, items, n) \in ValueTypes \ {"none"}
        ELSE set_value_type(r, items, n) = r.nodes[n].value_type
  BY <1>2, ValueTypeSet
<1> HIDE DEF N, c, members, typed
<1>10. ASSUME Sound(r.nodes), ~bad PROVE Sound(N)
  <2>1. \A n \in Names : r.nodes[n].radio \in BOOLEAN
    BY <1>10 DEF Sound, TypedNode
  <2>2. \A n \in Names :
           /\ N[n].treetype = r.nodes[n].treetype
           /\ r.nodes[n].treetype = "derived" => N[n].expr = r.nodes[n].expr
           /\ N[n].children = IF n = s.menu THEN members ELSE r.nodes[n].children
           /\ N[n].parent = IF n \in members THEN s.menu ELSE r.nodes[n].parent
           /\ N[n].radio \in BOOLEAN /\ (r.nodes[n].radio => N[n].radio)
           /\ IF n \in members /\ r.nodes[n].treetype = "symbol"
              THEN N[n].value_type \in ValueTypes \ {"none"}
              ELSE N[n].value_type = r.nodes[n].value_type
    BY <1>7, <1>9, <2>1
  <2>3. \A n \in members : /\ r.nodes[n].treetype \in {"symbol", "menu"}
                           /\ r.nodes[n].parent = None \/ N[s.menu].radio
    BY <1>4, <1>10
  <2>4. r.nodes[s.menu].treetype = "menu"
    BY <1>4, <1>10
  <2> HIDE DEF items
  <2>5. QED
    BY <1>2, <1>5, <1>10, <2>2, <2>3, <2>4, SoundMembers
<1> DEFINE q == [c EXCEPT !.nodes = N]
<1>11. /\ RbShape(q) /\ q.nodes = N /\ SameRest(c, q) /\ q.errors = c.errors /\ q.aborted = c.aborted
  BY <1>6, <1>8, NewNodes
<1> HIDE DEF q
<1>12. Kept(r, q) /\ SameRest(r, q)
  BY <1>6, <1>10, <1>11 DEF SameRest, Kept, SoundUnlessWrong
<1>13. QED
  BY <1>1, <1>12 DEF q

LEMMA ChoicesKeep ==
  ASSUME NEW r, RbShape(r), SoundUnlessWrong(r), NEW s, Fits(s), s.kind = "choices"
  PROVE  Kept(r, choices_definition(r, s)) /\ SameRest(r, choices_definition(r, s))
<1> DEFINE members == ToSet(s.names)
           typed(n) == [IF n \in members THEN ChoiceTyped(Node(r, n)) ELSE Node(r, n) EXCEPT
                          !.radio = @ \/ n = s.menu]
           M == [n \in Names |-> mn_set_children(typed(n), n, s.menu, members)]
           absent == M[s.default].parent # s.menu
           bad == \/ Node(r, s.menu).treetype # "menu" \/ absent
                  \/ \E n \in members : Node(r, n).treetype # "symbol"
           c == ErrorIf(bad, r)
           choice == Constant(Atom("node", s.default))
           N == [n \in Names |-> IF n = s.menu /\ ~absent THEN [M[n] EXCEPT !.expr = choice] ELSE M[n]]
<1>1. choices_definition(r, s) = [c EXCEPT !.nodes = N]
  BY DEF choices_definition
<1>2. s.names \in Seq(Names) /\ s.menu \in Names
  BY DEF Fits, Grammatical
<1>3. bad \in BOOLEAN
  OBVIOUS
<1>4. ASSUME ~bad
      PROVE  r.nodes[s.menu].treetype = "menu" /\ \A n \in members : r.nodes[n].treetype = "symbol"
  BY <1>4 DEF Node
<1>5. members \in SUBSET Names
  BY <1>2 DEF ToSet
<1> HIDE DEF bad, absent, choice
<1>6. /\ RbShape(c) /\ SameRest(r, c) /\ c.nodes = r.nodes /\ c.aborted = r.aborted
      /\ c.errors = (r.errors \/ bad)
  BY <1>3, Errors
<1>7. ASSUME NEW n \in Names
      PROVE  /\ NodeShape(N[n]) /\ N[n].treetype = r.nodes[n].treetype
             /\ n # s.menu => N[n].expr = r.nodes[n].expr
             /\ N[n].children = IF n = s.menu THEN members ELSE r.nodes[n].children
             /\ N[n].parent = IF n \in members THEN s.menu ELSE r.nodes[n].parent
             /\ N[n].radio = (r.nodes[n].radio \/ n = s.menu)
             /\ N[n].value_type = IF n \in members THEN "boolean" ELSE r.nodes[n].value_type
  <2> DEFINE mn == r.nodes[n]
             h == IF n \in members THEN ChoiceTyped(mn) ELSE mn
             radio == mn.radio \/ n = s.menu
             t == [h EXCEPT !.radio = radio]
  <2>1. NodeShape(mn)
    BY DEF RbShape, NodesShape
  <2>2. /\ NodeShape(h) /\ h.treetype = mn.treetype /\ h.parent = mn.parent /\ h.children = mn.children
        /\ h.radio = mn.radio /\ h.expr = mn.expr
        /\ h.value_type = IF n \in members THEN "boolean" ELSE mn.value_type
    <3> HIDE DEF mn, members
    <3>1. CASE n \in members
      <4>1. h = [mn EXCEPT !.value_type = "boolean"]
        BY <3>1 DEF ChoiceTyped
      <4> HIDE DEF h
      <4>2. QED
        BY <2>1, <3>1, <4>1 DEF NodeShape
    <3>2. CASE n \notin members
      BY <2>1, <3>2
    <3>3. QED
      BY <3>1, <3>2
  <2>3. typed(n) = t
    <3>1. h.radio = mn.radio
      BY <2>2
    <3>2. typed(n) = [h EXCEPT !.radio = (h.radio \/ n = s.menu)]
      BY DEF Node
    <3>3. (h.radio \/ n = s.menu) = radio
      BY <3>1
    <3> HIDE DEF h, radio, typed
    <3>4. QED
      BY <3>2, <3>3
  <2> HIDE DEF h, radio
  <2>4. /\ NodeShape(t) /\ t.treetype = h.treetype /\ t.parent = h.parent /\ t.children = h.children
        /\ t.radio = radio /\ t.expr = h.expr /\ t.value_type = h.value_type
    BY <2>2 DEF NodeShape
  <2> DEFINE m == M[n]
  <2>5. m = mn_set_children(t, n, s.menu, members)
    BY <2>3
  <2>6. N[n] = m \/ (n = s.menu /\ N[n] = [m EXCEPT !.expr = choice])
    OBVIOUS
  <2> HIDE DEF N, M, m, t, typed, members
  <2>7. /\ NodeShape(m) /\ m.treetype = t.treetype /\ m.value_type = t.value_type
        /\ m.radio = t.radio /\ m.expr = t.expr
        /\ m.children = IF n = s.menu THEN members ELSE t.children
        /\ m.parent = IF n \in members THEN s.menu ELSE t.parent
    BY <2>4, <2>5, ChildrenSet
  <2> DEFINE o == N[n]
  <2> HIDE DEF o
  <2>8. /\ NodeShape(o) /\ o.treetype = m.treetype /\ o.value_type = m.value_type
        /\ o.radio = m.radio /\ o.children = m.children /\ o.parent = m.parent
        /\ n # s.menu => o.expr = m.expr
    <3>1. CASE N[n] = m
      BY <2>7, <3>1 DEF o
    <3>2. CASE n = s.menu /\ N[n] = [m EXCEPT !.expr = choice]
      <4>1. o = [m EXCEPT !.expr = choice]
        BY <3>2 DEF o
      <4>2. QED
        BY <2>7, <3>2, <4>1 DEF NodeShape
    <3>3. QED
      BY <2>6, <3>1, <3>2
  <2>9. o.radio = (mn.radio \/ n = s.menu)
    BY <2>4, <2>7, <2>8 DEF radio
  <2>10. QED
    BY <2>2, <2>4, <2>7, <2>8, <2>9 DEF o
<1>8. NodesShape(N)
  <2>1. N = [n \in Names |-> N[n]]
    OBVIOUS
  <2> HIDE DEF N
  <2>2. QED
    BY <1>7, <2>1 DEF NodesShape
<1> HIDE DEF N, c, members, M, typed
<1>9. ASSUME Sound(r.nodes), ~bad PROVE Sound(N)
  <2>1. \A n \in Names : r.nodes[n].radio \in BOOLEAN
    BY <1>9 DEF Sound, TypedNode
  <2>2. r.nodes[s.menu].treetype = "menu" /\ \A n \in members : r.nodes[n].treetype = "symbol"
    BY <1>4, <1>9
  <2>3. \A n \in Names :
           /\ N[n].treetype = r.nodes[n].treetype
           /\ r.nodes[n].treetype = "derived" => N[n].expr = r.nodes[n].expr
           /\ N[n].children = IF n = s.menu THEN members ELSE r.nodes[n].children
           /\ N[n].parent = IF n \in members THEN s.menu ELSE r.nodes[n].parent
           /\ N[n].radio \in BOOLEAN /\ (r.nodes[n].radio => N[n].radio)
           /\ IF n \in members /\ r.nodes[n].treetype = "symbol"
              THEN N[n].value_type \in ValueTypes \ {"none"}
              ELSE N[n].value_type = r.nodes[n].value_type
    BY <1>7, <2>1, <2>2 DEF ValueTypes
  <2>4. \A n \in members : /\ r.nodes[n].treetype \in {"symbol", "menu"}
                           /\ r.nodes[n].parent = None \/ N[s.menu].radio
    BY <1>2, <1>7, <2>2
  <2>5. QED
    BY <1>2, <1>5, <1>9, <2>2, <2>3, <2>4, SoundMembers
<1> DEFINE q == [c EXCEPT !.nodes = N]
<1>10. /\ RbShape(q) /\ q.nodes = N /\ SameRest(c, q) /\ q.errors = c.errors /\ q.aborted = c.aborted
  BY <1>6, <1>8, NewNodes
<1> HIDE DEF q
<1>11. Kept(r, q) /\ SameRest(r, q)
  BY <1>6, <1>9, <1>10 DEF SameRest, Kept, SoundUnlessWrong
<1>12. QED
  BY <1>1, <1>11 DEF q

(* Whatever the statement.                                                 *)
LEMMA ReduceKeeps ==
  ASSUME NEW r, RbShape(r), SoundUnlessWrong(r), NEW s, Fits(s), NEW location, NEW place
  PROVE  LET q == Reduce(r, s, location, place)
         IN  /\ Kept(r, q)
             /\ Located(r) /\ (s.kind \in {"require", "prohibit", "start"} => location = place) => Located(q)
<1> DEFINE q == Reduce(r, s, location, place)
           Holds == /\ Kept(r, q)
                    /\ Located(r) /\ (s.kind \in {"require", "prohibit", "start"} => location = place) => Located(q)
<1>1. ASSUME NEW p, Kept(r, p), SameRest(r, p), q = p PROVE Holds
  BY <1>1 DEF Located, SameRest
<1>2. s.kind \in Kinds
  BY DEF Fits, Grammatical
<1>3. CASE r.aborted
  <2>1. q = r
    BY <1>3 DEF Reduce
  <2>2. Kept(r, r) /\ SameRest(r, r)
    BY DEF Kept, SameRest
  <2>3. QED
    BY <1>1, <2>1, <2>2
<1>4. CASE ~r.aborted
  <2>1. CASE s.kind = "declare"
    <3>1. q = Declare(r, s)
      BY <1>4, <2>1 DEF Reduce
    <3>2. s.as \in {"symbol", "menu", "explanation"}
      BY <2>1 DEF Fits, Grammatical
    <3>3. QED
      BY <1>1, <3>1, <3>2, DeclareKeeps
  <2>2. CASE s.kind = "suppress"
    <3>1. q = visibility_rule(r, s)
      BY <1>4, <2>2 DEF Reduce
    <3>2. QED
      BY <1>1, <3>1, SuppressKeeps
  <2>3. CASE s.kind = "save"
    <3>1. q = saveability_rule(r, s)
      BY <1>4, <2>3 DEF Reduce
    <3>2. QED
      BY <1>1, <3>1, SaveKeeps
  <2>4. CASE s.kind = "menu"
    <3>1. q = menu_definition(r, s)
      BY <1>4, <2>4 DEF Reduce
    <3>2. QED
      BY <1>1, <2>4, <3>1, MenuKeeps
  <2>5. CASE s.kind = "choices"
    <3>1. q = choices_definition(r, s)
      BY <1>4, <2>5 DEF Reduce
    <3>2. QED
      BY <1>1, <2>5, <3>1, ChoicesKeep
  <2>6. CASE s.kind = "derive"
    <3>1. q = derive_definition(r, s)
      BY <1>4, <2>6 DEF Reduce
    <3>2. QED
      BY <1>1, <2>6, <3>1, DeriveKeeps
  <2>7. CASE s.kind = "default"
    <3>1. q = set_default_expr(r, s)
      BY <1>4, <2>7 DEF Reduce
    <3>2. s.name \in Names
      BY <2>7 DEF Fits, Grammatical
    <3>3. QED
      BY <1>1, <3>1, <3>2, DefaultKeeps
  <2>8. CASE s.kind \in {"require", "prohibit"}
    <3>1. q = requirement_definition(r, s, location, place)
      BY <1>4, <2>8 DEF Reduce
    <3>2. QED
      BY <2>8, <3>1, RequireKeeps
  <2>9. CASE s.kind = "start"
    <3>1. q = start_definition(r, s, location, place)
      BY <1>4, <2>9 DEF Reduce
    <3>2. s.name \in Names
      BY <2>9 DEF Fits, Grammatical
    <3>3. QED
      BY <2>9, <3>1, <3>2, StartKeeps
  <2>10. CASE s.kind = "banner"
    <3>1. q = [r EXCEPT !.banner = s.name]
      BY <1>4, <2>10 DEF Reduce
    <3>2. QED
      BY <1>1, <3>1, BannerKeeps
  <2>11. CASE s.kind = "icon"
    <3>1. q = [r EXCEPT !.icon = TRUE]
      BY <1>4, <2>11 DEF Reduce
    <3>2. QED
      BY <1>1, <3>1, BannerKeeps
  <2>12. CASE s.kind = "condition"
    <3>1. q = condition_declaration(r, s)
      BY <1>4, <2>12 DEF Reduce
    <3>2. QED
      BY <1>1, <3>1, ConditionKeeps
  <2>13. CASE s.kind = "test"
    <3>1. q = test_script_entry(r, s)
      BY <1>4, <2>13 DEF Reduce
    <3>2. QED
      BY <1>1, <3>1, TestKeeps
  <2> HIDE DEF q, Holds
  <2>14. QED
    BY <1>2, <2>1, <2>2, <2>3, <2>4, <2>5, <2>6, <2>7, <2>8, <2>9, <2>10, <2>11, <2>12, <2>13 DEF Kinds
<1> HIDE DEF Holds
<1>5. QED
  BY <1>3, <1>4 DEF Holds

-----------------------------------------------------------------------------
(* The checks.                                                             *)

StartsAtMenu(r) == r.start \in Names /\ r.nodes[r.start].treetype = "menu"

Typed(mn) == mn.treetype \in {"symbol", "derived"} => mn.value_type # "none"

LEMMA StartChecked ==
  ASSUME NEW r, RbShape(r), SoundUnlessWrong(r)
  PROVE  /\ Kept(r, CheckStart(r)) /\ SameRest(r, CheckStart(r))
         /\ CheckStart(r).nodes = r.nodes /\ CheckStart(r).aborted = r.aborted
         /\ ~CheckStart(r).errors => StartsAtMenu(CheckStart(r))
<1> DEFINE bad == \/ r.start = None \/ (r.start # None /\ Node(r, r.start).treetype # "menu")
                  \/ \E f \in DOMAIN r.conditions : ~IsLogical(ConditionType(r, f))
                                                    /\ ConditionType(r, f) # "none"
           q == ErrorIf(bad, r)
<1>1. CheckStart(r) = q
  BY DEF CheckStart
<1>2. bad \in BOOLEAN
  OBVIOUS
<1>3. ~bad => StartsAtMenu(r)
  BY Whole DEF StartsAtMenu, Node
<1> HIDE DEF bad
<1>4. /\ RbShape(q) /\ SameRest(r, q) /\ q.nodes = r.nodes /\ q.aborted = r.aborted
      /\ q.errors = (r.errors \/ bad)
  BY <1>2, Errors
<1> HIDE DEF q
<1>5. QED
  BY <1>1, <1>3, <1>4 DEF Kept, SoundUnlessWrong, StartsAtMenu, SameRest

LEMMA Reported ==
  ASSUME NEW r, RbShape(r), SoundUnlessWrong(r), NEW c \in BOOLEAN
  PROVE  /\ Kept(r, ErrorIf(c, r)) /\ SameRest(r, ErrorIf(c, r))
         /\ ErrorIf(c, r).nodes = r.nodes /\ ErrorIf(c, r).aborted = r.aborted
         /\ c => ErrorIf(c, r).errors
<1> DEFINE q == ErrorIf(c, r)
<1>1. /\ RbShape(q) /\ SameRest(r, q) /\ q.nodes = r.nodes /\ q.aborted = r.aborted
      /\ q.errors = (r.errors \/ c)
  BY Errors
<1> HIDE DEF q
<1>2. Kept(r, q) /\ SameRest(r, q) /\ q.nodes = r.nodes /\ q.aborted = r.aborted /\ (c => q.errors)
  BY <1>1 DEF Kept, SoundUnlessWrong
<1>3. QED
  BY <1>2 DEF q

(* A derived symbol is given a type late.                                  *)
LEMMA LateType ==
  ASSUME NEW r, RbShape(r), SoundUnlessWrong(r), ~r.aborted, NEW n \in Names,
         r.nodes[n].treetype = "derived", r.nodes[n].value_type = "none",
         NEW type, type = expr_get_value_type(Types(r), r.nodes[n].expr)
  PROVE  LET q == [r EXCEPT !.nodes[n].value_type = type]
         IN  /\ Kept(r, q) /\ SameRest(r, q) /\ q.errors = r.errors /\ q.aborted = r.aborted
             /\ q.nodes[n].treetype = "derived" /\ q.nodes[n].value_type = type
             /\ \A m \in Names \ {n} : q.nodes[m] = r.nodes[m]
<1> DEFINE late == [r.nodes[n] EXCEPT !.value_type = type]
           N == [m \in Names |-> IF m = n THEN late ELSE r.nodes[m]]
           q == [r EXCEPT !.nodes[n].value_type = type]
<1>1. \A m \in Names : NodeShape(r.nodes[m])
  BY DEF RbShape, NodesShape
<1>2. r = [nodes |-> r.nodes, rules |-> r.rules, start |-> r.start, start_loc |-> r.start_loc,
          start_place |-> r.start_place, banner |-> r.banner, icon |-> r.icon,
          conditions |-> r.conditions, test_script |-> r.test_script, parsetest |-> r.parsetest,
          errors |-> r.errors, aborted |-> r.aborted]
      /\ r.nodes = [m \in Names |-> r.nodes[m]]
  BY DEF RbShape, NodesShape
<1>3. q = [r EXCEPT !.nodes = N]
  <2>1. [r.nodes EXCEPT ![n] = late] = N
    BY <1>2
  <2>2. [r.nodes EXCEPT ![n].value_type = type] = [r.nodes EXCEPT ![n] = late]
    BY <1>1, <1>2 DEF NodeShape
  <2>3. q = [r EXCEPT !.nodes = [r.nodes EXCEPT ![n].value_type = type]]
    BY <1>2
  <2> HIDE DEF N, q, late
  <2>4. QED
    BY <2>1, <2>2, <2>3
<1>4. N[n] = late /\ (\A m \in Names \ {n} : N[m] = r.nodes[m]) /\ N = [m \in Names |-> N[m]]
  OBVIOUS
<1>5. /\ NodeShape(late) /\ late.treetype = "derived" /\ late.value_type = type
      /\ late.parent = r.nodes[n].parent /\ late.children = r.nodes[n].children
      /\ late.radio = r.nodes[n].radio /\ late.expr = r.nodes[n].expr
  <2> DEFINE mn == r.nodes[n]
  <2>1. NodeShape(mn) /\ mn.treetype = "derived" /\ late = [mn EXCEPT !.value_type = type]
    BY <1>1
  <2> HIDE DEF mn, late
  <2>2. /\ NodeShape(late) /\ late.treetype = "derived" /\ late.value_type = type
        /\ late.parent = mn.parent /\ late.children = mn.children
        /\ late.radio = mn.radio /\ late.expr = mn.expr
    BY <2>1 DEF NodeShape
  <2>3. QED
    BY <2>2 DEF mn
<1> HIDE DEF N, late, q
<1>6. NodesShape(N)
  BY <1>1, <1>4, <1>5 DEF NodesShape
<1>7. /\ RbShape(q) /\ q.nodes = N /\ SameRest(r, q) /\ q.errors = r.errors /\ q.aborted = r.aborted
  BY <1>3, <1>6, NewNodes
<1>8. ASSUME Sound(r.nodes) PROVE Sound(N)
  <2>1. \A m \in Names : TypedNode(r.nodes[m]) /\ PlacedNode(r.nodes[m]) /\ FollowsOther(r.nodes, m)
    BY <1>8 DEF Sound
  <2>2. type \in ValueTypes /\ (r.nodes[n].expr.op = "symbol" => type = r.nodes[r.nodes[n].expr.node].value_type)
    <3>1. CASE r.nodes[n].expr.op = "symbol"
      <4>1. PICK x \in Names : x = r.nodes[n].expr.node
        BY <2>1, <3>1 DEF PlacedNode
      <4>2. type = r.nodes[x].value_type
        BY <3>1, <4>1 DEF expr_get_value_type, Types, Node
      <4>3. QED
        BY <2>1, <4>1, <4>2 DEF TypedNode
    <3>2. CASE r.nodes[n].expr.op # "symbol"
      BY <2>1, <3>2 DEF expr_get_value_type, PlacedNode
    <3>3. QED
      BY <3>1, <3>2
  <2>3. ASSUME NEW m \in Names PROVE TypedNode(N[m]) /\ PlacedNode(N[m])
    <3>1. CASE m = n
      BY <1>4, <1>5, <2>1, <2>2, <3>1 DEF TypedNode, PlacedNode
    <3>2. CASE m # n
      BY <1>4, <2>1, <3>2
    <3>3. QED
      BY <3>1, <3>2
  <2>4. \A m \in Names : N[m].parent = r.nodes[m].parent /\ N[m].radio = r.nodes[m].radio /\ N[m].expr = r.nodes[m].expr
                          /\ N[m].treetype = r.nodes[m].treetype
    BY <1>4, <1>5
  <2>5. ASSUME NEW m \in Names PROVE FollowsOther(N, m)
    <3> SUFFICES ASSUME N[m].treetype = "derived", N[m].expr.op = "symbol", N[m].value_type # "none"
                 PROVE  \/ ChosenIn(N, N[m].expr.node)
                        \/ N[m].value_type = N[N[m].expr.node].value_type
      BY DEF FollowsOther
    <3>1. PICK x \in Names : x = N[m].expr.node
      BY <2>3 DEF PlacedNode
    <3>2. CASE m = n
      <4>1. type = r.nodes[x].value_type /\ N[m].value_type = type
        BY <1>4, <1>5, <2>2, <2>4, <3>1, <3>2
      <4>2. x # n
        BY <4>1
      <4>3. QED
        BY <1>4, <3>1, <4>1, <4>2
    <3>3. CASE m # n
      <4>1. r.nodes[m].value_type = N[m].value_type
        BY <1>4, <3>3
      <4>2. ChosenIn(r.nodes, x) \/ r.nodes[m].value_type = r.nodes[x].value_type
        BY <2>1, <2>4, <3>1, <4>1 DEF FollowsOther
      <4>3. CASE ChosenIn(r.nodes, x)
        <5>1. PICK p \in Names : p = r.nodes[x].parent
          BY <2>1, <4>3 DEF ChosenIn, TypedNode
        <5>2. QED
          BY <2>4, <3>1, <4>3, <5>1 DEF ChosenIn
      <4>4. CASE r.nodes[m].value_type = r.nodes[x].value_type
        <5>1. x # n
          BY <4>1, <4>4
        <5>2. QED
          BY <1>4, <3>1, <4>1, <4>4, <5>1
      <4>5. QED
        BY <4>2, <4>3, <4>4
    <3>4. QED
      BY <3>2, <3>3
  <2>6. QED
    BY <2>3, <2>5 DEF Sound
<1>9. Kept(r, q)
  BY <1>7, <1>8 DEF Kept, SoundUnlessWrong
<1>10. QED
  BY <1>4, <1>5, <1>7, <1>9 DEF q

LEMMA NodeChecked ==
  ASSUME NEW r, RbShape(r), SoundUnlessWrong(r), ~r.aborted, NEW n \in Names,
         NEW q, q = check_menu_node(r, n)
  PROVE  /\ Kept(r, q) /\ SameRest(r, q) /\ q.aborted = r.aborted
         /\ \A m \in Names : /\ q.nodes[m].treetype = r.nodes[m].treetype
                             /\ Typed(r.nodes[m]) => Typed(q.nodes[m])
         /\ ~q.errors => Typed(q.nodes[n])
<1> DEFINE mn == r.nodes[n]
           type == expr_get_value_type(Types(r), mn.expr)
           Holds == /\ Kept(r, q) /\ SameRest(r, q) /\ q.aborted = r.aborted
                    /\ \A m \in Names : /\ q.nodes[m].treetype = r.nodes[m].treetype
                                        /\ Typed(r.nodes[m]) => Typed(q.nodes[m])
                    /\ ~q.errors => Typed(q.nodes[n])
<1> SUFFICES Holds
  OBVIOUS
<1>1. ASSUME Kept(r, q), SameRest(r, q), q.nodes = r.nodes, q.aborted = r.aborted,
             ~q.errors => Typed(mn)
      PROVE  Holds
  BY <1>1
<1>2. CASE mn.treetype = "unknown"
  <2>1. q = ErrorIf(TRUE, r)
    BY <1>2 DEF check_menu_node, Node, yyerror
  <2>2. Kept(r, q) /\ SameRest(r, q) /\ q.nodes = r.nodes /\ q.aborted = r.aborted /\ q.errors
    BY <2>1, Reported
  <2>3. QED
    BY <1>1, <2>2
<1>3. CASE mn.treetype = "menu"
  <2> DEFINE c == \/ mn.expr_count > 0
                  \/ n \notin {r.start, r.banner} /\ mn.parent = None
                  \/ mn.saveability_expr # NullExpr
  <2>1. q = ErrorIf(c, r)
    BY <1>3 DEF check_menu_node, Node
  <2>2. c \in BOOLEAN /\ Typed(mn)
    BY <1>3 DEF Typed
  <2> HIDE DEF c, Holds, mn
  <2>3. Kept(r, q) /\ SameRest(r, q) /\ q.nodes = r.nodes /\ q.aborted = r.aborted
    BY <2>1, <2>2, Reported
  <2>4. QED
    BY <1>1, <2>2, <2>3
<1>4. CASE mn.treetype = "symbol"
  <2> DEFINE c == \/ mn.parent = None
                  \/ /\ mn.visibility_expr # NullExpr
                     /\ expr_get_value_type(Types(r), mn.visibility_expr) # "boolean"
  <2>1. q = ErrorIf(c, r)
    BY <1>4 DEF check_menu_node, Node
  <2>2. c \in BOOLEAN
    OBVIOUS
  <2>3. ASSUME ~r.errors, ~c PROVE Typed(mn)
    <3>1. PlacedNode(mn)
      BY <2>3 DEF SoundUnlessWrong, Sound
    <3>2. QED
      BY <1>4, <2>3, <3>1 DEF PlacedNode, Typed
  <2> HIDE DEF c, Holds, mn
  <2>4. Kept(r, q) /\ SameRest(r, q) /\ q.nodes = r.nodes /\ q.aborted = r.aborted /\ (c => q.errors)
    BY <2>1, <2>2, Reported
  <2>5. r.errors => q.errors
    BY <2>4 DEF Kept
  <2>6. QED
    BY <1>1, <2>3, <2>4, <2>5
<1>5. CASE mn.treetype = "explanation"
  <2> DEFINE c == mn.expr_count > 0 \/ mn.parent # None \/ mn.saveability_expr # NullExpr
  <2>1. q = ErrorIf(c, r)
    BY <1>5 DEF check_menu_node, Node
  <2>2. c \in BOOLEAN /\ Typed(mn)
    BY <1>5 DEF Typed
  <2> HIDE DEF c, Holds, mn
  <2>3. Kept(r, q) /\ SameRest(r, q) /\ q.nodes = r.nodes /\ q.aborted = r.aborted
    BY <2>1, <2>2, Reported
  <2>4. QED
    BY <1>1, <2>2, <2>3
<1>6. CASE mn.treetype = "derived" /\ mn.value_type # "none"
  <2> DEFINE c == \/ mn.visibility_expr # NullExpr \/ mn.parent # None
                  \/ mn.value_type = "none" /\ type = "none"
  <2>1. q = ErrorIf(c, r)
    BY <1>6 DEF check_menu_node, Node
  <2>2. c \in BOOLEAN /\ Typed(mn)
    BY <1>6 DEF Typed
  <2> HIDE DEF c, Holds, mn
  <2>3. Kept(r, q) /\ SameRest(r, q) /\ q.nodes = r.nodes /\ q.aborted = r.aborted
    BY <2>1, <2>2, Reported
  <2>4. QED
    BY <1>1, <2>2, <2>3
<1>7. CASE mn.treetype = "derived" /\ mn.value_type = "none"
  <2> DEFINE c == \/ mn.visibility_expr # NullExpr \/ mn.parent # None
                  \/ mn.value_type = "none" /\ type = "none"
             p == [r EXCEPT !.nodes[n].value_type = type]
             o == ErrorIf(c, p)
  <2>1. q = o
    BY <1>7 DEF check_menu_node, Node
  <2>2. c \in BOOLEAN /\ (type = "none" => c)
    BY <1>7
  <2> HIDE DEF c
  <2>3. /\ Kept(r, p) /\ SameRest(r, p) /\ p.errors = r.errors /\ p.aborted = r.aborted
        /\ p.nodes[n].treetype = "derived" /\ p.nodes[n].value_type = type
        /\ \A m \in Names \ {n} : p.nodes[m] = r.nodes[m]
    BY <1>7, LateType
  <2> HIDE DEF p, type
  <2>4. RbShape(p) /\ SoundUnlessWrong(p)
    BY <2>3 DEF Kept
  <2>5. /\ Kept(p, o) /\ SameRest(p, o) /\ o.nodes = p.nodes /\ o.aborted = p.aborted /\ (c => o.errors)
    BY <2>2, <2>4, Reported
  <2> HIDE DEF o
  <2>6. Kept(r, o) /\ SameRest(r, o) /\ o.aborted = r.aborted
    BY <2>3, <2>5, KeptTwice DEF SameRest
  <2>7. \A m \in Names : o.nodes[m].treetype = r.nodes[m].treetype
    BY <1>7, <2>3, <2>5
  <2>8. ASSUME NEW m \in Names, Typed(r.nodes[m]) PROVE Typed(o.nodes[m])
    <3>1. m # n
      BY <1>7, <2>8 DEF Typed
    <3>2. QED
      BY <2>3, <2>5, <2>8, <3>1
  <2>9. ~o.errors => Typed(o.nodes[n])
    BY <2>2, <2>3, <2>5 DEF Typed
  <2>10. QED
    BY <2>1, <2>6, <2>7, <2>8, <2>9
<1>8. mn.treetype \in TreeTypes
  BY DEF RbShape, NodesShape, NodeShape
<1> HIDE DEF Holds, mn
<1>9. QED
  BY <1>2, <1>3, <1>4, <1>5, <1>6, <1>7, <1>8 DEF TreeTypes, Holds

(* The rules that the dependencies come to, told symbol by symbol.         *)
RulesFor(r) ==
  \A s, d \in Names :
    /\ r.nodes[s].treetype = "symbol"
    /\ Comparable(r.nodes[s].value_type, r.nodes[d].value_type)
    /\ \E m \in Names : s \in {m} \cup Below(r.nodes, m) /\ d \in r.nodes[m].dependees
    => \E rule \in r.rules : rule.expr = DependencyRule(s, d)

AllTyped(r) == \A n \in Names : Typed(r.nodes[n])

Complete(r) == StartsAtMenu(r) /\ AllTyped(r) /\ ~Circular(r.nodes) /\ RulesFor(r)

LEMMA InDependencies ==
  ASSUME NEW nodes, NEW s \in Names, NEW d \in Names, NEW m \in Names,
         nodes[s].treetype = "symbol", Comparable(nodes[s].value_type, nodes[d].value_type),
         s \in {m} \cup Below(nodes, m), d \in nodes[m].dependees
  PROVE  DependencyRule(s, d) \in Dependencies(nodes)
<1> DEFINE below == [n \in Names |-> {n} \cup Below(nodes, n)]
           of(x) == UNION {nodes[n].dependees : n \in {k \in Names : x \in below[k]}}
           pairs == {q \in Names \X Names : /\ nodes[q[1]].treetype = "symbol"
                                            /\ Comparable(nodes[q[1]].value_type, nodes[q[2]].value_type)
                                            /\ q[2] \in of(q[1])}
<1>1. Dependencies(nodes) = {DependencyRule(p[1], p[2]) : p \in pairs}
  BY DEF Dependencies, DependencyRules
<1>2. d \in of(s)
  <2>1. m \in {k \in Names : s \in below[k]}
    OBVIOUS
  <2> HIDE DEF below
  <2>2. QED
    BY <2>1
<1> HIDE DEF of
<1>3. <<s, d>> \in pairs
  BY <1>2
<1> HIDE DEF pairs
<1>4. QED
  BY <1>1, <1>3

LEMMA Converted ==
  ASSUME NEW r, RbShape(r), SoundUnlessWrong(r), NEW q, q = ConvertAndCheckRules(r)
  PROVE  /\ Kept(r, q) /\ (Located(r) => Located(q))
         /\ ~q.aborted /\ StartsAtMenu(r) /\ AllTyped(r) => Complete(q)
<1> DEFINE rules == r.rules \cup {Rule(e, NoLocation, NoLocation) : e \in Dependencies(r.nodes)}
           p == [r EXCEPT !.rules = rules]
           uses == {using_rule(p.nodes, rule.expr) : rule \in p.rules}
           bad == (\E rule \in p.rules : ~check_rule(p, rule)) \/ (\E use \in uses : use.loop)
           end == Circular(r.nodes) \/ (\E use \in uses : use.deep)
           o == _mn_add_using_rule(p)
           N == [n \in Names |-> [p.nodes[n] EXCEPT !.rules_using =
                   {rule \in p.rules : n \in using_rule(p.nodes, rule.expr).symbols}]]
<1>1. q = IF end THEN Abort(r) ELSE ErrorIf(bad, o)
  BY DEF ConvertAndCheckRules
<1>2. bad \in BOOLEAN
  OBVIOUS
<1>3. o = [p EXCEPT !.nodes = N]
  BY DEF _mn_add_using_rule
<1>4. ~end => ~Circular(r.nodes)
  OBVIOUS
<1>5. /\ \A rule \in r.rules : rule \in rules
      /\ \A rule \in rules : rule \in r.rules \/ rule.location = rule.place
      /\ \A e \in Dependencies(r.nodes) : \E rule \in rules : rule.expr = e
  <2>1. \A e : /\ Rule(e, NoLocation, NoLocation).location = Rule(e, NoLocation, NoLocation).place
               /\ Rule(e, NoLocation, NoLocation).expr = e
    BY DEF Rule
  <2>2. QED
    BY <2>1
<1> HIDE DEF rules, bad, end
<1>6. r = [nodes |-> r.nodes, rules |-> r.rules, start |-> r.start, start_loc |->
          r.start_loc, start_place |-> r.start_place, banner |-> r.banner, icon |-> r.icon,
          conditions |-> r.conditions, test_script |-> r.test_script, parsetest |->
          r.parsetest, errors |-> r.errors, aborted |-> r.aborted]
      /\ r.start \in Names \cup {None}
  BY Whole
<1>7. p = [nodes |-> r.nodes, rules |-> rules, start |-> r.start, start_loc |-> r.start_loc,
          start_place |-> r.start_place, banner |-> r.banner, icon |-> r.icon, conditions
          |-> r.conditions, test_script |-> r.test_script, parsetest |-> r.parsetest, errors
          |-> r.errors, aborted |-> r.aborted]
  BY <1>6
<1> HIDE DEF p
<1>8. p.rules = rules /\ p.start = r.start /\ p.start_loc = r.start_loc /\ p.start_place = r.start_place
      /\ p.nodes = r.nodes /\ p.aborted = r.aborted
  BY <1>7
<1>9. Kept(r, p)
  BY <1>6, <1>7, <1>8, NewRest
<1>10. RbShape(p) /\ SoundUnlessWrong(p)
  BY <1>9 DEF Kept
<1>11. ASSUME NEW n \in Names
       PROVE  /\ NodeShape(N[n]) /\ SameNode(p.nodes[n], N[n])
              /\ N[n].dependees = p.nodes[n].dependees
  <2> DEFINE mn == p.nodes[n]
             using == {rule \in p.rules : n \in using_rule(p.nodes, rule.expr).symbols}
             m == [mn EXCEPT !.rules_using = using]
  <2>1. NodeShape(mn) /\ N[n] = m
    BY <1>10 DEF RbShape, NodesShape
  <2> HIDE DEF mn, using, N
  <2>2. NodeShape(m) /\ SameNode(mn, m) /\ m.dependees = mn.dependees
    BY <2>1 DEF NodeShape, SameNode
  <2> HIDE DEF m
  <2>3. QED
    BY <2>1, <2>2 DEF mn
<1>12. NodesShape(N)
  <2>1. N = [n \in Names |-> N[n]]
    OBVIOUS
  <2> HIDE DEF N
  <2>2. QED
    BY <1>11, <2>1 DEF NodesShape
<1> HIDE DEF N, uses
<1>13. /\ RbShape(o) /\ o.nodes = N /\ SameRest(p, o) /\ o.errors = p.errors /\ o.aborted = p.aborted
  BY <1>3, <1>10, <1>12, NewNodes
<1> HIDE DEF o
<1>14. Kept(p, o)
  BY <1>10, <1>11, <1>13, SameKept
<1>15. RbShape(o) /\ SoundUnlessWrong(o)
  BY <1>14 DEF Kept
<1> DEFINE z == ErrorIf(bad, o)
<1>16. Kept(o, z) /\ SameRest(o, z) /\ z.nodes = o.nodes /\ z.aborted = o.aborted
  BY <1>2, <1>15, Reported
<1> HIDE DEF z
<1>17. Kept(r, z) /\ z.rules = rules /\ z.nodes = N /\ z.start = r.start
  BY <1>8, <1>9, <1>13, <1>14, <1>16, KeptTwice DEF SameRest
<1>18. Located(r) => Located(z)
  BY <1>5, <1>8, <1>13, <1>16, <1>17 DEF Located, SameRest
<1>19. \A n \in Names : SameNode(r.nodes[n], z.nodes[n]) /\ z.nodes[n].dependees = r.nodes[n].dependees
  BY <1>8, <1>11, <1>17
<1>20. ASSUME ~end, StartsAtMenu(r), AllTyped(r) PROVE Complete(z)
  <2>1. StartsAtMenu(z) /\ AllTyped(z)
    BY <1>17, <1>19, <1>20 DEF StartsAtMenu, AllTyped, Typed, SameNode
  <2>2. Steps(z.nodes) = Steps(r.nodes)
    BY <1>19 DEF Steps, SameNode
  <2>3. \A n : Below(z.nodes, n) = Below(r.nodes, n)
    BY <2>2 DEF Below
  <2>4. ~Circular(z.nodes)
    BY <1>4, <1>20, <2>3 DEF Circular
  <2>5. RulesFor(z)
    <3> SUFFICES ASSUME NEW s \in Names, NEW d \in Names, NEW m \in Names,
                        z.nodes[s].treetype = "symbol",
                        Comparable(z.nodes[s].value_type, z.nodes[d].value_type),
                        s \in {m} \cup Below(z.nodes, m), d \in z.nodes[m].dependees
                 PROVE  \E rule \in z.rules : rule.expr = DependencyRule(s, d)
      BY DEF RulesFor
    <3>1. /\ r.nodes[s].treetype = "symbol"
          /\ Comparable(r.nodes[s].value_type, r.nodes[d].value_type)
      BY <1>19 DEF SameNode
    <3>2. s \in {m} \cup Below(r.nodes, m) /\ d \in r.nodes[m].dependees
      BY <1>19, <2>3
    <3>3. DependencyRule(s, d) \in Dependencies(r.nodes)
      BY <3>1, <3>2, InDependencies
    <3>4. QED
      BY <1>5, <1>17, <3>3
  <2>6. QED
    BY <2>1, <2>4, <2>5 DEF Complete
<1>21. CASE end
  BY <1>1, <1>21, Aborted DEF Located, SameRest
<1>22. CASE ~end
  <2>1. q = z
    BY <1>1, <1>22 DEF z
  <2>2. QED
    BY <1>17, <1>18, <1>20, <1>22, <2>1
<1>23. QED
  BY <1>21, <1>22

-----------------------------------------------------------------------------
(* The inductive invariant: the rulebase has its shape and is sound until  *)
(* an error is reported; an error that was reported shows in the count or  *)
(* in the result of the parse; and a rulebase that got past a check        *)
(* without an error has what the check looks for.                          *)

Phases == {"reading", "post_parse", "checking", "parsed", "testing", "verdict", "end"}

ShapeInv ==
  /\ text \in Texts
  /\ phase \in Phases
  /\ RbShape(rb)
  /\ SoundUnlessWrong(rb)
  /\ pending # <<>> => pending[1].statement \in Statements(text)
  /\ todo \subseteq Names
  /\ failed \in BOOLEAN
  /\ wrong \in BOOLEAN

ErrorsInv ==
  /\ wrong => (rb.errors \/ failed)
  /\ (phase = "end" /\ ~failed) => ~rb.errors

ChecksInv ==
  /\ phase \in {"post_parse", "checking", "testing", "verdict", "end"} => ~rb.aborted
  /\ (phase = "checking" /\ ~rb.errors) => (StartsAtMenu(rb) /\ \A n \in Names \ todo : Typed(rb.nodes[n]))
  /\ (phase \in {"parsed", "testing", "verdict", "end"} /\ ~failed /\ ~rb.errors /\ ~rb.aborted)
       => Complete(rb)

IInv == ShapeInv /\ ErrorsInv /\ ChecksInv

LEMMA TextFits ==
  ASSUME NEW t \in Texts, NEW s \in Statements(t)
  PROVE  Fits(s)
BY TextsAssumption DEF Fits

LEMMA RunKeeps ==
  ASSUME NEW state, RbShape(state.rulebase), SoundUnlessWrong(state.rulebase),
         NEW w, Fits(w.statement)
  PROVE  Kept(state.rulebase, Run(state, w).rulebase)
<1>1. Run(state, w).rulebase =
        Reduce(state.rulebase, w.statement, state.buffer.slots[state.buffer.out], w.place)
  BY DEF Run
<1>2. QED
  BY <1>1, ReduceKeeps

LEMMA SettledKeeps ==
  ASSUME ShapeInv, NEW state, state.rulebase = rb
  PROVE  Kept(rb, Settled(state).rulebase)
<1>1. CASE pending = <<>>
  BY <1>1 DEF Settled, ShapeInv, Kept
<1>2. CASE pending # <<>>
  <2>1. Fits(pending[1].statement)
    BY <1>2, TextFits DEF ShapeInv
  <2>2. Settled(state) = Run(state, pending[1])
    BY <1>2 DEF Settled
  <2>3. QED
    BY <2>1, <2>2, RunKeeps DEF ShapeInv
<1>3. QED
  BY <1>1, <1>2

LEMMA InitSound == Init => IInv
<1> SUFFICES ASSUME Init PROVE IInv
  OBVIOUS
<1>1. RbShape(rb) /\ rb.errors = FALSE /\ rb.aborted = FALSE /\ rb.nodes = [n \in Names |-> mn_new]
  <2> DEFINE N == [n \in Names |-> mn_new]
             f == FALSE
  <2>1. NodesShape(N)
    BY DEF NodesShape, NodeShape, mn_new, TreeTypes
  <2> HIDE DEF N
  <2>2. rb = [nodes |-> N, rules |-> {}, start |-> None, start_loc |-> NoLocation,
              start_place |-> NoLocation, banner |-> None, icon |-> f, conditions |-> [x \in {} |-> "none"],
              test_script |-> <<>>, parsetest |-> f, errors |-> f, aborted |-> f]
    BY DEF Init, cml_rulebase_new, N
  <2>3. f \in BOOLEAN
    OBVIOUS
  <2> DEFINE conditions == [x \in {} |-> "none"]
  <2> HIDE DEF f, conditions
  <2>4. RbShape(rb) /\ rb.errors = f /\ rb.aborted = f /\ rb.nodes = N
    BY <2>1, <2>2, <2>3 DEF RbShape
  <2>5. QED
    BY <2>4 DEF N, f
<1>2. Sound(rb.nodes)
  <2>1. \A n \in Names : rb.nodes[n] = mn_new
    BY <1>1
  <2> DEFINE mn == mn_new
  <2>5. /\ mn.treetype = "unknown" /\ mn.value_type = "none" /\ mn.parent = None /\ mn.children = {}
        /\ mn.radio = FALSE
    BY DEF mn_new
  <2> HIDE DEF mn
  <2>6. TypedNode(mn)
    BY <2>5 DEF TypedNode, TreeTypes, ValueTypes
  <2>7. PlacedNode(mn)
    BY <2>5 DEF PlacedNode
  <2>2. \A n \in Names : TypedNode(rb.nodes[n]) /\ PlacedNode(rb.nodes[n])
    BY <2>1, <2>6, <2>7 DEF mn
  <2>3. \A n \in Names : FollowsOther(rb.nodes, n)
    BY <2>1 DEF FollowsOther, mn_new
  <2>4. QED
    BY <2>2, <2>3 DEF Sound
<1>3. ShapeInv
  BY <1>1, <1>2 DEF Init, ShapeInv, SoundUnlessWrong, Phases
<1>4. ErrorsInv /\ ChecksInv
  BY <1>1 DEF Init, ErrorsInv, ChecksInv
<1>5. QED
  BY <1>3, <1>4 DEF IInv

LEMMA Input1 ==
  ASSUME IInv, phase = "reading", NEW syntax_error \in BOOLEAN, EndOfInput(syntax_error)
  PROVE  IInv'
<1> DEFINE end == Settled(State)
           r == IF syntax_error THEN yyerror(end.rulebase) ELSE end.rulebase
<1>1. Kept(rb, end.rulebase)
  <2>1. State.rulebase = rb
    BY DEF State
  <2>2. QED
    BY <2>1, SettledKeeps DEF IInv
<1>2. Kept(end.rulebase, r) /\ (syntax_error => r.errors)
  <2>1. RbShape(end.rulebase) /\ SoundUnlessWrong(end.rulebase)
    BY <1>1 DEF Kept
  <2> DEFINE e == end.rulebase
  <2> HIDE DEF e
  <2>2. Kept(e, ErrorIf(TRUE, e)) /\ ErrorIf(TRUE, e).errors
    BY <2>1, Reported DEF e
  <2>3. Kept(e, e)
    BY <2>1 DEF Kept, e
  <2>4. QED
    BY <2>2, <2>3 DEF e, yyerror
<1> HIDE DEF end
<1>3. Kept(rb, r)
  BY <1>1, <1>2, KeptTwice
<1>4. rb' = r /\ pending' = <<>> /\ wrong' = (wrong \/ r.errors) /\ failed' = (failed \/ syntax_error)
      /\ phase' = (IF syntax_error \/ r.aborted THEN "parsed" ELSE "post_parse")
      /\ text' = text /\ todo' = todo
  BY DEF EndOfInput, end
<1> HIDE DEF r
<1>5. ShapeInv'
  <2>1. RbShape(rb') /\ SoundUnlessWrong(rb') /\ rb'.errors \in BOOLEAN
    BY <1>3, <1>4 DEF Kept, RbShape
  <2>2. failed' \in BOOLEAN /\ wrong' \in BOOLEAN
    BY <1>4, <2>1 DEF IInv, ShapeInv
  <2>3. QED
    BY <1>4, <2>1, <2>2 DEF IInv, ShapeInv, Phases
<1>6. ErrorsInv'
  BY <1>3, <1>4 DEF IInv, ErrorsInv, Kept
<1>7. ChecksInv'
  BY <1>2, <1>4 DEF ChecksInv
<1>8. QED
  BY <1>5, <1>6, <1>7 DEF IInv

LEMMA Read1 == ASSUME IInv, NEW s \in Statements(text), Read(s) PROVE IInv'
<1> DEFINE begun == [State EXCEPT !.buffer = IF Starts(s) THEN statement_start(@) ELSE @]
           before == Settled(begun)
           after == IF Waits(s) THEN before ELSE Run(before, Waiting(s))
<1>1. begun.rulebase = rb
  BY DEF State
<1> HIDE DEF begun
<1>2. Kept(rb, before.rulebase)
  BY <1>1, SettledKeeps DEF IInv
<1>3. RbShape(before.rulebase) /\ SoundUnlessWrong(before.rulebase)
  BY <1>2 DEF Kept
<1> HIDE DEF before
<1>4. Kept(rb, after.rulebase)
  <2>1. CASE Waits(s)
    BY <1>2, <2>1
  <2>2. CASE ~Waits(s)
    <3>1. Waiting(s).statement = s
      BY DEF Waiting
    <3>2. Fits(s)
      BY TextFits DEF IInv, ShapeInv
    <3>3. Kept(before.rulebase, Run(before, Waiting(s)).rulebase)
      BY <1>3, <3>1, <3>2, RunKeeps
    <3>4. QED
      BY <1>2, <2>2, <3>3, KeptTwice
  <2>3. QED
    BY <2>1, <2>2
<1>5. rb' = after.rulebase /\ wrong' = (wrong \/ rb'.errors)
  BY DEF Read, before, begun
<1> HIDE DEF after
<1>6. /\ phase = "reading" /\ phase' = phase /\ text' = text /\ todo' = todo /\ failed' = failed
      /\ pending' = IF Waits(s) THEN <<Waiting(s)>> ELSE <<>>
  BY DEF Read
<1>7. pending' # <<>> => pending'[1].statement = s
  BY <1>6 DEF Waiting
<1>8. ShapeInv'
  <2>1. RbShape(rb') /\ SoundUnlessWrong(rb') /\ rb'.errors \in BOOLEAN
    BY <1>4, <1>5 DEF Kept, RbShape
  <2>2. wrong' \in BOOLEAN
    BY <1>5, <2>1 DEF IInv, ShapeInv
  <2>3. QED
    BY <1>6, <1>7, <2>1, <2>2 DEF IInv, ShapeInv
<1>9. ErrorsInv'
  <2>1. wrong => rb.errors \/ failed
    BY DEF IInv, ErrorsInv
  <2>2. rb.errors => rb'.errors
    BY <1>4, <1>5 DEF Kept
  <2>3. wrong' => wrong \/ rb'.errors
    BY <1>5
  <2>4. wrong' => rb'.errors \/ failed'
    BY <2>1, <2>2, <2>3, <1>6
  <2>5. QED
    BY <1>6, <2>4 DEF ErrorsInv
<1>10. ChecksInv'
  BY <1>6 DEF ChecksInv
<1>11. QED
  BY <1>8, <1>9, <1>10 DEF IInv

LEMMA SyntaxError1 == IInv /\ SyntaxError => IInv'
BY Input1 DEF SyntaxError

LEMMA EndOfFile1 == IInv /\ EndOfFile => IInv'
<1> SUFFICES ASSUME IInv, EndOfFile PROVE IInv'
  OBVIOUS
<1>1. CASE Len(source_stack) > 1
  <2>1. UNCHANGED <<text, pending, rb, phase, todo, failed, wrong>>
    BY <1>1 DEF EndOfFile
  <2>2. QED
    BY <2>1 DEF IInv, ShapeInv, ErrorsInv, ChecksInv
<1>2. CASE ~(Len(source_stack) > 1)
  BY <1>2, Input1 DEF EndOfFile
<1>3. QED
  BY <1>1, <1>2

LEMMA Source1 == ASSUME IInv, NEW file, Source(file) PROVE IInv'
<1>1. UNCHANGED <<text, pending, rb, phase, todo, failed, wrong>>
  BY DEF Source
<1>2. QED
  BY <1>1 DEF IInv, ShapeInv, ErrorsInv, ChecksInv

LEMMA SourceFails1 == IInv /\ SourceFails => IInv'
<1> SUFFICES ASSUME IInv, SourceFails PROVE IInv'
  OBVIOUS
<1> DEFINE e == Settled(State).rulebase
           r == yyerror(e)
<1>1. Kept(rb, e)
  <2>1. State.rulebase = rb
    BY DEF State
  <2>2. QED
    BY <2>1, SettledKeeps DEF IInv
<1> HIDE DEF e
<1>2. Kept(e, r) /\ r.errors
  <2>1. RbShape(e) /\ SoundUnlessWrong(e)
    BY <1>1 DEF Kept
  <2>2. QED
    BY <2>1, Reported DEF yyerror
<1>3. rb' = r /\ pending' = <<>> /\ wrong' = TRUE /\ phase' = (IF r.aborted THEN "parsed" ELSE "post_parse")
      /\ text' = text /\ todo' = todo /\ failed' = failed /\ phase = "reading"
  BY DEF SourceFails, e
<1> HIDE DEF r
<1>4. ShapeInv'
  <2>1. RbShape(rb') /\ SoundUnlessWrong(rb')
    BY <1>2, <1>3 DEF Kept
  <2>2. QED
    BY <1>3, <2>1 DEF IInv, ShapeInv, Phases
<1>5. ErrorsInv' /\ ChecksInv'
  BY <1>2, <1>3 DEF ErrorsInv, ChecksInv
<1>6. QED
  BY <1>4, <1>5 DEF IInv

(* The steps of the checks and of the test script.                         *)
LEMMA ShapeStays ==
  ASSUME ShapeInv, Kept(rb, rb'), Unread, todo' \subseteq Names, failed' \in BOOLEAN,
         wrong' \in BOOLEAN, phase' \in Phases
  PROVE  ShapeInv'
BY DEF ShapeInv, Kept, Unread

LEMMA StillTold ==
  ASSUME ErrorsInv, wrong' => wrong \/ rb'.errors, rb.errors => rb'.errors, failed => failed',
         phase' # "end"
  PROVE  ErrorsInv'
BY DEF ErrorsInv

LEMMA StartCheck1 == IInv /\ StartCheck => IInv'
<1> SUFFICES ASSUME IInv, StartCheck PROVE IInv'
  OBVIOUS
<1>1. /\ phase = "post_parse" /\ rb' = CheckStart(rb) /\ todo' = Met(rb) /\ phase' = "checking"
      /\ wrong' = (wrong \/ rb'.errors) /\ failed' = failed /\ Unread
  BY DEF StartCheck
<1>2. ShapeInv /\ ErrorsInv /\ ChecksInv /\ ~rb.aborted
  BY <1>1 DEF IInv, ErrorsInv, ChecksInv
<1>3. /\ Kept(rb, rb') /\ rb'.nodes = rb.nodes /\ ~rb'.aborted
      /\ ~rb'.errors => StartsAtMenu(rb')
  BY <1>1, <1>2, StartChecked DEF ShapeInv
<1>4. ShapeInv'
  BY <1>1, <1>2, <1>3, ShapeStays DEF Met, Phases, ShapeInv
<1>5. ErrorsInv'
  BY <1>1, <1>2, <1>3, StillTold DEF Kept
<1>6. \A n \in Names \ todo' : Typed(rb'.nodes[n])
  <2>1. \A n \in Names \ todo' : rb'.nodes[n] = mn_new
    BY <1>1, <1>3 DEF Met, Node
  <2>2. mn_new.treetype = "unknown"
    BY DEF mn_new
  <2>3. QED
    BY <2>1, <2>2 DEF Typed
<1>7. ChecksInv'
  BY <1>1, <1>3, <1>6 DEF ChecksInv
<1>8. QED
  BY <1>4, <1>5, <1>7 DEF IInv

LEMMA CheckNode1 == ASSUME IInv, NEW n \in Names, CheckNode(n) PROVE IInv'
<1>1. /\ phase = "checking" /\ rb' = check_menu_node(rb, n) /\ todo' = todo \ {n} /\ phase' = phase
      /\ wrong' = (wrong \/ rb'.errors) /\ failed' = failed /\ Unread
  BY DEF CheckNode
<1>2. ShapeInv /\ ErrorsInv /\ ChecksInv /\ ~rb.aborted
  BY <1>1 DEF IInv, ErrorsInv, ChecksInv
<1>3. /\ Kept(rb, rb') /\ SameRest(rb, rb') /\ rb'.aborted = rb.aborted
      /\ \A m \in Names : /\ rb'.nodes[m].treetype = rb.nodes[m].treetype
                          /\ Typed(rb.nodes[m]) => Typed(rb'.nodes[m])
      /\ ~rb'.errors => Typed(rb'.nodes[n])
  <2>1. RbShape(rb) /\ SoundUnlessWrong(rb) /\ ~rb.aborted /\ rb' = check_menu_node(rb, n)
    BY <1>1, <1>2 DEF ShapeInv
  <2> DEFINE q == rb'
  <2> HIDE DEF q
  <2>2. /\ Kept(rb, q) /\ SameRest(rb, q) /\ q.aborted = rb.aborted
        /\ \A m \in Names : /\ q.nodes[m].treetype = rb.nodes[m].treetype
                            /\ Typed(rb.nodes[m]) => Typed(q.nodes[m])
        /\ ~q.errors => Typed(q.nodes[n])
    <3>1. q = check_menu_node(rb, n)
      BY <2>1 DEF q
    <3>2. QED
      BY <2>1, <3>1, NodeChecked
  <2>3. QED
    BY <2>2 DEF q
<1>4. ShapeInv'
  <2>1. todo' \subseteq Names /\ failed' \in BOOLEAN /\ phase' \in Phases /\ wrong' \in BOOLEAN
    BY <1>1, <1>2 DEF ShapeInv, Phases
  <2>2. QED
    BY <1>1, <1>2, <1>3, <2>1, ShapeStays
<1>5. ErrorsInv'
  BY <1>1, <1>2, <1>3, StillTold DEF Kept
<1>6. ChecksInv'
  <2>1. SUFFICES ASSUME ~rb'.errors
                 PROVE  StartsAtMenu(rb') /\ \A m \in Names \ todo' : Typed(rb'.nodes[m])
    BY <1>1, <1>2, <1>3 DEF ChecksInv
  <2>2. StartsAtMenu(rb) /\ \A m \in Names \ todo : Typed(rb.nodes[m])
    BY <1>1, <1>2, <1>3, <2>1 DEF ChecksInv, Kept
  <2>3. StartsAtMenu(rb')
    BY <1>3, <2>2 DEF StartsAtMenu, SameRest
  <2>4. QED
    BY <1>1, <1>3, <2>1, <2>2, <2>3
<1>7. QED
  BY <1>4, <1>5, <1>6 DEF IInv

LEMMA CheckRules1 == IInv /\ CheckRules => IInv'
<1> SUFFICES ASSUME IInv, CheckRules PROVE IInv'
  OBVIOUS
<1>1. /\ phase = "checking" /\ todo = {} /\ rb' = ConvertAndCheckRules(rb) /\ todo' = todo
      /\ phase' = "parsed" /\ failed' = (failed \/ rb'.errors)
      /\ wrong' = (wrong \/ rb'.errors) /\ Unread
  BY DEF CheckRules
<1>2. ShapeInv /\ ErrorsInv /\ ChecksInv
  BY <1>1 DEF IInv, ErrorsInv
<1>3. Kept(rb, rb') /\ (~rb'.aborted /\ StartsAtMenu(rb) /\ AllTyped(rb) => Complete(rb'))
  BY <1>1, <1>2, Converted DEF ShapeInv
<1>4. rb'.errors \in BOOLEAN
  BY <1>3 DEF Kept, RbShape
<1>5. ShapeInv'
  BY <1>1, <1>2, <1>3, <1>4, ShapeStays DEF Phases
<1>6. ErrorsInv'
  BY <1>1, <1>2, <1>3, StillTold DEF Kept
<1>7. ChecksInv'
  <2>1. SUFFICES ASSUME ~rb'.errors, ~rb'.aborted
                 PROVE  Complete(rb')
    BY <1>1 DEF ChecksInv
  <2>2. StartsAtMenu(rb) /\ AllTyped(rb)
    BY <1>1, <1>2, <1>3, <2>1 DEF ChecksInv, Kept, AllTyped
  <2>3. QED
    BY <1>3, <2>1, <2>2
<1>8. QED
  BY <1>5, <1>6, <1>7 DEF IInv

LEMMA StartTest1 == IInv /\ StartTest => IInv'
<1> SUFFICES ASSUME IInv, StartTest PROVE IInv'
  OBVIOUS
<1>1. /\ phase = "parsed" /\ ~rb.aborted /\ phase' \in {"testing", "verdict"} /\ Unread
      /\ UNCHANGED <<rb, todo, failed, wrong>>
  BY DEF StartTest
<1>2. ShapeInv'
  BY <1>1 DEF IInv, ShapeInv, Unread, Phases
<1>3. ErrorsInv' /\ ChecksInv'
  BY <1>1 DEF IInv, ErrorsInv, ChecksInv
<1>4. QED
  BY <1>2, <1>3 DEF IInv

LEMMA TestPassed1 == IInv /\ TestPassed => IInv'
<1> SUFFICES ASSUME IInv, TestPassed PROVE IInv'
  OBVIOUS
<1>1. /\ phase = "testing" /\ phase' = "verdict" /\ Unread
      /\ UNCHANGED <<rb, todo, failed, wrong>>
  BY DEF TestPassed
<1>2. ShapeInv'
  BY <1>1 DEF IInv, ShapeInv, Unread, Phases
<1>3. ErrorsInv' /\ ChecksInv'
  BY <1>1 DEF IInv, ErrorsInv, ChecksInv
<1>4. QED
  BY <1>2, <1>3 DEF IInv

LEMMA TestStep1 == IInv /\ TestStep => IInv'
<1> SUFFICES ASSUME IInv, TestStep PROVE IInv'
  OBVIOUS
<1>1. phase = "testing" /\ Unread /\ todo' = todo
  BY DEF TestStep
<1>2. ShapeInv /\ ErrorsInv /\ ChecksInv /\ ~rb.aborted
  BY <1>1 DEF IInv, ErrorsInv, ChecksInv
<1>3. RbShape(rb) /\ SoundUnlessWrong(rb)
  BY <1>2 DEF ShapeInv
<1>4. (\E success \in {TRUE, FALSE, script.success} : Goes(success)) \/ CheckFails \/ SetReports \/ FreezeFallsThrough
  BY DEF TestStep, Check
<1>5. ASSUME NEW success, Goes(success)
      PROVE  IInv'
  <2>1. UNCHANGED <<rb, phase, failed, wrong>>
    BY <1>5 DEF Goes
  <2>2. QED
    BY <1>1, <2>1 DEF IInv, ShapeInv, ErrorsInv, ChecksInv, Unread
<1>6. Kept(rb, yyerror(rb)) /\ yyerror(rb).errors /\ yyerror(rb).aborted = rb.aborted
  BY <1>3, Reported DEF yyerror
<1>7. CASE CheckFails
  <2>1. rb' = yyerror(rb) /\ wrong' = TRUE /\ failed' = TRUE /\ phase' = "verdict"
    BY <1>7 DEF CheckFails
  <2>2. ShapeInv'
    BY <1>1, <1>2, <1>6, <2>1, ShapeStays DEF Phases, ShapeInv
  <2>3. ErrorsInv' /\ ChecksInv'
    BY <1>1, <1>2, <1>6, <2>1 DEF ErrorsInv, ChecksInv
  <2>4. QED
    BY <2>2, <2>3 DEF IInv
<1>8. CASE SetReports
  <2>1. rb' = yyerror(rb) /\ wrong' = TRUE /\ failed' = failed /\ phase' = phase
    BY <1>8 DEF SetReports
  <2>2. ShapeInv'
    BY <1>1, <1>2, <1>6, <2>1, ShapeStays DEF Phases, ShapeInv
  <2>3. ErrorsInv' /\ ChecksInv'
    BY <1>1, <1>2, <1>6, <2>1 DEF ErrorsInv, ChecksInv
  <2>4. QED
    BY <2>2, <2>3 DEF IInv
<1>9. CASE FreezeFallsThrough
  <2>1. rb' = Abort(rb) /\ wrong' = wrong /\ failed' = failed /\ phase' = "parsed"
    BY <1>9 DEF FreezeFallsThrough
  <2>2. Kept(rb, rb') /\ rb'.errors = rb.errors /\ rb'.aborted
    BY <1>3, <2>1, Aborted
  <2>3. ShapeInv'
    BY <1>1, <1>2, <2>1, <2>2, ShapeStays DEF Phases, ShapeInv
  <2>4. ErrorsInv' /\ ChecksInv'
    BY <1>1, <1>2, <2>1, <2>2 DEF ErrorsInv, ChecksInv
  <2>5. QED
    BY <2>3, <2>4 DEF IInv
<1>10. QED
  BY <1>4, <1>5, <1>7, <1>8, <1>9

LEMMA Verdict1 == IInv /\ Verdict => IInv'
<1> SUFFICES ASSUME IInv, Verdict PROVE IInv'
  OBVIOUS
<1>1. /\ phase = "verdict" /\ phase' = "end" /\ Unread
      /\ failed' = (failed \/ rb.errors) /\ UNCHANGED <<rb, todo, wrong>>
  BY DEF Verdict
<1>2. rb.errors \in BOOLEAN
  BY DEF IInv, ShapeInv, RbShape
<1>3. ShapeInv'
  BY <1>1, <1>2 DEF IInv, ShapeInv, Unread, Phases
<1>4. ErrorsInv' /\ ChecksInv'
  BY <1>1 DEF IInv, ErrorsInv, ChecksInv
<1>5. QED
  BY <1>3, <1>4 DEF IInv

LEMMA StepPreserves == IInv /\ [Next]_vars => IInv'
<1> SUFFICES ASSUME IInv, [Next]_vars PROVE IInv'
  OBVIOUS
<1>1. CASE Source("more.cml") \/ SourceFails \/ SyntaxError \/ EndOfFile
  BY <1>1, Source1, SourceFails1, SyntaxError1, EndOfFile1
<1>2. ASSUME NEW s \in Statements(text), Read(s)
      PROVE  IInv'
  BY <1>2, Read1
<1>3. CASE StartCheck \/ CheckRules \/ StartTest \/ TestPassed \/ TestStep \/ Verdict
  BY <1>3, StartCheck1, CheckRules1, StartTest1, TestPassed1, TestStep1, Verdict1
<1>4. ASSUME NEW n \in Names, CheckNode(n)
      PROVE  IInv'
  BY <1>4, CheckNode1
<1>5. CASE UNCHANGED vars
  BY <1>5 DEF vars, IInv, ShapeInv, ErrorsInv, ChecksInv
<1>6. QED
  BY <1>1, <1>2, <1>3, <1>4, <1>5 DEF Next

(* In every state that the CML2 parser gets to, whatever the rulebase      *)
(* says, the inductive invariant holds: an error that was reported shows   *)
(* in the count or in the result (rb_inc_errors, cml_rulebase_parse), and  *)
(* the rulebase has the shape and the checks' results that go with where   *)
(* the parse is.                                                           *)
THEOREM Invariance == Spec => []IInv
<1>1. Init => IInv
  BY InitSound
<1>2. IInv /\ [Next]_vars => IInv'
  BY StepPreserves
<1>3. QED
  BY <1>1, <1>2, PTL DEF Spec

-----------------------------------------------------------------------------
(* What the invariant comes to.                                            *)

LEMMA AcceptedIsComplete ==
  ASSUME IInv, Accepted
  PROVE  Complete(rb) /\ Sound(rb.nodes)
<1>1. phase = "end" /\ ~failed /\ ~rb.errors
  BY DEF IInv, ErrorsInv, Accepted
<1>2. ~rb.aborted
  BY <1>1 DEF IInv, ChecksInv
<1>3. QED
  BY <1>1, <1>2 DEF IInv, ShapeInv, ChecksInv, SoundUnlessWrong

(* A rulebase that the parser accepts has a start menu, no menu inside     *)
(* itself, a type for every symbol, and derived symbols of the type of     *)
(* what they are derived from (check_menu_node, conv_dep_to_rule_2).       *)
THEOREM AcceptedRulebasesAreWhole == Spec => []AcceptedIsWhole
<1>1. IInv => AcceptedIsWhole
  <2>1. SUFFICES ASSUME IInv, Accepted
                 PROVE  /\ rb.start # None /\ rb.nodes[rb.start].treetype = "menu"
                        /\ ~Circular(rb.nodes)
                        /\ \A n \in Names :
                             rb.nodes[n].treetype \in {"symbol", "derived"} => rb.nodes[n].value_type # "none"
                        /\ \A n \in Names :
                             rb.nodes[n].treetype = "derived" /\ rb.nodes[n].expr.op = "symbol" =>
                               \/ InChoices(rb.nodes[n].expr.node)
                               \/ rb.nodes[n].value_type = rb.nodes[rb.nodes[n].expr.node].value_type
    BY DEF AcceptedIsWhole
  <2>2. Complete(rb) /\ Sound(rb.nodes)
    BY <2>1, AcceptedIsComplete
  <2>3. rb.start # None /\ rb.nodes[rb.start].treetype = "menu" /\ ~Circular(rb.nodes)
    BY <2>2, NoneAssumption DEF Complete, StartsAtMenu
  <2>4. \A n \in Names :
          rb.nodes[n].treetype \in {"symbol", "derived"} => rb.nodes[n].value_type # "none"
    BY <2>2 DEF Complete, AllTyped, Typed
  <2>5. ASSUME NEW n \in Names, rb.nodes[n].treetype = "derived", rb.nodes[n].expr.op = "symbol"
        PROVE  \/ InChoices(rb.nodes[n].expr.node)
               \/ rb.nodes[n].value_type = rb.nodes[rb.nodes[n].expr.node].value_type
    BY <2>2, <2>4, <2>5 DEF Sound, FollowsOther, ChosenIn, InChoices
  <2>6. QED
    BY <2>3, <2>4, <2>5
<1>2. QED
  BY <1>1, Invariance, PTL

(* Where a name is in the menu that is its parent, what is above it is     *)
(* what it is below.                                                       *)
LEMMA AncestorsAbove ==
  ASSUME Sound(rb.nodes), InOneMenu, NEW s \in Names, NEW n \in Ancestors(s)
  PROVE  n \in Names /\ s \in {n} \cup Below(rb.nodes, n)
<1> DEFINE above == [m \in Names |-> {p \in Names : p = rb.nodes[m].parent /\ ~rb.nodes[p].radio}]
           S == {m \in Names : s \in {m} \cup Below(rb.nodes, m)}
           steps == Steps(rb.nodes)
<1>1. n \in Reachable(above, {s})
  BY DEF Ancestors
<1>2. ASSUME NEW m \in S, NEW p \in above[m]
      PROVE  p \in S
  <2>1. m \in Names /\ p \in Names /\ p = rb.nodes[m].parent /\ ~rb.nodes[p].radio
    BY <1>2
  <2>2. m \in rb.nodes[p].children
    BY <2>1, NoneAssumption DEF InOneMenu, Parents
  <2>3. rb.nodes[p].treetype = "menu"
    BY <2>1, <2>2 DEF Sound, PlacedNode
  <2>4. m \in steps[p]
    BY <2>1, <2>2, <2>3 DEF Steps
  <2>5. s = m \/ s \in Reachable(steps, steps[m])
    BY <1>2 DEF Below
  <2> HIDE DEF steps
  <2>6. ASSUME NEW T \in SUBSET Names, steps[p] \subseteq T, \A k \in T : steps[k] \subseteq T
        PROVE  s \in T
    <3>1. m \in T /\ steps[m] \subseteq T
      BY <2>4, <2>6
    <3>2. CASE s = m
      BY <3>1, <3>2
    <3>3. CASE s \in Reachable(steps, steps[m])
      BY <3>1, <3>3, <2>6 DEF Reachable
    <3>4. QED
      BY <2>5, <3>2, <3>3
  <2>7. s \in Reachable(steps, steps[p])
    BY <2>6 DEF Reachable
  <2>8. QED
    BY <2>1, <2>7 DEF Below, steps
<1>3. S \in SUBSET Names /\ {s} \subseteq S
  OBVIOUS
<1> HIDE DEF S, above
<1>4. n \in Names /\ n \in S
  BY <1>1, <1>2, <1>3 DEF Reachable
<1>5. QED
  BY <1>4 DEF S

(* In an accepted rulebase every symbol has a rule that it is at most what *)
(* it, or a menu above it, depends on (conv_dep_to_rule_1 and _2).         *)
THEOREM DependenciesBecomeRules == Spec => []DependenciesAreRules
<1>1. IInv => DependenciesAreRules
  <2>1. SUFFICES ASSUME IInv, Accepted, InOneMenu, NEW s \in Names, NEW d \in Names,
                        rb.nodes[s].treetype = "symbol",
                        NEW n \in Ancestors(s), d \in rb.nodes[n].dependees,
                        Comparable(rb.nodes[s].value_type, rb.nodes[d].value_type)
                 PROVE  \E rule \in rb.rules : rule.expr = DependencyRule(s, d)
    BY DEF DependenciesAreRules
  <2>2. Complete(rb) /\ Sound(rb.nodes)
    BY <2>1, AcceptedIsComplete
  <2>3. n \in Names /\ s \in {n} \cup Below(rb.nodes, n)
    BY <2>1, <2>2, AncestorsAbove
  <2>4. QED
    BY <2>1, <2>2, <2>3 DEF Complete, RulesFor
<1>2. QED
  BY <1>1, Invariance, PTL

-----------------------------------------------------------------------------
(* The locations: as long as no derive statement and no icon has been      *)
(* read, the lexer knows the line it is at, and the buffer has the place   *)
(* of the statement that waits, if it takes one, and nothing else.         *)

Files == {"rules.cml", "more.cml"}

Lines == {l \in [file : Files, line : Nat, at : Nat] : l.line = l.at}

Buffer(f) ==
  /\ f = [slots |-> f.slots, in |-> f.in, out |-> f.out]
  /\ f.slots = [i \in 0..1 |-> f.slots[i]]
  /\ f.in \in 0..1 /\ f.out \in 0..1

Holds(f, place) == f.in = PlaceAfter(f.out) /\ f.slots[f.out] = place

Queued(f, waiting) ==
  IF waiting # <<>> /\ Takes(waiting[1].statement) THEN Holds(f, waiting[1].place) ELSE f.in = f.out

LocInv ==
  ~displaced =>
    /\ Located(rb)
    /\ phase = "reading" =>
         source_stack \in Seq(Lines) /\ Buffer(fifo) /\ Queued(fifo, pending)

LEMMA LineRead ==
  ASSUME NEW stack \in Seq(Lines), stack # <<>>
  PROVE  NextLine(stack, 1) \in Seq(Lines)
<1> DEFINE l == stack[1]
           m == [file |-> l.file, line |-> l.line + 1, at |-> l.at + 1]
           half == [stack EXCEPT ![1].line = @ + 1]
<1>1. 1 \in 1..Len(stack) /\ stack = [i \in 1..Len(stack) |-> stack[i]]
  OBVIOUS
<1>2. l \in [file : Files, line : Nat, at : Nat] /\ l.line = l.at
  BY <1>1 DEF Lines
<1>3. m \in Lines
  BY <1>2 DEF Lines
<1>4. half = [stack EXCEPT ![1] = [l EXCEPT !.line = @ + 1]]
  BY <1>1
<1>5. NextLine(stack, 1) = [half EXCEPT ![1] = [half[1] EXCEPT !.at = @ + 1]]
  BY DEF NextLine
<1>6. half[1] = [l EXCEPT !.line = @ + 1]
  BY <1>1, <1>4
<1>7. [[l EXCEPT !.line = @ + 1] EXCEPT !.at = @ + 1] = m
  <2> DEFINE k == [file |-> l.file, line |-> l.line + 1, at |-> l.at]
  <2>1. [l EXCEPT !.line = @ + 1] = k
    BY <1>2
  <2>2. [k EXCEPT !.at = @ + 1] = m
    OBVIOUS
  <2>3. QED
    BY <2>1, <2>2
<1> HIDE DEF l, m, half
<1>8. NextLine(stack, 1) = [half EXCEPT ![1] = m]
  BY <1>5, <1>6, <1>7
<1>9. NextLine(stack, 1) = [stack EXCEPT ![1] = m]
  BY <1>1, <1>4, <1>8
<1>10. QED
  BY <1>1, <1>3, <1>9

LEMMA Started ==
  ASSUME NEW f, Buffer(f), NEW place, yylocation = place
  PROVE  LET q == statement_start(f)
         IN  /\ Buffer(q) /\ q.in = PlaceAfter(f.in) /\ q.out = f.out /\ q.slots[f.in] = place
             /\ \A i \in 0..1 : i # f.in => q.slots[i] = f.slots[i]
<1> DEFINE a == f.slots
           b == [a EXCEPT ![f.in] = place]
<1>1. a = [i \in 0..1 |-> a[i]] /\ f.in \in 0..1 /\ f.out \in 0..1
      /\ f = [slots |-> a, in |-> f.in, out |-> f.out]
  BY DEF Buffer
<1>2. statement_start(f) = [f EXCEPT !.slots = b, !.in = PlaceAfter(f.in)]
  BY DEF statement_start
<1>3. b = [i \in 0..1 |-> b[i]] /\ b[f.in] = place /\ \A i \in 0..1 : i # f.in => b[i] = a[i]
  BY <1>1
<1> HIDE DEF a, b
<1>4. statement_start(f) = [slots |-> b, in |-> PlaceAfter(f.in), out |-> f.out]
  BY <1>1, <1>2
<1>5. PlaceAfter(f.in) \in 0..1
  BY <1>1 DEF PlaceAfter, STATEMENT_FIFO_MAX
<1>6. QED
  BY <1>1, <1>3, <1>4, <1>5 DEF Buffer, a

LEMMA Taken ==
  ASSUME NEW f, Buffer(f)
  PROVE  LET q == statement_taken(f)
         IN  Buffer(q) /\ q.in = f.in /\ q.out = PlaceAfter(f.out) /\ q.slots = f.slots
<1>1. statement_taken(f) = [slots |-> f.slots, in |-> f.in, out |-> PlaceAfter(f.out)]
  BY DEF statement_taken, Buffer
<1>2. PlaceAfter(f.out) \in 0..1
  BY DEF PlaceAfter, STATEMENT_FIFO_MAX, Buffer
<1>3. QED
  BY <1>1, <1>2 DEF Buffer

LEMMA TwoPlaces == \A i \in 0..1 : PlaceAfter(i) # i /\ PlaceAfter(i) \in 0..1 /\ PlaceAfter(PlaceAfter(i)) = i
BY DEF PlaceAfter, STATEMENT_FIFO_MAX

(* A statement is acted upon.                                              *)
LEMMA RunLocated ==
  ASSUME NEW state, RbShape(state.rulebase), SoundUnlessWrong(state.rulebase),
         Located(state.rulebase), NEW w, Fits(w.statement),
         Takes(w.statement) => state.buffer.slots[state.buffer.out] = w.place
  PROVE  Located(Run(state, w).rulebase)
<1>1. Run(state, w).rulebase =
        Reduce(state.rulebase, w.statement, state.buffer.slots[state.buffer.out], w.place)
  BY DEF Run
<1>2. w.statement.kind \in {"require", "prohibit", "start"} =>
        state.buffer.slots[state.buffer.out] = w.place
  BY DEF Takes, Starts
<1>3. QED
  BY <1>1, <1>2, ReduceKeeps

LEMMA SettledLocated ==
  ASSUME ShapeInv, Located(rb), NEW state, state.rulebase = rb,
         pending # <<>> /\ Takes(pending[1].statement) =>
           state.buffer.slots[state.buffer.out] = pending[1].place
  PROVE  Located(Settled(state).rulebase)
<1>1. CASE pending = <<>>
  BY <1>1 DEF Settled
<1>2. CASE pending # <<>>
  <2>1. Fits(pending[1].statement)
    BY <1>2, TextFits DEF ShapeInv
  <2>2. Settled(state) = Run(state, pending[1])
    BY <1>2 DEF Settled
  <2>3. QED
    BY <1>2, <2>1, <2>2, RunLocated DEF ShapeInv
<1>3. QED
  BY <1>1, <1>2

LEMMA InputLocated ==
  ASSUME IInv, LocInv, phase = "reading", NEW syntax_error \in BOOLEAN, EndOfInput(syntax_error)
  PROVE  LocInv'
<1> DEFINE e == Settled(State).rulebase
           r == IF syntax_error THEN yyerror(e) ELSE e
<1>1. rb' = r /\ displaced' = displaced /\ phase' # "reading"
  BY DEF EndOfInput
<1>2. SUFFICES ASSUME ~displaced
               PROVE  Located(r)
  BY <1>1 DEF LocInv
<1>3. State.rulebase = rb /\ State.buffer = fifo
  BY DEF State
<1>4. Located(e) /\ Kept(rb, e)
  BY <1>2, <1>3, SettledLocated, SettledKeeps DEF IInv, LocInv, Queued, Holds
<1> HIDE DEF e
<1>5. RbShape(e) /\ SoundUnlessWrong(e)
  BY <1>4 DEF Kept
<1>6. SameRest(e, yyerror(e))
  BY <1>5, Reported DEF yyerror
<1>7. QED
  BY <1>4, <1>6 DEF Located, SameRest

LEMMA ReadLocated ==
  ASSUME IInv, LocInv, NEW s \in Statements(text), Read(s)
  PROVE  LocInv'
<1> DEFINE begun == [State EXCEPT !.buffer = IF Starts(s) THEN statement_start(@) ELSE @]
           before == Settled(begun)
           w == Waiting(s)
           after == IF Waits(s) THEN before ELSE Run(before, w)
<1>1. /\ phase = "reading" /\ source_stack # <<>> /\ phase' = phase
      /\ rb' = after.rulebase /\ fifo' = after.buffer
      /\ pending' = IF Waits(s) THEN <<w>> ELSE <<>>
      /\ displaced' = (displaced \/ s.kind \in {"derive", "icon"})
      /\ source_stack' = NextLine(source_stack, LinesOf(s))
  BY DEF Read
<1>2. SUFFICES ASSUME ~displaced, s.kind \notin {"derive", "icon"}
               PROVE  /\ Located(after.rulebase) /\ source_stack' \in Seq(Lines)
                      /\ Buffer(after.buffer) /\ Queued(after.buffer, pending')
  BY <1>1 DEF LocInv
<1>3. /\ ShapeInv /\ Located(rb) /\ source_stack \in Seq(Lines)
      /\ Buffer(fifo) /\ Queued(fifo, pending)
  BY <1>1, <1>2 DEF LocInv, IInv
<1>4. LinesOf(s) = 1 /\ (Takes(s) <=> Starts(s))
  BY <1>2 DEF LinesOf, Takes
<1>5. source_stack' \in Seq(Lines)
  BY <1>1, <1>3, <1>4, LineRead
<1>6. w = [statement |-> s, place |-> Place] /\ yylocation = Place
  <2>1. source_stack[1] \in Lines
    BY <1>1, <1>3
  <2>2. QED
    BY <2>1 DEF Waiting, Place, yylocation, Lines
<1>7. Fits(s)
  BY <1>3, TextFits DEF ShapeInv
<1>8. begun.rulebase = rb /\ begun.buffer = IF Starts(s) THEN statement_start(fifo) ELSE fifo
  BY DEF State
<1> DEFINE f == begun.buffer
           waits == pending # <<>> /\ Takes(pending[1].statement)
<1>9. /\ Buffer(f) /\ f.out = fifo.out
      /\ f.in = IF Starts(s) THEN PlaceAfter(fifo.in) ELSE fifo.in
      /\ Starts(s) => f.slots[fifo.in] = Place
      /\ waits => f.slots[f.out] = pending[1].place
  <2>1. fifo.in \in 0..1 /\ fifo.out \in 0..1
    BY <1>3 DEF Buffer
  <2>2. waits => fifo.in # fifo.out /\ fifo.slots[fifo.out] = pending[1].place
    BY <1>3, <2>1, TwoPlaces DEF Queued, Holds
  <2>3. CASE Starts(s)
    BY <1>3, <1>6, <1>8, <2>1, <2>2, <2>3, Started
  <2>4. CASE ~Starts(s)
    BY <1>3, <1>8, <2>1, <2>2, <2>4
  <2>5. QED
    BY <2>3, <2>4
<1> HIDE DEF begun, w
<1>10. Located(before.rulebase) /\ Kept(rb, before.rulebase)
  BY <1>3, <1>8, <1>9, SettledLocated, SettledKeeps
<1>11. Buffer(before.buffer) /\ IF Takes(s) THEN Holds(before.buffer, Place)
                                ELSE before.buffer.in = before.buffer.out
  <2> DEFINE g == before.buffer
  <2>1. fifo.in \in 0..1 /\ fifo.out \in 0..1
    BY <1>3 DEF Buffer
  <2>2. CASE waits
    <3>1. before = Run(begun, pending[1])
      BY <2>2 DEF Settled
    <3>2. g = statement_taken(f)
      BY <2>2, <3>1 DEF Run
    <3>3. Buffer(g) /\ g.in = f.in /\ g.out = PlaceAfter(fifo.out) /\ g.slots = f.slots
      BY <1>9, <3>2, Taken
    <3>4. fifo.in = PlaceAfter(fifo.out)
      BY <1>3, <2>2 DEF Queued, Holds
    <3> HIDE DEF g
    <3>5. IF Takes(s) THEN Holds(g, Place) ELSE g.in = g.out
      BY <1>4, <1>9, <2>1, <3>3, <3>4, TwoPlaces DEF Holds
    <3>6. QED
      BY <3>3, <3>5 DEF g
  <2>3. CASE ~waits
    <3>1. g = f
      BY <2>3 DEF Settled, Run
    <3>2. fifo.in = fifo.out
      BY <1>3, <2>3 DEF Queued
    <3>3. QED
      BY <1>4, <1>9, <2>1, <3>1, <3>2 DEF Holds
  <2>4. QED
    BY <2>2, <2>3
<1> HIDE DEF before
<1>12. CASE Waits(s)
  <2>1. after = before /\ pending' = <<w>>
    BY <1>1, <1>12
  <2>2. pending'[1] = w /\ pending' # <<>>
    BY <2>1
  <2>3. Queued(before.buffer, pending')
    BY <1>6, <1>11, <2>2 DEF Queued
  <2>4. QED
    BY <1>5, <1>10, <1>11, <2>1, <2>3
<1>13. CASE ~Waits(s)
  <2>1. after = Run(before, w) /\ pending' = <<>>
    BY <1>1, <1>13
  <2>2. RbShape(before.rulebase) /\ SoundUnlessWrong(before.rulebase)
    BY <1>10 DEF Kept
  <2>3. w.statement = s /\ w.place = Place
    BY <1>6
  <2>4. Takes(s) => before.buffer.slots[before.buffer.out] = Place
    BY <1>11 DEF Holds
  <2>5. Located(after.rulebase)
    BY <1>7, <1>10, <2>1, <2>2, <2>3, <2>4, RunLocated
  <2>6. after.buffer = IF Takes(s) THEN statement_taken(before.buffer) ELSE before.buffer
    BY <2>1, <2>3 DEF Run
  <2>7. Buffer(after.buffer) /\ after.buffer.in = after.buffer.out
    BY <1>11, <2>6, Taken DEF Holds
  <2>8. QED
    BY <1>5, <2>1, <2>5, <2>7 DEF Queued
<1>14. QED
  BY <1>12, <1>13

(* What neither reads nor changes the rules and the start leaves the       *)
(* locations be.                                                           *)
LEMMA StaysLocated ==
  ASSUME LocInv, Located(rb) => Located(rb'), displaced' = displaced,
         \/ phase' # "reading"
         \/ phase = "reading" /\ source_stack' \in Seq(Lines)
            /\ fifo' = fifo /\ pending' = pending
  PROVE  LocInv'
BY DEF LocInv

LEMMA ChecksLocated ==
  ASSUME IInv, LocInv,
         \/ StartCheck \/ CheckRules \/ StartTest \/ TestPassed \/ TestStep \/ Verdict
         \/ \E n \in Names : CheckNode(n)
  PROVE  LocInv'
<1>1. RbShape(rb) /\ SoundUnlessWrong(rb)
  BY DEF IInv, ShapeInv
<1>2. displaced' = displaced /\ phase' # "reading"
  BY DEF StartCheck, CheckRules, StartTest, TestPassed, TestStep, Verdict, CheckNode, Check, Goes,
         CheckFails, SetReports, FreezeFallsThrough, Unread
<1>3. Located(rb) => Located(rb')
  <2>1. CASE StartCheck
    <3>1. SameRest(rb, rb')
      BY <1>1, <2>1, StartChecked DEF StartCheck
    <3>2. QED
      BY <3>1 DEF SameRest, Located
  <2>2. CASE CheckRules
    <3>1. rb' = ConvertAndCheckRules(rb)
      BY <2>2 DEF CheckRules
    <3>2. QED
      BY <1>1, <3>1, Converted
  <2>3. CASE StartTest \/ TestPassed \/ Verdict
    BY <2>3 DEF StartTest, TestPassed, Verdict
  <2>4. CASE TestStep
    <3>1. rb' = rb \/ rb' = yyerror(rb) \/ rb' = Abort(rb)
      BY <2>4 DEF TestStep, Check, Goes, CheckFails, SetReports, FreezeFallsThrough
    <3>2. SameRest(rb, yyerror(rb)) /\ SameRest(rb, Abort(rb))
      BY <1>1, Reported, Aborted DEF yyerror
    <3>3. QED
      BY <3>1, <3>2 DEF SameRest, Located
  <2>5. ASSUME NEW n \in Names, CheckNode(n)
        PROVE  Located(rb) => Located(rb')
    <3>1. rb' = check_menu_node(rb, n) /\ ~rb.aborted
      <4>1. phase = "checking" /\ rb' = check_menu_node(rb, n)
        BY <2>5 DEF CheckNode
      <4>2. QED
        BY <4>1 DEF IInv, ChecksInv
    <3>2. SameRest(rb, rb')
      BY <1>1, <3>1, NodeChecked
    <3>3. QED
      BY <3>2 DEF SameRest, Located
  <2>6. QED
    BY <2>1, <2>2, <2>3, <2>4, <2>5
<1>4. QED
  BY <1>2, <1>3, StaysLocated

LEMMA FilesLocated ==
  ASSUME IInv, LocInv,
         Source("more.cml") \/ SyntaxError \/ SourceFails \/ EndOfFile
  PROVE  LocInv'
<1>1. Opened("more.cml") \in Lines
  BY DEF Opened, Lines, Files
<1>2. CASE Source("more.cml")
  <2>1. /\ phase = "reading" /\ phase' = phase /\ source_stack # <<>>
        /\ source_stack' = <<Opened("more.cml")>> \o NextLine(source_stack, 1)
        /\ UNCHANGED <<rb, displaced, fifo, pending>>
    BY <1>2 DEF Source
  <2>2. CASE displaced
    BY <2>1, <2>2 DEF LocInv
  <2>3. CASE ~displaced
    <3>1. NextLine(source_stack, 1) \in Seq(Lines)
      BY <2>1, <2>3, LineRead DEF LocInv
    <3>2. <<Opened("more.cml")>> \in Seq(Lines)
      BY <1>1
    <3>3. source_stack' \in Seq(Lines)
      <4>1. \A S, a, b : a \in Seq(S) /\ b \in Seq(S) => a \o b \in Seq(S)
        OBVIOUS
      <4>2. QED
        BY <2>1, <3>1, <3>2, <4>1
    <3>4. QED
      BY <2>1, <3>3, StaysLocated
  <2>4. QED
    BY <2>2, <2>3
<1>3. CASE SyntaxError
  BY <1>3, InputLocated DEF SyntaxError
<1>4. CASE SourceFails
  <2> DEFINE e == Settled(State).rulebase
  <2>1. rb' = yyerror(e) /\ displaced' = displaced /\ phase' # "reading" /\ phase = "reading"
    BY <1>4 DEF SourceFails
  <2>2. SUFFICES ASSUME ~displaced
                 PROVE  Located(yyerror(e))
    BY <2>1 DEF LocInv
  <2>3. State.rulebase = rb /\ State.buffer = fifo
    BY DEF State
  <2>4. Located(e) /\ Kept(rb, e)
    BY <2>1, <2>2, <2>3, SettledLocated, SettledKeeps DEF IInv, LocInv, Queued, Holds
  <2> HIDE DEF e
  <2>5. SameRest(e, yyerror(e))
    BY <2>4, Reported DEF Kept, yyerror
  <2>6. QED
    BY <2>4, <2>5 DEF Located, SameRest
<1>5. CASE EndOfFile
  <2>1. phase = "reading" /\ source_stack # <<>> /\ source_stack' = Tail(source_stack)
    BY <1>5 DEF EndOfFile
  <2>2. CASE Len(source_stack) > 1
    <3>1. UNCHANGED <<rb, displaced, phase, fifo, pending>>
      BY <1>5, <2>2 DEF EndOfFile
    <3>2. ~displaced => source_stack' \in Seq(Lines)
      BY <2>1 DEF LocInv
    <3>3. QED
      BY <3>1, <3>2 DEF LocInv
  <2>3. CASE ~(Len(source_stack) > 1)
    BY <1>5, <2>1, <2>3, InputLocated DEF EndOfFile
  <2>4. QED
    BY <2>2, <2>3
<1>6. QED
  BY <1>2, <1>3, <1>4, <1>5

LEMMA InitLocated == Init => LocInv
<1> SUFFICES ASSUME Init PROVE LocInv
  OBVIOUS
<1>1. rb.rules = {} /\ rb.start = None
  BY DEF Init, cml_rulebase_new
<1>2. fifo = statement_init /\ pending = <<>> /\ source_stack = <<Opened("rules.cml")>>
  BY DEF Init
<1>3. Buffer(statement_init) /\ statement_init.in = statement_init.out
  BY DEF Buffer, statement_init
<1>4. Opened("rules.cml") \in Lines
  BY DEF Opened, Lines, Files
<1>5. source_stack \in Seq(Lines)
  BY <1>2, <1>4
<1>6. QED
  BY <1>1, <1>2, <1>3, <1>5 DEF LocInv, Located, Queued

(* The location of each rule and of the start menu is where its statement  *)
(* starts, as long as no derive statement and no icon has been read        *)
(* (statement_start, statement_get_location, cml2_lexer.l).                *)
THEOREM LocationsAreRead == Spec => []LocatedWhereRead
<1>1. Init => LocInv
  BY InitLocated
<1>2. IInv /\ LocInv /\ [Next]_vars => LocInv'
  <2> SUFFICES ASSUME IInv, LocInv, [Next]_vars PROVE LocInv'
    OBVIOUS
  <2>1. ASSUME NEW s \in Statements(text), Read(s)
        PROVE  LocInv'
    BY <2>1, ReadLocated
  <2>2. CASE UNCHANGED vars
    BY <2>2 DEF vars, LocInv
  <2>3. QED
    BY <2>1, <2>2, FilesLocated, ChecksLocated DEF Next
<1>3. LocInv => LocatedWhereRead
  BY DEF LocInv, Located, LocatedWhereRead
<1>4. QED
  BY <1>1, <1>2, <1>3, Invariance, PTL DEF Spec

-----------------------------------------------------------------------------
(***************************************************************************)
(* The ranges that the statements declare: what holds of one for every     *)
(* value of ULONG_MAX, when it is built from the subranges that TidySpec   *)
(* allows: the list stays in its normal form, range_check() accepts only   *)
(* what was added, and accepts all of what was just added.                 *)
(***************************************************************************)
Tidy == [begin : Numbers, end : 0..ULONG_MAX - 1]

Apart(r) ==
  /\ \A k \in DOMAIN r : r[k].begin <= r[k].end
  /\ \A j, k \in DOMAIN r : j < k => r[j].end + 1 < r[k].begin

RangeIInv == RangeTypeOK /\ SubrangesApart /\ OnlyAdded
-----------------------------------------------------------------------------
\* A nonempty set of naturals has a least element, which CHOOSE finds: among
\* the sets 1..k of its members k, one has no other as a strict subset.
LEMMA LeastIsLeast ==
  ASSUME NEW S, S \subseteq Nat, S # {}
  PROVE  LeastOf(S) \in S /\ \A j \in S : LeastOf(S) <= j
<1> DEFINE R == StrictSubsetOrdering(Nat)
           T == {1..k : k \in S}
<1>1. IsWellFoundedOn(R, FiniteSubsetsOf(Nat))
  BY FS_StrictSubsetOrderingWellFounded
<1>2. T \subseteq FiniteSubsetsOf(Nat)
  <2>1. \A k \in S : 1..k \subseteq Nat /\ IsFiniteSet(1..k)
    BY FS_Interval
  <2> QED BY <2>1 DEF FiniteSubsetsOf
<1>3. T # {}
  OBVIOUS
<1> HIDE DEF T
<1>4. \E x \in T : \A y \in T : ~(<<y, x>> \in R)
  BY <1>1, <1>2, <1>3, WFMin
<1> USE DEF T
<1>5. \A j, k \in Nat : j < k => <<1..j, 1..k>> \in R
  <2>1. ASSUME NEW j \in Nat, NEW k \in Nat, j < k
        PROVE  1..j \subseteq 1..k /\ 1..j # 1..k
    <3>1. k \in 1..k /\ k \notin 1..j
      BY <2>1
    <3> QED BY <2>1, <3>1
  <2>2. \A j \in Nat : 1..j \in SUBSET Nat
    OBVIOUS
  <2> QED BY <2>1, <2>2 DEF StrictSubsetOrdering
<1>6. \E k \in S : \A j \in S : ~(<<1..j, 1..k>> \in R)
  BY <1>4
<1>7. \E k \in S : \A j \in S : k <= j
  <2>1. PICK k \in S : \A j \in S : ~(<<1..j, 1..k>> \in R)
    BY <1>6
  <2>2. ASSUME NEW j \in S PROVE k <= j
    <3>1. ~(<<1..j, 1..k>> \in R)
      BY <2>1
    <3>2. j \in Nat /\ k \in Nat
      OBVIOUS
    <3>3. ~(j < k)
      BY <1>5, <3>1, <3>2
    <3> HIDE DEF R, T
    <3> QED BY <3>2, <3>3
  <2> QED BY <2>2
<1> QED BY <1>7 DEF LeastOf
-----------------------------------------------------------------------------
\* The types of the numbers in a list of subranges.
LEMMA Ends ==
  ASSUME NEW r \in Seq(Tidy), NEW k \in DOMAIN r
  PROVE  /\ r[k].begin \in Nat /\ r[k].end \in Nat
         /\ r[k].begin <= ULONG_MAX /\ r[k].end < ULONG_MAX
         /\ Succ(r[k].end) = r[k].end + 1
<1>1. r[k] \in Tidy
  OBVIOUS
<1>2. r[k].begin \in 0..ULONG_MAX /\ r[k].end \in 0..ULONG_MAX - 1
  BY <1>1 DEF Tidy, Numbers
<1> QED BY <1>2, UlongMaxAssumption DEF Succ

\* A subrange where the first loop goes on lies below b and not next to it.
LEMMA Passed ==
  ASSUME NEW r \in Seq(Tidy), Apart(r), NEW k \in DOMAIN r, NEW b \in Numbers,
         ~Stops(r[k], b)
  PROVE  r[k].begin <= r[k].end /\ r[k].end + 1 < b
<1>1. r[k].begin <= r[k].end
  BY DEF Apart
<1>2. b \in Nat
  BY UlongMaxAssumption DEF Numbers
<1>3. ~in_subrange(r[k], b) /\ b # r[k].end + 1 /\ ~(b < r[k].begin)
  BY Ends DEF Stops
<1> QED BY <1>1, <1>2, <1>3, Ends DEF in_subrange

\* range_add() when no subrange stops the first loop: b is beyond the last.
LEMMA AppendedRange ==
  ASSUME NEW r \in Seq(Tidy), Apart(r), NEW b \in Numbers, NEW e \in b..ULONG_MAX - 1,
         Stopping(r, b) = {},
         NEW s, s = Append(r, [begin |-> b, end |-> e])
  PROVE  /\ s \in Seq(Tidy) /\ Apart(s)
         /\ Members(s) \subseteq Members(r) \union (b..e)
         /\ b..e \subseteq Members(s)
<1> DEFINE new == [begin |-> b, end |-> e]
<1>1. new \in Tidy /\ b \in Nat /\ e \in Nat /\ b <= e
  BY UlongMaxAssumption DEF Tidy, Numbers
<1>2. /\ s \in Seq(Tidy) /\ Len(s) = Len(r) + 1
      /\ s[Len(r) + 1] = new
      /\ \A k \in DOMAIN r : s[k] = r[k] /\ k \in DOMAIN s /\ k < Len(r) + 1
      /\ \A k \in DOMAIN s : k \in DOMAIN r \/ k = Len(r) + 1
      /\ Len(r) + 1 \in DOMAIN s
  BY <1>1, LenProperties
<1>4. \A k \in DOMAIN r : r[k].begin <= r[k].end /\ r[k].end + 1 < b
  BY Passed DEF Stopping
<1>5. \A k \in DOMAIN s : s[k].begin <= s[k].end
  BY <1>1, <1>2, <1>4
<1>6. \A j, k \in DOMAIN s : j < k => s[j].end + 1 < s[k].begin
  <2> SUFFICES ASSUME NEW j \in DOMAIN s, NEW k \in DOMAIN s, j < k
               PROVE  s[j].end + 1 < s[k].begin
    OBVIOUS
  <2>1. j \in DOMAIN r
    BY <1>2, LenProperties
  <2>2. CASE k \in DOMAIN r
    BY <1>2, <2>1, <2>2 DEF Apart
  <2>3. CASE k = Len(r) + 1
    BY <1>2, <1>4, <2>1, <2>3
  <2> QED BY <1>2, <2>2, <2>3
<1>7. Members(s) \subseteq Members(r) \union (b..e)
  BY <1>1, <1>2 DEF Members, range_check, in_subrange, Numbers
<1>8. b..e \subseteq Members(s)
  BY <1>1, <1>2, UlongMaxAssumption DEF Members, range_check, in_subrange, Numbers
<1> QED BY <1>2, <1>5, <1>6, <1>7, <1>8 DEF Apart
-----------------------------------------------------------------------------
Spliced(r, k, new, kept) == SubSeq(r, 1, k - 1) \o <<new>> \o SubSeq(r, kept, Len(r))

\* Where the elements of a spliced list come from.
LEMMA SplicedElements ==
  ASSUME NEW r \in Seq(Tidy), NEW k \in DOMAIN r, NEW kept \in k..Len(r) + 1,
         NEW new \in Tidy
  PROVE  /\ Spliced(r, k, new, kept) \in Seq(Tidy)
         /\ Len(Spliced(r, k, new, kept)) = k + Len(r) + 1 - kept
         /\ \A i \in 1..k - 1 : Spliced(r, k, new, kept)[i] = r[i]
         /\ Spliced(r, k, new, kept)[k] = new
         /\ \A i \in k + 1..k + Len(r) + 1 - kept :
              Spliced(r, k, new, kept)[i] = r[kept + i - k - 1]
<1> DEFINE pre == SubSeq(r, 1, k - 1)
           post == SubSeq(r, kept, Len(r))
<1>1. k \in Nat /\ kept \in Nat /\ Len(r) \in Nat /\ 1 <= k /\ k <= Len(r) /\ k <= kept
  BY LenProperties
<1>2. pre \in Seq(Tidy) /\ Len(pre) = k - 1 /\ \A i \in 1..k - 1 : pre[i] = r[i]
  BY <1>1, SubSeqProperties
<1>3. /\ post \in Seq(Tidy) /\ Len(post) = Len(r) + 1 - kept
      /\ \A i \in 1..Len(r) + 1 - kept : post[i] = r[kept + i - 1]
  BY <1>1, SubSeqProperties
<1> HIDE DEF pre, post
<1> DEFINE one == <<new>>
<1>4. one \in Seq(Tidy) /\ Len(one) = 1 /\ one[1] = new
  OBVIOUS
<1> HIDE DEF one
<1> DEFINE left == pre \o one
<1>5. /\ left \in Seq(Tidy) /\ Len(left) = k
      /\ \A i \in 1..k - 1 : left[i] = r[i]
      /\ left[k] = new
  <2>1. /\ left \in Seq(Tidy) /\ Len(left) = (k - 1) + 1
        /\ \A i \in 1..(k - 1) + 1 :
             left[i] = IF i <= k - 1 THEN pre[i] ELSE one[i - (k - 1)]
    <3>1. /\ left \in Seq(Tidy) /\ Len(left) = Len(pre) + Len(one)
          /\ \A i \in 1..Len(pre) + Len(one) :
               left[i] = IF i <= Len(pre) THEN pre[i] ELSE one[i - Len(pre)]
      BY <1>2, <1>4, ConcatProperties
    <3> HIDE DEF left
    <3> QED BY <1>2, <1>4, <3>1
  <2> HIDE DEF left
  <2>2. k \in 1..(k - 1) + 1 /\ ~(k <= k - 1) /\ k - (k - 1) = 1
    BY <1>1
  <2>3. left[k] = new
    BY <1>4, <2>1, <2>2
  <2>4. \A i \in 1..k - 1 : left[i] = r[i]
    BY <1>1, <1>2, <1>4, <2>1
  <2>5. (k - 1) + 1 = k
    BY <1>1
  <2> QED BY <2>1, <2>3, <2>4, <2>5
<1> HIDE DEF left
<1> DEFINE all == left \o post
<1>6. /\ all \in Seq(Tidy) /\ Len(all) = k + Len(r) + 1 - kept
      /\ \A i \in 1..k : all[i] = left[i]
      /\ \A i \in k + 1..k + Len(r) + 1 - kept : all[i] = post[i - k]
  <2>1. /\ all \in Seq(Tidy) /\ Len(all) = Len(left) + Len(post)
        /\ \A i \in 1..Len(left) + Len(post) :
             all[i] = IF i <= Len(left) THEN left[i] ELSE post[i - Len(left)]
    BY <1>3, <1>5, ConcatProperties
  <2> HIDE DEF all
  <2>2. Len(left) = k /\ Len(post) = Len(r) + 1 - kept /\ k \in Nat /\ Len(post) \in Nat
    BY <1>1, <1>3, <1>5
  <2>3. Len(all) = k + Len(r) + 1 - kept
    BY <1>1, <2>1, <2>2
  <2>4. ASSUME NEW i \in 1..k PROVE all[i] = left[i]
    <3>1. i \in 1..Len(left) + Len(post) /\ i <= Len(left)
      BY <2>2
    <3> QED BY <2>1, <3>1
  <2>5. \A i \in k + 1..k + Len(r) + 1 - kept : all[i] = post[i - k]
    <3>1. ASSUME NEW i \in k + 1..k + Len(post) PROVE all[i] = post[i - k]
      <4>1. i \in 1..Len(left) + Len(post) /\ ~(i <= Len(left)) /\ i - Len(left) = i - k
        BY <2>2
      <4> QED BY <2>1, <4>1
    <3>2. k + Len(post) = k + Len(r) + 1 - kept
      BY <1>1, <2>2
    <3> QED BY <3>1, <3>2
  <2> QED BY <2>1, <2>3, <2>4, <2>5
<1>7. all = Spliced(r, k, new, kept)
  BY DEF all, left, one, pre, post, Spliced
<1> HIDE DEF all
<1>8. \A i \in 1..k - 1 : all[i] = r[i]
  BY <1>1, <1>5, <1>6
<1>9. all[k] = new
  BY <1>1, <1>5, <1>6
<1>10. \A i \in k + 1..k + Len(r) + 1 - kept : all[i] = r[kept + i - k - 1]
  <2> SUFFICES ASSUME NEW i \in k + 1..k + Len(r) + 1 - kept PROVE all[i] = r[kept + i - k - 1]
    OBVIOUS
  <2>1. i - k \in 1..Len(r) + 1 - kept /\ i \in Nat
    BY <1>1, <1>6
  <2>2. all[i] = post[i - k]
    BY <1>1, <1>6
  <2>3. post[i - k] = r[kept + (i - k) - 1]
    BY <1>3, <2>1
  <2>4. kept + (i - k) - 1 = kept + i - k - 1
    BY <1>1, <2>1
  <2> QED BY <2>2, <2>3, <2>4
<1>11. Len(all) = k + Len(r) + 1 - kept
  BY <1>6
<1>12. all \in Seq(Tidy)
  BY <1>6
<1> QED BY <1>7, <1>8, <1>9, <1>10, <1>11, <1>12

\* A subrange spliced into a list in normal form, apart from what is kept
\* before and after it, leaves it in normal form.
LEMMA SplicedApart ==
  ASSUME NEW r \in Seq(Tidy), Apart(r), NEW k \in DOMAIN r, NEW kept \in k..Len(r) + 1,
         NEW new \in Tidy, new.begin <= new.end,
         \A j \in 1..k - 1 : r[j].end + 1 < new.begin,
         \A j \in kept..Len(r) : new.end + 1 < r[j].begin,
         NEW s, s = Spliced(r, k, new, kept)
  PROVE  /\ s \in Seq(Tidy) /\ Apart(s)
         /\ \A x \in Members(s) : x \in Members(r) \/ in_subrange(new, x)
         /\ \A x \in Numbers : in_subrange(new, x) => x \in Members(s)
<1>1. /\ s \in Seq(Tidy)
      /\ Len(s) = k + Len(r) + 1 - kept
      /\ \A i \in 1..k - 1 : s[i] = r[i]
      /\ s[k] = new
      /\ \A i \in k + 1..Len(s) : s[i] = r[kept + i - k - 1]
  <2>1. /\ Spliced(r, k, new, kept) \in Seq(Tidy)
        /\ Len(Spliced(r, k, new, kept)) = k + Len(r) + 1 - kept
        /\ \A i \in 1..k - 1 : Spliced(r, k, new, kept)[i] = r[i]
        /\ Spliced(r, k, new, kept)[k] = new
        /\ \A i \in k + 1..k + Len(r) + 1 - kept :
             Spliced(r, k, new, kept)[i] = r[kept + i - k - 1]
    <3>1. Spliced(r, k, new, kept) \in Seq(Tidy)
      BY SplicedElements
    <3>2. Len(Spliced(r, k, new, kept)) = k + Len(r) + 1 - kept
      BY SplicedElements
    <3>3. \A i \in 1..k - 1 : Spliced(r, k, new, kept)[i] = r[i]
      BY SplicedElements
    <3>4. Spliced(r, k, new, kept)[k] = new
      BY SplicedElements
    <3>5. \A i \in k + 1..k + Len(r) + 1 - kept :
             Spliced(r, k, new, kept)[i] = r[kept + i - k - 1]
      BY SplicedElements
    <3> QED BY <3>1, <3>2, <3>3, <3>4, <3>5
  <2> QED BY <2>1
<1>2. /\ k \in Nat /\ kept \in Nat /\ Len(r) \in Nat /\ 1 <= k /\ k <= Len(r) /\ k <= kept
      /\ DOMAIN r = 1..Len(r) /\ DOMAIN s = 1..Len(s) /\ Len(s) \in Nat /\ k <= Len(s)
  BY <1>1, LenProperties
<1>3. ASSUME NEW i \in DOMAIN s
      PROVE  /\ i \in Nat
             /\ i < k => i \in 1..k - 1 /\ i \in DOMAIN r /\ s[i] = r[i]
             /\ i > k => /\ kept + i - k - 1 \in kept..Len(r)
                         /\ kept + i - k - 1 \in DOMAIN r
                         /\ s[i] = r[kept + i - k - 1]
  <2>1. i \in Nat /\ i \in 1..Len(s)
    BY <1>2
  <2>2. ASSUME i < k PROVE i \in 1..k - 1 /\ i \in DOMAIN r /\ s[i] = r[i]
    BY <1>1, <1>2, <2>1, <2>2
  <2>3. ASSUME i > k
        PROVE  /\ kept + i - k - 1 \in kept..Len(r)
               /\ kept + i - k - 1 \in DOMAIN r
               /\ s[i] = r[kept + i - k - 1]
    <3>1. i \in k + 1..Len(s)
      BY <1>2, <2>1, <2>3
    <3>2. s[i] = r[kept + i - k - 1]
      BY <1>1, <3>1
    <3>3. kept + i - k - 1 \in kept..Len(r)
      BY <1>1, <1>2, <2>1, <2>3
    <3> QED BY <1>2, <3>2, <3>3
  <2> QED BY <2>1, <2>2, <2>3
<1>4. ASSUME NEW i \in DOMAIN s PROVE s[i].begin <= s[i].end
  <2>1. CASE i < k
    BY <1>3, <2>1 DEF Apart
  <2>2. CASE i > k
    <3>1. kept + i - k - 1 \in DOMAIN r /\ s[i] = r[kept + i - k - 1]
      BY <1>3, <2>2
    <3> QED BY <3>1 DEF Apart
  <2>3. CASE i = k
    BY <1>1, <2>3
  <2> QED BY <1>2, <1>3, <2>1, <2>2, <2>3
<1>5. ASSUME NEW i \in DOMAIN s, NEW j \in DOMAIN s, i < j
      PROVE  s[i].end + 1 < s[j].begin
  <2> DEFINE J == kept + j - k - 1
             I == kept + i - k - 1
  <2>1. CASE j < k
    <3>1. i < k
      BY <1>2, <1>3, <1>5, <2>1
    <3>2. i \in DOMAIN r /\ j \in DOMAIN r /\ s[i] = r[i] /\ s[j] = r[j]
      BY <1>3, <2>1, <3>1
    <3> QED BY <1>5, <3>2 DEF Apart
  <2>2. CASE j = k
    BY <1>1, <1>2, <1>3, <1>5, <2>2
  <2>3. CASE j > k
    <3>1. J \in DOMAIN r /\ J \in kept..Len(r) /\ s[j] = r[J]
      BY <1>3, <2>3
    <3>2. CASE i < k
      <4>1. i \in DOMAIN r /\ s[i] = r[i] /\ i < J
        BY <1>2, <1>3, <3>1, <3>2
      <4> HIDE DEF J
      <4> QED BY <3>1, <4>1 DEF Apart
    <3>3. CASE i = k
      BY <1>1, <3>1, <3>3
    <3>4. CASE i > k
      <4>1. I \in DOMAIN r /\ s[i] = r[I]
        BY <1>3, <3>4
      <4>2. I < J
        BY <1>2, <1>3, <1>5
      <4> HIDE DEF I, J
      <4> QED BY <3>1, <4>1, <4>2 DEF Apart
    <3> QED BY <1>2, <1>3, <3>2, <3>3, <3>4
  <2> QED BY <1>2, <1>3, <2>1, <2>2, <2>3
<1>6. Apart(s)
  BY <1>4, <1>5 DEF Apart
<1>7. ASSUME NEW x \in Members(s) PROVE x \in Members(r) \/ in_subrange(new, x)
  <2>1. x \in Numbers /\ \E i \in DOMAIN s : in_subrange(s[i], x)
    BY DEF Members, range_check
  <2>2. PICK i \in DOMAIN s : in_subrange(s[i], x)
    BY <2>1
  <2>3. CASE i = k
    BY <1>1, <2>2, <2>3
  <2>4. CASE i # k
    <3>1. \E j \in DOMAIN r : s[i] = r[j]
      BY <1>2, <1>3, <2>4
    <3> QED BY <2>1, <2>2, <3>1 DEF Members, range_check
  <2> QED BY <2>3, <2>4
<1>8. ASSUME NEW x \in Numbers, in_subrange(new, x) PROVE x \in Members(s)
  BY <1>1, <1>2, <1>8 DEF Members, range_check
<1> QED BY <1>1, <1>6, <1>7, <1>8
-----------------------------------------------------------------------------
\* The subrange that begins the one added: it holds b and, but for b itself,
\* nothing new, and keeps away from the subranges before it.
LEMMA FirstSubrange ==
  ASSUME NEW r \in Seq(Tidy), Apart(r), NEW k \in DOMAIN r,
         NEW b \in Numbers, b < ULONG_MAX, Stops(r[k], b),
         \A j \in 1..k - 1 : ~Stops(r[j], b)
  PROVE  /\ First(r[k], b) \in Tidy
         /\ First(r[k], b).begin <= b
         /\ b <= First(r[k], b).end
         /\ First(r[k], b).end <= b \/ First(r[k], b).end = r[k].end
         /\ \A x \in Nat : First(r[k], b).begin <= x /\ x < b => in_subrange(r[k], x)
         /\ \A j \in 1..k - 1 : r[j].end + 1 < First(r[k], b).begin
         /\ ~Inserts(r[k], b) => First(r[k], b).begin = r[k].begin /\ r[k].begin <= b
         /\ Inserts(r[k], b) => First(r[k], b).end = b /\ b < r[k].begin
<1> DEFINE f == First(r[k], b)
<1>1. /\ b \in Nat /\ k \in Nat /\ 1 <= k /\ k <= Len(r) /\ Len(r) \in Nat
      /\ \A j \in 1..k - 1 : j \in DOMAIN r /\ j < k
  BY UlongMaxAssumption, LenProperties DEF Numbers
<1>2. /\ r[k].begin \in Nat /\ r[k].end \in Nat /\ r[k].begin <= ULONG_MAX /\ r[k].end < ULONG_MAX
      /\ Succ(r[k].end) = r[k].end + 1 /\ r[k].begin <= r[k].end /\ r[k] \in Tidy
  BY Ends DEF Apart
<1>3. \A j \in 1..k - 1 : r[j].end + 1 < b
  BY <1>1, Passed
<1>4. \A j \in 1..k - 1 : r[j].end + 1 < r[k].begin
  BY <1>1 DEF Apart
<1>5. CASE Inserts(r[k], b)
  <2>1. f = [begin |-> b, end |-> b] /\ b < r[k].begin
    BY <1>5 DEF First, Inserts, Stops
  <2>2. f \in Tidy
    BY <1>1, <2>1, UlongMaxAssumption DEF Tidy, Numbers
  <2> QED BY <1>1, <1>3, <1>5, <2>1, <2>2
<1>6. CASE ~Inserts(r[k], b) /\ in_subrange(r[k], b)
  <2>1. f = r[k]
    BY <1>6 DEF First
  <2> HIDE DEF f
  <2> QED BY <1>1, <1>2, <1>4, <1>6, <2>1 DEF in_subrange, f
<1>7. CASE ~Inserts(r[k], b) /\ ~in_subrange(r[k], b)
  <2>1. b = r[k].end + 1
    BY <1>2, <1>7 DEF Inserts
  <2>2. f = [r[k] EXCEPT !.end = b]
    BY <1>2, <1>7, <2>1 DEF First
  <2>3. f = [begin |-> r[k].begin, end |-> b]
    BY <1>2, <2>2 DEF Tidy
  <2>4. f \in Tidy
    BY <1>1, <1>2, <2>3, UlongMaxAssumption DEF Tidy, Numbers
  <2>5. f.begin = r[k].begin /\ f.end = b
    BY <2>3
  <2> HIDE DEF f
  <2> QED BY <1>1, <1>2, <1>4, <1>7, <2>1, <2>4, <2>5 DEF in_subrange, f
<1> QED BY <1>5, <1>6, <1>7
\* range_add() when a subrange stops the first loop.
LEMMA ExtendedRange ==
  ASSUME NEW r \in Seq(Tidy), Apart(r), NEW k \in DOMAIN r,
         NEW b \in Numbers, NEW e \in b..ULONG_MAX - 1, Stops(r[k], b),
         \A j \in 1..k - 1 : ~Stops(r[j], b)
  PROVE  /\ Extended(r, k, b, e) \in Seq(Tidy) /\ Apart(Extended(r, k, b, e))
         /\ Members(Extended(r, k, b, e)) \subseteq Members(r) \union (b..e)
         /\ b..e \subseteq Members(Extended(r, k, b, e))
<1> DEFINE f == First(r[k], b)
           next == IF Inserts(r[k], b) THEN k ELSE k + 1
           beyond == Beyond(r, k, e)
           stop == LeastOf(beyond)
           kept == IF beyond = {} THEN Len(r) + 1 ELSE IF stop < next THEN next ELSE stop
           last == IF next <= Len(r) THEN r[Len(r)].end ELSE f.end
           end == IF beyond = {} THEN Reaches(last, e) ELSE e
           new == [f EXCEPT !.end = end]
<1>1. /\ b \in Nat /\ e \in Nat /\ b <= e /\ e < ULONG_MAX /\ b < ULONG_MAX /\ Succ(e) = e + 1
      /\ k \in Nat /\ 1 <= k /\ k <= Len(r) /\ Len(r) \in Nat /\ DOMAIN r = 1..Len(r)
  BY UlongMaxAssumption, LenProperties DEF Numbers, Succ
<1>2. /\ f \in Tidy /\ f.begin <= b /\ b <= f.end
      /\ f.end <= b \/ f.end = r[k].end
      /\ \A x \in Nat : f.begin <= x /\ x < b => in_subrange(r[k], x)
      /\ \A j \in 1..k - 1 : r[j].end + 1 < f.begin
      /\ ~Inserts(r[k], b) => f.begin = r[k].begin /\ r[k].begin <= b
      /\ Inserts(r[k], b) => f.end = b /\ b < r[k].begin
  BY <1>1, FirstSubrange
<1>3. f.begin \in Nat /\ f.end \in Nat /\ f.begin <= ULONG_MAX /\ f.end < ULONG_MAX
  BY <1>2, UlongMaxAssumption DEF Tidy, Numbers
<1>4. /\ r[k].begin \in Nat /\ r[k].end \in Nat
      /\ r[Len(r)].begin \in Nat /\ r[Len(r)].end \in Nat /\ r[Len(r)].end < ULONG_MAX
      /\ r[k].begin <= r[k].end
  BY <1>1, Ends DEF Apart
<1>5. Extended(r, k, b, e) = Spliced(r, k, new, kept)
  BY DEF Extended, Spliced
<1> HIDE DEF f
<1>6. beyond = {j \in k..Len(r) : e + 1 < r[j].begin}
  BY <1>1 DEF Beyond
<1>7. ASSUME beyond # {}
      PROVE  /\ stop \in k..Len(r) /\ stop \in DOMAIN r
             /\ e + 1 < r[stop].begin /\ next <= stop
             /\ \A j \in DOMAIN r : stop <= j => e + 1 < r[j].begin
  <2>1. beyond \subseteq Nat
    BY <1>1, <1>6
  <2>2. stop \in beyond
    BY <1>7, <2>1, LeastIsLeast
  <2> HIDE DEF stop, beyond
  <2>3. stop \in k..Len(r) /\ stop \in DOMAIN r /\ e + 1 < r[stop].begin /\ stop \in Nat
    BY <1>1, <1>6, <2>2
  <2>4. next <= stop
    <3>1. CASE Inserts(r[k], b)
      BY <1>1, <2>3, <3>1
    <3>2. CASE ~Inserts(r[k], b)
      <4>1. stop # k
        BY <1>1, <1>2, <1>4, <2>3, <3>2
      <4> QED BY <1>1, <2>3, <3>2, <4>1
    <3> QED BY <3>1, <3>2
  <2>5. ASSUME NEW j \in DOMAIN r, stop <= j PROVE e + 1 < r[j].begin
    <3>1. CASE j = stop
      BY <2>3, <3>1
    <3>2. CASE stop < j
      <4>1. r[stop].end + 1 < r[j].begin /\ r[stop].begin <= r[stop].end
        BY <2>3, <3>2 DEF Apart
      <4>2. /\ r[stop].begin \in Nat /\ r[stop].end \in Nat /\ r[j].begin \in Nat
            /\ e \in Nat
        BY <1>1, <2>3, Ends
      <4> QED BY <2>3, <4>1, <4>2
    <3> QED BY <1>1, <2>3, <2>5, <3>1, <3>2
  <2> QED BY <2>3, <2>4, <2>5
<1> HIDE DEF beyond, stop
<1>8. next \in k..k + 1
  BY <1>1
<1> HIDE DEF next
<1>9. kept \in k..Len(r) + 1
  <2>1. CASE beyond = {}
    BY <1>1, <2>1
  <2>2. CASE beyond # {}
    BY <1>1, <1>7, <1>8, <2>2
  <2> QED BY <2>1, <2>2
<1>10. last \in Nat /\ last < ULONG_MAX
  BY <1>3, <1>4
<1> HIDE DEF last
<1>11. end \in Nat /\ e <= end /\ end < ULONG_MAX
  BY <1>1, <1>10 DEF Reaches
<1>12. \A j \in kept..Len(r) : end + 1 < r[j].begin
  <2>1. CASE beyond = {}
    BY <1>1, <2>1
  <2>2. CASE beyond # {}
    <3>1. kept = stop /\ end = e /\ stop \in Nat
      BY <1>1, <1>7, <1>8, <2>2
    <3>2. \A j \in stop..Len(r) : j \in DOMAIN r /\ stop <= j
      BY <1>1, <1>7, <2>2
    <3> QED BY <1>7, <2>2, <3>1, <3>2
  <2> QED BY <2>1, <2>2
<1>13. new = [begin |-> f.begin, end |-> end]
  BY <1>2 DEF Tidy
<1>14. end <= e \/ \E j \in DOMAIN r : \A x \in Nat : e < x /\ x <= end => in_subrange(r[j], x)
  <2> SUFFICES ASSUME ~(end <= e)
               PROVE  \E j \in DOMAIN r : \A x \in Nat : e < x /\ x <= end => in_subrange(r[j], x)
    OBVIOUS
  <2>1. beyond = {} /\ end = last /\ e < last
    BY <1>1, <1>10 DEF Reaches
  <2>2. CASE next <= Len(r)
    <3>1. last = r[Len(r)].end /\ Len(r) \in k..Len(r) /\ Len(r) \in DOMAIN r
      BY <1>1, <2>2 DEF last
    <3>2. ~(e + 1 < r[Len(r)].begin)
      BY <1>6, <2>1, <3>1
    <3>3. \A x \in Nat : e < x /\ x <= end => in_subrange(r[Len(r)], x)
      BY <1>1, <1>4, <2>1, <3>1, <3>2 DEF in_subrange
    <3> QED BY <3>1, <3>3
  <2>3. CASE ~(next <= Len(r))
    <3>1. last = f.end /\ f.end = r[k].end
      BY <1>1, <1>2, <1>3, <1>4, <2>1, <2>3 DEF last
    <3>2. ~Inserts(r[k], b)
      BY <1>1, <2>3 DEF next
    <3>3. r[k].begin <= b
      BY <1>2, <3>2
    <3>4. \A x \in Nat : e < x /\ x <= end => in_subrange(r[k], x)
      BY <1>1, <1>4, <2>1, <3>1, <3>3 DEF in_subrange
    <3> QED BY <3>4
  <2> QED BY <2>2, <2>3
<1> HIDE DEF end, kept
<1>15. new \in Tidy /\ new.begin <= new.end /\ new.begin = f.begin /\ new.end = end
  BY <1>1, <1>2, <1>3, <1>11, <1>13, UlongMaxAssumption DEF Tidy, Numbers
<1> HIDE DEF new
<1> DEFINE s == Extended(r, k, b, e)
<1>16. s = Spliced(r, k, new, kept)
  BY <1>5
<1> HIDE DEF s
<1>17. \A j \in 1..k - 1 : r[j].end + 1 < new.begin
  BY <1>2, <1>15
<1>18. \A j \in kept..Len(r) : new.end + 1 < r[j].begin
  BY <1>12, <1>15
<1>19. s \in Seq(Tidy) /\ Apart(s)
  BY <1>9, <1>15, <1>16, <1>17, <1>18, SplicedApart
<1>20. \A x \in Members(s) : x \in Members(r) \/ in_subrange(new, x)
  BY <1>9, <1>15, <1>16, <1>17, <1>18, SplicedApart
<1>21. \A x \in Numbers : in_subrange(new, x) => x \in Members(s)
  BY <1>9, <1>15, <1>16, <1>17, <1>18, SplicedApart
<1>22. b..e \subseteq Members(s)
  <2>1. \A x \in b..e : x \in Numbers /\ x \in Nat /\ b <= x /\ x <= e
    BY <1>1, UlongMaxAssumption DEF Numbers
  <2>2. \A x \in b..e : in_subrange(new, x)
    BY <1>1, <1>2, <1>3, <1>11, <1>15, <2>1 DEF in_subrange
  <2> QED BY <1>21, <2>1, <2>2
<1>23. ASSUME NEW x \in Members(s) PROVE x \in Members(r) \union (b..e)
  <2>1. x \in Numbers /\ x \in Nat
    BY UlongMaxAssumption DEF Members, Numbers
  <2>2. CASE in_subrange(new, x)
    <3>1. f.begin <= x /\ x <= end
      BY <1>15, <2>2 DEF in_subrange
    <3>2. CASE x < b
      BY <1>2, <2>1, <3>1, <3>2 DEF Members, range_check
    <3>3. CASE e < x
      <4>1. ~(end <= e)
        BY <1>1, <1>11, <2>1, <3>1, <3>3
      <4>2. \E j \in DOMAIN r : in_subrange(r[j], x)
        BY <1>14, <2>1, <3>1, <3>3, <4>1
      <4> QED BY <2>1, <4>2 DEF Members, range_check
    <3>4. CASE b <= x /\ x <= e
      BY <1>1, <2>1, <3>4
    <3> QED BY <1>1, <2>1, <3>2, <3>3, <3>4
  <2> QED BY <1>20, <2>2
<1> QED BY <1>19, <1>22, <1>23 DEF s
-----------------------------------------------------------------------------
\* range_add() of a subrange within the limits keeps the list in normal form,
\* adds no number outside the subrange, accepts all of it, and its assertion
\* holds.
LEMMA AddedRange ==
  ASSUME NEW r \in Seq(Tidy), Apart(r), NEW b \in Numbers, NEW e \in b..ULONG_MAX - 1
  PROVE  /\ Added(r, b, e) \in Seq(Tidy) /\ Apart(Added(r, b, e))
         /\ Members(Added(r, b, e)) \subseteq Members(r) \union (b..e)
         /\ b..e \subseteq Members(Added(r, b, e))
         /\ AddAsserts(r, b)
<1> DEFINE S == Stopping(r, b)
<1>1. CASE S = {}
  <2> DEFINE s == Append(r, [begin |-> b, end |-> e])
  <2>1. Added(r, b, e) = s /\ AddAsserts(r, b)
    BY <1>1 DEF Added, AddAsserts
  <2>2. \A t : t = s => /\ t \in Seq(Tidy) /\ Apart(t)
                        /\ Members(t) \subseteq Members(r) \union (b..e)
                        /\ b..e \subseteq Members(t)
    BY <1>1, AppendedRange
  <2> QED BY <2>1, <2>2
<1>2. CASE S # {}
  <2> DEFINE k == LeastOf(S)
  <2>1. S \subseteq Nat /\ \A j \in S : j \in DOMAIN r /\ Stops(r[j], b)
    BY LenProperties DEF Stopping
  <2>2. k \in S /\ \A j \in S : k <= j
    BY <1>2, <2>1, LeastIsLeast
  <2>3. \A j \in DOMAIN r : Stops(r[j], b) => j \in S
    BY DEF Stopping
  <2>4. Added(r, b, e) = Extended(r, k, b, e)
    BY <1>2 DEF Added
  <2>5. AddAsserts(r, b) <=> in_subrange(First(r[k], b), b)
    BY <1>2 DEF AddAsserts
  <2> HIDE DEF S, k
  <2>6. k \in DOMAIN r /\ Stops(r[k], b) /\ \A j \in 1..k - 1 : ~Stops(r[j], b)
    <3>1. k \in DOMAIN r /\ Stops(r[k], b) /\ k \in Nat /\ k <= Len(r)
      BY <2>1, <2>2, LenProperties
    <3>2. ASSUME NEW j \in 1..k - 1 PROVE ~Stops(r[j], b)
      <4>1. j \in DOMAIN r /\ ~(k <= j)
        BY <3>1, LenProperties
      <4> QED BY <2>2, <2>3, <4>1
    <3> QED BY <3>1, <3>2
  <2>7. b < ULONG_MAX
    BY UlongMaxAssumption DEF Numbers
  <2>8. AddAsserts(r, b)
    BY <2>5, <2>6, <2>7, FirstSubrange DEF in_subrange
  <2>9. /\ Extended(r, k, b, e) \in Seq(Tidy) /\ Apart(Extended(r, k, b, e))
        /\ Members(Extended(r, k, b, e)) \subseteq Members(r) \union (b..e)
        /\ b..e \subseteq Members(Extended(r, k, b, e))
    BY <2>6, ExtendedRange
  <2> QED BY <2>4, <2>8, <2>9
<1> QED BY <1>1, <1>2
-----------------------------------------------------------------------------
\* The invariant of a range holds of the empty list.
LEMMA RangeInitEstablishes == RangeInit => RangeIInv
<1> SUFFICES ASSUME RangeInit PROVE RangeIInv
  OBVIOUS
<1>1. subranges = <<>> /\ added = {} /\ crashed = FALSE
  BY DEF RangeInit
<1>2. subranges \in Seq(Tidy) /\ DOMAIN subranges = {}
  BY <1>1
<1> QED BY <1>1, <1>2 DEF RangeIInv, RangeTypeOK, Tidy, SubrangesApart, OnlyAdded, Members, range_check

\* A step that adds b..e keeps it, and accepts b..e.
LEMMA RangeAddStep ==
  ASSUME RangeIInv, NEW b \in Numbers, NEW e \in b..ULONG_MAX - 1, range_add(b, e)
  PROVE  RangeIInv' /\ b..e \subseteq Members(subranges')
<1>1. subranges \in Seq(Tidy) /\ Apart(subranges)
  BY DEF RangeIInv, RangeTypeOK, SubrangesApart, Tidy, Apart
<1>2. /\ Added(subranges, b, e) \in Seq(Tidy) /\ Apart(Added(subranges, b, e))
      /\ Members(Added(subranges, b, e)) \subseteq Members(subranges) \union (b..e)
      /\ b..e \subseteq Members(Added(subranges, b, e))
      /\ AddAsserts(subranges, b)
  BY <1>1, AddedRange
<1>3. subranges' = Added(subranges, b, e) /\ added' = added \union (b..e) /\ crashed' = crashed
  BY <1>2 DEF range_add
<1>4. RangeTypeOK'
  <2>1. b..e \subseteq Numbers
    BY UlongMaxAssumption DEF Numbers
  <2> QED BY <1>2, <1>3, <2>1 DEF RangeIInv, RangeTypeOK, Tidy
<1>5. SubrangesApart'
  BY <1>2, <1>3 DEF SubrangesApart, Apart
<1>6. Members(subranges)' \subseteq added'
  BY <1>2, <1>3 DEF RangeIInv, OnlyAdded
<1> QED BY <1>2, <1>3, <1>4, <1>5, <1>6 DEF RangeIInv, OnlyAdded

\* Every step keeps it.
LEMMA RangeStepPreserves == RangeIInv /\ [TidyNext]_range_vars => RangeIInv'
<1> SUFFICES ASSUME RangeIInv, [TidyNext]_range_vars PROVE RangeIInv'
  OBVIOUS
<1>1. CASE range_delete
  <2>1. subranges' = <<>> /\ added' = {} /\ crashed' = crashed
    BY <1>1 DEF range_delete
  <2>2. subranges' \in Seq(Tidy) /\ DOMAIN subranges' = {}
    BY <2>1
  <2> QED BY <2>1, <2>2 DEF RangeIInv, RangeTypeOK, Tidy, SubrangesApart, OnlyAdded, Members, range_check
<1>2. CASE \E b \in Numbers : \E e \in b..ULONG_MAX - 1 : range_add(b, e)
  BY <1>2, RangeAddStep
<1>3. CASE UNCHANGED range_vars
  BY <1>3 DEF range_vars, RangeIInv, RangeTypeOK, SubrangesApart, OnlyAdded, Members, range_check
<1> QED BY <1>1, <1>2, <1>3 DEF TidyNext

\* The inductive invariant holds of every range that is built within limits.
THEOREM RangeInvariance == TidySpec => []RangeIInv
<1>1. RangeInit => RangeIInv
  BY RangeInitEstablishes
<1>2. RangeIInv /\ [TidyNext]_range_vars => RangeIInv'
  BY RangeStepPreserves
<1> QED BY <1>1, <1>2, PTL DEF TidySpec

\* No subrange of a range reaches ULONG_MAX and no assertion of range_add() fails.
THEOREM RangeTypeCorrect == TidySpec => []RangeTypeOK
<1>1. RangeIInv => RangeTypeOK
  BY DEF RangeIInv
<1> QED BY <1>1, RangeInvariance, PTL

\* The subranges of the list ascend and stay apart, whatever was added.
THEOREM ApartAlways == TidySpec => []SubrangesApart
<1>1. RangeIInv => SubrangesApart
  BY DEF RangeIInv
<1> QED BY <1>1, RangeInvariance, PTL

\* range_check() accepts only numbers that were added.
THEOREM InventsNothing == TidySpec => []OnlyAdded
<1>1. RangeIInv => OnlyAdded
  BY DEF RangeIInv
<1> QED BY <1>1, RangeInvariance, PTL

\* range_check() accepts every number of a subrange that was just added.
THEOREM AcceptsAdded == TidySpec => AddedIsIn
<1> DEFINE A == \A b \in Numbers : \A e \in b..ULONG_MAX - 1 :
                  range_add(b, e) => b..e \subseteq Members(subranges')
<1>1. RangeIInv /\ [TidyNext]_range_vars => [A]_range_vars
  BY RangeAddStep
<1>2. [][A]_range_vars => AddedIsIn
  BY PTL DEF AddedIsIn
<1> HIDE DEF A
<1> QED BY <1>1, <1>2, RangeInvariance, PTL DEF TidySpec
=============================================================================
