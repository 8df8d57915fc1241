--------------------------- MODULE RulebaseProofs ---------------------------
(***************************************************************************)
(* Proofs about calls of the library, with the rules that they trigger:    *)
(* what a call binds is a step of the history, the node asked for has its  *)
(* value after a call that succeeds, and the rules the call has to do with *)
(* hold or are named. They hold for any symbols, menus and rules, for any  *)
(* solver that keeps its promise (SolverAssumption) and however deep calls *)
(* are nested.                                                             *)
(*                                                                         *)
(* Live says how the frames of a call nest and how they go with the log;   *)
(* RInv adds what is left once an assertion has failed. On it rest Asking  *)
(* (what a frame no longer has to set is bound), Trying and Checked (a     *)
(* rule that does not hold yet will be come back to) and Implying (every   *)
(* assignment that satisfies the rules has what frames ask for). What a    *)
(* step does to the frames is said once, by Goes, Calls, Tells and Begins. *)
(***************************************************************************)
EXTENDS Rulebase, TransactionsProofs

-----------------------------------------------------------------------------
(* Sequences.                                                              *)

(* The elements of a sequence.                                             *)
LEMMA Elements ==
  ASSUME NEW S, NEW s \in Seq(S)
  PROVE  /\ Len(s) \in Nat
         /\ DOMAIN s = 1..Len(s)
         /\ \A i \in 1..Len(s) : s[i] \in S /\ s[i] \in ToSet(s)
         /\ ToSet(s) \subseteq S
         /\ s = <<>> <=> ToSet(s) = {}
<1>1. /\ Len(s) \in Nat
      /\ DOMAIN s = 1..Len(s)
      /\ s \in [1..Len(s) -> S]
  BY LenProperties
<1>2. s # <<>> => 1 \in DOMAIN s
  BY <1>1, EmptySeq
<1>3. s = <<>> => DOMAIN s = {}
  BY <1>1, EmptySeq
<1>4. s = <<>> <=> ToSet(s) = {}
  BY <1>2, <1>3 DEF ToSet
<1>5. QED
  BY <1>1, <1>4 DEF ToSet

(* The first element and the others.                                       *)
LEMMA FirstAndRest ==
  ASSUME NEW S, NEW s \in Seq(S), s # <<>>
  PROVE  /\ Head(s) \in ToSet(s)
         /\ Tail(s) \in Seq(S)
         /\ ToSet(s) = {Head(s)} \cup ToSet(Tail(s))
<1>1. /\ Head(s) \in S
      /\ Tail(s) \in Seq(S)
      /\ Len(Tail(s)) = Len(s) - 1
      /\ \A i \in 1..Len(Tail(s)) : Tail(s)[i] = s[i + 1]
  BY HeadTailProperties
<1>2. /\ Len(s) \in Nat /\ Len(s) # 0
      /\ DOMAIN s = 1..Len(s)
  BY LenProperties, EmptySeq
<1>3. DOMAIN Tail(s) = 1..Len(s) - 1
  BY <1>1, LenProperties
<1>4. Head(s) = s[1]
  BY DEF Head
<1>5. ASSUME NEW i \in 2..Len(s)
      PROVE  i - 1 \in 1..Len(s) - 1 /\ Tail(s)[i - 1] = s[i]
  <2>1. i - 1 \in 1..Len(s) - 1 /\ (i - 1) + 1 = i
    BY <1>2
  <2>2. QED
    BY <1>1, <2>1
<1>6. \A i \in 1..Len(s) - 1 : i + 1 \in 1..Len(s) /\ Tail(s)[i] = s[i + 1]
  BY <1>1, <1>2
<1>7. 1 \in 1..Len(s) /\ \A i \in 1..Len(s) : i = 1 \/ i \in 2..Len(s)
  BY <1>2
<1>8. Head(s) \in ToSet(s)
  BY <1>2, <1>4, <1>7 DEF ToSet
<1>9. ToSet(s) \subseteq {Head(s)} \cup ToSet(Tail(s))
  BY <1>2, <1>3, <1>4, <1>5, <1>7 DEF ToSet
<1>10. ToSet(Tail(s)) \subseteq ToSet(s)
  BY <1>2, <1>3, <1>6 DEF ToSet
<1>11. QED
  BY <1>1, <1>8, <1>9, <1>10

(* The stack when its last frame is replaced, when one more is put on it,  *)
(* and when one is taken off and the next is told.                         *)
Replaces(s, t, f) ==
  /\ Len(t) = Len(s)
  /\ t[Len(s)] = f
  /\ \A i \in 1..Len(s) - 1 : t[i] = s[i]

Pushes(s, t, f, g) ==
  /\ Len(t) = Len(s) + 1
  /\ t[Len(s) + 1] = g
  /\ t[Len(s)] = f
  /\ \A i \in 1..Len(s) - 1 : t[i] = s[i]

Pops(s, t, f) ==
  /\ Len(t) = Len(s) - 1
  /\ t[Len(s) - 1] = f
  /\ \A i \in 1..Len(s) - 2 : t[i] = s[i]

LEMMA StackReplaced ==
  ASSUME NEW F, NEW s \in Seq(F), s # <<>>, NEW f \in F
  PROVE  /\ [s EXCEPT ![Len(s)] = f] \in Seq(F)
         /\ Replaces(s, [s EXCEPT ![Len(s)] = f], f)
<1>1. Len(s) \in Nat \ {0}
  BY EmptySeq
<1>2. Len(s) \in 1..Len(s) /\ \A i \in 1..Len(s) - 1 : i \in 1..Len(s) /\ i # Len(s)
  BY <1>1
<1>3. QED
  BY <1>2, ExceptSeq DEF Replaces

LEMMA StackPushed ==
  ASSUME NEW F, NEW s \in Seq(F), s # <<>>, NEW f \in F, NEW g \in F
  PROVE  /\ Append([s EXCEPT ![Len(s)] = f], g) \in Seq(F)
         /\ Pushes(s, Append([s EXCEPT ![Len(s)] = f], g), f, g)
<1> DEFINE r == [s EXCEPT ![Len(s)] = f]
<1>1. r \in Seq(F) /\ Replaces(s, r, f)
  BY StackReplaced
<1>2. Len(s) \in Nat \ {0}
  BY EmptySeq
<1> HIDE DEF r
<1>3. /\ Append(r, g) \in Seq(F)
      /\ Len(Append(r, g)) = Len(r) + 1
      /\ \A i \in 1..Len(r) : Append(r, g)[i] = r[i]
      /\ Append(r, g)[Len(r) + 1] = g
  BY <1>1
<1>4. Len(s) \in 1..Len(s) /\ \A i \in 1..Len(s) - 1 : i \in 1..Len(s)
  BY <1>2
<1>5. Pushes(s, Append(r, g), f, g)
  BY <1>1, <1>3, <1>4 DEF Replaces, Pushes
<1>6. QED
  BY <1>3, <1>5 DEF r

LEMMA StackPopped ==
  ASSUME NEW F, NEW s \in Seq(F), Len(s) > 1, NEW f \in F
  PROVE  /\ [Front(s) EXCEPT ![Len(s) - 1] = f] \in Seq(F)
         /\ Pops(s, [Front(s) EXCEPT ![Len(s) - 1] = f], f)
<1> DEFINE r == Front(s)
<1>1. Len(s) \in Nat
  BY LenProperties
<1>2. /\ r \in Seq(F)
      /\ Len(r) = Len(s) - 1
      /\ \A i \in 1..Len(s) - 1 : r[i] = s[i]
  <2>1. \A i \in 1..Len(s) - 1 : s[i] \in F
    BY <1>1, ElementOfSeq
  <2>2. /\ 1 \in Int /\ Len(s) - 1 \in Int
        /\ (Len(s) - 1) - 1 + 1 = Len(s) - 1
        /\ 1 <= Len(s) - 1
        /\ \A i \in 1..Len(s) - 1 : 1 + i - 1 = i
    BY <1>1
  <2>3. /\ SubSeq(s, 1, Len(s) - 1) \in Seq(F)
        /\ Len(SubSeq(s, 1, Len(s) - 1)) = Len(s) - 1
        /\ \A i \in 1..Len(s) - 1 : SubSeq(s, 1, Len(s) - 1)[i] = s[i]
    BY <2>1, <2>2, SubSeqProperties
  <2>4. QED
    BY <2>3 DEF Front
<1>3. r # <<>>
  BY <1>1, <1>2, EmptySeq
<1> HIDE DEF r
<1>4. /\ [r EXCEPT ![Len(r)] = f] \in Seq(F)
      /\ Replaces(r, [r EXCEPT ![Len(r)] = f], f)
  BY <1>2, <1>3, StackReplaced
<1>5. \A i \in 1..Len(s) - 2 : i \in 1..Len(r) - 1 /\ i \in 1..Len(s) - 1
  BY <1>1, <1>2
<1>6. QED
  BY <1>2, <1>4, <1>5 DEF Replaces, Pops, r

-----------------------------------------------------------------------------
(* What mn_set_value sets.                                                 *)

(* Nodes with atoms they may be bound to.                                  *)
GoalsOf(base) == {g \in [node : Symbols, atom : Values] : g.atom \in base.atoms[g.node]}

LEMMA AtomFields == \A ty, v : Atom(ty, v).type = ty /\ Atom(ty, v).val = v
BY DEF Atom

LEMMA BoolFields == \A b \in BOOLEAN : /\ Bool(b).type = "boolean"
                                       /\ Bool(b).val = "y" <=> b
                                       /\ Bool(b).val = "n" <=> ~b
BY DEF Bool, Atom

LEMMA GoalTyped ==
  ASSUME NEW base, NEW n \in Symbols, NEW a \in base.atoms[n], base.atoms[n] \subseteq Values
  PROVE  /\ Goal(n, a) \in GoalsOf(base)
         /\ Goal(n, a).node = n
         /\ Goal(n, a).atom = a
BY DEF Goal, GoalsOf

(* The elements of Chosen: the menu with the child, and each child with    *)
(* whether it is the one.                                                  *)
LEMMA ChosenElements ==
  ASSUME NEW m \in DOMAIN Children, NEW c
  PROVE  /\ Chosen(m, c) # <<>>
         /\ Chosen(m, c)[1] = Goal(m, Atom("node", c))
         /\ Chosen(m, c)[1] \in ToSet(Chosen(m, c))
         /\ \A k \in DOMAIN Children[m] : Goal(Children[m][k], Bool(Children[m][k] = c)) \in ToSet(Chosen(m, c))
         /\ \A g \in ToSet(Chosen(m, c)) :
              \/ g = Goal(m, Atom("node", c))
              \/ \E k \in DOMAIN Children[m] : g = Goal(Children[m][k], Bool(Children[m][k] = c))
<1> DEFINE first == Goal(m, Atom("node", c))
           rest  == [k \in DOMAIN Children[m] |-> Goal(Children[m][k], Bool(Children[m][k] = c))]
           T     == {first} \cup {rest[k] : k \in DOMAIN Children[m]}
<1>1. /\ Children[m] \in Seq(Symbols)
      /\ Len(Children[m]) \in Nat
      /\ DOMAIN Children[m] = 1..Len(Children[m])
  BY RulebaseAssumption, LenProperties
<1>2. rest \in Seq(T) /\ Len(rest) = Len(Children[m]) /\ DOMAIN rest = 1..Len(Children[m])
  <2>1. rest \in [1..Len(Children[m]) -> T]
    BY <1>1
  <2>2. rest \in Seq(T)
    BY <1>1, <2>1, SeqDef
  <2>3. QED
    BY <1>1, <2>2, LenProperties
<1>3. <<first>> \in Seq(T) /\ Len(<<first>>) = 1 /\ <<first>>[1] = first
  OBVIOUS
<1>4. Chosen(m, c) = <<first>> \o rest
  BY DEF Chosen
<1>5. \A k \in DOMAIN Children[m] : rest[k] = Goal(Children[m][k], Bool(Children[m][k] = c))
  OBVIOUS
<1>6. T = {first} \cup {rest[k] : k \in DOMAIN Children[m]}
  OBVIOUS
<1> HIDE DEF first, rest, T
<1>7. /\ Chosen(m, c) \in Seq(T)
      /\ Len(Chosen(m, c)) = 1 + Len(Children[m])
      /\ \A i \in 1..1 + Len(Children[m]) :
           Chosen(m, c)[i] = IF i <= 1 THEN <<first>>[i] ELSE rest[i - 1]
  BY <1>2, <1>3, <1>4, ConcatProperties
<1>8. DOMAIN Chosen(m, c) = 1..1 + Len(Children[m])
  BY <1>7, LenProperties
<1>9. Chosen(m, c)[1] = first /\ 1 \in DOMAIN Chosen(m, c)
  BY <1>1, <1>3, <1>7, <1>8
<1>10. ASSUME NEW k \in DOMAIN Children[m]
       PROVE  rest[k] \in ToSet(Chosen(m, c))
  <2>1. k + 1 \in 1..1 + Len(Children[m]) /\ ~(k + 1 <= 1) /\ (k + 1) - 1 = k
    BY <1>1
  <2>2. Chosen(m, c)[k + 1] = rest[k]
    BY <1>7, <2>1
  <2>3. QED
    BY <1>8, <2>1, <2>2 DEF ToSet
<1>11. Chosen(m, c) # <<>>
  BY <1>1, <1>7, EmptySeq
<1>12. ToSet(Chosen(m, c)) \subseteq T
  BY <1>7, Elements
<1>13. QED
  BY <1>5, <1>6, <1>9, <1>10, <1>11, <1>12 DEF first, ToSet

(* What the assumptions say of one rulebase.                               *)
LEMMA BaseFacts ==
  ASSUME NEW base \in Rulebases
  PROVE  /\ base.nodes \subseteq Symbols
         /\ \A n \in Symbols : Offered(n) \subseteq base.atoms[n] /\ base.atoms[n] \subseteq Values
         /\ \A m \in DOMAIN Children : base.atoms[m] = Offered(m)
         /\ \A n \in Symbols : base.rules_using[n] \in Seq(DOMAIN base.rules)
         /\ \A r \in DOMAIN base.rules :
              /\ expr_symbols(base.rules[r]) \subseteq base.nodes
              /\ expr_symbols(base.rules[r]) \subseteq Symbols
              /\ \A n \in expr_symbols(base.rules[r]) : r \in ToSet(base.rules_using[n])
BY RulebasesAssumption

(* Menus are no children, and children are boolean.                        *)
LEMMA RadioFacts ==
  /\ DOMAIN Children \subseteq Symbols
  /\ \A n \in Symbols : /\ is_radio_child(n) => /\ n \notin DOMAIN Children
                                                /\ Parent[n] \in DOMAIN Children
                                                /\ \E k \in DOMAIN Children[Parent[n]] : Children[Parent[n]][k] = n
                        /\ n \in DOMAIN Children => TypeOf[n] = "node"
                        /\ n \notin DOMAIN Children => TypeOf[n] \in {"boolean", "tristate"}
  /\ \A m \in DOMAIN Children :
       /\ Children[m] \in Seq(Symbols)
       /\ Children[m] # <<>>
       /\ \A k \in DOMAIN Children[m] : /\ Children[m][k] \in Symbols
                                        /\ Children[m][k] \notin DOMAIN Children
                                        /\ TypeOf[Children[m][k]] = "boolean"
                                        /\ Parent[Children[m][k]] = m
                                        /\ is_radio_child(Children[m][k])
<1>1. /\ DOMAIN Children = {n \in Symbols : TypeOf[n] = "node"}
      /\ TypeOf \in [Symbols -> {"boolean", "tristate", "node"}]
      /\ \A n \in Symbols : is_radio_child(n) =>
           \E k \in DOMAIN Children[Parent[n]] : Children[Parent[n]][k] = n
  BY RulebaseAssumption
<1>2. \A m \in DOMAIN Children : /\ Children[m] \in Seq(Symbols) /\ Children[m] # <<>>
                                 /\ \A k \in DOMAIN Children[m] :
                                      Parent[Children[m][k]] = m /\ TypeOf[Children[m][k]] = "boolean"
  BY RulebaseAssumption
<1>3. ASSUME NEW m \in DOMAIN Children, NEW k \in DOMAIN Children[m]
      PROVE  /\ Children[m][k] \in Symbols
             /\ Children[m][k] \notin DOMAIN Children
             /\ TypeOf[Children[m][k]] = "boolean"
             /\ Parent[Children[m][k]] = m
             /\ is_radio_child(Children[m][k])
  <2>1. Children[m][k] \in Symbols
    BY <1>2, LenProperties
  <2>2. QED
    BY <1>1, <1>2, <2>1 DEF is_radio_child
<1>4. ASSUME NEW n \in Symbols, is_radio_child(n)
      PROVE  n \notin DOMAIN Children /\ Parent[n] \in DOMAIN Children
  <2>1. Parent[n] \in DOMAIN Children
    BY <1>4 DEF is_radio_child
  <2>2. PICK k \in DOMAIN Children[Parent[n]] : Children[Parent[n]][k] = n
    BY <1>1, <1>4
  <2>3. QED
    BY <1>3, <2>1, <2>2
<1>5. QED
  BY <1>1, <1>2, <1>3, <1>4

(* What is offered for a menu are its children, for a child n and y.       *)
LEMMA OfferedFacts ==
  /\ \A m \in DOMAIN Children : Offered(m) = {Atom("node", Children[m][k]) : k \in DOMAIN Children[m]}
  /\ \A m \in DOMAIN Children : \A k \in DOMAIN Children[m] :
       Offered(Children[m][k]) = {Bool(b) : b \in BOOLEAN}
  /\ \A n \in Symbols : is_radio_child(n) => Offered(n) = {Bool(b) : b \in BOOLEAN}
<1>1. \A m \in DOMAIN Children : TypeOf[m] = "node"
  BY RadioFacts
<1>2. \A m \in DOMAIN Children : \A k \in DOMAIN Children[m] : TypeOf[Children[m][k]] = "boolean"
  BY RadioFacts
<1>3. \A n \in Symbols : is_radio_child(n) => TypeOf[n] = "boolean"
  BY RadioFacts
<1>4. QED
  BY <1>1, <1>2, <1>3 DEF Offered

(* The nodes and values that mn_set_value sets: the node itself is among   *)
(* them, and a menu only with its children.                                *)
LEMMA SetsTyped ==
  ASSUME NEW base \in Rulebases, NEW n \in Symbols, NEW a \in base.atoms[n]
  PROVE  /\ Sets(n, a) \in Seq(GoalsOf(base))
         /\ Sets(n, a) # <<>>
         /\ Sets(n, a)[1] \in GoalsOf(base)
         /\ \E g \in ToSet(Sets(n, a)) : g.node = n /\ g.atom.val = a.val
         /\ \A g \in ToSet(Sets(n, a)) : g.node \in DOMAIN Children =>
              \E c : Sets(n, a) = Chosen(g.node, c) /\ g.atom = Atom("node", c)
<1>1. /\ \A x \in Symbols : Offered(x) \subseteq base.atoms[x] /\ base.atoms[x] \subseteq Values
      /\ \A m \in DOMAIN Children : base.atoms[m] = Offered(m)
  BY BaseFacts
<1>2. ASSUME NEW m \in DOMAIN Children, NEW i \in DOMAIN Children[m]
      PROVE  /\ Chosen(m, Children[m][i]) \in Seq(GoalsOf(base))
             /\ Chosen(m, Children[m][i])[1] \in GoalsOf(base)
             /\ \A g \in ToSet(Chosen(m, Children[m][i])) : g.node \in DOMAIN Children =>
                  g.node = m /\ g.atom = Atom("node", Children[m][i])
  <2> DEFINE c == Children[m][i]
  <2>1. Atom("node", c) \in base.atoms[m] /\ m \in Symbols
    BY <1>1, RadioFacts, OfferedFacts
  <2>2. \A k \in DOMAIN Children[m] : /\ Children[m][k] \in Symbols
                                      /\ Bool(Children[m][k] = c) \in base.atoms[Children[m][k]]
    <3>1. \A b : b \in BOOLEAN => Bool(b) \in {Bool(x) : x \in BOOLEAN}
      OBVIOUS
    <3>2. \A k \in DOMAIN Children[m] : (Children[m][k] = c) \in BOOLEAN
      OBVIOUS
    <3>3. \A k \in DOMAIN Children[m] : Bool(Children[m][k] = c) \in Offered(Children[m][k])
      BY <3>1, <3>2, OfferedFacts
    <3>4. QED
      BY <1>1, <3>3, RadioFacts
  <2>3. /\ Goal(m, Atom("node", c)) \in GoalsOf(base)
        /\ Goal(m, Atom("node", c)).node = m
        /\ Goal(m, Atom("node", c)).atom = Atom("node", c)
    BY <1>1, <2>1, GoalTyped
  <2>4. \A k \in DOMAIN Children[m] :
          /\ Goal(Children[m][k], Bool(Children[m][k] = c)) \in GoalsOf(base)
          /\ Goal(Children[m][k], Bool(Children[m][k] = c)).node = Children[m][k]
    BY <1>1, <2>2, GoalTyped
  <2> HIDE DEF c
  <2>5. ToSet(Chosen(m, c)) \subseteq GoalsOf(base)
    BY <2>3, <2>4, ChosenElements
  <2>6. Chosen(m, c) \in Seq(GoalsOf(base))
    <3> DEFINE rest == [k \in DOMAIN Children[m] |-> Goal(Children[m][k], Bool(Children[m][k] = c))]
    <3>1. DOMAIN Children[m] = 1..Len(Children[m]) /\ Len(Children[m]) \in Nat
      BY RulebaseAssumption, LenProperties
    <3>2. rest \in [1..Len(Children[m]) -> GoalsOf(base)]
      BY <2>4, <3>1
    <3>3. rest \in Seq(GoalsOf(base))
      BY <3>1, <3>2, SeqDef
    <3>4. <<Goal(m, Atom("node", c))>> \in Seq(GoalsOf(base))
      BY <2>3
    <3>5. Chosen(m, c) = <<Goal(m, Atom("node", c))>> \o rest
      BY DEF Chosen
    <3> HIDE DEF rest
    <3>6. QED
      BY <3>3, <3>4, <3>5, ConcatProperties
  <2>7. ASSUME NEW g \in ToSet(Chosen(m, c)), g.node \in DOMAIN Children
        PROVE  g.node = m /\ g.atom = Atom("node", c)
    <3>1. CASE g = Goal(m, Atom("node", c))
      BY <2>3, <3>1
    <3>2. CASE \E k \in DOMAIN Children[m] : g = Goal(Children[m][k], Bool(Children[m][k] = c))
      <4>1. PICK k \in DOMAIN Children[m] : g = Goal(Children[m][k], Bool(Children[m][k] = c))
        BY <3>2
      <4>2. g.node = Children[m][k]
        BY <2>4, <4>1
      <4>3. QED
        BY <2>7, <4>2, RadioFacts
    <3>3. QED
      BY <3>1, <3>2, ChosenElements
  <2>8. Chosen(m, c)[1] \in GoalsOf(base)
    BY <2>3, ChosenElements
  <2>9. QED
    BY <2>6, <2>7, <2>8 DEF c
<1>3. CASE cml_node_is_radio(n)
  <2>1. n \in DOMAIN Children
    BY <1>3 DEF cml_node_is_radio
  <2>2. PICK i \in DOMAIN Children[n] : a = Atom("node", Children[n][i])
    BY <1>1, <2>1, OfferedFacts
  <2>3. a.val = Children[n][i]
    BY <2>2, AtomFields
  <2>4. Sets(n, a) = Chosen(n, Children[n][i])
    <3>1. ~is_radio_child(n)
      BY <2>1, RadioFacts
    <3>2. QED
      BY <1>3, <2>3, <3>1 DEF Sets
  <2>5. /\ Chosen(n, Children[n][i])[1] = Goal(n, a)
        /\ Goal(n, a) \in ToSet(Chosen(n, Children[n][i]))
        /\ Goal(n, a).node = n /\ Goal(n, a).atom = a
        /\ Chosen(n, Children[n][i]) # <<>>
    BY <1>1, <2>1, <2>2, ChosenElements, GoalTyped
  <2>6. /\ Chosen(n, Children[n][i]) \in Seq(GoalsOf(base))
        /\ Chosen(n, Children[n][i])[1] \in GoalsOf(base)
        /\ \A g \in ToSet(Chosen(n, Children[n][i])) : g.node \in DOMAIN Children =>
             g.node = n /\ g.atom = Atom("node", Children[n][i])
    BY <1>2, <2>1
  <2>7. QED
    BY <2>4, <2>5, <2>6
<1>4. CASE ~cml_node_is_radio(n) /\ is_radio_child(n) /\ a.val = "y"
  <2>1. Parent[n] \in DOMAIN Children
    BY <1>4 DEF is_radio_child
  <2>2. PICK i \in DOMAIN Children[Parent[n]] : Children[Parent[n]][i] = n
    BY <1>4, RadioFacts
  <2>3. Sets(n, a) = Chosen(Parent[n], n)
    BY <1>4 DEF Sets
  <2>4. /\ Goal(n, Bool(n = n)) \in ToSet(Chosen(Parent[n], n))
        /\ Chosen(Parent[n], n) # <<>>
    BY <2>1, <2>2, ChosenElements
  <2>5. Goal(n, Bool(n = n)).node = n /\ Goal(n, Bool(n = n)).atom = Bool(n = n)
    BY DEF Goal
  <2>6. Bool(n = n).val = "y"
    BY DEF Bool, Atom
  <2>7. /\ Chosen(Parent[n], n) \in Seq(GoalsOf(base))
        /\ Chosen(Parent[n], n)[1] \in GoalsOf(base)
        /\ \A g \in ToSet(Chosen(Parent[n], n)) : g.node \in DOMAIN Children =>
             g.node = Parent[n] /\ g.atom = Atom("node", n)
    BY <1>2, <2>1, <2>2
  <2>8. \E g \in ToSet(Sets(n, a)) : g.node = n /\ g.atom.val = a.val
    BY <1>4, <2>3, <2>4, <2>5, <2>6
  <2>9. QED
    BY <2>3, <2>4, <2>7, <2>8
<1>5. CASE ~cml_node_is_radio(n) /\ ~(is_radio_child(n) /\ a.val = "y")
  <2>1. Sets(n, a) = <<Goal(n, a)>>
    BY <1>5 DEF Sets
  <2>2. Goal(n, a) \in GoalsOf(base) /\ Goal(n, a).node = n /\ Goal(n, a).atom = a
    BY <1>1, GoalTyped
  <2> DEFINE g == Goal(n, a)
  <2> HIDE DEF g
  <2>3. /\ <<g>> # <<>> /\ <<g>>[1] = g /\ ToSet(<<g>>) = {g}
    BY DEF ToSet
  <2>4. g \in GoalsOf(base) => <<g>> \in Seq(GoalsOf(base))
    OBVIOUS
  <2>5. n \notin DOMAIN Children
    BY <1>5 DEF cml_node_is_radio
  <2>6. QED
    BY <2>1, <2>2, <2>3, <2>4, <2>5 DEF g
<1>6. QED
  BY <1>3, <1>4, <1>5

-----------------------------------------------------------------------------
(* The frames of a call.                                                   *)

SetFrames(base) ==
  {f \in [kind : {"set"}, node : Symbols, atom : Values, todo : Seq(GoalsOf(base)), ok : BOOLEAN] :
     f.atom \in base.atoms[f.node] /\ ToSet(f.todo) \subseteq ToSet(Sets(f.node, f.atom))}

RulesFrames(base) ==
  [kind : {"rules"}, nodes : SUBSET Symbols, todo : Seq(DOMAIN base.rules), ok : BOOLEAN]

(* What expr_solve has to do: goals for symbols of the rule, and its ends. *)
Ends == {GivesUp, Dies}

SolveFrames(base) ==
  {f \in [kind : {"solve"}, rule : DOMAIN base.rules, todo : Seq(GoalsOf(base) \cup Ends), ok : BOOLEAN] :
     \A g \in ToSet(f.todo) : g \notin Ends => g.node \in expr_symbols(base.rules[f.rule])}

Frames(base) == SetFrames(base) \cup RulesFrames(base) \cup SolveFrames(base)

(* The kind of a frame tells what it holds.                                *)
LEMMA FrameKinds ==
  ASSUME NEW base, NEW f \in Frames(base)
  PROVE  /\ f.ok \in BOOLEAN
         /\ f.kind \in {"set", "rules", "solve"}
         /\ f.kind = "set" => f \in SetFrames(base)
         /\ f.kind = "rules" => f \in RulesFrames(base)
         /\ f.kind = "solve" => f \in SolveFrames(base)
BY DEF Frames, SetFrames, RulesFrames, SolveFrames

LEMMA SetFields ==
  ASSUME NEW base, NEW f \in SetFrames(base)
  PROVE  /\ f \in Frames(base)
         /\ f.kind = "set" /\ f.node \in Symbols /\ f.atom \in base.atoms[f.node]
         /\ f.todo \in Seq(GoalsOf(base)) /\ f.ok \in BOOLEAN
         /\ ToSet(f.todo) \subseteq ToSet(Sets(f.node, f.atom))
BY DEF Frames, SetFrames

LEMMA RulesFields ==
  ASSUME NEW base, NEW f \in RulesFrames(base)
  PROVE  /\ f \in Frames(base)
         /\ f.kind = "rules" /\ f.nodes \subseteq Symbols
         /\ f.todo \in Seq(DOMAIN base.rules) /\ f.ok \in BOOLEAN
BY DEF Frames, RulesFrames

LEMMA SolveFields ==
  ASSUME NEW base, NEW f \in SolveFrames(base)
  PROVE  /\ f \in Frames(base)
         /\ f.kind = "solve" /\ f.rule \in DOMAIN base.rules
         /\ f.todo \in Seq(GoalsOf(base) \cup Ends) /\ f.ok \in BOOLEAN
         /\ \A g \in ToSet(f.todo) : g \notin Ends => g \in GoalsOf(base) /\ g.node \in expr_symbols(base.rules[f.rule])
<1>1. /\ f \in Frames(base)
      /\ f.kind = "solve" /\ f.rule \in DOMAIN base.rules
      /\ f.todo \in Seq(GoalsOf(base) \cup Ends) /\ f.ok \in BOOLEAN
      /\ \A g \in ToSet(f.todo) : g \notin Ends => g.node \in expr_symbols(base.rules[f.rule])
  BY DEF Frames, SolveFrames
<1>2. ToSet(f.todo) \subseteq GoalsOf(base) \cup Ends
  BY <1>1, Elements
<1>3. QED
  BY <1>1, <1>2

(* A new frame.                                                            *)
LEMMA NewSolveFrame ==
  ASSUME NEW base, NEW r \in DOMAIN base.rules, NEW todo \in Seq(GoalsOf(base) \cup Ends),
         \A g \in ToSet(todo) : g \notin Ends => g.node \in expr_symbols(base.rules[r])
  PROVE  /\ SolveFrame(r, todo) \in SolveFrames(base)
         /\ SolveFrame(r, todo).kind = "solve" /\ SolveFrame(r, todo).ok = TRUE
         /\ SolveFrame(r, todo).rule = r /\ SolveFrame(r, todo).todo = todo
BY DEF SolveFrame, SolveFrames

(* Frames that go on to their next element.                                *)
LEMMA SetAdvances ==
  ASSUME NEW base, NEW f \in SetFrames(base), f.todo # <<>>,
         NEW t, t = [f EXCEPT !.todo = Tail(@)]
  PROVE  /\ t \in SetFrames(base)
         /\ t.node = f.node /\ t.atom = f.atom /\ t.ok = f.ok /\ t.todo = Tail(f.todo)
         /\ Head(f.todo) \in GoalsOf(base)
         /\ ToSet(f.todo) = {Head(f.todo)} \cup ToSet(t.todo)
<1>1. /\ f.todo \in Seq(GoalsOf(base))
      /\ f.atom \in base.atoms[f.node]
      /\ ToSet(f.todo) \subseteq ToSet(Sets(f.node, f.atom))
      /\ f \in [kind : {"set"}, node : Symbols, atom : Values, todo : Seq(GoalsOf(base)), ok : BOOLEAN]
  BY DEF SetFrames
<1>2. /\ Tail(f.todo) \in Seq(GoalsOf(base))
      /\ ToSet(f.todo) = {Head(f.todo)} \cup ToSet(Tail(f.todo))
  BY <1>1, FirstAndRest
<1>3. ToSet(f.todo) \subseteq GoalsOf(base)
  BY <1>1, Elements
<1>4. /\ t \in [kind : {"set"}, node : Symbols, atom : Values, todo : Seq(GoalsOf(base)), ok : BOOLEAN]
      /\ t.node = f.node /\ t.atom = f.atom /\ t.ok = f.ok /\ t.todo = Tail(f.todo)
  BY <1>1, <1>2
<1>5. QED
  BY <1>1, <1>2, <1>3, <1>4 DEF SetFrames

LEMMA RulesAdvance ==
  ASSUME NEW base, NEW f \in RulesFrames(base), f.todo # <<>>,
         NEW t, t = [f EXCEPT !.todo = Tail(@)]
  PROVE  /\ t \in RulesFrames(base)
         /\ t.nodes = f.nodes /\ t.ok = f.ok /\ t.todo = Tail(f.todo)
         /\ Head(f.todo) \in DOMAIN base.rules
         /\ ToSet(f.todo) = {Head(f.todo)} \cup ToSet(t.todo)
<1>1. /\ f.todo \in Seq(DOMAIN base.rules)
      /\ f \in [kind : {"rules"}, nodes : SUBSET Symbols, todo : Seq(DOMAIN base.rules), ok : BOOLEAN]
  BY DEF RulesFrames
<1>2. /\ Tail(f.todo) \in Seq(DOMAIN base.rules)
      /\ ToSet(f.todo) = {Head(f.todo)} \cup ToSet(Tail(f.todo))
  BY <1>1, FirstAndRest
<1>3. ToSet(f.todo) \subseteq DOMAIN base.rules
  BY <1>1, Elements
<1>4. /\ t \in [kind : {"rules"}, nodes : SUBSET Symbols, todo : Seq(DOMAIN base.rules), ok : BOOLEAN]
      /\ t.nodes = f.nodes /\ t.ok = f.ok /\ t.todo = Tail(f.todo)
  BY <1>1, <1>2
<1>5. QED
  BY <1>2, <1>3, <1>4 DEF RulesFrames

LEMMA SolveAdvances ==
  ASSUME NEW base, NEW f \in SolveFrames(base), f.todo # <<>>,
         NEW t, t = [f EXCEPT !.todo = Tail(@)]
  PROVE  /\ t \in SolveFrames(base)
         /\ t.rule = f.rule /\ t.ok = f.ok /\ t.todo = Tail(f.todo)
         /\ Head(f.todo) \in ToSet(f.todo)
         /\ ToSet(f.todo) = {Head(f.todo)} \cup ToSet(t.todo)
<1>1. /\ f.todo \in Seq(GoalsOf(base) \cup Ends)
      /\ \A g \in ToSet(f.todo) : g \notin Ends => g.node \in expr_symbols(base.rules[f.rule])
      /\ f \in [kind : {"solve"}, rule : DOMAIN base.rules, todo : Seq(GoalsOf(base) \cup Ends), ok : BOOLEAN]
  BY DEF SolveFrames
<1>2. /\ Tail(f.todo) \in Seq(GoalsOf(base) \cup Ends)
      /\ Head(f.todo) \in ToSet(f.todo)
      /\ ToSet(f.todo) = {Head(f.todo)} \cup ToSet(Tail(f.todo))
  BY <1>1, FirstAndRest
<1>3. /\ t \in [kind : {"solve"}, rule : DOMAIN base.rules, todo : Seq(GoalsOf(base) \cup Ends), ok : BOOLEAN]
      /\ t.rule = f.rule /\ t.ok = f.ok /\ t.todo = Tail(f.todo)
  BY <1>1, <1>2
<1>4. QED
  BY <1>1, <1>2, <1>3 DEF SolveFrames

(* A frame that is told of a failure, or not.                              *)
SameBut(t, f) ==
  /\ t.kind = f.kind
  /\ t.kind = "set" => t.node = f.node /\ t.atom = f.atom
  /\ t.kind = "rules" => t.nodes = f.nodes
  /\ t.kind = "solve" => t.rule = f.rule
  /\ t.todo = f.todo

LEMMA FrameTold ==
  ASSUME NEW base, NEW f \in Frames(base), NEW b \in BOOLEAN, NEW t, t = [f EXCEPT !.ok = b]
  PROVE  t \in Frames(base) /\ SameBut(t, f) /\ t.ok = b
<1>1. CASE f \in SetFrames(base)
  <2>1. f \in [kind : {"set"}, node : Symbols, atom : Values, todo : Seq(GoalsOf(base)), ok : BOOLEAN]
    BY <1>1 DEF SetFrames
  <2>2. /\ t \in [kind : {"set"}, node : Symbols, atom : Values, todo : Seq(GoalsOf(base)), ok : BOOLEAN]
        /\ t.kind = "set" /\ f.kind = "set" /\ t.node = f.node /\ t.atom = f.atom /\ t.todo = f.todo /\ t.ok = b
    BY <2>1
  <2>3. t \in SetFrames(base)
    BY <1>1, <2>2 DEF SetFrames
  <2>4. QED
    BY <2>2, <2>3 DEF SameBut, Frames
<1>2. CASE f \in RulesFrames(base)
  <2>1. /\ t \in RulesFrames(base)
        /\ t.kind = "rules" /\ f.kind = "rules" /\ t.nodes = f.nodes /\ t.todo = f.todo /\ t.ok = b
    BY <1>2 DEF RulesFrames
  <2>2. QED
    BY <2>1 DEF SameBut, Frames
<1>3. CASE f \in SolveFrames(base)
  <2>1. f \in [kind : {"solve"}, rule : DOMAIN base.rules, todo : Seq(GoalsOf(base) \cup Ends), ok : BOOLEAN]
    BY <1>3 DEF SolveFrames
  <2>2. /\ t \in [kind : {"solve"}, rule : DOMAIN base.rules, todo : Seq(GoalsOf(base) \cup Ends), ok : BOOLEAN]
        /\ t.kind = "solve" /\ f.kind = "solve" /\ t.rule = f.rule /\ t.todo = f.todo /\ t.ok = b
    BY <2>1
  <2>3. t \in SolveFrames(base)
    BY <1>3, <2>2 DEF SolveFrames
  <2>4. QED
    BY <2>2, <2>3 DEF SameBut, Frames
<1>4. QED
  BY <1>1, <1>2, <1>3 DEF Frames

-----------------------------------------------------------------------------
(* The values of nodes.                                                    *)

(* What the value of an unbound node is, given those of its sources.       *)
Read(base, v, n) ==
  CASE is_radio_child(n) -> Bool(v[Parent[n]].val = n)
    [] ~is_radio_child(n) /\ n \in DOMAIN base.default ->
         expr_evaluate(base.default[n], [s \in expr_symbols(base.default[n]) |-> v[s]])
    [] OTHER -> IF cml_node_is_radio(n) THEN Atom("node", Children[n][1])
                ELSE Atom(TypeOf[n], "n")

Resolved(f) == [s \in Symbols |-> IF Get(s) # Unbound THEN Get(s) ELSE f[s]]

LEMMA DepthFacts ==
  ASSUME NEW base \in Rulebases
  PROVE  /\ base.deepest \in Nat
         /\ \A n \in Symbols : /\ base.depth[n] \in 0..base.deepest
                               /\ \A s \in Sources(base, n) : s \in Symbols /\ base.depth[s] < base.depth[n]
BY RulebasesAssumption

LEMMA ReadLocal ==
  ASSUME rb \in Rulebases, NEW n \in Symbols, NEW v, NEW w, \A s \in Sources(rb, n) : v[s] = w[s]
  PROVE  Read(rb, v, n) = Read(rb, w, n)
<1>1. CASE is_radio_child(n)
  <2>1. v[Parent[n]] = w[Parent[n]]
    BY <1>1 DEF Sources
  <2>2. QED
    BY <1>1, <2>1 DEF Read
<1>2. CASE ~is_radio_child(n) /\ n \in DOMAIN rb.default
  <2>1. \A s \in expr_symbols(rb.default[n]) : v[s] = w[s]
    BY <1>2 DEF Sources
  <2>2. [s \in expr_symbols(rb.default[n]) |-> v[s]] = [s \in expr_symbols(rb.default[n]) |-> w[s]]
    BY <2>1
  <2>3. QED
    BY <1>2, <2>2 DEF Read
<1>3. CASE ~is_radio_child(n) /\ n \notin DOMAIN rb.default
  BY <1>3 DEF Read
<1>4. QED
  BY <1>1, <1>2, <1>3

LEMMA ResolvedRead ==
  ASSUME rb \in Rulebases, NEW n \in Symbols, NEW f
  PROVE  Read(rb, Resolved(f), n) =
           LET get_value(s) == IF Get(s) # Unbound THEN Get(s) ELSE f[s]
           IN  CASE is_radio_child(n) -> Bool(get_value(Parent[n]).val = n)
                 [] ~is_radio_child(n) /\ n \in DOMAIN rb.default ->
                      expr_evaluate(rb.default[n], [s \in expr_symbols(rb.default[n]) |-> get_value(s)])
                 [] OTHER -> IF cml_node_is_radio(n) THEN Atom("node", Children[n][1])
                             ELSE Atom(TypeOf[n], "n")
<1>1. \A s \in Sources(rb, n) : Resolved(f)[s] = IF Get(s) # Unbound THEN Get(s) ELSE f[s]
  BY DepthFacts DEF Resolved
<1>2. CASE is_radio_child(n)
  <2>1. Resolved(f)[Parent[n]] = IF Get(Parent[n]) # Unbound THEN Get(Parent[n]) ELSE f[Parent[n]]
    BY <1>1, <1>2 DEF Sources
  <2>2. QED
    BY <1>2, <2>1 DEF Read
<1>3. CASE ~is_radio_child(n) /\ n \in DOMAIN rb.default
  <2>1. \A s \in expr_symbols(rb.default[n]) :
          Resolved(f)[s] = IF Get(s) # Unbound THEN Get(s) ELSE f[s]
    BY <1>1, <1>3 DEF Sources
  <2>2. [s \in expr_symbols(rb.default[n]) |-> Resolved(f)[s]] =
          [s \in expr_symbols(rb.default[n]) |-> IF Get(s) # Unbound THEN Get(s) ELSE f[s]]
    BY <2>1
  <2>3. QED
    BY <1>3, <2>2 DEF Read
<1>4. CASE ~is_radio_child(n) /\ n \notin DOMAIN rb.default
  BY <1>4 DEF Read
<1>5. QED
  BY <1>2, <1>3, <1>4

LEMMA UnboundIs ==
  rb \in Rulebases => unbound_value = CHOOSE f : f = [n \in Symbols |-> Read(rb, Resolved(f), n)]
<1> SUFFICES ASSUME rb \in Rulebases
             PROVE  unbound_value = CHOOSE f : f = [n \in Symbols |-> Read(rb, Resolved(f), n)]
  OBVIOUS
<1> DEFINE Body(f, n) ==
      LET get_value(s) == IF Get(s) # Unbound THEN Get(s) ELSE f[s]
      IN  CASE is_radio_child(n) -> Bool(get_value(Parent[n]).val = n)
            [] ~is_radio_child(n) /\ n \in DOMAIN rb.default ->
                 expr_evaluate(rb.default[n], [s \in expr_symbols(rb.default[n]) |-> get_value(s)])
            [] OTHER -> IF cml_node_is_radio(n) THEN Atom("node", Children[n][1])
                        ELSE Atom(TypeOf[n], "n")
<1>1. unbound_value = CHOOSE f : f = [n \in Symbols |-> Body(f, n)]
  BY DEF unbound_value
<1>2. \A f : \A n \in Symbols : Body(f, n) = Read(rb, Resolved(f), n)
  BY ResolvedRead
<1> HIDE DEF Body
<1>3. \A f : [n \in Symbols |-> Body(f, n)] = [n \in Symbols |-> Read(rb, Resolved(f), n)]
  BY <1>2
<1>4. QED
  BY <1>1, <1>3

(* The values of unbound nodes are found from the shallow ones to the deep *)
(* ones.                                                                   *)
LEMMA UnboundEquation ==
  rb \in Rulebases => \A n \in Symbols : unbound_value[n] = Read(rb, Resolved(unbound_value), n)
<1> SUFFICES ASSUME rb \in Rulebases
             PROVE  \A n \in Symbols : unbound_value[n] = Read(rb, Resolved(unbound_value), n)
  OBVIOUS
<1> DEFINE Solved(f, d) == \A n \in Symbols : rb.depth[n] < d => f[n] = Read(rb, Resolved(f), n)
           D == {d \in 0..rb.deepest + 1 : \E f : Solved(f, d)}
<1>1. /\ rb.deepest \in Nat
      /\ \A n \in Symbols : /\ rb.depth[n] \in 0..rb.deepest
                            /\ \A s \in Sources(rb, n) : s \in Symbols /\ rb.depth[s] < rb.depth[n]
  BY DepthFacts
<1>2. 0 \in D
  <2>1. Solved(<<>>, 0)
    BY <1>1
  <2>2. 0 \in 0..rb.deepest + 1
    BY <1>1
  <2>3. QED
    BY <2>1, <2>2
<1>3. ASSUME NEW d \in 0..rb.deepest, NEW f, Solved(f, d)
      PROVE  \E g : Solved(g, d + 1)
  <2> DEFINE g == [n \in Symbols |-> Read(rb, Resolved(f), n)]
  <2>1. ASSUME NEW n \in Symbols, rb.depth[n] < d + 1
        PROVE  g[n] = Read(rb, Resolved(g), n)
    <3>1. ASSUME NEW s \in Sources(rb, n)
          PROVE  Resolved(g)[s] = Resolved(f)[s]
      <4>1. s \in Symbols /\ rb.depth[s] < d
        BY <1>1, <2>1
      <4>2. f[s] = Read(rb, Resolved(f), s)
        BY <1>3, <4>1
      <4>3. g[s] = Read(rb, Resolved(f), s)
        BY <4>1
      <4>4. QED
        BY <4>1, <4>2, <4>3 DEF Resolved
    <3> HIDE DEF g
    <3>2. Read(rb, Resolved(g), n) = Read(rb, Resolved(f), n)
      BY <3>1, ReadLocal
    <3>3. QED
      BY <3>2 DEF g
  <2> HIDE DEF g
  <2>2. QED
    BY <2>1
<1> HIDE DEF Solved
<1>4. \E f : Solved(f, rb.deepest + 1)
  <2>1. D \subseteq 0..rb.deepest + 1 /\ D # {} /\ rb.deepest + 1 \in Nat
    BY <1>1, <1>2
  <2>2. Newest(D) \in D /\ \A j \in D : j <= Newest(D)
    BY <2>1, HasNewest
  <2>3. PICK f : Solved(f, Newest(D))
    <3>1. \A d \in D : \E f : Solved(f, d)
      OBVIOUS
    <3>2. QED
      BY <2>2, <3>1
  <2>4. Newest(D) \in 0..rb.deepest + 1
    BY <2>1, <2>2
  <2>5. CASE Newest(D) \in 0..rb.deepest
    <3>1. \E g : Solved(g, Newest(D) + 1)
      BY <1>3, <2>3, <2>5
    <3>2. Newest(D) + 1 \in 0..rb.deepest + 1
      BY <1>1, <2>5
    <3>3. Newest(D) + 1 \in D
      BY <3>1, <3>2
    <3>4. Newest(D) + 1 <= Newest(D) /\ Newest(D) \in Int
      BY <2>2, <2>5, <3>3
    <3>5. QED
      BY <3>4
  <2>6. Newest(D) = rb.deepest + 1 \/ Newest(D) \in 0..rb.deepest
    BY <1>1, <2>4
  <2>7. QED
    BY <2>3, <2>5, <2>6
<1>5. \E f : \A n \in Symbols : f[n] = Read(rb, Resolved(f), n)
  <2>1. \A n \in Symbols : rb.depth[n] < rb.deepest + 1
    <3>1. \A d \in Nat : \A x \in 0..d : x < d + 1
      OBVIOUS
    <3>2. rb.deepest \in Nat /\ \A n \in Symbols : rb.depth[n] \in 0..rb.deepest
      BY <1>1
    <3>3. QED
      BY <3>1, <3>2
  <2>2. ASSUME NEW d, NEW f, Solved(f, d), \A n \in Symbols : rb.depth[n] < d
        PROVE  \A n \in Symbols : f[n] = Read(rb, Resolved(f), n)
    BY <2>2 DEF Solved
  <2>3. QED
    BY <1>4, <2>1, <2>2
<1>6. PICK f : \A n \in Symbols : f[n] = Read(rb, Resolved(f), n)
  BY <1>5
<1> DEFINE u == [n \in Symbols |-> f[n]]
<1>7. Resolved(u) = Resolved(f)
  BY DEF Resolved
<1>8. u = [n \in Symbols |-> Read(rb, Resolved(u), n)]
  BY <1>6, <1>7
<1> HIDE DEF u
<1>9. unbound_value = [n \in Symbols |-> Read(rb, Resolved(unbound_value), n)]
  BY <1>8, UnboundIs
<1> DEFINE w == unbound_value
<1> HIDE DEF w
<1>10. w = [n \in Symbols |-> Read(rb, Resolved(w), n)]
  BY <1>9 DEF w
<1>11. \A n \in Symbols : w[n] = Read(rb, Resolved(w), n)
  BY <1>10
<1>12. QED
  BY <1>11 DEF w

(* The value of a node is its binding, or read off the values of others.   *)
ValuesAreRead ==
  \A n \in Symbols : value[n] = IF Get(n) # Unbound THEN Get(n) ELSE Read(rb, value, n)

LEMMA ValueEquation == rb \in Rulebases => ValuesAreRead
<1>1. value = Resolved(unbound_value)
  BY DEF value, cml_node_get_value, Resolved
<1>2. \A n \in Symbols : value[n] = IF Get(n) # Unbound THEN Get(n) ELSE unbound_value[n]
  BY DEF value, cml_node_get_value
<1>3. QED
  BY <1>1, <1>2, UnboundEquation DEF ValuesAreRead

(* The same of the next state.                                             *)
LEMMA ValueNext == (rb \in Rulebases)' => ValuesAreRead'
BY ValueEquation, PTL

(* Of some nodes one is not deeper than the others.                        *)
LEMMA Shallowest ==
  ASSUME NEW base \in Rulebases, NEW B \in SUBSET Symbols, B # {}
  PROVE  \E n \in B : \A s \in Sources(base, n) : s \notin B
<1> DEFINE H == {base.deepest - base.depth[n] : n \in B}
<1>1. /\ base.deepest \in Nat
      /\ \A n \in Symbols : /\ base.depth[n] \in 0..base.deepest
                            /\ \A s \in Sources(base, n) : s \in Symbols /\ base.depth[s] < base.depth[n]
  BY DepthFacts
<1>2. H \subseteq 0..base.deepest /\ H # {}
  BY <1>1
<1>3. Newest(H) \in H /\ \A j \in H : j <= Newest(H)
  BY <1>1, <1>2, HasNewest
<1>4. PICK n \in B : Newest(H) = base.deepest - base.depth[n]
  BY <1>3
<1>5. ASSUME NEW s \in Sources(base, n), s \in B
      PROVE  FALSE
  <2>1. s \in Symbols /\ base.depth[s] < base.depth[n] /\ n \in Symbols
    BY <1>1, <1>4
  <2>2. base.deepest - base.depth[s] <= base.deepest - base.depth[n]
    BY <1>3, <1>4, <1>5
  <2>3. base.depth[s] \in Nat /\ base.depth[n] \in Nat
    BY <1>1, <2>1
  <2>4. QED
    BY <1>1, <2>1, <2>2, <2>3
<1>6. QED
  BY <1>5

(* Values have the type that the rulebase allows.                          *)
BoundTyped ==
  \A i \in TxIds : \A n \in DOMAIN transactions[i].bindings : transactions[i].bindings[n] \in rb.atoms[n]

LEMMA GetTyped ==
  ASSUME IInv, BoundTyped, NEW n \in Symbols, Get(n) # Unbound
  PROVE  Get(n) \in rb.atoms[n]
<1> DEFINE B == Binders(n, Forced)
<1>1. /\ Len(transactions) \in Nat
      /\ TxIds = 1..Len(transactions)
  BY TxTypes DEF IInv
<1>2. Get(n) = IF B = {} THEN Unbound ELSE transactions[Newest(B)].bindings[n]
  BY GetIsNewest DEF GetsAreNewest, NewestValue
<1>3. B \subseteq TxIds /\ \A i \in B : n \in DOMAIN transactions[i].bindings
  BY DEF Binders, Forced
<1>4. B \subseteq 0..Len(transactions)
  BY <1>1, <1>3
<1> HIDE DEF B
<1>5. B # {}
  BY <1>2
<1>6. Newest(B) \in B
  BY <1>1, <1>4, <1>5, HasNewest
<1>7. QED
  BY <1>2, <1>3, <1>5, <1>6 DEF BoundTyped

LEMMA ReadTyped ==
  ASSUME NEW base \in Rulebases, NEW n \in Symbols, NEW v, \A s \in Sources(base, n) : v[s] \in base.atoms[s]
  PROVE  Read(base, v, n) \in base.atoms[n]
<1>1. /\ \A x \in Symbols : Offered(x) \subseteq base.atoms[x] /\ base.atoms[x] \subseteq Values
      /\ \A m \in DOMAIN Children : base.atoms[m] = Offered(m)
  BY BaseFacts
<1>2. CASE is_radio_child(n)
  <2>1. Offered(n) = {Bool(b) : b \in BOOLEAN}
    BY <1>2, OfferedFacts
  <2>2. (v[Parent[n]].val = n) \in BOOLEAN
    OBVIOUS
  <2>3. Read(base, v, n) = Bool(v[Parent[n]].val = n)
    BY <1>2 DEF Read
  <2>4. Bool(v[Parent[n]].val = n) \in {Bool(b) : b \in BOOLEAN}
    BY <2>2
  <2>5. QED
    BY <1>1, <2>1, <2>3, <2>4
<1>3. CASE ~is_radio_child(n) /\ n \in DOMAIN base.default
  <2> DEFINE uses == expr_symbols(base.default[n])
             w == [s \in uses |-> v[s]]
  <2>1. Sources(base, n) = uses
    BY <1>3 DEF Sources
  <2>2. uses \subseteq Symbols
    BY <2>1, DepthFacts
  <2>3. \A s \in uses : v[s] \in base.atoms[s] /\ v[s] \in Values
    BY <1>1, <2>1, <2>2
  <2>4. w \in ValuesIn(base, uses)
    BY <2>3 DEF ValuesIn
  <2>5. Read(base, v, n) = expr_evaluate(base.default[n], w)
    BY <1>3 DEF Read
  <2> HIDE DEF w
  <2>6. expr_evaluate(base.default[n], w) \in base.atoms[n]
    BY <1>3, <2>4, RulebasesAssumption
  <2>7. QED
    BY <2>5, <2>6
<1>4. CASE ~is_radio_child(n) /\ n \notin DOMAIN base.default
  <2>1. CASE cml_node_is_radio(n)
    <3>1. n \in DOMAIN Children
      BY <2>1 DEF cml_node_is_radio
    <3>2. Offered(n) = {Atom("node", Children[n][k]) : k \in DOMAIN Children[n]}
      BY <3>1, OfferedFacts
    <3>3. 1 \in DOMAIN Children[n]
      <4>1. Children[n] \in Seq(Symbols) /\ Children[n] # <<>>
        BY <3>1, RadioFacts
      <4>2. QED
        BY <4>1, EmptySeq, LenProperties
    <3>4. Read(base, v, n) = Atom("node", Children[n][1])
      BY <1>4, <2>1 DEF Read
    <3>5. QED
      BY <1>1, <3>1, <3>2, <3>3, <3>4
  <2>2. CASE ~cml_node_is_radio(n)
    <3>1. TypeOf[n] \in {"boolean", "tristate"}
      BY <2>2, RadioFacts DEF cml_node_is_radio
    <3>2. Read(base, v, n) = Atom(TypeOf[n], "n")
      BY <1>4, <2>2 DEF Read
    <3>3. Atom(TypeOf[n], "n") \in Offered(n)
      <4>1. CASE TypeOf[n] = "boolean"
        <5>1. Offered(n) = {Bool(b) : b \in BOOLEAN}
          BY <4>1 DEF Offered
        <5>2. Atom(TypeOf[n], "n") = Bool(FALSE)
          BY <4>1 DEF Bool
        <5>3. QED
          BY <5>1, <5>2
      <4>2. CASE TypeOf[n] = "tristate"
        <5>1. Offered(n) = {Atom("tristate", t) : t \in Tritvals}
          BY <4>2 DEF Offered
        <5>2. QED
          BY <4>2, <5>1 DEF Tritvals
      <4>3. QED
        BY <3>1, <4>1, <4>2
    <3>4. QED
      BY <1>1, <3>2, <3>3
  <2>3. QED
    BY <2>1, <2>2
<1>5. QED
  BY <1>2, <1>3, <1>4

LEMMA ValueTyped ==
  ASSUME rb \in Rulebases, IInv, BoundTyped
  PROVE  \A n \in Symbols : value[n] \in rb.atoms[n]
<1> DEFINE B == {n \in Symbols : value[n] \notin rb.atoms[n]}
<1>1. SUFFICES ASSUME B # {}
               PROVE  FALSE
  OBVIOUS
<1>2. PICK n \in B : \A s \in Sources(rb, n) : s \notin B
  <2>1. B \subseteq Symbols
    OBVIOUS
  <2> HIDE DEF B
  <2>2. QED
    BY <1>1, <2>1, Shallowest
<1>3. n \in Symbols /\ value[n] \notin rb.atoms[n]
  OBVIOUS
<1>4. \A s \in Sources(rb, n) : value[s] \in rb.atoms[s]
  BY <1>2, <1>3, DepthFacts
<1> HIDE DEF B
<1>5. value[n] = IF Get(n) # Unbound THEN Get(n) ELSE Read(rb, value, n)
  BY <1>3, ValueEquation DEF ValuesAreRead
<1>6. Read(rb, value, n) \in rb.atoms[n]
  BY <1>3, <1>4, ReadTyped
<1>7. QED
  BY <1>3, <1>5, <1>6, GetTyped

(* Values that do not hang on what changes stay.                           *)
LEMMA ValuesStay ==
  ASSUME rb \in Rulebases, rb' = rb, NEW U \in SUBSET Symbols,
         \A n \in U : Get(n)' = Get(n) /\ (Get(n) = Unbound => Sources(rb, n) \subseteq U)
  PROVE  \A n \in U : value[n]' = value[n]
<1> DEFINE B == {n \in U : value[n]' # value[n]}
<1>1. SUFFICES ASSUME B # {}
               PROVE  FALSE
  OBVIOUS
<1>2. PICK n \in B : \A s \in Sources(rb, n) : s \notin B
  <2>1. B \subseteq Symbols
    OBVIOUS
  <2> HIDE DEF B
  <2>2. QED
    BY <1>1, <2>1, Shallowest
<1>3. n \in U /\ n \in Symbols /\ value[n]' # value[n]
  OBVIOUS
<1>4. Get(n) = Unbound => \A s \in Sources(rb, n) : value[s]' = value[s]
  BY <1>2, <1>3
<1> HIDE DEF B
<1>5. /\ value[n] = IF Get(n) # Unbound THEN Get(n) ELSE Read(rb, value, n)
      /\ value[n]' = IF Get(n)' # Unbound THEN Get(n)' ELSE Read(rb, value', n)
  <2>1. ValuesAreRead /\ ValuesAreRead'
    BY ValueEquation, ValueNext
  <2>2. n \in Symbols
    BY <1>3
  <2>3. QED
    BY <2>1, <2>2 DEF ValuesAreRead, Read
<1>6. Get(n)' = Get(n)
  BY <1>3
<1>7. CASE Get(n) # Unbound
  BY <1>3, <1>5, <1>6, <1>7
<1>8. CASE Get(n) = Unbound
  <2>1. \A s \in Sources(rb, n) : value[s] = value'[s]
    BY <1>4, <1>8
  <2>2. Read(rb, value, n) = Read(rb, value', n)
    BY <1>3, <2>1, ReadLocal
  <2>3. QED
    BY <1>3, <1>5, <1>6, <1>8, <2>2
<1>9. QED
  BY <1>7, <1>8

-----------------------------------------------------------------------------
(* The open transaction.                                                   *)

(* The value that the newest transaction binds a node to.                  *)
Given(n) == transactions[Len(transactions)].bindings[n]

(* The newest transaction, when there is one.                              *)
LEMMA NewestTx ==
  ASSUME IInv, HasNew
  PROVE  /\ Len(transactions) \in TxIds /\ Len(transactions) \in Nat \ {0}
         /\ TxIds = 1..Len(transactions)
         /\ JustBound \subseteq Symbols
         /\ \A n \in JustBound : Given(n) \in Values
<1>1. /\ Len(transactions) \in Nat
      /\ TxIds = 1..Len(transactions)
      /\ \A i \in TxIds : transactions[i] \in Transaction
      /\ transactions \in Seq(Transaction)
  BY TxTypes DEF IInv, TypeOK
<1>2. Len(transactions) \in TxIds /\ Len(transactions) # 0
  BY <1>1, EmptySeq DEF HasNew
<1>3. transactions[Len(transactions)] \in Transaction
  BY <1>1, <1>2
<1>4. transactions[Len(transactions)].bindings \in UNION {[S -> Values] : S \in SUBSET Symbols}
  BY <1>3 DEF Transaction
<1>5. PICK S \in SUBSET Symbols : transactions[Len(transactions)].bindings \in [S -> Values]
  BY <1>4
<1>6. QED
  BY <1>1, <1>2, <1>5 DEF JustBound, Given

(* What it binds is what nodes have.                                       *)
LEMMA GivenIsGot ==
  ASSUME IInv, HasNew, NewestInForce, NEW n \in JustBound
  PROVE  Get(n) = Given(n)
<1> DEFINE B == Binders(n, Forced)
<1>1. /\ Len(transactions) \in TxIds /\ Len(transactions) \in Nat
      /\ TxIds = 1..Len(transactions)
      /\ n \in Symbols
  BY NewestTx
<1>2. Len(transactions) \in B
  BY <1>1 DEF NewestInForce, Forced, Binders, JustBound
<1>3. B \subseteq Nat /\ \A j \in B : j <= Len(transactions)
  BY <1>1 DEF Forced, Binders
<1>4. Get(n) = IF B = {} THEN Unbound ELSE transactions[Newest(B)].bindings[n]
  BY <1>1, GetIsNewest DEF GetsAreNewest, NewestValue
<1> HIDE DEF B
<1>5. Newest(B) = Len(transactions)
  BY <1>2, <1>3, NewestIs
<1>6. QED
  BY <1>2, <1>4, <1>5 DEF Given

LEMMA GivenIsValue ==
  ASSUME rb \in Rulebases, IInv, HasNew, NewestInForce, NEW n \in JustBound
  PROVE  /\ n \in Symbols
         /\ Get(n) # Unbound
         /\ value[n] = Given(n)
<1>1. n \in Symbols /\ Given(n) \in Values
  BY NewestTx
<1>2. Unbound \notin Values
  BY RulebasesAssumption
<1>3. QED
  BY <1>1, <1>2, GivenIsGot, ValueEquation DEF ValuesAreRead

(* The same of the next state.                                             *)
GivenValues == \A n \in JustBound : n \in Symbols /\ Get(n) # Unbound /\ value[n] = Given(n)

LEMMA GivenNext == (rb \in Rulebases /\ IInv /\ HasNew /\ NewestInForce)' => GivenValues'
<1>1. rb \in Rulebases /\ IInv /\ HasNew /\ NewestInForce => GivenValues
  BY GivenIsValue DEF GivenValues
<1>2. QED
  BY <1>1, PTL

(* A binding in a call: the first one opens a transaction, each further    *)
(* one goes to it, and no node but the one bound gets another binding.     *)
LEMMA BindGives ==
  ASSUME IInv, OneTxPerStep, NewestInForce, NEW mn \in Symbols, NEW a \in Values, NEW source \in Guards,
         Bind(mn, a, source), HasNew => transactions[Len(transactions)].guard = source
  PROVE  /\ HasNew' /\ transactions'[Len(transactions')].guard = source
         /\ mn \notin chilled /\ chilled' = chilled \cup {mn}
         /\ JustBound' = (IF HasNew THEN JustBound ELSE {}) \cup {mn}
         /\ Given(mn)' = a
         /\ HasNew => \A n \in JustBound \ {mn} : Given(n)' = Given(n)
         /\ TxIds' = 1..Len(transactions') /\ Len(transactions') \in Nat \ {0}
         /\ HasNew => Len(transactions') = Len(transactions)
         /\ \A i \in TxIds' : i = Len(transactions') \/ (i \in TxIds /\ transactions'[i] = transactions[i])
<1>1. PICK m \in 0..Len(transactions) : BindAt(mn, a, source, m)
  BY DEF Bind, BindAt, mn_is_chilled, mn_chill
<1>2. PICK id \in {m, m + 1} : /\ id \in Nat \ {0}
                               /\ BoundTx(id, mn, source, m)
                               /\ BoundValue(id, mn, a, source, m)
  BY <1>1, BindMakesTx
<1>3. /\ TxIds = 1..Len(transactions) /\ Len(transactions) \in Nat
      /\ m \in Nat
  BY TxTypes DEF IInv
<1>4. /\ transactions' \in Seq(Transaction) /\ Len(transactions') = id
      /\ \A i \in 1..id - 1 : transactions'[i] = transactions[i]
      /\ transactions'[id].guard = source /\ "NEW" \in transactions'[id].flags
      /\ transactions'[id].bindings[mn] = a
  BY <1>2 DEF BoundTx, BoundValue
<1>5. TxIds' = 1..id /\ transactions' # <<>>
  BY <1>2, <1>4, LenProperties, EmptySeq DEF TxIds
<1>6. HasNew' /\ transactions'[Len(transactions')].guard = source
  BY <1>4, <1>5 DEF HasNew
<1>7. /\ OpensTransaction(source) <=> id = m + 1
      /\ id = m => HasNew /\ m = Len(transactions)
  BY <1>1, <1>2, BindOpens
<1>8. HasNew <=> id = m
  <2>1. HasNew => ~OpensTransaction(source)
    BY DEF OpensTransaction
  <2>2. QED
    BY <1>2, <1>3, <1>7, <2>1
<1>9. id = m => /\ DOMAIN transactions'[m].bindings = DOMAIN transactions[m].bindings \cup {mn}
                /\ \A n \in DOMAIN transactions[m].bindings \ {mn} :
                     transactions'[m].bindings[n] = transactions[m].bindings[n]
  <2>1. id = m => id # m + 1
    BY <1>3
  <2>2. QED
    BY <1>2, <2>1 DEF BoundTx, BoundValue
<1>10. id = m + 1 => DOMAIN transactions'[id].bindings = {mn}
  <2>1. id = m + 1 => id # m
    BY <1>3
  <2>2. QED
    BY <1>2, <2>1 DEF BoundTx
<1>11. JustBound' = (IF HasNew THEN JustBound ELSE {}) \cup {mn}
  BY <1>2, <1>4, <1>7, <1>8, <1>9, <1>10 DEF JustBound
<1>12. HasNew => \A n \in JustBound \ {mn} : Given(n)' = Given(n)
  BY <1>4, <1>7, <1>8, <1>9 DEF JustBound, Given
<1>13. \A i \in 1..id : i = id \/ i \in 1..id - 1
  BY <1>2
<1>14. \A i \in 1..id - 1 : i \in TxIds
  BY <1>2, <1>3
<1>15. ASSUME NEW i \in TxIds'
       PROVE  i = Len(transactions') \/ (i \in TxIds /\ transactions'[i] = transactions[i])
  <2>1. i \in 1..id /\ Len(transactions') = id
    BY <1>4, <1>5
  <2>2. i = id \/ i \in 1..id - 1
    BY <1>13, <2>1
  <2>3. i \in 1..id - 1 => i \in TxIds /\ transactions'[i] = transactions[i]
    BY <1>4, <1>14
  <2>4. QED
    BY <2>1, <2>2, <2>3
<1>16. mn \notin chilled /\ chilled' = chilled \cup {mn}
  BY DEF Bind, mn_is_chilled, mn_chill
<1>17. Given(mn)' = a
  BY <1>4 DEF Given
<1>18. /\ HasNew => Len(transactions') = Len(transactions)
       /\ TxIds' = 1..Len(transactions') /\ Len(transactions') \in Nat \ {0}
  BY <1>2, <1>4, <1>5, <1>7, <1>8
<1>19. QED
  BY <1>6, <1>11, <1>12, <1>15, <1>16, <1>17, <1>18

(* The values that it gives are typed when it is asked for a typed one.    *)
LEMMA BindTyped ==
  ASSUME IInv, OneTxPerStep, NewestInForce, NEW mn \in Symbols, NEW a \in Values, NEW source \in Guards,
         Bind(mn, a, source), HasNew => transactions[Len(transactions)].guard = source,
         BoundTyped, rb' = rb, a \in rb.atoms[mn]
  PROVE  BoundTyped'
<1>1. /\ TxIds' = 1..Len(transactions')
      /\ JustBound' = (IF HasNew THEN JustBound ELSE {}) \cup {mn}
      /\ Given(mn)' = a
      /\ HasNew => \A n \in JustBound \ {mn} : Given(n)' = Given(n)
      /\ HasNew => Len(transactions') = Len(transactions)
      /\ \A i \in TxIds' : i = Len(transactions') \/ (i \in TxIds /\ transactions'[i] = transactions[i])
  BY BindGives
<1>2. HasNew => \A n \in JustBound : Given(n) \in rb.atoms[n]
  BY NewestTx DEF BoundTyped, JustBound, Given
<1>3. \A n \in JustBound' : Given(n)' \in rb.atoms[n]
  BY <1>1, <1>2
<1>4. \A n \in DOMAIN transactions'[Len(transactions')].bindings :
        transactions'[Len(transactions')].bindings[n] \in rb.atoms[n]
  BY <1>3 DEF JustBound, Given
<1>5. QED
  BY <1>1, <1>4 DEF BoundTyped

-----------------------------------------------------------------------------
(* How the frames nest.                                                    *)

(* mn_set_value calls rb_trigger_rules, that rule_trigger and expr_solve,  *)
(* and that mn_set_value.                                                  *)
Follows(f, g) ==
  \/ f.kind = "set" /\ g.kind = "rules"
  \/ f.kind = "rules" /\ g.kind = "solve"
  \/ f.kind = "solve" /\ g.kind = "set"

Nested ==
  /\ stack \in Seq(Frames(rb))
  /\ \A i, j \in 1..Len(stack) : j = i + 1 => Follows(stack[i], stack[j])
  /\ stack # <<>> => stack[1].kind = "set"

(* The outermost frame is for the node that was asked for.                 *)
SameCall ==
  /\ stack' # <<>> /\ 1 \in 1..Len(stack')
  /\ stack'[1].node = stack[1].node
  /\ stack'[1].atom = stack[1].atom

LEMMA TopFrame ==
  ASSUME Nested, stack # <<>>
  PROVE  /\ Len(stack) \in Nat \ {0} /\ Len(stack) \in 1..Len(stack) /\ 1 \in 1..Len(stack)
         /\ Top = stack[Len(stack)]
         /\ Top \in Frames(rb)
         /\ \A i \in 1..Len(stack) : stack[i] \in Frames(rb)
         /\ Len(stack) = 1 => Top.kind = "set"
         /\ Len(stack) > 1 => Len(stack) - 1 \in 1..Len(stack) /\ Follows(stack[Len(stack) - 1], Top)
<1>1. /\ Len(stack) \in Nat \ {0}
      /\ \A i \in 1..Len(stack) : stack[i] \in Frames(rb)
      /\ stack[1].kind = "set"
  BY EmptySeq, Elements DEF Nested
<1>2. Top = stack[Len(stack)]
  BY DEF Top, Last
<1>3. Len(stack) > 1 => /\ Len(stack) - 1 \in 1..Len(stack) /\ Len(stack) = (Len(stack) - 1) + 1
                        /\ Len(stack) \in 1..Len(stack)
  BY <1>1
<1>4. Len(stack) > 1 => Follows(stack[Len(stack) - 1], Top)
  BY <1>2, <1>3 DEF Nested
<1>5. QED
  BY <1>1, <1>2, <1>3, <1>4

(* The frame on top goes on: it is still the same call of the same         *)
(* function.                                                               *)
SameFrame(t, f) ==
  /\ t.kind = f.kind
  /\ t.kind = "set" => t.node = f.node /\ t.atom = f.atom

LEMMA NestedReplaced ==
  ASSUME Nested, stack # <<>>, rb' = rb, NEW t \in Frames(rb), SameFrame(t, Top), stack' = Replaced(t)
  PROVE  /\ Nested' /\ SameCall
         /\ Replaces(stack, stack', t)
<1>1. /\ Len(stack) \in Nat \ {0}
      /\ Top = stack[Len(stack)]
      /\ stack \in Seq(Frames(rb))
      /\ stack[1].kind = "set"
  BY TopFrame DEF Nested
<1>2. stack' \in Seq(Frames(rb)) /\ Replaces(stack, stack', t)
  BY <1>1, StackReplaced DEF Replaced
<1>3. Len(stack') = Len(stack) /\ \A i \in 1..Len(stack) : stack'[i] = stack[i] \/ (i = Len(stack) /\ stack'[i] = t)
  BY <1>1, <1>2 DEF Replaces
<1>4. \A i \in 1..Len(stack) : stack'[i].kind = stack[i].kind
  BY <1>1, <1>3 DEF SameFrame
<1>5. \A i, j \in 1..Len(stack') : j = i + 1 => Follows(stack'[i], stack'[j])
  BY <1>3, <1>4 DEF Nested, Follows
<1>6. 1 \in 1..Len(stack) /\ stack'[1].kind = "set"
  BY <1>1, <1>4
<1>7. SameCall
  BY <1>1, <1>2, <1>3, <1>6, EmptySeq DEF SameCall, SameFrame
<1>8. QED
  BY <1>2, <1>5, <1>6, <1>7 DEF Nested

LEMMA NestedPushed ==
  ASSUME Nested, stack # <<>>, rb' = rb, NEW t \in Frames(rb), SameFrame(t, Top), NEW g \in Frames(rb),
         Follows(t, g), stack' = Append(Replaced(t), g)
  PROVE  /\ Nested' /\ SameCall
         /\ Pushes(stack, stack', t, g)
<1>1. /\ Len(stack) \in Nat \ {0}
      /\ Top = stack[Len(stack)]
      /\ stack \in Seq(Frames(rb))
      /\ stack[1].kind = "set"
  BY TopFrame DEF Nested
<1>2. stack' \in Seq(Frames(rb)) /\ Pushes(stack, stack', t, g)
  BY <1>1, StackPushed DEF Replaced
<1>3. /\ Len(stack') = Len(stack) + 1
      /\ stack'[Len(stack) + 1] = g /\ stack'[Len(stack)] = t
      /\ \A i \in 1..Len(stack) : stack'[i] = stack[i] \/ (i = Len(stack) /\ stack'[i] = t)
  BY <1>1, <1>2 DEF Pushes
<1>4. \A i \in 1..Len(stack) : stack'[i].kind = stack[i].kind
  BY <1>1, <1>3 DEF SameFrame
<1>5. ASSUME NEW i \in 1..Len(stack'), NEW j \in 1..Len(stack'), j = i + 1
      PROVE  Follows(stack'[i], stack'[j])
  <2>1. i \in 1..Len(stack)
    BY <1>1, <1>3, <1>5
  <2>2. CASE j \in 1..Len(stack)
    BY <1>4, <1>5, <2>1, <2>2 DEF Nested, Follows
  <2>3. CASE j \notin 1..Len(stack)
    <3>1. j = Len(stack) + 1 /\ i = Len(stack)
      BY <1>1, <1>3, <1>5, <2>3
    <3>2. QED
      BY <1>3, <3>1
  <2>4. QED
    BY <2>2, <2>3
<1>6. 1 \in 1..Len(stack) /\ 1 \in 1..Len(stack') /\ stack'[1].kind = "set"
  BY <1>1, <1>3, <1>4
<1>7. SameCall
  BY <1>1, <1>2, <1>3, <1>6, EmptySeq DEF SameCall, SameFrame
<1>8. QED
  BY <1>2, <1>5, <1>6, <1>7 DEF Nested

LEMMA NestedPopped ==
  ASSUME Nested, Len(stack) > 1, rb' = rb, NEW t \in Frames(rb), SameFrame(t, stack[Len(stack) - 1]),
         stack' = [Front(stack) EXCEPT ![Len(stack) - 1] = t]
  PROVE  /\ Nested' /\ SameCall
         /\ Pops(stack, stack', t)
<1>1. /\ Len(stack) \in Nat \ {0}
      /\ stack \in Seq(Frames(rb)) /\ stack # <<>>
      /\ stack[1].kind = "set"
  <2>1. stack \in Seq(Frames(rb)) /\ stack # <<>>
    BY EmptySeq DEF Nested
  <2>2. QED
    BY <2>1, TopFrame DEF Nested
<1>2. stack' \in Seq(Frames(rb)) /\ Pops(stack, stack', t)
  BY <1>1, StackPopped
<1>3. /\ Len(stack') = Len(stack) - 1
      /\ \A i \in 1..Len(stack) - 1 : stack'[i] = stack[i] \/ (i = Len(stack) - 1 /\ stack'[i] = t)
      /\ \A i \in 1..Len(stack) - 1 : i \in 1..Len(stack)
  BY <1>1, <1>2 DEF Pops
<1>4. \A i \in 1..Len(stack) - 1 : stack'[i].kind = stack[i].kind
  BY <1>3 DEF SameFrame
<1>5. ASSUME NEW i \in 1..Len(stack'), NEW j \in 1..Len(stack'), j = i + 1
      PROVE  Follows(stack'[i], stack'[j])
  <2>1. i \in 1..Len(stack) - 1 /\ j \in 1..Len(stack) - 1
    BY <1>3
  <2>2. Follows(stack[i], stack[j])
    BY <1>3, <1>5, <2>1 DEF Nested
  <2>3. QED
    BY <1>4, <2>1, <2>2 DEF Follows
<1>6. 1 \in 1..Len(stack) - 1
  BY <1>1
<1>7. stack'[1].kind = "set"
  BY <1>1, <1>4, <1>6
<1>8. SameCall
  BY <1>1, <1>2, <1>3, <1>6, <1>7, EmptySeq DEF SameCall, SameFrame
<1>9. QED
  BY <1>2, <1>5, <1>7, <1>8 DEF Nested

-----------------------------------------------------------------------------
(* What rules have still to be looked at, and what solves them.            *)

(* The loops over nodes and rules have not come to the rule yet.           *)
PendingIn(f, r) ==
  f.kind = "rules" /\ (r \in ToSet(f.todo) \/ Uses(r) \cap f.nodes # {})

LEMMA UsesTyped ==
  ASSUME rb \in Rulebases, NEW r \in DOMAIN rb.rules
  PROVE  /\ Uses(r) \subseteq Symbols
         /\ Uses(r) \subseteq rb.nodes
         /\ \A n \in Uses(r) : r \in ToSet(rb.rules_using[n])
BY BaseFacts DEF Uses

(* The nodes of an overridden transaction are nodes.                       *)
LEMMA TriggerableTyped ==
  ASSUME IInv, NEW mn \in Symbols, NEW source \in Guards
  PROVE  /\ Triggerable(mn, source) \subseteq Symbols
         /\ mn \in Triggerable(mn, source)
<1>1. CASE OpensTransaction(source) /\ guarded[source] # <<>>
  <2>1. Len(guarded[source]) \in 1..Len(guarded[source])
    BY <1>1, EntriesAreTransactions, EmptySeq
  <2>2. Overridden(source) \in TxIds
    BY <2>1, EntriesAreTransactions DEF Overridden
  <2>3. DOMAIN transactions[Overridden(source)].bindings \subseteq Symbols
    BY <2>2, TxTypes DEF IInv
  <2>4. QED
    BY <1>1, <2>3 DEF Triggerable
<1>2. CASE ~(OpensTransaction(source) /\ guarded[source] # <<>>)
  BY <1>2 DEF Triggerable
<1>3. QED
  BY <1>1, <1>2

(* The rules of a node that is bound will be looked at.                    *)
LEMMA TriggersRules ==
  ASSUME rb \in Rulebases, IInv, NEW mn \in Symbols, NEW source \in Guards, NEW h \in Triggers(mn, source)
  PROVE  /\ h \in RulesFrames(rb) /\ h.ok = TRUE
         /\ \A r \in DOMAIN rb.rules : mn \in Uses(r) => PendingIn(h, r)
<1> DEFINE nodes == Triggerable(mn, source)
<1>1. nodes \subseteq Symbols /\ mn \in nodes
  BY TriggerableTyped
<1>2. PICK n \in nodes : h = RulesFrame(nodes \ {n}, rb.rules_using[n])
  BY <1>1 DEF Triggers
<1>3. rb.rules_using[n] \in Seq(DOMAIN rb.rules)
  BY <1>1, <1>2, BaseFacts
<1> DEFINE rest == nodes \ {n}
           first == rb.rules_using[n]
<1>4. rest \in SUBSET Symbols /\ first \in Seq(DOMAIN rb.rules) /\ h = RulesFrame(rest, first)
  BY <1>1, <1>2, <1>3
<1> HIDE DEF nodes, rest, first
<1>5. /\ h \in RulesFrames(rb)
      /\ h.kind = "rules" /\ h.ok = TRUE
      /\ h.nodes = nodes \ {n} /\ h.todo = rb.rules_using[n]
  <2>1. /\ h \in RulesFrames(rb)
        /\ h.kind = "rules" /\ h.ok = TRUE
        /\ h.nodes = rest /\ h.todo = first
    BY <1>4 DEF RulesFrame, RulesFrames
  <2>2. QED
    BY <2>1 DEF rest, first
<1>6. ASSUME NEW r \in DOMAIN rb.rules, mn \in Uses(r)
      PROVE  PendingIn(h, r)
  <2>1. CASE n = mn
    <3>1. r \in ToSet(rb.rules_using[mn])
      BY <1>6, UsesTyped
    <3>2. QED
      BY <1>5, <2>1, <3>1 DEF PendingIn
  <2>2. CASE n # mn
    BY <1>1, <1>5, <1>6, <2>2 DEF PendingIn
  <2>3. QED
    BY <2>1, <2>2
<1>7. QED
  BY <1>5, <1>6

(* The values of the symbols of a rule.                                    *)
LEMMA RuleValuesTyped ==
  ASSUME rb \in Rulebases, IInv, BoundTyped, NEW r \in DOMAIN rb.rules
  PROVE  /\ [n \in Uses(r) |-> value[n]] \in ValuesIn(rb, Uses(r))
         /\ RuleValue(r) = expr_evaluate(rb.rules[r], [n \in Uses(r) |-> value[n]])
<1>1. \A n \in Uses(r) : value[n] \in rb.atoms[n] /\ rb.atoms[n] \subseteq Values
  BY ValueTyped, UsesTyped, BaseFacts
<1>2. \A n \in Uses(r) : value[n] \in Values
  BY <1>1
<1> DEFINE w == [n \in Uses(r) |-> value[n]]
<1>3. w \in [Uses(r) -> Values] /\ \A n \in Uses(r) : w[n] \in rb.atoms[n]
  BY <1>1, <1>2
<1> HIDE DEF w
<1>4. w \in ValuesIn(rb, Uses(r))
  BY <1>3 DEF ValuesIn
<1>5. QED
  BY <1>4 DEF w, RuleValue

(* What a solution asks for.                                               *)
Unmet(g) == g \in Ends \/ value[g.node].val # g.atom.val

LEMMA SolvesMeets ==
  ASSUME NEW base, NEW rule, NEW v, NEW S, NEW goals, Solves(base, rule, v, S, goals),
         NEW w \in ValuesIn(base, expr_symbols(rule)), \A n \in S : w[n].val = v[n].val
  PROVE  /\ {GivesUp, Dies} \cap ToSet(goals) = {} => (MeetsGoals(w, goals) => expr_evaluate(rule, w) # Bool(FALSE))
         /\ expr_evaluate(rule, w).val = "y" => MeetsGoals(w, goals)
BY DEF Solves

(* What satisfies the rule and keeps the values of some nodes meets the    *)
(* goals.                                                                  *)
Implied(r, v, S, goals) ==
  \A w \in ValuesIn(rb, Uses(r)) :
    /\ \A n \in S : w[n].val = v[n].val
    /\ expr_evaluate(rb.rules[r], w).val = "y"
    => \A g \in ToSet(goals) : g \notin Ends => w[g.node].val = g.atom.val

(* What a solution asks for, given what the rule is broken with.           *)
LEMMA SolutionTyped ==
  ASSUME rb \in Rulebases, NEW r \in DOMAIN rb.rules,
         NEW v \in ValuesIn(rb, Uses(r)), expr_evaluate(rb.rules[r], v) = Bool(FALSE),
         NEW S \in SUBSET Uses(r), NEW goals, Solves(rb, rb.rules[r], v, S, goals)
  PROVE  /\ goals \in Seq(GoalsOf(rb) \cup Ends)
         /\ \A g \in ToSet(goals) : g \notin Ends => g.node \in Uses(r)
         /\ \E g \in ToSet(goals) : g \in Ends \/ v[g.node].val # g.atom.val
         /\ Implied(r, v, S, goals)
<1> DEFINE rule == rb.rules[r]
           T    == {Goal(n, a) : n \in Uses(r), a \in Values} \cup {GivesUp, Dies}
           U    == GoalsOf(rb) \cup Ends
<1>1. Uses(r) = expr_symbols(rule) /\ expr_evaluate(rule, v) = Bool(FALSE)
  BY DEF Uses
<1>2. Uses(r) \subseteq Symbols
  BY UsesTyped
<1> HIDE DEF rule
<1>3. /\ goals \in Seq(T)
      /\ \A k \in DOMAIN goals : goals[k] \notin {GivesUp, Dies} =>
           goals[k].atom \in rb.atoms[goals[k].node]
  BY <1>1 DEF Solves, GoalsIn, rule
<1> DEFINE Keeps(w) == \A n \in S : w[n].val = v[n].val
<1>4. ASSUME NEW w \in ValuesIn(rb, Uses(r)), Keeps(w)
      PROVE  /\ {GivesUp, Dies} \cap ToSet(goals) = {} => (MeetsGoals(w, goals) => expr_evaluate(rule, w) # Bool(FALSE))
             /\ expr_evaluate(rule, w).val = "y" => MeetsGoals(w, goals)
  BY <1>1, <1>4, SolvesMeets DEF rule
<1> HIDE DEF T
<1>5. DOMAIN goals = 1..Len(goals) /\ \A k \in DOMAIN goals : goals[k] \in ToSet(goals)
  BY <1>3, Elements
<1>6. ASSUME NEW g \in ToSet(goals)
      PROVE  \E k \in DOMAIN goals : goals[k] = g
  BY DEF ToSet
<1>7. ASSUME NEW g \in ToSet(goals), g \notin Ends
      PROVE  g \in GoalsOf(rb) /\ g.node \in Uses(r)
  <2>1. PICK k \in DOMAIN goals : goals[k] = g
    BY <1>6
  <2>2. g \in T
    BY <1>3, Elements
  <2>3. PICK n \in Uses(r), a \in Values : g = Goal(n, a)
    BY <1>7, <2>2 DEF T, Ends
  <2>4. g.node = n /\ g.atom = a
    BY <2>3 DEF Goal
  <2>5. g.atom \in rb.atoms[g.node]
    BY <1>3, <1>7, <2>1 DEF Ends
  <2>6. g \in [node : Symbols, atom : Values]
    BY <1>2, <2>3 DEF Goal
  <2>7. QED
    BY <2>4, <2>5, <2>6 DEF GoalsOf
<1>8. goals \in Seq(U)
  <2>1. \A k \in 1..Len(goals) : goals[k] \in U
    BY <1>5, <1>7
  <2> HIDE DEF U
  <2>2. Len(goals) \in Nat /\ goals \in [1..Len(goals) -> U]
    BY <1>3, <2>1, LenProperties
  <2>3. QED
    BY <2>2, SeqDef
<1>9. \E g \in ToSet(goals) : g \in Ends \/ v[g.node].val # g.atom.val
  <2>1. SUFFICES ASSUME \A g \in ToSet(goals) : g \notin Ends /\ v[g.node].val = g.atom.val
                 PROVE  FALSE
    OBVIOUS
  <2>2. {GivesUp, Dies} \cap ToSet(goals) = {}
    BY <2>1 DEF Ends
  <2>3. MeetsGoals(v, goals)
    BY <1>5, <2>1 DEF MeetsGoals
  <2>4. Keeps(v)
    OBVIOUS
  <2>5. QED
    BY <1>1, <1>4, <2>2, <2>3, <2>4
<1>10. ASSUME NEW w \in ValuesIn(rb, Uses(r)), \A n \in S : w[n].val = v[n].val,
              expr_evaluate(rule, w).val = "y", NEW g \in ToSet(goals), g \notin Ends
       PROVE  w[g.node].val = g.atom.val
  <2>1. MeetsGoals(w, goals)
    BY <1>4, <1>10
  <2>2. PICK k \in DOMAIN goals : goals[k] = g
    BY <1>6
  <2>3. QED
    BY <1>10, <2>1, <2>2 DEF MeetsGoals, Ends
<1>11. Implied(r, v, S, goals)
  BY <1>10 DEF Implied, rule
<1>12. QED
  BY <1>7, <1>8, <1>9, <1>11 DEF U

(* The solution of a broken rule asks for something that is not so, and    *)
(* for nothing but what satisfies the rule with what keeps its value.      *)
SolutionOf(r, goals) ==
  /\ goals \in Seq(GoalsOf(rb) \cup Ends)
  /\ \A g \in ToSet(goals) : g \notin Ends => g.node \in Uses(r)
  /\ \E g \in ToSet(goals) : Unmet(g)
  /\ Implied(r, value, Uses(r) \cap Fixed, goals)

LEMMA BrokenSolves ==
  ASSUME rb \in Rulebases, IInv, BoundTyped, NEW r \in DOMAIN rb.rules, RuleValue(r) = Bool(FALSE)
  PROVE  SolutionOf(r, expr_solution(rb.rules[r], [n \in Uses(r) \cap Fixed |-> value[n]]))
<1> DEFINE v == [n \in Uses(r) |-> value[n]]
           S == Uses(r) \cap Fixed
           goals == expr_solution(rb.rules[r], [n \in S |-> v[n]])
<1>1. v \in ValuesIn(rb, Uses(r)) /\ expr_evaluate(rb.rules[r], v) = Bool(FALSE)
  BY RuleValuesTyped
<1>2. S \in SUBSET Uses(r) /\ \A n \in Uses(r) : v[n] = value[n]
  OBVIOUS
<1>3. [n \in S |-> v[n]] = [n \in Uses(r) \cap Fixed |-> value[n]]
  OBVIOUS
<1>4. S = Uses(r) \cap Fixed
  OBVIOUS
<1> HIDE DEF v, S
<1>5. Solves(rb, rb.rules[r], v, S, goals)
  BY <1>1, <1>2, SolverAssumption DEF Uses
<1>6. goals = expr_solution(rb.rules[r], [n \in Uses(r) \cap Fixed |-> value[n]])
  BY <1>3
<1> HIDE DEF goals
<1>7. /\ goals \in Seq(GoalsOf(rb) \cup Ends)
      /\ \A g \in ToSet(goals) : g \notin Ends => g.node \in Uses(r)
      /\ \E g \in ToSet(goals) : g \in Ends \/ v[g.node].val # g.atom.val
      /\ Implied(r, v, S, goals)
  BY <1>1, <1>2, <1>5, SolutionTyped
<1>8. \E g \in ToSet(goals) : Unmet(g)
  BY <1>2, <1>7 DEF Unmet
<1>9. ASSUME NEW w \in ValuesIn(rb, Uses(r)), \A n \in Uses(r) \cap Fixed : w[n].val = value[n].val,
             expr_evaluate(rb.rules[r], w).val = "y"
      PROVE  \A g \in ToSet(goals) : g \notin Ends => w[g.node].val = g.atom.val
  <2>1. \A n \in S : w[n].val = v[n].val
    BY <1>2, <1>4, <1>9
  <2>2. QED
    BY <1>7, <1>9, <2>1 DEF Implied
<1>10. SolutionOf(r, goals)
  BY <1>7, <1>8, <1>9 DEF SolutionOf, Implied
<1>11. QED
  BY <1>6, <1>10

-----------------------------------------------------------------------------
(* The steps inside a call.                                                *)

(* A call in progress has frames, the outermost for what was asked for;    *)
(* a call has failed only when it is over, and the nodes that are chilled  *)
(* are those that the open transaction binds.                              *)
CallHasFrames ==
  /\ stack # <<>> => call # NoCall
  /\ call \in Symbols => stack # <<>> /\ stack[1].node = call

FailedIsOver == failed => call = NoCall /\ (HasNew => transactions[Len(transactions)].guard # Start)

OpenIsChilled == chilled = IF HasNew THEN JustBound ELSE {}

Live ==
  /\ rb \in Rulebases
  /\ IInv /\ SessionInv /\ NewestInForce
  /\ BoundTyped
  /\ Nested
  /\ CallHasFrames
  /\ FailedIsOver
  /\ OpenIsChilled

(* The frame on top goes on, or calls a function and waits for it.         *)
Goes(t) ==
  /\ UNCHANGED <<vars, rb>>
  /\ Nested' /\ SameCall
  /\ Replaces(stack, stack', t)
  /\ t \in Frames(rb) /\ SameFrame(t, Top)

Calls(t, h) ==
  /\ UNCHANGED <<rb, broken>>
  /\ Nested' /\ SameCall
  /\ Pushes(stack, stack', t, h)
  /\ t \in Frames(rb) /\ h \in Frames(rb) /\ SameFrame(t, Top)

LEMMA BoundStep ==
  ASSUME Live, Bound
  PROVE  \E t \in SetFrames(rb), h \in RulesFrames(rb), g \in GoalsOf(rb) :
           /\ Calls(t, h) /\ Top \in SetFrames(rb)
           /\ t.ok = Top.ok /\ h.ok = TRUE
           /\ ToSet(Top.todo) = {g} \cup ToSet(t.todo)
           /\ Propagate(g.node, g.atom)
           /\ \A r \in DOMAIN rb.rules : g.node \in Uses(r) => PendingIn(h, r)
<1> DEFINE g == Head(Top.todo)
           t == Advanced
<1>1. stack # <<>> /\ Top.kind = "set" /\ Top.todo # <<>>
  BY DEF Bound, At
<1>2. Top \in SetFrames(rb)
  BY <1>1, TopFrame, FrameKinds DEF Live
<1>3. /\ t \in SetFrames(rb)
      /\ t.node = Top.node /\ t.atom = Top.atom /\ t.ok = Top.ok
      /\ g \in GoalsOf(rb)
      /\ ToSet(Top.todo) = {g} \cup ToSet(t.todo)
  BY <1>1, <1>2, SetAdvances DEF Advanced
<1>4. Propagate(g.node, g.atom) /\ UNCHANGED <<rb, broken>>
  BY DEF Bound
<1>5. PICK h \in Triggers(g.node, call) : stack' = Append(Replaced(Advanced), h)
  BY DEF Bound
<1>6. g.node \in Symbols /\ call \in Guards
  <2>1. g.node \in Symbols
    BY <1>3 DEF GoalsOf
  <2>2. call \in Guards
    BY <1>4 DEF Live, IInv, TypeOK, Propagate
  <2>3. QED
    BY <2>1, <2>2
<1>7. h \in RulesFrames(rb) /\ h.ok = TRUE /\ \A r \in DOMAIN rb.rules : g.node \in Uses(r) => PendingIn(h, r)
  BY <1>5, <1>6, TriggersRules DEF Live
<1> HIDE DEF g, t
<1>8. t.kind = "set" /\ h.kind = "rules" /\ t \in Frames(rb) /\ h \in Frames(rb)
  BY <1>3, <1>7, SetFields, RulesFields
<1>9. SameFrame(t, Top) /\ Follows(t, h)
  BY <1>1, <1>3, <1>8 DEF SameFrame, Follows
<1>10. Nested' /\ SameCall /\ Pushes(stack, stack', t, h)
  BY <1>1, <1>4, <1>5, <1>8, <1>9, NestedPushed DEF Live, t
<1>11. Calls(t, h)
  BY <1>4, <1>8, <1>9, <1>10 DEF Calls
<1>12. QED
  BY <1>2, <1>3, <1>4, <1>7, <1>11

LEMMA RefusedStep ==
  ASSUME Live, Refused
  PROVE  \E t \in SetFrames(rb) :
           /\ Goes(t) /\ Top \in SetFrames(rb) /\ broken' = broken
           /\ t.ok = FALSE
<1> DEFINE t == [Top EXCEPT !.ok = FALSE]
<1>1. stack # <<>> /\ Top.kind = "set"
  BY DEF Refused, At
<1>2. Top \in SetFrames(rb) /\ Top \in Frames(rb)
  BY <1>1, TopFrame, FrameKinds DEF Live
<1>3. t \in Frames(rb) /\ SameBut(t, Top) /\ t.ok = FALSE
  BY <1>2, FrameTold
<1>4. stack' = Replaced(t) /\ UNCHANGED <<vars, rb, broken>>
  BY DEF Refused
<1> HIDE DEF t
<1>5. t \in SetFrames(rb) /\ SameFrame(t, Top)
  BY <1>1, <1>3, FrameKinds DEF SameBut, SameFrame
<1>6. Nested' /\ SameCall /\ Replaces(stack, stack', t)
  BY <1>1, <1>3, <1>4, <1>5, NestedReplaced DEF Live
<1>7. Goes(t)
  BY <1>3, <1>4, <1>5, <1>6 DEF Goes
<1>8. QED
  BY <1>2, <1>3, <1>4, <1>5, <1>7

LEMMA NextNodeStep ==
  ASSUME Live, NextNode
  PROVE  \E t \in RulesFrames(rb) :
           /\ Goes(t) /\ Top \in RulesFrames(rb) /\ broken' = broken
           /\ t.ok = Top.ok
           /\ \A r \in DOMAIN rb.rules : PendingIn(Top, r) => PendingIn(t, r)
<1>1. stack # <<>> /\ Top.kind = "rules" /\ Top.todo = <<>>
  BY DEF NextNode
<1>2. PICK n \in Top.nodes : stack' = Replaced([Top EXCEPT !.nodes = @ \ {n}, !.todo = rb.rules_using[n]])
  BY DEF NextNode
<1>3. UNCHANGED <<vars, rb, broken>>
  BY DEF NextNode
<1>4. Top \in RulesFrames(rb)
  BY <1>1, TopFrame, FrameKinds DEF Live
<1>5. Top.nodes \subseteq Symbols /\ rb.rules_using[n] \in Seq(DOMAIN rb.rules)
  BY <1>2, <1>4, RulesFields, BaseFacts DEF Live
<1> DEFINE t == [Top EXCEPT !.nodes = @ \ {n}, !.todo = rb.rules_using[n]]
<1>6. /\ t \in RulesFrames(rb)
      /\ t.kind = "rules" /\ t.ok = Top.ok
      /\ t.nodes = Top.nodes \ {n} /\ t.todo = rb.rules_using[n]
  BY <1>4, <1>5 DEF RulesFrames
<1>7. stack' = Replaced(t)
  BY <1>2
<1> HIDE DEF t
<1>8. t \in Frames(rb) /\ SameFrame(t, Top)
  BY <1>1, <1>6 DEF Frames, SameFrame
<1>9. Nested' /\ SameCall /\ Replaces(stack, stack', t)
  BY <1>1, <1>3, <1>7, <1>8, NestedReplaced DEF Live
<1>10. Goes(t)
  BY <1>3, <1>8, <1>9 DEF Goes
<1>11. ASSUME NEW r \in DOMAIN rb.rules, PendingIn(Top, r)
       PROVE  PendingIn(t, r)
  <2>1. Uses(r) \cap Top.nodes # {}
    BY <1>1, <1>11 DEF PendingIn, ToSet
  <2>2. CASE n \in Uses(r)
    BY <1>6, <2>2, UsesTyped DEF PendingIn, Live
  <2>3. CASE n \notin Uses(r)
    BY <1>6, <2>1, <2>3 DEF PendingIn
  <2>4. QED
    BY <2>2, <2>3
<1>12. QED
  BY <1>3, <1>4, <1>6, <1>10, <1>11

(* The rule that is looked at leaves the list.                             *)
LookedAt(t, r) ==
  /\ Top \in RulesFrames(rb) /\ t \in RulesFrames(rb) /\ t.ok = Top.ok
  /\ r \in DOMAIN rb.rules
  /\ \A q \in DOMAIN rb.rules : PendingIn(Top, q) => q = r \/ PendingIn(t, q)

LEMMA LookedStep ==
  ASSUME Live, NEW r \in DOMAIN rb.rules, Looked(r)
  PROVE  stack # <<>> /\ Top.kind = "rules" /\ LookedAt(Advanced, r) /\ SameFrame(Advanced, Top)
<1> DEFINE t == Advanced
<1>1. stack # <<>> /\ Top.kind = "rules" /\ Top.todo # <<>> /\ r = Head(Top.todo)
  BY DEF Looked, At
<1>2. Top \in RulesFrames(rb)
  BY <1>1, TopFrame, FrameKinds DEF Live
<1>3. /\ t \in RulesFrames(rb)
      /\ t.nodes = Top.nodes /\ t.ok = Top.ok
      /\ ToSet(Top.todo) = {r} \cup ToSet(t.todo)
  BY <1>1, <1>2, RulesAdvance DEF Advanced
<1> HIDE DEF t
<1>4. t.kind = "rules"
  BY <1>3, RulesFields
<1>5. LookedAt(t, r) /\ SameFrame(t, Top)
  BY <1>1, <1>2, <1>3, <1>4 DEF LookedAt, PendingIn, SameFrame
<1>6. QED
  BY <1>1, <1>5 DEF t

LEMMA RuleHoldsStep ==
  ASSUME Live, RuleHolds
  PROVE  \E t, r : /\ Goes(t) /\ LookedAt(t, r)
                   /\ RuleValue(r) = Bool(TRUE)
                   /\ broken' = broken \ {r}
<1>1. PICK r \in DOMAIN rb.rules : /\ Looked(r)
                                   /\ RuleValue(r) = Bool(TRUE)
                                   /\ broken' = broken \ {r}
                                   /\ stack' = Replaced(Advanced)
                                   /\ UNCHANGED <<vars, rb>>
  BY DEF RuleHolds
<1> DEFINE t == Advanced
<1> HIDE DEF t
<1>2. stack # <<>> /\ LookedAt(t, r) /\ SameFrame(t, Top)
  BY <1>1, LookedStep DEF t
<1>3. t \in Frames(rb)
  BY <1>2, RulesFields DEF LookedAt
<1>4. Nested' /\ SameCall /\ Replaces(stack, stack', t)
  BY <1>1, <1>2, <1>3, NestedReplaced DEF Live, t
<1>5. Goes(t)
  BY <1>1, <1>2, <1>3, <1>4 DEF Goes
<1>6. QED
  BY <1>1, <1>2, <1>5

LEMMA RuleBrokenStep ==
  ASSUME Live, RuleBroken
  PROVE  \E t, r : \E h \in SolveFrames(rb) :
           /\ Calls(t, h) /\ LookedAt(t, r) /\ UNCHANGED vars
           /\ h.rule = r /\ h.ok = TRUE
           /\ SolutionOf(r, h.todo)
<1>1. PICK r \in DOMAIN rb.rules :
        /\ Looked(r)
        /\ RuleValue(r) = Bool(FALSE)
        /\ stack' = Append(Replaced(Advanced),
                           SolveFrame(r, expr_solution(rb.rules[r], [n \in Uses(r) \cap Fixed |-> value[n]])))
        /\ UNCHANGED <<vars, rb, broken>>
  BY DEF RuleBroken
<1> DEFINE t == Advanced
           goals == expr_solution(rb.rules[r], [n \in Uses(r) \cap Fixed |-> value[n]])
           h == SolveFrame(r, goals)
<1>2. SolutionOf(r, goals)
  BY <1>1, BrokenSolves DEF Live
<1>3. stack' = Append(Replaced(t), h)
  BY <1>1
<1> HIDE DEF t, goals
<1>4. stack # <<>> /\ LookedAt(t, r) /\ SameFrame(t, Top) /\ Top.kind = "rules"
  BY <1>1, LookedStep DEF t
<1>5. h \in SolveFrames(rb) /\ h.kind = "solve" /\ h.ok = TRUE /\ h.rule = r /\ h.todo = goals
  <2>1. goals \in Seq(GoalsOf(rb) \cup Ends) /\ \A g \in ToSet(goals) : g \notin Ends => g.node \in Uses(r)
    BY <1>2 DEF SolutionOf
  <2>2. \A g \in ToSet(goals) : g \notin Ends => g.node \in expr_symbols(rb.rules[r])
    BY <2>1 DEF Uses
  <2>3. /\ SolveFrame(r, goals) \in SolveFrames(rb)
        /\ SolveFrame(r, goals).kind = "solve" /\ SolveFrame(r, goals).ok = TRUE
        /\ SolveFrame(r, goals).rule = r /\ SolveFrame(r, goals).todo = goals
    BY <2>1, <2>2, NewSolveFrame
  <2>4. QED
    BY <2>3
<1> HIDE DEF h
<1>6. t \in Frames(rb) /\ h \in Frames(rb) /\ t.kind = "rules"
  BY <1>4, <1>5, RulesFields DEF LookedAt, Frames
<1>7. Follows(t, h)
  BY <1>5, <1>6 DEF Follows
<1>8. Nested' /\ SameCall /\ Pushes(stack, stack', t, h)
  BY <1>1, <1>3, <1>4, <1>6, <1>7, NestedPushed DEF Live
<1>9. Calls(t, h)
  BY <1>1, <1>4, <1>6, <1>8 DEF Calls
<1>10. QED
  BY <1>1, <1>2, <1>4, <1>5, <1>9

(* A goal that is met leaves the list, one that is not is to be set.       *)
LEMMA GoalMetStep ==
  ASSUME Live, GoalMet
  PROVE  \E t \in SolveFrames(rb) : \E g :
           /\ Goes(t) /\ Top \in SolveFrames(rb) /\ broken' = broken
           /\ t.rule = Top.rule /\ t.ok = Top.ok
           /\ ToSet(Top.todo) = {g} \cup ToSet(t.todo)
           /\ ~Unmet(g)
<1> DEFINE g == Head(Top.todo)
           t == Advanced
<1>1. stack # <<>> /\ Top.kind = "solve" /\ Top.todo # <<>>
  BY DEF GoalMet, At
<1>2. Top \in SolveFrames(rb) /\ Top \in Frames(rb)
  BY <1>1, TopFrame, FrameKinds DEF Live
<1>3. /\ t \in SolveFrames(rb)
      /\ t.rule = Top.rule /\ t.ok = Top.ok
      /\ ToSet(Top.todo) = {g} \cup ToSet(t.todo)
  BY <1>1, <1>2, SolveAdvances DEF Advanced
<1>4. ~Unmet(g)
  BY DEF GoalMet, Unmet, Ends
<1>5. stack' = Replaced(t) /\ UNCHANGED <<vars, rb, broken>>
  BY DEF GoalMet
<1> HIDE DEF t, g
<1>6. t \in Frames(rb) /\ SameFrame(t, Top)
  BY <1>1, <1>3, SolveFields DEF SameFrame
<1>7. Nested' /\ SameCall /\ Replaces(stack, stack', t)
  BY <1>1, <1>5, <1>6, NestedReplaced DEF Live
<1>8. Goes(t)
  BY <1>5, <1>6, <1>7 DEF Goes
<1>9. QED
  BY <1>2, <1>3, <1>4, <1>5, <1>8

LEMMA GoalSetStep ==
  ASSUME Live, GoalSet
  PROVE  \E t \in SolveFrames(rb), h \in SetFrames(rb), g \in GoalsOf(rb) :
           /\ Calls(t, h) /\ Top \in SolveFrames(rb) /\ UNCHANGED vars
           /\ t.rule = Top.rule /\ t.ok = Top.ok
           /\ ToSet(Top.todo) = {g} \cup ToSet(t.todo)
           /\ g.node \in Uses(t.rule) /\ g \notin Ends
           /\ h.ok = TRUE /\ h.node = g.node /\ h.atom = g.atom
           /\ h.todo = Sets(g.node, g.atom)
<1> DEFINE g == Head(Top.todo)
           t == Advanced
           h == SetFrame(g.node, g.atom, Sets(g.node, g.atom))
<1>1. stack # <<>> /\ Top.kind = "solve" /\ Top.todo # <<>>
  BY DEF GoalSet, At
<1>2. Top \in SolveFrames(rb) /\ Top \in Frames(rb)
  BY <1>1, TopFrame, FrameKinds DEF Live
<1>3. /\ t \in SolveFrames(rb)
      /\ t.rule = Top.rule /\ t.ok = Top.ok
      /\ g \in ToSet(Top.todo)
      /\ ToSet(Top.todo) = {g} \cup ToSet(t.todo)
  BY <1>1, <1>2, SolveAdvances DEF Advanced
<1>4. g \notin Ends
  BY DEF GoalSet, Ends
<1>5. stack' = Append(Replaced(t), h) /\ UNCHANGED <<vars, rb, broken>>
  BY DEF GoalSet
<1> HIDE DEF t, g
<1>6. g \in GoalsOf(rb) /\ g.node \in Uses(t.rule)
  BY <1>2, <1>3, <1>4, SolveFields DEF Uses
<1>7. g.node \in Symbols /\ g.atom \in rb.atoms[g.node]
  BY <1>6 DEF GoalsOf
<1>8. h \in SetFrames(rb) /\ h.kind = "set" /\ h.ok = TRUE /\ h.node = g.node /\ h.atom = g.atom
      /\ h.todo = Sets(g.node, g.atom)
  <2> DEFINE todo == Sets(g.node, g.atom)
  <2>1. todo \in Seq(GoalsOf(rb)) /\ ToSet(todo) \subseteq ToSet(Sets(g.node, g.atom))
    BY <1>7, SetsTyped DEF Live
  <2>2. g.node \in Symbols /\ g.atom \in Values /\ g.atom \in rb.atoms[g.node]
    BY <1>6 DEF GoalsOf
  <2>3. h = SetFrame(g.node, g.atom, todo)
    OBVIOUS
  <2> HIDE DEF todo, h
  <2>4. h \in SetFrames(rb)
    BY <2>1, <2>2, <2>3 DEF SetFrame, SetFrames
  <2>5. h.kind = "set" /\ h.ok = TRUE /\ h.node = g.node /\ h.atom = g.atom /\ h.todo = todo
    BY <2>3 DEF SetFrame
  <2>6. QED
    BY <2>4, <2>5 DEF todo
<1> HIDE DEF h
<1>9. t \in Frames(rb) /\ h \in Frames(rb) /\ SameFrame(t, Top) /\ Follows(t, h)
  BY <1>1, <1>3, <1>8, SolveFields, SetFields DEF SameFrame, Follows
<1>10. Nested' /\ SameCall /\ Pushes(stack, stack', t, h)
  BY <1>1, <1>5, <1>9, NestedPushed DEF Live
<1>11. Calls(t, h)
  BY <1>5, <1>9, <1>10 DEF Calls
<1>12. QED
  BY <1>2, <1>3, <1>4, <1>5, <1>6, <1>8, <1>11

LEMMA UnsolvedStep ==
  ASSUME Live, Unsolved
  PROVE  \E t \in SolveFrames(rb) :
           /\ Goes(t) /\ Top \in SolveFrames(rb) /\ broken' = broken
           /\ t.rule = Top.rule /\ t.todo = Top.todo /\ t.ok = FALSE
<1> DEFINE t == [Top EXCEPT !.ok = FALSE]
<1>1. stack # <<>> /\ Top.kind = "solve" /\ Top.todo # <<>>
  BY DEF Unsolved, At
<1>2. Top \in SolveFrames(rb) /\ Top \in Frames(rb)
  BY <1>1, TopFrame, FrameKinds DEF Live
<1>3. t \in Frames(rb) /\ SameBut(t, Top) /\ t.ok = FALSE
  BY <1>2, FrameTold
<1>4. stack' = Replaced(t) /\ UNCHANGED <<vars, rb, broken>>
  BY DEF Unsolved
<1> HIDE DEF t
<1>5. t \in SolveFrames(rb) /\ SameFrame(t, Top) /\ t.rule = Top.rule /\ t.todo = Top.todo
  BY <1>1, <1>3, FrameKinds DEF SameBut, SameFrame
<1>6. Nested' /\ SameCall /\ Replaces(stack, stack', t)
  BY <1>1, <1>3, <1>4, <1>5, NestedReplaced DEF Live
<1>7. Goes(t)
  BY <1>3, <1>4, <1>5, <1>6 DEF Goes
<1>8. QED
  BY <1>2, <1>3, <1>4, <1>5, <1>7

(* A function returns to the one that called it, and tells it the outcome. *)
Tells(t) ==
  /\ UNCHANGED <<vars, rb>>
  /\ Nested' /\ SameCall
  /\ Len(stack) > 1
  /\ Pops(stack, stack', t)
  /\ t \in Frames(rb) /\ SameBut(t, stack[Len(stack) - 1])
  /\ t.ok <=> (stack[Len(stack) - 1].ok /\ Top.ok)

(* All has been done, or mn_set_value or expr_solve has failed.            *)
Done ==
  IF Top.kind = "rules" THEN Top.todo = <<>> /\ Top.nodes = {} ELSE Top.todo = <<>> \/ ~Top.ok

LEMMA ReturnedDeep ==
  ASSUME Live, Returned, Len(stack) # 1
  PROVE  \E t : /\ Tells(t) /\ Done
                /\ broken' = IF Top.kind = "solve" THEN BrokenAfter(Top.rule, Top.ok) ELSE broken
<1> DEFINE below == stack[Len(stack) - 1]
           b == below.ok /\ Top.ok
           t == [below EXCEPT !.ok = b]
<1>1. stack # <<>> /\ stack \in Seq(Frames(rb))
  BY DEF Returned, Live, Nested
<1>2. Len(stack) \in Nat /\ Len(stack) > 1
  <2>1. Nested
    BY DEF Live
  <2>2. Len(stack) \in Nat \ {0}
    BY <1>1, <2>1, TopFrame
  <2>3. \A n \in Nat \ {0} : n # 1 => n \in Nat /\ n > 1
    OBVIOUS
  <2>4. QED
    BY <2>2, <2>3, Zenon
<1>3. below \in Frames(rb) /\ Top \in Frames(rb)
  BY <1>1, <1>2, TopFrame DEF Live
<1>4. b \in BOOLEAN
  <2> HIDE DEF below
  <2>1. below.ok \in BOOLEAN /\ Top.ok \in BOOLEAN
    BY <1>3, FrameKinds
  <2>2. QED
    BY <2>1
<1> HIDE DEF b
<1>5. t \in Frames(rb) /\ SameBut(t, below) /\ t.ok = b
  <2> HIDE DEF below
  <2>1. QED
    BY <1>3, <1>4, FrameTold
<1>6. stack' = [Front(stack) EXCEPT ![Len(stack) - 1] = t]
  <2>1. stack' = [Front(stack) EXCEPT ![Len(stack) - 1] = Outcome(@, Top.ok)]
    BY DEF Returned
  <2>2. Len(stack) - 1 \in 1..Len(Front(stack)) /\ Front(stack)[Len(stack) - 1] = below
    BY <1>1, <1>2 DEF Front
  <2>3. Outcome(below, Top.ok) = t
    BY DEF Outcome, b
  <2> HIDE DEF t, below
  <2>4. QED
    BY <2>1, <2>2, <2>3
<1>7. UNCHANGED <<vars, rb>>
  BY DEF Returned
<1> HIDE DEF t
<1>8. SameFrame(t, below)
  BY <1>5 DEF SameBut, SameFrame
<1>9. Nested' /\ SameCall /\ Pops(stack, stack', t)
  BY <1>2, <1>5, <1>6, <1>7, <1>8, NestedPopped DEF Live
<1>10. Tells(t)
  BY <1>2, <1>5, <1>7, <1>9 DEF Tells, b
<1>11. Done
  BY DEF Returned, Done
<1>12. QED
  BY <1>10, <1>11 DEF Returned

LEMMA ReturnedLast ==
  ASSUME Live, Returned, Len(stack) = 1
  PROVE  /\ Top = stack[1] /\ Top \in SetFrames(rb) /\ Done
         /\ stack' = <<>> /\ UNCHANGED <<rb, broken>>
         /\ IF call = Start THEN UNCHANGED vars ELSE Return(Top.ok)
<1>1. stack # <<>>
  BY DEF Returned
<1>2. Top = stack[1] /\ Top.kind = "set" /\ Top \in Frames(rb)
  BY <1>1, TopFrame DEF Live
<1>3. Top \in SetFrames(rb)
  BY <1>2, FrameKinds
<1>4. Done
  BY DEF Returned, Done
<1>5. QED
  BY <1>2, <1>3, <1>4 DEF Returned

(* A call begins: the first node is bound, the others are to be set, and   *)
(* the rules of the first are to be looked at.                             *)
Begins(n, a, t, h, g) ==
  /\ Nested' /\ rb' = rb /\ broken' = broken
  /\ stack' # <<>> /\ Len(stack') = 2 /\ stack'[1] = t /\ stack'[2] = h
  /\ t \in SetFrames(rb) /\ t.node = n /\ t.atom = a /\ t.ok = TRUE
  /\ h \in RulesFrames(rb) /\ h.ok = TRUE
  /\ g \in GoalsOf(rb) /\ g = Sets(n, a)[1]
  /\ ToSet(Sets(n, a)) = {g} \cup ToSet(t.todo)
  /\ \A r \in DOMAIN rb.rules : g.node \in Uses(r) => PendingIn(h, r)

LEMMA CallBegins ==
  ASSUME rb \in Rulebases, IInv, NEW n \in rb.nodes, NEW a \in Offered(n), NEW source \in Guards,
         rb' = rb, broken' = broken,
         NEW h \in Triggers(Sets(n, a)[1].node, source),
         stack' = <<SetFrame(n, a, Tail(Sets(n, a))), h>>
  PROVE  \E t, g : Begins(n, a, t, h, g)
<1> DEFINE todo == Sets(n, a)
           g == todo[1]
           t == SetFrame(n, a, Tail(todo))
<1>1. n \in Symbols /\ a \in rb.atoms[n] /\ a \in Values
  BY BaseFacts
<1>2. todo \in Seq(GoalsOf(rb)) /\ todo # <<>> /\ g \in GoalsOf(rb)
  BY <1>1, SetsTyped
<1>3. stack' = <<t, h>> /\ h \in Triggers(g.node, source)
  OBVIOUS
<1>4. g = Sets(n, a)[1] /\ todo = Sets(n, a) /\ t = SetFrame(n, a, Tail(todo))
  OBVIOUS
<1> HIDE DEF todo, g, t
<1>5. g = Head(todo)
  BY <1>2, <1>4
<1>6. Tail(todo) \in Seq(GoalsOf(rb)) /\ ToSet(todo) = {g} \cup ToSet(Tail(todo))
  BY <1>2, <1>5, FirstAndRest
<1>7. t \in SetFrames(rb)
  BY <1>1, <1>4, <1>6 DEF SetFrame, SetFrames
<1>8. t.kind = "set" /\ t.node = n /\ t.atom = a /\ t.ok = TRUE /\ t.todo = Tail(todo)
  BY <1>4 DEF SetFrame
<1>9. g.node \in Symbols
  BY <1>2 DEF GoalsOf
<1>10. h \in RulesFrames(rb) /\ h.ok = TRUE /\ \A r \in DOMAIN rb.rules : g.node \in Uses(r) => PendingIn(h, r)
  BY <1>3, <1>9, TriggersRules
<1>11. t \in Frames(rb) /\ h \in Frames(rb) /\ h.kind = "rules"
  BY <1>7, <1>10, SetFields, RulesFields
<1>12. stack' \in Seq(Frames(rb)) /\ stack' # <<>> /\ Len(stack') = 2 /\ stack'[1] = t /\ stack'[2] = h
  BY <1>3, <1>11
<1>13. Nested'
  <2>1. \A i, j \in 1..2 : j = i + 1 => i = 1 /\ j = 2
    OBVIOUS
  <2>2. Follows(t, h)
    BY <1>8, <1>11 DEF Follows
  <2>3. \A i, j \in 1..Len(stack') : j = i + 1 => Follows(stack'[i], stack'[j])
    BY <1>12, <2>1, <2>2
  <2>4. stack'[1].kind = "set"
    BY <1>8, <1>12
  <2>5. QED
    BY <1>12, <2>3, <2>4 DEF Nested
<1>14. Begins(n, a, t, h, g)
  BY <1>2, <1>4, <1>6, <1>7, <1>8, <1>10, <1>12, <1>13 DEF Begins
<1>15. QED
  BY <1>14

(* What is not inside a call has no frames.                                *)
LEMMA IdleFrames == Live /\ call = NoCall => stack = <<>>
BY DEF Live, CallHasFrames

(* The session that goes on underneath is one of module Transactions.      *)
LEMMA SessionGoesOn ==
  ASSUME Live, RNext, ~RuleAsserts
  PROVE  [GtkNext]_vars /\ rb' = rb
<1>1. rb \in Rulebases /\ rb.nodes \subseteq Symbols
  BY BaseFacts DEF Live
<1>2. ASSUME NEW n \in rb.nodes, NEW a \in Offered(n)
      PROVE  Sets(n, a)[1].node \in Symbols /\ Sets(n, a)[1].atom \in Values
  <2>1. n \in Symbols /\ a \in rb.atoms[n]
    BY <1>1, BaseFacts
  <2>2. Sets(n, a)[1] \in GoalsOf(rb)
    BY <1>1, <2>1, SetsTyped
  <2>3. QED
    BY <2>2 DEF GoalsOf
<1>3. ASSUME NEW s \in rb.nodes, NEW a \in Offered(s), UserSet(s, a)
      PROVE  SessionSet /\ rb' = rb
  BY <1>1, <1>2, <1>3 DEF UserSet, SessionSet
<1>4. ASSUME NEW s \in rb.nodes, NEW a \in Offered(s), LoadLine(s, a)
      PROVE  GtkNext /\ rb' = rb
  <2>1. rb' = rb
    BY <1>4 DEF LoadLine
  <2>2. CASE Settled /\ last_undo_id = 0 /\ Load(Sets(s, a)[1].node, Sets(s, a)[1].atom)
    BY <1>2, <2>1, <2>2 DEF GtkNext, SessionLoad
  <2>3. CASE Propagate(Sets(s, a)[1].node, Sets(s, a)[1].atom)
    BY <1>2, <2>1, <2>3 DEF GtkNext, SessionCall
  <2>4. QED
    BY <1>4, <2>2, <2>3 DEF LoadLine
<1>5. CASE Bound
  <2>1. PICK g \in GoalsOf(rb) : Propagate(g.node, g.atom)
    BY <1>5, BoundStep
  <2>2. g.node \in Symbols /\ g.atom \in Values
    BY DEF GoalsOf
  <2>3. QED
    BY <1>5, <2>1, <2>2 DEF Bound, GtkNext, SessionCall
<1>6. CASE Returned
  <2>1. CASE Len(stack) = 1
    <3>1. Top.ok \in BOOLEAN
      BY <1>6, <2>1, ReturnedLast, SetFields
    <3>2. QED
      BY <1>6, <2>1, <3>1, ReturnedLast DEF GtkNext, SessionCall
  <2>2. CASE Len(stack) # 1
    BY <1>6, <2>2, ReturnedDeep DEF Tells
  <2>3. QED
    BY <2>1, <2>2
<1>7. CASE LoadEnds
  BY <1>7 DEF LoadEnds, GtkNext, SessionCall
<1>8. CASE Refused \/ NextNode \/ RuleHolds \/ RuleBroken \/ GoalMet \/ GoalSet \/ Unsolved
  BY <1>8 DEF Refused, NextNode, RuleHolds, RuleBroken, GoalMet, GoalSet, Unsolved
<1>9. CASE CheckAllRules
  BY <1>9 DEF CheckAllRules
<1>10. CASE FrontEnd
  BY <1>10 DEF FrontEnd, GtkNext, SessionCommit
<1>11. QED
  BY <1>3, <1>4, <1>5, <1>6, <1>7, <1>8, <1>9, <1>10 DEF RNext, CallStep, GtkNext

(* What the log has of its own stays.                                      *)
LogLive == IInv /\ SessionInv /\ NewestInForce

LEMMA LogStays ==
  ASSUME Live, [GtkNext]_vars
  PROVE  LogLive'
<1>1. [Next]_vars
  BY SessionCalls
<1>2. QED
  BY <1>1, NextPreserves, SessionStays, StaysNewest DEF Live, LogLive

(* Steps that leave the log be.                                            *)
LEMMA QuietStep ==
  ASSUME Live, UNCHANGED <<vars, rb>>, Nested', stack # <<>>, SameCall
  PROVE  Live'
<1>1. /\ transactions' = transactions /\ call' = call /\ failed' = failed /\ chilled' = chilled
  BY DEF vars, log
<1>2. LogLive'
  BY LogStays
<1>3. HasNew' = HasNew /\ JustBound' = JustBound /\ TxIds' = TxIds
  BY <1>1 DEF HasNew, JustBound, TxIds
<1>4. BoundTyped' /\ FailedIsOver' /\ OpenIsChilled'
  BY <1>1, <1>3 DEF Live, BoundTyped, FailedIsOver, OpenIsChilled
<1>5. CallHasFrames'
  BY <1>1 DEF Live, CallHasFrames, SameCall
<1>6. QED
  BY <1>2, <1>4, <1>5 DEF Live, LogLive

(* Steps that bind a node.                                                 *)
LEMMA BindingStep ==
  ASSUME Live, [GtkNext]_vars, rb' = rb, Nested',
         NEW mn \in Symbols, NEW a \in Values, a \in rb.atoms[mn], NEW source \in Guards, Bind(mn, a, source),
         call = source \/ (call = NoCall /\ ~HasNew /\ ~failed),
         call' = source, failed' = failed,
         stack' # <<>>, source \in Symbols => stack'[1].node = source
  PROVE  Live'
<1>1. LogLive'
  BY LogStays
<1>2. source # NoCall
  BY GuardsAssumption
<1>3. HasNew => transactions[Len(transactions)].guard = source
  BY <1>2 DEF Live, SessionInv, CallIsOpen
<1>4. ~failed
  BY <1>2 DEF Live, FailedIsOver
<1>5. BoundTyped'
  BY <1>3, BindTyped DEF Live, SessionInv
<1>6. /\ HasNew' /\ chilled' = chilled \cup {mn}
      /\ JustBound' = (IF HasNew THEN JustBound ELSE {}) \cup {mn}
  BY <1>3, BindGives DEF Live, SessionInv
<1>7. OpenIsChilled'
  BY <1>6 DEF Live, OpenIsChilled
<1>8. FailedIsOver' /\ CallHasFrames'
  BY <1>2, <1>4 DEF FailedIsOver, CallHasFrames
<1>9. QED
  BY <1>1, <1>5, <1>7, <1>8 DEF Live, LogLive

(* The steps between calls: no transaction is open afterwards.             *)
LEMMA ClosingStep ==
  ASSUME Live, [GtkNext]_vars, call = NoCall, UNCHANGED <<call, rb, stack>>, chilled' = {}, failed' = FALSE, ~HasNew',
         BoundTyped'
  PROVE  Live'
<1>1. LogLive'
  BY LogStays
<1>2. stack = <<>> /\ Nested'
  <2>1. stack = <<>>
    BY IdleFrames
  <2>2. Nested
    BY DEF Live
  <2>3. Frames(rb') = Frames(rb) /\ stack' = stack
    OBVIOUS
  <2>4. QED
    BY <2>1, <2>2, <2>3 DEF Nested
<1>3. FailedIsOver' /\ OpenIsChilled' /\ CallHasFrames'
  BY <1>2, GuardsAssumption DEF FailedIsOver, OpenIsChilled, CallHasFrames, Guards
<1>4. QED
  BY <1>1, <1>2, <1>3 DEF Live, LogLive

LEMMA FrontEndStep ==
  ASSUME Live, FrontEnd
  PROVE  Live' /\ ~HasNew' /\ stack' = <<>> /\ call' = NoCall
<1>1. call = NoCall /\ UNCHANGED <<call, rb, stack>>
  BY DEF FrontEnd, Commit, Undo, Redo, Clear
<1>2. [GtkNext]_vars
  BY DEF FrontEnd, GtkNext, SessionCommit
<1>3. IInv /\ IInv' /\ BoundTyped
  BY <1>2, LogStays DEF Live, LogLive
<1>4. ASSUME Settles
      PROVE  ~HasNew' /\ BoundTyped'
  <2>1. ~HasNew'
    BY <1>3, <1>4, NothingOpen
  <2>2. rb' = rb
    BY <1>1
  <2>3. QED
    BY <1>3, <1>4, <2>1, <2>2 DEF Settles, BoundTyped
<1>5. ASSUME TxAbort
      PROVE  ~HasNew' /\ BoundTyped'
  <2>1. ~HasNew'
    BY <1>3, <1>5, NothingOpen
  <2>2. rb' = rb
    BY <1>1
  <2>3. QED
    BY <1>3, <1>5, <2>1, <2>2, AbortKeeps DEF BoundTyped
<1>6. ASSUME Clear
      PROVE  ~HasNew' /\ BoundTyped'
  BY <1>6 DEF Clear, HasNew, BoundTyped, TxIds
<1>7. ASSUME NEW freeze \in BOOLEAN, Commit(freeze)
      PROVE  ~HasNew' /\ BoundTyped' /\ chilled' = {} /\ failed' = FALSE
  BY <1>3, <1>4, <1>5, <1>7, CommitSettles DEF Commit
<1>8. ASSUME Settled, Undo \/ Redo \/ Clear
      PROVE  ~HasNew' /\ BoundTyped' /\ chilled' = {} /\ failed' = FALSE
  <2>1. chilled = {} /\ failed = FALSE
    BY <1>8 DEF Settled, Live, OpenIsChilled, IInv, TypeOK
  <2>2. chilled' = chilled /\ failed' = failed
    BY <1>8 DEF Undo, Redo, Clear
  <2>3. ~HasNew' /\ BoundTyped'
    BY <1>3, <1>4, <1>6, <1>8, UndoSettles, RedoSettles
  <2>4. QED
    BY <2>1, <2>2, <2>3
<1>9. ~HasNew' /\ BoundTyped' /\ chilled' = {} /\ failed' = FALSE
  BY <1>7, <1>8 DEF FrontEnd
<1>10. Live'
  BY <1>1, <1>2, <1>9, ClosingStep
<1>11. QED
  BY <1>1, <1>9, <1>10, IdleFrames

(* A call returns.                                                         *)
LEMMA ReturnStep ==
  ASSUME Live, NEW ok \in BOOLEAN, Return(ok), rb' = rb, stack' = <<>>
  PROVE  Live'
<1>1. [GtkNext]_vars
  BY DEF GtkNext, SessionCall
<1>2. LogLive'
  BY <1>1, LogStays
<1>3. /\ call # NoCall /\ call' = NoCall /\ transactions' = transactions /\ chilled' = chilled
      /\ failed' = (failed \/ (~ok /\ call # Start))
  BY DEF Return, log
<1>4. HasNew' = HasNew /\ JustBound' = JustBound /\ TxIds' = TxIds
  BY <1>3 DEF HasNew, JustBound, TxIds
<1>5. BoundTyped' /\ OpenIsChilled'
  BY <1>3, <1>4 DEF Live, BoundTyped, OpenIsChilled
<1>6. FailedIsOver'
  BY <1>3, <1>4 DEF Live, FailedIsOver, SessionInv, CallIsOpen
<1>7. CallHasFrames'
  BY <1>3, GuardsAssumption DEF CallHasFrames, Guards
<1>8. Nested'
  <2>1. stack' \in Seq(Frames(rb'))
    OBVIOUS
  <2>2. 1..Len(stack') = {}
    OBVIOUS
  <2>3. QED
    BY <2>1, <2>2 DEF Nested
<1>9. QED
  BY <1>2, <1>5, <1>6, <1>7, <1>8 DEF Live, LogLive

(* The user asks for a value, or a line of a file is read.                 *)
LEMMA UserSetStep ==
  ASSUME Live, NEW s \in rb.nodes, NEW a \in Offered(s), UserSet(s, a)
  PROVE  /\ s \in Symbols /\ a \in rb.atoms[s] /\ Settled /\ call' = s /\ failed' = failed
         /\ \E t, h, g : /\ Begins(s, a, t, h, g)
                         /\ Bind(g.node, g.atom, s)
<1>1. s \in Symbols /\ a \in rb.atoms[s] /\ rb \in Rulebases /\ IInv
  BY BaseFacts DEF Live
<1>2. PICK h \in Triggers(Sets(s, a)[1].node, s) : stack' = <<SetFrame(s, a, Tail(Sets(s, a))), h>>
  BY DEF UserSet
<1>3. Settled /\ SetValue(s, Sets(s, a)[1].node, Sets(s, a)[1].atom) /\ rb' = rb /\ broken' = broken
  BY DEF UserSet
<1>4. PICK t, g : Begins(s, a, t, h, g)
  BY <1>1, <1>2, <1>3, CallBegins DEF Guards
<1>5. Bind(g.node, g.atom, s)
  BY <1>3, <1>4 DEF Begins, SetValue
<1>6. QED
  BY <1>1, <1>3, <1>4, <1>5 DEF SetValue

LEMMA LoadLineStep ==
  ASSUME Live, NEW s \in rb.nodes, NEW a \in Offered(s), LoadLine(s, a)
  PROVE  /\ call' = Start /\ failed' = failed
         /\ Settled \/ call = Start
         /\ \E t, h, g : /\ Begins(s, a, t, h, g)
                         /\ Bind(g.node, g.atom, Start)
<1>1. s \in Symbols /\ a \in rb.atoms[s] /\ rb \in Rulebases /\ IInv
  BY BaseFacts DEF Live
<1>2. PICK h \in Triggers(Sets(s, a)[1].node, Start) : stack' = <<SetFrame(s, a, Tail(Sets(s, a))), h>>
  BY DEF LoadLine
<1>3. rb' = rb /\ broken' = broken
  BY DEF LoadLine
<1>4. PICK t, g : Begins(s, a, t, h, g)
  BY <1>1, <1>2, <1>3, CallBegins DEF Guards
<1>5. /\ Bind(Sets(s, a)[1].node, Sets(s, a)[1].atom, Start)
      /\ call' = Start /\ failed' = failed /\ (Settled \/ call = Start)
  BY DEF LoadLine, Load, Propagate
<1>6. Bind(g.node, g.atom, Start)
  BY <1>4, <1>5 DEF Begins
<1>7. QED
  BY <1>4, <1>5, <1>6

LEMMA LiveStays ==
  ASSUME Live, RNext, ~RuleAsserts
  PROVE  Live'
<1>1. [GtkNext]_vars /\ rb' = rb
  BY SessionGoesOn
<1>2. ASSUME NEW n, NEW a, NEW source \in Guards, NEW t, NEW h, NEW g,
             Begins(n, a, t, h, g), Bind(g.node, g.atom, source),
             call = source \/ Settled, call' = source, failed' = failed, source \in Symbols => n = source
      PROVE  Live'
  <2>1. g.node \in Symbols /\ g.atom \in Values /\ g.atom \in rb.atoms[g.node]
    BY <1>2 DEF Begins, GoalsOf
  <2>2. Nested' /\ stack' # <<>> /\ (source \in Symbols => stack'[1].node = source)
    BY <1>2 DEF Begins
  <2>3. call = source \/ (call = NoCall /\ ~HasNew /\ ~failed)
    BY <1>2 DEF Settled
  <2>4. QED
    BY <1>1, <1>2, <2>1, <2>2, <2>3, BindingStep
<1>3. ASSUME NEW s \in rb.nodes, NEW a \in Offered(s), UserSet(s, a)
      PROVE  Live'
  <2>1. s \in Guards /\ Settled /\ call' = s /\ failed' = failed
    BY <1>3, UserSetStep DEF Guards
  <2>2. PICK t, h, g : Begins(s, a, t, h, g) /\ Bind(g.node, g.atom, s)
    BY <1>3, UserSetStep
  <2>3. QED
    BY <1>2, <2>1, <2>2
<1>4. ASSUME NEW s \in rb.nodes, NEW a \in Offered(s), LoadLine(s, a)
      PROVE  Live'
  <2>1. Start \in Guards /\ Start \notin Symbols /\ call' = Start /\ failed' = failed /\ (Settled \/ call = Start)
    BY <1>4, LoadLineStep, GuardsAssumption DEF Guards
  <2>2. PICK t, h, g : Begins(s, a, t, h, g) /\ Bind(g.node, g.atom, Start)
    BY <1>4, LoadLineStep
  <2>3. QED
    BY <1>2, <2>1, <2>2
<1>5. CASE Bound
  <2>1. PICK t \in SetFrames(rb), h \in RulesFrames(rb), g \in GoalsOf(rb) : Calls(t, h) /\ Propagate(g.node, g.atom)
    BY <1>5, BoundStep
  <2>2. g.node \in Symbols /\ g.atom \in Values /\ g.atom \in rb.atoms[g.node]
    BY DEF GoalsOf
  <2>3. call \in Guards /\ call' = call /\ failed' = failed /\ Bind(g.node, g.atom, call)
    BY <2>1 DEF Propagate, Live, IInv, TypeOK
  <2>4. stack # <<>>
    BY <1>5 DEF Bound, At
  <2>5. Nested' /\ SameCall
    BY <2>1 DEF Calls
  <2>6. stack' # <<>> /\ (call \in Symbols => stack'[1].node = call)
    BY <2>4, <2>5 DEF Live, CallHasFrames, SameCall
  <2>7. QED
    BY <1>1, <2>2, <2>3, <2>5, <2>6, BindingStep
<1>6. CASE Returned
  <2>1. CASE Len(stack) = 1
    <3>1. /\ stack' = <<>> /\ Top.ok \in BOOLEAN
          /\ IF call = Start THEN UNCHANGED vars ELSE Return(Top.ok)
      BY <1>6, <2>1, ReturnedLast, SetFields
    <3>2. CASE call = Start
      <4>1. UNCHANGED vars
        BY <3>1, <3>2
      <4>2. /\ transactions' = transactions /\ call' = call /\ failed' = failed /\ chilled' = chilled
        BY <4>1 DEF vars, log
      <4>3. LogLive'
        BY <1>1, LogStays
      <4>4. HasNew' = HasNew /\ JustBound' = JustBound /\ TxIds' = TxIds
        BY <4>2 DEF HasNew, JustBound, TxIds
      <4>5. BoundTyped' /\ FailedIsOver' /\ OpenIsChilled'
        BY <1>1, <4>2, <4>4 DEF Live, BoundTyped, FailedIsOver, OpenIsChilled
      <4>6. CallHasFrames'
        BY <3>1, <3>2, <4>2, GuardsAssumption DEF CallHasFrames
      <4>7. Nested'
        <5>1. stack' \in Seq(Frames(rb')) /\ 1..Len(stack') = {}
          BY <3>1
        <5>2. QED
          BY <3>1, <5>1 DEF Nested
      <4>8. QED
        BY <1>1, <4>3, <4>5, <4>6, <4>7 DEF Live, LogLive
    <3>3. CASE call # Start
      BY <1>1, <3>1, <3>3, ReturnStep
    <3>4. QED
      BY <3>2, <3>3
  <2>2. CASE Len(stack) # 1
    <3>1. PICK t : Tells(t)
      BY <1>6, <2>2, ReturnedDeep
    <3>2. stack # <<>>
      BY <1>6 DEF Returned
    <3>3. QED
      BY <3>1, <3>2, QuietStep DEF Tells
  <2>3. QED
    BY <2>1, <2>2
<1>7. CASE LoadEnds
  BY <1>1, <1>7, ReturnStep DEF LoadEnds
<1>8. ASSUME NEW t, Goes(t), stack # <<>>
      PROVE  Live'
  BY <1>8, QuietStep DEF Goes
<1>9. ASSUME NEW t, NEW h, Calls(t, h), UNCHANGED vars, stack # <<>>
      PROVE  Live'
  BY <1>9, QuietStep DEF Calls
<1>10. CASE Refused \/ NextNode \/ RuleHolds \/ RuleBroken \/ GoalMet \/ GoalSet \/ Unsolved
  <2>1. stack # <<>>
    BY <1>10 DEF Refused, NextNode, RuleHolds, RuleBroken, GoalMet, GoalSet, Unsolved, At, Looked
  <2>2. (\E t : Goes(t)) \/ (\E t, h : Calls(t, h) /\ UNCHANGED vars)
    BY <1>10, RefusedStep, NextNodeStep, RuleHoldsStep, RuleBrokenStep, GoalMetStep, GoalSetStep, UnsolvedStep
  <2>3. QED
    BY <1>8, <1>9, <2>1, <2>2
<1>11. CASE CheckAllRules
  <2>1. UNCHANGED <<vars, rb, stack>> /\ Settled
    BY <1>11 DEF CheckAllRules
  <2>2. /\ transactions' = transactions /\ call' = call /\ failed' = failed /\ chilled' = chilled
    BY <2>1 DEF vars, log
  <2>3. HasNew' = HasNew /\ TxIds' = TxIds
    BY <2>2 DEF HasNew, TxIds
  <2>4. chilled' = {} /\ failed' = FALSE
    BY <2>1, <2>2 DEF Settled, Live, OpenIsChilled, IInv, TypeOK
  <2>5. BoundTyped'
    BY <1>1, <2>2, <2>3 DEF Live, BoundTyped
  <2>6. QED
    BY <1>1, <2>1, <2>2, <2>3, <2>4, <2>5, ClosingStep DEF Settled
<1>12. CASE FrontEnd
  BY <1>12, FrontEndStep
<1>13. QED
  BY <1>3, <1>4, <1>5, <1>6, <1>7, <1>10, <1>11, <1>12 DEF RNext, CallStep

-----------------------------------------------------------------------------
(* The invariant of the calls: an assertion fails only inside a call, and  *)
(* then all is over.                                                       *)
RInv == IF aborted THEN call # NoCall /\ Len(stack) > 1 ELSE Live

LEMMA AssertsStep ==
  ASSUME Live, RuleAsserts
  PROVE  aborted' /\ call' # NoCall /\ Len(stack') > 1 /\ UNCHANGED <<log, rb, broken, stack>>
<1>1. stack # <<>> /\ Top.kind # "set"
  BY DEF RuleAsserts, Looked, At
<1>2. Len(stack) \in Nat \ {0} /\ Len(stack) # 1
  BY <1>1, TopFrame DEF Live
<1>3. Len(stack) > 1
  <2>1. \A n \in Nat \ {0} : n # 1 => n > 1
    OBVIOUS
  <2>2. QED
    BY <1>2, <2>1, Zenon
<1>4. call # NoCall
  BY <1>1 DEF Live, CallHasFrames
<1>5. UNCHANGED <<log, rb, broken, stack>> /\ call' = call /\ aborted' = TRUE
  BY DEF RuleAsserts, Die
<1>6. QED
  BY <1>3, <1>4, <1>5

LEMMA NothingAfterAbort ==
  ASSUME aborted, call # NoCall, Len(stack) > 1
  PROVE  ~RNext
<1>1. stack # <<>>
  OBVIOUS
<1>2. QED
  BY <1>1 DEF RNext, UserSet, LoadLine, CallStep, Bound, Refused, NextNode, RuleHolds, RuleBroken, RuleAsserts,
              GoalMet, GoalSet, Unsolved, Returned, LoadEnds, CheckAllRules, FrontEnd,
              Settled, At, Looked, Commit, Undo, Redo, Clear

LEMMA LiveAtFirst == RInit => Live /\ ~aborted
<1> SUFFICES ASSUME RInit
             PROVE  Live /\ ~aborted
  OBVIOUS
<1>1. Init /\ rb \in Rulebases /\ broken = {} /\ stack = <<>>
  BY DEF RInit
<1>2. IInv /\ SessionInv
  BY <1>1, InitEstablishes DEF Init, SessionInv, OneTxPerStep, CommittedBindGuards, CallIsOpen, OpenBindsGuard,
     HasNew, TxIds
<1>3. ~HasNew /\ TxIds = {} /\ chilled = {} /\ ~failed /\ call = NoCall /\ ~aborted
  BY <1>1 DEF Init, HasNew, TxIds
<1>4. Nested
  <2>1. stack \in Seq(Frames(rb)) /\ 1..Len(stack) = {}
    BY <1>1
  <2>2. QED
    BY <1>1, <2>1 DEF Nested
<1>5. CallHasFrames /\ FailedIsOver /\ OpenIsChilled /\ BoundTyped /\ NewestInForce
  BY <1>1, <1>3, GuardsAssumption DEF CallHasFrames, FailedIsOver, OpenIsChilled, BoundTyped, NewestInForce, Guards
<1>6. QED
  BY <1>1, <1>2, <1>3, <1>4, <1>5 DEF Live

LEMMA StutterStays ==
  ASSUME Live, UNCHANGED rvars
  PROVE  Live'
<1>1. UNCHANGED vars /\ rb' = rb /\ stack' = stack
  BY DEF rvars
<1>2. /\ transactions' = transactions /\ call' = call /\ failed' = failed /\ chilled' = chilled
  BY <1>1 DEF vars, log
<1>3. LogLive'
  BY <1>1, LogStays
<1>4. HasNew' = HasNew /\ JustBound' = JustBound /\ TxIds' = TxIds
  BY <1>2 DEF HasNew, JustBound, TxIds
<1>5. BoundTyped' /\ FailedIsOver' /\ OpenIsChilled' /\ CallHasFrames'
  BY <1>1, <1>2, <1>4 DEF Live, BoundTyped, FailedIsOver, OpenIsChilled, CallHasFrames
<1>6. Nested'
  BY <1>1 DEF Live, Nested
<1>7. QED
  BY <1>1, <1>3, <1>5, <1>6 DEF Live, LogLive

LEMMA RInvariance == RSpec => []RInv
<1>1. RInit => RInv
  BY LiveAtFirst DEF RInv
<1>2. RInv /\ [RNext]_rvars => RInv'
  <2> SUFFICES ASSUME RInv, [RNext]_rvars
               PROVE  RInv'
    OBVIOUS
  <2>1. CASE UNCHANGED rvars
    BY <2>1, StutterStays DEF rvars, vars, RInv
  <2>2. CASE RNext /\ aborted
    BY <2>2, NothingAfterAbort DEF RInv
  <2>3. CASE RNext /\ ~aborted /\ RuleAsserts
    BY <2>3, AssertsStep DEF RInv
  <2>4. CASE RNext /\ ~aborted /\ ~RuleAsserts
    <3>1. Live'
      BY <2>4, LiveStays DEF RInv
    <3>2. ~aborted'
      BY <3>1 DEF Live, SessionInv
    <3>3. QED
      BY <3>1, <3>2 DEF RInv
  <2>5. QED
    BY <2>1, <2>2, <2>3, <2>4
<1>3. QED
  BY <1>1, <1>2, PTL DEF RSpec

(* Whatever the rules bind, and whether the calls are refused, fail or     *)
(* stop at an assertion, what nodes are bound to is a linear history: all  *)
(* that a call of the user or a load binds is one step of it, which undo   *)
(* and redo take back and give back as a whole (node.c, rule.c, expr.c on  *)
(* transactions.c).                                                        *)
THEOREM CallsAreHistory == RSpec => IsUndoHistory
<1>1. RInit => History!HistInit
  BY HistoryBegins DEF RInit
<1>2. RInv /\ [RNext]_rvars => [History!HistNext]_(History!hvars)
  <2> SUFFICES ASSUME RInv, [RNext]_rvars
               PROVE  [History!HistNext]_(History!hvars)
    OBVIOUS
  <2>1. CASE UNCHANGED rvars
    BY <2>1, SameLog DEF rvars, vars
  <2>2. CASE RNext /\ aborted
    BY <2>2, NothingAfterAbort DEF RInv
  <2>3. CASE RNext /\ ~aborted /\ RuleAsserts
    BY <2>3, AssertsStep, SameLog DEF RInv
  <2>4. CASE RNext /\ ~aborted /\ ~RuleAsserts
    BY <2>4, SessionGoesOn, SessionRefines DEF RInv, Live
  <2>5. QED
    BY <2>1, <2>2, <2>3, <2>4
<1>3. QED
  BY <1>1, <1>2, RInvariance, PTL DEF RSpec, IsUndoHistory, History!HistSpec

-----------------------------------------------------------------------------
(* What was asked for is what is bound.                                    *)

(* The open transaction binds the node as the goal says.                   *)
AsGoal(g) == g.node \in JustBound /\ Given(g.node) = g.atom

(* A frame has bound what it has not still to set.                         *)
SetsDone ==
  \A i \in 1..Len(stack) : stack[i].kind = "set" /\ stack[i].ok =>
    \A g \in ToSet(Sets(stack[i].node, stack[i].atom)) : g \in ToSet(stack[i].todo) \/ AsGoal(g)

(* A menu is bound with all its children, unless a frame is still at it or *)
(* the call has failed.                                                    *)
Whole(m) == \E c : \A g \in ToSet(Chosen(m, c)) : AsGoal(g)

ChoosesIn(f, m) == f.kind = "set" /\ \E c : Sets(f.node, f.atom) = Chosen(m, c)

Choosing(m) == \E i \in 1..Len(stack) : ChoosesIn(stack[i], m)

Failing == \E i \in 1..Len(stack) : ~stack[i].ok

MenusWhole == \A m \in JustBound \cap DOMAIN Children : Whole(m) \/ Choosing(m) \/ Failing

Asking == call \in Symbols => SetsDone /\ MenusWhole

(* The frames stay, and none that has failed forgets it.                   *)
Keeps ==
  \A i \in 1..Len(stack) :
    /\ i \in 1..Len(stack') /\ SameFrame(stack'[i], stack[i])
    /\ stack'[i].ok => stack[i].ok

LEMMA ReplacedKeeps ==
  ASSUME Nested, stack # <<>>, NEW t, Replaces(stack, stack', t), SameFrame(t, Top), t.ok => Top.ok
  PROVE  Keeps
<1>1. Len(stack) \in Nat \ {0} /\ Top = stack[Len(stack)]
  BY TopFrame
<1>2. \A i \in 1..Len(stack) : i \in 1..Len(stack) - 1 \/ i = Len(stack)
  BY <1>1
<1>3. \A i \in 1..Len(stack) : i \in 1..Len(stack')
  BY DEF Replaces
<1>4. \A i \in 1..Len(stack) : SameFrame(stack'[i], stack[i]) /\ (stack'[i].ok => stack[i].ok)
  BY <1>1, <1>2 DEF Replaces, SameFrame
<1>5. QED
  BY <1>3, <1>4 DEF Keeps

LEMMA PushedKeeps ==
  ASSUME Nested, stack # <<>>, NEW t, NEW h, Pushes(stack, stack', t, h), SameFrame(t, Top), t.ok => Top.ok
  PROVE  Keeps
<1>1. Len(stack) \in Nat \ {0} /\ Top = stack[Len(stack)]
  BY TopFrame
<1>2. \A i \in 1..Len(stack) : i \in 1..Len(stack) - 1 \/ i = Len(stack)
  BY <1>1
<1>3. \A i \in 1..Len(stack) : i \in 1..Len(stack')
  BY <1>1 DEF Pushes
<1>4. \A i \in 1..Len(stack) : SameFrame(stack'[i], stack[i]) /\ (stack'[i].ok => stack[i].ok)
  BY <1>1, <1>2 DEF Pushes, SameFrame
<1>5. QED
  BY <1>3, <1>4 DEF Keeps

(* Then what is being chosen is still, and a failure is not forgotten.     *)
LEMMA KeptFrames ==
  ASSUME Keeps
  PROVE  /\ Failing => Failing'
         /\ \A m : Choosing(m) => Choosing(m)'
<1>1. Failing => Failing'
  BY DEF Keeps, Failing
<1>2. ASSUME NEW m, NEW i \in 1..Len(stack), ChoosesIn(stack[i], m)
      PROVE  ChoosesIn(stack'[i], m) /\ i \in 1..Len(stack')
  BY <1>2 DEF Keeps, ChoosesIn, SameFrame
<1>3. QED
  BY <1>1, <1>2 DEF Choosing

(* What has been bound stays bound.                                        *)
Grows == \A g : AsGoal(g) => AsGoal(g)'

LEMMA SameGoals ==
  ASSUME transactions' = transactions
  PROVE  Grows /\ JustBound' = JustBound
BY DEF Grows, AsGoal, JustBound, Given

LEMMA WholeGrows ==
  ASSUME Grows
  PROVE  \A m : Whole(m) => Whole(m)'
<1>1. ASSUME NEW m, Whole(m)
      PROVE  Whole(m)'
  <2>1. PICK c : \A g \in ToSet(Chosen(m, c)) : AsGoal(g)
    BY <1>1 DEF Whole
  <2>2. \A g \in ToSet(Chosen(m, c)) : AsGoal(g)'
    BY <2>1 DEF Grows
  <2>3. QED
    BY <2>2 DEF Whole
<1>2. QED
  BY <1>1

(* A frame goes on: a frame that sets nodes only when it is refused.       *)
LEMMA AskingGoes ==
  ASSUME Live, Asking, stack # <<>>, NEW t, Goes(t), t.ok => Top.ok, t.kind = "set" => ~t.ok
  PROVE  Asking'
<1>1. call' = call /\ transactions' = transactions
  BY DEF Goes, vars, log
<1>2. Keeps
  BY ReplacedKeeps DEF Goes, Live
<1>3. Grows /\ JustBound' = JustBound
  BY <1>1, SameGoals
<1>4. Len(stack') = Len(stack) /\ stack'[Len(stack)] = t /\ \A i \in 1..Len(stack) - 1 : stack'[i] = stack[i]
  BY DEF Goes, Replaces
<1>5. Len(stack) \in Nat \ {0}
  BY TopFrame DEF Live
<1>6. ASSUME SetsDone
      PROVE  SetsDone'
  <2> SUFFICES ASSUME NEW i \in 1..Len(stack'), stack'[i].kind = "set", stack'[i].ok,
                      NEW g \in ToSet(Sets(stack'[i].node, stack'[i].atom))
               PROVE  g \in ToSet(stack'[i].todo) \/ AsGoal(g)'
    BY DEF SetsDone
  <2>1. i \in 1..Len(stack) - 1
    BY <1>4, <1>5
  <2>2. stack'[i] = stack[i] /\ i \in 1..Len(stack)
    BY <1>4, <1>5, <2>1
  <2>3. g \in ToSet(stack[i].todo) \/ AsGoal(g)
    BY <1>6, <2>2 DEF SetsDone
  <2>4. QED
    BY <1>3, <2>2, <2>3 DEF Grows
<1>7. MenusWhole => MenusWhole'
  BY <1>2, <1>3, KeptFrames, WholeGrows DEF MenusWhole
<1>8. QED
  BY <1>1, <1>6, <1>7 DEF Asking

(* A function is called: what it sets is all still to be set.              *)
LEMMA AskingCalls ==
  ASSUME Live, Asking, stack # <<>>, NEW t, NEW h, Calls(t, h), UNCHANGED vars, t.ok => Top.ok, t.kind # "set",
         h.kind = "set" => h.todo = Sets(h.node, h.atom)
  PROVE  Asking'
<1>1. call' = call /\ transactions' = transactions
  BY DEF vars, log
<1>2. Keeps
  BY PushedKeeps DEF Calls, Live
<1>3. Grows /\ JustBound' = JustBound
  BY <1>1, SameGoals
<1>4. /\ Len(stack') = Len(stack) + 1 /\ stack'[Len(stack)] = t /\ stack'[Len(stack) + 1] = h
      /\ \A i \in 1..Len(stack) - 1 : stack'[i] = stack[i]
  BY DEF Calls, Pushes
<1>5. Len(stack) \in Nat \ {0}
  BY TopFrame DEF Live
<1>6. ASSUME SetsDone
      PROVE  SetsDone'
  <2> SUFFICES ASSUME NEW i \in 1..Len(stack'), stack'[i].kind = "set", stack'[i].ok,
                      NEW g \in ToSet(Sets(stack'[i].node, stack'[i].atom))
               PROVE  g \in ToSet(stack'[i].todo) \/ AsGoal(g)'
    BY DEF SetsDone
  <2>1. i \in 1..Len(stack) - 1 \/ i = Len(stack) \/ i = Len(stack) + 1
    BY <1>4, <1>5
  <2>2. CASE i \in 1..Len(stack) - 1
    <3>1. stack'[i] = stack[i] /\ i \in 1..Len(stack)
      BY <1>4, <1>5, <2>2
    <3>2. g \in ToSet(stack[i].todo) \/ AsGoal(g)
      BY <1>6, <3>1 DEF SetsDone
    <3>3. QED
      BY <1>3, <3>1, <3>2 DEF Grows
  <2>3. CASE i = Len(stack) + 1
    BY <1>4, <2>3
  <2>4. QED
    BY <1>4, <2>1, <2>2, <2>3
<1>7. MenusWhole => MenusWhole'
  BY <1>2, <1>3, KeptFrames, WholeGrows DEF MenusWhole
<1>8. QED
  BY <1>1, <1>6, <1>7 DEF Asking

(* The frames that stay when a function returns: one that has failed or is *)
(* told of a failure has failed.                                           *)
TellsFrames(t) ==
  /\ Len(stack') \in Nat /\ Len(stack') = Len(stack) - 1 /\ stack'[Len(stack) - 1] = t
  /\ \A i \in 1..Len(stack) : i \in 1..Len(stack') \/ i = Len(stack)
  /\ \A i \in 1..Len(stack') : /\ i \in 1..Len(stack) /\ SameBut(stack'[i], stack[i])
                               /\ stack'[i].ok => stack[i].ok
  /\ ~Top.ok => ~t.ok /\ Failing'
  /\ Failing => Failing'

LEMMA FramesTold ==
  ASSUME NEW t, Tells(t), Len(stack) \in Nat \ {0}, Top = stack[Len(stack)]
  PROVE  TellsFrames(t)
<1>1. /\ Len(stack') = Len(stack) - 1 /\ stack'[Len(stack) - 1] = t
      /\ \A i \in 1..Len(stack) - 2 : stack'[i] = stack[i]
      /\ SameBut(t, stack[Len(stack) - 1])
      /\ t.ok <=> (stack[Len(stack) - 1].ok /\ Top.ok)
      /\ Len(stack) > 1
  BY DEF Tells, Pops
<1>2. \A i \in 1..Len(stack') : /\ i \in 1..Len(stack) /\ SameBut(stack'[i], stack[i])
                                /\ stack'[i].ok => stack[i].ok
  <2> SUFFICES ASSUME NEW i \in 1..Len(stack')
               PROVE  i \in 1..Len(stack) /\ SameBut(stack'[i], stack[i]) /\ (stack'[i].ok => stack[i].ok)
    OBVIOUS
  <2>1. i \in 1..Len(stack)
    BY <1>1
  <2>2. CASE i \in 1..Len(stack) - 2
    BY <1>1, <2>1, <2>2 DEF SameBut
  <2>3. CASE i = Len(stack) - 1
    BY <1>1, <2>1, <2>3
  <2>4. QED
    BY <1>1, <2>2, <2>3
<1>3. Len(stack) - 1 \in 1..Len(stack')
  BY <1>1
<1>4. ~Top.ok => ~t.ok /\ Failing'
  BY <1>1, <1>3 DEF Failing
<1>5. \A i \in 1..Len(stack) : i \in 1..Len(stack') \/ i = Len(stack)
  BY <1>1
<1>6. ASSUME NEW i \in 1..Len(stack), ~stack[i].ok
      PROVE  Failing'
  <2>1. CASE i \in 1..Len(stack')
    BY <1>2, <1>6, <2>1 DEF Failing
  <2>2. CASE i = Len(stack)
    BY <1>4, <1>6, <2>2
  <2>3. QED
    BY <1>5, <2>1, <2>2
<1>7. Failing => Failing'
  BY <1>6 DEF Failing
<1>8. Len(stack') \in Nat
  BY <1>1
<1>9. QED
  BY <1>1, <1>2, <1>4, <1>5, <1>7, <1>8 DEF TellsFrames

(* A function returns: a frame that is done has bound its menu.            *)
LEMMA AskingTells ==
  ASSUME Live, Asking, stack # <<>>, NEW t, Tells(t), Done
  PROVE  Asking'
<1>1. call' = call /\ transactions' = transactions
  BY DEF Tells, vars, log
<1>2. Grows /\ JustBound' = JustBound
  BY <1>1, SameGoals
<1>3. Len(stack) \in Nat \ {0} /\ Len(stack) > 1 /\ Top = stack[Len(stack)] /\ Top \in Frames(rb)
  BY TopFrame DEF Live, Tells
<1>4. TellsFrames(t)
  BY <1>3, FramesTold
<1>5. /\ \A i \in 1..Len(stack) : i \in 1..Len(stack') \/ i = Len(stack)
      /\ \A i \in 1..Len(stack') : /\ i \in 1..Len(stack) /\ SameBut(stack'[i], stack[i])
                                   /\ stack'[i].ok => stack[i].ok
  BY <1>4 DEF TellsFrames
<1>6. ~Top.ok => Failing'
  BY <1>4 DEF TellsFrames
<1>7. Failing => Failing'
  BY <1>4 DEF TellsFrames
<1>8. ASSUME SetsDone
      PROVE  SetsDone'
  <2> SUFFICES ASSUME NEW i \in 1..Len(stack'), stack'[i].kind = "set", stack'[i].ok,
                      NEW g \in ToSet(Sets(stack'[i].node, stack'[i].atom))
               PROVE  g \in ToSet(stack'[i].todo) \/ AsGoal(g)'
    BY DEF SetsDone
  <2>1. /\ i \in 1..Len(stack) /\ stack[i].kind = "set" /\ stack[i].ok
        /\ stack[i].node = stack'[i].node /\ stack[i].atom = stack'[i].atom /\ stack[i].todo = stack'[i].todo
    BY <1>5 DEF SameBut
  <2>2. g \in ToSet(stack[i].todo) \/ AsGoal(g)
    BY <1>8, <2>1 DEF SetsDone
  <2>3. QED
    BY <1>2, <2>1, <2>2 DEF Grows
<1>9. ASSUME SetsDone, NEW m, Choosing(m)
      PROVE  Whole(m) \/ Choosing(m)' \/ Failing'
  <2>1. PICK i \in 1..Len(stack) : ChoosesIn(stack[i], m)
    BY <1>9 DEF Choosing
  <2>2. CASE i \in 1..Len(stack')
    <3>1. i \in 1..Len(stack')
      BY <2>2
    <3>2. ChoosesIn(stack'[i], m)
      BY <1>5, <2>1, <3>1 DEF ChoosesIn, SameBut
    <3>3. QED
      BY <3>1, <3>2 DEF Choosing
  <2>3. CASE i = Len(stack) /\ ~Top.ok
    BY <1>6, <2>3
  <2>4. CASE i = Len(stack) /\ Top.ok
    <3>1. PICK c : Sets(Top.node, Top.atom) = Chosen(m, c)
      BY <1>3, <2>1, <2>4 DEF ChoosesIn
    <3>2. Top.kind = "set" /\ Top.todo = <<>>
      BY <1>3, <2>1, <2>4 DEF ChoosesIn, Done
    <3>3. \A g \in ToSet(Top.todo) : FALSE
      BY <3>2 DEF ToSet
    <3>4. \A g \in ToSet(Chosen(m, c)) : AsGoal(g)
      BY <1>3, <1>9, <2>4, <3>1, <3>2, <3>3 DEF SetsDone
    <3>5. QED
      BY <3>4 DEF Whole
  <2>5. QED
    BY <1>5, <2>2, <2>3, <2>4
<1>10. SetsDone /\ MenusWhole => MenusWhole'
  BY <1>2, <1>7, <1>9, WholeGrows DEF MenusWhole
<1>11. QED
  BY <1>1, <1>8, <1>10 DEF Asking

(* One more node is bound inside a call.                                   *)
Adds(g) ==
  /\ call # NoCall /\ call' = call
  /\ HasNew /\ g.node \notin JustBound /\ JustBound' = JustBound \cup {g.node}
  /\ Given(g.node)' = g.atom
  /\ \A n \in JustBound : Given(n)' = Given(n)

LEMMA PropagateAdds ==
  ASSUME Live, NEW g \in GoalsOf(rb), Propagate(g.node, g.atom)
  PROVE  Adds(g)
<1> DEFINE mn == g.node
           a == g.atom
<1>1. mn \in Symbols /\ a \in Values /\ call \in Guards /\ call # NoCall /\ call' = call /\ Bind(mn, a, call)
  BY DEF GoalsOf, Propagate, Live, IInv, TypeOK
<1>2. HasNew /\ transactions[Len(transactions)].guard = call
  BY <1>1 DEF Live, SessionInv, CallIsOpen
<1> HIDE DEF mn, a
<1>3. /\ mn \notin chilled
      /\ JustBound' = (IF HasNew THEN JustBound ELSE {}) \cup {mn}
      /\ Given(mn)' = a
      /\ \A n \in JustBound \ {mn} : Given(n)' = Given(n)
  BY <1>1, <1>2, BindGives DEF Live, SessionInv
<1>4. mn \notin JustBound
  BY <1>2, <1>3 DEF Live, OpenIsChilled
<1>5. QED
  BY <1>1, <1>2, <1>3, <1>4 DEF Adds, mn, a

LEMMA AddsGrows ==
  ASSUME NEW g, Adds(g)
  PROVE  Grows /\ AsGoal(g)'
BY DEF Adds, Grows, AsGoal

LEMMA AskingBound ==
  ASSUME Live, Asking, Bound
  PROVE  Asking'
<1>1. PICK t \in SetFrames(rb), h \in RulesFrames(rb), g \in GoalsOf(rb) :
        /\ Calls(t, h) /\ Top \in SetFrames(rb)
        /\ t.ok = Top.ok /\ h.ok = TRUE
        /\ ToSet(Top.todo) = {g} \cup ToSet(t.todo)
        /\ Propagate(g.node, g.atom)
  BY BoundStep
<1>2. Adds(g) /\ Grows /\ AsGoal(g)'
  BY <1>1, PropagateAdds, AddsGrows
<1>3. stack # <<>>
  BY DEF Bound, At
<1>4. Keeps
  BY <1>1, <1>3, PushedKeeps DEF Calls, Live
<1>5. /\ Len(stack') = Len(stack) + 1 /\ stack'[Len(stack)] = t /\ stack'[Len(stack) + 1] = h
      /\ \A i \in 1..Len(stack) - 1 : stack'[i] = stack[i]
      /\ SameFrame(t, Top)
  BY <1>1 DEF Calls, Pushes
<1>6. Len(stack) \in Nat \ {0} /\ Top = stack[Len(stack)] /\ Len(stack) \in 1..Len(stack)
  BY <1>3, TopFrame DEF Live
<1>7. h.kind = "rules" /\ t.kind = "set" /\ Top.kind = "set" /\ Top.node = t.node /\ Top.atom = t.atom
  BY <1>1, <1>5, RulesFields, SetFields DEF SameFrame
<1>8. ASSUME SetsDone
      PROVE  SetsDone'
  <2> SUFFICES ASSUME NEW i \in 1..Len(stack'), stack'[i].kind = "set", stack'[i].ok,
                      NEW x \in ToSet(Sets(stack'[i].node, stack'[i].atom))
               PROVE  x \in ToSet(stack'[i].todo) \/ AsGoal(x)'
    BY DEF SetsDone
  <2>1. i \in 1..Len(stack) - 1 \/ i = Len(stack) \/ i = Len(stack) + 1
    BY <1>5, <1>6
  <2>2. CASE i \in 1..Len(stack) - 1
    <3>1. stack'[i] = stack[i] /\ i \in 1..Len(stack)
      BY <1>5, <1>6, <2>2
    <3>2. x \in ToSet(stack[i].todo) \/ AsGoal(x)
      BY <1>8, <3>1 DEF SetsDone
    <3>3. QED
      BY <1>2, <3>1, <3>2 DEF Grows
  <2>3. CASE i = Len(stack)
    <3>1. stack'[i] = t /\ stack[i] = Top /\ i \in 1..Len(stack)
      BY <1>5, <1>6, <2>3
    <3>2. x \in ToSet(Top.todo) \/ AsGoal(x)
      BY <1>1, <1>7, <1>8, <3>1 DEF SetsDone
    <3>3. QED
      BY <1>1, <1>2, <3>1, <3>2 DEF Grows
  <2>4. CASE i = Len(stack) + 1
    BY <1>5, <1>7, <2>4
  <2>5. QED
    BY <2>1, <2>2, <2>3, <2>4
<1>9. ASSUME g.node \in DOMAIN Children
      PROVE  Choosing(g.node)'
  <2>1. Top.node \in Symbols /\ Top.atom \in rb.atoms[Top.node] /\ g \in ToSet(Sets(Top.node, Top.atom))
    BY <1>1, SetFields
  <2>2. \E c : Sets(Top.node, Top.atom) = Chosen(g.node, c)
    BY <1>9, <2>1, SetsTyped DEF Live
  <2>3. ChoosesIn(stack'[Len(stack)], g.node) /\ Len(stack) \in 1..Len(stack')
    BY <1>5, <1>6, <1>7, <2>2 DEF ChoosesIn
  <2>4. QED
    BY <2>3 DEF Choosing
<1>10. MenusWhole => MenusWhole'
  BY <1>2, <1>4, <1>9, KeptFrames, WholeGrows DEF MenusWhole, Adds
<1>11. QED
  BY <1>2, <1>8, <1>10 DEF Asking, Adds

(* The user asks: the first node is bound, the others are to be.           *)
Opens(g) ==
  /\ HasNew' /\ JustBound' = {g.node}
  /\ Given(g.node)' = g.atom

LEMMA SetOpens ==
  ASSUME Live, Settled, NEW g \in GoalsOf(rb), NEW source \in Guards, Bind(g.node, g.atom, source)
  PROVE  Opens(g)
<1> DEFINE mn == g.node
           a == g.atom
<1>1. mn \in Symbols /\ a \in Values /\ Bind(mn, a, source) /\ ~HasNew
  BY DEF GoalsOf, Settled
<1> HIDE DEF mn, a
<1>2. HasNew' /\ JustBound' = (IF HasNew THEN JustBound ELSE {}) \cup {mn} /\ Given(mn)' = a
  BY <1>1, BindGives DEF Live, SessionInv
<1>3. QED
  BY <1>1, <1>2 DEF Opens, mn, a

LEMMA AskingBegins ==
  ASSUME Live, NEW s \in rb.nodes, NEW a \in Offered(s), UserSet(s, a)
  PROVE  Asking'
<1>1. s \in Symbols /\ s \in Guards /\ a \in rb.atoms[s] /\ Settled
  BY UserSetStep DEF Guards
<1>2. PICK t, h, g : Begins(s, a, t, h, g) /\ Bind(g.node, g.atom, s)
  BY UserSetStep
<1>3. Opens(g)
  BY <1>1, <1>2, SetOpens DEF Begins
<1>4. /\ Len(stack') = 2 /\ stack'[1] = t /\ stack'[2] = h
      /\ t.node = s /\ t.atom = a /\ g \in ToSet(Sets(s, a))
      /\ ToSet(Sets(s, a)) = {g} \cup ToSet(t.todo)
  BY <1>2 DEF Begins
<1>5. t.kind = "set" /\ h.kind = "rules"
  BY <1>2, SetFields, RulesFields DEF Begins
<1>6. \A i \in 1..Len(stack') : i = 1 \/ i = 2
  BY <1>4
<1>7. SetsDone'
  BY <1>3, <1>4, <1>5, <1>6 DEF SetsDone, AsGoal, Opens
<1>8. ASSUME g.node \in DOMAIN Children
      PROVE  Choosing(g.node)'
  <2>1. \E c : Sets(s, a) = Chosen(g.node, c)
    BY <1>1, <1>4, <1>8, SetsTyped DEF Live
  <2>2. ChoosesIn(stack'[1], g.node) /\ 1 \in 1..Len(stack')
    BY <1>4, <1>5, <2>1 DEF ChoosesIn
  <2>3. QED
    BY <2>2 DEF Choosing
<1>9. MenusWhole'
  BY <1>3, <1>8 DEF MenusWhole, Opens
<1>10. QED
  BY <1>7, <1>9 DEF Asking

(* A menu that is bound as a whole agrees with its children.               *)
LEMMA WholeAgrees ==
  ASSUME NEW m \in DOMAIN Children, Whole(m), GivenValues, NEW k \in DOMAIN Children[m]
  PROVE  value[Children[m][k]].val = "y" <=> value[m].val = Children[m][k]
<1> DEFINE x == Children[m][k]
<1>1. PICK c : \A g \in ToSet(Chosen(m, c)) : AsGoal(g)
  BY DEF Whole
<1>2. AsGoal(Goal(m, Atom("node", c))) /\ AsGoal(Goal(x, Bool(x = c)))
  BY <1>1, ChosenElements
<1>3. m \in JustBound /\ Given(m) = Atom("node", c) /\ x \in JustBound /\ Given(x) = Bool(x = c)
  BY <1>2 DEF AsGoal, Goal
<1>4. value[m] = Atom("node", c) /\ value[x] = Bool(x = c)
  BY <1>3 DEF GivenValues
<1>5. value[m].val = c /\ (value[x].val = "y" <=> x = c)
  <2>1. (x = c) \in BOOLEAN
    OBVIOUS
  <2>2. Atom("node", c).val = c /\ (Bool(x = c).val = "y" <=> x = c)
    BY <2>1, AtomFields, BoolFields
  <2>3. QED
    BY <1>4, <2>2
<1>6. QED
  BY <1>5

(* So do all that are, now and in the next state.                          *)
MenusAgree ==
  GivenValues /\ (\A m \in JustBound \cap DOMAIN Children : Whole(m)) => RadioChosen

LEMMA MenusAgreeNow == MenusAgree
BY WholeAgrees DEF MenusAgree, RadioChosen

LEMMA MenusAgreeNext == MenusAgree'
BY MenusAgreeNow, PTL

LEMMA AskedIsBound ==
  ASSUME Live, Asking, Returned, Len(stack) = 1, call \in Symbols, ~failed', NEW n, n = stack[1].node
  PROVE  (value[n].val)' = stack[1].atom.val /\ RadioChosen'
<1>1. /\ Top = stack[1] /\ Top \in SetFrames(rb) /\ Done /\ rb' = rb
      /\ IF call = Start THEN UNCHANGED vars ELSE Return(Top.ok)
  BY ReturnedLast
<1>2. Top.kind = "set" /\ Top.node \in Symbols /\ Top.atom \in rb.atoms[Top.node] /\ Top.ok \in BOOLEAN
  BY <1>1, SetFields
<1>3. Return(Top.ok)
  BY <1>1, GuardsAssumption
<1>4. Top.ok /\ transactions' = transactions
  BY <1>2, <1>3, GuardsAssumption DEF Return, log
<1>5. Top.todo = <<>>
  BY <1>1, <1>2, <1>4 DEF Done
<1>6. \A g \in ToSet(Sets(Top.node, Top.atom)) : AsGoal(g)
  <2>1. \A g \in ToSet(Top.todo) : FALSE
    BY <1>5 DEF ToSet
  <2>2. 1 \in 1..Len(stack)
    OBVIOUS
  <2>3. QED
    BY <1>1, <1>2, <1>4, <2>1, <2>2 DEF Asking, SetsDone
<1>7. HasNew' /\ Grows /\ JustBound' = JustBound
  <2>1. HasNew
    BY GuardsAssumption DEF Live, SessionInv, CallIsOpen, Guards
  <2>2. QED
    BY <1>4, <2>1, SameGoals DEF HasNew
<1>8. Live'
  <2>1. RNext
    BY DEF RNext, CallStep
  <2>2. ~RuleAsserts
    BY <1>2 DEF RuleAsserts, Looked, At
  <2>3. QED
    BY <2>1, <2>2, LiveStays
<1>9. GivenValues'
  BY <1>7, <1>8, GivenNext DEF Live
<1>10. value'[Top.node].val = Top.atom.val
  <2>1. PICK g \in ToSet(Sets(Top.node, Top.atom)) : g.node = Top.node /\ g.atom.val = Top.atom.val
    BY <1>2, SetsTyped DEF Live
  <2>2. AsGoal(g)'
    BY <1>6, <1>7 DEF Grows
  <2>3. QED
    BY <1>9, <2>1, <2>2 DEF AsGoal, GivenValues
<1>11. ASSUME NEW m \in JustBound \cap DOMAIN Children
       PROVE  Whole(m)
  <2>1. Whole(m) \/ Choosing(m) \/ Failing
    BY DEF Asking, MenusWhole
  <2>2. \A i \in 1..Len(stack) : i = 1
    OBVIOUS
  <2>3. ~Failing
    BY <1>1, <1>4, <2>2 DEF Failing
  <2>4. CASE Choosing(m)
    <3>1. PICK c : Sets(Top.node, Top.atom) = Chosen(m, c)
      BY <1>1, <2>2, <2>4 DEF Choosing, ChoosesIn
    <3>2. QED
      BY <1>6, <3>1 DEF Whole
  <2>5. QED
    BY <2>1, <2>3, <2>4
<1>12. \A m \in JustBound' \cap DOMAIN Children : Whole(m)'
  BY <1>7, <1>11, WholeGrows
<1>13. RadioChosen'
  BY <1>9, <1>12, MenusAgreeNext DEF MenusAgree
<1>14. QED
  BY <1>1, <1>10, <1>13

LEMMA AskingStays ==
  ASSUME Live, Asking, RNext, ~RuleAsserts
  PROVE  Asking'
<1>1. ASSUME NEW s \in rb.nodes, NEW a \in Offered(s), UserSet(s, a)
      PROVE  Asking'
  BY <1>1, AskingBegins
<1>2. ASSUME call' \notin Symbols
      PROVE  Asking'
  BY <1>2 DEF Asking
<1>3. ASSUME NEW s \in rb.nodes, NEW a \in Offered(s), LoadLine(s, a)
      PROVE  Asking'
  BY <1>2, <1>3, LoadLineStep, GuardsAssumption
<1>4. NoCall \notin Symbols /\ Start \notin Symbols
  BY GuardsAssumption DEF Guards
<1>5. CASE Bound
  BY <1>5, AskingBound
<1>6. CASE Refused
  <2>1. stack # <<>>
    BY <1>6 DEF Refused, At
  <2>2. PICK t : Goes(t) /\ t.ok = FALSE
    BY <1>6, RefusedStep
  <2>3. QED
    BY <2>1, <2>2, AskingGoes
<1>7. CASE NextNode
  <2>1. stack # <<>>
    BY <1>7 DEF NextNode
  <2>2. PICK t \in RulesFrames(rb) : Goes(t) /\ t.ok = Top.ok
    BY <1>7, NextNodeStep
  <2>3. t.kind = "rules"
    BY RulesFields
  <2>4. QED
    BY <2>1, <2>2, <2>3, AskingGoes
<1>8. CASE RuleHolds
  <2>1. stack # <<>>
    BY <1>8 DEF RuleHolds, Looked, At
  <2>2. PICK t, r : Goes(t) /\ LookedAt(t, r)
    BY <1>8, RuleHoldsStep
  <2>3. t.kind = "rules" /\ t.ok = Top.ok
    BY <2>2, RulesFields DEF LookedAt
  <2>4. QED
    BY <2>1, <2>2, <2>3, AskingGoes
<1>9. CASE RuleBroken
  <2>1. stack # <<>>
    BY <1>9 DEF RuleBroken, Looked, At
  <2>2. PICK t, r : \E h \in SolveFrames(rb) : Calls(t, h) /\ LookedAt(t, r) /\ UNCHANGED vars
    BY <1>9, RuleBrokenStep
  <2>3. PICK h \in SolveFrames(rb) : Calls(t, h) /\ UNCHANGED vars
    BY <2>2
  <2>4. t.kind = "rules" /\ t.ok = Top.ok /\ h.kind = "solve"
    BY <2>2, RulesFields, SolveFields DEF LookedAt
  <2>5. QED
    BY <2>1, <2>3, <2>4, AskingCalls
<1>10. CASE GoalMet
  <2>1. stack # <<>>
    BY <1>10 DEF GoalMet, At
  <2>2. PICK t \in SolveFrames(rb) : Goes(t) /\ t.ok = Top.ok
    BY <1>10, GoalMetStep
  <2>3. t.kind = "solve"
    BY SolveFields
  <2>4. QED
    BY <2>1, <2>2, <2>3, AskingGoes
<1>11. CASE GoalSet
  <2>1. stack # <<>>
    BY <1>11 DEF GoalSet, At
  <2>2. PICK t \in SolveFrames(rb), h \in SetFrames(rb), g \in GoalsOf(rb) :
          /\ Calls(t, h) /\ UNCHANGED vars /\ t.ok = Top.ok
          /\ h.node = g.node /\ h.atom = g.atom /\ h.todo = Sets(g.node, g.atom)
    BY <1>11, GoalSetStep
  <2>3. t.kind = "solve" /\ h.todo = Sets(h.node, h.atom)
    BY <2>2, SolveFields
  <2>4. QED
    BY <2>1, <2>2, <2>3, AskingCalls
<1>12. CASE Unsolved
  <2>1. stack # <<>>
    BY <1>12 DEF Unsolved, At
  <2>2. PICK t : Goes(t) /\ t.ok = FALSE
    BY <1>12, UnsolvedStep
  <2>3. QED
    BY <2>1, <2>2, AskingGoes
<1>13. CASE Returned /\ Len(stack) # 1
  <2>1. stack # <<>>
    BY <1>13 DEF Returned
  <2>2. PICK t : Tells(t) /\ Done
    BY <1>13, ReturnedDeep
  <2>3. QED
    BY <2>1, <2>2, AskingTells
<1>14. CASE Returned /\ Len(stack) = 1
  <2>1. IF call = Start THEN UNCHANGED vars ELSE Return(Top.ok)
    BY <1>14, ReturnedLast
  <2>2. call' \notin Symbols
    BY <1>4, <2>1 DEF Return, vars
  <2>3. QED
    BY <1>2, <2>2
<1>15. CASE LoadEnds
  BY <1>2, <1>4, <1>15 DEF LoadEnds, Return
<1>16. CASE CheckAllRules
  BY <1>2, <1>4, <1>16 DEF CheckAllRules, Settled, vars
<1>17. CASE FrontEnd
  BY <1>2, <1>4, <1>17, FrontEndStep
<1>18. QED
  BY <1>1, <1>3, <1>5, <1>6, <1>7, <1>8, <1>9, <1>10, <1>11, <1>12, <1>13, <1>14, <1>15, <1>16, <1>17
  DEF RNext, CallStep

LEMMA AskingStutters ==
  ASSUME Asking, UNCHANGED rvars
  PROVE  Asking'
<1>1. call' = call /\ transactions' = transactions /\ stack' = stack
  BY DEF rvars, vars, log
<1>2. JustBound' = JustBound /\ \A g : AsGoal(g)' = AsGoal(g)
  BY <1>1 DEF JustBound, AsGoal, Given
<1>3. SetsDone' = SetsDone
  BY <1>1, <1>2 DEF SetsDone
<1>4. MenusWhole' = MenusWhole
  BY <1>1, <1>2 DEF MenusWhole, Whole, Choosing, Failing
<1>5. QED
  BY <1>1, <1>3, <1>4 DEF Asking

(* A call of cml_node_set_value() that succeeds has bound the node to what *)
(* was asked for and each menu it came to with exactly one child, whatever *)
(* the rules made it set on the way: for any symbols, menus and rules, any *)
(* solver that keeps its promise, and however deep the calls go.           *)
THEOREM CallsDoAsAsked == RSpec => AcceptedAsAsked
<1> DEFINE AInv == RInv /\ (~aborted => Asking)
           Act == \A n \in Symbols :
                    call \in Symbols /\ call' = NoCall /\ ~failed' /\ n = stack[1].node =>
                      (value[n].val)' = stack[1].atom.val /\ RadioChosen'
<1>1. RInit => (~aborted => Asking)
  BY GuardsAssumption DEF RInit, Init, Asking, Guards
<1>2. RInv /\ (~aborted => Asking) /\ [RNext]_rvars => (~aborted' => Asking')
  <2> SUFFICES ASSUME RInv, ~aborted => Asking, [RNext]_rvars, ~aborted'
               PROVE  Asking'
    OBVIOUS
  <2>1. CASE UNCHANGED rvars
    BY <2>1, AskingStutters DEF rvars, vars
  <2>2. CASE RNext /\ aborted
    BY <2>2, NothingAfterAbort DEF RInv
  <2>3. CASE RNext /\ ~aborted /\ RuleAsserts
    BY <2>3, AssertsStep DEF RInv
  <2>4. CASE RNext /\ ~aborted /\ ~RuleAsserts
    BY <2>4, AskingStays DEF RInv
  <2>5. QED
    BY <2>1, <2>2, <2>3, <2>4
<1>3. RInv /\ (~aborted => Asking) /\ [RNext]_rvars => [Act]_rvars
  <2> SUFFICES ASSUME RInv, ~aborted => Asking, RNext,
                      NEW n \in Symbols, call \in Symbols, call' = NoCall, ~failed', n = stack[1].node
               PROVE  (value[n].val)' = stack[1].atom.val /\ RadioChosen'
    OBVIOUS
  <2>1. NoCall \notin Guards
    BY GuardsAssumption
  <2>2. ~aborted
    BY NothingAfterAbort DEF RInv
  <2>3. ~RuleAsserts
    BY <2>2, AssertsStep DEF RInv
  <2>4. Live /\ Asking
    BY <2>2 DEF RInv
  <2>5. call # NoCall /\ call # Start
    BY <2>1, GuardsAssumption DEF Guards
  <2>6. Returned /\ Len(stack) = 1
    <3>1. ASSUME NEW t, Goes(t) \/ Tells(t) \/ \E h : Calls(t, h) /\ UNCHANGED vars
          PROVE  FALSE
      BY <2>5, <3>1 DEF Goes, Tells, Calls, vars
    <3>2. ~(Refused \/ NextNode \/ RuleHolds \/ RuleBroken \/ GoalMet \/ GoalSet \/ Unsolved \/ (Returned /\ Len(stack) # 1))
      BY <2>4, <3>1, RefusedStep, NextNodeStep, RuleHoldsStep, RuleBrokenStep, GoalMetStep, GoalSetStep, UnsolvedStep,
         ReturnedDeep
    <3>3. ~Bound
      BY <2>5 DEF Bound, Propagate
    <3>4. ~LoadEnds /\ ~CheckAllRules /\ ~FrontEnd
      BY <2>5 DEF LoadEnds, CheckAllRules, FrontEnd, Settled, Commit, Undo, Redo, Clear
    <3>5. \A s \in rb.nodes : \A a \in Offered(s) : ~UserSet(s, a) /\ ~LoadLine(s, a)
      BY <2>5, GuardsAssumption DEF UserSet, LoadLine, Settled
    <3>6. QED
      BY <2>3, <3>2, <3>3, <3>4, <3>5 DEF RNext, CallStep
  <2>7. QED
    BY <2>4, <2>6, AskedIsBound
<1> HIDE DEF Act
<1>4. AcceptedAsAsked <=> [][Act]_rvars
  BY DEF AcceptedAsAsked, Act
<1>5. QED
  BY <1>1, <1>2, <1>3, <1>4, RInvariance, PTL DEF RSpec

-----------------------------------------------------------------------------
(* The rules that a call comes to hold, or are named as broken.            *)

Holds(r) == RuleValue(r).val = "y"

(* What a step does to a rule: unless the call disturbs the rule now, a    *)
(* rule that holds goes on to, and what is not met is still not.           *)
RuleStays(r) ==
  Watched(r)' =>
    /\ Watched(r)
    /\ Holds(r) => Holds(r)'
    /\ \A g : Unmet(g) /\ (g \notin Ends => g.node \in Uses(r)) => Unmet(g)'

(* In a call that has its transaction open a binding changes the value of  *)
(* no other bound node.                                                    *)
LEMMA OneGetChanges ==
  ASSUME Live, Live', NEW g \in GoalsOf(rb), Propagate(g.node, g.atom)
  PROVE  \A n \in Symbols \ {g.node} : Get(n)' = Get(n)
<1> DEFINE mn == g.node
           a == g.atom
<1>1. mn \in Symbols /\ a \in Values /\ call \in Guards /\ call # NoCall /\ Bind(mn, a, call)
  BY DEF GoalsOf, Propagate, Live, IInv, TypeOK
<1> HIDE DEF mn, a
<1>2. HasNew /\ transactions[Len(transactions)].guard = call
  BY <1>1 DEF Live, SessionInv, CallIsOpen
<1>3. Triggerable(mn, call) = {mn}
  BY <1>2 DEF Triggerable, OpensTransaction
<1>4. \A n \in Symbols : Get(n)' # Get(n) => n \in Triggerable(mn, call)
  BY <1>1, BindChanges DEF Live
<1>5. QED
  BY <1>3, <1>4 DEF mn

(* What is reached stays reached.                                          *)
LEMMA ReachedStays ==
  ASSUME rb \in Rulebases, rb' = rb, NEW g, Adds(g), \A n \in Symbols \ {g.node} : Get(n)' = Get(n), NEW n, Reached(n)
  PROVE  Reached(n)'
<1> SUFFICES ASSUME NEW S \in SUBSET Symbols, JustBound' \subseteq S,
                    \A s \in Symbols : Get(s)' = Unbound /\ Sources(rb, s) \cap S # {} => s \in S
             PROVE  n \in S
  BY DEF Reached, Sources
<1>1. g.node \in S /\ JustBound \subseteq S
  BY DEF Adds
<1>2. \A s \in Symbols : Get(s) = Unbound /\ Sources(rb, s) \cap S # {} => s \in S
  BY <1>1
<1>3. QED
  BY <1>1, <1>2 DEF Reached

(* What nodes that are out of reach are read off is out of reach too, and  *)
(* what is bound is reached.                                               *)
Unreached ==
  \A n \in Symbols : ~Reached(n) =>
    /\ n \notin JustBound
    /\ Get(n) = Unbound => \A s \in Sources(rb, n) : s \in Symbols /\ ~Reached(s)

LEMMA UnreachedNow == rb \in Rulebases => Unreached
<1> SUFFICES ASSUME rb \in Rulebases, NEW n \in Symbols, ~Reached(n)
             PROVE  /\ n \notin JustBound
                    /\ Get(n) = Unbound => \A s \in Sources(rb, n) : s \in Symbols /\ ~Reached(s)
  BY DEF Unreached
<1>1. PICK S \in SUBSET Symbols :
        /\ JustBound \subseteq S
        /\ \A x \in Symbols : Get(x) = Unbound /\ Sources(rb, x) \cap S # {} => x \in S
        /\ n \notin S
  BY DEF Reached
<1>2. ASSUME Get(n) = Unbound, NEW s \in Sources(rb, n)
      PROVE  s \in Symbols /\ ~Reached(s)
  <2>1. s \in Symbols
    BY DepthFacts
  <2>2. s \notin S
    BY <1>1, <1>2
  <2>3. QED
    BY <1>1, <2>1, <2>2 DEF Reached
<1>3. QED
  BY <1>1, <1>2

(* The same of the next state.                                             *)
LEMMA UnreachedNext == (rb \in Rulebases)' => Unreached'
BY UnreachedNow, PTL

(* A rule that does not mention the node that is bound stays as it is.     *)
LEMMA OtherRuleStays ==
  ASSUME Live, Live', rb' = rb, NEW g \in GoalsOf(rb), Propagate(g.node, g.atom),
         NEW r \in DOMAIN rb.rules, g.node \notin Uses(r)
  PROVE  RuleStays(r)
<1> SUFFICES ASSUME Watched(r)'
             PROVE  /\ Watched(r)
                    /\ Holds(r) => Holds(r)'
                    /\ \A x : Unmet(x) /\ (x \notin Ends => x.node \in Uses(r)) => Unmet(x)'
  BY DEF RuleStays
<1>1. Adds(g)
  BY PropagateAdds
<1>2. \A n \in Symbols \ {g.node} : Get(n)' = Get(n)
  BY OneGetChanges
<1>3. rb \in Rulebases /\ Uses(r) \subseteq Symbols /\ Uses(r)' = Uses(r)
  BY UsesTyped DEF Live, Uses
<1>4. /\ Uses(r) \cap JustBound' # {}
      /\ \A n \in Uses(r) : n \in JustBound' \/ ~Reached(n)'
  BY <1>3 DEF Watched, Disturbed
<1>5. Unreached'
  BY <1>3, UnreachedNext
<1>6. \A n \in Uses(r) : n \in JustBound \/ ~Reached(n)'
  BY <1>1, <1>4 DEF Adds
<1>7. Watched(r)
  <2>1. Uses(r) \cap JustBound # {}
    BY <1>1, <1>4 DEF Adds
  <2>2. \A n \in Uses(r) : ~Disturbed(n)
    BY <1>1, <1>2, <1>3, <1>6, ReachedStays DEF Disturbed
  <2>3. QED
    BY <2>1, <2>2 DEF Watched
<1>8. \A n \in Symbols : ~Reached(n)' => value[n]' = value[n]
  <2> DEFINE U == {n \in Symbols : ~Reached(n)'}
  <2>1. ASSUME NEW n \in U
        PROVE  Get(n)' = Get(n) /\ (Get(n) = Unbound => Sources(rb, n) \subseteq U)
    <3>1. n \in Symbols /\ ~Reached(n)' /\ n \notin JustBound'
      BY <1>5 DEF Unreached
    <3>2. Get(n)' = Get(n)
      BY <1>1, <1>2, <3>1 DEF Adds
    <3>3. Sources(rb, n)' = Sources(rb, n)
      BY <1>3 DEF Sources
    <3>4. QED
      BY <1>5, <3>1, <3>2, <3>3 DEF Unreached
  <2>2. U \in SUBSET Symbols
    OBVIOUS
  <2> HIDE DEF U
  <2>3. \A n \in U : value[n]' = value[n]
    BY <1>3, <2>1, <2>2, ValuesStay
  <2>4. QED
    BY <2>3 DEF U
<1>9. \A n \in JustBound : value[n]' = value[n]
  <2>1. GivenValues /\ GivenValues'
    BY <1>1, GivenIsValue, GivenNext DEF GivenValues, Live, Adds, SessionInv, CallIsOpen
  <2>2. QED
    BY <1>1, <2>1 DEF GivenValues, Adds
<1>10. \A n \in Uses(r) : value[n]' = value[n]
  BY <1>3, <1>6, <1>8, <1>9
<1>11. RuleValue(r)' = RuleValue(r)
  <2>1. [n \in Uses(r) |-> value[n]]' = [n \in Uses(r) |-> value[n]]
    BY <1>3, <1>10
  <2>2. QED
    BY <1>3, <2>1 DEF RuleValue
<1>12. ASSUME NEW x, Unmet(x), x \notin Ends => x.node \in Uses(r)
       PROVE  Unmet(x)'
  BY <1>10, <1>12 DEF Unmet
<1>13. QED
  BY <1>7, <1>11, <1>12 DEF Holds

(* When nothing is bound the rules stay as they are.                       *)
LEMMA SameRules ==
  ASSUME rb \in Rulebases, UNCHANGED <<log, rb>>
  PROVE  /\ \A r \in DOMAIN rb.rules : RuleStays(r) /\ (Watched(r) <=> Watched(r)') /\ (Holds(r) <=> Holds(r)')
         /\ \A g : Unmet(g) => Unmet(g)'
<1>1. rb' = rb /\ transactions' = transactions /\ guarded' = guarded /\ bindings' = bindings
  BY DEF log
<1>2. \A n : Get(n)' = Get(n)
  BY <1>1 DEF Get, InForce, Superceded
<1>3. \A n \in Symbols : value[n]' = value[n]
  <2>1. \A n \in Symbols : Get(n)' = Get(n) /\ (Get(n) = Unbound => Sources(rb, n) \subseteq Symbols)
    BY <1>2, DepthFacts
  <2> DEFINE U == Symbols
  <2>2. U \in SUBSET Symbols /\ \A n \in U : Get(n)' = Get(n) /\ (Get(n) = Unbound => Sources(rb, n) \subseteq U)
    BY <2>1
  <2> HIDE DEF U
  <2>3. \A n \in U : value[n]' = value[n]
    BY <1>1, <2>2, ValuesStay
  <2>4. QED
    BY <2>3 DEF U
<1>4. value' = value
  <2>1. value = [n \in Symbols |-> value[n]] /\ value' = [n \in Symbols |-> value'[n]]
    BY DEF value
  <2>2. [n \in Symbols |-> value'[n]] = [n \in Symbols |-> value[n]]
    BY <1>3
  <2>3. QED
    BY <2>1, <2>2, Zenon
<1>5. JustBound' = JustBound
  BY <1>1 DEF JustBound
<1>6. \A n : Reached(n)' <=> Reached(n)
  BY <1>1, <1>2, <1>5 DEF Reached, Sources
<1>7. \A n : Disturbed(n)' <=> Disturbed(n)
  BY <1>5, <1>6 DEF Disturbed
<1>8. \A r : Uses(r)' = Uses(r)
  BY <1>1 DEF Uses
<1>9. \A r : Watched(r)' <=> Watched(r)
  BY <1>5, <1>7, <1>8 DEF Watched
<1>10. \A g : Unmet(g)' <=> Unmet(g)
  BY <1>4 DEF Unmet
<1>11. \A r : RuleValue(r)' = RuleValue(r)
  BY <1>1, <1>4, <1>8 DEF RuleValue
<1>12. QED
  BY <1>9, <1>10, <1>11 DEF RuleStays, Holds

LEMMA QuietRulesStay ==
  ASSUME rb \in Rulebases, UNCHANGED <<vars, rb>>
  PROVE  /\ \A r \in DOMAIN rb.rules : RuleStays(r) /\ (Watched(r) <=> Watched(r)') /\ (Holds(r) <=> Holds(r)')
         /\ \A g : Unmet(g) => Unmet(g)'
<1>1. UNCHANGED <<log, rb>>
  BY DEF vars, log
<1>2. QED
  BY <1>1, SameRules

(* A frame that solves the rule, and one that will come back to it, for it *)
(* looks at the rule, solves it, sets a node of it or has failed.          *)
SolvesIn(f, r) == f.kind = "solve" /\ f.rule = r

Awaits(f, r) ==
  \/ PendingIn(f, r) \/ SolvesIn(f, r)
  \/ f.kind = "set" /\ \E g \in ToSet(f.todo) : g.node \in Uses(r)
  \/ ~f.ok

(* Each rule that the call has to do with holds, or is named and the call  *)
(* has failed, or it will be looked at or is being solved.                 *)
Seen ==
  \A r \in DOMAIN rb.rules : Watched(r) =>
    \/ Holds(r)
    \/ r \in broken /\ Failing
    \/ \E i \in 1..Len(stack) : PendingIn(stack[i], r) \/ SolvesIn(stack[i], r)

(* A rule that is being solved holds, or a goal is not met, or something   *)
(* that was called to meet one will come back to the rule.                 *)
GoesOn(i, r) ==
  \/ Holds(r)
  \/ ~stack[i].ok
  \/ \E g \in ToSet(stack[i].todo) : Unmet(g)
  \/ \E j \in i + 1..Len(stack) : Awaits(stack[j], r)

Solving ==
  \A i \in 1..Len(stack) : \A r \in DOMAIN rb.rules : SolvesIn(stack[i], r) /\ Watched(r) => GoesOn(i, r)

Trying == call \in Symbols => Seen /\ Solving

(* After the call.                                                         *)
Checked ==
  call = NoCall /\ HasNew /\ transactions[Len(transactions)].guard # Start =>
    \A r \in DOMAIN rb.rules : Watched(r) => Holds(r) \/ (r \in broken /\ failed)

(* These in the next state.                                                *)
LEMMA SeenNext ==
  ASSUME rb' = rb
  PROVE  Seen' <=>
           \A r \in DOMAIN rb.rules : Watched(r)' =>
             \/ Holds(r)'
             \/ r \in broken' /\ Failing'
             \/ \E i \in 1..Len(stack') : PendingIn(stack'[i], r) \/ SolvesIn(stack'[i], r)
BY DEF Seen, PendingIn, SolvesIn, Uses

LEMMA SolvingNext ==
  ASSUME rb' = rb
  PROVE  Solving' <=>
           \A i \in 1..Len(stack') : \A r \in DOMAIN rb.rules : SolvesIn(stack'[i], r) /\ Watched(r)' =>
             \/ Holds(r)'
             \/ ~stack'[i].ok
             \/ \E g \in ToSet(stack'[i].todo) : Unmet(g)'
             \/ \E j \in i + 1..Len(stack') : Awaits(stack'[j], r)
BY DEF Solving, GoesOn, Awaits, PendingIn, SolvesIn, Uses

(* The frame on top goes on and perhaps calls a function: what these       *)
(* frames were to do for a rule they still are, or it holds.               *)
Moves ==
  /\ call' = call /\ rb' = rb
  /\ Keeps
  /\ Len(stack) \in Nat \ {0} /\ Len(stack') \in Nat /\ Len(stack) <= Len(stack')
  /\ \A i \in 1..Len(stack) - 1 : stack'[i] = stack[i]

TopMoves(r) ==
  /\ RuleStays(r) \/ \E i \in Len(stack)..Len(stack') : PendingIn(stack'[i], r)
  /\ r \in broken => r \in broken' \/ Holds(r)'
  /\ PendingIn(Top, r) \/ SolvesIn(Top, r) =>
       Holds(r)' \/ \E i \in Len(stack)..Len(stack') : PendingIn(stack'[i], r) \/ SolvesIn(stack'[i], r)
  /\ Awaits(Top, r) => Holds(r)' \/ \E i \in Len(stack)..Len(stack') : Awaits(stack'[i], r)
  /\ \A i \in Len(stack)..Len(stack') : SolvesIn(stack'[i], r) /\ Watched(r)' =>
       \/ Holds(r)'
       \/ ~stack'[i].ok
       \/ \E g \in ToSet(stack'[i].todo) : Unmet(g)'
       \/ \E j \in i + 1..Len(stack') : Awaits(stack'[j], r)

LEMMA TryingMoves ==
  ASSUME Live, Moves, Seen, Solving, \A r \in DOMAIN rb.rules : TopMoves(r)
  PROVE  Seen' /\ Solving'
<1>1. stack # <<>> /\ Top = stack[Len(stack)]
  <2>1. stack \in Seq(Frames(rb))
    BY DEF Live, Nested
  <2>2. stack # <<>>
    BY <2>1 DEF Moves
  <2>3. QED
    BY <2>2, TopFrame DEF Live
<1>2. /\ \A i \in 1..Len(stack) : i \in 1..Len(stack) - 1 \/ i = Len(stack)
      /\ \A i \in 1..Len(stack) - 1 : i \in 1..Len(stack) /\ i \in 1..Len(stack')
      /\ \A i \in Len(stack)..Len(stack') : i \in 1..Len(stack')
      /\ \A i \in 1..Len(stack') : i \in 1..Len(stack) - 1 \/ i \in Len(stack)..Len(stack')
      /\ \A i \in 1..Len(stack) - 1 : \A j \in Len(stack)..Len(stack') : j \in i + 1..Len(stack')
  BY DEF Moves
<1>3. \A i \in 1..Len(stack) - 1 : stack'[i] = stack[i]
  BY DEF Moves
<1>4. Failing => Failing'
  BY KeptFrames DEF Moves
<1>5. ASSUME NEW r \in DOMAIN rb.rules, Watched(r)'
      PROVE  \/ Holds(r)'
             \/ r \in broken' /\ Failing'
             \/ \E i \in 1..Len(stack') : PendingIn(stack'[i], r) \/ SolvesIn(stack'[i], r)
  <2>1. TopMoves(r)
    OBVIOUS
  <2>2. CASE ~RuleStays(r)
    BY <1>2, <2>1, <2>2 DEF TopMoves
  <2>3. CASE RuleStays(r)
    <3>1. Watched(r) /\ (Holds(r) => Holds(r)')
      BY <1>5, <2>3 DEF RuleStays
    <3>2. CASE Holds(r)
      BY <3>1, <3>2
    <3>3. CASE r \in broken /\ Failing
      BY <1>4, <2>1, <3>3 DEF TopMoves
    <3>4. ASSUME NEW i \in 1..Len(stack), PendingIn(stack[i], r) \/ SolvesIn(stack[i], r)
          PROVE  Holds(r)' \/ \E k \in 1..Len(stack') : PendingIn(stack'[k], r) \/ SolvesIn(stack'[k], r)
      <4>1. CASE i \in 1..Len(stack) - 1
        BY <1>2, <1>3, <3>4, <4>1
      <4>2. CASE i = Len(stack)
        <5>1. PendingIn(Top, r) \/ SolvesIn(Top, r)
          BY <1>1, <3>4, <4>2
        <5>2. QED
          BY <1>2, <2>1, <5>1 DEF TopMoves
      <4>3. QED
        BY <1>2, <4>1, <4>2
    <3>5. QED
      BY <3>1, <3>2, <3>3, <3>4 DEF Seen
  <2>4. QED
    BY <2>2, <2>3
<1>6. ASSUME NEW i \in 1..Len(stack'), NEW r \in DOMAIN rb.rules, SolvesIn(stack'[i], r), Watched(r)'
      PROVE  \/ Holds(r)'
             \/ ~stack'[i].ok
             \/ \E g \in ToSet(stack'[i].todo) : Unmet(g)'
             \/ \E j \in i + 1..Len(stack') : Awaits(stack'[j], r)
  <2>1. TopMoves(r)
    OBVIOUS
  <2>2. CASE i \in Len(stack)..Len(stack')
    BY <1>6, <2>1, <2>2 DEF TopMoves
  <2>3. CASE i \in 1..Len(stack) - 1 /\ ~RuleStays(r)
    <3>1. PICK j \in Len(stack)..Len(stack') : PendingIn(stack'[j], r)
      BY <2>1, <2>3 DEF TopMoves
    <3>2. j \in i + 1..Len(stack') /\ Awaits(stack'[j], r)
      BY <1>2, <2>3, <3>1 DEF Awaits
    <3>3. QED
      BY <3>2
  <2>4. CASE i \in 1..Len(stack) - 1 /\ RuleStays(r)
    <3>1. Watched(r) /\ (Holds(r) => Holds(r)')
      BY <1>6, <2>4 DEF RuleStays
    <3>2. i \in 1..Len(stack) /\ stack'[i] = stack[i] /\ SolvesIn(stack[i], r)
      BY <1>2, <1>3, <1>6, <2>4
    <3>3. GoesOn(i, r)
      BY <3>1, <3>2 DEF Solving
    <3>4. CASE Holds(r) \/ ~stack[i].ok
      BY <3>1, <3>2, <3>4
    <3>5. ASSUME NEW g \in ToSet(stack[i].todo), Unmet(g)
          PROVE  g \in ToSet(stack'[i].todo) /\ Unmet(g)'
      <4>1. stack[i] \in SolveFrames(rb)
        BY <1>1, <3>2, TopFrame, FrameKinds DEF Live, SolvesIn
      <4>2. g \notin Ends => g.node \in Uses(r)
        BY <3>2, <4>1, SolveFields DEF SolvesIn, Uses
      <4>3. QED
        BY <1>6, <2>4, <3>2, <3>5, <4>2 DEF RuleStays
    <3>6. ASSUME NEW j \in i + 1..Len(stack), Awaits(stack[j], r)
          PROVE  Holds(r)' \/ \E k \in i + 1..Len(stack') : Awaits(stack'[k], r)
      <4>1. j \in 1..Len(stack) /\ j \in Nat
        BY <2>4 DEF Moves
      <4>2. CASE j \in 1..Len(stack) - 1
        <5>1. j \in i + 1..Len(stack')
          BY <1>2, <4>2 DEF Moves
        <5>2. QED
          BY <1>3, <3>6, <4>2, <5>1
      <4>3. CASE j = Len(stack)
        <5>1. Awaits(Top, r)
          BY <1>1, <3>6, <4>3
        <5>2. QED
          BY <1>2, <2>1, <2>4, <5>1 DEF TopMoves
      <4>4. QED
        BY <1>2, <4>1, <4>2, <4>3
    <3>7. QED
      BY <3>3, <3>4, <3>5, <3>6 DEF GoesOn
  <2>5. QED
    BY <1>2, <2>2, <2>3, <2>4
<1>7. QED
  BY <1>5, <1>6, SeenNext, SolvingNext DEF Moves

LEMMA GoesMoves ==
  ASSUME Live, stack # <<>>, NEW t, Goes(t), t.ok => Top.ok
  PROVE  /\ Moves
         /\ \A i \in Len(stack)..Len(stack') : i = Len(stack) /\ stack'[i] = t
         /\ Len(stack) \in Len(stack)..Len(stack') /\ stack'[Len(stack)] = t
<1>1. Len(stack) \in Nat \ {0}
  BY TopFrame DEF Live
<1>2. Replaces(stack, stack', t) /\ SameFrame(t, Top) /\ rb' = rb /\ call' = call
  BY DEF Goes, vars
<1>3. Keeps
  BY <1>2, ReplacedKeeps DEF Live
<1>4. Len(stack') = Len(stack) /\ stack'[Len(stack)] = t /\ \A i \in 1..Len(stack) - 1 : stack'[i] = stack[i]
  BY <1>2 DEF Replaces
<1>5. QED
  BY <1>1, <1>2, <1>3, <1>4 DEF Moves

LEMMA CallsMoves ==
  ASSUME Live, stack # <<>>, NEW t, NEW h, Calls(t, h), call' = call, t.ok => Top.ok
  PROVE  /\ Moves
         /\ \A i \in Len(stack)..Len(stack') : \/ i = Len(stack) /\ stack'[i] = t
                                               \/ i = Len(stack) + 1 /\ stack'[i] = h
         /\ Len(stack) \in Len(stack)..Len(stack') /\ stack'[Len(stack)] = t
         /\ Len(stack) + 1 \in Len(stack)..Len(stack') /\ stack'[Len(stack) + 1] = h
         /\ Len(stack) + 1 \in Len(stack) + 1..Len(stack')
<1>1. Len(stack) \in Nat \ {0}
  BY TopFrame DEF Live
<1>2. Pushes(stack, stack', t, h) /\ SameFrame(t, Top) /\ rb' = rb
  BY DEF Calls
<1>3. Keeps
  BY <1>2, PushedKeeps DEF Live
<1>4. /\ Len(stack') = Len(stack) + 1 /\ stack'[Len(stack)] = t /\ stack'[Len(stack) + 1] = h
      /\ \A i \in 1..Len(stack) - 1 : stack'[i] = stack[i]
  BY <1>2 DEF Pushes
<1>5. QED
  BY <1>1, <1>2, <1>3, <1>4 DEF Moves

(* The rule that is being solved by the frame on top.                      *)
LEMMA TopGoesOn ==
  ASSUME Live, Solving, stack # <<>>, NEW r \in DOMAIN rb.rules, SolvesIn(Top, r), Watched(r)
  PROVE  Holds(r) \/ ~Top.ok \/ \E g \in ToSet(Top.todo) : Unmet(g)
<1>1. Len(stack) \in Nat \ {0} /\ Top = stack[Len(stack)] /\ Len(stack) \in 1..Len(stack)
  BY TopFrame DEF Live
<1>2. GoesOn(Len(stack), r)
  BY <1>1 DEF Solving
<1>3. \A j \in Len(stack) + 1..Len(stack) : FALSE
  BY <1>1
<1>4. QED
  BY <1>1, <1>2, <1>3 DEF GoesOn

LEMMA TryingGoes ==
  ASSUME Live, stack # <<>>, Seen, Solving, NEW t, Goes(t), t.ok => Top.ok,
         \A r \in DOMAIN rb.rules :
           /\ r \in broken => r \in broken' \/ Holds(r)
           /\ PendingIn(Top, r) => Holds(r) \/ PendingIn(t, r)
           /\ SolvesIn(Top, r) <=> SolvesIn(t, r)
           /\ Awaits(Top, r) => Holds(r) \/ Awaits(t, r)
           /\ SolvesIn(t, r) => ~t.ok \/ \A g \in ToSet(Top.todo) : Unmet(g) => g \in ToSet(t.todo)
  PROVE  Seen' /\ Solving'
<1>1. /\ Moves
      /\ \A i \in Len(stack)..Len(stack') : i = Len(stack) /\ stack'[i] = t
      /\ Len(stack) \in Len(stack)..Len(stack') /\ stack'[Len(stack)] = t
  BY GoesMoves
<1>2. /\ \A r \in DOMAIN rb.rules : RuleStays(r) /\ (Watched(r) <=> Watched(r)') /\ (Holds(r) <=> Holds(r)')
      /\ \A g : Unmet(g) => Unmet(g)'
  BY QuietRulesStay DEF Live, Goes
<1>3. ASSUME NEW r \in DOMAIN rb.rules
      PROVE  TopMoves(r)
  <2>1. PendingIn(Top, r) \/ SolvesIn(Top, r) => Holds(r)' \/ \E i \in Len(stack)..Len(stack') : PendingIn(stack'[i], r) \/ SolvesIn(stack'[i], r)
    BY <1>1, <1>2
  <2>2. Awaits(Top, r) => Holds(r)' \/ \E i \in Len(stack)..Len(stack') : Awaits(stack'[i], r)
    BY <1>1, <1>2
  <2>3. ASSUME NEW i \in Len(stack)..Len(stack'), SolvesIn(stack'[i], r), Watched(r)'
        PROVE  Holds(r)' \/ ~stack'[i].ok \/ \E g \in ToSet(stack'[i].todo) : Unmet(g)'
    <3>1. stack'[i] = t /\ SolvesIn(t, r) /\ SolvesIn(Top, r) /\ Watched(r)
      BY <1>1, <1>2, <2>3
    <3>2. Holds(r) \/ ~Top.ok \/ \E g \in ToSet(Top.todo) : Unmet(g)
      BY <3>1, TopGoesOn
    <3>3. QED
      BY <1>2, <3>1, <3>2
  <2>4. QED
    BY <1>2, <2>1, <2>2, <2>3 DEF TopMoves
<1>4. QED
  BY <1>1, <1>3, TryingMoves

LEMMA TryingCalls ==
  ASSUME Live, stack # <<>>, Seen, Solving, NEW t, NEW h, Calls(t, h), UNCHANGED vars, t.ok => Top.ok,
         \A r \in DOMAIN rb.rules :
           /\ PendingIn(Top, r) \/ SolvesIn(Top, r) => PendingIn(t, r) \/ SolvesIn(t, r) \/ SolvesIn(h, r)
           /\ Awaits(Top, r) => Awaits(t, r) \/ Awaits(h, r)
           /\ SolvesIn(t, r) => SolvesIn(Top, r)
           /\ SolvesIn(t, r) => \A g \in ToSet(Top.todo) : g \in ToSet(t.todo) \/ Awaits(h, r)
           /\ SolvesIn(h, r) => \E g \in ToSet(h.todo) : Unmet(g)
  PROVE  Seen' /\ Solving'
<1>1. /\ Moves
      /\ \A i \in Len(stack)..Len(stack') : \/ i = Len(stack) /\ stack'[i] = t
                                            \/ i = Len(stack) + 1 /\ stack'[i] = h
      /\ Len(stack) \in Len(stack)..Len(stack') /\ stack'[Len(stack)] = t
      /\ Len(stack) + 1 \in Len(stack)..Len(stack') /\ stack'[Len(stack) + 1] = h
      /\ Len(stack) + 1 \in Len(stack) + 1..Len(stack')
  BY CallsMoves DEF vars
<1>2. /\ \A r \in DOMAIN rb.rules : RuleStays(r) /\ (Watched(r) <=> Watched(r)') /\ (Holds(r) <=> Holds(r)')
      /\ \A g : Unmet(g) => Unmet(g)'
  BY QuietRulesStay DEF Live, Calls
<1>3. ASSUME NEW r \in DOMAIN rb.rules
      PROVE  TopMoves(r)
  <2>1. PendingIn(Top, r) \/ SolvesIn(Top, r) => \E i \in Len(stack)..Len(stack') : PendingIn(stack'[i], r) \/ SolvesIn(stack'[i], r)
    BY <1>1
  <2>2. Awaits(Top, r) => \E i \in Len(stack)..Len(stack') : Awaits(stack'[i], r)
    BY <1>1
  <2>3. ASSUME NEW i \in Len(stack)..Len(stack'), SolvesIn(stack'[i], r), Watched(r)'
        PROVE  \/ Holds(r)'
               \/ ~stack'[i].ok
               \/ \E g \in ToSet(stack'[i].todo) : Unmet(g)'
               \/ \E j \in i + 1..Len(stack') : Awaits(stack'[j], r)
    <3>1. CASE i = Len(stack)
      <4>1. stack'[i] = t /\ SolvesIn(t, r) /\ SolvesIn(Top, r) /\ Watched(r)
        BY <1>1, <1>2, <2>3, <3>1
      <4>2. Holds(r) \/ ~Top.ok \/ \E g \in ToSet(Top.todo) : Unmet(g)
        BY <4>1, TopGoesOn
      <4>3. ASSUME NEW g \in ToSet(Top.todo), Unmet(g)
            PROVE  (g \in ToSet(t.todo) /\ Unmet(g)') \/ Awaits(h, r)
        BY <1>2, <4>1, <4>3
      <4>4. QED
        BY <1>1, <1>2, <3>1, <4>1, <4>2, <4>3
    <3>2. CASE i = Len(stack) + 1
      <4>1. stack'[i] = h /\ SolvesIn(h, r)
        BY <1>1, <2>3, <3>2
      <4>2. QED
        BY <1>2, <4>1
    <3>3. QED
      BY <1>1, <3>1, <3>2
  <2>4. broken' = broken
    BY DEF Calls
  <2>5. QED
    BY <1>2, <2>1, <2>2, <2>3, <2>4 DEF TopMoves
<1>4. QED
  BY <1>1, <1>3, TryingMoves

LEMMA TryingBound ==
  ASSUME Live, Live', Seen, Solving, Bound
  PROVE  Seen' /\ Solving'
<1>1. PICK t \in SetFrames(rb), h \in RulesFrames(rb), g \in GoalsOf(rb) :
        /\ Calls(t, h) /\ Top \in SetFrames(rb)
        /\ t.ok = Top.ok /\ h.ok = TRUE
        /\ ToSet(Top.todo) = {g} \cup ToSet(t.todo)
        /\ Propagate(g.node, g.atom)
        /\ \A r \in DOMAIN rb.rules : g.node \in Uses(r) => PendingIn(h, r)
  BY BoundStep
<1>2. stack # <<>>
  BY DEF Bound, At
<1>3. call' = call /\ broken' = broken /\ rb' = rb
  BY <1>1 DEF Propagate, Calls
<1>4. /\ Moves
      /\ \A i \in Len(stack)..Len(stack') : \/ i = Len(stack) /\ stack'[i] = t
                                            \/ i = Len(stack) + 1 /\ stack'[i] = h
      /\ Len(stack) \in Len(stack)..Len(stack') /\ stack'[Len(stack)] = t
      /\ Len(stack) + 1 \in Len(stack)..Len(stack') /\ stack'[Len(stack) + 1] = h
  BY <1>1, <1>2, <1>3, CallsMoves
<1>5. h.kind = "rules" /\ t.kind = "set" /\ Top.kind = "set"
  BY <1>1, RulesFields, SetFields
<1>6. ASSUME NEW r \in DOMAIN rb.rules
      PROVE  TopMoves(r)
  <2>1. RuleStays(r) \/ \E i \in Len(stack)..Len(stack') : PendingIn(stack'[i], r)
    BY <1>1, <1>3, <1>4, OtherRuleStays
  <2>2. ~(PendingIn(Top, r) \/ SolvesIn(Top, r))
    BY <1>5 DEF PendingIn, SolvesIn
  <2>3. ASSUME Awaits(Top, r)
        PROVE  \E i \in Len(stack)..Len(stack') : Awaits(stack'[i], r)
    <3>1. CASE ~Top.ok
      <4>1. Awaits(t, r)
        BY <1>1, <3>1 DEF Awaits
      <4>2. QED
        BY <1>4, <4>1
    <3>2. ASSUME NEW x \in ToSet(Top.todo), x.node \in Uses(r)
          PROVE  Awaits(t, r) \/ Awaits(h, r)
      BY <1>1, <1>5, <3>2 DEF Awaits
    <3>3. QED
      BY <1>4, <2>2, <2>3, <3>1, <3>2 DEF Awaits
  <2>4. \A i \in Len(stack)..Len(stack') : ~SolvesIn(stack'[i], r)
    BY <1>4, <1>5 DEF SolvesIn
  <2>5. QED
    BY <1>3, <2>1, <2>2, <2>3, <2>4 DEF TopMoves
<1>7. QED
  BY <1>4, <1>6, TryingMoves

(* A function returns.                                                     *)
LEMMA TryingTells ==
  ASSUME Live, stack # <<>>, Seen, Solving, NEW t, Tells(t), Done,
         broken' = IF Top.kind = "solve" THEN BrokenAfter(Top.rule, Top.ok) ELSE broken
  PROVE  Seen' /\ Solving'
<1>1. /\ \A r \in DOMAIN rb.rules : RuleStays(r) /\ (Watched(r) <=> Watched(r)') /\ (Holds(r) <=> Holds(r)')
      /\ \A g : Unmet(g) => Unmet(g)'
      /\ rb' = rb
  BY QuietRulesStay DEF Live, Tells
<1>2. Len(stack) \in Nat \ {0} /\ Len(stack) > 1 /\ Top = stack[Len(stack)] /\ Top \in Frames(rb)
  BY TopFrame DEF Live, Tells
<1>3. TellsFrames(t)
  BY <1>2, FramesTold
<1>4. ASSUME NEW r \in DOMAIN rb.rules, SolvesIn(Top, r), Watched(r)
      PROVE  Holds(r) \/ ~Top.ok
  <2>1. Holds(r) \/ ~Top.ok \/ \E g \in ToSet(Top.todo) : Unmet(g)
    BY <1>4, TopGoesOn
  <2>2. Top.ok => Top.todo = <<>>
    BY <1>4 DEF Done, SolvesIn
  <2>3. QED
    BY <2>1, <2>2 DEF ToSet
<1>5. \A r \in DOMAIN rb.rules : ~PendingIn(Top, r)
  BY DEF PendingIn, Done, ToSet
<1>6. ASSUME NEW r \in DOMAIN rb.rules, Watched(r), r \in broken
      PROVE  Holds(r) \/ r \in broken'
  BY <1>4, <1>6 DEF BrokenAfter, SolvesIn
<1>7. ASSUME NEW r \in DOMAIN rb.rules, Watched(r)'
      PROVE  \/ Holds(r)'
             \/ r \in broken' /\ Failing'
             \/ \E i \in 1..Len(stack') : PendingIn(stack'[i], r) \/ SolvesIn(stack'[i], r)
  <2>1. Watched(r) /\ (Holds(r) => Holds(r)')
    BY <1>1, <1>7
  <2>2. CASE Holds(r)
    BY <2>1, <2>2
  <2>3. CASE r \in broken /\ Failing
    BY <1>3, <1>6, <2>1, <2>3 DEF TellsFrames
  <2>4. ASSUME NEW i \in 1..Len(stack), PendingIn(stack[i], r) \/ SolvesIn(stack[i], r)
        PROVE  \/ Holds(r)
               \/ r \in broken' /\ Failing'
               \/ \E k \in 1..Len(stack') : PendingIn(stack'[k], r) \/ SolvesIn(stack'[k], r)
    <3>1. CASE i \in 1..Len(stack')
      <4>1. SameBut(stack'[i], stack[i])
        BY <1>3, <3>1 DEF TellsFrames
      <4>2. PendingIn(stack'[i], r) \/ SolvesIn(stack'[i], r)
        BY <2>4, <4>1 DEF SameBut, PendingIn, SolvesIn
      <4>3. QED
        BY <3>1, <4>2
    <3>2. CASE i = Len(stack)
      <4>1. SolvesIn(Top, r)
        BY <1>2, <1>5, <2>4, <3>2
      <4>2. CASE Top.ok
        BY <1>4, <2>1, <4>1, <4>2
      <4>3. CASE ~Top.ok
        BY <1>3, <4>1, <4>3 DEF TellsFrames, BrokenAfter, SolvesIn
      <4>4. QED
        BY <4>2, <4>3
    <3>3. QED
      BY <1>3, <3>1, <3>2 DEF TellsFrames
  <2>5. QED
    BY <2>1, <2>2, <2>3, <2>4 DEF Seen
<1>8. ASSUME NEW i \in 1..Len(stack'), NEW r \in DOMAIN rb.rules, SolvesIn(stack'[i], r), Watched(r)'
      PROVE  \/ Holds(r)'
             \/ ~stack'[i].ok
             \/ \E g \in ToSet(stack'[i].todo) : Unmet(g)'
             \/ \E j \in i + 1..Len(stack') : Awaits(stack'[j], r)
  <2>1. Watched(r) /\ (Holds(r) => Holds(r)')
    BY <1>1, <1>8
  <2>2. i \in 1..Len(stack) /\ SameBut(stack'[i], stack[i]) /\ (stack'[i].ok => stack[i].ok)
    BY <1>3 DEF TellsFrames
  <2>3. GoesOn(i, r)
    BY <1>8, <2>1, <2>2 DEF Solving, SolvesIn, SameBut
  <2>4. ASSUME NEW g \in ToSet(stack[i].todo), Unmet(g)
        PROVE  g \in ToSet(stack'[i].todo) /\ Unmet(g)'
    BY <1>1, <2>2, <2>4 DEF SameBut
  <2>5. ASSUME NEW j \in i + 1..Len(stack), Awaits(stack[j], r)
        PROVE  Holds(r) \/ ~stack'[i].ok \/ \E k \in i + 1..Len(stack') : Awaits(stack'[k], r)
    <3>1. CASE j \in 1..Len(stack')
      <4>1. SameBut(stack'[j], stack[j]) /\ (stack'[j].ok => stack[j].ok)
        BY <1>3, <3>1 DEF TellsFrames
      <4>2. Awaits(stack'[j], r)
        BY <2>5, <4>1 DEF SameBut, Awaits, PendingIn, SolvesIn
      <4>3. j \in i + 1..Len(stack')
        BY <1>3, <3>1 DEF TellsFrames
      <4>4. QED
        BY <4>2, <4>3
    <3>2. CASE j = Len(stack)
      <4>1. CASE Top.ok
        <5>1. SolvesIn(Top, r)
          BY <1>2, <1>5, <2>5, <3>2, <4>1 DEF Awaits, Done, ToSet
        <5>2. QED
          BY <1>4, <2>1, <4>1, <5>1
      <4>2. CASE ~Top.ok
        <5>1. ~t.ok /\ stack'[Len(stack) - 1] = t /\ Awaits(t, r)
          BY <1>3, <4>2 DEF TellsFrames, Awaits
        <5>2. i = Len(stack) - 1 \/ Len(stack) - 1 \in i + 1..Len(stack')
          BY <1>2, <1>3 DEF TellsFrames
        <5>3. QED
          BY <5>1, <5>2
      <4>3. QED
        BY <4>1, <4>2
    <3>3. j \in 1..Len(stack') \/ j = Len(stack)
      BY <1>2, <1>3 DEF TellsFrames
    <3>4. QED
      BY <3>1, <3>2, <3>3
  <2>6. QED
    BY <2>1, <2>2, <2>3, <2>4, <2>5 DEF GoesOn
<1>9. QED
  BY <1>1, <1>7, <1>8, SeenNext, SolvingNext

(* A call of the user begins: the rules of the first node will be looked   *)
(* at.                                                                     *)
LEMMA TryingBegins ==
  ASSUME Live, NEW s \in rb.nodes, NEW a \in Offered(s), UserSet(s, a)
  PROVE  Seen' /\ Solving'
<1>1. s \in Guards /\ Settled
  BY UserSetStep DEF Guards
<1>2. PICK t, h, g : Begins(s, a, t, h, g) /\ Bind(g.node, g.atom, s)
  BY UserSetStep
<1>3. Opens(g)
  BY <1>1, <1>2, SetOpens DEF Begins
<1>4. /\ Len(stack') = 2 /\ stack'[1] = t /\ stack'[2] = h /\ rb' = rb
      /\ \A r \in DOMAIN rb.rules : g.node \in Uses(r) => PendingIn(h, r)
  BY <1>2 DEF Begins
<1>5. t.kind = "set" /\ h.kind = "rules"
  BY <1>2, SetFields, RulesFields DEF Begins
<1>6. \A i \in 1..Len(stack') : i = 1 \/ i = 2
  BY <1>4
<1>7. ASSUME NEW r \in DOMAIN rb.rules, Watched(r)'
      PROVE  \E i \in 1..Len(stack') : PendingIn(stack'[i], r) \/ SolvesIn(stack'[i], r)
  <2>1. Uses(r) \cap JustBound' # {}
    BY <1>4, <1>7 DEF Watched, Uses
  <2>2. PendingIn(stack'[2], r) /\ 2 \in 1..Len(stack')
    BY <1>3, <1>4, <2>1 DEF Opens
  <2>3. QED
    BY <2>2
<1>8. \A i \in 1..Len(stack') : \A r : ~SolvesIn(stack'[i], r)
  BY <1>4, <1>5, <1>6 DEF SolvesIn
<1>9. QED
  BY <1>4, <1>7, <1>8, SeenNext, SolvingNext

(* Each step inside a call.                                                *)
LEMMA TryingInside ==
  ASSUME Live, Live', Seen, Solving,
         Bound \/ Refused \/ NextNode \/ RuleHolds \/ RuleBroken \/ GoalMet \/ GoalSet \/ Unsolved
           \/ (Returned /\ Len(stack) # 1)
  PROVE  Seen' /\ Solving'
<1>1. CASE Bound
  BY <1>1, TryingBound
<1>2. CASE Refused
  <2>1. stack # <<>>
    BY <1>2 DEF Refused, At
  <2>2. PICK t \in SetFrames(rb) : Goes(t) /\ Top \in SetFrames(rb) /\ broken' = broken /\ t.ok = FALSE
    BY <1>2, RefusedStep
  <2>3. t.kind = "set" /\ Top.kind = "set"
    BY <2>2, SetFields
  <2>4. \A r \in DOMAIN rb.rules :
          /\ ~PendingIn(Top, r) /\ ~SolvesIn(Top, r) /\ ~SolvesIn(t, r)
          /\ Awaits(t, r)
    BY <2>2, <2>3 DEF PendingIn, SolvesIn, Awaits
  <2>5. QED
    BY <2>1, <2>2, <2>4, TryingGoes
<1>3. CASE NextNode
  <2>1. stack # <<>>
    BY <1>3 DEF NextNode
  <2>2. PICK t \in RulesFrames(rb) :
          /\ Goes(t) /\ Top \in RulesFrames(rb) /\ broken' = broken /\ t.ok = Top.ok
          /\ \A r \in DOMAIN rb.rules : PendingIn(Top, r) => PendingIn(t, r)
    BY <1>3, NextNodeStep
  <2>3. t.kind = "rules" /\ Top.kind = "rules"
    BY <2>2, RulesFields
  <2>4. \A r \in DOMAIN rb.rules :
          /\ ~SolvesIn(Top, r) /\ ~SolvesIn(t, r)
          /\ Awaits(Top, r) => Awaits(t, r)
    BY <2>2, <2>3 DEF SolvesIn, Awaits
  <2>5. QED
    BY <2>1, <2>2, <2>4, TryingGoes
<1>4. CASE RuleHolds
  <2>1. stack # <<>>
    BY <1>4 DEF RuleHolds, Looked, At
  <2>2. PICK t, q : Goes(t) /\ LookedAt(t, q) /\ RuleValue(q) = Bool(TRUE) /\ broken' = broken \ {q}
    BY <1>4, RuleHoldsStep
  <2>3. t.kind = "rules" /\ Top.kind = "rules" /\ t.ok = Top.ok
    BY <2>2, RulesFields DEF LookedAt
  <2>4. Holds(q)
    BY <2>2, BoolFields DEF Holds
  <2>5. \A r \in DOMAIN rb.rules : PendingIn(Top, r) => Holds(r) \/ PendingIn(t, r)
    BY <2>2, <2>4 DEF LookedAt
  <2>6. \A r \in DOMAIN rb.rules :
          /\ r \in broken => r \in broken' \/ Holds(r)
          /\ ~SolvesIn(Top, r) /\ ~SolvesIn(t, r)
          /\ Awaits(Top, r) => Holds(r) \/ Awaits(t, r)
    BY <2>2, <2>3, <2>4, <2>5 DEF SolvesIn, Awaits
  <2>7. QED
    BY <2>1, <2>2, <2>3, <2>5, <2>6, TryingGoes
<1>5. CASE RuleBroken
  <2>1. stack # <<>>
    BY <1>5 DEF RuleBroken, Looked, At
  <2>2. PICK t, q : \E h \in SolveFrames(rb) :
          /\ Calls(t, h) /\ LookedAt(t, q) /\ UNCHANGED vars /\ h.rule = q /\ SolutionOf(q, h.todo)
    BY <1>5, RuleBrokenStep
  <2>3. PICK h \in SolveFrames(rb) :
          /\ Calls(t, h) /\ LookedAt(t, q) /\ UNCHANGED vars /\ h.rule = q /\ SolutionOf(q, h.todo)
    BY <2>2
  <2>4. t.kind = "rules" /\ Top.kind = "rules" /\ t.ok = Top.ok /\ h.kind = "solve"
    BY <2>3, RulesFields, SolveFields DEF LookedAt
  <2>5. \A r \in DOMAIN rb.rules : PendingIn(Top, r) => PendingIn(t, r) \/ SolvesIn(h, r)
    BY <2>3, <2>4 DEF LookedAt, SolvesIn
  <2>6. \A r \in DOMAIN rb.rules :
          /\ ~SolvesIn(Top, r) /\ ~SolvesIn(t, r)
          /\ Awaits(Top, r) => Awaits(t, r) \/ Awaits(h, r)
    BY <2>4, <2>5 DEF SolvesIn, Awaits
  <2>7. \E g \in ToSet(h.todo) : Unmet(g)
    BY <2>3 DEF SolutionOf
  <2>8. QED
    BY <2>1, <2>3, <2>4, <2>5, <2>6, <2>7, TryingCalls
<1>6. CASE GoalMet
  <2>1. stack # <<>>
    BY <1>6 DEF GoalMet, At
  <2>2. PICK t \in SolveFrames(rb) : \E g :
          /\ Goes(t) /\ Top \in SolveFrames(rb) /\ broken' = broken
          /\ t.rule = Top.rule /\ t.ok = Top.ok
          /\ ToSet(Top.todo) = {g} \cup ToSet(t.todo)
          /\ ~Unmet(g)
    BY <1>6, GoalMetStep
  <2>3. t.kind = "solve" /\ Top.kind = "solve"
    BY <2>2, SolveFields
  <2>4. \A r \in DOMAIN rb.rules :
          /\ ~PendingIn(Top, r)
          /\ SolvesIn(Top, r) <=> SolvesIn(t, r)
          /\ Awaits(Top, r) => Awaits(t, r)
    BY <2>2, <2>3 DEF PendingIn, SolvesIn, Awaits
  <2>5. \A g \in ToSet(Top.todo) : Unmet(g) => g \in ToSet(t.todo)
    BY <2>2
  <2>6. QED
    BY <2>1, <2>2, <2>4, <2>5, TryingGoes
<1>7. CASE GoalSet
  <2>1. stack # <<>>
    BY <1>7 DEF GoalSet, At
  <2>2. PICK t \in SolveFrames(rb), h \in SetFrames(rb), g \in GoalsOf(rb) :
          /\ Calls(t, h) /\ Top \in SolveFrames(rb) /\ UNCHANGED vars
          /\ t.rule = Top.rule /\ t.ok = Top.ok
          /\ ToSet(Top.todo) = {g} \cup ToSet(t.todo)
          /\ g.node \in Uses(t.rule)
          /\ h.ok = TRUE /\ h.node = g.node /\ h.atom = g.atom
          /\ h.todo = Sets(g.node, g.atom)
    BY <1>7, GoalSetStep
  <2>3. t.kind = "solve" /\ Top.kind = "solve" /\ h.kind = "set"
    BY <2>2, SolveFields, SetFields
  <2>4. \E x \in ToSet(h.todo) : x.node = g.node
    <3>1. g.node \in Symbols /\ g.atom \in rb.atoms[g.node]
      BY DEF GoalsOf
    <3>2. QED
      BY <2>2, <3>1, SetsTyped DEF Live
  <2>5. Awaits(h, t.rule)
    BY <2>2, <2>3, <2>4 DEF Awaits
  <2>6. \A r \in DOMAIN rb.rules :
          /\ ~PendingIn(Top, r)
          /\ SolvesIn(Top, r) <=> SolvesIn(t, r)
          /\ ~SolvesIn(h, r)
          /\ Awaits(Top, r) => Awaits(t, r)
          /\ SolvesIn(t, r) => Awaits(h, r)
    BY <2>2, <2>3, <2>5 DEF PendingIn, SolvesIn, Awaits
  <2>7. QED
    BY <2>1, <2>2, <2>6, TryingCalls
<1>8. CASE Unsolved
  <2>1. stack # <<>>
    BY <1>8 DEF Unsolved, At
  <2>2. PICK t \in SolveFrames(rb) :
          Goes(t) /\ Top \in SolveFrames(rb) /\ broken' = broken /\ t.rule = Top.rule /\ t.ok = FALSE
    BY <1>8, UnsolvedStep
  <2>3. t.kind = "solve" /\ Top.kind = "solve"
    BY <2>2, SolveFields
  <2>4. \A r \in DOMAIN rb.rules :
          /\ ~PendingIn(Top, r)
          /\ SolvesIn(Top, r) <=> SolvesIn(t, r)
          /\ Awaits(t, r)
    BY <2>2, <2>3 DEF PendingIn, SolvesIn, Awaits
  <2>5. QED
    BY <2>1, <2>2, <2>4, TryingGoes
<1>9. CASE Returned /\ Len(stack) # 1
  <2>1. stack # <<>>
    BY <1>9 DEF Returned
  <2>2. PICK t : /\ Tells(t) /\ Done
                 /\ broken' = IF Top.kind = "solve" THEN BrokenAfter(Top.rule, Top.ok) ELSE broken
    BY <1>9, ReturnedDeep
  <2>3. QED
    BY <2>1, <2>2, TryingTells
<1>10. QED
  BY <1>1, <1>2, <1>3, <1>4, <1>5, <1>6, <1>7, <1>8, <1>9

(* The user's call returns: no frame is left to look at a rule.            *)
LEMMA TryingReturns ==
  ASSUME Live, Seen, Returned, Len(stack) = 1, call # Start
  PROVE  Checked'
<1>1. /\ Top = stack[1] /\ Top \in SetFrames(rb) /\ Done
      /\ UNCHANGED <<rb, broken>> /\ Return(Top.ok)
  BY ReturnedLast
<1>2. UNCHANGED log /\ transactions' = transactions /\ failed' = (failed \/ ~Top.ok)
  BY <1>1 DEF Return, log
<1>3. \A r \in DOMAIN rb.rules : (Watched(r) <=> Watched(r)') /\ (Holds(r) <=> Holds(r)')
  BY <1>1, <1>2, SameRules DEF Live
<1>4. Top.kind = "set"
  BY <1>1, SetFields
<1>5. \A i \in 1..Len(stack) : stack[i] = Top
  <2>1. \A i \in 1..Len(stack) : i = 1
    OBVIOUS
  <2>2. QED
    BY <1>1, <2>1
<1>6. Failing => failed'
  <2>1. Top.ok \in BOOLEAN /\ failed \in BOOLEAN
    BY <1>1, SetFields DEF Live, IInv, TypeOK
  <2>2. Failing => ~Top.ok
    BY <1>5 DEF Failing
  <2>3. QED
    BY <1>2, <2>1, <2>2
<1>7. \A r \in DOMAIN rb.rules : Watched(r)' => Holds(r)' \/ (r \in broken' /\ failed')
  BY <1>1, <1>3, <1>4, <1>5, <1>6 DEF Seen, PendingIn, SolvesIn
<1>8. QED
  BY <1>1, <1>7 DEF Checked

LEMMA TryingStays ==
  ASSUME Live, Trying, Checked, RNext, ~RuleAsserts
  PROVE  Trying' /\ Checked'
<1>1. Live' /\ rb' = rb
  BY LiveStays, SessionGoesOn
<1>2. NoCall \notin Guards /\ Start \notin Symbols /\ NoCall \notin Symbols /\ NoCall # Start
  BY GuardsAssumption DEF Guards
<1>3. ASSUME call' = Start
      PROVE  Trying' /\ Checked'
  BY <1>2, <1>3 DEF Trying, Checked
<1>4. ASSUME call' = NoCall, Checked'
      PROVE  Trying' /\ Checked'
  BY <1>2, <1>4 DEF Trying
<1>5. ASSUME NEW s \in rb.nodes, NEW a \in Offered(s), UserSet(s, a)
      PROVE  Trying' /\ Checked'
  <2>1. Seen' /\ Solving'
    BY <1>5, TryingBegins
  <2>2. call' # NoCall
    BY <1>2, <1>5, UserSetStep
  <2>3. QED
    BY <2>1, <2>2 DEF Trying, Checked
<1>6. ASSUME NEW s \in rb.nodes, NEW a \in Offered(s), LoadLine(s, a)
      PROVE  Trying' /\ Checked'
  BY <1>3, <1>6, LoadLineStep
<1>7. ASSUME Bound \/ Refused \/ NextNode \/ RuleHolds \/ RuleBroken \/ GoalMet \/ GoalSet \/ Unsolved
               \/ (Returned /\ Len(stack) # 1)
      PROVE  Trying' /\ Checked'
  <2>1. call # NoCall
    BY <1>7 DEF Live, CallHasFrames, Bound, Refused, NextNode, RuleHolds, RuleBroken, GoalMet, GoalSet, Unsolved,
                Returned, At, Looked
  <2>2. call' = call
    <3>1. CASE Bound
      BY <3>1 DEF Bound, Propagate
    <3>2. CASE Refused \/ NextNode \/ RuleHolds \/ RuleBroken \/ GoalMet \/ GoalSet \/ Unsolved
      BY <3>2 DEF Refused, NextNode, RuleHolds, RuleBroken, GoalMet, GoalSet, Unsolved, vars
    <3>3. CASE Returned /\ Len(stack) # 1
      BY <3>3 DEF Returned, vars
    <3>4. QED
      BY <1>7, <3>1, <3>2, <3>3
  <2>3. call \in Symbols => Seen' /\ Solving'
    BY <1>1, <1>7, TryingInside DEF Trying
  <2>4. QED
    BY <2>1, <2>2, <2>3 DEF Trying, Checked
<1>8. CASE Returned /\ Len(stack) = 1
  <2>1. CASE call = Start
    <3>1. UNCHANGED vars
      BY <1>8, <2>1, ReturnedLast
    <3>2. QED
      BY <1>3, <2>1, <3>1 DEF vars
  <2>2. CASE call # Start
    <3>1. Return(Top.ok)
      BY <1>8, <2>2, ReturnedLast
    <3>2. call \in Symbols /\ call' = NoCall
      BY <2>2, <3>1 DEF Return, Live, IInv, TypeOK, Guards
    <3>3. Checked'
      BY <1>8, <2>2, <3>2, TryingReturns DEF Trying
    <3>4. QED
      BY <1>4, <3>2, <3>3
  <2>3. QED
    BY <2>1, <2>2
<1>9. CASE LoadEnds
  <2>1. call' = NoCall /\ transactions' = transactions /\ transactions[Len(transactions)].guard = Start
    BY <1>2, <1>9 DEF LoadEnds, Return, log, Live, SessionInv, CallIsOpen
  <2>2. Checked'
    BY <2>1 DEF Checked
  <2>3. QED
    BY <1>4, <2>1, <2>2
<1>10. CASE CheckAllRules
  <2>1. call' = NoCall /\ transactions' = transactions /\ ~HasNew
    BY <1>10 DEF CheckAllRules, Settled, vars, log
  <2>2. ~HasNew'
    BY <2>1 DEF HasNew
  <2>3. QED
    BY <1>4, <2>1, <2>2 DEF Checked
<1>11. CASE FrontEnd
  <2>1. call' = NoCall /\ ~HasNew'
    BY <1>11, FrontEndStep
  <2>2. QED
    BY <1>4, <2>1 DEF Checked
<1>12. QED
  BY <1>5, <1>6, <1>7, <1>8, <1>9, <1>10, <1>11 DEF RNext, CallStep

LEMMA TryingStutters ==
  ASSUME Live, Trying, Checked, UNCHANGED rvars
  PROVE  Trying' /\ Checked'
<1>1. /\ UNCHANGED <<vars, rb>> /\ rb' = rb /\ broken' = broken /\ stack' = stack /\ call' = call
      /\ failed' = failed /\ transactions' = transactions
  BY DEF rvars, vars, log
<1>2. /\ \A r \in DOMAIN rb.rules : RuleStays(r) /\ (Watched(r) <=> Watched(r)') /\ (Holds(r) <=> Holds(r)')
      /\ \A g : Unmet(g) => Unmet(g)'
  BY <1>1, QuietRulesStay DEF Live
<1>3. HasNew' = HasNew
  BY <1>1 DEF HasNew
<1>4. Seen => Seen'
  BY <1>1, <1>2, SeenNext DEF Seen, Failing
<1>5. Solving => Solving'
  BY <1>1, <1>2, SolvingNext DEF Solving, GoesOn
<1>6. Checked'
  BY <1>1, <1>2, <1>3 DEF Checked
<1>7. QED
  BY <1>1, <1>4, <1>5, <1>6 DEF Trying

(* Both, of all that happens until an assertion fails.                     *)
TInv == ~aborted => Trying /\ Checked

LEMMA TryingInvariance == RSpec => []TInv
<1>1. RInit => TInv
  <2> SUFFICES ASSUME RInit
               PROVE  TInv
    OBVIOUS
  <2>1. call = NoCall /\ ~HasNew
    BY DEF RInit, Init, HasNew, TxIds
  <2>2. QED
    BY <2>1, GuardsAssumption DEF TInv, Trying, Checked, Guards
<1>2. RInv /\ TInv /\ [RNext]_rvars => TInv'
  <2> SUFFICES ASSUME RInv, TInv, [RNext]_rvars, ~aborted'
               PROVE  Trying' /\ Checked'
    BY DEF TInv
  <2>1. CASE UNCHANGED rvars
    <3>1. ~aborted
      BY <2>1 DEF rvars, vars
    <3>2. QED
      BY <2>1, <3>1, TryingStutters DEF RInv, TInv
  <2>2. CASE RNext /\ aborted
    BY <2>2, NothingAfterAbort DEF RInv
  <2>3. CASE RNext /\ ~aborted /\ RuleAsserts
    BY <2>3, AssertsStep DEF RInv
  <2>4. CASE RNext /\ ~aborted /\ ~RuleAsserts
    BY <2>4, TryingStays DEF RInv, TInv
  <2>5. QED
    BY <2>1, <2>2, <2>3, <2>4
<1>3. QED
  BY <1>1, <1>2, RInvariance, PTL DEF RSpec

(* After a successful call of cml_node_set_value() every rule that uses a  *)
(* node the call bound holds, although rule_trigger() never evaluates the  *)
(* rule it has solved again: the value of a bound node stays, a goal that  *)
(* is not met has its node still to be bound or leads to a failure.        *)
THEOREM AcceptedCallsHoldRules == RSpec => []AcceptedRulesHold
<1>1. RInv /\ TInv => AcceptedRulesHold
  BY DEF TInv, AcceptedRulesHold, Accepted, Checked, Holds
<1>2. QED
  BY <1>1, RInvariance, TryingInvariance, PTL

(* After a failed call every rule that uses a node the call bound and does *)
(* not hold is among the broken rules, wherever the call gave up.          *)
THEOREM FailedCallsNameRules == RSpec => []BrokenAreNamed
<1>1. RInv /\ TInv => BrokenAreNamed
  BY DEF RInv, Live, FailedIsOver, TInv, BrokenAreNamed, Checked, Holds
<1>2. QED
  BY <1>1, RInvariance, TryingInvariance, PTL

-----------------------------------------------------------------------------
(* What is bound is implied.                                               *)

(* What a node was frozen with before the open transaction, read off the   *)
(* transactions instead of the node's list.                                *)
Older == Forced \ {Len(transactions)}

FrozenBy(n) ==
  LET B == Binders(n, Older)
  IN  IF B # {} /\ "FROZEN" \in transactions[Newest(B)].flags
      THEN {transactions[Newest(B)].bindings[n].val} ELSE {}

FrozenRead == \A n \in Symbols : FrozenWith(n) = FrozenBy(n)

LEMMA FrozenIsRead == IInv => FrozenRead
<1> SUFFICES ASSUME IInv, NEW n \in Symbols
             PROVE  FrozenWith(n) = FrozenBy(n)
  BY DEF FrozenRead
<1> DEFINE before == {k \in DOMAIN bindings[n] :
                        InForce(bindings[n][k]) /\ bindings[n][k] # Len(transactions)}
           tx == transactions[bindings[n][Newest(before)]]
           B == Binders(n, Older)
<1>1. \A k \in DOMAIN bindings[n] : bindings[n][k] \in TxIds
  BY EntriesAreTransactions
<1>2. before = ListedIn(n, Older)
  BY <1>1 DEF ListedIn, Older, Forced
<1>3. FrozenWith(n) = IF before # {} /\ "FROZEN" \in tx.flags THEN {tx.bindings[n].val} ELSE {}
  BY DEF FrozenWith
<1>4. FrozenBy(n) = IF B # {} /\ "FROZEN" \in transactions[Newest(B)].flags
                    THEN {transactions[Newest(B)].bindings[n].val} ELSE {}
  BY DEF FrozenBy
<1>5. Older \in SUBSET TxIds
  BY DEF Older, Forced
<1>6. /\ before = {} <=> B = {}
      /\ before # {} => bindings[n][Newest(before)] = Newest(B)
  BY <1>2, <1>5, ListNewest
<1> HIDE DEF before, B
<1>7. QED
  BY <1>3, <1>4, <1>6

(* The same of the next state.                                             *)
LEMMA FrozenNext == IInv' => FrozenRead'
BY FrozenIsRead, PTL

(* A binding in a call changes nothing of what was frozen before.          *)
LEMMA FrozenStays ==
  ASSUME Live, Live', NEW g \in GoalsOf(rb), Propagate(g.node, g.atom)
  PROVE  \A n \in Symbols : FrozenWith(n)' = FrozenWith(n)
<1> DEFINE mn == g.node
           a == g.atom
<1>1. mn \in Symbols /\ a \in Values /\ call \in Guards /\ call # NoCall /\ Bind(mn, a, call)
  BY DEF GoalsOf, Propagate, Live, IInv, TypeOK
<1> HIDE DEF mn, a
<1>2. HasNew /\ transactions[Len(transactions)].guard = call
  BY <1>1 DEF Live, SessionInv, CallIsOpen
<1>3. ~OpensTransaction(call)
  BY <1>2 DEF OpensTransaction
<1>4. PICK m \in 0..Len(transactions) : BindAt(mn, a, call, m)
  BY <1>1 DEF Bind, BindAt, mn_is_chilled, mn_chill
<1>5. PICK id \in {m, m + 1} : /\ id \in Nat \ {0}
                               /\ BoundTx(id, mn, call, m)
                               /\ BoundValue(id, mn, a, call, m)
  BY <1>4, BindMakesTx DEF Live
<1>6. id # m + 1 /\ id = m /\ m = Len(transactions)
  BY <1>3, <1>4, <1>5, BindOpens DEF Live
<1>7. /\ TxIds' = 1..id
      /\ \A i \in 1..id - 1 : i \in TxIds
      /\ \A i \in 1..id - 1 : InForce(i)' <=> InForce(i)
  BY <1>4, <1>5, <1>6, BindForces DEF Live
<1>8. Len(transactions') = id /\ \A i \in 1..id - 1 : transactions'[i] = transactions[i]
  BY <1>5 DEF BoundTx
<1>9. TxIds = 1..Len(transactions)
  BY TxTypes DEF Live, IInv
<1>10. \A i : i \in 1..id /\ i # id <=> i \in 1..id - 1
  BY <1>5
<1>11. Older' = Older /\ Older \subseteq 1..id - 1
  <2>1. Older = {i \in 1..id - 1 : InForce(i)}
    BY <1>6, <1>9, <1>10 DEF Older, Forced
  <2>2. Older' = {i \in 1..id - 1 : InForce(i)'}
    BY <1>7, <1>8, <1>10 DEF Older, Forced
  <2>3. QED
    BY <1>7, <2>1, <2>2
<1>12. ASSUME NEW n \in Symbols
       PROVE  FrozenBy(n)' = FrozenBy(n)
  <2> DEFINE B == Binders(n, Older)
             C == {i \in Older : n \in DOMAIN transactions'[i].bindings}
  <2>1. C = B
    BY <1>8, <1>11 DEF Binders
  <2>2. FrozenBy(n)' = IF C # {} /\ "FROZEN" \in transactions'[Newest(C)].flags
                       THEN {transactions'[Newest(C)].bindings[n].val} ELSE {}
    BY <1>11 DEF FrozenBy, Binders, Newest
  <2>3. FrozenBy(n) = IF B # {} /\ "FROZEN" \in transactions[Newest(B)].flags
                      THEN {transactions[Newest(B)].bindings[n].val} ELSE {}
    BY DEF FrozenBy
  <2>4. B # {} => Newest(B) \in 1..id - 1
    <3>1. B \subseteq 1..Len(transactions) /\ B \subseteq 1..id - 1
      BY <1>6, <1>9, <1>11 DEF Binders, Older, Forced
    <3> HIDE DEF B
    <3>2. Len(transactions) \in Nat /\ B \subseteq 0..Len(transactions)
      BY <1>5, <1>6, <3>1
    <3>3. B # {} => Newest(B) \in B
      BY <3>2, HasNewest
    <3>4. QED
      BY <3>1, <3>3
  <2> HIDE DEF B, C
  <2>5. QED
    BY <1>8, <2>1, <2>2, <2>3, <2>4
<1>13. FrozenRead /\ FrozenRead'
  BY FrozenIsRead, FrozenNext DEF Live
<1>14. QED
  BY <1>12, <1>13 DEF FrozenRead

(* An assignment to the nodes of the rulebase that fits the menus.         *)
Fits(v) ==
  /\ \A n \in rb.nodes : v[n] \in Offered(n)
  /\ \A m \in DOMAIN Children \cap rb.nodes : \A k \in DOMAIN Children[m] :
       v[Children[m][k]].val = "y" <=> v[m].val = Children[m][k]

LEMMA AssignmentFits ==
  ASSUME rb \in Rulebases, NEW s, NEW a, NEW v \in Assignments(s, a)
  PROVE  /\ Fits(v) /\ v[s] = a
         /\ \A n \in rb.nodes \ {Sets(s, a)[1].node} : FrozenWith(n) \subseteq {v[n].val}
         /\ \A r \in DOMAIN rb.rules : /\ [n \in Uses(r) |-> v[n]] \in ValuesIn(rb, Uses(r))
                                       /\ expr_evaluate(rb.rules[r], [n \in Uses(r) |-> v[n]]).val = "y"
<1>1. /\ v[s] = a
      /\ \A n \in rb.nodes : v[n] \in Offered(n)
      /\ \A n \in rb.nodes \ {Sets(s, a)[1].node} : FrozenWith(n) \subseteq {v[n].val}
      /\ \A m \in DOMAIN Children \cap rb.nodes : \A k \in DOMAIN Children[m] :
           v[Children[m][k]].val = "y" <=> v[m].val = Children[m][k]
      /\ \A r \in DOMAIN rb.rules : expr_evaluate(rb.rules[r], [n \in Uses(r) |-> v[n]]).val = "y"
  BY DEF Assignments
<1>2. ASSUME NEW r \in DOMAIN rb.rules
      PROVE  [n \in Uses(r) |-> v[n]] \in ValuesIn(rb, Uses(r))
  <2> DEFINE w == [n \in Uses(r) |-> v[n]]
  <2>1. \A n \in Uses(r) : n \in rb.nodes /\ n \in Symbols
    BY BaseFacts DEF Uses
  <2>2. \A n \in Uses(r) : v[n] \in rb.atoms[n] /\ v[n] \in Values
    BY <1>1, <2>1, BaseFacts
  <2>3. w \in [Uses(r) -> Values] /\ \A n \in Uses(r) : w[n] \in rb.atoms[n]
    BY <2>2
  <2> HIDE DEF w
  <2>4. w \in ValuesIn(rb, Uses(r))
    BY <2>3 DEF ValuesIn
  <2>5. QED
    BY <2>4 DEF w
<1>3. QED
  BY <1>1, <1>2 DEF Fits

(* What gives a menu a child gives all its children their values.          *)
LEMMA ChosenAgrees ==
  ASSUME rb \in Rulebases, NEW v, Fits(v), NEW m \in DOMAIN Children, m \in rb.nodes
  PROVE  \A g \in ToSet(Chosen(m, v[m].val)) : v[g.node].val = g.atom.val
<1> DEFINE c == v[m].val
<1>1. \A k \in DOMAIN Children[m] : /\ Children[m][k] \in rb.nodes
                                    /\ v[Children[m][k]] \in {Bool(b) : b \in BOOLEAN}
                                    /\ v[Children[m][k]].val = "y" <=> c = Children[m][k]
  <2>1. \A k \in DOMAIN Children[m] : Children[m][k] \in rb.nodes
    BY RulebasesAssumption
  <2>2. QED
    BY <2>1, OfferedFacts DEF Fits
<1>2. ASSUME NEW k \in DOMAIN Children[m]
      PROVE  v[Children[m][k]].val = Bool(Children[m][k] = c).val
  <2>1. PICK b \in BOOLEAN : v[Children[m][k]] = Bool(b)
    BY <1>1
  <2>2. b <=> c = Children[m][k]
    BY <1>1, <2>1, BoolFields
  <2> HIDE DEF c
  <2>3. CASE b
    BY <2>1, <2>2, <2>3 DEF Bool, Atom
  <2>4. CASE ~b
    BY <2>1, <2>2, <2>4 DEF Bool, Atom
  <2>5. QED
    BY <2>3, <2>4
<1>3. Atom("node", c).val = c
  BY DEF Atom
<1>4. \A n, x : Goal(n, x).node = n /\ Goal(n, x).atom = x
  BY DEF Goal
<1>5. ASSUME NEW g \in ToSet(Chosen(m, c))
      PROVE  v[g.node].val = g.atom.val
  <2>1. \/ g = Goal(m, Atom("node", c))
        \/ \E k \in DOMAIN Children[m] : g = Goal(Children[m][k], Bool(Children[m][k] = c))
    BY ChosenElements
  <2>2. CASE g = Goal(m, Atom("node", c))
    BY <1>3, <1>4, <2>2
  <2>3. CASE \E k \in DOMAIN Children[m] : g = Goal(Children[m][k], Bool(Children[m][k] = c))
    BY <1>2, <1>4, <2>3
  <2>4. QED
    BY <2>1, <2>2, <2>3
<1>6. QED
  BY <1>5

(* What gives a node the value asked for gives the value to all that       *)
(* mn_set_value sets.                                                      *)
LEMMA SetsAgree ==
  ASSUME rb \in Rulebases, NEW v, Fits(v), NEW n \in rb.nodes, NEW a, v[n].val = a.val
  PROVE  \A g \in ToSet(Sets(n, a)) : v[g.node].val = g.atom.val
<1>1. n \in Symbols
  BY BaseFacts
<1>2. CASE cml_node_is_radio(n)
  <2>1. n \in DOMAIN Children /\ ~is_radio_child(n)
    BY <1>1, <1>2, RadioFacts DEF cml_node_is_radio
  <2>2. Sets(n, a) = Chosen(n, v[n].val)
    BY <1>2, <2>1 DEF Sets
  <2>3. QED
    BY <2>1, <2>2, ChosenAgrees
<1>3. CASE ~cml_node_is_radio(n) /\ is_radio_child(n) /\ a.val = "y"
  <2>1. Parent[n] \in DOMAIN Children /\ Parent[n] \in rb.nodes
    BY <1>3, RulebasesAssumption DEF is_radio_child
  <2>2. PICK k \in DOMAIN Children[Parent[n]] : Children[Parent[n]][k] = n
    BY <1>1, <1>3, RadioFacts
  <2>3. v[Parent[n]].val = n
    BY <1>3, <2>1, <2>2 DEF Fits
  <2>4. Sets(n, a) = Chosen(Parent[n], v[Parent[n]].val)
    BY <1>3, <2>3 DEF Sets
  <2>5. QED
    BY <2>1, <2>4, ChosenAgrees
<1>4. CASE ~cml_node_is_radio(n) /\ ~(is_radio_child(n) /\ a.val = "y")
  <2> DEFINE g == Goal(n, a)
  <2>1. Sets(n, a) = <<g>>
    BY <1>4 DEF Sets
  <2>2. g.node = n /\ g.atom = a
    BY DEF Goal
  <2> HIDE DEF g
  <2>3. ToSet(<<g>>) = {g}
    BY DEF ToSet
  <2>4. QED
    BY <2>1, <2>2, <2>3
<1>5. QED
  BY <1>2, <1>3, <1>4

(* What a frame still asks for is what the assignment has.                 *)
FrameAgrees(f, v) ==
  /\ f.kind = "set" => f.node \in rb.nodes /\ v[f.node].val = f.atom.val
  /\ f.kind = "solve" => \A g \in ToSet(f.todo) : g \notin Ends => v[g.node].val = g.atom.val

FramesAgree(v) == \A i \in 1..Len(stack) : FrameAgrees(stack[i], v)

BoundAgree(v) == \A n \in JustBound : v[n].val = Given(n).val

(* Every assignment that has what was asked for and satisfies the rules    *)
(* has all that the call has bound and all that it still asks for.         *)
Implying ==
  call \in Symbols =>
    /\ Sets(stack[1].node, stack[1].atom)[1].node \in JustBound
    /\ \A v \in Assignments(stack[1].node, stack[1].atom) : BoundAgree(v) /\ FramesAgree(v)

LEMMA SameAssignments ==
  ASSUME rb \in Rulebases, rb' = rb, \A n \in Symbols : FrozenWith(n)' = FrozenWith(n), NEW s, NEW a
  PROVE  Assignments(s, a)' = Assignments(s, a)
<1>1. \A n \in rb.nodes : FrozenWith(n)' = FrozenWith(n)
  BY BaseFacts
<1>2. \A r : Uses(r)' = Uses(r)
  BY DEF Uses
<1> DEFINE V == [rb.nodes -> UNION {Offered(n) : n \in rb.nodes}]
<1>3. ASSUME NEW v \in V
      PROVE  v \in Assignments(s, a)' <=> v \in Assignments(s, a)
  BY <1>1, <1>2 DEF Assignments
<1>4. Assignments(s, a) \subseteq V /\ Assignments(s, a)' \subseteq V
  BY DEF Assignments
<1>5. QED
  BY <1>3, <1>4

(* The frames after a step.                                                *)
LEMMA ReplacedAgree ==
  ASSUME Nested, stack # <<>>, rb' = rb, NEW t, Replaces(stack, stack', t), NEW v,
         FramesAgree(v), FrameAgrees(Top, v) => FrameAgrees(t, v)
  PROVE  FramesAgree(v)'
<1>1. Len(stack) \in Nat \ {0} /\ Top = stack[Len(stack)] /\ Len(stack) \in 1..Len(stack)
  BY TopFrame
<1>2. \A i \in 1..Len(stack) : i \in 1..Len(stack) - 1 \/ i = Len(stack)
  BY <1>1
<1>3. FrameAgrees(t, v)
  BY <1>1 DEF FramesAgree
<1>4. \A i \in 1..Len(stack') : FrameAgrees(stack'[i], v)
  BY <1>1, <1>2, <1>3 DEF Replaces, FramesAgree
<1>5. QED
  BY <1>4 DEF FramesAgree, FrameAgrees

LEMMA PushedAgree ==
  ASSUME Nested, stack # <<>>, rb' = rb, NEW t, NEW h, Pushes(stack, stack', t, h), NEW v,
         FramesAgree(v), FrameAgrees(Top, v) => FrameAgrees(t, v) /\ FrameAgrees(h, v)
  PROVE  FramesAgree(v)'
<1>1. Len(stack) \in Nat \ {0} /\ Top = stack[Len(stack)] /\ Len(stack) \in 1..Len(stack)
  BY TopFrame
<1>2. \A i \in 1..Len(stack) + 1 : i \in 1..Len(stack) - 1 \/ i = Len(stack) \/ i = Len(stack) + 1
  BY <1>1
<1>3. FrameAgrees(t, v) /\ FrameAgrees(h, v)
  BY <1>1 DEF FramesAgree
<1>4. \A i \in 1..Len(stack') : FrameAgrees(stack'[i], v)
  BY <1>1, <1>2, <1>3 DEF Pushes, FramesAgree
<1>5. QED
  BY <1>4 DEF FramesAgree, FrameAgrees

LEMMA ToldAgree ==
  ASSUME Live, stack # <<>>, NEW t, Tells(t), NEW v, FramesAgree(v)
  PROVE  FramesAgree(v)'
<1>1. TellsFrames(t) /\ rb' = rb
  <2>1. Len(stack) \in Nat \ {0} /\ Top = stack[Len(stack)]
    BY TopFrame DEF Live
  <2>2. QED
    BY <2>1, FramesTold DEF Tells
<1>2. ASSUME NEW i \in 1..Len(stack')
      PROVE  FrameAgrees(stack'[i], v)
  <2>1. i \in 1..Len(stack) /\ SameBut(stack'[i], stack[i])
    BY <1>1 DEF TellsFrames
  <2>2. FrameAgrees(stack[i], v)
    BY <2>1 DEF FramesAgree
  <2>3. QED
    BY <2>1, <2>2 DEF FrameAgrees, SameBut
<1>3. QED
  BY <1>1, <1>2 DEF FramesAgree, FrameAgrees

(* A step of the call after which the frames agree with what they agreed   *)
(* with before.                                                            *)
LEMMA ImplyingKept ==
  ASSUME Live, Implying, call \in Symbols, SameCall, rb' = rb,
         \A n \in Symbols : FrozenWith(n)' = FrozenWith(n),
         JustBound \subseteq JustBound',
         \A v \in Assignments(stack[1].node, stack[1].atom) :
           BoundAgree(v) /\ FramesAgree(v) => BoundAgree(v)' /\ FramesAgree(v)'
  PROVE  Implying'
<1>1. PICK s, a : s = stack[1].node /\ a = stack[1].atom
  OBVIOUS
<1>2. stack'[1].node = s /\ stack'[1].atom = a
  BY <1>1 DEF SameCall
<1>3. Sets(s, a)[1].node \in JustBound'
  BY <1>1 DEF Implying
<1>4. \A v \in Assignments(s, a) : BoundAgree(v)' /\ FramesAgree(v)'
  BY <1>1 DEF Implying
<1>5. Assignments(s, a)' = Assignments(s, a)
  BY SameAssignments DEF Live
<1>6. QED
  BY <1>2, <1>3, <1>4, <1>5 DEF Implying

(* When nothing is bound.                                                  *)
LEMMA QuietBound ==
  ASSUME UNCHANGED vars
  PROVE  /\ \A n \in Symbols : FrozenWith(n)' = FrozenWith(n)
         /\ JustBound' = JustBound
         /\ \A v : BoundAgree(v) => BoundAgree(v)'
<1>1. /\ transactions' = transactions /\ guarded' = guarded /\ bindings' = bindings
  BY DEF vars, log
<1>2. \A n : FrozenWith(n)' = FrozenWith(n)
  BY <1>1 DEF FrozenWith, InForce, Superceded
<1>3. JustBound' = JustBound /\ \A n : Given(n)' = Given(n)
  BY <1>1 DEF JustBound, Given
<1>4. QED
  BY <1>2, <1>3 DEF BoundAgree

LEMMA ImplyingGoes ==
  ASSUME Live, Implying, call \in Symbols, stack # <<>>, NEW t, Goes(t),
         t.kind = "solve" => ToSet(t.todo) \subseteq ToSet(Top.todo)
  PROVE  Implying'
<1>1. rb' = rb /\ SameCall /\ Replaces(stack, stack', t) /\ SameFrame(t, Top) /\ UNCHANGED vars
  BY DEF Goes
<1>2. \A v : FrameAgrees(Top, v) => FrameAgrees(t, v)
  BY <1>1 DEF FrameAgrees, SameFrame
<1>3. \A v : FramesAgree(v) => FramesAgree(v)'
  BY <1>1, <1>2, ReplacedAgree DEF Live
<1>4. QED
  BY <1>1, <1>3, QuietBound, ImplyingKept

LEMMA ImplyingCalls ==
  ASSUME Live, Implying, call \in Symbols, stack # <<>>, NEW t, NEW h, Calls(t, h), UNCHANGED vars,
         t.kind = "solve" => ToSet(t.todo) \subseteq ToSet(Top.todo),
         \A v \in Assignments(stack[1].node, stack[1].atom) :
           BoundAgree(v) /\ FrameAgrees(Top, v) => FrameAgrees(h, v)
  PROVE  Implying'
<1>1. rb' = rb /\ SameCall /\ Pushes(stack, stack', t, h) /\ SameFrame(t, Top)
  BY DEF Calls
<1>2. \A v : FrameAgrees(Top, v) => FrameAgrees(t, v)
  BY <1>1 DEF FrameAgrees, SameFrame
<1>3. ASSUME NEW v \in Assignments(stack[1].node, stack[1].atom), BoundAgree(v), FramesAgree(v)
      PROVE  FramesAgree(v)'
  <2>1. FrameAgrees(Top, v) => FrameAgrees(t, v) /\ FrameAgrees(h, v)
    BY <1>2, <1>3
  <2>2. QED
    BY <1>1, <1>3, <2>1, PushedAgree DEF Live
<1>4. QED
  BY <1>1, <1>3, QuietBound, ImplyingKept

LEMMA ImplyingTells ==
  ASSUME Live, Implying, call \in Symbols, stack # <<>>, NEW t, Tells(t)
  PROVE  Implying'
<1>1. rb' = rb /\ SameCall /\ UNCHANGED vars
  BY DEF Tells
<1>2. \A v : FramesAgree(v) => FramesAgree(v)'
  BY ToldAgree
<1>3. QED
  BY <1>1, <1>2, QuietBound, ImplyingKept

(* A node is bound to what its frame asks for.                             *)
LEMMA ImplyingBound ==
  ASSUME Live, Live', Implying, call \in Symbols, Bound
  PROVE  Implying'
<1>1. PICK t \in SetFrames(rb), h \in RulesFrames(rb), g \in GoalsOf(rb) :
        /\ Calls(t, h) /\ Top \in SetFrames(rb)
        /\ ToSet(Top.todo) = {g} \cup ToSet(t.todo)
        /\ Propagate(g.node, g.atom)
  BY BoundStep
<1>2. stack # <<>>
  BY DEF Bound, At
<1>3. Adds(g) /\ \A n \in Symbols : FrozenWith(n)' = FrozenWith(n)
  BY <1>1, PropagateAdds, FrozenStays
<1>4. rb' = rb /\ rb \in Rulebases /\ SameCall /\ Pushes(stack, stack', t, h) /\ SameFrame(t, Top)
  BY <1>1 DEF Calls, Live
<1>5. t.kind = "set" /\ h.kind = "rules" /\ Top.kind = "set" /\ g \in ToSet(Sets(Top.node, Top.atom))
  BY <1>1, SetFields, RulesFields
<1>6. \A v : FrameAgrees(Top, v) => FrameAgrees(t, v) /\ FrameAgrees(h, v)
  BY <1>4, <1>5 DEF FrameAgrees, SameFrame
<1>7. \A v : FramesAgree(v) => FramesAgree(v)'
  BY <1>2, <1>4, <1>6, PushedAgree DEF Live
<1>8. ASSUME NEW v \in Assignments(stack[1].node, stack[1].atom), BoundAgree(v), FramesAgree(v)
      PROVE  BoundAgree(v)'
  <2>1. Fits(v)
    BY <1>4, AssignmentFits
  <2>2. FrameAgrees(Top, v)
    BY <1>2, <1>8, TopFrame DEF FramesAgree, Live
  <2>3. v[g.node].val = g.atom.val
    BY <1>4, <1>5, <2>1, <2>2, SetsAgree DEF FrameAgrees
  <2>4. QED
    BY <1>3, <1>8, <2>3 DEF BoundAgree, Adds
<1>9. JustBound \subseteq JustBound'
  BY <1>3 DEF Adds
<1>10. QED
  BY <1>3, <1>4, <1>7, <1>8, <1>9, ImplyingKept

(* What keeps its value when a rule is solved has it in the assignment:    *)
(* what the call has bound, and what was frozen before.                    *)
LEMMA KeptAgree ==
  ASSUME Live, Implying, call \in Symbols,
         NEW v \in Assignments(stack[1].node, stack[1].atom), BoundAgree(v),
         NEW n \in Fixed, n \in rb.nodes
  PROVE  v[n].val = value[n].val
<1>1. HasNew /\ rb \in Rulebases /\ IInv /\ n \in Symbols
  BY BaseFacts, GuardsAssumption DEF Live, SessionInv, CallIsOpen, Guards
<1>2. CASE n \in JustBound
  BY <1>1, <1>2, GivenIsValue DEF Live, BoundAgree
<1>3. CASE n \notin JustBound
  <2> DEFINE current == {k \in DOMAIN bindings[n] : InForce(bindings[n][k])}
             B == Binders(n, Forced)
             x == transactions[Newest(B)].bindings[n]
  <2>1. current # {} /\ "FROZEN" \in transactions[bindings[n][Newest(current)]].flags
    BY <1>1, <1>3 DEF Fixed, cml_node_is_frozen, Live, OpenIsChilled
  <2>2. current = ListedIn(n, Forced)
    <3>1. \A k \in DOMAIN bindings[n] : bindings[n][k] \in TxIds
      BY <1>1, EntriesAreTransactions
    <3>2. QED
      BY <3>1 DEF ListedIn, Forced
  <2>3. Forced \in SUBSET TxIds
    BY DEF Forced
  <2> HIDE DEF current
  <2>4. B # {} /\ Newest(B) \in B /\ "FROZEN" \in transactions[Newest(B)].flags
    BY <1>1, <2>1, <2>2, <2>3, ListNewest
  <2>5. B = Binders(n, Older)
    BY <1>3 DEF Binders, Older, JustBound
  <2>6. FrozenWith(n) = {x.val}
    BY <1>1, <2>4, <2>5, FrozenIsRead DEF FrozenRead, FrozenBy
  <2>7. Get(n) = x
    BY <1>1, <2>4, GetIsNewest DEF GetsAreNewest, NewestValue
  <2>8. value[n] = x
    <3>1. x \in rb.atoms[n]
      BY <2>4 DEF Live, BoundTyped, Binders, Forced
    <3>2. x \in Values /\ Unbound \notin Values
      BY <1>1, <3>1, BaseFacts, RulebasesAssumption
    <3>3. QED
      BY <1>1, <2>7, <3>2, ValueEquation DEF ValuesAreRead
  <2> HIDE DEF x
  <2>9. n # Sets(stack[1].node, stack[1].atom)[1].node
    BY <1>3 DEF Implying
  <2>10. FrozenWith(n) \subseteq {v[n].val}
    BY <1>1, <2>9, AssignmentFits
  <2>11. QED
    BY <2>6, <2>8, <2>10
<1>4. QED
  BY <1>2, <1>3

(* A solution asks for what the assignment has.                            *)
LEMMA SolutionAgrees ==
  ASSUME Live, Implying, call \in Symbols, NEW r \in DOMAIN rb.rules, NEW goals, SolutionOf(r, goals),
         NEW v \in Assignments(stack[1].node, stack[1].atom), BoundAgree(v)
  PROVE  \A g \in ToSet(goals) : g \notin Ends => v[g.node].val = g.atom.val
<1> DEFINE w == [n \in Uses(r) |-> v[n]]
<1>1. w \in ValuesIn(rb, Uses(r)) /\ expr_evaluate(rb.rules[r], w).val = "y"
  BY AssignmentFits DEF Live
<1>2. \A n \in Uses(r) : w[n] = v[n] /\ n \in rb.nodes
  BY BaseFacts DEF Live, Uses
<1> HIDE DEF w
<1>3. \A n \in Uses(r) \cap Fixed : w[n].val = value[n].val
  BY <1>2, KeptAgree
<1>4. \A g \in ToSet(goals) : g \notin Ends => w[g.node].val = g.atom.val
  BY <1>1, <1>3 DEF SolutionOf, Implied
<1>5. QED
  BY <1>2, <1>4 DEF SolutionOf

(* The user asks: what satisfies the rules with it has it.                 *)
LEMMA ImplyingBegins ==
  ASSUME Live, NEW s \in rb.nodes, NEW a \in Offered(s), UserSet(s, a)
  PROVE  Implying'
<1>1. s \in Guards /\ Settled
  BY UserSetStep DEF Guards
<1>2. PICK t, h, g : Begins(s, a, t, h, g) /\ Bind(g.node, g.atom, s)
  BY UserSetStep
<1>3. JustBound' = {g.node} /\ Given(g.node)' = g.atom
  BY <1>1, <1>2, SetOpens DEF Begins, Opens
<1>4. /\ Len(stack') = 2 /\ stack'[1] = t /\ stack'[2] = h /\ rb' = rb
      /\ t \in SetFrames(rb) /\ t.node = s /\ t.atom = a /\ h \in RulesFrames(rb)
      /\ g = Sets(s, a)[1] /\ g \in ToSet(Sets(s, a))
  BY <1>2 DEF Begins
<1>5. t.kind = "set" /\ h.kind = "rules"
  BY <1>4, SetFields, RulesFields
<1>6. ASSUME NEW v \in Assignments(s, a)'
      PROVE  BoundAgree(v)' /\ FramesAgree(v)'
  <2>1. Fits(v) /\ v[s] = a
    BY <1>4, <1>6 DEF Assignments, Fits
  <2>2. v[g.node].val = g.atom.val
    BY <1>4, <2>1, SetsAgree DEF Live
  <2>3. BoundAgree(v)'
    BY <1>3, <2>2 DEF BoundAgree
  <2>4. FrameAgrees(t, v) /\ FrameAgrees(h, v)
    BY <1>4, <1>5, <2>1 DEF FrameAgrees
  <2>5. \A i \in 1..Len(stack') : i = 1 \/ i = 2
    BY <1>4
  <2>6. \A i \in 1..Len(stack') : FrameAgrees(stack'[i], v)
    BY <1>4, <2>4, <2>5
  <2>7. FramesAgree(v)'
    BY <1>4, <2>6 DEF FramesAgree, FrameAgrees
  <2>8. QED
    BY <2>3, <2>7
<1>7. QED
  BY <1>3, <1>4, <1>6 DEF Implying

LEMMA ImplyingStays ==
  ASSUME Live, Implying, RNext, ~RuleAsserts
  PROVE  Implying'
<1>1. Live'
  BY LiveStays
<1>2. Start \notin Symbols /\ NoCall \notin Symbols
  BY GuardsAssumption DEF Guards
<1>3. ASSUME call' \notin Symbols
      PROVE  Implying'
  BY <1>3 DEF Implying
<1>4. ASSUME NEW s \in rb.nodes, NEW a \in Offered(s), UserSet(s, a)
      PROVE  Implying'
  BY <1>4, ImplyingBegins
<1>5. ASSUME NEW s \in rb.nodes, NEW a \in Offered(s), LoadLine(s, a)
      PROVE  Implying'
  BY <1>2, <1>3, <1>5, LoadLineStep
<1>6. ASSUME NEW t, Goes(t), stack # <<>>, t.kind = "solve" => ToSet(t.todo) \subseteq ToSet(Top.todo)
      PROVE  Implying'
  <2>1. CASE call \in Symbols
    BY <1>6, <2>1, ImplyingGoes
  <2>2. CASE call \notin Symbols
    BY <1>3, <1>6, <2>2 DEF Goes, vars
  <2>3. QED
    BY <2>1, <2>2
<1>7. CASE Bound
  <2>1. CASE call \in Symbols
    BY <1>1, <1>7, <2>1, ImplyingBound
  <2>2. CASE call \notin Symbols
    BY <1>3, <1>7, <2>2 DEF Bound, Propagate
  <2>3. QED
    BY <2>1, <2>2
<1>8. CASE Refused
  <2>1. stack # <<>>
    BY <1>8 DEF Refused, At
  <2>2. PICK t \in SetFrames(rb) : Goes(t)
    BY <1>8, RefusedStep
  <2>3. QED
    BY <1>6, <2>1, <2>2, SetFields
<1>9. CASE NextNode
  <2>1. stack # <<>>
    BY <1>9 DEF NextNode
  <2>2. PICK t \in RulesFrames(rb) : Goes(t)
    BY <1>9, NextNodeStep
  <2>3. QED
    BY <1>6, <2>1, <2>2, RulesFields
<1>10. CASE RuleHolds
  <2>1. stack # <<>>
    BY <1>10 DEF RuleHolds, Looked, At
  <2>2. PICK t, q : Goes(t) /\ LookedAt(t, q)
    BY <1>10, RuleHoldsStep
  <2>3. QED
    BY <1>6, <2>1, <2>2, RulesFields DEF LookedAt
<1>11. CASE RuleBroken
  <2>1. stack # <<>>
    BY <1>11 DEF RuleBroken, Looked, At
  <2>2. PICK t, q : \E h \in SolveFrames(rb) :
          /\ Calls(t, h) /\ LookedAt(t, q) /\ UNCHANGED vars /\ h.rule = q /\ SolutionOf(q, h.todo)
    BY <1>11, RuleBrokenStep
  <2>3. PICK h \in SolveFrames(rb) :
          /\ Calls(t, h) /\ LookedAt(t, q) /\ UNCHANGED vars /\ h.rule = q /\ SolutionOf(q, h.todo)
    BY <2>2
  <2>4. t.kind = "rules" /\ h.kind = "solve" /\ q \in DOMAIN rb.rules
    BY <2>3, RulesFields, SolveFields DEF LookedAt
  <2>5. CASE call \in Symbols
    <3>1. ASSUME NEW v \in Assignments(stack[1].node, stack[1].atom), BoundAgree(v)
          PROVE  FrameAgrees(h, v)
      BY <2>3, <2>4, <2>5, <3>1, SolutionAgrees DEF FrameAgrees
    <3>2. QED
      BY <2>1, <2>3, <2>4, <2>5, <3>1, ImplyingCalls
  <2>6. CASE call \notin Symbols
    BY <1>3, <2>3, <2>6 DEF vars
  <2>7. QED
    BY <2>5, <2>6
<1>12. CASE GoalMet
  <2>1. stack # <<>>
    BY <1>12 DEF GoalMet, At
  <2>2. PICK t \in SolveFrames(rb) : \E g : Goes(t) /\ ToSet(Top.todo) = {g} \cup ToSet(t.todo)
    BY <1>12, GoalMetStep
  <2>3. QED
    BY <1>6, <2>1, <2>2
<1>13. CASE GoalSet
  <2>1. stack # <<>>
    BY <1>13 DEF GoalSet, At
  <2>2. PICK t \in SolveFrames(rb), h \in SetFrames(rb), g \in GoalsOf(rb) :
          /\ Calls(t, h) /\ Top \in SolveFrames(rb) /\ UNCHANGED vars
          /\ ToSet(Top.todo) = {g} \cup ToSet(t.todo)
          /\ g.node \in Uses(t.rule) /\ g \notin Ends
          /\ h.node = g.node /\ h.atom = g.atom
    BY <1>13, GoalSetStep
  <2>3. Top.kind = "solve" /\ h.kind = "set" /\ t.rule \in DOMAIN rb.rules
    BY <2>2, SolveFields, SetFields
  <2>4. g.node \in rb.nodes
    BY <2>2, <2>3, BaseFacts DEF Uses, Live
  <2>5. \A v : FrameAgrees(Top, v) => FrameAgrees(h, v)
    BY <2>2, <2>3, <2>4 DEF FrameAgrees
  <2>6. CASE call \in Symbols
    BY <2>1, <2>2, <2>5, <2>6, ImplyingCalls
  <2>7. CASE call \notin Symbols
    BY <1>3, <2>2, <2>7 DEF vars
  <2>8. QED
    BY <2>6, <2>7
<1>14. CASE Unsolved
  <2>1. stack # <<>>
    BY <1>14 DEF Unsolved, At
  <2>2. PICK t \in SolveFrames(rb) : Goes(t) /\ t.todo = Top.todo
    BY <1>14, UnsolvedStep
  <2>3. QED
    BY <1>6, <2>1, <2>2
<1>15. CASE Returned /\ Len(stack) # 1
  <2>1. stack # <<>>
    BY <1>15 DEF Returned
  <2>2. PICK t : Tells(t)
    BY <1>15, ReturnedDeep
  <2>3. CASE call \in Symbols
    BY <2>1, <2>2, <2>3, ImplyingTells
  <2>4. CASE call \notin Symbols
    BY <1>3, <2>2, <2>4 DEF Tells, vars
  <2>5. QED
    BY <2>3, <2>4
<1>16. CASE Returned /\ Len(stack) = 1
  <2>1. IF call = Start THEN UNCHANGED vars ELSE Return(Top.ok)
    BY <1>16, ReturnedLast
  <2>2. call' \notin Symbols
    BY <1>2, <2>1 DEF Return, vars
  <2>3. QED
    BY <1>3, <2>2
<1>17. CASE LoadEnds
  BY <1>2, <1>3, <1>17 DEF LoadEnds, Return
<1>18. CASE CheckAllRules
  BY <1>2, <1>3, <1>18 DEF CheckAllRules, Settled, vars
<1>19. CASE FrontEnd
  BY <1>2, <1>3, <1>19, FrontEndStep
<1>20. QED
  BY <1>4, <1>5, <1>7, <1>8, <1>9, <1>10, <1>11, <1>12, <1>13, <1>14, <1>15, <1>16, <1>17, <1>18, <1>19
  DEF RNext, CallStep

LEMMA ImplyingStutters ==
  ASSUME Live, Implying, UNCHANGED rvars
  PROVE  Implying'
<1>1. UNCHANGED vars /\ rb' = rb /\ stack' = stack /\ call' = call
  BY DEF rvars, vars
<1>2. CASE call \in Symbols
  <2>1. SameCall
    <3>1. stack # <<>>
      BY <1>2 DEF Live, CallHasFrames
    <3>2. 1 \in 1..Len(stack)
      BY <3>1, TopFrame DEF Live
    <3>3. QED
      BY <1>1, <3>1, <3>2 DEF SameCall
  <2>2. \A v : FramesAgree(v) => FramesAgree(v)'
    BY <1>1 DEF FramesAgree, FrameAgrees
  <2>3. QED
    BY <1>1, <1>2, <2>1, <2>2, QuietBound, ImplyingKept
<1>3. CASE call \notin Symbols
  BY <1>1, <1>3 DEF Implying
<1>4. QED
  BY <1>2, <1>3

(* What a call of the user binds beyond the node that was asked for is     *)
(* what every assignment that satisfies the rules must have, once the      *)
(* value asked for and those frozen before are given: no rule is solved by *)
(* a guess, however far the solutions lead (expr_solve, rule_trigger).     *)
THEOREM CallsBindImplied == RSpec => []BindingsImplied
<1>1. RInit => (~aborted => Implying)
  BY GuardsAssumption DEF RInit, Init, Implying, Guards
<1>2. RInv /\ (~aborted => Implying) /\ [RNext]_rvars => (~aborted' => Implying')
  <2> SUFFICES ASSUME RInv, ~aborted => Implying, [RNext]_rvars, ~aborted'
               PROVE  Implying'
    OBVIOUS
  <2>1. CASE UNCHANGED rvars
    <3>1. ~aborted
      BY <2>1 DEF rvars, vars
    <3>2. QED
      BY <2>1, <3>1, ImplyingStutters DEF RInv
  <2>2. CASE RNext /\ aborted
    BY <2>2, NothingAfterAbort DEF RInv
  <2>3. CASE RNext /\ ~aborted /\ RuleAsserts
    BY <2>3, AssertsStep DEF RInv
  <2>4. CASE RNext /\ ~aborted /\ ~RuleAsserts
    BY <2>4, ImplyingStays DEF RInv
  <2>5. QED
    BY <2>1, <2>2, <2>3, <2>4
<1>3. RInv /\ (~aborted => Implying) => BindingsImplied
  <2> SUFFICES ASSUME RInv, ~aborted => Implying, call \in Symbols, Len(stack) = 1,
                      NEW v \in Assignments(stack[1].node, stack[1].atom), NEW n \in JustBound
               PROVE  v[n].val = value[n].val
    BY DEF BindingsImplied
  <2>1. Live /\ Implying
    BY DEF RInv
  <2>2. HasNew
    BY <2>1, GuardsAssumption DEF Live, SessionInv, CallIsOpen, Guards
  <2>3. value[n] = Given(n)
    BY <2>1, <2>2, GivenIsValue DEF Live
  <2>4. QED
    BY <2>1, <2>3 DEF Implying, BoundAgree
<1>4. QED
  BY <1>1, <1>2, <1>3, RInvariance, PTL DEF RSpec
=============================================================================
