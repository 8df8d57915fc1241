------------------------ MODULE TransactionsProofs --------------------------
(***************************************************************************)
(* Theorems about the transaction log, for any symbols, values and bounds  *)
(* and any order of calls (Spec). The inductive invariant is IInv; the     *)
(* lemmas come in the order of the actions: the deletion of the newest     *)
(* transactions, a binding, commit and abort, undo, redo, clear.           *)
(***************************************************************************)
EXTENDS Transactions, SequenceTheorems, WellFoundedInduction, TLAPS

(* What the type invariant says of one transaction.                        *)
LEMMA TxTypes ==
  ASSUME TypeOK
  PROVE  /\ Len(transactions) \in Nat
         /\ TxIds = 1..Len(transactions)
         /\ \A i \in TxIds :
              /\ transactions[i] \in Transaction
              /\ transactions[i].guard \in Guards
              /\ transactions[i].flags \subseteq Flags
              /\ transactions[i].undo_id \in Nat
              /\ DOMAIN transactions[i].bindings \subseteq Symbols
<1>1. transactions \in Seq(Transaction)
  BY DEF TypeOK
<1>2. \A t \in Transaction : /\ t.guard \in Guards
                             /\ t.flags \subseteq Flags
                             /\ t.undo_id \in Nat
                             /\ DOMAIN t.bindings \subseteq Symbols
  BY DEF Transaction
<1>3. QED
  BY <1>1, <1>2, LenProperties, ElementOfSeq DEF TxIds

(* A list shortened to the entries up to m is a prefix of the list and     *)
(* holds exactly those entries, provided they come first (Upto).           *)
LEMMA UptoIsPrefix ==
  ASSUME NEW list \in Seq(Nat), NEW m \in Nat,
         \E l \in 0..Len(list) : Split(list, m, l)
  PROVE  /\ Upto(list, m) \in Seq(Nat)
         /\ Len(Upto(list, m)) \in 0..Len(list)
         /\ \A k \in 1..Len(Upto(list, m)) : Upto(list, m)[k] = list[k] /\ list[k] <= m
         /\ \A k \in 1..Len(list) : list[k] <= m => k \in 1..Len(Upto(list, m))
<1> DEFINE l == CHOOSE x \in 0..Len(list) : Split(list, m, x)
<1>1. l \in 0..Len(list) /\ Split(list, m, l)
  OBVIOUS
<1>2. Upto(list, m) = SubSeq(list, 1, l)
  BY DEF Upto
<1>3. Len(list) \in Nat /\ \A k \in 1..Len(list) : list[k] \in Nat
  BY LenProperties, ElementOfSeq
<1> HIDE DEF l
<1>4. /\ SubSeq(list, 1, l) \in Seq(Nat)
      /\ Len(SubSeq(list, 1, l)) = l
      /\ \A k \in 1..l : SubSeq(list, 1, l)[k] = list[k]
  <2>1. \A i \in 1..l : list[i] \in Nat
    BY <1>1, <1>3
  <2>2. /\ SubSeq(list, 1, l) \in Seq(Nat)
        /\ Len(SubSeq(list, 1, l)) = IF 1 <= l THEN l - 1 + 1 ELSE 0
        /\ \A i \in 1..l - 1 + 1 : SubSeq(list, 1, l)[i] = list[1 + i - 1]
    BY <1>1, <1>3, <2>1, SubSeqProperties
  <2>3. QED
    BY <1>1, <1>3, <2>2
<1>5. QED
  BY <1>1, <1>2, <1>3, <1>4 DEF Split

-----------------------------------------------------------------------------
(* Deleting the newest transactions.                                       *)

(* short is list without the entries after m, which were at its end.       *)
IsCut(short, list, m) ==
  /\ short \in Seq(Nat)
  /\ Len(short) \in 0..Len(list)
  /\ \A k \in 1..Len(short) : short[k] = list[k] /\ list[k] <= m
  /\ \A k \in 1..Len(list) : list[k] <= m => k \in 1..Len(short)

(* The entries of the lists are transactions of the log.                   *)
LEMMA EntriesAreTransactions ==
  ASSUME IInv
  PROVE  /\ \A g \in Guards :
              /\ guarded[g] \in Seq(Nat)
              /\ Len(guarded[g]) \in Nat
              /\ DOMAIN guarded[g] = 1..Len(guarded[g])
              /\ \A k \in 1..Len(guarded[g]) : guarded[g][k] \in TxIds
         /\ \A n \in Symbols :
              /\ bindings[n] \in Seq(Nat)
              /\ Len(bindings[n]) \in Nat
              /\ DOMAIN bindings[n] = 1..Len(bindings[n])
              /\ \A k \in 1..Len(bindings[n]) : bindings[n][k] \in TxIds
<1>1. TypeOK /\ GuardListsExact /\ NodeListsExact
  BY DEF IInv
<1>2. ASSUME NEW g \in Guards
      PROVE  /\ guarded[g] \in Seq(Nat)
             /\ Len(guarded[g]) \in Nat
             /\ DOMAIN guarded[g] = 1..Len(guarded[g])
             /\ \A k \in 1..Len(guarded[g]) : guarded[g][k] \in TxIds
  <2>1. guarded[g] \in Seq(Nat)
    BY <1>1 DEF TypeOK
  <2>2. Len(guarded[g]) \in Nat /\ DOMAIN guarded[g] = 1..Len(guarded[g])
    BY <2>1, LenProperties
  <2>3. {guarded[g][k] : k \in DOMAIN guarded[g]} \subseteq TxIds
    BY <1>1 DEF GuardListsExact
  <2>4. QED
    BY <2>1, <2>2, <2>3
<1>3. ASSUME NEW n \in Symbols
      PROVE  /\ bindings[n] \in Seq(Nat)
             /\ Len(bindings[n]) \in Nat
             /\ DOMAIN bindings[n] = 1..Len(bindings[n])
             /\ \A k \in 1..Len(bindings[n]) : bindings[n][k] \in TxIds
  <2>1. bindings[n] \in Seq(Nat)
    BY <1>1 DEF TypeOK
  <2>2. Len(bindings[n]) \in Nat /\ DOMAIN bindings[n] = 1..Len(bindings[n])
    BY <2>1, LenProperties
  <2>3. {bindings[n][k] : k \in DOMAIN bindings[n]} \subseteq TxIds
    BY <1>1 DEF NodeListsExact
  <2>4. QED
    BY <2>1, <2>2, <2>3
<1>4. QED
  BY <1>2, <1>3

(* When the transactions up to m are those of the steps up to u, shortening *)
(* the lists to m is well defined.                                          *)
LEMMA ListsAreCut ==
  ASSUME IInv, NEW m \in Nat, NEW u \in 0..last_undo_id,
         \A i \in TxIds : i <= m <=> transactions[i].undo_id <= u
  PROVE  /\ \A g \in Guards : IsCut(Upto(guarded[g], m), guarded[g], m)
         /\ \A n \in Symbols : IsCut(Upto(bindings[n], m), bindings[n], m)
<1>1. ASSUME NEW list \in Seq(Nat), StepPrefix(list),
             \A k \in 1..Len(list) : list[k] \in TxIds
      PROVE  IsCut(Upto(list, m), list, m)
  <2>1. PICK l \in 0..Len(list) :
           \A k \in 1..Len(list) : k <= l <=> transactions[list[k]].undo_id <= u
    BY <1>1 DEF StepPrefix
  <2>2. Split(list, m, l)
    BY <1>1, <2>1 DEF Split
  <2>3. QED
    BY <2>2, UptoIsPrefix DEF IsCut
<1>2. QED
  BY <1>1, EntriesAreTransactions DEF IInv, ListsByStep

(* The transactions left by the loop that stops at the first one of a step *)
(* up to u are all those of the steps up to u.                             *)
LEMMA LastOfStepIsCut ==
  ASSUME IInv, NEW m \in 0..Len(transactions), NEW u \in Nat, LastOfStep(m, u)
  PROVE  \A i \in TxIds : i <= m <=> transactions[i].undo_id <= u
<1>1. /\ TxIds = 1..Len(transactions)
      /\ Len(transactions) \in Nat
      /\ \A i \in TxIds : transactions[i].undo_id \in Nat
  BY TxTypes DEF IInv
<1>2. ASSUME NEW i \in TxIds, i <= m
      PROVE  transactions[i].undo_id <= u
  <2>1. m \in TxIds /\ transactions[m].undo_id <= u
    BY <1>1, <1>2 DEF LastOfStep
  <2>2. transactions[i].undo_id <= transactions[m].undo_id
    BY <1>1, <1>2, <2>1 DEF IInv, StepsInOrder
  <2>3. QED
    BY <1>1, <2>1, <2>2
<1>3. QED
  BY <1>1, <1>2 DEF LastOfStep

(* The transactions left by the loop that removes the NEW ones are all the *)
(* others, and all those of the steps up to some one.                      *)
LEMMA LastCommittedIsCut ==
  ASSUME IInv, NEW m \in 0..Len(transactions), LastCommitted(m)
  PROVE  /\ \A i \in TxIds : i <= m <=> "NEW" \notin transactions[i].flags
         /\ \E u \in 0..last_undo_id :
              \A i \in TxIds : i <= m <=> transactions[i].undo_id <= u
<1>1. /\ TxIds = 1..Len(transactions)
      /\ Len(transactions) \in Nat
      /\ \A i \in TxIds : transactions[i].undo_id \in 1..last_undo_id
      /\ curr_undo_id \in Nat /\ last_undo_id \in Nat
  BY TxTypes DEF IInv, StepsInOrder, TypeOK
<1>2. ASSUME NEW i \in TxIds, i <= m, "NEW" \in transactions[i].flags
      PROVE  FALSE
  <2>1. m \in TxIds /\ "NEW" \notin transactions[m].flags
    BY <1>1, <1>2 DEF LastCommitted
  <2>2. /\ transactions[i].undo_id = curr_undo_id
        /\ curr_undo_id = last_undo_id
        /\ \A j \in OfStep(curr_undo_id) : "NEW" \in transactions[j].flags
    BY <1>2 DEF IInv, NewAreNewestStep
  <2>3. transactions[i].undo_id <= transactions[m].undo_id
    BY <1>1, <1>2, <2>1 DEF IInv, StepsInOrder
  <2>4. transactions[m].undo_id = curr_undo_id
    BY <1>1, <2>1, <2>2, <2>3
  <2>5. QED
    BY <2>1, <2>2, <2>4 DEF OfStep
<1>3. \A i \in TxIds : i <= m <=> "NEW" \notin transactions[i].flags
  BY <1>1, <1>2 DEF LastCommitted
<1>4. CASE m = Len(transactions)
  <2>1. \A i \in TxIds : i <= m <=> transactions[i].undo_id <= last_undo_id
    BY <1>1, <1>4
  <2>2. QED
    BY <1>1, <1>3, <2>1
<1>5. CASE m < Len(transactions)
  <2>1. m + 1 \in TxIds /\ "NEW" \in transactions[m + 1].flags
    BY <1>1, <1>5 DEF LastCommitted
  <2>2. curr_undo_id = last_undo_id /\ transactions[m + 1].undo_id = curr_undo_id
    BY <2>1 DEF IInv, NewAreNewestStep
  <2>3. \A i \in TxIds : transactions[i].undo_id = curr_undo_id <=> "NEW" \in transactions[i].flags
    BY <2>1, <2>2 DEF IInv, NewAreNewestStep, OfStep
  <2>4. curr_undo_id - 1 \in 0..last_undo_id
    BY <1>1, <2>1, <2>2
  <2>5. \A i \in TxIds : i <= m <=> transactions[i].undo_id <= curr_undo_id - 1
    BY <1>1, <1>3, <2>2, <2>3
  <2>6. QED
    BY <1>3, <2>4, <2>5
<1>6. QED
  BY <1>1, <1>4, <1>5

-----------------------------------------------------------------------------
(* A binding.                                                              *)

(* A binding of mn with m transactions kept, of a node that is not chilled. *)
BindAt(mn, a, source, m) ==
  /\ mn \in Symbols /\ a \in Values /\ source \in Guards
  /\ mn \notin chilled
  /\ m \in 0..Len(transactions)
  /\ IF last_undo_id # curr_undo_id THEN LastOfStep(m, curr_undo_id)
     ELSE m = Len(transactions)
  /\ TxSet(mn, a, source, m)
  /\ chilled' = chilled \cup {mn}

(* The kept transactions are those of the steps up to the current one.     *)
LEMMA BindKeeps ==
  ASSUME IInv, NEW mn, NEW a, NEW source, NEW m, BindAt(mn, a, source, m)
  PROVE  /\ m \in Nat
         /\ \A i \in TxIds : i <= m <=> transactions[i].undo_id <= curr_undo_id
<1>1. /\ TxIds = 1..Len(transactions)
      /\ Len(transactions) \in Nat
      /\ \A i \in TxIds : transactions[i].undo_id \in 1..last_undo_id
      /\ curr_undo_id \in Nat /\ last_undo_id \in Nat
  BY TxTypes DEF IInv, StepsInOrder, TypeOK
<1>2. CASE last_undo_id # curr_undo_id
  BY <1>1, <1>2, LastOfStepIsCut DEF BindAt
<1>3. CASE last_undo_id = curr_undo_id
  BY <1>1, <1>3 DEF BindAt
<1>4. QED
  BY <1>1, <1>2, <1>3 DEF BindAt

(* The log after a binding: either a new transaction after the kept ones,  *)
(* or the last kept one with one more binding.                             *)
BoundTx(id, mn, source, m) ==
  /\ Len(transactions') = id
  /\ transactions' \in Seq(Transaction)
  /\ \A i \in 1..id - 1 : transactions'[i] = transactions[i]
  /\ transactions'[id].guard = source
  /\ transactions'[id].undo_id = curr_undo_id'
  /\ "NEW" \in transactions'[id].flags
  /\ \/ /\ id = m + 1
        /\ transactions'[id].flags = {"NEW"}
        /\ DOMAIN transactions'[id].bindings = {mn}
     \/ /\ id = m
        /\ m \in TxIds
        /\ transactions[m].guard = source
        /\ transactions[m].undo_id = curr_undo_id'
        /\ "NEW" \in transactions[m].flags
        /\ transactions'[m].flags = transactions[m].flags
        /\ DOMAIN transactions'[m].bindings = DOMAIN transactions[m].bindings \cup {mn}
        /\ curr_undo_id' = curr_undo_id
        /\ curr_undo_id = last_undo_id
        /\ m = Len(transactions)
  /\ \/ /\ curr_undo_id' = curr_undo_id + 1
        /\ id = m + 1
        /\ m > 0 => "NEW" \notin transactions[m].flags
     \/ /\ curr_undo_id' = curr_undo_id
        /\ m \in TxIds
        /\ "NEW" \in transactions[m].flags
  /\ last_undo_id' = curr_undo_id'
  /\ guarded' = [g \in Guards |->
                   IF id = m + 1 /\ g = source THEN Append(Upto(guarded[g], m), id)
                   ELSE Upto(guarded[g], m)]
  /\ bindings' = [n \in Symbols |->
                    IF n = mn THEN Append(Upto(bindings[n], m), id)
                    ELSE Upto(bindings[n], m)]

(* What it binds, and when a binding needs a transaction of its own.       *)
BoundValue(id, mn, a, source, m) ==
  /\ transactions'[id].bindings[mn] = a
  /\ id = m => \A n \in DOMAIN transactions[m].bindings \ {mn} :
                 transactions'[m].bindings[n] = transactions[m].bindings[n]
  /\ id = m + 1 => \/ m = 0
                   \/ "NEW" \notin transactions[m].flags
                   \/ transactions[m].guard # source

(* A binding goes to the newest transaction or to one appended for it.     *)
LEMMA BindMakesTx ==
  ASSUME IInv, NEW mn, NEW a, NEW source, NEW m, BindAt(mn, a, source, m)
  PROVE  \E id \in {m, m + 1} : /\ id \in Nat \ {0}
                                /\ BoundTx(id, mn, source, m)
                                /\ BoundValue(id, mn, a, source, m)
<1> DEFINE newStep == m = 0 \/ "NEW" \notin transactions[m].flags
           newTx   == newStep \/ transactions[m].guard # source
           undo_id == IF newStep THEN curr_undo_id + 1 ELSE curr_undo_id
           id      == IF newTx THEN m + 1 ELSE m
           tx      == IF newTx THEN [guard |-> source, flags |-> {"NEW"},
                                     undo_id |-> undo_id, bindings |-> <<>>]
                      ELSE transactions[m]
           bound   == [n \in DOMAIN tx.bindings \cup {mn} |->
                         IF n = mn THEN a ELSE tx.bindings[n]]
           new     == [tx EXCEPT !.bindings = bound]
<1>1. /\ transactions' = Append(SubSeq(transactions, 1, id - 1), new)
      /\ guarded' = [g \in Guards |->
                       IF newTx /\ g = source THEN Append(Upto(guarded[g], m), id)
                       ELSE Upto(guarded[g], m)]
      /\ bindings' = [n \in Symbols |->
                        IF n = mn THEN Append(Upto(bindings[n], m), id)
                        ELSE Upto(bindings[n], m)]
      /\ curr_undo_id' = undo_id
      /\ last_undo_id' = undo_id
  BY DEF BindAt, TxSet
<1>2. /\ TxIds = 1..Len(transactions)
      /\ Len(transactions) \in Nat
      /\ transactions \in Seq(Transaction)
      /\ \A i \in TxIds : transactions[i] \in Transaction
      /\ curr_undo_id \in Nat /\ last_undo_id \in Nat
      /\ m \in 0..Len(transactions)
      /\ mn \in Symbols /\ a \in Values /\ source \in Guards
  BY TxTypes DEF IInv, TypeOK, BindAt
<1>3. id \in Nat \ {0} /\ id - 1 <= m /\ (~newTx => m \in TxIds)
  BY <1>2
<1>4. tx \in [guard : Guards, flags : SUBSET Flags, undo_id : Nat,
             bindings : UNION {[S -> Values] : S \in SUBSET Symbols}]
  <2>1. CASE newTx
    <3>1. <<>> \in [{} -> Values]
      OBVIOUS
    <3>2. <<>> \in UNION {[S -> Values] : S \in SUBSET Symbols}
      BY <3>1
    <3>3. {"NEW"} \in SUBSET Flags /\ undo_id \in Nat
      BY <1>2 DEF Flags
    <3>4. QED
      BY <1>2, <2>1, <3>2, <3>3
  <2>2. CASE ~newTx
    BY <1>2, <1>3, <2>2 DEF Transaction
  <2>3. QED
    BY <2>1, <2>2
<1>5. bound \in UNION {[S -> Values] : S \in SUBSET Symbols}
  <2>1. PICK S \in SUBSET Symbols : tx.bindings \in [S -> Values]
    BY <1>4
  <2>2. bound \in [S \cup {mn} -> Values]
    <3> HIDE DEF tx
    <3>1. DOMAIN tx.bindings = S /\ \A n \in S : tx.bindings[n] \in Values
      BY <2>1
    <3>2. QED
      BY <1>2, <3>1
  <2>3. S \cup {mn} \in SUBSET Symbols
    BY <1>2
  <2>4. QED
    <3> HIDE DEF bound
    <3>1. QED
      BY <2>2, <2>3
<1>6. /\ new \in Transaction
      /\ new.guard = tx.guard /\ new.flags = tx.flags /\ new.undo_id = tx.undo_id
      /\ DOMAIN new.bindings = DOMAIN tx.bindings \cup {mn}
      /\ new.bindings[mn] = a
      /\ \A n \in DOMAIN tx.bindings \ {mn} : new.bindings[n] = tx.bindings[n]
  <2> HIDE DEF tx, bound
  <2>1. new = [guard |-> tx.guard, flags |-> tx.flags, undo_id |-> tx.undo_id, bindings |-> bound]
    BY <1>4
  <2>2. /\ DOMAIN bound = DOMAIN tx.bindings \cup {mn}
        /\ bound[mn] = a
        /\ \A n \in DOMAIN tx.bindings \ {mn} : bound[n] = tx.bindings[n]
    BY DEF bound
  <2>3. QED
    BY <1>4, <1>5, <2>1, <2>2 DEF Transaction
<1> HIDE DEF new, bound
<1>7. /\ SubSeq(transactions, 1, id - 1) \in Seq(Transaction)
      /\ Len(SubSeq(transactions, 1, id - 1)) = id - 1
      /\ \A i \in 1..id - 1 : SubSeq(transactions, 1, id - 1)[i] = transactions[i]
  <2> HIDE DEF id, newTx
  <2>1. \A i \in 1..id - 1 : transactions[i] \in Transaction
    BY <1>2, <1>3
  <2>2. id - 1 \in Int /\ 1 \in Int
    BY <1>3
  <2>3. /\ SubSeq(transactions, 1, id - 1) \in Seq(Transaction)
        /\ Len(SubSeq(transactions, 1, id - 1)) = IF 1 <= id - 1 THEN id - 1 - 1 + 1 ELSE 0
        /\ \A i \in 1..id - 1 - 1 + 1 : SubSeq(transactions, 1, id - 1)[i] = transactions[1 + i - 1]
    BY <2>1, <2>2, SubSeqProperties
  <2>4. QED
    BY <1>3, <2>3
<1>8. /\ transactions' \in Seq(Transaction)
      /\ Len(transactions') = id
      /\ \A i \in 1..id - 1 : transactions'[i] = transactions[i]
      /\ transactions'[id] = new
  <2> HIDE DEF id
  <2>1. LET s == SubSeq(transactions, 1, id - 1)
        IN  /\ Append(s, new) \in Seq(Transaction)
            /\ Len(Append(s, new)) = Len(s) + 1
            /\ \A i \in 1..Len(s) : Append(s, new)[i] = s[i]
            /\ Append(s, new)[Len(s) + 1] = new
    BY <1>6, <1>7, AppendProperties
  <2>2. QED
    BY <1>1, <1>3, <1>7, <2>1
<1>9. CASE newTx
  <2>1. tx.guard = source /\ tx.flags = {"NEW"} /\ tx.undo_id = undo_id /\ DOMAIN tx.bindings = {}
    BY <1>9
  <2>2. id = m + 1
    BY <1>9
  <2>3. newStep => undo_id = curr_undo_id + 1 /\ (m > 0 => "NEW" \notin transactions[m].flags)
    BY <1>2
  <2>4. ~newStep => undo_id = curr_undo_id /\ m \in TxIds /\ "NEW" \in transactions[m].flags
    BY <1>2
  <2>5. m = 0 \/ "NEW" \notin transactions[m].flags \/ transactions[m].guard # source
    BY <1>9
  <2> HIDE DEF id, tx, undo_id, newStep
  <2>6. BoundTx(id, mn, source, m)
    BY <1>1, <1>3, <1>6, <1>8, <1>9, <2>1, <2>2, <2>3, <2>4 DEF BoundTx
  <2>7. BoundValue(id, mn, a, source, m)
    BY <1>2, <1>6, <1>8, <2>2, <2>5 DEF BoundValue
  <2>8. QED
    BY <1>2, <1>3, <2>2, <2>6, <2>7
<1>10. CASE ~newTx
  <2>1. /\ tx = transactions[m] /\ id = m /\ undo_id = curr_undo_id /\ m \in TxIds
        /\ transactions[m].guard = source /\ "NEW" \in transactions[m].flags
    BY <1>2, <1>10
  <2>2. transactions[m].undo_id = curr_undo_id /\ curr_undo_id = last_undo_id
    BY <2>1 DEF IInv, NewAreNewestStep
  <2>3. m = Len(transactions)
    BY <2>2 DEF BindAt
  <2>4. id # m + 1
    BY <1>2, <2>1
  <2> HIDE DEF id, tx, undo_id, newStep
  <2>5. guarded' = [g \in Guards |->
                     IF id = m + 1 /\ g = source THEN Append(Upto(guarded[g], m), id)
                     ELSE Upto(guarded[g], m)]
    BY <1>1, <1>10, <2>4
  <2>6. BoundTx(id, mn, source, m)
    BY <1>1, <1>3, <1>6, <1>8, <2>1, <2>2, <2>3, <2>5 DEF BoundTx
  <2>7. BoundValue(id, mn, a, source, m)
    BY <1>2, <1>6, <1>8, <2>1, <2>4 DEF BoundValue
  <2>8. QED
    BY <1>2, <1>3, <2>1, <2>6, <2>7
<1>11. QED
  BY <1>9, <1>10

-----------------------------------------------------------------------------
(* Facts about the lists, used by every action.                            *)

Entries(list) == {list[k] : k \in DOMAIN list}

(* The entries of a shortened list are those of the list up to m.          *)
LEMMA CutEntries ==
  ASSUME NEW list \in Seq(Nat), NEW m \in Nat, NEW short, IsCut(short, list, m)
  PROVE  /\ short \in Seq(Nat)
         /\ Len(list) \in Nat /\ Len(short) \in Nat /\ Len(short) <= Len(list)
         /\ DOMAIN list = 1..Len(list)
         /\ DOMAIN short = 1..Len(short)
         /\ \A k \in 1..Len(short) : short[k] = list[k]
         /\ \A i \in Nat : i \in Entries(short) <=> i \in Entries(list) /\ i <= m
         /\ Entries(short) \subseteq Nat
<1>1. short \in Seq(Nat)
  BY DEF IsCut
<1>2. /\ Len(list) \in Nat /\ Len(short) \in Nat /\ Len(short) <= Len(list)
      /\ DOMAIN list = 1..Len(list)
      /\ DOMAIN short = 1..Len(short)
  BY <1>1, LenProperties DEF IsCut
<1>3. \A k \in 1..Len(short) : short[k] \in Nat
  BY <1>1, ElementOfSeq
<1>4. QED
  BY <1>1, <1>2, <1>3 DEF IsCut, Entries

(* The entries of a list with one more appended.                           *)
LEMMA AppendEntries ==
  ASSUME NEW list \in Seq(Nat), NEW e \in Nat
  PROVE  /\ Append(list, e) \in Seq(Nat)
         /\ Len(list) \in Nat
         /\ Len(Append(list, e)) = Len(list) + 1
         /\ DOMAIN list = 1..Len(list)
         /\ DOMAIN Append(list, e) = 1..Len(list) + 1
         /\ \A k \in 1..Len(list) : Append(list, e)[k] = list[k]
         /\ Append(list, e)[Len(list) + 1] = e
         /\ Entries(Append(list, e)) = Entries(list) \cup {e}
<1>1. /\ Append(list, e) \in Seq(Nat)
      /\ Len(Append(list, e)) = Len(list) + 1
      /\ \A k \in 1..Len(list) : Append(list, e)[k] = list[k]
      /\ Append(list, e)[Len(list) + 1] = e
  BY AppendProperties
<1>2. /\ Len(list) \in Nat
      /\ DOMAIN list = 1..Len(list)
      /\ DOMAIN Append(list, e) = 1..Len(list) + 1
  BY <1>1, LenProperties
<1>3. Entries(Append(list, e)) = Entries(list) \cup {e}
  BY <1>1, <1>2 DEF Entries
<1>4. QED
  BY <1>1, <1>2, <1>3

(* The entries of a shortened list up to a step are a prefix of it.        *)
LEMMA CutByStep ==
  ASSUME NEW list \in Seq(Nat), NEW m \in Nat, NEW short, IsCut(short, list, m),
         last_undo_id \in Nat, StepPrefix(list), NEW u \in 0..last_undo_id
  PROVE  \E l \in 0..Len(short) :
           \A k \in 1..Len(short) : k <= l <=> transactions[short[k]].undo_id <= u
<1>1. PICK l \in 0..Len(list) :
        \A k \in 1..Len(list) : k <= l <=> transactions[list[k]].undo_id <= u
  BY DEF StepPrefix
<1>2. /\ Len(list) \in Nat /\ Len(short) \in Nat /\ Len(short) <= Len(list)
      /\ \A k \in 1..Len(short) : short[k] = list[k]
  BY CutEntries
<1> DEFINE P(x) == \A k \in 1..Len(short) : k <= x <=> transactions[short[k]].undo_id <= u
<1>3. CASE l <= Len(short)
  <2>1. l \in 0..Len(short)
    BY <1>2, <1>3
  <2>2. P(l)
    <3>1. ASSUME NEW k \in 1..Len(short)
          PROVE  k <= l <=> transactions[short[k]].undo_id <= u
      <4>1. k \in 1..Len(list) /\ short[k] = list[k]
        BY <1>2
      <4>2. QED
        BY <1>1, <4>1
    <3>2. QED
      BY <3>1
  <2>3. QED
    <3> HIDE DEF P
    <3>1. \E x \in 0..Len(short) : P(x)
      BY <2>1, <2>2
    <3>2. QED
      BY <3>1 DEF P
<1>4. CASE l > Len(short)
  <2>1. P(Len(short))
    <3>1. ASSUME NEW k \in 1..Len(short)
          PROVE  k <= Len(short) /\ transactions[short[k]].undo_id <= u
      <4>1. k \in 1..Len(list) /\ short[k] = list[k] /\ k <= Len(short) /\ k <= l
        BY <1>2, <1>4
      <4>2. QED
        BY <1>1, <4>1
    <3>2. QED
      BY <3>1
  <2>2. QED
    <3> HIDE DEF P
    <3>1. Len(short) \in 0..Len(short)
      BY <1>2
    <3>2. \E x \in 0..Len(short) : P(x)
      BY <2>1, <3>1
    <3>3. QED
      BY <3>2 DEF P
<1>5. QED
  BY <1>1, <1>2, <1>3, <1>4

(* The transactions of a guard in a step can be listed newest first, and   *)
(* such a list is not longer than the index of its newest one.             *)
HasListing(S) ==
  \E list \in Seq(S) :
    /\ NewestFirst(S, list)
    /\ list # <<>> => Len(list) <= list[1]

(* A listing of transactions among the first N is one of the lists that    *)
(* Pushed chooses from.                                                    *)
LEMMA ListingIsBounded ==
  ASSUME NEW N \in Nat, NEW S \in SUBSET (1..N), HasListing(S)
  PROVE  \E list \in UNION {[1..n -> S] : n \in 0..N} :
           /\ NewestFirst(S, list)
           /\ list # <<>> => Len(list) <= list[1]
<1>1. PICK list \in Seq(S) : NewestFirst(S, list) /\ (list # <<>> => Len(list) <= list[1])
  BY DEF HasListing
<1>2. /\ Len(list) \in Nat
      /\ list \in [1..Len(list) -> S]
  BY <1>1, LenProperties
<1>3. Len(list) \in 0..N
  <2>1. CASE list = <<>>
    BY <2>1
  <2>2. CASE list # <<>>
    <3>1. Len(list) # 0
      BY <1>1, <2>2, EmptySeq
    <3>2. list[1] \in S
      BY <1>2, <3>1
    <3>3. list[1] \in 1..N
      BY <3>2
    <3>4. Len(list) <= list[1]
      BY <1>1, <2>2
    <3>5. QED
      BY <1>2, <3>3, <3>4
  <2>3. QED
    BY <2>1, <2>2
<1>4. QED
  BY <1>1, <1>2, <1>3

(* A list that Pushed chooses from lists the set.                          *)
LEMMA ListingFromBounded ==
  ASSUME NEW N \in Nat, NEW S,
         NEW list \in UNION {[1..n -> S] : n \in 0..N},
         NewestFirst(S, list), list # <<>> => Len(list) <= list[1]
  PROVE  HasListing(S) /\ list \in Seq(S)
<1>1. list \in Seq(S)
  BY SeqDef
<1>2. QED
  BY <1>1 DEF HasListing

(* The empty set is listed by the empty list.                              *)
LEMMA ListingOfNone == HasListing({})
<1>1. <<>> \in Seq({}) /\ DOMAIN <<>> = {}
  OBVIOUS
<1>2. NewestFirst({}, <<>>)
  BY <1>1 DEF NewestFirst
<1>3. QED
  BY <1>1, <1>2 DEF HasListing

(* One more transaction, newer than the others, comes first.               *)
LEMMA ListingOfOneMore ==
  ASSUME NEW S \in SUBSET Nat, HasListing(S), NEW i \in Nat \ {0}, \A j \in S : j < i
  PROVE  HasListing(S \cup {i})
<1>1. PICK list \in Seq(S) : NewestFirst(S, list) /\ (list # <<>> => Len(list) <= list[1])
  BY DEF HasListing
<1>2. /\ Len(list) \in Nat
      /\ list \in [1..Len(list) -> S]
      /\ DOMAIN list = 1..Len(list)
  BY <1>1, LenProperties
<1> DEFINE longer == [k \in 1..Len(list) + 1 |-> IF k = 1 THEN i ELSE list[k - 1]]
<1>3. longer \in [1..Len(list) + 1 -> S \cup {i}]
  BY <1>2
<1>4. longer \in Seq(S \cup {i}) /\ Len(longer) = Len(list) + 1
  <2>1. longer \in Seq(S \cup {i})
    BY <1>2, <1>3, SeqDef
  <2>2. DOMAIN longer = 1..Len(longer) /\ Len(longer) \in Nat
    BY <2>1, LenProperties
  <2>3. DOMAIN longer = 1..Len(list) + 1
    OBVIOUS
  <2>4. QED
    BY <1>2, <2>1, <2>2, <2>3
<1>5. {longer[k] : k \in DOMAIN longer} = S \cup {i}
  <2>1. {list[k] : k \in 1..Len(list)} = S
    BY <1>1, <1>2 DEF NewestFirst
  <2>2. ASSUME NEW j \in S
        PROVE  \E k \in DOMAIN longer : longer[k] = j
    <3>1. PICK k \in 1..Len(list) : list[k] = j
      BY <2>1
    <3>2. k + 1 \in DOMAIN longer /\ longer[k + 1] = j
      BY <1>2, <3>1
    <3>3. QED
      BY <3>2
  <2>3. 1 \in DOMAIN longer /\ longer[1] = i
    BY <1>2
  <2>4. \A k \in DOMAIN longer : longer[k] \in S \cup {i}
    BY <1>3
  <2> HIDE DEF longer
  <2>5. \A j \in S \cup {i} : \E k \in DOMAIN longer : longer[k] = j
    BY <2>2, <2>3
  <2>6. S \cup {i} \subseteq {longer[k] : k \in DOMAIN longer}
    BY <2>5
  <2>7. {longer[k] : k \in DOMAIN longer} \subseteq S \cup {i}
    BY <2>4
  <2>8. QED
    BY <2>6, <2>7
<1>6. \A j, k \in DOMAIN longer : j < k => longer[j] > longer[k]
  <2>1. SUFFICES ASSUME NEW j \in 1..Len(list) + 1, NEW k \in 1..Len(list) + 1, j < k
                 PROVE  longer[j] > longer[k]
    OBVIOUS
  <2>2. longer[k] = list[k - 1] /\ k - 1 \in 1..Len(list) /\ list[k - 1] \in S
    BY <1>2, <2>1
  <2>3. CASE j = 1
    BY <2>1, <2>2, <2>3
  <2>4. CASE j # 1
    <3>1. longer[j] = list[j - 1] /\ j - 1 \in 1..Len(list) /\ j - 1 < k - 1
      BY <1>2, <2>1, <2>4
    <3>2. QED
      BY <1>1, <1>2, <2>2, <3>1 DEF NewestFirst
  <2>5. QED
    BY <2>3, <2>4
<1>7. Len(longer) <= longer[1]
  <2>1. longer[1] = i
    BY <1>2
  <2>2. CASE Len(list) = 0
    BY <1>4, <2>1, <2>2
  <2>3. CASE Len(list) # 0
    <3>1. list # <<>> /\ list[1] \in S
      BY <1>2, <2>3
    <3>2. Len(list) <= list[1] /\ list[1] < i /\ list[1] \in Nat
      BY <1>1, <3>1
    <3> HIDE DEF longer
    <3>3. QED
      BY <1>2, <1>4, <2>1, <3>2
  <2>4. QED
    BY <2>2, <2>3
<1>8. QED
  <2> HIDE DEF longer
  <2>1. NewestFirst(S \cup {i}, longer)
    BY <1>5, <1>6 DEF NewestFirst
  <2>2. QED
    BY <1>4, <1>7, <2>1 DEF HasListing

(* In the next state, the same listings for all steps give StepsListable.  *)
LEMMA StepsListableNext ==
  ASSUME transactions' \in Seq(Transaction),
         \A g \in Guards, u \in 1..last_undo_id' : HasListing(OfGuard(g, u)')
  PROVE  StepsListable'
<1>1. Len(transactions') \in Nat /\ TxIds' = 1..Len(transactions')
  BY LenProperties DEF TxIds
<1>2. ASSUME NEW g \in Guards, NEW u \in 1..last_undo_id'
      PROVE  \E list \in UNION {[1..n -> OfGuard(g, u)'] : n \in 0..Len(transactions')} :
               /\ NewestFirst(OfGuard(g, u)', list)
               /\ list # <<>> => Len(list) <= list[1]
  <2>1. OfGuard(g, u)' \in SUBSET (1..Len(transactions'))
    BY <1>1 DEF OfGuard, OfStep
  <2>2. HasListing(OfGuard(g, u)')
    OBVIOUS
  <2> DEFINE S == OfGuard(g, u)'
  <2> HIDE DEF S
  <2>3. \E list \in UNION {[1..n -> S] : n \in 0..Len(transactions')} :
           /\ NewestFirst(S, list)
           /\ list # <<>> => Len(list) <= list[1]
    BY <1>1, <2>1, <2>2, ListingIsBounded DEF S
  <2>4. QED
    BY <2>3 DEF S
<1>3. QED
  BY <1>2 DEF StepsListable

(* The transactions of each guard in each step can be listed.              *)
LEMMA ListingsOfSteps ==
  ASSUME IInv, NEW g \in Guards, NEW u \in 1..last_undo_id
  PROVE  HasListing(OfGuard(g, u))
<1>1. Len(transactions) \in Nat
  BY TxTypes DEF IInv
<1>2. PICK list \in UNION {[1..n -> OfGuard(g, u)] : n \in 0..Len(transactions)} :
         /\ NewestFirst(OfGuard(g, u), list)
         /\ list # <<>> => Len(list) <= list[1]
  BY DEF IInv, StepsListable
<1>3. QED
  BY <1>1, <1>2, ListingFromBounded

-----------------------------------------------------------------------------
(* A binding preserves the invariant.                                      *)

(* The invariant without the variables that are not the log's.             *)
LogInv ==
  /\ transactions \in Seq(Transaction)
  /\ guarded \in [Guards -> Seq(Nat)]
  /\ bindings \in [Symbols -> Seq(Nat)]
  /\ curr_undo_id \in Nat
  /\ last_undo_id \in Nat
  /\ chilled \subseteq Symbols
  /\ StepsInOrder
  /\ UndoneAreAhead
  /\ NewAreNewestStep
  /\ NewAreChilled
  /\ GuardListsExact
  /\ NodeListsExact
  /\ ListsByStep
  /\ StepsListable

(* StepPrefix in the next state, of a list that is given.                  *)
NextPrefix(list) ==
  \A u \in 0..last_undo_id' : \E l \in 0..Len(list) :
    \A k \in 1..Len(list) : k <= l <=> transactions'[list[k]].undo_id <= u

(* A binding (mn_set_value2, _cml_tx_set) keeps the structure of the log.  *)
LEMMA BindPreserves ==
  ASSUME IInv, NEW mn, NEW a, NEW source, NEW m, BindAt(mn, a, source, m)
  PROVE  LogInv'
<1>1. PICK id \in {m, m + 1} : id \in Nat \ {0} /\ BoundTx(id, mn, source, m)
  BY BindMakesTx
<1>2. /\ TxIds = 1..Len(transactions)
      /\ Len(transactions) \in Nat
      /\ \A i \in TxIds : /\ transactions[i].undo_id \in 1..last_undo_id
                         /\ transactions[i].guard \in Guards
                         /\ DOMAIN transactions[i].bindings \subseteq Symbols
      /\ curr_undo_id \in Nat /\ last_undo_id \in Nat
      /\ curr_undo_id <= last_undo_id
      /\ chilled \subseteq Symbols
  BY TxTypes DEF IInv, StepsInOrder, TypeOK
<1>3. /\ m \in Nat /\ m \in 0..Len(transactions)
      /\ mn \in Symbols /\ source \in Guards /\ mn \notin chilled
      /\ chilled' = chilled \cup {mn}
      /\ \A i \in TxIds : i <= m <=> transactions[i].undo_id <= curr_undo_id
  BY BindKeeps DEF BindAt
<1>4. /\ Len(transactions') = id
      /\ TxIds' = 1..id
      /\ transactions' \in Seq(Transaction)
      /\ \A i \in 1..id - 1 : /\ transactions'[i] = transactions[i]
                             /\ i \in TxIds /\ i <= m
                             /\ transactions[i].undo_id <= curr_undo_id
      /\ transactions'[id].guard = source
      /\ transactions'[id].undo_id = curr_undo_id'
      /\ "NEW" \in transactions'[id].flags
      /\ curr_undo_id' \in {curr_undo_id, curr_undo_id + 1}
      /\ curr_undo_id' \in Nat \ {0}
      /\ last_undo_id' = curr_undo_id'
  <2>1. TxIds' = 1..id
    BY <1>1, LenProperties DEF BoundTx, TxIds
  <2>2. curr_undo_id' \in {curr_undo_id, curr_undo_id + 1} /\ last_undo_id' = curr_undo_id'
    BY <1>1 DEF BoundTx
  <2>3. curr_undo_id' \in Nat \ {0}
    <3>1. CASE curr_undo_id' = curr_undo_id + 1
      BY <1>2, <3>1
    <3>2. CASE curr_undo_id' # curr_undo_id + 1
      <4>1. m \in TxIds /\ curr_undo_id' = curr_undo_id
        BY <1>1, <3>2 DEF BoundTx
      <4>2. transactions[m].undo_id \in 1..last_undo_id /\ transactions[m].undo_id <= curr_undo_id
        BY <1>2, <1>3, <4>1
      <4>3. QED
        BY <1>2, <4>1, <4>2
    <3>3. QED
      BY <3>1, <3>2
  <2>4. \A i \in 1..id - 1 : i \in TxIds /\ i <= m
    BY <1>1, <1>2, <1>3
  <2>5. \A i \in 1..id - 1 : transactions[i].undo_id <= curr_undo_id
    BY <1>3, <2>4
  <2>6. QED
    BY <1>1, <2>1, <2>2, <2>3, <2>4, <2>5 DEF BoundTx
<1>5. "UNDONE" \notin transactions'[id].flags
  <2>1. CASE transactions'[id].flags = {"NEW"}
    BY <2>1
  <2>2. CASE transactions'[id].flags # {"NEW"}
    <3>1. id = m /\ m \in TxIds /\ transactions'[m].flags = transactions[m].flags
      BY <1>1, <2>2 DEF BoundTx
    <3>2. "UNDONE" \notin transactions[m].flags
      BY <1>2, <1>3, <3>1 DEF IInv, UndoneAreAhead
    <3>3. QED
      BY <3>1, <3>2
  <2>3. QED
    BY <2>1, <2>2
<1>6. StepsInOrder'
  <2>1. \A i \in 1..id : transactions'[i].undo_id \in 1..last_undo_id'
    BY <1>1, <1>2, <1>4
  <2>2. ASSUME NEW i \in 1..id, NEW j \in 1..id, i < j
        PROVE  transactions'[i].undo_id <= transactions'[j].undo_id
    <3>1. i \in 1..id - 1 /\ i \in TxIds
      BY <1>4, <2>2
    <3>2. CASE j = id
      BY <1>2, <1>4, <3>1, <3>2
    <3>3. CASE j # id
      <4>1. j \in 1..id - 1 /\ j \in TxIds
        BY <1>4, <2>2, <3>3
      <4>2. transactions[i].undo_id <= transactions[j].undo_id
        BY <2>2, <3>1, <4>1 DEF IInv, StepsInOrder
      <4>3. QED
        BY <1>4, <3>1, <4>1, <4>2
    <3>4. QED
      BY <3>2, <3>3
  <2>3. QED
    BY <1>4, <2>1, <2>2 DEF StepsInOrder
<1>7. UndoneAreAhead'
  <2>1. ASSUME NEW i \in 1..id
        PROVE  "UNDONE" \notin transactions'[i].flags /\ transactions'[i].undo_id <= curr_undo_id'
    <3>1. CASE i = id
      BY <1>4, <1>5, <3>1
    <3>2. CASE i # id
      <4>1. i \in 1..id - 1
        BY <1>1, <3>2
      <4>2. "UNDONE" \notin transactions[i].flags
        BY <1>2, <1>4, <4>1 DEF IInv, UndoneAreAhead
      <4>3. QED
        BY <1>2, <1>4, <4>1, <4>2
    <3>3. QED
      BY <3>1, <3>2
  <2>2. \A i \in 1..id : ~(transactions'[i].undo_id > curr_undo_id')
    BY <1>4, <1>6, <2>1 DEF StepsInOrder
  <2>3. QED
    BY <1>4, <2>1, <2>2 DEF UndoneAreAhead
<1>8. NewAreNewestStep'
  <2>1. ASSUME NEW i \in 1..id - 1, "NEW" \in transactions[i].flags
        PROVE  curr_undo_id' = curr_undo_id
    <3>1. SUFFICES ASSUME curr_undo_id' # curr_undo_id
                   PROVE  FALSE
      OBVIOUS
    <3>2. m > 0 => "NEW" \notin transactions[m].flags
      BY <1>1, <3>1 DEF BoundTx
    <3>3. /\ i \in TxIds /\ i <= m /\ m \in TxIds
          /\ transactions[m].undo_id <= curr_undo_id
      BY <1>2, <1>3, <1>4
    <3>4. transactions[i].undo_id = curr_undo_id /\ transactions[i].undo_id <= transactions[m].undo_id
      BY <1>2, <2>1, <3>3 DEF IInv, NewAreNewestStep, StepsInOrder
    <3>5. m \in OfStep(curr_undo_id)
      BY <1>2, <3>3, <3>4 DEF OfStep
    <3>6. "NEW" \in transactions[m].flags
      BY <2>1, <3>3, <3>5 DEF IInv, NewAreNewestStep
    <3>7. QED
      BY <1>2, <3>2, <3>3, <3>6
  <2>2. ASSUME NEW j \in 1..id - 1, transactions[j].undo_id = curr_undo_id'
        PROVE  "NEW" \in transactions[j].flags
    <3>1. curr_undo_id' = curr_undo_id
      BY <1>2, <1>4, <2>2
    <3>2. m \in TxIds /\ "NEW" \in transactions[m].flags
      BY <1>1, <1>2, <3>1 DEF BoundTx
    <3>3. j \in OfStep(curr_undo_id)
      BY <1>4, <2>2, <3>1 DEF OfStep
    <3>4. QED
      BY <3>2, <3>3 DEF IInv, NewAreNewestStep
  <2>3. ASSUME NEW j \in OfStep(curr_undo_id)'
        PROVE  "NEW" \in transactions'[j].flags
    <3>1. j \in 1..id /\ transactions'[j].undo_id = curr_undo_id'
      BY <1>4 DEF OfStep
    <3>2. CASE j = id
      BY <1>4, <3>2
    <3>3. CASE j # id
      BY <1>4, <2>2, <3>1, <3>3
    <3>4. QED
      BY <3>2, <3>3
  <2>4. ASSUME NEW i \in 1..id, "NEW" \in transactions'[i].flags
        PROVE  transactions'[i].undo_id = curr_undo_id'
    <3>1. CASE i = id
      BY <1>4, <3>1
    <3>2. CASE i # id
      <4>1. i \in 1..id - 1 /\ "NEW" \in transactions[i].flags /\ i \in TxIds
        BY <1>4, <2>4, <3>2
      <4>2. transactions[i].undo_id = curr_undo_id
        BY <4>1 DEF IInv, NewAreNewestStep
      <4>3. QED
        BY <1>4, <2>1, <4>1, <4>2
    <3>3. QED
      BY <3>1, <3>2
  <2>5. QED
    BY <1>4, <2>3, <2>4 DEF NewAreNewestStep
<1>9. NewAreChilled'
  <2>1. ASSUME NEW i \in 1..id, "NEW" \in transactions'[i].flags
        PROVE  DOMAIN transactions'[i].bindings \subseteq chilled \cup {mn}
    <3>1. CASE i # id
      <4>1. i \in TxIds /\ transactions'[i] = transactions[i]
        BY <1>4, <3>1
      <4>2. QED
        BY <2>1, <4>1 DEF IInv, NewAreChilled
    <3>2. CASE i = id
      <4>1. CASE DOMAIN transactions'[id].bindings = {mn}
        BY <3>2, <4>1
      <4>2. CASE DOMAIN transactions'[id].bindings # {mn}
        <5>1. /\ id = m /\ m \in TxIds /\ "NEW" \in transactions[m].flags
              /\ DOMAIN transactions'[m].bindings = DOMAIN transactions[m].bindings \cup {mn}
          BY <1>1, <4>2 DEF BoundTx
        <5>2. DOMAIN transactions[m].bindings \subseteq chilled
          BY <5>1 DEF IInv, NewAreChilled
        <5>3. QED
          BY <3>2, <5>1, <5>2
      <4>3. QED
        BY <4>1, <4>2
    <3>3. QED
      BY <3>1, <3>2
  <2>2. QED
    BY <1>3, <1>4, <2>1 DEF NewAreChilled
(* The kept transactions keep their fields; at most the last one is bound  *)
(* to one more node.                                                       *)
<1>10. /\ id = m \/ id = m + 1
       /\ \A i \in 1..m :
            /\ i \in 1..id /\ i \in TxIds
            /\ transactions'[i].guard = transactions[i].guard
            /\ transactions'[i].undo_id = transactions[i].undo_id
            /\ transactions[i].undo_id <= curr_undo_id
            /\ "UNDONE" \notin transactions'[i].flags
            /\ "UNDONE" \notin transactions[i].flags
            /\ DOMAIN transactions'[i].bindings =
                 DOMAIN transactions[i].bindings \cup (IF i = id THEN {mn} ELSE {})
       /\ id = m => mn \notin DOMAIN transactions[m].bindings
       /\ id = m + 1 => DOMAIN transactions'[id].bindings = {mn}
  <2>1. \A i \in 1..m : i \in TxIds /\ i \in 1..id /\ transactions[i].undo_id <= curr_undo_id
    BY <1>1, <1>2, <1>3
  <2>2. \A i \in 1..m : "UNDONE" \notin transactions[i].flags
    BY <1>2, <2>1 DEF IInv, UndoneAreAhead
  <2>3. \A i \in 1..m : "UNDONE" \notin transactions'[i].flags
    BY <1>4, <1>5, <2>1, <2>2
  <2>4. CASE id = m + 1
    <3>1. DOMAIN transactions'[id].bindings = {mn}
      BY <1>1, <1>3, <2>4 DEF BoundTx
    <3>2. \A i \in 1..m : i \in 1..id - 1 /\ i # id
      BY <1>3, <2>4
    <3>3. QED
      BY <1>3, <1>4, <2>1, <2>2, <2>3, <2>4, <3>1, <3>2
  <2>5. CASE id = m
    <3>1. /\ m \in TxIds
          /\ transactions[m].guard = source
          /\ transactions[m].undo_id = curr_undo_id'
          /\ "NEW" \in transactions[m].flags
          /\ DOMAIN transactions'[m].bindings = DOMAIN transactions[m].bindings \cup {mn}
      BY <1>1, <1>3, <2>5 DEF BoundTx
    <3>2. mn \notin DOMAIN transactions[m].bindings
      BY <1>3, <3>1 DEF IInv, NewAreChilled
    <3>3. \A i \in 1..m : i # m => i \in 1..id - 1
      BY <1>3, <2>5
    <3>4. ASSUME NEW i \in 1..m
          PROVE  /\ transactions'[i].guard = transactions[i].guard
                 /\ transactions'[i].undo_id = transactions[i].undo_id
                 /\ DOMAIN transactions'[i].bindings =
                      DOMAIN transactions[i].bindings \cup (IF i = id THEN {mn} ELSE {})
      <4>1. CASE i = m
        BY <1>4, <2>5, <3>1, <4>1
      <4>2. CASE i # m
        BY <1>4, <2>5, <3>3, <4>2
      <4>3. QED
        BY <4>1, <4>2
    <3>5. id # m + 1
      BY <1>3, <2>5
    <3>6. QED
      BY <2>1, <2>2, <2>3, <2>5, <3>2, <3>4, <3>5
  <2>6. QED
    BY <1>1, <2>4, <2>5
<1>11. /\ \A g \in Guards : IsCut(Upto(guarded[g], m), guarded[g], m)
       /\ \A n \in Symbols : IsCut(Upto(bindings[n], m), bindings[n], m)
  <2>1. curr_undo_id \in 0..last_undo_id
    BY <1>2
  <2>2. QED
    BY <1>3, <2>1, ListsAreCut
(* A shortened list, and one with the new entry, are in order of steps.    *)
<1>12. ASSUME NEW list \in Seq(Nat), NEW c, IsCut(c, list, m), StepPrefix(list),
              \A k \in 1..Len(c) : c[k] \in 1..m
       PROVE  NextPrefix(c) /\ NextPrefix(Append(c, id))
  <2>1. c \in Seq(Nat) /\ Len(c) \in Nat
    BY <1>3, <1>12, CutEntries
  <2>2. /\ Len(Append(c, id)) = Len(c) + 1
        /\ \A k \in 1..Len(c) : Append(c, id)[k] = c[k]
        /\ Append(c, id)[Len(c) + 1] = id
    BY <1>1, <2>1, AppendEntries
  <2>3. ASSUME NEW u \in 0..last_undo_id
        PROVE  \E l \in 0..Len(c) :
                 \A k \in 1..Len(c) : k <= l <=> transactions'[c[k]].undo_id <= u
    <3>1. PICK l \in 0..Len(c) : \A k \in 1..Len(c) : k <= l <=> transactions[c[k]].undo_id <= u
      BY <1>2, <1>3, <1>12, CutByStep
    <3>2. QED
      BY <1>10, <1>12, <3>1
  <2>4. \A k \in 1..Len(c) : transactions'[c[k]].undo_id <= curr_undo_id'
    <3>1. \A i \in 1..m : transactions'[i].undo_id \in Nat /\ transactions'[i].undo_id <= curr_undo_id
      <4>1. \A i \in TxIds : transactions[i].undo_id \in Nat
        BY <1>2
      <4>2. QED
        BY <1>10, <4>1
    <3>2. QED
      BY <1>2, <1>4, <1>12, <3>1
  <2>5. NextPrefix(c)
    <3>1. SUFFICES ASSUME NEW u \in 0..last_undo_id'
                   PROVE  \E l \in 0..Len(c) : \A k \in 1..Len(c) :
                            k <= l <=> transactions'[c[k]].undo_id <= u
      BY DEF NextPrefix
    <3>2. CASE u \in 0..last_undo_id
      BY <2>3, <3>2
    <3>3. CASE u \notin 0..last_undo_id
      <4>1. u = curr_undo_id'
        BY <1>2, <1>4, <3>3
      <4>2. Len(c) \in 0..Len(c) /\ \A k \in 1..Len(c) :
               k <= Len(c) <=> transactions'[c[k]].undo_id <= u
        BY <2>1, <2>4, <4>1
      <4>3. QED
        BY <4>2
    <3>4. QED
      BY <3>2, <3>3
  <2>6. NextPrefix(Append(c, id))
    <3>1. SUFFICES ASSUME NEW u \in 0..last_undo_id'
                   PROVE  \E l \in 0..Len(c) + 1 : \A k \in 1..Len(c) + 1 :
                            k <= l <=> transactions'[Append(c, id)[k]].undo_id <= u
      BY <2>2 DEF NextPrefix
    <3>2. CASE u = last_undo_id'
      <4>1. ASSUME NEW k \in 1..Len(c) + 1
            PROVE  transactions'[Append(c, id)[k]].undo_id <= u
        <5>1. CASE k \in 1..Len(c)
          BY <1>4, <2>2, <2>4, <3>2, <5>1
        <5>2. CASE k = Len(c) + 1
          BY <1>4, <2>2, <3>2, <5>2
        <5>3. QED
          BY <2>1, <5>1, <5>2
      <4>2. Len(c) + 1 \in 0..Len(c) + 1 /\ \A k \in 1..Len(c) + 1 :
               k <= Len(c) + 1 <=> transactions'[Append(c, id)[k]].undo_id <= u
        BY <2>1, <4>1
      <4>3. QED
        BY <4>2
    <3>3. CASE u # last_undo_id'
      <4>1. u \in 0..last_undo_id /\ u < curr_undo_id'
        BY <1>2, <1>4, <3>3
      <4>2. PICK l \in 0..Len(c) :
               \A k \in 1..Len(c) : k <= l <=> transactions'[c[k]].undo_id <= u
        BY <2>3, <4>1
      <4>3. ASSUME NEW k \in 1..Len(c) + 1
            PROVE  k <= l <=> transactions'[Append(c, id)[k]].undo_id <= u
        <5>1. CASE k \in 1..Len(c)
          BY <2>2, <4>2, <5>1
        <5>2. CASE k = Len(c) + 1
          BY <1>4, <2>1, <2>2, <4>1, <5>2
        <5>3. QED
          BY <2>1, <5>1, <5>2
      <4>4. l \in 0..Len(c) + 1
        BY <2>1
      <4>5. QED
        BY <4>3, <4>4
    <3>4. QED
      BY <3>2, <3>3
  <2>7. QED
    BY <2>5, <2>6
<1>13. ASSUME NEW g \in Guards
       PROVE  /\ guarded'[g] \in Seq(Nat)
              /\ Entries(guarded'[g]) =
                   {i \in 1..id : transactions'[i].guard = g /\ "UNDONE" \notin transactions'[i].flags}
              /\ \A j, k \in DOMAIN guarded'[g] : guarded'[g][j] = guarded'[g][k] => j = k
              /\ StepPrefix(guarded[g])'
  <2> DEFINE c == Upto(guarded[g], m)
  <2>1. /\ guarded[g] \in Seq(Nat) /\ IsCut(c, guarded[g], m)
        /\ Entries(guarded[g]) =
             {i \in TxIds : transactions[i].guard = g /\ "UNDONE" \notin transactions[i].flags}
        /\ \A j, k \in DOMAIN guarded[g] : guarded[g][j] = guarded[g][k] => j = k
        /\ StepPrefix(guarded[g])
    BY <1>11, EntriesAreTransactions DEF IInv, GuardListsExact, Entries, ListsByStep
  <2>2. /\ c \in Seq(Nat)
        /\ Len(guarded[g]) \in Nat /\ Len(c) \in Nat /\ Len(c) <= Len(guarded[g])
        /\ DOMAIN guarded[g] = 1..Len(guarded[g])
        /\ DOMAIN c = 1..Len(c)
        /\ \A k \in 1..Len(c) : c[k] = guarded[g][k]
        /\ \A i \in Nat : i \in Entries(c) <=> i \in Entries(guarded[g]) /\ i <= m
        /\ Entries(c) \subseteq Nat
    BY <1>3, <2>1, CutEntries
  <2>3. guarded'[g] = IF id = m + 1 /\ g = source THEN Append(c, id) ELSE c
    BY <1>1 DEF BoundTx
  <2> HIDE DEF c
  <2>4. \A i \in Nat : i \in Entries(c) <=> i \in 1..m /\ transactions[i].guard = g
    BY <1>2, <1>3, <1>10, <2>1, <2>2
  <2>5. \A j, k \in 1..Len(c) : c[j] = c[k] => j = k
    <3>1. \A k \in 1..Len(c) : k \in DOMAIN guarded[g] /\ c[k] = guarded[g][k]
      BY <2>2
    <3>2. QED
      BY <2>1, <3>1
  <2>6. \A k \in 1..Len(c) : c[k] \in 1..m
    BY <2>2, <2>4 DEF Entries
  <2>7. NextPrefix(c) /\ NextPrefix(Append(c, id))
    BY <1>12, <2>1, <2>6
  <2>8. CASE id = m + 1 /\ g = source
    <3>1. /\ Append(c, id) \in Seq(Nat)
          /\ DOMAIN Append(c, id) = 1..Len(c) + 1
          /\ \A k \in 1..Len(c) : Append(c, id)[k] = c[k]
          /\ Append(c, id)[Len(c) + 1] = id
          /\ Entries(Append(c, id)) = Entries(c) \cup {id}
      BY <1>1, <2>2, AppendEntries
    <3>2. guarded'[g] = Append(c, id)
      BY <2>3, <2>8
    <3>3. \A i \in Nat : i \in Entries(c) \cup {id} <=>
            i \in 1..id /\ transactions'[i].guard = g /\ "UNDONE" \notin transactions'[i].flags
      BY <1>3, <1>4, <1>5, <1>10, <2>4, <2>8
    <3>4. Entries(guarded'[g]) =
            {i \in 1..id : transactions'[i].guard = g /\ "UNDONE" \notin transactions'[i].flags}
      BY <1>1, <2>2, <3>1, <3>2, <3>3
    <3>5. ASSUME NEW j \in 1..Len(c) + 1, NEW k \in 1..Len(c) + 1, Append(c, id)[j] = Append(c, id)[k]
          PROVE  j = k
      <4>1. \A x \in 1..Len(c) : Append(c, id)[x] # id
        BY <1>3, <2>6, <2>8, <3>1
      <4>2. CASE j \in 1..Len(c) /\ k \in 1..Len(c)
        BY <2>5, <3>1, <3>5, <4>2
      <4>3. CASE j = Len(c) + 1
        <5>1. Append(c, id)[k] = id
          BY <3>1, <3>5, <4>3
        <5>2. k \notin 1..Len(c)
          BY <4>1, <5>1
        <5>3. QED
          BY <2>2, <4>3, <5>2
      <4>4. CASE k = Len(c) + 1
        <5>1. Append(c, id)[j] = id
          BY <3>1, <3>5, <4>4
        <5>2. j \notin 1..Len(c)
          BY <4>1, <5>1
        <5>3. QED
          BY <2>2, <4>4, <5>2
      <4>5. \A x \in 1..Len(c) + 1 : x \in 1..Len(c) \/ x = Len(c) + 1
        BY <2>2
      <4>6. QED
        BY <4>2, <4>3, <4>4, <4>5
    <3>6. StepPrefix(guarded[g])'
      BY <2>7, <3>2 DEF StepPrefix, NextPrefix
    <3>7. QED
      BY <3>1, <3>2, <3>4, <3>5, <3>6
  <2>9. CASE ~(id = m + 1 /\ g = source)
    <3>1. guarded'[g] = c
      BY <2>3, <2>9
    <3>2. \A i \in Nat : i \in Entries(c) <=>
            i \in 1..id /\ transactions'[i].guard = g /\ "UNDONE" \notin transactions'[i].flags
      BY <1>3, <1>4, <1>5, <1>10, <2>4, <2>9
    <3>3. StepPrefix(guarded[g])'
      BY <2>7, <3>1 DEF StepPrefix, NextPrefix
    <3>4. QED
      BY <2>2, <2>5, <3>1, <3>2, <3>3
  <2>10. QED
    BY <2>8, <2>9
<1>14. ASSUME NEW n \in Symbols
       PROVE  /\ bindings'[n] \in Seq(Nat)
              /\ Entries(bindings'[n]) = {i \in 1..id : n \in DOMAIN transactions'[i].bindings}
              /\ \A j, k \in DOMAIN bindings'[n] : j < k => bindings'[n][j] < bindings'[n][k]
              /\ StepPrefix(bindings[n])'
  <2> DEFINE c == Upto(bindings[n], m)
  <2>1. /\ bindings[n] \in Seq(Nat) /\ IsCut(c, bindings[n], m)
        /\ Entries(bindings[n]) = {i \in TxIds : n \in DOMAIN transactions[i].bindings}
        /\ \A j, k \in DOMAIN bindings[n] : j < k => bindings[n][j] < bindings[n][k]
        /\ StepPrefix(bindings[n])
    BY <1>11, EntriesAreTransactions DEF IInv, NodeListsExact, Entries, ListsByStep
  <2>2. /\ c \in Seq(Nat)
        /\ Len(bindings[n]) \in Nat /\ Len(c) \in Nat /\ Len(c) <= Len(bindings[n])
        /\ DOMAIN bindings[n] = 1..Len(bindings[n])
        /\ DOMAIN c = 1..Len(c)
        /\ \A k \in 1..Len(c) : c[k] = bindings[n][k]
        /\ \A i \in Nat : i \in Entries(c) <=> i \in Entries(bindings[n]) /\ i <= m
        /\ Entries(c) \subseteq Nat
    BY <1>3, <2>1, CutEntries
  <2>3. bindings'[n] = IF n = mn THEN Append(c, id) ELSE c
    BY <1>1 DEF BoundTx
  <2> HIDE DEF c
  <2>4. \A i \in Nat : i \in Entries(c) <=> i \in 1..m /\ n \in DOMAIN transactions[i].bindings
    BY <1>2, <1>3, <1>10, <2>1, <2>2
  <2>5. \A j, k \in 1..Len(c) : j < k => c[j] < c[k]
    <3>1. \A k \in 1..Len(c) : k \in DOMAIN bindings[n] /\ c[k] = bindings[n][k]
      BY <2>2
    <3>2. QED
      BY <2>1, <3>1
  <2>6. \A k \in 1..Len(c) : c[k] \in 1..m
    BY <2>2, <2>4 DEF Entries
  <2>7. NextPrefix(c) /\ NextPrefix(Append(c, id))
    BY <1>12, <2>1, <2>6
  <2>8. CASE n = mn
    <3>1. /\ Append(c, id) \in Seq(Nat)
          /\ DOMAIN Append(c, id) = 1..Len(c) + 1
          /\ \A k \in 1..Len(c) : Append(c, id)[k] = c[k]
          /\ Append(c, id)[Len(c) + 1] = id
          /\ Entries(Append(c, id)) = Entries(c) \cup {id}
      BY <1>1, <2>2, AppendEntries
    <3>2. bindings'[n] = Append(c, id)
      BY <2>3, <2>8
    <3>3. \A i \in Nat : i \in Entries(c) \cup {id} <=>
            i \in 1..id /\ n \in DOMAIN transactions'[i].bindings
      <4>1. CASE id = m + 1
        BY <1>3, <1>10, <2>4, <2>8, <4>1
      <4>2. CASE id = m
        BY <1>1, <1>3, <1>10, <2>4, <2>8, <4>2
      <4>3. QED
        BY <1>10, <4>1, <4>2
    <3>4. Entries(bindings'[n]) = {i \in 1..id : n \in DOMAIN transactions'[i].bindings}
      BY <1>1, <2>2, <3>1, <3>2, <3>3
    <3>5. \A k \in 1..Len(c) : c[k] < id
      <4>1. CASE id = m + 1
        BY <1>3, <2>6, <4>1
      <4>2. CASE id = m
        <5>1. m \notin Entries(c)
          BY <1>3, <1>10, <2>4, <2>8, <4>2
        <5>2. \A k \in 1..Len(c) : c[k] # m
          BY <2>2, <5>1 DEF Entries
        <5>3. QED
          BY <1>3, <2>6, <4>2, <5>2
      <4>3. QED
        BY <1>10, <4>1, <4>2
    <3>6. ASSUME NEW j \in 1..Len(c) + 1, NEW k \in 1..Len(c) + 1, j < k
          PROVE  Append(c, id)[j] < Append(c, id)[k]
      <4>1. j \in 1..Len(c)
        BY <2>2, <3>6
      <4>2. CASE k \in 1..Len(c)
        BY <2>5, <3>1, <3>6, <4>1, <4>2
      <4>3. CASE k = Len(c) + 1
        BY <3>1, <3>5, <4>1, <4>3
      <4>4. QED
        BY <2>2, <4>2, <4>3
    <3>7. StepPrefix(bindings[n])'
      BY <2>7, <3>2 DEF StepPrefix, NextPrefix
    <3>8. QED
      BY <3>1, <3>2, <3>4, <3>6, <3>7
  <2>9. CASE n # mn
    <3>1. bindings'[n] = c
      BY <2>3, <2>9
    <3>2. \A i \in Nat : i \in Entries(c) <=>
            i \in 1..id /\ n \in DOMAIN transactions'[i].bindings
      <4>1. CASE id = m + 1
        BY <1>3, <1>10, <2>4, <2>9, <4>1
      <4>2. CASE id = m
        BY <1>1, <1>3, <1>10, <2>4, <2>9, <4>2
      <4>3. QED
        BY <1>10, <4>1, <4>2
    <3>3. Entries(c) = {i \in 1..id : n \in DOMAIN transactions'[i].bindings}
      BY <1>1, <2>2, <3>2
    <3>4. StepPrefix(bindings[n])'
      BY <2>7, <3>1 DEF StepPrefix, NextPrefix
    <3>5. QED
      BY <2>2, <2>5, <3>1, <3>3, <3>4
  <2>10. QED
    BY <2>8, <2>9
<1>15. /\ guarded' \in [Guards -> Seq(Nat)]
       /\ bindings' \in [Symbols -> Seq(Nat)]
       /\ curr_undo_id' \in Nat /\ last_undo_id' \in Nat
       /\ chilled' \subseteq Symbols
  <2>1. DOMAIN guarded' = Guards /\ guarded' = [g \in DOMAIN guarded' |-> guarded'[g]]
    BY <1>1 DEF BoundTx
  <2>2. DOMAIN bindings' = Symbols /\ bindings' = [n \in DOMAIN bindings' |-> bindings'[n]]
    BY <1>1 DEF BoundTx
  <2>3. guarded' \in [Guards -> Seq(Nat)]
    BY <1>13, <2>1
  <2>4. bindings' \in [Symbols -> Seq(Nat)]
    BY <1>14, <2>2
  <2>5. QED
    BY <1>2, <1>3, <1>4, <2>3, <2>4
<1>16. GuardListsExact'
  BY <1>4, <1>13 DEF GuardListsExact, Entries
<1>17. NodeListsExact'
  BY <1>4, <1>14 DEF NodeListsExact, Entries
<1>18. ListsByStep'
  BY <1>13, <1>14 DEF ListsByStep
<1>19. StepsListable'
  <2>1. SUFFICES ASSUME NEW g \in Guards, NEW u \in 1..last_undo_id'
                 PROVE  HasListing(OfGuard(g, u)')
    BY <1>4, StepsListableNext
  <2> DEFINE old == {i \in 1..m : transactions[i].guard = g /\ transactions[i].undo_id = u}
  <2>2. HasListing(old)
    <3>1. CASE u \in 1..last_undo_id /\ u <= curr_undo_id
      <4>1. OfGuard(g, u) = old
        BY <1>2, <1>3, <3>1 DEF OfGuard, OfStep
      <4>2. QED
        BY <3>1, <4>1, ListingsOfSteps
    <3>2. CASE ~(u \in 1..last_undo_id /\ u <= curr_undo_id)
      <4>1. u > curr_undo_id
        BY <1>2, <1>4, <2>1, <3>2
      <4>2. old = {}
        BY <1>2, <1>10, <2>1, <4>1
      <4>3. QED
        BY <4>2, ListingOfNone
    <3>3. QED
      BY <3>1, <3>2
  <2>3. OfGuard(g, u)' = {i \in 1..id : transactions'[i].guard = g /\ transactions'[i].undo_id = u}
    BY <1>4 DEF OfGuard, OfStep
  <2>4. old \in SUBSET Nat /\ \A j \in old : j <= m
    BY <1>3
  <2>5. CASE id = m + 1 /\ g = source /\ u = curr_undo_id'
    <3>1. OfGuard(g, u)' = old \cup {id}
      BY <1>3, <1>4, <1>10, <2>3, <2>5
    <3>2. \A j \in old : j < id
      BY <1>3, <2>4, <2>5
    <3>3. id \in Nat \ {0}
      BY <1>1
    <3> HIDE DEF old
    <3>4. QED
      BY <2>2, <2>4, <3>1, <3>2, <3>3, ListingOfOneMore
  <2>6. CASE ~(id = m + 1 /\ g = source /\ u = curr_undo_id')
    <3>1. OfGuard(g, u)' = old
      BY <1>3, <1>4, <1>10, <2>3, <2>6
    <3>2. QED
      BY <2>2, <3>1
  <2>7. QED
    BY <2>5, <2>6
<1>20. QED
  BY <1>4, <1>6, <1>7, <1>8, <1>9, <1>15, <1>16, <1>17, <1>18, <1>19 DEF LogInv

-----------------------------------------------------------------------------
(* Abort: the newest transactions are deleted.                             *)

(* Abort keeps the structure of the log.                                   *)
LEMMA AbortPreserves ==
  ASSUME IInv, TxAbort, chilled' \subseteq Symbols
  PROVE  LogInv'
<1>1. PICK m \in 0..Len(transactions) : LastCommitted(m) /\ DeleteAfter(m)
  BY DEF TxAbort
<1>2. /\ TxIds = 1..Len(transactions)
      /\ Len(transactions) \in Nat
      /\ \A i \in TxIds : /\ transactions[i] \in Transaction
                         /\ transactions[i].undo_id \in 1..last_undo_id
      /\ curr_undo_id \in Nat /\ last_undo_id \in Nat
      /\ curr_undo_id' = curr_undo_id /\ last_undo_id' = last_undo_id
      /\ curr_undo_id <= last_undo_id
      /\ m \in Nat /\ m <= Len(transactions)
  BY TxTypes DEF IInv, StepsInOrder, TypeOK, TxAbort
<1>3. /\ \A i \in TxIds : i <= m <=> "NEW" \notin transactions[i].flags
      /\ \E u \in 0..last_undo_id :
           \A i \in TxIds : i <= m <=> transactions[i].undo_id <= u
  BY <1>1, LastCommittedIsCut
<1>4. PICK v \in 0..last_undo_id : \A i \in TxIds : i <= m <=> transactions[i].undo_id <= v
  BY <1>3
<1>5. /\ transactions' \in Seq(Transaction)
      /\ Len(transactions') = m
      /\ TxIds' = 1..m
      /\ \A i \in 1..m : transactions'[i] = transactions[i] /\ i \in TxIds
  <2>1. transactions' = SubSeq(transactions, 1, m)
    BY <1>1 DEF DeleteAfter
  <2>2. \A i \in 1..m : transactions[i] \in Transaction /\ i \in TxIds
    BY <1>2
  <2>3. m \in Int /\ 1 \in Int
    BY <1>2
  <2>4. /\ SubSeq(transactions, 1, m) \in Seq(Transaction)
        /\ Len(SubSeq(transactions, 1, m)) = IF 1 <= m THEN m - 1 + 1 ELSE 0
        /\ \A i \in 1..m - 1 + 1 : SubSeq(transactions, 1, m)[i] = transactions[1 + i - 1]
    BY <2>2, <2>3, SubSeqProperties
  <2>5. transactions' \in Seq(Transaction) /\ Len(transactions') = m
    BY <1>2, <2>1, <2>4
  <2>6. \A i \in 1..m : transactions'[i] = transactions[i]
    BY <1>2, <2>1, <2>4
  <2>7. TxIds' = 1..m
    BY <2>5, LenProperties DEF TxIds
  <2>8. QED
    BY <2>2, <2>5, <2>6, <2>7
<1>6. StepsInOrder' /\ UndoneAreAhead' /\ NewAreNewestStep' /\ NewAreChilled'
  <2>1. StepsInOrder'
    BY <1>2, <1>5 DEF IInv, StepsInOrder
  <2>2. UndoneAreAhead'
    BY <1>2, <1>5 DEF IInv, UndoneAreAhead
  <2>3. \A i \in 1..m : "NEW" \notin transactions'[i].flags
    BY <1>3, <1>5
  <2>4. NewAreNewestStep' /\ NewAreChilled'
    BY <1>5, <2>3 DEF NewAreNewestStep, NewAreChilled
  <2>5. QED
    BY <2>1, <2>2, <2>4
<1>7. /\ \A g \in Guards : IsCut(Upto(guarded[g], m), guarded[g], m)
      /\ \A n \in Symbols : IsCut(Upto(bindings[n], m), bindings[n], m)
  BY <1>2, <1>4, ListsAreCut
<1>8. ASSUME NEW list \in Seq(Nat), NEW c, IsCut(c, list, m), StepPrefix(list),
             \A k \in 1..Len(c) : c[k] \in 1..m
      PROVE  NextPrefix(c)
  <2>1. SUFFICES ASSUME NEW u \in 0..last_undo_id
                 PROVE  \E l \in 0..Len(c) : \A k \in 1..Len(c) :
                          k <= l <=> transactions'[c[k]].undo_id <= u
    BY <1>2 DEF NextPrefix
  <2>2. PICK l \in 0..Len(c) : \A k \in 1..Len(c) : k <= l <=> transactions[c[k]].undo_id <= u
    BY <1>2, <1>8, CutByStep
  <2>3. QED
    BY <1>5, <1>8, <2>2
<1>9. ASSUME NEW g \in Guards
      PROVE  /\ guarded'[g] \in Seq(Nat)
             /\ Entries(guarded'[g]) =
                  {i \in 1..m : transactions'[i].guard = g /\ "UNDONE" \notin transactions'[i].flags}
             /\ \A j, k \in DOMAIN guarded'[g] : guarded'[g][j] = guarded'[g][k] => j = k
             /\ StepPrefix(guarded[g])'
  <2> DEFINE c == Upto(guarded[g], m)
  <2>1. /\ guarded[g] \in Seq(Nat) /\ IsCut(c, guarded[g], m)
        /\ Entries(guarded[g]) =
             {i \in TxIds : transactions[i].guard = g /\ "UNDONE" \notin transactions[i].flags}
        /\ \A j, k \in DOMAIN guarded[g] : guarded[g][j] = guarded[g][k] => j = k
        /\ StepPrefix(guarded[g])
    BY <1>7, EntriesAreTransactions DEF IInv, GuardListsExact, Entries, ListsByStep
  <2>2. /\ c \in Seq(Nat)
        /\ Len(guarded[g]) \in Nat /\ Len(c) \in Nat /\ Len(c) <= Len(guarded[g])
        /\ DOMAIN guarded[g] = 1..Len(guarded[g])
        /\ DOMAIN c = 1..Len(c)
        /\ \A k \in 1..Len(c) : c[k] = guarded[g][k]
        /\ \A i \in Nat : i \in Entries(c) <=> i \in Entries(guarded[g]) /\ i <= m
        /\ Entries(c) \subseteq Nat
    BY <1>2, <2>1, CutEntries
  <2>3. guarded'[g] = c
    BY <1>1 DEF DeleteAfter
  <2> HIDE DEF c
  <2>4. \A i \in Nat : i \in Entries(c) <=>
          i \in 1..m /\ transactions'[i].guard = g /\ "UNDONE" \notin transactions'[i].flags
    BY <1>2, <1>5, <2>1, <2>2
  <2>5. \A j, k \in 1..Len(c) : c[j] = c[k] => j = k
    <3>1. \A k \in 1..Len(c) : k \in DOMAIN guarded[g] /\ c[k] = guarded[g][k]
      BY <2>2
    <3>2. QED
      BY <2>1, <3>1
  <2>6. \A k \in 1..Len(c) : c[k] \in 1..m
    BY <2>2, <2>4 DEF Entries
  <2>7. StepPrefix(guarded[g])'
    BY <1>8, <2>1, <2>3, <2>6 DEF StepPrefix, NextPrefix
  <2>8. Entries(c) =
          {i \in 1..m : transactions'[i].guard = g /\ "UNDONE" \notin transactions'[i].flags}
    BY <1>2, <2>2, <2>4
  <2>9. QED
    BY <2>2, <2>3, <2>5, <2>7, <2>8
<1>10. ASSUME NEW n \in Symbols
       PROVE  /\ bindings'[n] \in Seq(Nat)
              /\ Entries(bindings'[n]) = {i \in 1..m : n \in DOMAIN transactions'[i].bindings}
              /\ \A j, k \in DOMAIN bindings'[n] : j < k => bindings'[n][j] < bindings'[n][k]
              /\ StepPrefix(bindings[n])'
  <2> DEFINE c == Upto(bindings[n], m)
  <2>1. /\ bindings[n] \in Seq(Nat) /\ IsCut(c, bindings[n], m)
        /\ Entries(bindings[n]) = {i \in TxIds : n \in DOMAIN transactions[i].bindings}
        /\ \A j, k \in DOMAIN bindings[n] : j < k => bindings[n][j] < bindings[n][k]
        /\ StepPrefix(bindings[n])
    BY <1>7, EntriesAreTransactions DEF IInv, NodeListsExact, Entries, ListsByStep
  <2>2. /\ c \in Seq(Nat)
        /\ Len(bindings[n]) \in Nat /\ Len(c) \in Nat /\ Len(c) <= Len(bindings[n])
        /\ DOMAIN bindings[n] = 1..Len(bindings[n])
        /\ DOMAIN c = 1..Len(c)
        /\ \A k \in 1..Len(c) : c[k] = bindings[n][k]
        /\ \A i \in Nat : i \in Entries(c) <=> i \in Entries(bindings[n]) /\ i <= m
        /\ Entries(c) \subseteq Nat
    BY <1>2, <2>1, CutEntries
  <2>3. bindings'[n] = c
    BY <1>1 DEF DeleteAfter
  <2> HIDE DEF c
  <2>4. \A i \in Nat : i \in Entries(c) <=> i \in 1..m /\ n \in DOMAIN transactions'[i].bindings
    BY <1>2, <1>5, <2>1, <2>2
  <2>5. \A j, k \in 1..Len(c) : j < k => c[j] < c[k]
    <3>1. \A k \in 1..Len(c) : k \in DOMAIN bindings[n] /\ c[k] = bindings[n][k]
      BY <2>2
    <3>2. QED
      BY <2>1, <3>1
  <2>6. \A k \in 1..Len(c) : c[k] \in 1..m
    BY <2>2, <2>4 DEF Entries
  <2>7. StepPrefix(bindings[n])'
    BY <1>8, <2>1, <2>3, <2>6 DEF StepPrefix, NextPrefix
  <2>8. Entries(c) = {i \in 1..m : n \in DOMAIN transactions'[i].bindings}
    BY <1>2, <2>2, <2>4
  <2>9. QED
    BY <2>2, <2>3, <2>5, <2>7, <2>8
<1>11. guarded' \in [Guards -> Seq(Nat)] /\ bindings' \in [Symbols -> Seq(Nat)]
  <2>1. DOMAIN guarded' = Guards /\ guarded' = [g \in DOMAIN guarded' |-> guarded'[g]]
    BY <1>1 DEF DeleteAfter
  <2>2. DOMAIN bindings' = Symbols /\ bindings' = [n \in DOMAIN bindings' |-> bindings'[n]]
    BY <1>1 DEF DeleteAfter
  <2>3. guarded' \in [Guards -> Seq(Nat)]
    BY <1>9, <2>1
  <2>4. QED
    BY <1>10, <2>2, <2>3
<1>12. GuardListsExact' /\ NodeListsExact' /\ ListsByStep'
  <2>1. GuardListsExact'
    BY <1>5, <1>9 DEF GuardListsExact, Entries
  <2>2. NodeListsExact'
    BY <1>5, <1>10 DEF NodeListsExact, Entries
  <2>3. ListsByStep'
    BY <1>9, <1>10 DEF ListsByStep
  <2>4. QED
    BY <2>1, <2>2, <2>3
<1>13. StepsListable'
  <2>1. SUFFICES ASSUME NEW g \in Guards, NEW u \in 1..last_undo_id
                 PROVE  HasListing(OfGuard(g, u)')
    BY <1>2, <1>5, StepsListableNext
  <2>2. OfGuard(g, u)' = {i \in 1..m : transactions[i].guard = g /\ transactions[i].undo_id = u}
    BY <1>5 DEF OfGuard, OfStep
  <2>3. CASE u <= v
    <3>1. OfGuard(g, u)' = OfGuard(g, u)
      BY <1>2, <1>4, <1>5, <2>2, <2>3 DEF OfGuard, OfStep
    <3>2. QED
      BY <3>1, ListingsOfSteps
  <2>4. CASE u > v
    <3>1. OfGuard(g, u)' = {}
      BY <1>2, <1>4, <1>5, <2>2, <2>4
    <3>2. QED
      BY <3>1, ListingOfNone
  <2>5. QED
    BY <1>2, <2>3, <2>4
<1>14. QED
  BY <1>2, <1>5, <1>6, <1>11, <1>12, <1>13 DEF LogInv

-----------------------------------------------------------------------------
(* Commit, undo and redo only change flags and the lists of the guards.    *)

Relabelled ==
  /\ transactions' \in Seq(Transaction)
  /\ Len(transactions') = Len(transactions)
  /\ \A i \in TxIds : /\ transactions'[i].guard = transactions[i].guard
                     /\ transactions'[i].undo_id = transactions[i].undo_id
                     /\ transactions'[i].bindings = transactions[i].bindings
  /\ bindings' = bindings
  /\ curr_undo_id' \in Nat
  /\ last_undo_id' = last_undo_id
  /\ curr_undo_id' <= last_undo_id

(* A step that changes only flags and the current step keeps what is said  *)
(* of the order of the steps and of the bindings.                          *)
LEMMA RelabelledKeeps ==
  ASSUME IInv, Relabelled
  PROVE  /\ TxIds' = TxIds
         /\ TxIds = 1..Len(transactions)
         /\ StepsInOrder'
         /\ NodeListsExact'
         /\ \A list : StepPrefix(list) /\ Entries(list) \subseteq TxIds
                        /\ DOMAIN list = 1..Len(list) => NextPrefix(list)
         /\ \A n \in Symbols : StepPrefix(bindings[n])'
         /\ StepsListable'
<1>1. TxIds = 1..Len(transactions) /\ Len(transactions) \in Nat
  BY TxTypes DEF IInv
<1>2. TxIds' = TxIds
  BY <1>1, LenProperties DEF Relabelled, TxIds
<1>3. StepsInOrder'
  BY <1>2 DEF Relabelled, IInv, StepsInOrder
<1>4. NodeListsExact'
  BY <1>2 DEF Relabelled, IInv, NodeListsExact
<1>5. ASSUME NEW list, StepPrefix(list), Entries(list) \subseteq TxIds, DOMAIN list = 1..Len(list)
      PROVE  NextPrefix(list)
  <2>1. \A k \in 1..Len(list) : transactions'[list[k]].undo_id = transactions[list[k]].undo_id
    BY <1>5 DEF Entries, Relabelled
  <2>2. last_undo_id' = last_undo_id
    BY DEF Relabelled
  <2>3. QED
    BY <1>5, <2>1, <2>2 DEF StepPrefix, NextPrefix
<1>6. ASSUME NEW n \in Symbols
      PROVE  StepPrefix(bindings[n])'
  <2>1. StepPrefix(bindings[n]) /\ Entries(bindings[n]) \subseteq TxIds
        /\ DOMAIN bindings[n] = 1..Len(bindings[n])
    BY EntriesAreTransactions DEF IInv, ListsByStep, NodeListsExact, Entries
  <2>2. NextPrefix(bindings[n])
    BY <1>5, <2>1
  <2>3. bindings'[n] = bindings[n]
    BY DEF Relabelled
  <2>4. QED
    BY <2>2, <2>3 DEF StepPrefix, NextPrefix
<1>7. StepsListable'
  <2>1. ASSUME NEW g \in Guards, NEW u \in 1..last_undo_id'
        PROVE  HasListing(OfGuard(g, u)')
    <3>1. u \in 1..last_undo_id
      BY DEF Relabelled
    <3>2. OfGuard(g, u)' = OfGuard(g, u)
      BY <1>2 DEF Relabelled, OfGuard, OfStep
    <3>3. QED
      BY <3>1, <3>2, ListingsOfSteps
  <2>2. QED
    BY <2>1, StepsListableNext DEF Relabelled
<1>8. QED
  BY <1>1, <1>2, <1>3, <1>4, <1>5, <1>6, <1>7


(* A record with other flags is a transaction with the same guard, step    *)
(* and bindings.                                                           *)
LEMMA FlagsChange ==
  ASSUME NEW t \in Transaction, NEW f \in SUBSET Flags
  PROVE  /\ [t EXCEPT !.flags = f] \in Transaction
         /\ [t EXCEPT !.flags = f].guard = t.guard
         /\ [t EXCEPT !.flags = f].undo_id = t.undo_id
         /\ [t EXCEPT !.flags = f].bindings = t.bindings
         /\ [t EXCEPT !.flags = f].flags = f
BY DEF Transaction

(* The loops meet every transaction of a step, and every NEW transaction.  *)
LEMMA LoopsMeetAll ==
  ASSUME IInv
  PROVE  /\ \A u \in Nat : Met(u) = OfStep(u)
         /\ \A i \in TxIds : "NEW" \in transactions[i].flags =>
              \A j \in i..Len(transactions) : "NEW" \in transactions[j].flags
<1>1. /\ TxIds = 1..Len(transactions)
      /\ Len(transactions) \in Nat
      /\ last_undo_id \in Nat
      /\ \A i \in TxIds : transactions[i].undo_id \in 1..last_undo_id
      /\ \A i, j \in TxIds : i < j => transactions[i].undo_id <= transactions[j].undo_id
  BY TxTypes DEF IInv, StepsInOrder, TypeOK
<1>2. \A i \in TxIds : \A j \in i..Len(transactions) :
        j \in TxIds /\ transactions[j].undo_id >= transactions[i].undo_id
  <2>1. ASSUME NEW i \in TxIds, NEW j \in i..Len(transactions)
        PROVE  j \in TxIds /\ transactions[j].undo_id >= transactions[i].undo_id
    <3>1. j \in TxIds /\ (i < j \/ i = j)
      BY <1>1
    <3>2. QED
      BY <1>1, <3>1
  <2>2. QED
    BY <2>1
<1>3. ASSUME NEW i \in TxIds, "NEW" \in transactions[i].flags, NEW j \in i..Len(transactions)
      PROVE  "NEW" \in transactions[j].flags
  <2>1. /\ transactions[i].undo_id = curr_undo_id
        /\ curr_undo_id = last_undo_id
        /\ \A x \in OfStep(curr_undo_id) : "NEW" \in transactions[x].flags
    BY <1>3 DEF IInv, NewAreNewestStep
  <2>2. j \in TxIds /\ transactions[j].undo_id = curr_undo_id
    BY <1>1, <1>2, <2>1
  <2>3. QED
    BY <2>1, <2>2 DEF OfStep
<1>4. ASSUME NEW u \in Nat
      PROVE  Met(u) = OfStep(u)
  BY <1>1, <1>2 DEF Met, OfStep
<1>5. QED
  BY <1>3, <1>4

(* What _cml_tx_commit makes of the log.                                   *)
LEMMA CommittedLog ==
  ASSUME IInv, NEW freeze \in BOOLEAN
  PROVE  /\ DOMAIN Committed(freeze) = TxIds
         /\ \A i \in TxIds :
              /\ Committed(freeze)[i] \in Transaction
              /\ Committed(freeze)[i].guard = transactions[i].guard
              /\ Committed(freeze)[i].undo_id = transactions[i].undo_id
              /\ Committed(freeze)[i].bindings = transactions[i].bindings
              /\ Committed(freeze)[i].flags \in SUBSET Flags
              /\ "NEW" \notin Committed(freeze)[i].flags
              /\ "UNDONE" \in Committed(freeze)[i].flags <=> "UNDONE" \in transactions[i].flags
<1>1. \A i \in TxIds : transactions[i] \in Transaction /\ transactions[i].flags \in SUBSET Flags
  BY TxTypes DEF IInv
<1>2. ASSUME NEW i \in TxIds
      PROVE  /\ Committed(freeze)[i] \in Transaction
             /\ Committed(freeze)[i].guard = transactions[i].guard
             /\ Committed(freeze)[i].undo_id = transactions[i].undo_id
             /\ Committed(freeze)[i].bindings = transactions[i].bindings
             /\ Committed(freeze)[i].flags \in SUBSET Flags
             /\ "NEW" \notin Committed(freeze)[i].flags
             /\ "UNDONE" \in Committed(freeze)[i].flags <=> "UNDONE" \in transactions[i].flags
  <2> DEFINE f == (transactions[i].flags \ {"NEW"}) \cup (IF freeze THEN {"FROZEN"} ELSE {})
  <2>1. f \in SUBSET Flags
    BY <1>1 DEF Flags
  <2>2. "NEW" \notin f /\ ("UNDONE" \in f <=> "UNDONE" \in transactions[i].flags)
    OBVIOUS
  <2>3. CASE "NEW" \in transactions[i].flags
    <3>1. Committed(freeze)[i] = [transactions[i] EXCEPT !.flags = f]
      BY <2>3, LoopsMeetAll DEF Committed
    <3> HIDE DEF f
    <3>2. QED
      BY <1>1, <2>1, <2>2, <3>1, FlagsChange
  <2>4. CASE "NEW" \notin transactions[i].flags
    <3>1. i \in i..Len(transactions)
      BY TxTypes DEF IInv
    <3>2. Committed(freeze)[i] = transactions[i]
      BY <2>4, <3>1 DEF Committed
    <3>3. QED
      BY <1>1, <2>4, <3>2
  <2>5. QED
    BY <2>3, <2>4
<1>3. QED
  BY <1>2 DEF Committed

(* Commit keeps the structure of the log.                                  *)
LEMMA CommitPreserves ==
  ASSUME IInv, NEW freeze \in BOOLEAN, transactions' = Committed(freeze),
         UNCHANGED <<guarded, bindings, curr_undo_id, last_undo_id>>,
         chilled' \subseteq Symbols
  PROVE  LogInv'
<1>1. /\ TxIds = 1..Len(transactions)
      /\ Len(transactions) \in Nat
      /\ curr_undo_id \in Nat /\ last_undo_id \in Nat /\ curr_undo_id <= last_undo_id
      /\ guarded \in [Guards -> Seq(Nat)] /\ bindings \in [Symbols -> Seq(Nat)]
  BY TxTypes DEF IInv, StepsInOrder, TypeOK
<1>2. /\ DOMAIN transactions' = TxIds
      /\ \A i \in TxIds :
           /\ transactions'[i] \in Transaction
           /\ transactions'[i].guard = transactions[i].guard
           /\ transactions'[i].undo_id = transactions[i].undo_id
           /\ transactions'[i].bindings = transactions[i].bindings
           /\ "NEW" \notin transactions'[i].flags
           /\ "UNDONE" \in transactions'[i].flags <=> "UNDONE" \in transactions[i].flags
  BY CommittedLog
<1>3. transactions' \in Seq(Transaction) /\ Len(transactions') = Len(transactions)
  <2>1. transactions' = [i \in 1..Len(transactions) |-> transactions'[i]]
    BY <1>1 DEF Committed
  <2>2. transactions' \in [1..Len(transactions) -> Transaction]
    BY <1>1, <1>2, <2>1
  <2>3. transactions' \in Seq(Transaction)
    BY <1>1, <2>2, SeqDef
  <2>4. QED
    BY <1>1, <1>2, <2>3, LenProperties
<1>4. Relabelled
  BY <1>1, <1>2, <1>3 DEF Relabelled
<1>5. /\ TxIds' = TxIds /\ StepsInOrder' /\ NodeListsExact' /\ StepsListable'
      /\ \A list : StepPrefix(list) /\ Entries(list) \subseteq TxIds
                     /\ DOMAIN list = 1..Len(list) => NextPrefix(list)
      /\ \A n \in Symbols : StepPrefix(bindings[n])'
  BY <1>4, RelabelledKeeps
<1>6. UndoneAreAhead'
  BY <1>2, <1>5 DEF IInv, UndoneAreAhead
<1>7. NewAreNewestStep' /\ NewAreChilled'
  BY <1>2, <1>5 DEF NewAreNewestStep, NewAreChilled
<1>8. GuardListsExact'
  BY <1>2, <1>5 DEF IInv, GuardListsExact
<1>9. ASSUME NEW g \in Guards
      PROVE  StepPrefix(guarded[g])'
  <2>1. StepPrefix(guarded[g]) /\ Entries(guarded[g]) \subseteq TxIds
        /\ DOMAIN guarded[g] = 1..Len(guarded[g])
    BY EntriesAreTransactions DEF IInv, ListsByStep, GuardListsExact, Entries
  <2>2. NextPrefix(guarded[g])
    BY <1>5, <2>1
  <2>3. QED
    BY <2>2 DEF StepPrefix, NextPrefix
<1>10. ListsByStep'
  BY <1>5, <1>9 DEF ListsByStep
<1>11. QED
  BY <1>1, <1>3, <1>5, <1>6, <1>7, <1>8, <1>10 DEF LogInv

(* Undo keeps the structure of the log.                                    *)
LEMMA UndoPreserves ==
  ASSUME IInv, Undo
  PROVE  LogInv'
<1>1. /\ TxIds = 1..Len(transactions)
      /\ Len(transactions) \in Nat
      /\ \A i \in TxIds : transactions[i].undo_id \in Nat
      /\ curr_undo_id \in Nat /\ last_undo_id \in Nat /\ curr_undo_id <= last_undo_id
      /\ chilled \subseteq Symbols
      /\ bindings \in [Symbols -> Seq(Nat)]
  BY TxTypes DEF IInv, StepsInOrder, TypeOK
<1>2. /\ curr_undo_id > 0
      /\ curr_undo_id' = curr_undo_id - 1
      /\ UNCHANGED <<bindings, last_undo_id, chilled>>
  BY <1>1 DEF Undo, NothingToUndo
<1>3. PICK m \in 0..Len(transactions) :
        /\ LastOfStep(m, curr_undo_id - 1)
        /\ guarded' = [g \in Guards |-> Upto(guarded[g], m)]
  BY DEF Undo
<1>4. m \in Nat /\ \A i \in TxIds : i <= m <=> transactions[i].undo_id <= curr_undo_id - 1
  BY <1>1, <1>2, <1>3, LastOfStepIsCut
<1> DEFINE C == Committed(FALSE)
<1>5. \A i \in TxIds :
        /\ C[i] \in Transaction
        /\ C[i].guard = transactions[i].guard
        /\ C[i].undo_id = transactions[i].undo_id
        /\ C[i].bindings = transactions[i].bindings
        /\ C[i].flags \in SUBSET Flags
        /\ "NEW" \notin C[i].flags
        /\ "UNDONE" \in C[i].flags <=> "UNDONE" \in transactions[i].flags
  BY CommittedLog
<1>6. transactions' = [i \in TxIds |->
          IF i \in OfStep(curr_undo_id)
          THEN [C[i] EXCEPT !.flags = @ \cup {"UNDONE"}]
          ELSE C[i]]
  BY <1>1, LoopsMeetAll DEF Undo
<1> HIDE DEF C
<1>7. ASSUME NEW i \in TxIds
      PROVE  /\ transactions'[i] \in Transaction
             /\ transactions'[i].guard = transactions[i].guard
             /\ transactions'[i].undo_id = transactions[i].undo_id
             /\ transactions'[i].bindings = transactions[i].bindings
             /\ "NEW" \notin transactions'[i].flags
             /\ "UNDONE" \in transactions'[i].flags <=>
                  "UNDONE" \in transactions[i].flags \/ transactions[i].undo_id = curr_undo_id
  <2>1. i \in OfStep(curr_undo_id) <=> transactions[i].undo_id = curr_undo_id
    BY DEF OfStep
  <2>2. CASE i \in OfStep(curr_undo_id)
    <3> DEFINE f == C[i].flags \cup {"UNDONE"}
    <3>1. f \in SUBSET Flags /\ "NEW" \notin f /\ "UNDONE" \in f
      BY <1>5 DEF Flags
    <3>2. transactions'[i] = [C[i] EXCEPT !.flags = f]
      BY <1>6, <2>2
    <3> HIDE DEF f
    <3>3. C[i] \in Transaction
      BY <1>5
    <3>4. /\ transactions'[i] \in Transaction
          /\ transactions'[i].guard = C[i].guard
          /\ transactions'[i].undo_id = C[i].undo_id
          /\ transactions'[i].bindings = C[i].bindings
          /\ transactions'[i].flags = f
      <4> DEFINE t == C[i]
      <4>1. t \in Transaction /\ transactions'[i] = [t EXCEPT !.flags = f]
        BY <3>2, <3>3
      <4> HIDE DEF t
      <4>2. /\ [t EXCEPT !.flags = f] \in Transaction
            /\ [t EXCEPT !.flags = f].guard = t.guard
            /\ [t EXCEPT !.flags = f].undo_id = t.undo_id
            /\ [t EXCEPT !.flags = f].bindings = t.bindings
            /\ [t EXCEPT !.flags = f].flags = f
        BY <3>1, <4>1, FlagsChange
      <4>3. QED
        BY <4>1, <4>2 DEF t
    <3>5. QED
      BY <1>5, <2>1, <2>2, <3>1, <3>4
  <2>3. CASE i \notin OfStep(curr_undo_id)
    BY <1>5, <1>6, <2>1, <2>3
  <2>4. QED
    BY <2>2, <2>3
<1>8. transactions' \in Seq(Transaction) /\ Len(transactions') = Len(transactions)
  <2>1. DOMAIN transactions' = TxIds /\ transactions' = [i \in DOMAIN transactions' |-> transactions'[i]]
    BY <1>6
  <2>2. transactions' \in [1..Len(transactions) -> Transaction]
    BY <1>1, <1>7, <2>1
  <2>3. transactions' \in Seq(Transaction)
    BY <1>1, <2>2, SeqDef
  <2>4. QED
    BY <1>1, <2>1, <2>3, LenProperties
<1>9. Relabelled
  BY <1>1, <1>2, <1>7, <1>8 DEF Relabelled
<1>10. /\ TxIds' = TxIds /\ StepsInOrder' /\ NodeListsExact' /\ StepsListable'
       /\ \A n \in Symbols : StepPrefix(bindings[n])'
  BY <1>9, RelabelledKeeps
<1>11. UndoneAreAhead'
  <2>1. ASSUME NEW i \in TxIds
        PROVE  "UNDONE" \in transactions'[i].flags <=> transactions'[i].undo_id > curr_undo_id'
    <3>1. "UNDONE" \in transactions[i].flags <=> transactions[i].undo_id > curr_undo_id
      BY DEF IInv, UndoneAreAhead
    <3>2. QED
      BY <1>1, <1>2, <1>7, <3>1
  <2>2. QED
    BY <1>10, <2>1 DEF UndoneAreAhead
<1>12. NewAreNewestStep' /\ NewAreChilled'
  BY <1>7, <1>10 DEF NewAreNewestStep, NewAreChilled
<1>13. curr_undo_id - 1 \in 0..last_undo_id
  BY <1>1, <1>2
<1>14. ASSUME NEW g \in Guards
       PROVE  /\ guarded'[g] \in Seq(Nat)
              /\ Entries(guarded'[g]) =
                   {i \in TxIds : transactions'[i].guard = g /\ "UNDONE" \notin transactions'[i].flags}
              /\ \A j, k \in DOMAIN guarded'[g] : guarded'[g][j] = guarded'[g][k] => j = k
              /\ StepPrefix(guarded[g])'
  <2> DEFINE c == Upto(guarded[g], m)
  <2>1. /\ guarded[g] \in Seq(Nat) /\ IsCut(c, guarded[g], m)
        /\ Entries(guarded[g]) =
             {i \in TxIds : transactions[i].guard = g /\ "UNDONE" \notin transactions[i].flags}
        /\ \A j, k \in DOMAIN guarded[g] : guarded[g][j] = guarded[g][k] => j = k
        /\ StepPrefix(guarded[g])
    BY <1>4, <1>13, ListsAreCut, EntriesAreTransactions DEF IInv, GuardListsExact, Entries, ListsByStep
  <2>2. /\ c \in Seq(Nat)
        /\ Len(guarded[g]) \in Nat /\ Len(c) \in Nat /\ Len(c) <= Len(guarded[g])
        /\ DOMAIN guarded[g] = 1..Len(guarded[g])
        /\ DOMAIN c = 1..Len(c)
        /\ \A k \in 1..Len(c) : c[k] = guarded[g][k]
        /\ \A i \in Nat : i \in Entries(c) <=> i \in Entries(guarded[g]) /\ i <= m
        /\ Entries(c) \subseteq Nat
    BY <1>4, <2>1, CutEntries
  <2>3. guarded'[g] = c
    BY <1>3
  <2> HIDE DEF c
  <2>4. \A i \in Nat : i \in Entries(c) <=>
          i \in TxIds /\ transactions'[i].guard = g /\ "UNDONE" \notin transactions'[i].flags
    <3>1. \A i \in TxIds : "UNDONE" \notin transactions'[i].flags <=>
             "UNDONE" \notin transactions[i].flags /\ i <= m
      <4>1. \A i \in TxIds : "UNDONE" \in transactions[i].flags <=> transactions[i].undo_id > curr_undo_id
        BY DEF IInv, UndoneAreAhead
      <4>2. QED
        BY <1>1, <1>4, <1>7, <4>1
    <3>2. QED
      BY <1>7, <2>1, <2>2, <3>1
  <2>5. \A j, k \in 1..Len(c) : c[j] = c[k] => j = k
    <3>1. \A k \in 1..Len(c) : k \in DOMAIN guarded[g] /\ c[k] = guarded[g][k]
      BY <2>2
    <3>2. QED
      BY <2>1, <3>1
  <2>6. Entries(c) =
          {i \in TxIds : transactions'[i].guard = g /\ "UNDONE" \notin transactions'[i].flags}
    BY <1>1, <2>2, <2>4
  <2>7. StepPrefix(guarded[g])'
    <3>1. NextPrefix(c)
      <4>1. SUFFICES ASSUME NEW u \in 0..last_undo_id
                     PROVE  \E l \in 0..Len(c) : \A k \in 1..Len(c) :
                              k <= l <=> transactions'[c[k]].undo_id <= u
        BY <1>2 DEF NextPrefix
      <4>2. PICK l \in 0..Len(c) : \A k \in 1..Len(c) : k <= l <=> transactions[c[k]].undo_id <= u
        BY <1>1, <1>4, <2>1, CutByStep
      <4>3. \A k \in 1..Len(c) : c[k] \in TxIds
        BY <2>2, <2>6 DEF Entries
      <4>4. QED
        BY <1>7, <4>2, <4>3
    <3>2. QED
      BY <2>3, <3>1 DEF StepPrefix, NextPrefix
  <2>8. QED
    BY <2>2, <2>3, <2>5, <2>6, <2>7
<1>15. guarded' \in [Guards -> Seq(Nat)]
  <2>1. DOMAIN guarded' = Guards /\ guarded' = [g \in DOMAIN guarded' |-> guarded'[g]]
    BY <1>3
  <2>2. QED
    BY <1>14, <2>1
<1>16. GuardListsExact'
  BY <1>10, <1>14 DEF GuardListsExact, Entries
<1>17. ListsByStep'
  BY <1>10, <1>14 DEF ListsByStep
<1>18. QED
  BY <1>1, <1>2, <1>8, <1>10, <1>11, <1>12, <1>15, <1>16, <1>17 DEF LogInv


(* What redo pushes on the list of a guard.                                *)
LEMMA PushedLists ==
  ASSUME IInv, NEW g \in Guards, NEW u \in 1..last_undo_id
  PROVE  /\ Pushed(OfGuard(g, u)) \in Seq(OfGuard(g, u))
         /\ NewestFirst(OfGuard(g, u), Pushed(OfGuard(g, u)))
<1> DEFINE S == OfGuard(g, u)
           Lists == UNION {[1..n -> S] : n \in 0..Len(transactions)}
<1>1. Len(transactions) \in Nat
  BY TxTypes DEF IInv
<1>2. \E list \in Lists : NewestFirst(S, list)
  BY DEF IInv, StepsListable
<1>3. Pushed(S) \in Lists /\ NewestFirst(S, Pushed(S))
  BY <1>2 DEF Pushed
<1>4. Lists \subseteq Seq(S)
  BY <1>1, SeqDef
<1>5. QED
  BY <1>3, <1>4

(* The entries of two lists put together.                                  *)
LEMMA ConcatEntries ==
  ASSUME NEW c \in Seq(Nat), NEW d \in Seq(Nat)
  PROVE  /\ c \o d \in Seq(Nat)
         /\ Len(c) \in Nat /\ Len(d) \in Nat
         /\ Len(c \o d) = Len(c) + Len(d)
         /\ DOMAIN (c \o d) = 1..Len(c) + Len(d)
         /\ \A k \in 1..Len(c) : (c \o d)[k] = c[k]
         /\ \A k \in 1..Len(d) : (c \o d)[Len(c) + k] = d[k]
         /\ \A k \in 1..Len(c) + Len(d) :
              \/ k \in 1..Len(c)
              \/ k - Len(c) \in 1..Len(d) /\ (c \o d)[k] = d[k - Len(c)]
<1> DEFINE e == c \o d
           p == Len(c)
           q == Len(d)
<1>1. /\ p \in Nat /\ q \in Nat
      /\ e \in Seq(Nat) /\ Len(e) = p + q
      /\ \A i \in 1..p + q : e[i] = IF i <= p THEN c[i] ELSE d[i - p]
  BY LenProperties, ConcatProperties
<1>2. DOMAIN e = 1..p + q
  BY <1>1, LenProperties
<1> HIDE DEF e, p, q
<1>3. ASSUME NEW k \in 1..p
      PROVE  e[k] = c[k]
  BY <1>1
<1>4. ASSUME NEW k \in 1..q
      PROVE  e[p + k] = d[k]
  <2>1. p + k \in 1..p + q /\ ~(p + k <= p) /\ p + k - p = k
    BY <1>1
  <2>2. QED
    BY <1>1, <2>1
<1>5. ASSUME NEW k \in 1..p + q, k \notin 1..p
      PROVE  k - p \in 1..q /\ e[k] = d[k - p]
  BY <1>1, <1>5
<1>6. QED
  BY <1>1, <1>2, <1>3, <1>4, <1>5 DEF e, p, q

(* Redo keeps the structure of the log.                                    *)
LEMMA RedoPreserves ==
  ASSUME IInv, Redo
  PROVE  LogInv'
<1> DEFINE u == curr_undo_id + 1
<1>1. /\ TxIds = 1..Len(transactions)
      /\ Len(transactions) \in Nat
      /\ \A i \in TxIds : /\ transactions[i].undo_id \in 1..last_undo_id
                         /\ transactions[i] \in Transaction
                         /\ transactions[i].flags \in SUBSET Flags
      /\ curr_undo_id \in Nat /\ last_undo_id \in Nat /\ curr_undo_id <= last_undo_id
      /\ chilled \subseteq Symbols
      /\ bindings \in [Symbols -> Seq(Nat)]
  BY TxTypes DEF IInv, StepsInOrder, TypeOK
<1>2. /\ curr_undo_id # last_undo_id
      /\ curr_undo_id' = u
      /\ UNCHANGED <<bindings, last_undo_id, chilled>>
      /\ transactions' = [i \in TxIds |->
            IF i \in OfStep(u) THEN [transactions[i] EXCEPT !.flags = @ \ {"UNDONE"}]
            ELSE transactions[i]]
      /\ guarded' = [g \in Guards |-> guarded[g] \o Pushed(OfGuard(g, u))]
  <2>1. Met(u) = OfStep(u)
    BY <1>1, LoopsMeetAll
  <2>2. \A g : MetOfGuard(g, u) = OfGuard(g, u)
    BY <2>1 DEF MetOfGuard, OfGuard
  <2>3. QED
    BY <2>1, <2>2 DEF Redo
<1>3. u \in 1..last_undo_id /\ u > curr_undo_id /\ u \in Nat
  BY <1>1, <1>2
<1>4. ASSUME NEW i \in TxIds
      PROVE  /\ transactions'[i] \in Transaction
             /\ transactions'[i].guard = transactions[i].guard
             /\ transactions'[i].undo_id = transactions[i].undo_id
             /\ transactions'[i].bindings = transactions[i].bindings
             /\ "NEW" \notin transactions'[i].flags
             /\ "UNDONE" \in transactions'[i].flags <=>
                  "UNDONE" \in transactions[i].flags /\ transactions[i].undo_id # u
  <2>1. i \in OfStep(u) <=> transactions[i].undo_id = u
    BY DEF OfStep
  <2>2. "NEW" \notin transactions[i].flags
    BY <1>2 DEF IInv, NewAreNewestStep
  <2>3. CASE i \in OfStep(u)
    <3> DEFINE f == transactions[i].flags \ {"UNDONE"}
               t == transactions[i]
    <3>1. f \in SUBSET Flags /\ "NEW" \notin f /\ "UNDONE" \notin f
      BY <1>1, <2>2
    <3>2. t \in Transaction /\ transactions'[i] = [t EXCEPT !.flags = f]
      BY <1>1, <1>2, <2>3
    <3> HIDE DEF f, t
    <3>3. /\ [t EXCEPT !.flags = f] \in Transaction
          /\ [t EXCEPT !.flags = f].guard = t.guard
          /\ [t EXCEPT !.flags = f].undo_id = t.undo_id
          /\ [t EXCEPT !.flags = f].bindings = t.bindings
          /\ [t EXCEPT !.flags = f].flags = f
      BY <3>1, <3>2, FlagsChange
    <3>4. QED
      BY <2>1, <2>3, <3>1, <3>2, <3>3 DEF t
  <2>4. CASE i \notin OfStep(u)
    BY <1>1, <1>2, <2>1, <2>2, <2>4
  <2>5. QED
    BY <2>3, <2>4
<1>5. transactions' \in Seq(Transaction) /\ Len(transactions') = Len(transactions)
  <2>1. DOMAIN transactions' = TxIds /\ transactions' = [i \in DOMAIN transactions' |-> transactions'[i]]
    BY <1>2
  <2>2. transactions' \in [1..Len(transactions) -> Transaction]
    BY <1>1, <1>4, <2>1
  <2>3. transactions' \in Seq(Transaction)
    BY <1>1, <2>2, SeqDef
  <2>4. QED
    BY <1>1, <2>1, <2>3, LenProperties
<1>6. Relabelled
  BY <1>1, <1>2, <1>3, <1>4, <1>5 DEF Relabelled
<1>7. /\ TxIds' = TxIds /\ StepsInOrder' /\ NodeListsExact' /\ StepsListable'
      /\ \A n \in Symbols : StepPrefix(bindings[n])'
  BY <1>6, RelabelledKeeps
<1>8. \A i \in TxIds : "UNDONE" \in transactions[i].flags <=> transactions[i].undo_id > curr_undo_id
  BY DEF IInv, UndoneAreAhead
<1>9. UndoneAreAhead'
  <2>1. ASSUME NEW i \in TxIds
        PROVE  "UNDONE" \in transactions'[i].flags <=> transactions'[i].undo_id > curr_undo_id'
    <3>1. transactions[i].undo_id \in Nat /\ transactions'[i].undo_id = transactions[i].undo_id
      BY <1>1, <1>4
    <3>2. "UNDONE" \in transactions'[i].flags <=>
            transactions[i].undo_id > curr_undo_id /\ transactions[i].undo_id # curr_undo_id + 1
      BY <1>4, <1>8
    <3>3. QED
      BY <1>1, <1>2, <3>1, <3>2
  <2>2. QED
    BY <1>7, <2>1 DEF UndoneAreAhead
<1>10. NewAreNewestStep' /\ NewAreChilled'
  BY <1>4, <1>7 DEF NewAreNewestStep, NewAreChilled
<1>11. ASSUME NEW g \in Guards
       PROVE  /\ guarded'[g] \in Seq(Nat)
              /\ Entries(guarded'[g]) =
                   {i \in TxIds : transactions'[i].guard = g /\ "UNDONE" \notin transactions'[i].flags}
              /\ \A j, k \in DOMAIN guarded'[g] : guarded'[g][j] = guarded'[g][k] => j = k
              /\ StepPrefix(guarded[g])'
  <2> DEFINE c == guarded[g]
             S == OfGuard(g, u)
             d == Pushed(S)
             e == c \o d
  <2>1. /\ c \in Seq(Nat) /\ Len(c) \in Nat /\ DOMAIN c = 1..Len(c)
        /\ {c[k] : k \in DOMAIN c} =
             {i \in TxIds : transactions[i].guard = g /\ "UNDONE" \notin transactions[i].flags}
        /\ \A j, k \in DOMAIN c : c[j] = c[k] => j = k
        /\ StepPrefix(c)
    BY EntriesAreTransactions DEF IInv, GuardListsExact, ListsByStep
  <2>2. d \in Seq(S) /\ NewestFirst(S, d)
    BY <1>3, PushedLists
  <2>3. guarded'[g] = e
    BY <1>2
  <2>4. S = {i \in TxIds : transactions[i].guard = g /\ transactions[i].undo_id = u}
    BY DEF OfGuard, OfStep
  <2>5. S \subseteq Nat
    BY <1>1, <2>4
  <2> HIDE DEF c, d, S, u
  <2>6. /\ Len(d) \in Nat /\ DOMAIN d = 1..Len(d)
        /\ \A k \in 1..Len(d) : d[k] \in S
        /\ \A i \in S : \E k \in 1..Len(d) : d[k] = i
        /\ \A j, k \in 1..Len(d) : d[j] = d[k] => j = k
        /\ d \in Seq(Nat)
    <3>1. /\ Len(d) \in Nat /\ DOMAIN d = 1..Len(d)
          /\ \A k \in 1..Len(d) : d[k] \in S
      BY <2>2, LenProperties, ElementOfSeq
    <3>2. /\ \A i \in S : \E k \in 1..Len(d) : d[k] = i
          /\ \A j, k \in 1..Len(d) : j < k => d[j] > d[k]
      BY <2>2, <3>1 DEF NewestFirst
    <3>3. ASSUME NEW j \in 1..Len(d), NEW k \in 1..Len(d), d[j] = d[k]
          PROVE  j = k
      <4>1. d[j] \in Nat /\ ~(d[j] > d[k]) /\ ~(d[k] > d[j])
        <5>1. d[j] \in Nat
          BY <2>5, <3>1
        <5>2. \A x \in Nat : ~(x > x)
          OBVIOUS
        <5>3. QED
          BY <3>3, <5>1, <5>2
      <4>2. QED
        <5>1. ~(j < k) /\ ~(k < j)
          BY <3>2, <4>1
        <5>2. j \in Nat /\ k \in Nat
          BY <3>1
        <5>3. QED
          BY <5>1, <5>2
    <3>4. d \in Seq(Nat)
      <4>1. d \in [1..Len(d) -> S]
        BY <2>2, LenProperties
      <4>2. d \in [1..Len(d) -> Nat]
        BY <2>5, <4>1
      <4>3. QED
        BY <3>1, <4>2, SeqDef
    <3>5. QED
      BY <3>1, <3>2, <3>3, <3>4
  <2>7. /\ e \in Seq(Nat) /\ Len(e) = Len(c) + Len(d)
        /\ DOMAIN e = 1..Len(c) + Len(d)
        /\ \A k \in 1..Len(c) : e[k] = c[k]
        /\ \A k \in 1..Len(d) : e[Len(c) + k] = d[k]
        /\ \A k \in 1..Len(c) + Len(d) :
             k \in 1..Len(c) \/ (k - Len(c) \in 1..Len(d) /\ e[k] = d[k - Len(c)])
    BY <2>1, <2>6, ConcatEntries
  <2> HIDE DEF e
  <2>8. \A k \in 1..Len(c) + Len(d) :
          k \in 1..Len(c) \/ (k - Len(c) \in 1..Len(d) /\ e[k] = d[k - Len(c)])
    BY <2>7
  <2>9. \A i \in Nat : i \in Entries(c) <=>
          i \in TxIds /\ transactions[i].guard = g /\ transactions[i].undo_id <= curr_undo_id
    <3>1. \A i \in TxIds : transactions[i].undo_id \in Nat /\ curr_undo_id \in Nat
      BY <1>1
    <3>2. \A i \in TxIds : "UNDONE" \notin transactions[i].flags <=>
                             transactions[i].undo_id <= curr_undo_id
      BY <1>8, <3>1
    <3>3. \A i : i \in Entries(c) <=>
                   i \in TxIds /\ transactions[i].guard = g /\ "UNDONE" \notin transactions[i].flags
      BY <2>1 DEF Entries
    <3>4. QED
      BY <3>2, <3>3
  <2>10. \A k \in 1..Len(c) : c[k] \in TxIds /\ transactions[c[k]].undo_id <= curr_undo_id
    <3>1. \A k \in 1..Len(c) : c[k] \in Nat /\ c[k] \in Entries(c)
      BY <2>1, ElementOfSeq DEF Entries
    <3>2. QED
      BY <2>9, <3>1
  <2>11. \A k \in 1..Len(d) : d[k] \in TxIds /\ transactions[d[k]].undo_id = u
    BY <2>4, <2>6
  <2>12. Entries(e) =
           {i \in TxIds : transactions'[i].guard = g /\ "UNDONE" \notin transactions'[i].flags}
    <3> DEFINE R == {i \in TxIds : transactions'[i].guard = g /\ "UNDONE" \notin transactions'[i].flags}
    <3>1. \A i \in TxIds : i \in R <=> i \in Entries(c) \/ i \in S
      BY <1>1, <1>3, <1>4, <1>8, <2>4, <2>9
    <3> HIDE DEF R
    <3>2. ASSUME NEW k \in 1..Len(c) + Len(d)
          PROVE  e[k] \in R
      <4>1. CASE k \in 1..Len(c)
        BY <2>1, <2>7, <2>10, <3>1, <4>1 DEF Entries
      <4>2. CASE k - Len(c) \in 1..Len(d) /\ e[k] = d[k - Len(c)]
        BY <2>6, <2>11, <3>1, <4>2
      <4>3. QED
        BY <2>8, <4>1, <4>2
    <3>3. ASSUME NEW i \in R
          PROVE  \E k \in 1..Len(c) + Len(d) : e[k] = i
      <4>1. i \in TxIds
        BY DEF R
      <4>2. CASE i \in Entries(c)
        <5>1. PICK k \in 1..Len(c) : c[k] = i
          BY <2>1, <4>2 DEF Entries
        <5>2. k \in 1..Len(c) + Len(d) /\ e[k] = i
          BY <2>1, <2>6, <2>7, <5>1
        <5>3. QED
          BY <5>2
      <4>3. CASE i \in S
        <5>1. PICK k \in 1..Len(d) : d[k] = i
          BY <2>6, <4>3
        <5>2. Len(c) + k \in 1..Len(c) + Len(d) /\ e[Len(c) + k] = i
          BY <2>1, <2>6, <2>7, <5>1
        <5>3. QED
          BY <5>2
      <4>4. QED
        BY <3>1, <4>1, <4>2, <4>3
    <3>4. Entries(e) \subseteq R
      BY <2>7, <3>2 DEF Entries
    <3>5. R \subseteq Entries(e)
      BY <2>7, <3>3 DEF Entries
    <3>6. QED
      BY <3>4, <3>5 DEF R
  <2>13. ASSUME NEW j \in 1..Len(c) + Len(d), NEW k \in 1..Len(c) + Len(d), e[j] = e[k]
         PROVE  j = k
    <3>1. \A x \in 1..Len(c), y \in 1..Len(d) : c[x] # d[y]
      BY <1>1, <1>3, <2>10, <2>11
    <3>2. CASE j \in 1..Len(c) /\ k \in 1..Len(c)
      BY <2>1, <2>7, <2>13, <3>2
    <3>3. CASE j \in 1..Len(c) /\ k \notin 1..Len(c)
      BY <2>7, <2>8, <2>13, <3>1, <3>3
    <3>4. CASE j \notin 1..Len(c) /\ k \in 1..Len(c)
      BY <2>7, <2>8, <2>13, <3>1, <3>4
    <3>5. CASE j \notin 1..Len(c) /\ k \notin 1..Len(c)
      <4>1. /\ j - Len(c) \in 1..Len(d) /\ e[j] = d[j - Len(c)]
            /\ k - Len(c) \in 1..Len(d) /\ e[k] = d[k - Len(c)]
        BY <2>8, <3>5
      <4>2. j - Len(c) = k - Len(c)
        BY <2>6, <2>13, <4>1
      <4>3. QED
        BY <2>1, <2>6, <4>2
    <3>6. QED
      BY <3>2, <3>3, <3>4, <3>5
  <2>14. NextPrefix(e)
    <3>1. SUFFICES ASSUME NEW v \in 0..last_undo_id
                   PROVE  \E l \in 0..Len(e) : \A k \in 1..Len(e) :
                            k <= l <=> transactions'[e[k]].undo_id <= v
      BY <1>2 DEF NextPrefix
    <3>2. \A k \in 1..Len(c) : transactions'[e[k]].undo_id = transactions[c[k]].undo_id
      BY <1>4, <2>7, <2>10
    <3>3. \A k \in 1..Len(d) : transactions'[d[k]].undo_id = u
      BY <1>4, <2>11
    <3>4. ASSUME NEW k \in 1..Len(e), k \notin 1..Len(c)
          PROVE  transactions'[e[k]].undo_id = u
      <4>1. k \in 1..Len(c) + Len(d)
        BY <2>7
      <4>2. k - Len(c) \in 1..Len(d) /\ e[k] = d[k - Len(c)]
        BY <2>8, <3>4, <4>1
      <4>3. QED
        BY <3>3, <4>2
    <3>5. CASE v >= u
      <4>1. \A k \in 1..Len(e) : transactions'[e[k]].undo_id <= v
        <5>1. \A k \in 1..Len(c) : transactions[c[k]].undo_id <= curr_undo_id /\ transactions[c[k]].undo_id \in Nat
          BY <1>1, <2>10
        <5>2. QED
          BY <1>1, <1>3, <3>2, <3>4, <3>5, <5>1
      <4>2. Len(e) \in 0..Len(e) /\ \A k \in 1..Len(e) : k <= Len(e) <=> transactions'[e[k]].undo_id <= v
        BY <2>1, <2>6, <2>7, <4>1
      <4>3. QED
        BY <4>2
    <3>6. CASE ~(v >= u)
      <4>1. PICK l \in 0..Len(c) : \A k \in 1..Len(c) : k <= l <=> transactions[c[k]].undo_id <= v
        BY <2>1 DEF StepPrefix
      <4>2. \A k \in 1..Len(e) : k <= l <=> transactions'[e[k]].undo_id <= v
        BY <1>3, <2>1, <3>2, <3>4, <3>6, <4>1
      <4>3. l \in 0..Len(e)
        BY <2>1, <2>6, <2>7
      <4>4. QED
        BY <4>2, <4>3
    <3>7. QED
      BY <3>5, <3>6
  <2>15. StepPrefix(guarded[g])'
    BY <2>3, <2>14 DEF StepPrefix, NextPrefix
  <2>16. QED
    BY <2>3, <2>7, <2>12, <2>13, <2>15
<1>12. guarded' \in [Guards -> Seq(Nat)]
  <2>1. DOMAIN guarded' = Guards /\ guarded' = [g \in DOMAIN guarded' |-> guarded'[g]]
    BY <1>2
  <2>2. QED
    BY <1>11, <2>1
<1>13. GuardListsExact'
  BY <1>7, <1>11 DEF GuardListsExact, Entries
<1>14. ListsByStep'
  BY <1>7, <1>11 DEF ListsByStep
<1>15. QED
  BY <1>1, <1>2, <1>3, <1>5, <1>7, <1>9, <1>10, <1>12, <1>13, <1>14 DEF LogInv


(* Clear keeps the structure of the log.                                   *)
LEMMA ClearPreserves ==
  ASSUME IInv, Clear
  PROVE  LogInv'
<1>1. /\ transactions' = <<>>
      /\ guarded' = [g \in Guards |-> <<>>]
      /\ bindings' = [n \in Symbols |-> <<>>]
      /\ curr_undo_id' = 0 /\ last_undo_id' = 0
      /\ chilled' \subseteq Symbols
  BY DEF Clear, IInv, TypeOK
<1>2. TxIds' = {}
  BY <1>1 DEF TxIds
<1>3. StepsInOrder' /\ UndoneAreAhead' /\ NewAreNewestStep' /\ NewAreChilled'
  BY <1>1, <1>2 DEF StepsInOrder, UndoneAreAhead, NewAreNewestStep, NewAreChilled
<1>4. GuardListsExact' /\ NodeListsExact'
  BY <1>1, <1>2 DEF GuardListsExact, NodeListsExact
<1>5. ListsByStep' /\ StepsListable'
  BY <1>1 DEF ListsByStep, StepPrefix, StepsListable
<1>6. /\ transactions' \in Seq(Transaction)
      /\ guarded' \in [Guards -> Seq(Nat)]
      /\ bindings' \in [Symbols -> Seq(Nat)]
  BY <1>1
<1>7. QED
  BY <1>1, <1>3, <1>4, <1>5, <1>6 DEF LogInv

-----------------------------------------------------------------------------
(* The inductive invariant.                                                *)

(* The inductive invariant holds of the empty log.                         *)
LEMMA InitEstablishes == Init => IInv
<1> SUFFICES ASSUME Init PROVE IInv
  OBVIOUS
<1>1. TypeOK
  <2>1. /\ transactions \in Seq(Transaction)
        /\ guarded \in [Guards -> Seq(Nat)]
        /\ bindings \in [Symbols -> Seq(Nat)]
        /\ curr_undo_id \in Nat /\ last_undo_id \in Nat
        /\ chilled \subseteq Symbols
    BY DEF Init
  <2>2. failed \in BOOLEAN /\ aborted \in BOOLEAN /\ call \in Guards \cup {NoCall}
    BY DEF Init
  <2>3. QED
    BY <2>1, <2>2 DEF TypeOK
<1>2. TxIds = {}
  BY DEF Init, TxIds
<1>3. StepsInOrder /\ UndoneAreAhead /\ NewAreNewestStep /\ NewAreChilled
  BY <1>2 DEF Init, StepsInOrder, UndoneAreAhead, NewAreNewestStep, NewAreChilled
<1>4. GuardListsExact /\ NodeListsExact
  BY <1>2 DEF Init, GuardListsExact, NodeListsExact
<1>5. ListsByStep
  BY DEF Init, ListsByStep, StepPrefix
<1>6. StepsListable
  BY DEF Init, StepsListable
<1>7. QED
  BY <1>1, <1>3, <1>4, <1>5, <1>6 DEF IInv

(* What is left of IInv when the log is taken care of.                     *)
LEMMA FromLog ==
  ASSUME LogInv', failed' \in BOOLEAN, call' \in Guards \cup {NoCall}, aborted' \in BOOLEAN
  PROVE  IInv'
BY DEF LogInv, IInv, TypeOK

(* A step that leaves the log alone and unchills nothing keeps it.         *)
LEMMA LogUnchanged ==
  ASSUME IInv, UNCHANGED log, chilled \subseteq chilled', chilled' \subseteq Symbols
  PROVE  LogInv'
<1>1. /\ transactions' = transactions /\ guarded' = guarded /\ bindings' = bindings
      /\ curr_undo_id' = curr_undo_id /\ last_undo_id' = last_undo_id
  BY DEF log
<1>2. TxIds' = TxIds
  BY <1>1 DEF TxIds
<1>3. StepsInOrder' /\ UndoneAreAhead' /\ NewAreNewestStep'
  BY <1>1, <1>2 DEF IInv, StepsInOrder, UndoneAreAhead, NewAreNewestStep, OfStep
<1>4. NewAreChilled'
  BY <1>1, <1>2 DEF IInv, NewAreChilled
<1>5. GuardListsExact' /\ NodeListsExact'
  BY <1>1, <1>2 DEF IInv, GuardListsExact, NodeListsExact
<1>6. ListsByStep'
  BY <1>1 DEF IInv, ListsByStep, StepPrefix
<1>7. \A g, u : OfGuard(g, u)' = OfGuard(g, u)
  BY <1>1, <1>2 DEF OfGuard, OfStep
<1>8. StepsListable'
  BY <1>1, <1>7 DEF IInv, StepsListable
<1>9. QED
  BY <1>1, <1>3, <1>4, <1>5, <1>6, <1>8 DEF LogInv, IInv, TypeOK

(* Every further binding of a call keeps the structure of the log.         *)
LEMMA BindStep ==
  ASSUME IInv, NEW mn \in Symbols, NEW a \in Values, NEW source \in Guards, Bind(mn, a, source)
  PROVE  LogInv'
<1>1. PICK m \in 0..Len(transactions) :
        /\ IF last_undo_id # curr_undo_id THEN LastOfStep(m, curr_undo_id)
           ELSE m = Len(transactions)
        /\ TxSet(mn, a, source, m)
  BY DEF Bind
<1>2. BindAt(mn, a, source, m)
  BY <1>1 DEF Bind, BindAt, mn_is_chilled, mn_chill
<1>3. QED
  BY <1>2, BindPreserves

(* Every call of the interface keeps the inductive invariant.              *)
LEMMA NextPreserves == IInv /\ [Next]_vars => IInv'
<1> SUFFICES ASSUME IInv, [Next]_vars
             PROVE  IInv'
  OBVIOUS
<1>1. /\ failed \in BOOLEAN /\ aborted \in BOOLEAN
      /\ call \in Guards \cup {NoCall}
      /\ chilled \subseteq Symbols
  BY DEF IInv, TypeOK
<1>2. ASSUME NEW s \in Symbols, NEW mn \in Symbols, NEW a \in Values, SetValue(s, mn, a)
      PROVE  IInv'
  <2>1. LogInv'
    BY <1>2, BindStep DEF SetValue, Guards
  <2>2. QED
    BY <1>1, <1>2, <2>1, FromLog DEF SetValue, Guards
<1>3. ASSUME NEW s \in Symbols, SetValueAsserts(s)
      PROVE  IInv'
  BY <1>1, <1>3, LogUnchanged, FromLog DEF SetValueAsserts, Die
<1>4. ASSUME NEW s \in Symbols, SetRefused(s)
      PROVE  IInv'
  BY <1>1, <1>4, LogUnchanged, FromLog DEF SetRefused
<1>5. ASSUME NEW mn \in Symbols, NEW a \in Values, Load(mn, a)
      PROVE  IInv'
  <2>1. LogInv'
    BY <1>5, BindStep DEF Load, Guards
  <2>2. QED
    BY <1>1, <1>5, <2>1, FromLog DEF Load, Guards
<1>6. CASE LoadAsserts
  BY <1>1, <1>6, LogUnchanged, FromLog DEF LoadAsserts, Die
<1>7. ASSUME NEW mn \in Symbols, NEW a \in Values, Propagate(mn, a)
      PROVE  IInv'
  <2>1. call \in Guards
    BY <1>1, <1>7 DEF Propagate
  <2>2. LogInv'
    BY <1>7, <2>1, BindStep DEF Propagate
  <2>3. QED
    BY <1>1, <1>7, <2>2, FromLog DEF Propagate
<1>8. ASSUME NEW ok \in BOOLEAN, Return(ok)
      PROVE  IInv'
  BY <1>1, <1>8, LogUnchanged, FromLog DEF Return
<1>9. ASSUME NEW freeze \in BOOLEAN, Commit(freeze)
      PROVE  IInv'
  <2>1. chilled' = {} /\ failed' = FALSE /\ UNCHANGED <<call, aborted>>
    BY <1>9 DEF Commit
  <2>2. LogInv'
    <3>1. CASE TxAbort
      BY <2>1, <3>1, AbortPreserves
    <3>2. CASE /\ transactions' = Committed(freeze)
               /\ UNCHANGED <<guarded, bindings, curr_undo_id, last_undo_id>>
      BY <2>1, <3>2, CommitPreserves
    <3>3. QED
      BY <1>9, <3>1, <3>2 DEF Commit
  <2>3. QED
    BY <1>1, <2>1, <2>2, FromLog
<1>10. CASE CommitAsserts
  BY <1>1, <1>10, LogUnchanged, FromLog DEF CommitAsserts, Die
<1>11. CASE Abort
  BY <1>1, <1>11, AbortPreserves, FromLog DEF Abort
<1>12. CASE Undo
  <2>1. LogInv'
    BY <1>12, UndoPreserves
  <2>2. QED
    BY <1>1, <1>12, <2>1, FromLog DEF Undo
<1>13. CASE UndoAsserts
  BY <1>1, <1>13, LogUnchanged, FromLog DEF UndoAsserts, Die
<1>14. CASE Redo
  <2>1. LogInv'
    BY <1>14, RedoPreserves
  <2>2. QED
    BY <1>1, <1>14, <2>1, FromLog DEF Redo
<1>15. CASE Clear
  <2>1. LogInv'
    BY <1>15, ClearPreserves
  <2>2. QED
    BY <1>1, <1>15, <2>1, FromLog DEF Clear
<1>16. CASE UNCHANGED vars
  <2>1. UNCHANGED log /\ UNCHANGED <<chilled, failed, call, aborted>>
    BY <1>16 DEF vars
  <2>2. LogInv'
    BY <1>1, <2>1, LogUnchanged
  <2>3. QED
    BY <1>1, <2>1, <2>2, FromLog
<1>17. QED
  BY <1>2, <1>3, <1>4, <1>5, <1>6, <1>7, <1>8, <1>9, <1>10, <1>11, <1>12, <1>13,
     <1>14, <1>15, <1>16 DEF Next

(* In every state any order of calls can reach, the inductive invariant    *)
(* holds, and with it each of its parts (transactions.c).                  *)
THEOREM Invariance == Spec => []IInv
<1>1. Init => IInv
  BY InitEstablishes
<1>2. IInv /\ [Next]_vars => IInv'
  BY NextPreserves
<1>3. QED
  BY <1>1, <1>2, PTL DEF Spec

(* The lists, counters and flags keep their types (private.h).             *)
THEOREM TypeCorrect == Spec => []TypeOK
<1>1. IInv => TypeOK
  BY DEF IInv
<1>2. QED
  BY <1>1, Invariance, PTL

(* The undo steps never decrease along the list (_cml_tx_set).             *)
THEOREM Ordered == Spec => []StepsInOrder
<1>1. IInv => StepsInOrder
  BY DEF IInv
<1>2. QED
  BY <1>1, Invariance, PTL

(* Exactly the steps redo can reach are undone (_cml_tx_undo,              *)
(* _cml_tx_redo), and uncommitted transactions are the whole newest step   *)
(* (_cml_tx_commit, _cml_tx_abort).                                        *)
THEOREM FlagsCorrect == Spec => []FlagsExact
<1>1. IInv => FlagsExact
  BY DEF IInv, FlagsExact
<1>2. QED
  BY <1>1, Invariance, PTL

(* The list of a guard holds exactly its transactions that are not undone, *)
(* that of a node exactly those that bind it, in order: no binding         *)
(* outlives its transaction (tx_delete).                                   *)
THEOREM ListsCorrect == Spec => []ListsExact
<1>1. IInv => ListsExact
  BY DEF IInv, ListsExact
<1>2. QED
  BY <1>1, Invariance, PTL

(* Nothing bound since the last commit or abort can be bound again         *)
(* (mn_set_value2).                                                        *)
THEOREM NewStayChilled == Spec => []NewAreChilled
<1>1. IInv => NewAreChilled
  BY DEF IInv
<1>2. QED
  BY <1>1, Invariance, PTL

(* No assertion of _cml_tx_redo ever fails, whatever was called before.    *)
THEOREM RedoIsSafe == Spec => []RedoAssertsHold
<1>1. IInv => RedoAssertsHold
  <2>1. SUFFICES ASSUME IInv, can_redo, NEW i \in OfStep(curr_undo_id + 1)
                 PROVE  /\ "UNDONE" \in transactions[i].flags
                        /\ "NEW" \notin transactions[i].flags
                        /\ \A k \in DOMAIN guarded[transactions[i].guard] :
                             guarded[transactions[i].guard][k] # i
    BY DEF RedoAssertsHold
  <2>2. /\ i \in TxIds /\ transactions[i].undo_id = curr_undo_id + 1
        /\ curr_undo_id \in Nat /\ last_undo_id \in Nat
        /\ curr_undo_id < last_undo_id
        /\ transactions[i].guard \in Guards
    BY <2>1, TxTypes DEF OfStep, can_redo, IInv, TypeOK
  <2>3. "UNDONE" \in transactions[i].flags
    BY <2>1, <2>2 DEF IInv, UndoneAreAhead
  <2>4. "NEW" \notin transactions[i].flags
    BY <2>1, <2>2 DEF IInv, NewAreNewestStep
  <2>5. i \notin {guarded[transactions[i].guard][k] : k \in DOMAIN guarded[transactions[i].guard]}
    BY <2>1, <2>2, <2>3 DEF IInv, GuardListsExact
  <2>6. QED
    BY <2>3, <2>4, <2>5
<1>2. QED
  BY <1>1, Invariance, PTL

(***************************************************************************)
(* What is read off the transaction log in any order of calls              *)
(* (Spec): the value of a node is that of the newest transaction in force  *)
(* that binds it, and a binding changes no value but those of the nodes    *)
(* whose rules are triggered.                                              *)
(*                                                                         *)
(* Then the log in a session of the gtk front end (GtkSpec), which commits *)
(* after every call and loads only into an empty log: each undo step has   *)
(* one transaction. From this follows that no assertion fails and that the *)
(* log implements the linear history of UndoHistory. Neither holds of      *)
(* every order of calls.                                                   *)
(***************************************************************************)

-----------------------------------------------------------------------------
(* What is read off the log.                                               *)

(* A set of numbers up to a bound has a largest one.                       *)
LEMMA HasNewest ==
  ASSUME NEW T, NEW b \in Nat, T \subseteq 0..b, T # {}
  PROVE  Newest(T) \in T /\ \A j \in T : j <= Newest(T)
<1> DEFINE R == OpToRel(<, Nat)
           D == {b - x : x \in T}
<1>1. IsWellFoundedOn(R, Nat)
  BY NatLessThanWellFounded
<1>2. D \subseteq Nat /\ D # {}
  <2>1. \A x \in T : b - x \in Nat /\ b - x \in D
    OBVIOUS
  <2>2. PICK x \in T : TRUE
    OBVIOUS
  <2>3. b - x \in D
    BY <2>1, <2>2
  <2>4. D \subseteq Nat
    BY <2>1
  <2>5. QED
    BY <2>3, <2>4
<1>3. \A x, y \in Nat : <<x, y>> \in R <=> x < y
  BY DEF OpToRel
<1> HIDE DEF R, D
<1>4. PICK d \in D : \A y \in D : ~(<<y, d>> \in R)
  BY <1>1, <1>2, WFMin
<1>5. PICK i \in T : d = b - i
  BY DEF D
<1>6. ASSUME NEW j \in T
      PROVE  j <= i
  <2>1. b - j \in D
    BY DEF D
  <2>2. ~(b - j < b - i)
    BY <1>2, <1>3, <1>4, <1>5, <2>1
  <2>3. QED
    BY <2>2
<1>7. \E x \in T : \A j \in T : j <= x
  BY <1>6
<1>8. QED
  BY <1>7 DEF Newest

(* It is the only one.                                                     *)
LEMMA NewestIs ==
  ASSUME NEW T, T \subseteq Nat, NEW i \in T, \A j \in T : j <= i
  PROVE  Newest(T) = i
<1>1. Newest(T) \in T /\ \A j \in T : j <= Newest(T)
  BY DEF Newest
<1>2. i <= Newest(T) /\ Newest(T) <= i
  BY <1>1
<1>3. i \in Nat /\ Newest(T) \in Nat
  BY <1>1
<1>4. QED
  BY <1>2, <1>3

(* The transactions in force, and those of a set that bind a node.         *)
Forced == {i \in TxIds : InForce(i)}

Binders(n, S) == {i \in S : n \in DOMAIN transactions[i].bindings}

NewestValue(n, S) ==
  IF Binders(n, S) = {} THEN Unbound
  ELSE transactions[Newest(Binders(n, S))].bindings[n]

(* The last entry of a node's list that is among some transactions is the  *)
(* newest of those that bind the node.                                     *)
ListedIn(n, S) == {k \in DOMAIN bindings[n] : bindings[n][k] \in S}

LEMMA ListNewest ==
  ASSUME IInv, NEW n \in Symbols, NEW S \in SUBSET TxIds
  PROVE  /\ ListedIn(n, S) = {} <=> Binders(n, S) = {}
         /\ ListedIn(n, S) # {} => /\ bindings[n][Newest(ListedIn(n, S))] = Newest(Binders(n, S))
                                   /\ Newest(Binders(n, S)) \in Binders(n, S)
<1> DEFINE list    == bindings[n]
           current == ListedIn(n, S)
           B       == Binders(n, S)
<1>1. /\ Len(list) \in Nat
      /\ DOMAIN list = 1..Len(list)
      /\ \A k \in 1..Len(list) : list[k] \in TxIds
  BY EntriesAreTransactions
<1>2. /\ {list[k] : k \in DOMAIN list} = {i \in TxIds : n \in DOMAIN transactions[i].bindings}
      /\ \A j, k \in DOMAIN list : j < k => list[j] < list[k]
  BY DEF IInv, NodeListsExact
<1>3. TxIds \subseteq Nat
  BY TxTypes DEF IInv
<1>4. \A k \in current : k \in 1..Len(list) /\ list[k] \in B
  BY <1>1, <1>2 DEF ListedIn, Binders
<1>5. \A i \in B : \E k \in current : list[k] = i
  BY <1>2 DEF ListedIn, Binders
<1>6. B \subseteq Nat
  BY <1>3 DEF Binders
<1>7. list = bindings[n] /\ current = ListedIn(n, S) /\ B = Binders(n, S)
  OBVIOUS
<1> HIDE DEF list, current, B
<1>8. CASE current = {}
  BY <1>5, <1>7, <1>8
<1>9. CASE current # {}
  <2>1. current \subseteq 0..Len(list)
    BY <1>4
  <2>2. Newest(current) \in current /\ \A k \in current : k <= Newest(current)
    BY <1>1, <1>9, <2>1, HasNewest
  <2>3. list[Newest(current)] \in B
    BY <1>4, <2>2
  <2>4. ASSUME NEW i \in B
        PROVE  i <= list[Newest(current)]
    <3>1. PICK k \in current : list[k] = i
      BY <1>5
    <3>2. k \in 1..Len(list) /\ Newest(current) \in 1..Len(list) /\ k <= Newest(current)
      BY <1>4, <2>2
    <3>3. k = Newest(current) \/ k < Newest(current)
      BY <1>1, <3>2
    <3>4. i = list[Newest(current)] \/ i < list[Newest(current)]
      BY <1>1, <1>2, <3>1, <3>2, <3>3
    <3>5. i \in Nat /\ list[Newest(current)] \in Nat
      BY <1>6, <2>3
    <3>6. QED
      BY <3>4, <3>5
  <2>5. Newest(B) = list[Newest(current)]
    BY <1>6, <2>3, <2>4, NewestIs
  <2>6. QED
    BY <1>7, <1>9, <2>3, <2>5
<1>10. QED
  BY <1>8, <1>9

(* The walk along the list of a node (_cml_tx_get) finds the value of the  *)
(* newest transaction in force that binds it.                              *)
GetsAreNewest == \A n \in Symbols : Get(n) = NewestValue(n, Forced)

LEMMA GetIsNewest == IInv => GetsAreNewest
<1> SUFFICES ASSUME IInv, NEW n \in Symbols
             PROVE  Get(n) = NewestValue(n, Forced)
  BY DEF GetsAreNewest
<1> DEFINE current == {k \in DOMAIN bindings[n] : InForce(bindings[n][k])}
<1>1. \A k \in DOMAIN bindings[n] : bindings[n][k] \in TxIds
  BY EntriesAreTransactions
<1>2. current = ListedIn(n, Forced)
  BY <1>1 DEF ListedIn, Forced
<1>3. Get(n) = IF current = {} THEN Unbound
               ELSE transactions[bindings[n][Newest(current)]].bindings[n]
  BY DEF Get
<1>4. Forced \in SUBSET TxIds
  BY DEF Forced
<1> HIDE DEF current
<1>5. QED
  BY <1>2, <1>3, <1>4, ListNewest DEF NewestValue

(* The same of the next state.                                             *)
LEMMA GetNext == IInv' => GetsAreNewest'
BY GetIsNewest, PTL

-----------------------------------------------------------------------------
(* What a binding puts in force.                                           *)

(* The newest transaction of an open step is the one of its guard that     *)
(* counts, so that what is bound next is seen.                             *)
NewestInForce == HasNew => InForce(Len(transactions))

(* A binding deletes nothing that is not undone: the lists of the guards   *)
(* lose no entry.                                                          *)
LEMMA GuardListsUncut ==
  ASSUME IInv, NEW mn, NEW a, NEW source, NEW m, BindAt(mn, a, source, m),
         NEW g \in Guards
  PROVE  Upto(guarded[g], m) = guarded[g]
<1> DEFINE list  == guarded[g]
           short == Upto(guarded[g], m)
<1>1. /\ m \in Nat
      /\ \A i \in TxIds : i <= m <=> transactions[i].undo_id <= curr_undo_id
  BY BindKeeps
<1>2. curr_undo_id \in 0..last_undo_id
  BY DEF IInv, StepsInOrder, TypeOK
<1>3. IsCut(short, list, m)
  BY <1>1, <1>2, ListsAreCut
<1>4. /\ list \in Seq(Nat) /\ Len(list) \in Nat /\ DOMAIN list = 1..Len(list)
      /\ \A k \in 1..Len(list) : list[k] \in TxIds
  BY EntriesAreTransactions
<1>5. ASSUME NEW k \in 1..Len(list)
      PROVE  list[k] <= m
  <2>1. list[k] \in {list[x] : x \in DOMAIN list}
    BY <1>4
  <2>2. "UNDONE" \notin transactions[list[k]].flags
    BY <2>1 DEF IInv, GuardListsExact
  <2>3. transactions[list[k]].undo_id \in Nat /\ curr_undo_id \in Nat
    BY <1>4, TxTypes DEF IInv, TypeOK
  <2>4. transactions[list[k]].undo_id <= curr_undo_id
    BY <1>4, <2>2, <2>3 DEF IInv, UndoneAreAhead
  <2>5. QED
    BY <1>1, <1>4, <2>4
<1> HIDE DEF list, short
<1>6. short \in Seq(Nat) /\ Len(short) = Len(list)
  <2>1. \A k \in 1..Len(list) : k \in 1..Len(short)
    BY <1>3, <1>5 DEF IsCut
  <2>2. short \in Seq(Nat) /\ Len(short) \in 0..Len(list)
    BY <1>3 DEF IsCut
  <2>3. QED
    BY <1>4, <2>1, <2>2
<1>7. \A k \in 1..Len(short) : short[k] = list[k]
  BY <1>3 DEF IsCut
<1>8. short = list
  BY <1>4, <1>6, <1>7, SeqEqual
<1>9. QED
  BY <1>8 DEF list, short

(* A binding opens a transaction exactly when the walk over the overridden *)
(* one is made (_cml_tx_set, _cml_tx_get_triggerable_nodes).               *)
LEMMA BindOpens ==
  ASSUME IInv, NEW mn, NEW a, NEW source, NEW m, BindAt(mn, a, source, m),
         NEW id \in {m, m + 1}, BoundTx(id, mn, source, m), BoundValue(id, mn, a, source, m)
  PROVE  /\ OpensTransaction(source) <=> id = m + 1
         /\ id = m => HasNew /\ m = Len(transactions)
<1>1. /\ TxIds = 1..Len(transactions)
      /\ Len(transactions) \in Nat
      /\ m \in 0..Len(transactions)
      /\ transactions \in Seq(Transaction)
  BY TxTypes DEF IInv, TypeOK, BindAt
<1>2. CASE id = m
  <2>1. /\ m = Len(transactions) /\ m \in TxIds
        /\ "NEW" \in transactions[m].flags /\ transactions[m].guard = source
    BY <1>1, <1>2 DEF BoundTx
  <2>2. HasNew
    BY <1>1, <2>1 DEF HasNew
  <2>3. QED
    BY <1>1, <1>2, <2>1, <2>2 DEF OpensTransaction
<1>3. CASE id = m + 1
  <2>1. ASSUME HasNew
        PROVE  transactions[Len(transactions)].guard # source
    <3>1. Len(transactions) \in TxIds /\ "NEW" \in transactions[Len(transactions)].flags
      BY <1>1, <2>1 DEF HasNew
    <3>2. curr_undo_id = last_undo_id
      BY <3>1 DEF IInv, NewAreNewestStep
    <3>3. m = Len(transactions)
      BY <3>2 DEF BindAt
    <3>4. m # 0
      BY <1>1, <3>1, <3>3
    <3>5. QED
      BY <1>3, <3>1, <3>3, <3>4 DEF BoundValue
  <2>2. id # m
    BY <1>1, <1>3
  <2>3. QED
    BY <1>3, <2>1, <2>2 DEF OpensTransaction
<1>4. QED
  BY <1>2, <1>3

(* The transactions in force after a binding: the one bound, and those     *)
(* before it unless it supercedes them.                                    *)
LEMMA BindForces ==
  ASSUME IInv, NewestInForce, NEW mn, NEW a, NEW source, NEW m, BindAt(mn, a, source, m),
         NEW id \in {m, m + 1}, id \in Nat \ {0},
         BoundTx(id, mn, source, m), BoundValue(id, mn, a, source, m)
  PROVE  /\ TxIds' = 1..id
         /\ \A i \in 1..id - 1 : i \in TxIds
         /\ InForce(id)'
         /\ \A i \in 1..id - 1 :
              InForce(i)' <=> InForce(i) /\ ~(id = m + 1 /\ transactions[i].guard = source)
         /\ \A i \in Forced : i <= m
<1>1. /\ TxIds = 1..Len(transactions)
      /\ Len(transactions) \in Nat
      /\ m \in 0..Len(transactions)
      /\ \A i \in TxIds : transactions[i].guard \in Guards /\ transactions[i].undo_id \in Nat
      /\ curr_undo_id \in Nat
  BY TxTypes DEF IInv, TypeOK, BindAt
<1>2. /\ Len(transactions') = id
      /\ transactions' \in Seq(Transaction)
      /\ \A i \in 1..id - 1 : transactions'[i] = transactions[i]
      /\ transactions'[id].guard = source
      /\ source \in Guards
  BY DEF BoundTx, BindAt
<1>3. TxIds' = 1..id
  BY <1>2, LenProperties DEF TxIds
<1>4. \A i \in 1..id - 1 : i \in TxIds
  BY <1>1
<1>5. guarded' = [g \in Guards |-> IF id = m + 1 /\ g = source THEN Append(guarded[g], id)
                                   ELSE guarded[g]]
  BY GuardListsUncut DEF BoundTx
<1>6. \A g \in Guards : /\ guarded[g] \in Seq(Nat)
                        /\ Len(guarded[g]) \in Nat
                        /\ \A k \in 1..Len(guarded[g]) : guarded[g][k] \in TxIds
  BY EntriesAreTransactions
<1>7. /\ Append(guarded[source], id) # <<>>
      /\ Append(guarded[source], id)[Len(Append(guarded[source], id))] = id
  BY <1>2, <1>6
<1>8. InForce(id)'
  <2>1. CASE id = m + 1
    <3>1. transactions'[id].flags = {"NEW"}
      BY <1>1, <2>1 DEF BoundTx
    <3>2. guarded'[source] = Append(guarded[source], id)
      BY <1>2, <1>5, <2>1
    <3>3. QED
      BY <1>2, <1>7, <3>1, <3>2 DEF InForce, Superceded
  <2>2. CASE id = m
    <3>1. InForce(m)
      BY <2>2, BindOpens DEF NewestInForce
    <3>2. /\ transactions'[m].flags = transactions[m].flags
          /\ transactions'[m].guard = transactions[m].guard
      BY <1>1, <1>2, <2>2 DEF BoundTx
    <3>3. guarded' = [g \in Guards |-> guarded[g]]
      BY <1>1, <1>5, <2>2
    <3>4. guarded'[transactions[m].guard] = guarded[transactions[m].guard]
      BY <1>2, <2>2, <3>2, <3>3
    <3>5. QED
      BY <2>2, <3>1, <3>2, <3>4 DEF InForce, Superceded
  <2>3. QED
    BY <2>1, <2>2
<1>9. ASSUME NEW i \in 1..id - 1
      PROVE  InForce(i)' <=> InForce(i) /\ ~(id = m + 1 /\ transactions[i].guard = source)
  <2>1. transactions'[i] = transactions[i] /\ transactions[i].guard \in Guards /\ i # id
    BY <1>1, <1>2, <1>4
  <2>2. CASE id = m + 1 /\ transactions[i].guard = source
    <3>1. guarded'[transactions[i].guard] = Append(guarded[source], id)
      BY <1>5, <2>1, <2>2
    <3>2. QED
      BY <1>7, <2>1, <2>2, <3>1 DEF InForce, Superceded
  <2>3. CASE ~(id = m + 1 /\ transactions[i].guard = source)
    <3>1. guarded'[transactions[i].guard] = guarded[transactions[i].guard]
      BY <1>5, <2>1, <2>3
    <3>2. QED
      BY <2>1, <2>3, <3>1 DEF InForce, Superceded
  <2>4. QED
    BY <2>2, <2>3
<1>10. ASSUME NEW i \in Forced
       PROVE  i <= m
  <2>1. i \in TxIds /\ "UNDONE" \notin transactions[i].flags
    BY DEF Forced, InForce
  <2>2. transactions[i].undo_id <= curr_undo_id
    BY <1>1, <2>1 DEF IInv, UndoneAreAhead
  <2>3. QED
    BY <2>1, <2>2, BindKeeps
<1>11. QED
  BY <1>3, <1>4, <1>8, <1>9, <1>10

-----------------------------------------------------------------------------
(* The calls that bind nothing.                                            *)

(* Nothing changes in the transactions but their flags, and none is NEW    *)
(* any more.                                                               *)
Settles ==
  /\ TxIds' = TxIds
  /\ \A i \in TxIds : /\ transactions'[i].guard = transactions[i].guard
                      /\ transactions'[i].undo_id = transactions[i].undo_id
                      /\ transactions'[i].bindings = transactions[i].bindings
                      /\ "NEW" \notin transactions'[i].flags

(* So does commit (_cml_tx_commit),                                        *)
LEMMA CommitSettles ==
  ASSUME IInv, NEW freeze \in BOOLEAN, transactions' = Committed(freeze)
  PROVE  Settles
<1>1. TxIds' = TxIds
  BY CommittedLog DEF TxIds
<1>2. QED
  BY <1>1, CommittedLog DEF Settles

(* undo, which commits first (_cml_tx_undo),                               *)
LEMMA UndoSettles ==
  ASSUME IInv, Undo
  PROVE  Settles
<1>1. TxIds' = TxIds
  BY DEF Undo, TxIds
<1>2. ASSUME NEW i \in TxIds
      PROVE  /\ transactions'[i].guard = transactions[i].guard
             /\ transactions'[i].undo_id = transactions[i].undo_id
             /\ transactions'[i].bindings = transactions[i].bindings
             /\ "NEW" \notin transactions'[i].flags
  <2> DEFINE t == Committed(FALSE)[i]
             f == t.flags \cup {"UNDONE"}
  <2>1. /\ t \in Transaction
        /\ t.guard = transactions[i].guard
        /\ t.undo_id = transactions[i].undo_id
        /\ t.bindings = transactions[i].bindings
        /\ t.flags \in SUBSET Flags
        /\ "NEW" \notin t.flags
    BY CommittedLog
  <2>2. transactions'[i] = t \/ transactions'[i] = [t EXCEPT !.flags = f]
    BY DEF Undo
  <2> HIDE DEF t
  <2>3. f \in SUBSET Flags /\ "NEW" \notin f
    BY <2>1 DEF Flags
  <2> HIDE DEF f
  <2>4. /\ [t EXCEPT !.flags = f].guard = t.guard
        /\ [t EXCEPT !.flags = f].undo_id = t.undo_id
        /\ [t EXCEPT !.flags = f].bindings = t.bindings
        /\ [t EXCEPT !.flags = f].flags = f
    BY <2>1, <2>3, FlagsChange
  <2>5. QED
    BY <2>1, <2>2, <2>3, <2>4
<1>3. QED
  BY <1>1, <1>2 DEF Settles

(* and redo, before which nothing can be NEW (_cml_tx_redo).               *)
LEMMA RedoSettles ==
  ASSUME IInv, Redo
  PROVE  Settles
<1>1. TxIds' = TxIds
  BY DEF Redo, TxIds
<1>2. ASSUME NEW i \in TxIds
      PROVE  /\ transactions'[i].guard = transactions[i].guard
             /\ transactions'[i].undo_id = transactions[i].undo_id
             /\ transactions'[i].bindings = transactions[i].bindings
             /\ "NEW" \notin transactions'[i].flags
  <2> DEFINE t == transactions[i]
             f == t.flags \ {"UNDONE"}
  <2>1. t \in Transaction /\ f \in SUBSET Flags
    BY TxTypes DEF IInv
  <2>2. transactions'[i] = t \/ transactions'[i] = [t EXCEPT !.flags = f]
    BY DEF Redo
  <2>3. "NEW" \notin t.flags /\ "NEW" \notin f
    BY DEF Redo, IInv, NewAreNewestStep
  <2> HIDE DEF f
  <2>4. /\ [t EXCEPT !.flags = f].guard = t.guard
        /\ [t EXCEPT !.flags = f].undo_id = t.undo_id
        /\ [t EXCEPT !.flags = f].bindings = t.bindings
        /\ [t EXCEPT !.flags = f].flags = f
    BY <2>1, FlagsChange
  <2>5. QED
    BY <2>2, <2>3, <2>4
<1>3. QED
  BY <1>1, <1>2 DEF Settles

(* Abort leaves the transactions that were not NEW.                        *)
LEMMA AbortKeeps ==
  ASSUME IInv, TxAbort
  PROVE  /\ TxIds' = {i \in TxIds : "NEW" \notin transactions[i].flags}
         /\ \A i \in TxIds' : transactions'[i] = transactions[i]
         /\ UNCHANGED <<curr_undo_id, last_undo_id>>
<1>1. PICK m \in 0..Len(transactions) : LastCommitted(m) /\ DeleteAfter(m)
  BY DEF TxAbort
<1>2. /\ TxIds = 1..Len(transactions)
      /\ Len(transactions) \in Nat
      /\ \A i \in TxIds : transactions[i] \in Transaction
  BY TxTypes DEF IInv
<1>3. transactions' = SubSeq(transactions, 1, m)
  BY <1>1 DEF DeleteAfter
<1>4. \A i \in 1..m : transactions[i] \in Transaction
  BY <1>2
<1>5. /\ transactions' \in Seq(Transaction)
      /\ Len(transactions') = m
      /\ \A i \in 1..m : transactions'[i] = transactions[i]
  <2>1. /\ SubSeq(transactions, 1, m) \in Seq(Transaction)
        /\ Len(SubSeq(transactions, 1, m)) = IF 1 <= m THEN m - 1 + 1 ELSE 0
        /\ \A i \in 1..m - 1 + 1 : SubSeq(transactions, 1, m)[i] = transactions[1 + i - 1]
    BY <1>2, <1>4, SubSeqProperties
  <2>2. QED
    BY <1>2, <1>3, <2>1
<1>6. TxIds' = 1..m
  BY <1>5, LenProperties DEF TxIds
<1>7. \A i \in TxIds : i <= m <=> "NEW" \notin transactions[i].flags
  BY <1>1, LastCommittedIsCut
<1>8. TxIds' = {i \in TxIds : "NEW" \notin transactions[i].flags}
  BY <1>2, <1>6, <1>7
<1>9. QED
  BY <1>5, <1>6, <1>8 DEF TxAbort

(* After any of these calls no transaction is open.                            *)
LEMMA NothingOpen ==
  ASSUME IInv, IInv', Settles \/ TxAbort
  PROVE  ~HasNew'
<1>1. ASSUME HasNew'
      PROVE  Len(transactions') \in TxIds' /\ "NEW" \in transactions'[Len(transactions')].flags
  <2>1. transactions' # <<>> /\ "NEW" \in transactions'[Len(transactions')].flags
    BY <1>1 DEF HasNew
  <2>2. transactions' \in Seq(Transaction)
    BY DEF IInv, TypeOK
  <2>3. Len(transactions') \in 1..Len(transactions')
    BY <2>1, <2>2
  <2>4. QED
    BY <2>1, <2>2, <2>3, LenProperties DEF TxIds
<1>2. QED
  BY <1>1, AbortKeeps DEF Settles

(* Nor after clear.                                                        *)
LEMMA ClearOpensNothing ==
  ASSUME Clear
  PROVE  ~HasNew'
BY DEF Clear, HasNew

(* A binding opens a step or goes on with the one that is open.            *)
LEMMA BindKeepsNewest ==
  ASSUME IInv, NewestInForce, NEW mn \in Symbols, NEW a \in Values, NEW source \in Guards,
         Bind(mn, a, source)
  PROVE  NewestInForce'
<1>1. PICK m \in 0..Len(transactions) : BindAt(mn, a, source, m)
  BY DEF Bind, BindAt, mn_is_chilled, mn_chill
<1>2. PICK id \in {m, m + 1} : /\ id \in Nat \ {0}
                               /\ BoundTx(id, mn, source, m)
                               /\ BoundValue(id, mn, a, source, m)
  BY <1>1, BindMakesTx
<1>3. InForce(id)'
  BY <1>1, <1>2, BindForces
<1>4. id = Len(transactions')
  BY <1>2 DEF BoundTx
<1>5. QED
  BY <1>3, <1>4 DEF NewestInForce

(* What comes last in an open step stays in force whatever is called.      *)
LEMMA StaysNewest == IInv /\ NewestInForce /\ [Next]_vars => NewestInForce'
<1> SUFFICES ASSUME IInv, NewestInForce, [Next]_vars
             PROVE  NewestInForce'
  OBVIOUS
<1>1. IInv'
  BY NextPreserves
<1>2. ASSUME UNCHANGED log
      PROVE  NewestInForce'
  BY <1>2 DEF log, NewestInForce, HasNew, InForce, Superceded
<1>3. ASSUME Settles \/ TxAbort \/ Clear
      PROVE  NewestInForce'
  BY <1>1, <1>3, NothingOpen, ClearOpensNothing DEF NewestInForce
<1>4. ASSUME NEW s \in Symbols, NEW mn \in Symbols, NEW a \in Values, SetValue(s, mn, a)
      PROVE  NewestInForce'
  BY <1>4, BindKeepsNewest DEF SetValue, Guards
<1>5. ASSUME NEW mn \in Symbols, NEW a \in Values, Load(mn, a)
      PROVE  NewestInForce'
  BY <1>5, BindKeepsNewest DEF Load, Guards
<1>6. ASSUME NEW mn \in Symbols, NEW a \in Values, Propagate(mn, a)
      PROVE  NewestInForce'
  BY <1>6, BindKeepsNewest DEF Propagate, IInv, TypeOK
<1>7. ASSUME NEW freeze \in BOOLEAN, Commit(freeze)
      PROVE  NewestInForce'
  BY <1>3, <1>7, CommitSettles DEF Commit
<1>8. ASSUME \/ \E s \in Symbols : SetValueAsserts(s) \/ SetRefused(s)
             \/ LoadAsserts \/ CommitAsserts \/ UndoAsserts
             \/ \E ok \in BOOLEAN : Return(ok)
             \/ UNCHANGED vars
      PROVE  NewestInForce'
  BY <1>2, <1>8 DEF SetValueAsserts, SetRefused, LoadAsserts, CommitAsserts, UndoAsserts,
                    Return, Die, vars
<1>9. QED
  BY <1>3, <1>4, <1>5, <1>6, <1>7, <1>8, UndoSettles, RedoSettles DEF Next, Abort

-----------------------------------------------------------------------------
(* What a binding changes.                                                 *)

(* A node is given its value; the others keep theirs unless the overridden *)
(* transaction had bound them.                                             *)
LEMMA BindChanges ==
  ASSUME IInv, IInv', NewestInForce,
         NEW mn \in Symbols, NEW a \in Values, NEW source \in Guards, Bind(mn, a, source)
  PROVE  /\ Get(mn)' = a
         /\ \A n \in Symbols : Get(n)' # Get(n) => n \in Triggerable(mn, source)
<1>1. PICK m \in 0..Len(transactions) : BindAt(mn, a, source, m)
  BY DEF Bind, BindAt, mn_is_chilled, mn_chill
<1>2. PICK id \in {m, m + 1} : /\ id \in Nat \ {0}
                               /\ BoundTx(id, mn, source, m)
                               /\ BoundValue(id, mn, a, source, m)
  BY <1>1, BindMakesTx
<1>3. /\ TxIds' = 1..id
      /\ \A i \in 1..id - 1 : i \in TxIds
      /\ InForce(id)'
      /\ \A i \in 1..id - 1 :
           InForce(i)' <=> InForce(i) /\ ~(id = m + 1 /\ transactions[i].guard = source)
      /\ \A i \in Forced : i <= m
  BY <1>1, <1>2, BindForces
<1>4. /\ m \in Nat /\ id \in Nat
      /\ \A i \in 1..id - 1 : transactions'[i] = transactions[i]
      /\ TxIds \subseteq Nat \ {0}
  <2>1. TxIds = 1..Len(transactions) /\ Len(transactions) \in Nat
    BY TxTypes DEF IInv
  <2>2. m \in Nat /\ id \in Nat
    BY <1>2, <2>1
  <2>3. \A i \in 1..id - 1 : transactions'[i] = transactions[i]
    BY <1>2 DEF BoundTx
  <2>4. TxIds \subseteq Nat \ {0}
    BY <2>1
  <2>5. QED
    BY <2>2, <2>3, <2>4
<1>5. \A n \in Symbols : /\ Get(n) = NewestValue(n, Forced)
                         /\ Get(n)' = NewestValue(n, Forced)'
  BY GetIsNewest, GetNext DEF GetsAreNewest
<1>6. /\ Forced' \subseteq 1..id /\ id \in Forced'
      /\ Forced \subseteq 0..m
  <2>1. \A i \in Forced : i \in Nat /\ i <= m
    BY <1>3, <1>4 DEF Forced
  <2>2. Forced \subseteq 0..m
    BY <1>4, <2>1
  <2>3. id \in 1..id
    BY <1>2, <1>4
  <2>4. Forced' = {i \in 1..id : InForce(i)'}
    BY <1>3 DEF Forced
  <2>5. QED
    BY <1>3, <2>2, <2>3, <2>4
<1>7. Get(mn)' = a
  <2> DEFINE B == Binders(mn, Forced)'
  <2>1. mn \in DOMAIN transactions'[id].bindings /\ transactions'[id].bindings[mn] = a
    BY <1>2, <1>4 DEF BoundTx, BoundValue
  <2>2. B \subseteq 1..id /\ id \in B
    BY <1>6, <2>1 DEF Binders
  <2>3. NewestValue(mn, Forced)' =
          IF B = {} THEN Unbound ELSE transactions'[Newest(B)].bindings[mn]
    BY DEF NewestValue
  <2> HIDE DEF B
  <2>4. Newest(B) = id
    <3>1. B \subseteq Nat /\ \A j \in B : j <= id
      BY <1>4, <2>2
    <3>2. QED
      BY <2>2, <3>1, NewestIs
  <2>5. QED
    BY <1>5, <2>1, <2>2, <2>3, <2>4
<1>8. ASSUME NEW n \in Symbols, n \notin Triggerable(mn, source)
      PROVE  Get(n)' = Get(n)
  <2> DEFINE B  == Binders(n, Forced)
             B2 == Binders(n, Forced)'
  <2>1. n # mn
    BY <1>8 DEF Triggerable
  <2>2. ASSUME NEW i \in B
        PROVE  i \in B2 /\ transactions'[i].bindings[n] = transactions[i].bindings[n]
    <3>1. i \in TxIds /\ InForce(i) /\ n \in DOMAIN transactions[i].bindings /\ i <= m
      BY <1>3 DEF Forced, Binders
    <3>2. CASE id = m + 1
      <4>1. transactions[i].guard # source
        <5>1. SUFFICES ASSUME transactions[i].guard = source
                       PROVE  n \in Triggerable(mn, source)
          BY <1>8
        <5>2. guarded[source] # <<>> /\ guarded[source][Len(guarded[source])] = i
          BY <3>1, <5>1 DEF InForce, Superceded
        <5>3. OpensTransaction(source)
          BY <1>1, <1>2, <3>2, BindOpens
        <5>4. QED
          BY <3>1, <5>2, <5>3 DEF Triggerable, Overridden
      <4>2. i \in 1..id - 1
        BY <1>4, <3>1, <3>2
      <4>3. QED
        BY <1>3, <1>4, <3>1, <4>1, <4>2 DEF Binders, Forced
    <3>3. CASE id = m /\ i = m
      <4>1. /\ DOMAIN transactions'[m].bindings = DOMAIN transactions[m].bindings \cup {mn}
            /\ transactions'[m].bindings[n] = transactions[m].bindings[n]
        BY <1>2, <1>4, <2>1, <3>1, <3>3 DEF BoundTx, BoundValue
      <4>2. QED
        BY <1>3, <1>4, <3>1, <3>3, <4>1 DEF Binders, Forced
    <3>4. CASE id = m /\ i # m
      <4>1. i \in 1..id - 1
        BY <1>4, <3>1, <3>4
      <4>2. QED
        BY <1>3, <1>4, <3>1, <3>4, <4>1 DEF Binders, Forced
    <3>5. QED
      BY <1>2, <3>2, <3>3, <3>4
  <2>3. ASSUME NEW i \in B2
        PROVE  i \in B
    <3>1. i \in 1..id /\ InForce(i)' /\ n \in DOMAIN transactions'[i].bindings
      BY <1>3 DEF Binders, Forced
    <3>2. CASE i \in 1..id - 1
      BY <1>3, <1>4, <3>1, <3>2 DEF Binders, Forced
    <3>3. CASE i = id
      <4>1. /\ id = m /\ m \in TxIds
            /\ n \in DOMAIN transactions[m].bindings
        BY <1>2, <1>4, <2>1, <3>1, <3>3 DEF BoundTx
      <4>2. InForce(m)
        BY <1>1, <1>2, <4>1, BindOpens DEF NewestInForce
      <4>3. QED
        BY <3>3, <4>1, <4>2 DEF Binders, Forced
    <3>4. QED
      BY <1>4, <3>1, <3>2, <3>3
  <2>4. B2 = B
    BY <2>2, <2>3
  <2>5. /\ Get(n) = IF B = {} THEN Unbound ELSE transactions[Newest(B)].bindings[n]
        /\ Get(n)' = IF B2 = {} THEN Unbound ELSE transactions'[Newest(B2)].bindings[n]
    BY <1>5 DEF NewestValue
  <2>6. B \subseteq 0..m
    BY <1>6 DEF Binders
  <2> HIDE DEF B, B2
  <2>7. CASE B = {}
    BY <2>4, <2>5, <2>7
  <2>8. CASE B # {}
    <3>1. Newest(B) \in B
      BY <1>4, <2>6, <2>8, HasNewest
    <3>2. QED
      BY <2>2, <2>4, <2>5, <2>8, <3>1
  <2>9. QED
    BY <2>7, <2>8
<1>9. QED
  BY <1>7, <1>8

(* The nodes whose rules are triggered are all those whose binding a new   *)
(* one changes, in any order of calls: the values that fall back when a    *)
(* transaction is overridden are among them                                *)
(* (_cml_tx_get_triggerable_nodes, _cml_tx_set, _cml_tx_get).              *)
THEOREM OnlyTriggerableChange == Spec => BindingChangesOnlyTriggerable
<1> DEFINE Changes ==
      \A s, mn \in Symbols, a \in Values :
        SetValue(s, mn, a) =>
          /\ Get(mn)' = a
          /\ \A n \in Symbols : Get(n)' # Get(n) => n \in Triggerable(mn, s)
<1>1. Init => NewestInForce
  BY DEF Init, NewestInForce, HasNew
<1>2. IInv /\ NewestInForce /\ [Next]_vars => NewestInForce'
  BY StaysNewest
<1>3. IInv /\ NewestInForce /\ [Next]_vars => [Changes]_vars
  <2>1. ASSUME IInv, NewestInForce, [Next]_vars,
               NEW s \in Symbols, NEW mn \in Symbols, NEW a \in Values, SetValue(s, mn, a)
        PROVE  /\ Get(mn)' = a
               /\ \A n \in Symbols : Get(n)' # Get(n) => n \in Triggerable(mn, s)
    <3>1. IInv'
      BY <2>1, NextPreserves
    <3>2. Bind(mn, a, s) /\ s \in Guards
      BY <2>1 DEF SetValue, Guards
    <3>3. QED
      BY <2>1, <3>1, <3>2, BindChanges
  <2>2. QED
    BY <2>1
<1> HIDE DEF Changes
<1>4. BindingChangesOnlyTriggerable <=> [][Changes]_vars
  BY DEF BindingChangesOnlyTriggerable, Changes
<1>5. QED
  BY <1>1, <1>2, <1>3, <1>4, Invariance, PTL DEF Spec

-----------------------------------------------------------------------------
(* The invariant of a session.                                             *)

OneTxPerStep ==
  \A i, j \in TxIds : i < j => transactions[i].undo_id < transactions[j].undo_id

(* The transaction binds the node that guards it, as TriggerAssert asks;   *)
(* what a file binds is guarded by the start node, which has no binding.   *)
BindsItsGuard(i) == transactions[i].guard \in DOMAIN transactions[i].bindings \cup {Start}

CommittedBindGuards == \A i \in TxIds : "NEW" \notin transactions[i].flags => BindsItsGuard(i)

(* A call in progress has the newest transaction open, and when it returns *)
(* it has bound its source or failed.                                      *)
CallIsOpen == call # NoCall => HasNew /\ transactions[Len(transactions)].guard = call

OpenBindsGuard == call = NoCall /\ HasNew /\ ~failed => BindsItsGuard(Len(transactions))

SessionInv ==
  /\ OneTxPerStep
  /\ CommittedBindGuards
  /\ CallIsOpen
  /\ OpenBindsGuard
  /\ ~aborted

(* The calls of a session are calls of the interface.                      *)
LEMMA SessionCalls == GtkNext => Next
BY DEF GtkNext, SessionSet, SessionCall, SessionCommit, SessionLoad, Next

(* With one transaction in each step, only the newest can be NEW.          *)
LEMMA OnlyNewestIsNew ==
  ASSUME IInv, OneTxPerStep, NEW i \in TxIds, "NEW" \in transactions[i].flags
  PROVE  i = Len(transactions) /\ HasNew
<1>1. /\ TxIds = 1..Len(transactions)
      /\ Len(transactions) \in Nat
      /\ transactions \in Seq(Transaction)
      /\ last_undo_id \in Nat
      /\ \A j \in TxIds : transactions[j].undo_id \in 1..last_undo_id
  BY TxTypes DEF IInv, TypeOK, StepsInOrder
<1>2. transactions[i].undo_id = last_undo_id
  BY DEF IInv, NewAreNewestStep
<1>3. i = Len(transactions)
  <2>1. SUFFICES ASSUME i < Len(transactions)
                 PROVE  FALSE
    BY <1>1
  <2>2. Len(transactions) \in TxIds
    BY <1>1
  <2>3. transactions[i].undo_id < transactions[Len(transactions)].undo_id
    BY <2>1, <2>2 DEF OneTxPerStep
  <2>4. QED
    BY <1>1, <1>2, <2>2, <2>3
<1>4. QED
  BY <1>1, <1>3 DEF HasNew

(* The transactions up to a step in the next state are those up to some    *)
(* step in this one.                                                       *)
UpTo(k) == {i \in TxIds : transactions[i].undo_id <= k}

Same(k, j) ==
  /\ {i \in TxIds' : transactions'[i].undo_id <= k} = UpTo(j)
  /\ \A i \in UpTo(j) : /\ transactions'[i].guard = transactions[i].guard
                        /\ transactions'[i].bindings = transactions[i].bindings

(* A binding of the open call, or the first one of a call when none is     *)
(* open, keeps one transaction in each step and changes no earlier step.   *)
LEMMA SessionBind ==
  ASSUME IInv, OneTxPerStep, CommittedBindGuards,
         NEW mn \in Symbols, NEW a \in Values, NEW source \in Guards, Bind(mn, a, source),
         HasNew => transactions[Len(transactions)].guard = source
  PROVE  /\ OneTxPerStep'
         /\ CommittedBindGuards'
         /\ HasNew' /\ transactions'[Len(transactions')].guard = source
         /\ curr_undo_id' = IF HasNew THEN curr_undo_id ELSE curr_undo_id + 1
         /\ last_undo_id' = curr_undo_id'
         /\ \A k \in Nat : k < curr_undo_id' => Same(k, k)
<1>1. PICK m \in 0..Len(transactions) : BindAt(mn, a, source, m)
  BY DEF Bind, BindAt, mn_is_chilled, mn_chill
<1>2. PICK id \in {m, m + 1} : /\ id \in Nat \ {0}
                               /\ BoundTx(id, mn, source, m)
                               /\ BoundValue(id, mn, a, source, m)
  BY <1>1, BindMakesTx
<1>3. /\ TxIds = 1..Len(transactions)
      /\ Len(transactions) \in Nat
      /\ m \in 0..Len(transactions) /\ m \in Nat
      /\ \A i \in TxIds : transactions[i].undo_id \in Nat
      /\ \A i \in TxIds : i <= m <=> transactions[i].undo_id <= curr_undo_id
      /\ curr_undo_id \in Nat
  BY <1>1, TxTypes, BindKeeps DEF IInv, TypeOK
<1>4. /\ transactions' \in Seq(Transaction) /\ Len(transactions') = id
      /\ \A i \in 1..id - 1 : transactions'[i] = transactions[i]
      /\ transactions'[id].guard = source
      /\ transactions'[id].undo_id = curr_undo_id'
      /\ "NEW" \in transactions'[id].flags
      /\ last_undo_id' = curr_undo_id'
  BY <1>2 DEF BoundTx
<1>5. TxIds' = 1..id
  BY <1>4, LenProperties DEF TxIds
<1>6. HasNew' /\ transactions'[Len(transactions')].guard = source
  BY <1>2, <1>4 DEF HasNew
<1>7. HasNew <=> id = m
  <2>1. OpensTransaction(source) <=> id = m + 1
    BY <1>1, <1>2, BindOpens
  <2>2. OpensTransaction(source) <=> ~HasNew
    BY DEF OpensTransaction
  <2>3. QED
    BY <1>2, <1>3, <2>1, <2>2
<1>8. curr_undo_id' = IF HasNew THEN curr_undo_id ELSE curr_undo_id + 1
  <2>1. CASE id = m
    BY <1>3, <1>7, <2>1, <1>2 DEF BoundTx
  <2>2. CASE id # m
    <3>1. ASSUME m \in TxIds, "NEW" \in transactions[m].flags
          PROVE  FALSE
      BY <1>7, <2>2, <3>1, OnlyNewestIsNew
    <3>2. QED
      BY <1>2, <1>7, <2>2, <3>1 DEF BoundTx
  <2>3. QED
    BY <2>1, <2>2
<1>9. /\ \A i \in 1..id - 1 : /\ i \in TxIds
                             /\ transactions[i].undo_id \in Nat
                             /\ transactions[i].undo_id < curr_undo_id'
      /\ id = m => m \in TxIds /\ transactions[m].undo_id = curr_undo_id'
      /\ curr_undo_id' \in Nat
  <2>1. \A i \in 1..id - 1 : i \in TxIds /\ i <= m
    BY <1>2, <1>3
  <2>2. CASE id = m
    <3>1. m \in TxIds /\ transactions[m].undo_id = curr_undo_id'
      BY <1>2, <1>3, <2>2 DEF BoundTx
    <3>2. QED
      BY <1>3, <2>1, <2>2, <3>1 DEF OneTxPerStep
  <2>3. CASE id # m
    <3>1. curr_undo_id' = curr_undo_id + 1
      BY <1>7, <1>8, <2>3
    <3>2. QED
      BY <1>3, <2>1, <2>3, <3>1
  <2>4. QED
    BY <2>2, <2>3
<1>10. OneTxPerStep'
  <2>1. SUFFICES ASSUME NEW i \in 1..id, NEW j \in 1..id, i < j
                 PROVE  transactions'[i].undo_id < transactions'[j].undo_id
    BY <1>5 DEF OneTxPerStep
  <2>2. i \in 1..id - 1 /\ (j \in 1..id - 1 \/ j = id)
    BY <1>2, <2>1
  <2>3. QED
    BY <1>4, <1>9, <2>1, <2>2 DEF OneTxPerStep
<1>11. CommittedBindGuards'
  <2>1. SUFFICES ASSUME NEW i \in 1..id, "NEW" \notin transactions'[i].flags
                 PROVE  BindsItsGuard(i)'
    BY <1>5 DEF CommittedBindGuards
  <2>2. i \in 1..id - 1 /\ i \in TxIds /\ transactions'[i] = transactions[i]
    BY <1>2, <1>4, <1>9, <2>1
  <2>3. QED
    BY <2>1, <2>2 DEF CommittedBindGuards, BindsItsGuard
<1>12. ASSUME NEW k \in Nat, k < curr_undo_id'
       PROVE  Same(k, k)
  <2>1. ASSUME NEW i \in TxIds', transactions'[i].undo_id <= k
        PROVE  i \in UpTo(k)
    <3>1. i # id
      BY <1>4, <1>9, <1>12, <2>1
    <3>2. i \in 1..id - 1
      BY <1>2, <1>5, <3>1
    <3>3. QED
      BY <1>4, <1>9, <2>1, <3>2 DEF UpTo
  <2>2. ASSUME NEW i \in UpTo(k)
        PROVE  i \in 1..id - 1
    <3>1. i \in TxIds /\ transactions[i].undo_id <= k /\ transactions[i].undo_id < curr_undo_id'
      BY <1>3, <1>9, <1>12 DEF UpTo
    <3>2. i <= m
      BY <1>3, <1>8, <3>1
    <3>3. i # id
      BY <1>2, <1>3, <1>9, <3>1, <3>2
    <3>4. QED
      BY <1>2, <1>3, <3>1, <3>2, <3>3
  <2>3. QED
    BY <1>2, <1>4, <1>5, <2>1, <2>2 DEF Same, UpTo
<1>13. QED
  BY <1>4, <1>6, <1>8, <1>10, <1>11, <1>12

-----------------------------------------------------------------------------
(* The invariant is kept.                                                  *)

(* The calls that bind nothing, on a log whose NEW transactions bind their *)
(* guard.                                                                  *)
LEMMA SettlingKeeps ==
  ASSUME IInv, IInv', SessionInv, call' = NoCall, ~aborted',
         \/ Settles /\ (HasNew => BindsItsGuard(Len(transactions)))
         \/ TxAbort
         \/ Clear
  PROVE  SessionInv'
<1>1. ~HasNew'
  BY NothingOpen, ClearOpensNothing
<1>2. CallIsOpen' /\ OpenBindsGuard'
  BY <1>1 DEF CallIsOpen, OpenBindsGuard
<1>3. CASE Settles /\ (HasNew => BindsItsGuard(Len(transactions)))
  <2>1. \A i \in TxIds : BindsItsGuard(i)
    BY <1>3, OnlyNewestIsNew DEF SessionInv, CommittedBindGuards
  <2>2. OneTxPerStep' /\ CommittedBindGuards'
    BY <1>3, <2>1 DEF SessionInv, OneTxPerStep, CommittedBindGuards, BindsItsGuard, Settles
  <2>3. QED
    BY <1>2, <2>2 DEF SessionInv
<1>4. CASE TxAbort
  <2>1. /\ TxIds' \subseteq TxIds
        /\ \A i \in TxIds' : transactions'[i] = transactions[i]
    BY <1>4, AbortKeeps
  <2>2. OneTxPerStep' /\ CommittedBindGuards'
    BY <2>1 DEF SessionInv, OneTxPerStep, CommittedBindGuards, BindsItsGuard
  <2>3. QED
    BY <1>2, <2>2 DEF SessionInv
<1>5. CASE Clear
  <2>1. TxIds' = {}
    BY <1>5 DEF Clear, TxIds
  <2>2. OneTxPerStep' /\ CommittedBindGuards'
    BY <2>1 DEF OneTxPerStep, CommittedBindGuards
  <2>3. QED
    BY <1>2, <2>2 DEF SessionInv
<1>6. QED
  BY <1>3, <1>4, <1>5

(* A binding in a call of source, in progress afterwards.                  *)
LEMMA BindingKeeps ==
  ASSUME IInv, SessionInv,
         NEW mn \in Symbols, NEW a \in Values, NEW source \in Guards, Bind(mn, a, source),
         HasNew => transactions[Len(transactions)].guard = source,
         call' = source, ~aborted'
  PROVE  SessionInv'
<1>1. OneTxPerStep' /\ CommittedBindGuards'
  BY SessionBind DEF SessionInv
<1>2. CallIsOpen'
  BY SessionBind DEF SessionInv, CallIsOpen
<1>3. OpenBindsGuard'
  BY GuardsAssumption DEF OpenBindsGuard
<1>4. QED
  BY <1>1, <1>2, <1>3 DEF SessionInv

(* The assertion of _cml_tx_get_triggerable_nodes holds between the calls: *)
(* the transaction that is overridden was committed.                       *)
LEMMA TriggerHolds ==
  ASSUME IInv, SessionInv, Settled, NEW s \in Symbols
  PROVE  TriggerAssert(s)
<1>1. SUFFICES ASSUME guarded[s] # <<>>
               PROVE  s \in DOMAIN transactions[Overridden(s)].bindings
  BY DEF TriggerAssert
<1>2. s \in Guards /\ s # Start
  BY GuardsAssumption DEF Guards
<1>3. Len(guarded[s]) \in DOMAIN guarded[s]
  <2>1. guarded[s] \in Seq(Nat) /\ DOMAIN guarded[s] = 1..Len(guarded[s])
    BY <1>2, EntriesAreTransactions
  <2>2. QED
    BY <1>1, <2>1
<1>4. Overridden(s) \in {guarded[s][k] : k \in DOMAIN guarded[s]}
  BY <1>3 DEF Overridden
<1>5. Overridden(s) \in TxIds /\ transactions[Overridden(s)].guard = s
  BY <1>2, <1>4 DEF IInv, GuardListsExact
<1>6. "NEW" \notin transactions[Overridden(s)].flags
  BY <1>5, OnlyNewestIsNew DEF SessionInv, Settled
<1>7. QED
  BY <1>2, <1>5, <1>6 DEF SessionInv, CommittedBindGuards, BindsItsGuard

(* That of _cml_tx_set holds in any order of calls.                        *)
LEMMA DeleteHolds == IInv => DeleteAssert
BY DEF DeleteAssert, IInv, UndoneAreAhead

(* The list of a guard is in the order of the steps, and so, with one      *)
(* transaction in each, in the order of the transactions.                  *)
LEMMA GuardListsAscend ==
  ASSUME IInv, OneTxPerStep, NEW g \in Guards,
         NEW j \in DOMAIN guarded[g], NEW k \in DOMAIN guarded[g], j < k
  PROVE  guarded[g][j] < guarded[g][k]
<1> DEFINE list == guarded[g]
<1>1. /\ list \in Seq(Nat) /\ Len(list) \in Nat /\ DOMAIN list = 1..Len(list)
      /\ \A x \in 1..Len(list) : list[x] \in TxIds
  BY EntriesAreTransactions
<1>2. /\ TxIds = 1..Len(transactions) /\ Len(transactions) \in Nat
      /\ last_undo_id \in Nat
      /\ \A i \in TxIds : transactions[i].undo_id \in 1..last_undo_id
  BY TxTypes DEF IInv, TypeOK, StepsInOrder
<1>3. list[j] # list[k]
  BY <1>1 DEF IInv, GuardListsExact
<1>4. StepPrefix(list)
  BY DEF IInv, ListsByStep
<1> HIDE DEF list
<1>5. j \in 1..Len(list) /\ k \in 1..Len(list)
  BY <1>1 DEF list
<1>6. list[j] \in TxIds /\ list[k] \in TxIds
  BY <1>1, <1>5
<1>7. PICK l \in 0..Len(list) :
        \A x \in 1..Len(list) : x <= l <=> transactions[list[x]].undo_id <= transactions[list[k]].undo_id
  <2>1. transactions[list[k]].undo_id \in 0..last_undo_id
    BY <1>2, <1>6
  <2>2. QED
    BY <1>4, <2>1 DEF StepPrefix
<1>8. transactions[list[j]].undo_id <= transactions[list[k]].undo_id
  <2>1. transactions[list[k]].undo_id <= transactions[list[k]].undo_id
    BY <1>2, <1>6
  <2>2. k <= l
    BY <1>5, <1>7, <2>1
  <2>3. j <= l
    BY <1>1, <1>5, <2>2
  <2>4. QED
    BY <1>5, <1>7, <2>3
<1>9. ~(list[k] < list[j])
  <2>1. list[k] < list[j] => transactions[list[k]].undo_id < transactions[list[j]].undo_id
    BY <1>6 DEF OneTxPerStep
  <2>2. transactions[list[k]].undo_id \in Nat /\ transactions[list[j]].undo_id \in Nat
    BY <1>2, <1>6
  <2>3. QED
    BY <1>8, <2>1, <2>2
<1>10. list[j] < list[k]
  BY <1>2, <1>3, <1>6, <1>9
<1>11. QED
  BY <1>10 DEF list

(* The assertions of the loop of _cml_tx_undo hold between the calls.      *)
LEMMA UndoHolds ==
  ASSUME IInv, SessionInv, Settled
  PROVE  UndoAssert
<1>1. SUFFICES ASSUME NEW g \in Guards, NEW i \in MetOfGuard(g, curr_undo_id)
               PROVE  /\ "UNDONE" \notin transactions[i].flags
                      /\ "NEW" \notin Committed(FALSE)[i].flags
                      /\ \E k \in DOMAIN guarded[g] :
                           /\ guarded[g][k] = i
                           /\ \A j \in k + 1..Len(guarded[g]) : guarded[g][j] > i
  BY DEF UndoAssert
<1>2. /\ i \in TxIds /\ transactions[i].guard = g /\ transactions[i].undo_id = curr_undo_id
      /\ curr_undo_id \in Nat
  BY DEF MetOfGuard, Met, OfStep, IInv, TypeOK
<1>3. "UNDONE" \notin transactions[i].flags
  BY <1>2 DEF IInv, UndoneAreAhead
<1>4. "NEW" \notin Committed(FALSE)[i].flags
  BY <1>2, CommittedLog
<1>5. PICK k \in DOMAIN guarded[g] : guarded[g][k] = i
  BY <1>2, <1>3 DEF IInv, GuardListsExact
<1>6. /\ DOMAIN guarded[g] = 1..Len(guarded[g]) /\ Len(guarded[g]) \in Nat
      /\ \A j \in DOMAIN guarded[g] : guarded[g][j] \in Nat
  BY EntriesAreTransactions, TxTypes DEF IInv
<1>7. ASSUME NEW j \in k + 1..Len(guarded[g])
      PROVE  guarded[g][j] > i
  <2>1. j \in DOMAIN guarded[g] /\ k < j
    BY <1>6
  <2>2. guarded[g][k] < guarded[g][j]
    BY <2>1, GuardListsAscend DEF SessionInv
  <2>3. QED
    BY <1>5, <1>6, <2>1, <2>2
<1>8. QED
  BY <1>3, <1>4, <1>5, <1>7

(* Every call of a session keeps its invariant.                            *)
LEMMA SessionStays == IInv /\ SessionInv /\ [GtkNext]_vars => SessionInv'
<1> SUFFICES ASSUME IInv, SessionInv, [GtkNext]_vars
             PROVE  SessionInv'
  OBVIOUS
<1>1. IInv'
  BY NextPreserves, SessionCalls
<1>2. ~aborted /\ NoCall \notin Guards
  BY GuardsAssumption DEF SessionInv
<1>3. ASSUME NEW s \in Symbols, NEW mn \in Symbols, NEW a \in Values, Settled, SetValue(s, mn, a)
      PROVE  SessionInv'
  BY <1>2, <1>3, BindingKeeps DEF Settled, SetValue, Guards
<1>4. ASSUME NEW mn \in Symbols, NEW a \in Values, Settled, Load(mn, a)
      PROVE  SessionInv'
  BY <1>2, <1>4, BindingKeeps DEF Settled, Load, Guards
<1>5. ASSUME NEW mn \in Symbols, NEW a \in Values, Propagate(mn, a)
      PROVE  SessionInv'
  <2>1. call \in Guards
    BY <1>5 DEF Propagate, IInv, TypeOK
  <2>2. transactions[Len(transactions)].guard = call
    BY <1>5 DEF Propagate, SessionInv, CallIsOpen
  <2>3. QED
    BY <1>2, <1>5, <2>1, <2>2, BindingKeeps DEF Propagate
<1>6. ASSUME NEW s \in Symbols, Settled, SetValueAsserts(s)
      PROVE  SessionInv'
  BY <1>6, TriggerHolds, DeleteHolds DEF SetValueAsserts
<1>7. ASSUME last_undo_id = 0, LoadAsserts
      PROVE  SessionInv'
  <2>1. TxIds = {}
    BY <1>7 DEF IInv, StepsInOrder
  <2>2. Start \in Guards
    BY DEF Guards
  <2>3. {guarded[Start][k] : k \in DOMAIN guarded[Start]} = {}
    BY <2>1, <2>2 DEF IInv, GuardListsExact
  <2>4. guarded[Start] = <<>>
    <3>1. /\ guarded[Start] \in Seq(Nat)
          /\ Len(guarded[Start]) \in Nat
          /\ DOMAIN guarded[Start] = 1..Len(guarded[Start])
      BY <2>2, EntriesAreTransactions
    <3>2. 1 \notin DOMAIN guarded[Start]
      BY <2>3
    <3>3. Len(guarded[Start]) = 0
      BY <3>1, <3>2
    <3>4. QED
      BY <3>1, <3>3, EmptySeq
  <2>5. QED
    BY <1>7, <2>4, DeleteHolds DEF LoadAsserts, TriggerAssert
<1>8. ASSUME NEW ok \in BOOLEAN, Return(ok)
      PROVE  SessionInv'
  <2>1. /\ UNCHANGED <<transactions, aborted>> /\ call' = NoCall /\ call # NoCall
        /\ failed' = (failed \/ (~ok /\ call # Start))
        /\ ok /\ call # Start => call \in DOMAIN transactions[Len(transactions)].bindings
    BY <1>8 DEF Return, log
  <2>2. OneTxPerStep' /\ CommittedBindGuards' /\ CallIsOpen'
    BY <2>1 DEF SessionInv, OneTxPerStep, CommittedBindGuards, BindsItsGuard, CallIsOpen, TxIds
  <2>3. OpenBindsGuard'
    BY <1>8, <2>1 DEF OpenBindsGuard, BindsItsGuard, SessionInv, CallIsOpen
  <2>4. QED
    BY <2>1, <2>2, <2>3 DEF SessionInv
<1>9. ASSUME NEW freeze \in BOOLEAN, Commit(freeze)
      PROVE  SessionInv'
  <2>1. call' = NoCall /\ ~aborted' /\ call = NoCall
    BY <1>2, <1>9 DEF Commit
  <2>2. CASE TxAbort
    BY <1>1, <2>1, <2>2, SettlingKeeps
  <2>3. CASE ~failed /\ transactions' = Committed(freeze)
    <3>1. HasNew => BindsItsGuard(Len(transactions))
      BY <2>1, <2>3 DEF SessionInv, OpenBindsGuard
    <3>2. QED
      BY <1>1, <2>1, <2>3, <3>1, CommitSettles, SettlingKeeps
  <2>4. QED
    BY <1>9, <2>2, <2>3 DEF Commit
<1>10. ASSUME HasNew \/ failed, CommitAsserts
       PROVE  SessionInv'
  <2>1. HasNew /\ curr_undo_id # last_undo_id
    BY <1>10 DEF CommitAsserts
  <2>2. Len(transactions) \in TxIds
    <3>1. transactions \in Seq(Transaction) /\ transactions # <<>>
      BY <2>1 DEF IInv, TypeOK, HasNew
    <3>2. QED
      BY <3>1, LenProperties DEF TxIds
  <2>3. QED
    BY <2>1, <2>2 DEF HasNew, IInv, NewAreNewestStep
<1>11. CASE Settled /\ Undo
  BY <1>1, <1>2, <1>11, UndoSettles, SettlingKeeps DEF Undo, Settled
<1>12. CASE Settled /\ UndoAsserts
  BY <1>12, UndoHolds DEF UndoAsserts, Settled
<1>13. CASE Settled /\ Redo
  BY <1>1, <1>2, <1>13, RedoSettles, SettlingKeeps DEF Redo, Settled
<1>14. CASE Settled /\ Clear
  BY <1>1, <1>2, <1>14, SettlingKeeps DEF Clear, Settled
<1>15. CASE UNCHANGED vars
  BY <1>15 DEF vars, log, SessionInv, OneTxPerStep, CommittedBindGuards, BindsItsGuard,
               CallIsOpen, OpenBindsGuard, HasNew, TxIds
<1>16. QED
  BY <1>3, <1>4, <1>5, <1>6, <1>7, <1>8, <1>9, <1>10, <1>11, <1>12, <1>13, <1>14, <1>15
  DEF GtkNext, SessionSet, SessionCall, SessionCommit, SessionLoad

(* Both invariants hold throughout a session.                              *)
LEMMA SessionInvariance == GtkSpec => [](IInv /\ SessionInv)
<1>1. Init => IInv /\ SessionInv
  <2>1. Init => SessionInv
    BY DEF Init, SessionInv, OneTxPerStep, CommittedBindGuards, CallIsOpen, OpenBindsGuard,
           HasNew, TxIds
  <2>2. QED
    BY <2>1, InitEstablishes
<1>2. IInv /\ SessionInv /\ [GtkNext]_vars => (IInv /\ SessionInv)'
  <2>1. [GtkNext]_vars => [Next]_vars
    BY SessionCalls
  <2>2. QED
    BY <2>1, NextPreserves, SessionStays
<1>3. QED
  BY <1>1, <1>2, PTL DEF GtkSpec

(* No assert() of transactions.c fails in a session of gtk/main.c, however *)
(* long it lasts and whatever the rules bind.                              *)
THEOREM AssertionsHold == GtkSpec => []NeverAborts
<1>1. SessionInv => NeverAborts
  BY DEF SessionInv, NeverAborts
<1>2. QED
  BY <1>1, SessionInvariance, PTL

-----------------------------------------------------------------------------
(* The values of the steps.                                                *)

(* The transactions in force after a step, among those up to it.           *)
InForceIsNewest ==
  \A k \in Nat :
    InForceAt(k) =
      {i \in UpTo(k) :
         \A x \in UpTo(k) : x > i => transactions[x].guard # transactions[i].guard}

LEMMA InForceUpTo == IInv => InForceIsNewest
<1>1. SUFFICES ASSUME IInv, NEW k \in Nat
               PROVE  InForceAt(k) =
                        {i \in UpTo(k) :
                           \A x \in UpTo(k) : x > i => transactions[x].guard # transactions[i].guard}
  BY DEF InForceIsNewest
<1>2. \A i \in TxIds : transactions[i].undo_id \in Nat
  BY <1>1, TxTypes DEF IInv
<1>3. \A i \in TxIds : transactions[i].undo_id > k <=> ~(transactions[i].undo_id <= k)
  BY <1>2
<1>4. QED
  BY <1>3 DEF InForceAt, UpTo

(* The same of the next state.                                             *)
LEMMA InForceNext == IInv' => InForceIsNewest'
BY InForceUpTo, PTL

(* The same transactions up to two steps give the same values.             *)
LEMMA SameValues ==
  ASSUME IInv, IInv', NEW k \in Nat, NEW j \in Nat, Same(k, j)
  PROVE  ValuesAt(k)' = ValuesAt(j)
<1>1. /\ {i \in TxIds' : transactions'[i].undo_id <= k} = UpTo(j)
      /\ \A i \in UpTo(j) : /\ transactions'[i].guard = transactions[i].guard
                            /\ transactions'[i].bindings = transactions[i].bindings
  BY DEF Same
<1>2. InForceAt(k)' =
        {i \in UpTo(j) :
           \A x \in UpTo(j) : x > i => transactions'[x].guard # transactions'[i].guard}
  BY <1>1, InForceNext DEF InForceIsNewest, UpTo
<1>3. InForceAt(j) =
        {i \in UpTo(j) :
           \A x \in UpTo(j) : x > i => transactions[x].guard # transactions[i].guard}
  BY InForceUpTo DEF InForceIsNewest
<1>4. InForceAt(k)' = InForceAt(j) /\ InForceAt(j) \subseteq UpTo(j)
  BY <1>1, <1>2, <1>3
<1>5. UpTo(j) \subseteq 0..Len(transactions) /\ Len(transactions) \in Nat
  BY TxTypes DEF IInv, UpTo
<1>6. ASSUME NEW n \in Symbols
      PROVE  NewestValue(n, InForceAt(k))' = NewestValue(n, InForceAt(j))
  <2> DEFINE B == Binders(n, InForceAt(j))
  <2>1. Binders(n, InForceAt(k))' = B
    BY <1>1, <1>4 DEF Binders
  <2>2. /\ NewestValue(n, InForceAt(k))' =
             IF B = {} THEN Unbound ELSE transactions'[Newest(B)].bindings[n]
        /\ NewestValue(n, InForceAt(j)) =
             IF B = {} THEN Unbound ELSE transactions[Newest(B)].bindings[n]
    BY <2>1 DEF NewestValue
  <2>3. B \subseteq UpTo(j)
    BY <1>4 DEF Binders
  <2> HIDE DEF B
  <2>4. CASE B # {}
    <3>1. Newest(B) \in B
      BY <1>5, <2>3, <2>4, HasNewest
    <3>2. QED
      BY <1>1, <2>2, <2>3, <3>1
  <2>5. QED
    BY <2>2, <2>4
<1>7. /\ ValuesAt(k)' = [n \in Symbols |-> NewestValue(n, InForceAt(k))']
      /\ ValuesAt(j) = [n \in Symbols |-> NewestValue(n, InForceAt(j))]
  BY DEF ValuesAt, NewestValue, Binders
<1>8. QED
  BY <1>6, <1>7

(* The values shown are those of the current step: the heads of the lists  *)
(* of the guards are the newest transactions of the steps up to it.        *)
Shown == [n \in Symbols |-> Get(n)]

ShownIsCurrent == \A k \in Nat : k = curr_undo_id => Shown = ValuesAt(k)

LEMMA ShownFromHistory == IInv /\ OneTxPerStep => ShownIsCurrent
<1> SUFFICES ASSUME IInv, OneTxPerStep
             PROVE  Shown = ValuesAt(curr_undo_id)
  BY DEF ShownIsCurrent
<1>1. /\ TxIds \subseteq Nat
      /\ curr_undo_id \in Nat
      /\ \A i \in TxIds : transactions[i].undo_id \in Nat /\ transactions[i].guard \in Guards
  BY TxTypes DEF IInv, TypeOK
<1>2. \A i \in TxIds : i \in UpTo(curr_undo_id) <=> "UNDONE" \notin transactions[i].flags
  BY <1>1 DEF UpTo, IInv, UndoneAreAhead
<1>3. InForceAt(curr_undo_id) =
        {i \in UpTo(curr_undo_id) :
           \A x \in UpTo(curr_undo_id) : x > i => transactions[x].guard # transactions[i].guard}
  BY <1>1, InForceUpTo DEF InForceIsNewest
<1>4. ASSUME NEW i \in TxIds, i \in UpTo(curr_undo_id)
      PROVE  InForce(i) <=>
               \A x \in UpTo(curr_undo_id) : x > i => transactions[x].guard # transactions[i].guard
  <2> DEFINE g    == transactions[i].guard
             list == guarded[g]
  <2>1. g \in Guards
    BY <1>1
  <2>2. /\ Len(list) \in Nat /\ DOMAIN list = 1..Len(list)
        /\ \A k \in 1..Len(list) : list[k] \in TxIds
        /\ list \in Seq(Nat)
    BY <2>1, EntriesAreTransactions
  <2>3. {list[k] : k \in DOMAIN list} =
          {x \in TxIds : transactions[x].guard = g /\ "UNDONE" \notin transactions[x].flags}
    BY <2>1 DEF IInv, GuardListsExact
  <2>4. \A j, k \in DOMAIN list : j < k => list[j] < list[k]
    BY <2>1, GuardListsAscend
  <2>5. InForce(i) <=> list # <<>> /\ list[Len(list)] = i
    BY <1>2, <1>4 DEF InForce, Superceded
  <2>6. PICK k \in DOMAIN list : list[k] = i
    BY <1>2, <1>4, <2>3
  <2>7. list # <<>> /\ Len(list) \in DOMAIN list /\ list[Len(list)] \in TxIds
    BY <2>2, <2>6
  <2>8. \A x \in UpTo(curr_undo_id) : transactions[x].guard = g =>
          x \in {list[y] : y \in DOMAIN list}
    BY <1>2, <2>3 DEF UpTo
  <2>9. \A y \in DOMAIN list : list[y] \in UpTo(curr_undo_id) /\ transactions[list[y]].guard = g
    BY <1>2, <2>3
  <2> HIDE DEF g, list
  <2>10. \A y \in DOMAIN list : list[y] <= list[Len(list)]
    <3>1. \A y \in DOMAIN list : y = Len(list) \/ y < Len(list)
      BY <2>2
    <3>2. \A y \in DOMAIN list : list[y] \in Nat
      BY <1>1, <2>2
    <3>3. QED
      BY <2>4, <2>7, <3>1, <3>2
  <2>11. ASSUME list[Len(list)] = i, NEW x \in UpTo(curr_undo_id), x > i
         PROVE  transactions[x].guard # g
    <3>1. SUFFICES ASSUME transactions[x].guard = g PROVE FALSE
      OBVIOUS
    <3>2. PICK y \in DOMAIN list : list[y] = x
      BY <2>8, <3>1
    <3>3. x <= i /\ x \in Nat /\ i \in Nat
      BY <1>1, <2>2, <2>10, <2>11, <3>2
    <3>4. QED
      BY <2>11, <3>3
  <2>12. ASSUME list[Len(list)] # i
         PROVE  \E x \in UpTo(curr_undo_id) : x > i /\ transactions[x].guard = g
    <3>1. i <= list[Len(list)] /\ list[Len(list)] \in Nat /\ i \in Nat
      BY <1>1, <2>6, <2>7, <2>10
    <3>2. list[Len(list)] > i
      BY <2>12, <3>1
    <3>3. QED
      BY <2>7, <2>9, <3>2
  <2>13. QED
    BY <2>5, <2>7, <2>11, <2>12 DEF g
<1>5. Forced = InForceAt(curr_undo_id)
  <2>1. \A i \in TxIds : InForce(i) => i \in UpTo(curr_undo_id)
    BY <1>2 DEF InForce
  <2>2. \A i \in UpTo(curr_undo_id) : i \in TxIds
    BY DEF UpTo
  <2>3. QED
    BY <1>3, <1>4, <2>1, <2>2 DEF Forced
<1>6. \A n \in Symbols : Get(n) = NewestValue(n, InForceAt(curr_undo_id))
  BY <1>5, GetIsNewest DEF GetsAreNewest
<1>7. ValuesAt(curr_undo_id) = [n \in Symbols |-> NewestValue(n, InForceAt(curr_undo_id))]
  BY DEF ValuesAt, NewestValue, Binders
<1>8. QED
  BY <1>6, <1>7 DEF Shown

(* The same of the next state.                                             *)
LEMMA ShownNext == IInv' /\ OneTxPerStep' => ShownIsCurrent'
BY ShownFromHistory, PTL

-----------------------------------------------------------------------------
(* The log implements a linear history (UndoHistory).                      *)

(* What the history of UndoHistory is refined to.                          *)
Steps == [k \in 0..last_undo_id |-> ValuesAt(k)]

ShownTyped == Shown \in [Symbols -> Values \cup {Unbound}]

(* A node that is bound has one of the values.                             *)
LEMMA ShownHasType == IInv => ShownTyped
<1> SUFFICES ASSUME IInv, NEW n \in Symbols
             PROVE  Get(n) \in Values \cup {Unbound}
  BY DEF ShownTyped, Shown
<1> DEFINE B == Binders(n, Forced)
<1>1. Get(n) = IF B = {} THEN Unbound ELSE transactions[Newest(B)].bindings[n]
  BY GetIsNewest DEF GetsAreNewest, NewestValue
<1>2. B \subseteq 0..Len(transactions) /\ Len(transactions) \in Nat
  BY TxTypes DEF IInv, Binders, Forced
<1>3. \A i \in B : i \in TxIds /\ n \in DOMAIN transactions[i].bindings
  BY DEF Binders, Forced
<1> HIDE DEF B
<1>4. ASSUME NEW i \in B
      PROVE  transactions[i].bindings[n] \in Values
  <2>1. transactions[i] \in Transaction
    BY <1>3, TxTypes DEF IInv
  <2>2. PICK S \in SUBSET Symbols : transactions[i].bindings \in [S -> Values]
    BY <2>1 DEF Transaction
  <2>3. QED
    BY <1>3, <2>2
<1>5. QED
  BY <1>1, <1>2, <1>4, HasNewest

(* The same of the next state.                                             *)
LEMMA ShownTypeNext == IInv' => ShownTyped'
BY ShownHasType, PTL

(* A binding begins a step or amends the open one.                         *)
LEMMA BindIsStep ==
  ASSUME IInv, IInv', SessionInv, SessionInv',
         NEW mn \in Symbols, NEW a \in Values, NEW source \in Guards, Bind(mn, a, source),
         HasNew => transactions[Len(transactions)].guard = source
  PROVE  History!Begin \/ History!Amend
<1>1. /\ HasNew'
      /\ curr_undo_id' = IF HasNew THEN curr_undo_id ELSE curr_undo_id + 1
      /\ last_undo_id' = curr_undo_id'
      /\ \A k \in Nat : k < curr_undo_id' => Same(k, k)
  BY SessionBind DEF SessionInv
<1>2. /\ curr_undo_id \in Nat /\ last_undo_id \in Nat
      /\ curr_undo_id <= last_undo_id
      /\ curr_undo_id' \in Nat
  BY DEF IInv, TypeOK, StepsInOrder
<1>3. \A k \in Nat : k < curr_undo_id' => ValuesAt(k)' = ValuesAt(k)
  BY <1>1, SameValues
<1>4. \A k \in Nat : k = curr_undo_id' => Shown' = ValuesAt(k)'
  BY ShownNext DEF SessionInv, ShownIsCurrent
<1>5. Shown' \in [Symbols -> Values \cup {Unbound}]
  BY ShownTypeNext DEF ShownTyped
<1>6. Steps' = [k \in 0..curr_undo_id' |-> IF k < curr_undo_id' THEN ValuesAt(k) ELSE Shown']
  <2>1. Steps' = [k \in 0..curr_undo_id' |-> ValuesAt(k)']
    BY <1>1 DEF Steps
  <2>2. \A k \in 0..curr_undo_id' : ValuesAt(k)' = IF k < curr_undo_id' THEN ValuesAt(k) ELSE Shown'
    <3>1. \A k \in 0..curr_undo_id' : k \in Nat /\ (k < curr_undo_id' \/ k = curr_undo_id')
      BY <1>2
    <3>2. QED
      BY <1>2, <1>3, <1>4, <3>1
  <2>3. QED
    BY <2>1, <2>2
<1>7. CASE HasNew
  <2>1. curr_undo_id = last_undo_id
    <3>1. Len(transactions) \in TxIds
      <4>1. transactions \in Seq(Transaction) /\ transactions # <<>>
        BY <1>7 DEF IInv, TypeOK, HasNew
      <4>2. QED
        BY <4>1, LenProperties DEF TxIds
    <3>2. QED
      BY <1>7, <3>1 DEF HasNew, IInv, NewAreNewestStep
  <2>2. Steps' = [Steps EXCEPT ![curr_undo_id] = Shown']
    <3>1. Steps = [k \in 0..curr_undo_id |-> ValuesAt(k)]
      BY <2>1 DEF Steps
    <3>2. Steps' = [k \in 0..curr_undo_id |-> IF k < curr_undo_id THEN ValuesAt(k) ELSE Shown']
      BY <1>1, <1>6, <1>7
    <3>3. [Steps EXCEPT ![curr_undo_id] = Shown'] =
            [k \in 0..curr_undo_id |-> IF k = curr_undo_id THEN Shown' ELSE ValuesAt(k)]
      BY <3>1
    <3>4. \A k \in 0..curr_undo_id : k < curr_undo_id <=> k # curr_undo_id
      BY <1>2
    <3>5. QED
      BY <3>2, <3>3, <3>4
  <2>3. HasNew' = HasNew
    BY <1>1, <1>7 DEF HasNew
  <2>4. History!Amend
    BY <1>1, <1>5, <1>7, <2>2, <2>3 DEF History!Amend, History!Valuations, Steps, Shown
  <2>5. QED
    BY <2>4
<1>8. CASE ~HasNew
  <2>1. curr_undo_id' = curr_undo_id + 1
    BY <1>1, <1>8
  <2>2. Steps' = [k \in 0..curr_undo_id + 1 |-> IF k <= curr_undo_id THEN Steps[k] ELSE Shown']
    <3>1. \A k \in 0..curr_undo_id + 1 : k < curr_undo_id + 1 <=> k <= curr_undo_id
      BY <1>2
    <3>2. \A k \in 0..curr_undo_id + 1 : k <= curr_undo_id => Steps[k] = ValuesAt(k)
      BY <1>2 DEF Steps
    <3>3. QED
      BY <1>6, <2>1, <3>1, <3>2
  <2>3. HasNew' = TRUE
    BY <1>1 DEF HasNew
  <2>4. History!Begin
    BY <1>5, <1>8, <2>1, <2>2, <2>3 DEF History!Begin, History!Valuations, Steps, Shown
  <2>5. QED
    BY <2>4
<1>9. QED
  BY <1>7, <1>8

(* The values of the steps stay when only flags change.                    *)
LEMMA SettledSteps ==
  ASSUME IInv, IInv', SessionInv', Settles, last_undo_id' = last_undo_id
  PROVE  /\ Steps' = Steps
         /\ \A k \in Nat : k = curr_undo_id' => Shown' = ValuesAt(k)
         /\ HasNew' = FALSE
<1>1. \A k \in Nat : Same(k, k)
  BY DEF Settles, Same, UpTo
<1>2. \A k \in Nat : ValuesAt(k)' = ValuesAt(k)
  BY <1>1, SameValues
<1>3. \A k \in 0..last_undo_id : k \in Nat
  BY DEF IInv, TypeOK
<1>4. Steps' = Steps
  BY <1>2, <1>3 DEF Steps
<1>5. \A k \in Nat : k = curr_undo_id' => Shown' = ValuesAt(k)'
  BY ShownNext DEF SessionInv, ShownIsCurrent
<1>6. HasNew' = FALSE
  BY NothingOpen DEF HasNew
<1>7. QED
  BY <1>2, <1>4, <1>5, <1>6

(* Commit closes the open step.                                            *)
LEMMA CommitIsClose ==
  ASSUME IInv, IInv', SessionInv, SessionInv', HasNew,
         NEW freeze \in BOOLEAN, transactions' = Committed(freeze),
         UNCHANGED <<curr_undo_id, last_undo_id>>
  PROVE  History!Close
<1>1. Settles
  BY CommitSettles
<1>2. curr_undo_id \in Nat /\ Shown = ValuesAt(curr_undo_id)
  BY ShownFromHistory DEF SessionInv, ShownIsCurrent, IInv, TypeOK
<1>3. Steps' = Steps /\ Shown' = Shown /\ HasNew' = FALSE
  BY <1>1, <1>2, SettledSteps
<1>4. QED
  BY <1>3 DEF History!Close, Steps, Shown

(* Abort discards the open step: the values of the step before it return.  *)
LEMMA AbortIsDiscard ==
  ASSUME IInv, IInv', SessionInv, SessionInv', HasNew, TxAbort
  PROVE  History!Discard
<1>1. /\ TxIds' = {i \in TxIds : "NEW" \notin transactions[i].flags}
      /\ \A i \in TxIds' : transactions'[i] = transactions[i]
      /\ curr_undo_id' = curr_undo_id /\ last_undo_id' = last_undo_id
  BY AbortKeeps
<1>2. Len(transactions) \in TxIds /\ "NEW" \in transactions[Len(transactions)].flags
  <2>1. transactions \in Seq(Transaction) /\ transactions # <<>>
    BY DEF IInv, TypeOK, HasNew
  <2>2. QED
    BY <2>1, LenProperties DEF TxIds, HasNew
<1>3. /\ curr_undo_id = last_undo_id
      /\ transactions[Len(transactions)].undo_id = curr_undo_id
      /\ \A i \in TxIds : "NEW" \in transactions[i].flags <=> transactions[i].undo_id = curr_undo_id
  BY <1>2 DEF IInv, NewAreNewestStep, OfStep
<1>4. /\ \A i \in TxIds : transactions[i].undo_id \in 1..curr_undo_id
      /\ curr_undo_id \in Nat \ {0} /\ curr_undo_id - 1 \in Nat
  BY <1>2, <1>3 DEF IInv, StepsInOrder, TypeOK
<1>5. \A k \in Nat : k < curr_undo_id => Same(k, k)
  BY <1>1, <1>3, <1>4 DEF Same, UpTo
<1>6. Same(curr_undo_id, curr_undo_id - 1)
  <2>1. {i \in TxIds' : transactions'[i].undo_id <= curr_undo_id} = TxIds'
    BY <1>1, <1>4
  <2>2. UpTo(curr_undo_id - 1) = TxIds'
    BY <1>1, <1>3, <1>4 DEF UpTo
  <2>3. QED
    BY <1>1, <2>1, <2>2 DEF Same
<1>7. \A k \in Nat : k < curr_undo_id => ValuesAt(k)' = ValuesAt(k)
  BY <1>5, SameValues
<1>8. \A k \in Nat : k = curr_undo_id => ValuesAt(k)' = ValuesAt(curr_undo_id - 1)
  BY <1>4, <1>6, SameValues
<1>9. Steps = [k \in 0..curr_undo_id |-> ValuesAt(k)]
  BY <1>3 DEF Steps
<1>10. Steps' = [Steps EXCEPT ![curr_undo_id] = Steps[curr_undo_id - 1]]
  <2>1. Steps' = [k \in 0..curr_undo_id |-> ValuesAt(k)']
    BY <1>1, <1>3 DEF Steps
  <2>2. Steps[curr_undo_id - 1] = ValuesAt(curr_undo_id - 1)
    BY <1>4, <1>9
  <2>3. [Steps EXCEPT ![curr_undo_id] = Steps[curr_undo_id - 1]] =
          [k \in 0..curr_undo_id |->
             IF k = curr_undo_id THEN ValuesAt(curr_undo_id - 1) ELSE ValuesAt(k)]
    BY <1>9, <2>2
  <2>4. \A k \in 0..curr_undo_id :
          ValuesAt(k)' = IF k = curr_undo_id THEN ValuesAt(curr_undo_id - 1) ELSE ValuesAt(k)
    <3>1. \A k \in 0..curr_undo_id : k \in Nat /\ (k = curr_undo_id \/ k < curr_undo_id)
      BY <1>4
    <3>2. QED
      BY <1>7, <1>8, <3>1
  <2>5. QED
    BY <2>1, <2>3, <2>4
<1>11. Shown' = Steps[curr_undo_id - 1]
  <2>1. \A k \in Nat : k = curr_undo_id' => Shown' = ValuesAt(k)'
    BY ShownNext DEF SessionInv, ShownIsCurrent
  <2>2. Steps[curr_undo_id - 1] = ValuesAt(curr_undo_id - 1)
    BY <1>4, <1>9
  <2>3. QED
    BY <1>1, <1>4, <1>8, <2>1, <2>2
<1>12. HasNew' = FALSE
  BY NothingOpen DEF HasNew
<1>13. QED
  BY <1>1, <1>10, <1>11, <1>12 DEF History!Discard, Steps, Shown

(* When nothing is open, an abort changes nothing.                         *)
LEMMA AbortIsNothing ==
  ASSUME IInv, IInv', SessionInv, SessionInv', ~HasNew, TxAbort
  PROVE  UNCHANGED History!hvars
<1>1. /\ TxIds' = {i \in TxIds : "NEW" \notin transactions[i].flags}
      /\ \A i \in TxIds' : transactions'[i] = transactions[i]
      /\ curr_undo_id' = curr_undo_id /\ last_undo_id' = last_undo_id
  BY AbortKeeps
<1>2. \A i \in TxIds : "NEW" \notin transactions[i].flags
  BY OnlyNewestIsNew DEF SessionInv
<1>3. Settles
  BY <1>1, <1>2 DEF Settles
<1>4. curr_undo_id \in Nat /\ Shown = ValuesAt(curr_undo_id)
  BY ShownFromHistory DEF SessionInv, ShownIsCurrent, IInv, TypeOK
<1>5. Steps' = Steps /\ Shown' = Shown /\ HasNew' = FALSE
  BY <1>1, <1>3, <1>4, SettledSteps
<1>6. HasNew' = HasNew
  BY <1>5 DEF HasNew
<1>7. QED
  BY <1>1, <1>5, <1>6 DEF History!hvars, Steps, Shown

(* Undo goes one step back.                                                *)
LEMMA UndoIsBack ==
  ASSUME IInv, IInv', SessionInv, SessionInv', Undo
  PROVE  History!Back
<1>1. /\ curr_undo_id \in Nat /\ last_undo_id \in Nat
      /\ curr_undo_id <= last_undo_id
      /\ curr_undo_id # 0
      /\ curr_undo_id' = curr_undo_id - 1 /\ last_undo_id' = last_undo_id
  BY DEF Undo, NothingToUndo, IInv, TypeOK, StepsInOrder
<1>2. Steps' = Steps /\ HasNew' = FALSE /\ Shown' = ValuesAt(curr_undo_id - 1)
  BY <1>1, UndoSettles, SettledSteps
<1>3. Steps[curr_undo_id - 1] = ValuesAt(curr_undo_id - 1)
  BY <1>1 DEF Steps
<1>4. QED
  BY <1>1, <1>2, <1>3 DEF History!Back, Steps, Shown

(* Redo goes one step forth.                                               *)
LEMMA RedoIsForth ==
  ASSUME IInv, IInv', SessionInv, SessionInv', ~HasNew, Redo
  PROVE  History!Forth
<1>1. /\ curr_undo_id \in Nat /\ last_undo_id \in Nat
      /\ curr_undo_id + 1 \in 0..last_undo_id
      /\ curr_undo_id' = curr_undo_id + 1 /\ last_undo_id' = last_undo_id
  BY DEF Redo, IInv, TypeOK, StepsInOrder
<1>2. Steps' = Steps /\ HasNew' = FALSE /\ Shown' = ValuesAt(curr_undo_id + 1)
  BY <1>1, RedoSettles, SettledSteps
<1>3. /\ Steps[curr_undo_id + 1] = ValuesAt(curr_undo_id + 1)
      /\ curr_undo_id + 1 \in DOMAIN Steps
  BY <1>1 DEF Steps
<1>4. HasNew' = HasNew
  BY <1>2 DEF HasNew
<1>5. QED
  BY <1>1, <1>2, <1>3, <1>4 DEF History!Forth, Steps, Shown

(* A cleared log has a history of no steps.                                *)
Cleared == transactions = <<>> /\ last_undo_id = 0 /\ bindings = [n \in Symbols |-> <<>>]

NoHistory ==
  /\ Steps = [k \in {0} |-> [n \in Symbols |-> Unbound]]
  /\ Shown = [n \in Symbols |-> Unbound]
  /\ HasNew = FALSE

LEMMA ClearedHasNone == Cleared => NoHistory
<1> SUFFICES ASSUME transactions = <<>>, last_undo_id = 0, bindings = [n \in Symbols |-> <<>>]
             PROVE  NoHistory
  BY DEF Cleared
<1>1. TxIds = {}
  BY DEF TxIds
<1>2. \A k : ValuesAt(k) = [n \in Symbols |-> Unbound]
  BY <1>1 DEF ValuesAt, InForceAt
<1>3. 0..last_undo_id = {0}
  OBVIOUS
<1>4. Steps = [k \in {0} |-> [n \in Symbols |-> Unbound]]
  BY <1>2, <1>3 DEF Steps
<1>5. ASSUME NEW n \in Symbols
      PROVE  Get(n) = Unbound
  <2>1. bindings[n] = <<>> /\ DOMAIN bindings[n] = {}
    OBVIOUS
  <2>2. {k \in DOMAIN bindings[n] : InForce(bindings[n][k])} = {}
    BY <2>1
  <2>3. QED
    BY <2>2 DEF Get
<1>6. QED
  BY <1>4, <1>5 DEF NoHistory, Shown, HasNew

(* The same of the next state.                                             *)
LEMMA ClearedNext == Cleared' => NoHistory'
BY ClearedHasNone, PTL

(* Clear forgets the history.                                              *)
LEMMA ClearIsReset ==
  ASSUME Clear
  PROVE  History!Reset
<1>1. NoHistory'
  BY ClearedNext DEF Clear, Cleared
<1>2. curr_undo_id' = 0
  BY DEF Clear
<1>3. QED
  BY <1>1, <1>2 DEF NoHistory, History!Reset, Steps, Shown

(* The history is read off the log.                                        *)
LEMMA SameLog ==
  ASSUME UNCHANGED log
  PROVE  UNCHANGED History!hvars
<1>1. /\ transactions' = transactions /\ guarded' = guarded /\ bindings' = bindings
      /\ curr_undo_id' = curr_undo_id /\ last_undo_id' = last_undo_id
  BY DEF log
<1>2. \A k : ValuesAt(k)' = ValuesAt(k)
  BY <1>1 DEF ValuesAt, InForceAt, TxIds
<1>3. \A n : Get(n)' = Get(n)
  BY <1>1 DEF Get, InForce, Superceded
<1>4. HasNew' = HasNew
  BY <1>1 DEF HasNew
<1>5. QED
  BY <1>1, <1>2, <1>3, <1>4 DEF History!hvars

(* Every call of a session is a step of the history or no step.            *)
LEMMA SessionRefines ==
  IInv /\ SessionInv /\ [GtkNext]_vars => [History!HistNext]_(History!hvars)
<1> SUFFICES ASSUME IInv, SessionInv, [GtkNext]_vars
             PROVE  History!HistNext \/ UNCHANGED History!hvars
  OBVIOUS
<1>1. IInv' /\ SessionInv'
  BY NextPreserves, SessionCalls, SessionStays
<1>2. ASSUME UNCHANGED log
      PROVE  UNCHANGED History!hvars
  BY <1>2, SameLog
<1>3. ASSUME NEW mn \in Symbols, NEW a \in Values, NEW source \in Guards, Bind(mn, a, source),
             HasNew => transactions[Len(transactions)].guard = source
      PROVE  History!HistNext
  BY <1>1, <1>3, BindIsStep DEF History!HistNext
<1>4. ASSUME NEW s \in Symbols, NEW mn \in Symbols, NEW a \in Values, Settled, SetValue(s, mn, a)
      PROVE  History!HistNext
  BY <1>3, <1>4 DEF Settled, SetValue, Guards
<1>5. ASSUME NEW mn \in Symbols, NEW a \in Values, Settled, Load(mn, a)
      PROVE  History!HistNext
  BY <1>3, <1>5 DEF Settled, Load, Guards
<1>6. ASSUME NEW mn \in Symbols, NEW a \in Values, Propagate(mn, a)
      PROVE  History!HistNext
  <2>1. call \in Guards
    BY <1>6 DEF Propagate, IInv, TypeOK
  <2>2. transactions[Len(transactions)].guard = call
    BY <1>6 DEF Propagate, SessionInv, CallIsOpen
  <2>3. QED
    BY <1>3, <1>6, <2>1, <2>2 DEF Propagate
<1>7. ASSUME NEW freeze \in BOOLEAN, HasNew \/ failed, Commit(freeze)
      PROVE  History!HistNext \/ UNCHANGED History!hvars
  <2>1. CASE TxAbort /\ HasNew
    BY <1>1, <2>1, AbortIsDiscard DEF History!HistNext
  <2>2. CASE TxAbort /\ ~HasNew
    BY <1>1, <2>2, AbortIsNothing
  <2>3. CASE /\ ~failed /\ transactions' = Committed(freeze)
             /\ UNCHANGED <<curr_undo_id, last_undo_id>>
    BY <1>1, <1>7, <2>3, CommitIsClose DEF History!HistNext
  <2>4. QED
    BY <1>7, <2>1, <2>2, <2>3 DEF Commit
<1>8. CASE Settled /\ Undo
  BY <1>1, <1>8, UndoIsBack DEF History!HistNext
<1>9. CASE Settled /\ Redo
  BY <1>1, <1>9, RedoIsForth DEF History!HistNext, Settled
<1>10. CASE Settled /\ Clear
  BY <1>10, ClearIsReset DEF History!HistNext
<1>11. ASSUME \/ \E s \in Symbols : SetValueAsserts(s)
              \/ LoadAsserts \/ CommitAsserts \/ UndoAsserts
              \/ \E ok \in BOOLEAN : Return(ok)
              \/ UNCHANGED vars
       PROVE  UNCHANGED History!hvars
  BY <1>2, <1>11 DEF SetValueAsserts, LoadAsserts, CommitAsserts, UndoAsserts, Return, Die, vars
<1>12. QED
  BY <1>4, <1>5, <1>6, <1>7, <1>8, <1>9, <1>10, <1>11
  DEF GtkNext, SessionSet, SessionCall, SessionCommit, SessionLoad

(* At first there is no history.                                           *)
LEMMA HistoryBegins == Init => History!HistInit
<1>1. Init => NoHistory
  BY ClearedHasNone DEF Init, Cleared
<1>2. Init => curr_undo_id = 0
  BY DEF Init
<1>3. QED
  BY <1>1, <1>2 DEF NoHistory, History!HistInit, Steps, Shown

(* In a session of gtk/main.c the log is a linear history: a call makes    *)
(* one step, an aborted one leaves no value behind, and undo and redo give *)
(* back exactly the values that were there (transactions.c, the Undo and   *)
(* Redo of the menus).                                                     *)
THEOREM LogIsHistory == GtkSpec => IsUndoHistory
<1>1. IInv /\ SessionInv /\ [GtkNext]_vars => [History!HistNext]_(History!hvars)
  BY SessionRefines
<1>2. QED
  BY <1>1, HistoryBegins, SessionInvariance, PTL DEF GtkSpec, IsUndoHistory, History!HistSpec
=============================================================================
