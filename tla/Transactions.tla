---------------------------- MODULE Transactions ----------------------------
(***************************************************************************)
(* The transaction log of a rulebase: libcml/transactions.c, with the      *)
(* parts of node.c (mn_set_value2, cml_node_set_value, chilling),          *)
(* rulebase.c (commit, abort, undo, redo, clear) and load.c that decide    *)
(* which calls reach it.                                                   *)
(*                                                                         *)
(* A call of cml_node_set_value() binds a first node and then, while rules *)
(* are triggered, any others; all these bindings carry the same source.    *)
(* Which nodes the rules bind is left open here: SetValue and Load start a *)
(* call, Propagate is one further binding of the call, Return ends it.     *)
(*                                                                         *)
(* The C lists are most recent first. Here they are oldest first, so that  *)
(* g_list_prepend is Append, the head of the C list is the last element,   *)
(* and a transaction is identified by its index: only the newest ones are  *)
(* ever deleted.                                                           *)
(***************************************************************************)
EXTENDS Integers, Sequences

CONSTANTS
  Symbols,         (* The nodes a value can be bound to: symbols, radio menus. *)
  Values,          (* The values they can be bound to.                         *)
  Parent,          (* The radio menu or the other menu a symbol belongs to.    *)
  Start,           (* The start node, the source of what a file binds.         *)
  Unbound,         (* No current binding: the node has its default value.      *)
  NoCall,          (* No cml_node_set_value() or load is in progress.          *)
  MaxUndoId,       (* Bound: undo steps that are ever made.                    *)
  MaxTransactions  (* Bound: transactions in the log.                          *)

Guards == Symbols \cup {Start}

ASSUME GuardsAssumption ==
  /\ Start \notin Symbols
  /\ NoCall \notin Guards
  /\ Parent \in [Symbols -> Guards]

ASSUME BoundsAssumption == MaxUndoId \in Nat /\ MaxTransactions \in Nat

VARIABLES
  transactions,    (* rb->transactions, oldest first.                          *)
  guarded,         (* node->transactions_guarded, as indices, oldest first.    *)
  bindings,        (* node->bindings, as indices of their transactions.        *)
  curr_undo_id,
  last_undo_id,
  chilled,         (* rb->chilled: nodes set since the last commit or abort.   *)
  failed,          (* rb->num_failed_sets > 0, all the code asks of it.        *)
  call,            (* The source of the call in progress.                      *)
  aborted          (* An assert() failed: the process is gone.                 *)

log  == <<transactions, guarded, bindings, curr_undo_id, last_undo_id>>
vars == <<log, chilled, failed, call, aborted>>

Flags == {"NEW", "UNDONE", "FROZEN"}

Transaction ==
  [guard    : Guards,
   flags    : SUBSET Flags,
   undo_id  : Nat,
   bindings : UNION {[S -> Values] : S \in SUBSET Symbols}]

-----------------------------------------------------------------------------
(* Reading the log.                                                        *)

TxIds == DOMAIN transactions

Newest(S) == CHOOSE i \in S : \A j \in S : j <= i

(* Mutant: no transaction supercedes another.                              *)
NeverSuperceded(i) == FALSE

(* _cml_tx_is_superceded: another transaction of its guard is in force.    *)
Superceded(i) ==
  LET list == guarded[transactions[i].guard]
  IN  list = <<>> \/ list[Len(list)] # i

InForce(i) == "UNDONE" \notin transactions[i].flags /\ ~Superceded(i)

(* _cml_tx_get: the most recent binding whose transaction is in force.     *)
Get(n) ==
  LET list    == bindings[n]
      current == {k \in DOMAIN list : InForce(list[k])}
  IN  IF current = {} THEN Unbound
      ELSE transactions[list[Newest(current)]].bindings[n]

HasNew == transactions # <<>> /\ "NEW" \in transactions[Len(transactions)].flags

(* A binding of this source would open a transaction of its own.           *)
OpensTransaction(source) ==
  ~HasNew \/ transactions[Len(transactions)].guard # source

Overridden(source) == guarded[source][Len(guarded[source])]

(* Mutant: the bindings of the overridden transaction are forgotten.       *)
TriggerableAlone(mn, source) == {mn}

(* _cml_tx_get_triggerable_nodes: the nodes whose rules are triggered.     *)
Triggerable(mn, source) ==
  IF OpensTransaction(source) /\ guarded[source] # <<>>
  THEN DOMAIN transactions[Overridden(source)].bindings \cup {mn}
  ELSE {mn}

(* Its assertion: the source is bound by the transaction it guards.        *)
TriggerAssert(source) ==
  OpensTransaction(source) /\ guarded[source] # <<>> =>
    source \in DOMAIN transactions[Overridden(source)].bindings

-----------------------------------------------------------------------------
(* Shortening the lists when the newest transactions go.                   *)

(* The first l elements of the list are those up to m.                     *)
Split(list, m, l) == \A k \in 1..Len(list) : k <= l <=> list[k] <= m

Upto(list, m) == SubSeq(list, 1, CHOOSE l \in 0..Len(list) : Split(list, m, l))

(* tx_delete of all transactions after m: their entries leave the lists.   *)
DeleteAfter(m) ==
  /\ transactions' = SubSeq(transactions, 1, m)
  /\ guarded' = [g \in Guards |-> Upto(guarded[g], m)]
  /\ bindings' = [n \in Symbols |-> Upto(bindings[n], m)]

(* m transactions remain when those with a later undo step are removed     *)
(* from the head of the list.                                              *)
LastOfStep(m, undo_id) ==
  /\ \A i \in TxIds : i > m => transactions[i].undo_id > undo_id
  /\ m > 0 => transactions[m].undo_id <= undo_id

(* m transactions remain when the NEW ones are removed from the head.      *)
LastCommitted(m) ==
  /\ \A i \in TxIds : i > m => "NEW" \in transactions[i].flags
  /\ m > 0 => "NEW" \notin transactions[m].flags

Die ==
  /\ aborted' = TRUE
  /\ UNCHANGED <<log, chilled, failed, call>>

-----------------------------------------------------------------------------
(* mn_set_value2 and _cml_tx_set.                                          *)

mn_is_chilled(mn) == mn \in chilled

(* Mutant: the node is not remembered.                                     *)
ChillNone(mn) == UNCHANGED chilled

mn_chill(mn) == chilled' = chilled \cup {mn}

(* _cml_tx_set with m transactions left once the undone ones are deleted.  *)
TxSet(mn, a, source, m) ==
  LET newStep == m = 0 \/ "NEW" \notin transactions[m].flags
      newTx   == newStep \/ transactions[m].guard # source
      undo_id == IF newStep THEN curr_undo_id + 1 ELSE curr_undo_id
      id      == IF newTx THEN m + 1 ELSE m
      tx      == IF newTx THEN [guard |-> source, flags |-> {"NEW"},
                                undo_id |-> undo_id, bindings |-> <<>>]
                 ELSE transactions[m]
      bound   == [n \in DOMAIN tx.bindings \cup {mn} |->
                    IF n = mn THEN a ELSE tx.bindings[n]]
  IN  /\ undo_id <= MaxUndoId
      /\ id <= MaxTransactions
      /\ transactions' = Append(SubSeq(transactions, 1, id - 1),
                                [tx EXCEPT !.bindings = bound])
      /\ guarded' = [g \in Guards |->
                       IF newTx /\ g = source THEN Append(Upto(guarded[g], m), id)
                       ELSE Upto(guarded[g], m)]
      /\ bindings' = [n \in Symbols |->
                        IF n = mn THEN Append(Upto(bindings[n], m), id)
                        ELSE Upto(bindings[n], m)]
      /\ curr_undo_id' = undo_id
      /\ last_undo_id' = undo_id

(* mn_set_value2 on a node that is not chilled.                            *)
Bind(mn, a, source) ==
  /\ ~mn_is_chilled(mn)
  /\ \E m \in 0..Len(transactions) :
       /\ IF last_undo_id # curr_undo_id THEN LastOfStep(m, curr_undo_id)
          ELSE m = Len(transactions)
       /\ TxSet(mn, a, source, m)
  /\ mn_chill(mn)

(* The nodes a call on source may bind first: a child of a radio menu that *)
(* is set to y binds the menu.                                             *)
FirstBound(source) == {source} \cup ({Parent[source]} \ {Start})

(* The assertion of _cml_tx_set: what it deletes has been undone.          *)
DeleteAssert ==
  last_undo_id # curr_undo_id =>
    \A i \in TxIds : transactions[i].undo_id > curr_undo_id => "UNDONE" \in transactions[i].flags

SetValue(source, mn, a) ==
  /\ ~aborted /\ call = NoCall
  /\ mn \in FirstBound(source)
  /\ TriggerAssert(source) /\ DeleteAssert
  /\ Bind(mn, a, source)
  /\ call' = source
  /\ UNCHANGED <<failed, aborted>>

SetValueAsserts(source) ==
  /\ ~aborted /\ call = NoCall
  /\ \E mn \in FirstBound(source) : ~mn_is_chilled(mn)
  /\ ~(TriggerAssert(source) /\ DeleteAssert)
  /\ Die

(* "Ruleset found unsatisfiable": the node is chilled.                     *)
SetRefused(source) ==
  /\ ~aborted /\ call = NoCall
  /\ \E mn \in FirstBound(source) : mn_is_chilled(mn)
  /\ failed' = TRUE
  /\ UNCHANGED <<log, chilled, call, aborted>>

(* The first line of a configuration file that binds a node.               *)
Load(mn, a) ==
  /\ ~aborted /\ call = NoCall
  /\ TriggerAssert(Start) /\ DeleteAssert
  /\ Bind(mn, a, Start)
  /\ call' = Start
  /\ UNCHANGED <<failed, aborted>>

LoadAsserts ==
  /\ ~aborted /\ call = NoCall
  /\ \E mn \in Symbols : ~mn_is_chilled(mn)
  /\ ~(TriggerAssert(Start) /\ DeleteAssert)
  /\ Die

Propagate(mn, a) ==
  /\ call # NoCall
  /\ Bind(mn, a, call)
  /\ UNCHANGED <<failed, call, aborted>>

(* A call that succeeds has bound its source; load ignores the outcome.    *)
Return(ok) ==
  /\ call # NoCall
  /\ ok /\ call # Start => call \in DOMAIN transactions[Len(transactions)].bindings
  /\ failed' = (failed \/ (~ok /\ call # Start))
  /\ call' = NoCall
  /\ UNCHANGED <<log, chilled, aborted>>

-----------------------------------------------------------------------------
(* cml_rulebase_commit, abort, undo, redo and clear.                       *)

(* _cml_tx_commit: the flags change up to the first transaction, from the  *)
(* newest, that is not NEW.                                                *)
Committed(freeze) ==
  [i \in TxIds |->
     IF \A j \in i..Len(transactions) : "NEW" \in transactions[j].flags
     THEN [transactions[i] EXCEPT
             !.flags = (@ \ {"NEW"}) \cup (IF freeze THEN {"FROZEN"} ELSE {})]
     ELSE transactions[i]]

TxAbort ==
  /\ \E m \in 0..Len(transactions) : LastCommitted(m) /\ DeleteAfter(m)
  /\ UNCHANGED <<curr_undo_id, last_undo_id>>

Commit(freeze) ==
  /\ ~aborted /\ call = NoCall
  /\ \/ /\ failed
        /\ TxAbort
     \/ /\ ~failed
        /\ curr_undo_id = last_undo_id
        /\ transactions' = Committed(freeze)
        /\ UNCHANGED <<guarded, bindings, curr_undo_id, last_undo_id>>
  /\ chilled' = {}
  /\ failed' = FALSE
  /\ UNCHANGED <<call, aborted>>

(* assert(rb->curr_undo_id == rb->last_undo_id) in _cml_tx_commit.         *)
CommitAsserts ==
  /\ ~aborted /\ call = NoCall
  /\ ~failed /\ curr_undo_id # last_undo_id
  /\ Die

Abort ==
  /\ ~aborted /\ call = NoCall
  /\ TxAbort
  /\ chilled' = {}
  /\ failed' = FALSE
  /\ UNCHANGED <<call, aborted>>

OfStep(undo_id) == {i \in TxIds : transactions[i].undo_id = undo_id}

OfGuard(g, undo_id) == {i \in OfStep(undo_id) : transactions[i].guard = g}

(* Mutant: the loops stop after one transaction of the step.               *)
MetFirst(undo_id) == {i \in OfStep(undo_id) : \A j \in OfStep(undo_id) : j <= i}

(* The transactions of the step that the loops of _cml_tx_undo and         *)
(* _cml_tx_redo meet, from the newest to the first of an older step.       *)
Met(undo_id) ==
  {i \in OfStep(undo_id) : \A j \in i..Len(transactions) : transactions[j].undo_id >= undo_id}

MetOfGuard(g, undo_id) == {i \in Met(undo_id) : transactions[i].guard = g}

(* The assertions of the loop in _cml_tx_undo: each transaction of the     *)
(* step, newest first, is in force: the head of its guard's list.          *)
UndoAssert ==
  \A g \in Guards : \A i \in MetOfGuard(g, curr_undo_id) :
    /\ "UNDONE" \notin transactions[i].flags
    /\ "NEW" \notin Committed(FALSE)[i].flags
    /\ \E k \in DOMAIN guarded[g] :
         /\ guarded[g][k] = i
         /\ \A j \in k + 1..Len(guarded[g]) : guarded[g][j] > i

NothingToUndo == curr_undo_id = 0

(* remove_head, once for each transaction of the step that is met, removes *)
(* from each guard's list the entries after those of older steps.          *)
Undo ==
  /\ ~aborted /\ call = NoCall
  /\ ~NothingToUndo
  /\ HasNew => curr_undo_id = last_undo_id
  /\ UndoAssert
  /\ transactions' =
       [i \in TxIds |->
          IF i \in Met(curr_undo_id)
          THEN [Committed(FALSE)[i] EXCEPT !.flags = @ \cup {"UNDONE"}]
          ELSE Committed(FALSE)[i]]
  /\ \E m \in 0..Len(transactions) :
       /\ LastOfStep(m, curr_undo_id - 1)
       /\ guarded' = [g \in Guards |-> Upto(guarded[g], m)]
  /\ curr_undo_id' = curr_undo_id - 1
  /\ UNCHANGED <<bindings, last_undo_id, chilled, failed, call, aborted>>

UndoAsserts ==
  /\ ~aborted /\ call = NoCall
  /\ ~NothingToUndo
  /\ ~(UndoAssert /\ (HasNew => curr_undo_id = last_undo_id))
  /\ Die

(* The transactions of a guard in a step, in the order redo meets them:    *)
(* newest first, as undo did.                                              *)
NewestFirst(S, list) ==
  /\ {list[k] : k \in DOMAIN list} = S
  /\ \A j, k \in DOMAIN list : j < k => list[j] > list[k]

(* Mutant: redo does not restore the lists of the guards.                  *)
PushedNone(S) == <<>>

Pushed(S) ==
  CHOOSE list \in UNION {[1..n -> S] : n \in 0..Len(transactions)} : NewestFirst(S, list)

Redo ==
  /\ ~aborted /\ call = NoCall
  /\ curr_undo_id # last_undo_id
  /\ transactions' =
       [i \in TxIds |->
          IF i \in Met(curr_undo_id + 1)
          THEN [transactions[i] EXCEPT !.flags = @ \ {"UNDONE"}]
          ELSE transactions[i]]
  /\ guarded' = [g \in Guards |-> guarded[g] \o Pushed(MetOfGuard(g, curr_undo_id + 1))]
  /\ curr_undo_id' = curr_undo_id + 1
  /\ UNCHANGED <<bindings, last_undo_id, chilled, failed, call, aborted>>

Clear ==
  /\ ~aborted /\ call = NoCall
  /\ transactions' = <<>>
  /\ guarded' = [g \in Guards |-> <<>>]
  /\ bindings' = [n \in Symbols |-> <<>>]
  /\ curr_undo_id' = 0
  /\ last_undo_id' = 0
  /\ UNCHANGED <<chilled, failed, call, aborted>>

(* cml_rulebase_can_redo; can_undo is ~NothingToUndo, can_freeze HasNew.   *)
can_redo == curr_undo_id < last_undo_id

Init ==
  /\ transactions = <<>>
  /\ guarded = [g \in Guards |-> <<>>]
  /\ bindings = [n \in Symbols |-> <<>>]
  /\ curr_undo_id = 0
  /\ last_undo_id = 0
  /\ chilled = {}
  /\ failed = FALSE
  /\ call = NoCall
  /\ aborted = FALSE

(***************************************************************************)
(* Any order of calls of the library's interface (libcml.h), which is what *)
(* a test script or another program may do.                                *)
(***************************************************************************)
Next ==
  \/ \E s, mn \in Symbols, a \in Values : SetValue(s, mn, a)
  \/ \E s \in Symbols : SetValueAsserts(s)
  \/ \E s \in Symbols : SetRefused(s)
  \/ \E mn \in Symbols, a \in Values : Load(mn, a)
  \/ LoadAsserts
  \/ \E mn \in Symbols, a \in Values : Propagate(mn, a)
  \/ \E ok \in BOOLEAN : Return(ok)
  \/ \E freeze \in BOOLEAN : Commit(freeze)
  \/ CommitAsserts
  \/ Abort
  \/ Undo
  \/ UndoAsserts
  \/ Redo
  \/ Clear

Spec == Init /\ [][Next]_vars

(* Mutant: a front end forgets to commit.                                  *)
Unsettled == call = NoCall

(***************************************************************************)
(* The front ends commit after every call that sets a value, so they make  *)
(* the next call on a log without NEW transactions.                        *)
(***************************************************************************)
Settled == call = NoCall /\ ~HasNew /\ ~failed

SessionSet ==
  /\ Settled
  /\ \/ \E s, mn \in Symbols, a \in Values : SetValue(s, mn, a)
     \/ \E s \in Symbols : SetValueAsserts(s)

SessionCall ==
  \/ \E mn \in Symbols, a \in Values : Propagate(mn, a)
  \/ \E ok \in BOOLEAN : Return(ok)

SessionCommit ==
  /\ HasNew \/ failed
  /\ \/ \E freeze \in BOOLEAN : Commit(freeze)
     \/ CommitAsserts

SessionLoad ==
  /\ Settled
  /\ \/ \E mn \in Symbols, a \in Values : Load(mn, a)
     \/ LoadAsserts

(* gtk/main.c: do_load clears the log before it loads; Undo and Redo are   *)
(* menu items.                                                             *)
GtkNext ==
  \/ SessionSet
  \/ SessionCall
  \/ SessionCommit
  \/ last_undo_id = 0 /\ SessionLoad
  \/ Settled /\ (Undo \/ UndoAsserts \/ Redo \/ Clear)

GtkSpec == Init /\ [][GtkNext]_vars

(* curses/main.c: show_load loads into the log as it is; no undo.          *)
CursesNext == SessionSet \/ SessionCall \/ SessionCommit \/ SessionLoad

CursesSpec == Init /\ [][CursesNext]_vars

-----------------------------------------------------------------------------
(* Properties.                                                             *)

(* Every list and counter stays what the structures of private.h declare,  *)
(* and a call in progress has bound something (transactions.c, node.c).    *)
TypeOK ==
  /\ transactions \in Seq(Transaction)
  /\ guarded \in [Guards -> Seq(Nat)]
  /\ bindings \in [Symbols -> Seq(Nat)]
  /\ curr_undo_id \in Nat
  /\ last_undo_id \in Nat
  /\ chilled \subseteq Symbols
  /\ failed \in BOOLEAN
  /\ call \in Guards \cup {NoCall}
  /\ aborted \in BOOLEAN

(* The undo steps never decrease along the list: the loops of _cml_tx_set, *)
(* _cml_tx_undo and _cml_tx_redo stop at the first older transaction and   *)
(* would miss the ones behind it.                                          *)
StepsInOrder ==
  /\ curr_undo_id <= last_undo_id
  /\ \A i \in TxIds : transactions[i].undo_id \in 1..last_undo_id
  /\ \A i, j \in TxIds : i < j => transactions[i].undo_id <= transactions[j].undo_id

(* The undone transactions are exactly those of the steps redo can reach,  *)
(* whatever mixture of calls came before: nothing undone is left in force  *)
(* and nothing in force can be redone (TX_UNDONE in _cml_tx_undo/redo).    *)
UndoneAreAhead ==
  \A i \in TxIds : "UNDONE" \in transactions[i].flags <=> transactions[i].undo_id > curr_undo_id

(* Uncommitted transactions form the whole newest step; otherwise commit   *)
(* and abort, which stop at the first committed one, would split a step.   *)
NewAreNewestStep ==
  \A i \in TxIds : "NEW" \in transactions[i].flags =>
    /\ transactions[i].undo_id = curr_undo_id
    /\ curr_undo_id = last_undo_id
    /\ \A j \in OfStep(curr_undo_id) : "NEW" \in transactions[j].flags

(* The flags of the transactions agree with the counters at all times.     *)
FlagsExact == UndoneAreAhead /\ NewAreNewestStep

(* The list of a guard holds its transactions that are not undone, each    *)
(* once: none is forgotten by undo, redo, abort or set, and no entry is    *)
(* left of a deleted one (transactions_guarded, private.h).                *)
GuardListsExact ==
  \A g \in Guards :
    /\ {guarded[g][k] : k \in DOMAIN guarded[g]} =
         {i \in TxIds : transactions[i].guard = g /\ "UNDONE" \notin transactions[i].flags}
    /\ \A j, k \in DOMAIN guarded[g] : guarded[g][j] = guarded[g][k] => j = k

(* The bindings of a node are those of the transactions that bind it, one  *)
(* each, in the order they were made. A second binding by one transaction  *)
(* would leave an entry that tx_delete does not find and that outlives its *)
(* transaction; only the chilling of nodes prevents it.                    *)
NodeListsExact ==
  \A n \in Symbols :
    /\ {bindings[n][k] : k \in DOMAIN bindings[n]} =
         {i \in TxIds : n \in DOMAIN transactions[i].bindings}
    /\ \A j, k \in DOMAIN bindings[n] : j < k => bindings[n][j] < bindings[n][k]

(* The lists of the guards and of the nodes hold what they should, at all  *)
(* times: the values that nodes have are read off their ends.              *)
ListsExact == GuardListsExact /\ NodeListsExact

(* What an uncommitted transaction binds cannot be bound again before the  *)
(* commit or abort (mn_is_chilled in mn_set_value2).                       *)
NewAreChilled ==
  \A i \in TxIds : "NEW" \in transactions[i].flags =>
    DOMAIN transactions[i].bindings \subseteq chilled

(* The assertions of the loop in _cml_tx_redo hold whenever it runs.       *)
RedoAssertsHold ==
  ~aborted /\ can_redo =>
    \A i \in OfStep(curr_undo_id + 1) :
      /\ "UNDONE" \in transactions[i].flags
      /\ "NEW" \notin transactions[i].flags
      /\ \A k \in DOMAIN guarded[transactions[i].guard] :
           guarded[transactions[i].guard][k] # i

(* private.h:413-418: the triggerable nodes are all those whose binding a new  *)
(* one changes: the values that an overridden transaction had set and that *)
(* fall back are among them, so their rules are looked at again.           *)
BindingChangesOnlyTriggerable ==
  [][\A s, mn \in Symbols, a \in Values :
       SetValue(s, mn, a) =>
         /\ Get(mn)' = a
         /\ \A n \in Symbols : Get(n)' # Get(n) => n \in Triggerable(mn, s)]_vars

(* No assert() of transactions.c fails.                                    *)
NeverAborts == ~aborted

(* What the proofs need beyond these: the entries of the steps up to any   *)
(* one are a prefix of each list, so that Upto is defined, and the order   *)
(* in which redo pushes the transactions of a step exists.                 *)
StepPrefix(list) ==
  \A u \in 0..last_undo_id : \E l \in 0..Len(list) :
    \A k \in 1..Len(list) : k <= l <=> transactions[list[k]].undo_id <= u

ListsByStep ==
  /\ \A g \in Guards : StepPrefix(guarded[g])
  /\ \A n \in Symbols : StepPrefix(bindings[n])

StepsListable ==
  \A g \in Guards, u \in 1..last_undo_id :
    \E list \in UNION {[1..n -> OfGuard(g, u)] : n \in 0..Len(transactions)} :
      /\ NewestFirst(OfGuard(g, u), list)
      /\ list # <<>> => Len(list) <= list[1]

(* The inductive invariant.                                                *)
IInv ==
  /\ TypeOK
  /\ StepsInOrder
  /\ UndoneAreAhead
  /\ NewAreNewestStep
  /\ NewAreChilled
  /\ GuardListsExact
  /\ NodeListsExact
  /\ ListsByStep
  /\ StepsListable

-----------------------------------------------------------------------------
(* The history the log stands for: the values after k steps are those of   *)
(* the newest transaction of each guard among the steps up to k.           *)

InForceAt(k) ==
  {i \in TxIds :
     /\ transactions[i].undo_id <= k
     /\ \A j \in TxIds :
          j > i /\ transactions[j].guard = transactions[i].guard =>
            transactions[j].undo_id > k}

ValuesAt(k) ==
  [n \in Symbols |->
     LET binding == {i \in InForceAt(k) : n \in DOMAIN transactions[i].bindings}
     IN  IF binding = {} THEN Unbound ELSE transactions[Newest(binding)].bindings[n]]

History == INSTANCE UndoHistory WITH
  hist <- [k \in 0..last_undo_id |-> ValuesAt(k)],
  pos  <- curr_undo_id,
  open <- HasNew,
  val  <- [n \in Symbols |-> Get(n)]

(* What the front ends see: the values found by walking the lists are      *)
(* those of a linear history in which undo and redo restore exactly what   *)
(* was there and an aborted step leaves no value behind.                   *)
IsUndoHistory == History!HistSpec
=============================================================================
