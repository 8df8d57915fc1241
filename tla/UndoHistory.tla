---------------------------- MODULE UndoHistory ----------------------------
(***************************************************************************)
(* What the transaction log of libcml promises its callers: the symbols    *)
(* have values, every group of bindings is one step of a linear history,   *)
(* undo and redo walk along that history and give back exactly the values  *)
(* that were there, and a step that is still open can be thrown away.      *)
(*                                                                         *)
(* The specification knows nothing of guards, superceded transactions,     *)
(* flags or lists: those are how transactions.c keeps the promise.         *)
(***************************************************************************)
EXTENDS Naturals

CONSTANTS
  Symbols,   (* The nodes that can be bound.                                *)
  Values,    (* The values they can be bound to.                            *)
  Unbound    (* No binding: the node has its default value.                 *)

VARIABLES
  hist,      (* The values after each step, hist[0] before the first one.   *)
  pos,       (* The step whose values are shown.                            *)
  open,      (* The newest step is not committed yet.                       *)
  val        (* The values shown.                                           *)

hvars == <<hist, pos, open, val>>

Valuations == [Symbols -> Values \cup {Unbound}]

HistInit ==
  /\ hist = [k \in {0} |-> [n \in Symbols |-> Unbound]]
  /\ pos = 0
  /\ open = FALSE
  /\ val = [n \in Symbols |-> Unbound]

(* The first binding of a step: what was undone before is forgotten.       *)
Begin ==
  /\ ~open
  /\ val' \in Valuations
  /\ hist' = [k \in 0..pos + 1 |-> IF k <= pos THEN hist[k] ELSE val']
  /\ pos' = pos + 1
  /\ open' = TRUE

(* A further binding of the same step.                                     *)
Amend ==
  /\ open
  /\ val' \in Valuations
  /\ hist' = [hist EXCEPT ![pos] = val']
  /\ UNCHANGED <<pos, open>>

Close ==
  /\ open
  /\ open' = FALSE
  /\ UNCHANGED <<hist, pos, val>>

(* The open step is thrown away: the values of the step before it return.  *)
(* The step keeps its place in the history, now without effect.            *)
Discard ==
  /\ open
  /\ hist' = [hist EXCEPT ![pos] = hist[pos - 1]]
  /\ val' = hist[pos - 1]
  /\ open' = FALSE
  /\ UNCHANGED pos

Back ==
  /\ pos > 0
  /\ pos' = pos - 1
  /\ val' = hist[pos - 1]
  /\ open' = FALSE
  /\ UNCHANGED hist

Forth ==
  /\ pos + 1 \in DOMAIN hist
  /\ pos' = pos + 1
  /\ val' = hist[pos + 1]
  /\ UNCHANGED <<hist, open>>

Reset ==
  /\ hist' = [k \in {0} |-> [n \in Symbols |-> Unbound]]
  /\ pos' = 0
  /\ val' = [n \in Symbols |-> Unbound]
  /\ open' = FALSE

HistNext == Begin \/ Amend \/ Close \/ Discard \/ Back \/ Forth \/ Reset

HistSpec == HistInit /\ [][HistNext]_hvars
=============================================================================
