---------------------------------- MODULE Dnf ----------------------------------
(***************************************************************************)
(* The overlap analysis of CML1 rulebases: the conditions of the branches  *)
(* that define a symbol are put into disjunctive normal form               *)
(* (libcml/dnf.c), and a clause that two of them have is warned of         *)
(* (check_branches_are_disjoint in libcml/cml1pass2.c).                    *)
(*                                                                         *)
(* A form is a set of clauses, a clause a sequence of atoms, an atom a     *)
(* comparison of a symbol with a constant, inverted or not (the low bit of *)
(* its address). The empty set is the null pointer: there is no condition, *)
(* or nothing is known about it.                                           *)
(***************************************************************************)
EXTENDS Expr, FiniteSetsExt

NoForm == {}
NoCondition == [op |-> "null", type |-> "none"]

dnf_leaf(expr) == {<<[expr |-> expr, inverted |-> FALSE]>>}

dnf_concatenate(d1, d2) == IF d1 = NoForm \/ d2 = NoForm THEN NoForm ELSE d1 \cup d2

(* Of no clauses if either form is null.                                   *)
dnf_convolve(d1, d2) == {c1 \o c2 : c1 \in d1, c2 \in d2}

Inverse_(atom) == [atom EXCEPT !.inverted = ~@]

(* Mutant: the clauses of the result have an atom of the last clause only. *)
InvertLast(d) ==
  FoldSet(LAMBDA clause, res : {<<Inverse_(clause[i])>> : i \in DOMAIN clause}, NoForm, d)

(* One atom of every clause, inverted.                                     *)
dnf_invert(d) ==
  LET with(clause, res) ==
        IF res = NoForm THEN {<<Inverse_(clause[i])>> : i \in DOMAIN clause}
        ELSE {Append(c, Inverse_(clause[i])) : c \in res, i \in DOMAIN clause}
  IN  FoldSet(with, NoForm, d)

RECURSIVE dnf_from_expr(_)
dnf_from_expr(expr) ==
  CASE expr.op = "null" -> NoForm
    [] expr.op = "and" -> dnf_convolve(dnf_from_expr(expr.left), dnf_from_expr(expr.right))
    [] expr.op = "or"  -> dnf_concatenate(dnf_from_expr(expr.left), dnf_from_expr(expr.right))
    [] expr.op = "not" -> dnf_invert(dnf_from_expr(expr.left))
    [] expr.op \in {"equals", "not_equals"} ->
         IF "symbol" \in {expr.left.op, expr.right.op} THEN dnf_leaf(expr) ELSE NoForm

(* dnf_clause_string: an inverted comparison is written as the opposite    *)
(* one, and the atoms of a clause are sorted.                              *)
Written(atom) ==
  IF ~atom.inverted THEN atom.expr
  ELSE [atom.expr EXCEPT !.op = IF @ = "equals" THEN "not_equals" ELSE "equals"]

SameString(c1, c2) ==
  \A w \in {Written(c1[i]) : i \in DOMAIN c1} \cup {Written(c2[i]) : i \in DOMAIN c2} :
    Cardinality({i \in DOMAIN c1 : Written(c1[i]) = w})
      = Cardinality({i \in DOMAIN c2 : Written(c2[i]) = w})

dnf_overlap(d1, d2) ==
  CASE d1 = NoForm -> d2
    [] d1 # NoForm /\ d2 = NoForm -> d1
    [] OTHER -> {c \in d2 : \E e \in d1 : SameString(e, c)}

(* branches_overlap: what is warned of as the overlap of two branches.     *)
Overlap(cond1, cond2) == dnf_overlap(dnf_from_expr(cond1), dnf_from_expr(cond2))

-----------------------------------------------------------------------------
(* The branches of a symbol, each [type |-> , cond |-> , parent |-> ], in  *)
(* the order of the script.                                                *)

calc_branch_treetype(branch) == IF branch.type = "define" THEN "derived" ELSE "symbol"

(* The number of the table above it in the source, and 16 more when both   *)
(* branches have a condition. previous comes first in the script.          *)
classify_mixed_overlap(branch, previous) ==
  LET first  == previous.type = "define"
      define == IF first THEN previous ELSE branch
      query  == IF first THEN branch ELSE previous
      bit(b, n) == IF b THEN n ELSE 0
      conditional == define.cond # NoCondition
  IN  1 + bit(branch.parent # previous.parent, 1) + bit(~first, 2) + bit(conditional, 4)
        + bit(conditional /\ query.cond # NoCondition, 16)

(* The warnings, when none of them is disabled: of every two branches that *)
(* overlap, and of 0 when both define the symbol or both ask for it.       *)
check_branches_are_disjoint(branches) ==
  {[branch |-> j, previous |-> i, overlap |-> Overlap(branches[j].cond, branches[i].cond),
    type |-> IF calc_branch_treetype(branches[i]) = calc_branch_treetype(branches[j]) THEN 0
             ELSE classify_mixed_overlap(branches[j], branches[i])] :
     <<i, j>> \in {ij \in (DOMAIN branches) \X (DOMAIN branches) :
                     ij[1] < ij[2] /\ Overlap(branches[ij[2]].cond, branches[ij[1]].cond) # NoForm}}

-----------------------------------------------------------------------------
(* What a form says under values of the symbols.                           *)
ClauseHolds(clause, v) == \A i \in DOMAIN clause : Eval(Written(clause[i]), v).val = "y"

FormHolds(d, v) == \E clause \in d : ClauseHolds(clause, v)
=============================================================================
