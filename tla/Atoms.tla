------------------------------- MODULE Atoms --------------------------------
(***************************************************************************)
(* The values of nodes, and what expr_solve sets them to (libcml/atom.c,   *)
(* libcml/expr.c).                                                         *)
(***************************************************************************)
Tritvals == {"n", "y", "m"}

(* An atom: a value with its type. A rulebase may bind a value of another  *)
(* type than the node's, so the type is part of the value.                 *)
Atom(type, val) == [type |-> type, val |-> val]

Bool(b) == Atom("boolean", IF b THEN "y" ELSE "n")

(* An assert() of the evaluation failed.                                   *)
Assert_ == Atom("assert", "n")

(* The value of a node that is not bound and has no default.               *)
Unset == Atom("none", "none")

(* A node and the atom that expr_solve has it set to.                      *)
Goal(node, atom) == [node |-> node, atom |-> atom]

GivesUp == Goal("none", Atom("none", "n"))   (* other than one solution    *)
Dies    == Goal("none", Assert_)             (* assert(target->type == A_BOOLEAN) *)
=============================================================================
