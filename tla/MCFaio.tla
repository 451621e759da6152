------------------------------- MODULE MCFaio -------------------------------
(* Instances of Faio for TLC. *)
EXTENDS Faio

CONSTANTS n1, t1, t2, t3, w1, w2

MCOwner == [t \in Task |-> n1]
=============================================================================
