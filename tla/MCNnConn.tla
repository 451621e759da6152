------------------------------ MODULE MCNnConn ------------------------------
(* Instances of NnConn for TLC. *)
EXTENDS NnConn

CONSTANTS r1, r2, r3, r4, t1, t2, px, tx

OneSlot == [w \in TaskThread \cup {px} |-> 0]
TwoSlots == [w \in TaskThread \cup {px} |-> IF w = px THEN 1 ELSE 0]
=============================================================================
