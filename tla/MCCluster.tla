----------------------------- MODULE MCCluster -----------------------------
(* An instance of Cluster for TLC. *)
EXTENDS Cluster, TLC

CONSTANTS c1, c2, c3, n1, n2, d1

PutPutRm == [c \in Client |-> IF c = c1 THEN {"put"} ELSE IF c = c2 THEN {"put", "get"} ELSE {"rm"}]
NnHomes == [c \in Client |-> IF c = c1 THEN {n1} ELSE IF c = c2 THEN Nn ELSE {n2}]
=============================================================================
