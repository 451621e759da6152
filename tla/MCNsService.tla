---------------------------- MODULE MCNsService ----------------------------
(* Instances of NsService for TLC. *)
EXTENDS NsService

CONSTANTS n1, b1, o1, o2
=============================================================================
