---------------------------- MODULE MCDnRequest ----------------------------
(* Instances of DnRequest for TLC. *)
EXTENDS DnRequest

CONSTANTS p1, p2, p3, b1, b2, c1, c2, f1, f2

\* An upload, a download or a header with an unknown op_type, and a client that
\* connects and then says nothing.
Mixed == [p \in Peer |-> IF p = p1 THEN {"write", "read"} ELSE IF p = p2 THEN {"read", "junk"} ELSE {}]
MixedBlk == [p \in Peer |-> IF p = p1 THEN b1 ELSE b2]

\* Downloads only.
Reads == [p \in Peer |-> {"read"}]
OneBlk == [p \in Peer |-> b2]

Sizes == [b \in {b1, b2} |-> IF b = b1 THEN 2 ELSE 1]

\* The hypothesis under which PublishedWhole is proved.
ASSUME MCDnRequestAssumption == OneUpload
=============================================================================
