----------------------------- MODULE MCDnIndex -----------------------------
(* Instances of DnIndex for TLC. *)
EXTENDS DnIndex, TLC

CONSTANTS d1, d2, b1, b2, s1, s2

\* Blocks are interchangeable, and so are datanodes whose keys are not prefixes of
\* each other.
Symmetric == Permutations(Block) \cup Permutations(DataNode)

NoAlias == [d \in DataNode |-> {}]
=============================================================================
