--------------------------- MODULE MCCheckpoint ---------------------------
EXTENDS Checkpoint, TLC
CONSTANTS a, b, c
MCParent == (a :> Root) @@ (b :> a) @@ (c :> Root)
=============================================================================
