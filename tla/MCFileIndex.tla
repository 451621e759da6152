---------------------------- MODULE MCFileIndex ----------------------------
EXTENDS FileIndex, TLC
CONSTANTS d, f, g, h
MCPath == (Root :> <<Root>>) @@ (d :> <<Root, d>>) @@ (f :> <<Root, d, f>>)
           @@ (h :> <<Root, d, h>>)
           @@ (g :> <<Root, d, f, g>>)
SibPath == (Root :> <<Root>>) @@ (d :> <<Root, d>>) @@ (f :> <<Root, d, f>>) @@ (h :> <<Root, d, h>>)
View == <<tree, blks, timer, objNum, loop, blkIndex, up>>
Symmetry == Permutations(Obj) \cup Permutations(Blk)
=============================================================================
