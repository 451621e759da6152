-------------------------- MODULE FileIndexProofs --------------------------
(***************************************************************************)
(* Safety of the file index for every set of paths, every pool size, every *)
(* object limit and with or without clients that remove unclosed files.    *)
(*                                                                         *)
(* Every handler of FileIndex ends in one of ten effects on the index; the *)
(* lemma StepEffects says so once, and each invariant is then shown to     *)
(* survive each effect.                                                    *)
(*                                                                         *)
(* The second part is about the tree.  It holds when clients do not remove *)
(* files that are still being created (RmUnclosed = FALSE; update_fi_rm of *)
(* such a file counts its parent down although it is in no children list). *)
(* Statements about all the ancestors of a path are proved by taking the   *)
(* least component that would violate them.                                *)
(***************************************************************************)
EXTENDS FileIndex, SequenceLemmas

-----------------------------------------------------------------------------
(* The effects a step can have *)

\* A request is refused or answered, a block is reported, or the process dies.
Quiet ==
  /\ UNCHANGED <<tree, blks, timer, objNum, loop>>
  /\ ret' \in Codes /\ up' \in BOOLEAN
  /\ blkIndex' \in [Blk -> 0 .. MaxEntries]
  /\ \A b \in Blk : blkIndex'[b] >= blkIndex[b]

MkdirStarts ==
  \E k \in Key : \E i \in DOMAIN Path[k] : \E read \in BOOLEAN :
    /\ mkPath = NoKey
    /\ StartMkdir(k, i, read)
    /\ i = 1 => Lookup(Root) = {}
    /\ k # Root => objNum + (Len(Path[k]) - i + 1) < IndexNum

MkdirSkips ==
  /\ mkPath # NoKey
  /\ NextComponent
  /\ UNCHANGED <<tree, blks, timer, objNum, blkIndex, up>>

MkdirMakes ==
  /\ mkPath # NoKey
  /\ update_fi_mkdir(Path[mkPath][mkIdx])
  /\ NextComponent
  /\ UNCHANGED <<timer, blkIndex, up>>

RmrRemoves ==
  \E o \in used, p \in used : \E R \in SUBSET (used \ {o}) :
    /\ mkPath = NoKey
    /\ kind[o] = "dir"
    /\ update_fi_rmr(o, p, R)

Creates ==
  \E k \in Key \ {Root}, b \in Blk :
    /\ mkPath = NoKey
    /\ objNum + 1 < IndexNum
    /\ update_fi_create(k, b)

AddsBlock ==
  \E o \in used, b \in Blk :
    /\ mkPath = NoKey
    /\ kind[o] = "creating"
    /\ update_fi_get_additional_blk(o, b)

Closes ==
  \E o \in used, p \in used :
    /\ mkPath = NoKey
    /\ kind[o] = "creating" /\ kind[p] = "dir"
    /\ update_fi_close(o, p)

RmRemoves ==
  \E o \in used, p \in used :
    /\ mkPath = NoKey
    /\ kind[o] # "dir"
    /\ update_fi_rm(o, p)

TimesOut ==
  \E o \in used \cap timer :
    /\ mkPath = NoKey
    /\ FreeStores({o}, {})
    /\ timer' = timer \ {o}
    /\ UNCHANGED <<objNum, loop, blkIndex, ret, up>>

Effect ==
  \/ Quiet \/ MkdirStarts \/ MkdirSkips \/ MkdirMakes \/ RmrRemoves
  \/ Creates \/ AddsBlock \/ Closes \/ RmRemoves \/ TimesOut

\* An answer, a crash: nothing of the index changes.
LEMMA SameBlkIndex ==
  ASSUME TypeOK, blkIndex' = blkIndex
  PROVE  /\ blkIndex' \in [Blk -> 0 .. MaxEntries]
         /\ \A b \in Blk : blkIndex'[b] >= blkIndex[b]
  BY PoolAssumption DEF TypeOK

LEMMA AnswerQuiet ==
  ASSUME TypeOK, NEW c \in Codes, Answer(c)
  PROVE  Quiet
<1>1. blkIndex' = blkIndex
  BY DEF Answer
<1>2. up' \in BOOLEAN
  BY Zenon DEF TypeOK, Answer
<1>3. ret' \in Codes /\ UNCHANGED <<tree, blks, timer, objNum, loop>>
  BY DEF Answer
<1> QED BY <1>1, <1>2, <1>3, SameBlkIndex DEF Quiet

LEMMA CrashQuiet ==
  ASSUME TypeOK, Crash
  PROVE  Quiet
<1>1. blkIndex' = blkIndex
  BY DEF Crash
<1>2. up' \in BOOLEAN
  BY DEF Crash
<1>3. UNCHANGED <<tree, blks, timer, objNum, loop>>
  BY DEF Crash
<1>4. ret' = ret
  BY DEF Crash
<1>5. ret' \in Codes
  BY <1>4 DEF TypeOK
<1> QED BY <1>1, <1>2, <1>3, <1>5, SameBlkIndex DEF Quiet

\* A root that is missing is the first component missing.
LEMMA FirstMissingRoot ==
  ASSUME NEW k \in Key, FirstMissing(k, 1)
  PROVE  Lookup(Root) = {}
<1>1. CASE k = Root
  <2>1. Path[k][1] = Root
    BY <1>1, PathAssumption
  <2>2. Lookup(Path[k][1]) = {}
    BY DEF FirstMissing
  <2> QED BY <2>1, <2>2
<1>2. CASE k # Root
  <2>1. Path[k][1] = Root
    BY <1>2, PathAssumption
  <2>2. Lookup(Path[k][1]) = {}
    BY DEF FirstMissing
  <2> QED BY <2>1, <2>2
<1> QED BY <1>1, <1>2

LEMMA LookupUsed ==
  \A k : Lookup(k) \subseteq used
  BY DEF Lookup

\* Every step of the file index has one of the effects above.
LEMMA StepEffects ==
  ASSUME TypeOK, Next
  PROVE  Effect
<1> USE DEF Effect
<1>c. /\ "SUCC" \in Codes /\ "FAIL" \in Codes /\ "MASTER_REDIRECT" \in Codes
      /\ "KEY_EXIST" \in Codes /\ "KEY_NOTEXIST" \in Codes
      /\ "KEY_STATE_CREATING" \in Codes /\ "NOT_DIRECTORY" \in Codes
      /\ "NOT_FILE" \in Codes /\ "NOT_DATANODE" \in Codes
      /\ "PERMISSION_DENY" \in Codes /\ "FSOBJECT_EXCEED" \in Codes
  BY DEF Codes
<1>1. ASSUME NEW k \in Key, log_mkdir(k) PROVE Effect
  <2>1. mkPath = NoKey
    BY <1>1 DEF log_mkdir, Ready
  <2>2. CASE k = Root /\ Lookup(k) = {} /\ StartMkdir(k, 1, FALSE)
    <3>1. 1 \in DOMAIN Path[k]
      BY <2>2, PathAssumption
    <3> QED BY <2>1, <2>2, <3>1 DEF MkdirStarts
  <2>3. CASE k # Root /\ \E i \in DOMAIN Path[k] :
               /\ FirstMissing(k, i)
               /\ ~is_FsObjectExceed(Len(Path[k]) - i + 1)
               /\ StartMkdir(k, i, i > 1)
    <3>1. PICK i \in DOMAIN Path[k] :
               /\ FirstMissing(k, i)
               /\ ~is_FsObjectExceed(Len(Path[k]) - i + 1)
               /\ StartMkdir(k, i, i > 1)
      BY <2>3
    <3>2. objNum + (Len(Path[k]) - i + 1) < IndexNum
      BY <3>1, PathAssumption, PoolAssumption DEF is_FsObjectExceed, TypeOK
    <3>3. (i > 1) \in BOOLEAN /\ (i = 1 => Lookup(Root) = {})
      BY <3>1, FirstMissingRoot
    <3> QED BY <2>1, <3>1, <3>2, <3>3 DEF MkdirStarts
  <2>4. CASE Crash \/ \E c \in Codes : Answer(c)
    BY <2>4, AnswerQuiet, CrashQuiet
  <2> QED BY <1>1, <1>c, <2>2, <2>3, <2>4 DEF log_mkdir
<1>2. ASSUME log_mkdir_component PROVE Effect
  BY <1>2, CrashQuiet DEF log_mkdir_component, AllocCrash, MkdirSkips, MkdirMakes
<1>3. ASSUME NEW k \in Key, log_rmr(k) PROVE Effect
  <2>1. mkPath = NoKey
    BY <1>3 DEF log_rmr, Ready
  <2>2. CASE Crash \/ \E c \in Codes : Answer(c)
    BY <2>2, AnswerQuiet, CrashQuiet
  <2>3. CASE \E o \in Lookup(k), p \in Lookup(ParentKey(k)) :
               \E R \in SUBSET (used \ {o}) :
                 kind[o] = "dir" /\ update_fi_rmr(o, p, R)
    BY <2>1, <2>3, LookupUsed DEF RmrRemoves
  <2> QED BY <1>3, <1>c, <2>2, <2>3 DEF log_rmr
<1>4. ASSUME NEW k \in Key, log_create(k) PROVE Effect
  <2>1. mkPath = NoKey
    BY <1>4 DEF log_create, Ready
  <2>2. CASE Crash \/ \E c \in Codes : Answer(c)
    BY <2>2, AnswerQuiet, CrashQuiet
  <2>3. CASE \E i \in DOMAIN Path[k] : \E b \in FreshBlk :
               /\ AboveIs(k, i, TRUE)
               /\ ~is_FsObjectExceed(1)
               /\ update_fi_create(k, b)
    <3>1. k # Root
      BY <2>3, PathAssumption DEF AboveIs
    <3>2. objNum + 1 < IndexNum
      BY <2>3, PoolAssumption DEF is_FsObjectExceed, TypeOK
    <3> QED BY <2>1, <2>3, <3>1, <3>2 DEF Creates, FreshBlk
  <2> QED BY <1>4, <1>c, <2>2, <2>3 DEF log_create, AllocCrash
<1>5. ASSUME NEW k \in Key, log_get_additional_blk(k) PROVE Effect
  <2>2. CASE Crash \/ \E c \in Codes : Answer(c)
    BY <2>2, AnswerQuiet, CrashQuiet
  <2> QED BY <1>5, <1>c, <2>2, LookupUsed
          DEF log_get_additional_blk, Ready, AddsBlock, FreshBlk
<1>6. ASSUME NEW k \in Key, log_close(k) PROVE Effect
  <2>2. CASE Crash \/ \E c \in Codes : Answer(c)
    BY <2>2, AnswerQuiet, CrashQuiet
  <2> QED BY <1>6, <1>c, <2>2, LookupUsed DEF log_close, Ready, Closes
<1>7. ASSUME NEW k \in Key, log_rm(k) PROVE Effect
  <2>2. CASE Crash \/ \E c \in Codes : Answer(c)
    BY <2>2, AnswerQuiet, CrashQuiet
  <2> QED BY <1>7, <1>c, <2>2, LookupUsed DEF log_rm, Ready, RmRemoves
<1>8. ASSUME NEW o \in Obj, fi_create_timeout(o) PROVE Effect
  BY <1>8, CrashQuiet DEF fi_create_timeout, Ready, TimesOut
<1>9. ASSUME NEW k \in Key, nn_ls(k) \/ nn_open(k) PROVE Effect
  <2>2. CASE Crash \/ \E c \in Codes : Answer(c)
    BY <2>2, AnswerQuiet, CrashQuiet
  <2> QED BY <1>9, <1>c, <2>2 DEF nn_ls, nn_open
<1>10. ASSUME NEW b \in Blk, add_block(b) PROVE Effect
  <2>1. blkIndex' \in [Blk -> 0 .. MaxEntries]
    BY <1>10, PoolAssumption DEF add_block, TypeOK
  <2>2. \A c \in Blk : blkIndex'[c] >= blkIndex[c]
    BY <1>10, PoolAssumption DEF add_block, TypeOK
  <2> QED BY <1>10, <2>1, <2>2 DEF add_block, TypeOK, Quiet, tree, loop
<1> QED BY <1>1, <1>2, <1>3, <1>4, <1>5, <1>6, <1>7, <1>8, <1>9, <1>10 DEF Next

-----------------------------------------------------------------------------
(* Counting stores *)

LEMMA UsedFinite ==
  ASSUME TypeOK
  PROVE  IsFiniteSet(used) /\ Cardinality(used) \in Nat
<1>1. used \in SUBSET Obj
  BY DEF TypeOK
<1> QED BY <1>1, PoolAssumption, FS_Subset, FS_CardinalityType

LEMMA CardJoin ==
  ASSUME TypeOK, NEW o \in Obj \ used
  PROVE  Cardinality(used \cup {o}) = Cardinality(used) + 1
  BY UsedFinite, FS_AddElement

LEMMA CardFree ==
  ASSUME TypeOK, NEW o \in used, NEW R \in SUBSET (used \ {o})
  PROVE  /\ Cardinality(R) \in Nat
         /\ Cardinality(used \ (R \cup {o})) = Cardinality(used) - (Cardinality(R) + 1)
         /\ Cardinality(R) + 1 <= Cardinality(used)
<1>1. IsFiniteSet(used) /\ Cardinality(used) \in Nat
  BY UsedFinite
<1>2. R \in SUBSET used /\ R \cup {o} \in SUBSET used
  OBVIOUS
<1>3. IsFiniteSet(R) /\ Cardinality(R) \in Nat
  BY <1>1, <1>2, FS_Subset, FS_CardinalityType
<1>4. Cardinality(R \cup {o}) = Cardinality(R) + 1
  BY <1>3, FS_AddElement
<1>5. used \cap (R \cup {o}) = R \cup {o}
  BY <1>2
<1>6. Cardinality(used \ (R \cup {o})) = Cardinality(used) - Cardinality(used \cap (R \cup {o}))
  BY <1>1, FS_Difference
<1>7. Cardinality(R \cup {o}) <= Cardinality(used)
  BY <1>1, <1>2, FS_Subset
<1> QED BY <1>1, <1>3, <1>4, <1>5, <1>6, <1>7

LEMMA CardFreeOne ==
  ASSUME TypeOK, NEW o \in used
  PROVE  /\ Cardinality(used \ {o}) = Cardinality(used) - 1
         /\ Cardinality(used) >= 1
<1>1. Cardinality(used \ {o}) = Cardinality(used) - 1
  BY UsedFinite, FS_RemoveElement
<1>2. Cardinality(used \ {o}) \in Nat
  BY UsedFinite, FS_RemoveElement, FS_CardinalityType
<1> QED BY <1>1, <1>2, UsedFinite

-----------------------------------------------------------------------------
(* Type correctness *)

\* objNum stays a natural number only because it counts every store in use.
TypeInv == TypeOK /\ Cardinality(used) <= objNum

LEMMA WidthType ==
  /\ Width \in Nat /\ Width > 0
  /\ 0 \in 0 .. (Width - 1)
<1>1. Cardinality(Obj) \in Nat
  BY PoolAssumption, FS_CardinalityType
<1> QED BY <1>1, PoolAssumption

LEMMA TypeInit == Init => TypeInv
<1> SUFFICES ASSUME Init PROVE TypeInv
  OBVIOUS
<1>1. TypeOK
  <2>1. blks \in [Obj -> Seq(Blk)] /\ childrenNum \in [Obj -> 0 .. (Width - 1)]
    BY WidthType DEF Init
  <2>2. blkIndex \in [Blk -> 0 .. MaxEntries]
    BY PoolAssumption DEF Init
  <2>3. /\ mkRead \in BOOLEAN /\ up \in BOOLEAN
        /\ mkPath \in Key \cup {NoKey} /\ ret \in Codes
    BY DEF Init, Codes
  <2> QED BY <2>1, <2>2, <2>3 DEF Init, TypeOK, Kinds
<1>2. Cardinality(used) <= objNum
  BY FS_EmptySet DEF Init
<1> QED BY <1>1, <1>2 DEF TypeInv

LEMMA ModWidth ==
  \A n \in Int : n % Width \in 0 .. (Width - 1)
  BY WidthType

\* The loop of log_mkdir stays inside its path.
LEMMA NextComponentType ==
  ASSUME TypeOK, mkPath # NoKey, NextComponent
  PROVE  /\ mkPath' \in Key \cup {NoKey} /\ mkIdx' \in Nat /\ mkRead' \in BOOLEAN
         /\ mkPath' # NoKey => mkIdx' \in DOMAIN Path[mkPath']
         /\ ret' \in Codes
<1>1. mkPath \in Key /\ mkIdx \in 1 .. Len(Path[mkPath]) /\ Len(Path[mkPath]) \in Nat
  <2>1. mkPath \in Key /\ mkIdx \in DOMAIN Path[mkPath]
    BY DEF TypeOK
  <2>2. Path[mkPath] \in Seq(Key)
    BY <2>1, PathAssumption
  <2> QED BY <2>1, <2>2
<1>2. CASE mkIdx = Len(Path[mkPath])
  <2>1. mkPath' = NoKey /\ mkIdx' = 0 /\ mkRead' = FALSE /\ ret' = "SUCC"
    BY <1>2 DEF NextComponent
  <2>2. "SUCC" \in Codes
    BY DEF Codes
  <2> QED BY <2>1, <2>2
<1>3. CASE mkIdx # Len(Path[mkPath])
  <2>1. mkPath' = mkPath /\ mkIdx' = mkIdx + 1 /\ mkRead' = mkRead /\ ret' = ret
    BY <1>3 DEF NextComponent
  <2>2. mkIdx + 1 \in DOMAIN Path[mkPath]
    BY <1>1, <1>3, PathAssumption
  <2>3. mkRead' \in BOOLEAN
    BY <2>1, Zenon DEF TypeOK
  <2> QED BY <1>1, <2>1, <2>2, <2>3 DEF TypeOK
<1> QED BY <1>2, <1>3

\* Putting stores back leaves every field typed and g_checkpoint_q within used.
LEMMA FreeStoresType ==
  ASSUME TypeOK, NEW R \in SUBSET Obj, NEW P, FreeStores(R, P)
  PROVE  /\ used' \subseteq Obj /\ queued' \subseteq used'
         /\ key' \in [Obj -> Key \cup {NoKey}]
         /\ \A o \in used' : key'[o] \in Key
         /\ kind' \in [Obj -> Kinds]
         /\ blks' \in [Obj -> Seq(Blk)]
         /\ hidden' \in [Obj -> SUBSET Obj]
         /\ link' \in [Obj -> Obj \cup {NoObj, Dangling}]
         /\ childrenNum' \in [Obj -> 0 .. (Width - 1)]
         /\ ahead' \in [Obj -> SUBSET Obj]
<1>1. /\ used' \subseteq Obj /\ queued' \subseteq used'
      /\ key' \in [Obj -> Key \cup {NoKey}]
      /\ \A o \in used' : key'[o] \in Key
      /\ kind' \in [Obj -> Kinds]
      /\ link' \in [Obj -> Obj \cup {NoObj, Dangling}]
  BY DEF TypeOK, FreeStores, Kinds
<1>2. blks' \in [Obj -> Seq(Blk)]
  BY DEF TypeOK, FreeStores
<1>3. hidden' \in [Obj -> SUBSET Obj] /\ ahead' \in [Obj -> SUBSET Obj]
  BY DEF TypeOK, FreeStores
<1>4. childrenNum' \in [Obj -> 0 .. (Width - 1)]
  <2>1. \A o \in Obj : childrenNum[o] \in 0 .. (Width - 1) /\ childrenNum[o] - 1 \in Int
    BY PoolAssumption DEF TypeOK
  <2> QED BY <2>1, WidthType, ModWidth DEF FreeStores
<1> QED BY <1>1, <1>2, <1>3, <1>4

LEMMA BlockDelType ==
  ASSUME TypeOK, NEW B, block_object_del(B)
  PROVE  blkIndex' \in [Blk -> 0 .. MaxEntries]
  BY PoolAssumption DEF TypeOK, block_object_del

\* A new store for a typed key leaves every field it sets typed.
LEMMA JoinStoreType ==
  ASSUME TypeOK, NEW o \in Obj, NEW k \in Key, NEW kd \in Kinds, JoinStore(o, k, kd)
  PROVE  /\ used' \subseteq Obj /\ used \subseteq used' /\ o \in used'
         /\ key' \in [Obj -> Key \cup {NoKey}]
         /\ \A p \in used' : key'[p] \in Key
         /\ kind' \in [Obj -> Kinds]
         /\ hidden' \in [Obj -> SUBSET Obj]
<1>1. /\ used' \subseteq Obj /\ used \subseteq used' /\ o \in used'
      /\ key' \in [Obj -> Key \cup {NoKey}]
      /\ \A p \in used' : key'[p] \in Key
      /\ kind' \in [Obj -> Kinds]
  BY DEF TypeOK, JoinStore
<1>2. hidden' \in [Obj -> SUBSET Obj]
  BY DEF TypeOK, JoinStore
<1> QED BY <1>1, <1>2

LEMMA LinkUnderType ==
  ASSUME TypeOK, NEW o \in Obj, NEW p \in Obj \cup {NoObj}, LinkUnder(o, p)
  PROVE  /\ link' \in [Obj -> Obj \cup {NoObj, Dangling}]
         /\ ahead' \in [Obj -> SUBSET Obj]
         /\ queued' = queued \cup {o}
<1>1. link' \in [Obj -> Obj \cup {NoObj, Dangling}]
  BY DEF TypeOK, LinkUnder
<1>2. queued \in SUBSET Obj
  BY DEF TypeOK
<1>3. ahead' \in [Obj -> SUBSET Obj]
  BY <1>2 DEF TypeOK, LinkUnder
<1> QED BY <1>1, <1>3 DEF LinkUnder

\* One step of any handler, from a state where objNum counts every store.
LEMMA TypeStep ==
  ASSUME TypeInv, Effect
  PROVE  TypeInv'
<1> USE DEF TypeInv
<1>0. TypeOK /\ Cardinality(used) <= objNum /\ Cardinality(used) \in Nat /\ objNum \in Nat
  BY UsedFinite DEF TypeOK
<1>1. CASE Quiet
  <2>1. /\ UNCHANGED <<used, queued, timer, key, kind, blks, hidden, link, childrenNum>>
        /\ UNCHANGED <<ahead, objNum, mkPath, mkIdx, mkRead>>
    BY <1>1 DEF Quiet, tree, loop
  <2>2. ret' \in Codes /\ up' \in BOOLEAN /\ blkIndex' \in [Blk -> 0 .. MaxEntries]
    BY <1>1 DEF Quiet
  <2>3. mkRead' \in BOOLEAN
    BY <2>1, Zenon DEF TypeOK
  <2> QED BY <1>0, <2>1, <2>2, <2>3 DEF TypeOK
<1>2. CASE MkdirStarts
  <2>1. PICK k \in Key : \E i \in DOMAIN Path[k] : \E read \in BOOLEAN : StartMkdir(k, i, read)
    BY <1>2 DEF MkdirStarts
  <2>2. PICK i \in DOMAIN Path[k] : \E read \in BOOLEAN : StartMkdir(k, i, read)
    BY <2>1
  <2>3. PICK read \in BOOLEAN : StartMkdir(k, i, read)
    BY <2>2
  <2>4. /\ UNCHANGED <<used, queued, timer, key, kind, blks, hidden, link, childrenNum>>
        /\ UNCHANGED <<ahead, objNum, blkIndex, ret, up>>
        /\ mkPath' = k /\ mkIdx' = i /\ mkRead' = read
    BY <2>3 DEF StartMkdir, tree
  <2>5. i \in Nat
    BY PathAssumption
  <2>6. mkRead' \in BOOLEAN
    BY <2>4, Zenon
  <2>7. up' \in BOOLEAN
    BY <2>4, Zenon DEF TypeOK
  <2> QED BY <1>0, <2>4, <2>5, <2>6, <2>7 DEF TypeOK
<1>3. CASE MkdirSkips
  <2>1. /\ UNCHANGED <<used, queued, timer, key, kind, blks, hidden, link, childrenNum>>
        /\ UNCHANGED <<ahead, objNum, blkIndex, up>>
    BY <1>3 DEF MkdirSkips, tree
  <2>2. /\ mkPath' \in Key \cup {NoKey} /\ mkIdx' \in Nat /\ mkRead' \in BOOLEAN
        /\ mkPath' # NoKey => mkIdx' \in DOMAIN Path[mkPath']
        /\ ret' \in Codes
    BY <1>0, <1>3, NextComponentType DEF MkdirSkips
  <2>3. up' \in BOOLEAN
    BY <2>1, Zenon DEF TypeOK
  <2> QED BY <1>0, <2>1, <2>2, <2>3 DEF TypeOK
<1>4. CASE MkdirMakes
  <2> DEFINE c == Path[mkPath][mkIdx]
  <2>1. c \in Key
    <3>1. mkPath \in Key /\ mkIdx \in DOMAIN Path[mkPath]
      BY <1>4 DEF MkdirMakes, TypeOK
    <3>2. Path[mkPath] \in Seq(Key)
      BY <3>1, PathAssumption
    <3> QED BY <3>1, <3>2
  <2>2. PICK o \in Obj \ (used \cup timer) :
          /\ JoinStore(o, c, "dir")
          /\ \/ LinkUnder(o, NoObj) /\ UNCHANGED childrenNum
             \/ \E p \in Lookup(ParentKey(c)) :
                  /\ childrenNum' = [childrenNum EXCEPT ![p] = (@ + 1) % Width]
                  /\ LinkUnder(o, p)
          /\ objNum' = objNum + 1
          /\ UNCHANGED blks
    BY <1>4 DEF MkdirMakes, update_fi_mkdir
  <2>3. /\ used' \subseteq Obj /\ used \subseteq used' /\ o \in used'
        /\ key' \in [Obj -> Key \cup {NoKey}]
        /\ \A p \in used' : key'[p] \in Key
        /\ kind' \in [Obj -> Kinds]
        /\ hidden' \in [Obj -> SUBSET Obj]
    <3>1. "dir" \in Kinds
      BY DEF Kinds
    <3> QED BY <2>1, <2>2, <3>1, JoinStoreType
  <2>4. /\ link' \in [Obj -> Obj \cup {NoObj, Dangling}]
        /\ ahead' \in [Obj -> SUBSET Obj]
        /\ queued' \subseteq used'
    <3>1. \E p \in Obj \cup {NoObj} : LinkUnder(o, p)
      BY <2>2, LookupUsed DEF TypeOK
    <3>2. queued \subseteq used
      BY DEF TypeOK
    <3> QED BY <2>2, <2>3, <3>1, <3>2, LinkUnderType
  <2>5. childrenNum' \in [Obj -> 0 .. (Width - 1)]
    <3>1. \A q \in Obj : childrenNum[q] + 1 \in Int
      BY WidthType DEF TypeOK
    <3>2. CASE UNCHANGED childrenNum
      BY <3>2 DEF TypeOK
    <3>3. CASE \E p \in Lookup(ParentKey(c)) :
                 childrenNum' = [childrenNum EXCEPT ![p] = (@ + 1) % Width]
      <4>1. PICK p \in Obj : childrenNum' = [childrenNum EXCEPT ![p] = (@ + 1) % Width]
        BY <3>3, LookupUsed DEF TypeOK
      <4> QED BY <3>1, <4>1, ModWidth DEF TypeOK
    <3> QED BY <2>2, <3>2, <3>3
  <2>6. /\ mkPath' \in Key \cup {NoKey} /\ mkIdx' \in Nat /\ mkRead' \in BOOLEAN
        /\ mkPath' # NoKey => mkIdx' \in DOMAIN Path[mkPath']
        /\ ret' \in Codes
    BY <1>0, <1>4, NextComponentType DEF MkdirMakes
  <2>7. UNCHANGED <<timer, blkIndex, up>>
    BY <1>4 DEF MkdirMakes
  <2>8. up' \in BOOLEAN
    BY <2>7, Zenon DEF TypeOK
  <2>9. Cardinality(used') <= objNum'
    BY <1>0, <2>2, CardJoin DEF JoinStore
  <2> QED BY <1>0, <2>2, <2>3, <2>4, <2>5, <2>6, <2>7, <2>8, <2>9 DEF TypeOK
<1>5. CASE RmrRemoves
  <2>1. PICK o \in used, p \in used : \E R \in SUBSET (used \ {o}) : update_fi_rmr(o, p, R)
    BY <1>5 DEF RmrRemoves
  <2>2. PICK R \in SUBSET (used \ {o}) : update_fi_rmr(o, p, R)
    BY <2>1
  <2>3. /\ FreeStores(R \cup {o}, {p})
        /\ objNum' = objNum - (Cardinality(R) + 1)
        /\ block_object_del(BlksOf(R))
        /\ ret' = "SUCC"
        /\ UNCHANGED <<timer, mkPath, mkIdx, mkRead, up>>
    BY <2>2 DEF update_fi_rmr, loop
  <2>4. R \cup {o} \in SUBSET Obj
    BY DEF TypeOK
  <2>5. blkIndex' \in [Blk -> 0 .. MaxEntries]
    BY <2>3, BlockDelType
  <2>6. Cardinality(used') <= objNum' /\ objNum' \in Nat
    BY <1>0, <2>3, CardFree DEF FreeStores
  <2>7. mkRead' \in BOOLEAN /\ up' \in BOOLEAN
    BY <2>3, Zenon DEF TypeOK
  <2>8. ret' \in Codes
    BY <2>3 DEF Codes
  <2> QED BY <1>0, <2>3, <2>4, <2>5, <2>6, <2>7, <2>8, FreeStoresType DEF TypeOK
<1>6. CASE Creates
  <2>1. PICK k \in Key, b \in Blk : update_fi_create(k, b)
    BY <1>6 DEF Creates
  <2>2. PICK o \in Obj \ (used \cup timer) :
          /\ JoinStore(o, k, "creating")
          /\ blks' = [blks EXCEPT ![o] = <<b>>]
          /\ timer' = timer \cup {o}
          /\ objNum' = objNum + 1
          /\ ret' = "SUCC"
          /\ UNCHANGED <<link, childrenNum, queued, ahead, mkPath, mkIdx, mkRead, blkIndex, up>>
    BY <2>1 DEF update_fi_create, loop
  <2>3. /\ used' \subseteq Obj /\ used \subseteq used' /\ o \in used'
        /\ key' \in [Obj -> Key \cup {NoKey}]
        /\ \A p \in used' : key'[p] \in Key
        /\ kind' \in [Obj -> Kinds]
        /\ hidden' \in [Obj -> SUBSET Obj]
    <3>1. "creating" \in Kinds
      BY DEF Kinds
    <3> QED BY <2>2, <3>1, JoinStoreType
  <2>4. blks' \in [Obj -> Seq(Blk)]
    BY <2>2 DEF TypeOK
  <2>5. Cardinality(used') <= objNum'
    BY <1>0, <2>2, CardJoin DEF JoinStore
  <2>6. mkRead' \in BOOLEAN /\ up' \in BOOLEAN
    BY <2>2, Zenon DEF TypeOK
  <2>7. ret' \in Codes
    BY <2>2 DEF Codes
  <2> QED BY <1>0, <2>2, <2>3, <2>4, <2>5, <2>6, <2>7 DEF TypeOK
<1>7. CASE AddsBlock
  <2>1. PICK o \in used, b \in Blk : update_fi_get_additional_blk(o, b)
    BY <1>7 DEF AddsBlock
  <2>2. /\ blks' = IF Len(blks[o]) < BlkLimit
                     THEN [blks EXCEPT ![o] = Append(blks[o], b)] ELSE blks
        /\ ret' = "SUCC"
        /\ UNCHANGED <<used, queued, timer, key, kind, hidden, link, childrenNum>>
        /\ UNCHANGED <<ahead, objNum, mkPath, mkIdx, mkRead, blkIndex, up>>
    BY <2>1 DEF update_fi_get_additional_blk, tree, loop
  <2>3. blks' \in [Obj -> Seq(Blk)]
    <3>1. o \in Obj /\ blks[o] \in Seq(Blk)
      BY DEF TypeOK
    <3>2. Append(blks[o], b) \in Seq(Blk)
      BY <3>1
    <3> QED BY <2>2, <3>1, <3>2 DEF TypeOK
  <2>4. mkRead' \in BOOLEAN /\ up' \in BOOLEAN
    BY <2>2, Zenon DEF TypeOK
  <2>5. ret' \in Codes
    BY <2>2 DEF Codes
  <2> QED BY <1>0, <2>2, <2>3, <2>4, <2>5 DEF TypeOK
<1>8. CASE Closes
  <2>1. PICK o \in used, p \in used : update_fi_close(o, p)
    BY <1>8 DEF Closes
  <2>2. /\ timer' = timer \ {o}
        /\ kind' = [kind EXCEPT ![o] = "file"]
        /\ childrenNum' = [childrenNum EXCEPT ![p] = (@ + 1) % Width]
        /\ LinkUnder(o, p)
        /\ ret' = "SUCC"
        /\ UNCHANGED <<used, key, hidden, blks, objNum, mkPath, mkIdx, mkRead, blkIndex, up>>
    BY <2>1 DEF update_fi_close, loop
  <2>3. o \in Obj /\ p \in Obj \cup {NoObj}
    BY DEF TypeOK
  <2>4. /\ link' \in [Obj -> Obj \cup {NoObj, Dangling}]
        /\ ahead' \in [Obj -> SUBSET Obj]
        /\ queued' = queued \cup {o}
    BY <2>2, <2>3, LinkUnderType
  <2>5. childrenNum' \in [Obj -> 0 .. (Width - 1)]
    <3>1. \A q \in Obj : childrenNum[q] + 1 \in Int
      BY WidthType DEF TypeOK
    <3> QED BY <2>2, <3>1, ModWidth DEF TypeOK
  <2>6. kind' \in [Obj -> Kinds]
    BY <2>2 DEF TypeOK, Kinds
  <2>7. mkRead' \in BOOLEAN /\ up' \in BOOLEAN
    BY <2>2, Zenon DEF TypeOK
  <2>8. ret' \in Codes
    BY <2>2 DEF Codes
  <2> QED BY <1>0, <2>2, <2>4, <2>5, <2>6, <2>7, <2>8 DEF TypeOK
<1>9. CASE RmRemoves
  <2>1. PICK o \in used, p \in used : update_fi_rm(o, p)
    BY <1>9 DEF RmRemoves
  <2>2. /\ FreeStores({o}, {p})
        /\ objNum' = objNum - 1
        /\ block_object_del(BlksOf({o}))
        /\ ret' = "SUCC"
        /\ UNCHANGED <<timer, mkPath, mkIdx, mkRead, up>>
    BY <2>1 DEF update_fi_rm, loop
  <2>3. {o} \in SUBSET Obj
    BY DEF TypeOK
  <2>4. blkIndex' \in [Blk -> 0 .. MaxEntries]
    BY <2>2, BlockDelType
  <2>5. Cardinality(used') <= objNum' /\ objNum' \in Nat
    <3>1. used' = used \ {o}
      BY <2>2 DEF FreeStores
    <3>2. /\ Cardinality(used') = Cardinality(used) - 1
          /\ Cardinality(used) >= 1
      BY <3>1, CardFreeOne
    <3> QED BY <1>0, <2>2, <3>2
  <2>6. mkRead' \in BOOLEAN /\ up' \in BOOLEAN
    BY <2>2, Zenon DEF TypeOK
  <2>7. ret' \in Codes
    BY <2>2 DEF Codes
  <2> QED BY <1>0, <2>2, <2>3, <2>4, <2>5, <2>6, <2>7, FreeStoresType DEF TypeOK
<1>10. CASE TimesOut
  <2>1. PICK o \in used \cap timer :
          /\ FreeStores({o}, {})
          /\ timer' = timer \ {o}
          /\ UNCHANGED <<objNum, mkPath, mkIdx, mkRead, blkIndex, ret, up>>
    BY <1>10 DEF TimesOut, loop
  <2>2. {o} \in SUBSET Obj
    BY DEF TypeOK
  <2>3. Cardinality(used') <= objNum'
    BY <1>0, <2>1, CardFreeOne DEF FreeStores
  <2>4. mkRead' \in BOOLEAN /\ up' \in BOOLEAN
    BY <2>1, Zenon DEF TypeOK
  <2> QED BY <1>0, <2>1, <2>2, <2>3, <2>4, FreeStoresType DEF TypeOK
<1> QED BY <1>1, <1>2, <1>3, <1>4, <1>5, <1>6, <1>7, <1>8, <1>9, <1>10 DEF Effect

\* A stuttering step.
LEMMA TypeStutter ==
  ASSUME TypeInv, UNCHANGED vars
  PROVE  TypeInv'
<1>1. /\ UNCHANGED <<used, queued, timer, key, kind, blks, hidden, link, childrenNum>>
      /\ UNCHANGED <<ahead, objNum, mkPath, mkIdx, mkRead, blkIndex, ret, up>>
  BY DEF vars, tree, loop
<1>2. mkRead' \in BOOLEAN /\ up' \in BOOLEAN
  BY <1>1, Zenon DEF TypeInv, TypeOK
<1> QED BY <1>1, <1>2 DEF TypeInv, TypeOK

\* Every variable of the file index keeps its type, g_fs_object_num never goes
\* below zero although update_fi_rmr subtracts what clear_children counted, and
\* no block in the free list stands in g_checkpoint_q.
THEOREM TypeCorrect == Spec => []TypeOK
<1>1. TypeInv /\ [Next]_vars => TypeInv'
  <2>1. CASE TypeInv /\ Next
    BY <2>1, StepEffects, TypeStep DEF TypeInv
  <2>2. CASE TypeInv /\ UNCHANGED vars
    BY <2>2, TypeStutter
  <2> QED BY <2>1, <2>2
<1>2. TypeInv => TypeOK
  BY DEF TypeInv
<1> QED BY <1>1, <1>2, TypeInit, PTL DEF Spec

-----------------------------------------------------------------------------
(* The pool and the object limit *)

RootStores == {o \in used : key[o] = Root}

\* An armed create timer of a store in use belongs to an unclosed file.
TimerInv == \A o \in timer \cap used : kind[o] = "creating"

\* There is at most one store of "/", a directory, and none while log_mkdir is
\* about to propose "/".
RootInv ==
  /\ \A o \in RootStores : kind[o] = "dir" /\ o \notin hidden[o]
  /\ \A o, p \in RootStores : o = p
  /\ mkPath # NoKey /\ mkIdx = 1 => RootStores = {}

\* is_FsObjectExceed keeps one slot free; only mkdir of "/", which skips it,
\* takes the last one.
Room ==
  /\ objNum + Remaining <= IndexNum
  /\ mkPath # Root /\ RootStores = {} => objNum + Remaining < IndexNum

PoolInv == TypeInv /\ TimerInv /\ RootInv /\ Room

LEMMA RootMissing ==
  ASSUME RootInv, Lookup(Root) = {}
  PROVE  RootStores = {}
  BY DEF RootInv, RootStores, Lookup

LEMMA JoinRoot ==
  ASSUME TypeOK, NEW o \in Obj \ used, NEW k, NEW kd, JoinStore(o, k, kd)
  PROVE  /\ RootStores' = IF k = Root THEN RootStores \cup {o} ELSE RootStores
         /\ kind'[o] = kd /\ o \notin hidden'[o]
         /\ \A p \in used : kind'[p] = kind[p] /\ hidden'[p] = hidden[p]
  BY DEF TypeOK, JoinStore, RootStores

LEMMA FreeRoot ==
  ASSUME TypeOK, NEW R, NEW P, FreeStores(R, P)
  PROVE  /\ RootStores' = RootStores \ R
         /\ \A p \in used \ R : kind'[p] = kind[p] /\ hidden'[p] \subseteq hidden[p]
  BY DEF TypeOK, FreeStores, RootStores

LEMMA PathType ==
  ASSUME NEW k \in Key
  PROVE  /\ Path[k] \in Seq(Key) /\ Len(Path[k]) \in Nat
         /\ DOMAIN Path[k] = 1 .. Len(Path[k])
         /\ \A i \in DOMAIN Path[k] : Path[k][i] = Root => i = 1
         /\ k = Root => Len(Path[k]) = 1 /\ Path[k][1] = Root
<1>1. Path[k] \in Seq(Key)
  BY PathAssumption
<1>2. Len(Path[k]) \in Nat /\ DOMAIN Path[k] = 1 .. Len(Path[k])
  BY <1>1
<1>3. k = Root => Len(Path[k]) = 1 /\ Path[k][1] = Root
  <2>1. Path[Root] = <<Root>>
    BY PathAssumption
  <2>2. Len(<<Root>>) = 1 /\ <<Root>>[1] = Root
    OBVIOUS
  <2> QED BY <2>1, <2>2
<1>4. ASSUME NEW i \in DOMAIN Path[k], Path[k][i] = Root PROVE i = 1
  <2>1. CASE k = Root
    <3>1. Len(Path[k]) = 1 /\ i \in 1 .. Len(Path[k])
      BY <1>2, <1>3, <1>4, <2>1
    <3> QED BY <3>1
  <2>2. CASE k # Root
    <3>1. Path[k][1] = Root /\ 1 \in DOMAIN Path[k]
      BY <1>2, <2>2, PathAssumption
    <3> QED BY <1>4, <2>2, <3>1, PathAssumption
  <2> QED BY <2>1, <2>2
<1> QED BY <1>1, <1>2, <1>3, <1>4

LEMMA RemainingType ==
  ASSUME TypeOK
  PROVE  Remaining \in Nat
<1>1. CASE mkPath = NoKey
  BY <1>1 DEF Remaining
<1>2. CASE mkPath # NoKey
  <2>1. mkPath \in Key /\ mkIdx \in DOMAIN Path[mkPath]
    BY <1>2 DEF TypeOK
  <2> QED BY <1>2, <2>1, PathType DEF Remaining
<1> QED BY <1>1, <1>2

LEMMA RemainingDrops ==
  ASSUME TypeOK, mkPath # NoKey, NextComponent
  PROVE  /\ Remaining' = Remaining - 1
         /\ mkPath' = NoKey \/ (mkPath' = mkPath /\ mkIdx' > 1)
<1>1. mkPath \in Key /\ mkIdx \in DOMAIN Path[mkPath]
  BY DEF TypeOK
<1>2. Len(Path[mkPath]) \in Nat /\ mkIdx \in 1 .. Len(Path[mkPath])
  BY <1>1, PathType
<1>3. CASE mkIdx = Len(Path[mkPath])
  <2>1. mkPath' = NoKey
    BY <1>3 DEF NextComponent
  <2> QED BY <1>2, <1>3, <2>1 DEF Remaining
<1>4. CASE mkIdx # Len(Path[mkPath])
  <2>1. mkPath' = mkPath /\ mkIdx' = mkIdx + 1
    BY <1>4 DEF NextComponent
  <2> QED BY <1>2, <2>1 DEF Remaining
<1> QED BY <1>3, <1>4

LEMMA PoolInit == Init => PoolInv
<1> SUFFICES ASSUME Init PROVE PoolInv
  OBVIOUS
<1>1. TypeInv
  BY TypeInit
<1>2. TimerInv /\ RootInv
  BY DEF Init, TimerInv, RootInv, RootStores
<1>3. Room
  BY PoolAssumption DEF Init, Room, Remaining
<1> QED BY <1>1, <1>2, <1>3 DEF PoolInv

LEMMA PoolStep ==
  ASSUME PoolInv, Effect
  PROVE  PoolInv'
<1>0. /\ TypeInv /\ TypeOK /\ TimerInv /\ RootInv /\ Room
      /\ objNum \in Nat /\ Remaining \in Nat /\ IndexNum \in Nat
  BY RemainingType, PoolAssumption DEF PoolInv, TypeInv, TypeOK
<1>t. TypeInv'
  BY <1>0, TypeStep
<1>s. SUFFICES TimerInv' /\ RootInv' /\ Room'
  BY <1>t DEF PoolInv
<1>1. CASE Quiet
  <2>1. UNCHANGED <<used, key, kind, hidden, timer, objNum, mkPath, mkIdx>>
    BY <1>1 DEF Quiet, tree, loop
  <2> QED BY <1>0, <2>1 DEF TimerInv, RootInv, RootStores, Room, Remaining
<1>2. CASE MkdirStarts
  <2>1. PICK k \in Key : \E i \in DOMAIN Path[k] : \E read \in BOOLEAN :
          /\ mkPath = NoKey
          /\ StartMkdir(k, i, read)
          /\ i = 1 => Lookup(Root) = {}
          /\ k # Root => objNum + (Len(Path[k]) - i + 1) < IndexNum
    BY <1>2 DEF MkdirStarts
  <2>2. PICK i \in DOMAIN Path[k] : \E read \in BOOLEAN :
          /\ mkPath = NoKey
          /\ StartMkdir(k, i, read)
          /\ i = 1 => Lookup(Root) = {}
          /\ k # Root => objNum + (Len(Path[k]) - i + 1) < IndexNum
    BY <2>1
  <2>3. /\ UNCHANGED <<used, key, kind, hidden, timer, objNum>>
        /\ mkPath' = k /\ mkIdx' = i
    BY <2>2 DEF StartMkdir, tree
  <2>4. RootStores' = RootStores
    BY <2>3 DEF RootStores
  <2>5. TimerInv'
    BY <1>0, <2>3 DEF TimerInv
  <2>6. RootInv'
    BY <1>0, <2>2, <2>3, <2>4, RootMissing DEF RootInv
  <2>7. Room'
    <3>1. k # NoKey /\ Len(Path[k]) \in Nat /\ i \in 1 .. Len(Path[k])
      BY PathType, PathAssumption
    <3>2. Remaining' = Len(Path[k]) - i + 1
      BY <2>3, <3>1 DEF Remaining
    <3>3. CASE k # Root
      BY <1>0, <2>2, <2>3, <3>1, <3>2, <3>3 DEF Room
    <3>4. CASE k = Root
      <4>1. Len(Path[k]) = 1 /\ i = 1
        BY <3>1, <3>4, PathType
      <4>2. RootStores = {}
        BY <1>0, <2>2, <4>1, RootMissing
      <4>3. objNum < IndexNum
        BY <1>0, <2>2, <4>2, PathAssumption DEF Room, Remaining
      <4> QED BY <1>0, <2>3, <3>2, <3>4, <4>1, <4>3 DEF Room
    <3> QED BY <3>3, <3>4
  <2> QED BY <2>5, <2>6, <2>7
<1>3. CASE MkdirSkips
  <2>1. UNCHANGED <<used, key, kind, hidden, timer, objNum>>
    BY <1>3 DEF MkdirSkips, tree
  <2>2. /\ Remaining' = Remaining - 1
        /\ mkPath' = NoKey \/ (mkPath' = mkPath /\ mkIdx' > 1)
    BY <1>0, <1>3, RemainingDrops DEF MkdirSkips
  <2>3. RootStores' = RootStores
    BY <2>1 DEF RootStores
  <2>4. TimerInv' /\ RootInv'
    BY <1>0, <2>1, <2>2, <2>3, <1>t DEF TimerInv, RootInv, TypeInv, TypeOK
  <2>5. Room'
    BY <1>0, <2>1, <2>2 DEF Room
  <2> QED BY <2>4, <2>5
<1>4. CASE MkdirMakes
  <2> DEFINE c == Path[mkPath][mkIdx]
  <2>1. mkPath \in Key /\ mkIdx \in DOMAIN Path[mkPath]
    BY <1>0, <1>4 DEF MkdirMakes, TypeOK
  <2>2. PICK o \in Obj \ (used \cup timer) : JoinStore(o, c, "dir") /\ objNum' = objNum + 1
    BY <1>4 DEF MkdirMakes, update_fi_mkdir
  <2>3. /\ RootStores' = IF c = Root THEN RootStores \cup {o} ELSE RootStores
        /\ kind'[o] = "dir" /\ o \notin hidden'[o]
        /\ \A p \in used : kind'[p] = kind[p] /\ hidden'[p] = hidden[p]
    BY <1>0, <2>2, JoinRoot
  <2>4. /\ Remaining' = Remaining - 1
        /\ mkPath' = NoKey \/ (mkPath' = mkPath /\ mkIdx' > 1)
    BY <1>0, <1>4, RemainingDrops DEF MkdirMakes
  <2>5. c = Root => RootStores = {}
    BY <1>0, <1>4, <2>1, PathType DEF RootInv, MkdirMakes
  <2>6. timer' = timer /\ used' = used \cup {o}
    BY <1>4, <2>2 DEF MkdirMakes, JoinStore
  <2>7. TimerInv'
    BY <1>0, <2>2, <2>3, <2>6 DEF TimerInv
  <2>8. RootStores \subseteq used
    BY DEF RootStores
  <2>9. RootInv'
    <3>1. CASE c = Root
      <4>1. RootStores' = {o}
        BY <2>3, <2>5, <3>1
      <4>2. mkPath' # NoKey => mkIdx' # 1
        BY <2>4
      <4> QED BY <2>3, <4>1, <4>2 DEF RootInv
    <3>2. CASE c # Root
      <4>1. RootStores' = RootStores
        BY <2>3, <3>2
      <4>2. mkPath' # NoKey => mkIdx' # 1
        BY <2>4
      <4> QED BY <1>0, <2>3, <2>8, <4>1, <4>2 DEF RootInv
    <3> QED BY <3>1, <3>2
  <2>10. Room'
    <3>1. mkPath = Root => c = Root
      BY <2>1, PathType
    <3>2. (mkPath = Root \/ RootStores # {}) => RootStores' # {}
      BY <2>3, <3>1
    <3>3. objNum' + Remaining' = objNum + Remaining
      BY <1>0, <2>2, <2>4
    <3> QED BY <1>0, <3>2, <3>3 DEF Room
  <2> QED BY <2>7, <2>9, <2>10
<1>5. CASE RmrRemoves
  <2>1. PICK o \in used, p \in used : \E R \in SUBSET (used \ {o}) :
          mkPath = NoKey /\ update_fi_rmr(o, p, R)
    BY <1>5 DEF RmrRemoves
  <2>2. PICK R \in SUBSET (used \ {o}) : mkPath = NoKey /\ update_fi_rmr(o, p, R)
    BY <2>1
  <2>3. /\ FreeStores(R \cup {o}, {p})
        /\ objNum' = objNum - (Cardinality(R) + 1)
        /\ UNCHANGED <<timer, mkPath, mkIdx>>
    BY <2>2 DEF update_fi_rmr, loop
  <2>4. /\ RootStores' = RootStores \ (R \cup {o})
        /\ \A q \in used \ (R \cup {o}) : kind'[q] = kind[q] /\ hidden'[q] \subseteq hidden[q]
    BY <1>0, <2>3, FreeRoot
  <2>5. used' = used \ (R \cup {o}) /\ RootStores \subseteq used
    BY <2>3 DEF FreeStores, RootStores
  <2>6. TimerInv'
    BY <1>0, <2>3, <2>4, <2>5 DEF TimerInv
  <2>7. RootInv'
    BY <1>0, <2>2, <2>3, <2>4, <2>5 DEF RootInv
  <2>8. Room'
    <3>1. Cardinality(R) \in Nat
      BY <1>0, CardFree
    <3>2. Remaining' = Remaining
      BY <2>3 DEF Remaining
    <3> QED BY <1>0, <2>3, <3>1, <3>2 DEF Room
  <2> QED BY <2>6, <2>7, <2>8
<1>6. CASE Creates
  <2>1. PICK k \in Key \ {Root}, b \in Blk :
          mkPath = NoKey /\ objNum + 1 < IndexNum /\ update_fi_create(k, b)
    BY <1>6 DEF Creates
  <2>2. PICK o \in Obj \ (used \cup timer) :
          /\ JoinStore(o, k, "creating")
          /\ timer' = timer \cup {o}
          /\ objNum' = objNum + 1
          /\ UNCHANGED <<mkPath, mkIdx>>
    BY <2>1 DEF update_fi_create, loop
  <2>3. /\ RootStores' = RootStores
        /\ kind'[o] = "creating"
        /\ \A p \in used : kind'[p] = kind[p] /\ hidden'[p] = hidden[p]
    BY <1>0, <2>2, JoinRoot
  <2>4. used' = used \cup {o} /\ RootStores \subseteq used
    BY <2>2 DEF JoinStore, RootStores
  <2>5. TimerInv'
    BY <1>0, <2>2, <2>3, <2>4 DEF TimerInv
  <2>6. RootInv'
    BY <1>0, <2>1, <2>2, <2>3, <2>4 DEF RootInv
  <2>7. Room'
    <3>1. Remaining' = 0
      BY <2>1, <2>2 DEF Remaining
    <3> QED BY <1>0, <2>1, <2>2, <3>1 DEF Room
  <2> QED BY <2>5, <2>6, <2>7
<1>7. CASE AddsBlock
  <2>1. UNCHANGED <<used, key, kind, hidden, timer, objNum, mkPath, mkIdx>>
    BY <1>7 DEF AddsBlock, update_fi_get_additional_blk, tree, loop
  <2> QED BY <1>0, <2>1 DEF TimerInv, RootInv, RootStores, Room, Remaining
<1>8. CASE Closes
  <2>1. PICK o \in used, p \in used : kind[o] = "creating" /\ update_fi_close(o, p)
    BY <1>8 DEF Closes
  <2>2. /\ timer' = timer \ {o}
        /\ kind' = [kind EXCEPT ![o] = "file"]
        /\ UNCHANGED <<used, key, hidden, objNum, mkPath, mkIdx>>
    BY <2>1 DEF update_fi_close, loop
  <2>3. RootStores' = RootStores /\ RootStores \subseteq used
    BY <2>2 DEF RootStores
  <2>4. \A q \in used \ {o} : kind'[q] = kind[q]
    BY <1>0, <2>2 DEF TypeOK
  <2>5. o \notin RootStores
    BY <1>0, <2>1 DEF RootInv
  <2>6. TimerInv'
    BY <1>0, <2>2, <2>4 DEF TimerInv
  <2>7. RootInv'
    BY <1>0, <2>2, <2>3, <2>4, <2>5 DEF RootInv
  <2>8. Room'
    BY <1>0, <2>2, <2>3 DEF Room, Remaining
  <2> QED BY <2>6, <2>7, <2>8
<1>9. CASE RmRemoves
  <2>1. PICK o \in used, p \in used : mkPath = NoKey /\ update_fi_rm(o, p)
    BY <1>9 DEF RmRemoves
  <2>2. /\ FreeStores({o}, {p})
        /\ objNum' = objNum - 1
        /\ UNCHANGED <<timer, mkPath, mkIdx>>
    BY <2>1 DEF update_fi_rm, loop
  <2>3. /\ RootStores' = RootStores \ {o}
        /\ \A q \in used \ {o} : kind'[q] = kind[q] /\ hidden'[q] \subseteq hidden[q]
    BY <1>0, <2>2, FreeRoot
  <2>4. used' = used \ {o} /\ RootStores \subseteq used
    BY <2>2 DEF FreeStores, RootStores
  <2>5. TimerInv'
    BY <1>0, <2>2, <2>3, <2>4 DEF TimerInv
  <2>6. RootInv'
    BY <1>0, <2>1, <2>2, <2>3, <2>4 DEF RootInv
  <2>7. Room'
    <3>1. Remaining' = Remaining
      BY <2>2 DEF Remaining
    <3> QED BY <1>0, <2>2, <3>1 DEF Room
  <2> QED BY <2>5, <2>6, <2>7
<1>10. CASE TimesOut
  <2>1. PICK o \in used \cap timer :
          /\ mkPath = NoKey
          /\ FreeStores({o}, {})
          /\ timer' = timer \ {o}
          /\ UNCHANGED <<objNum, mkPath, mkIdx>>
    BY <1>10 DEF TimesOut, loop
  <2>2. o \notin RootStores
    BY <1>0 DEF TimerInv, RootInv
  <2>3. /\ RootStores' = RootStores
        /\ \A q \in used \ {o} : kind'[q] = kind[q] /\ hidden'[q] \subseteq hidden[q]
    BY <1>0, <2>1, <2>2, FreeRoot
  <2>4. used' = used \ {o} /\ RootStores \subseteq used
    BY <2>1 DEF FreeStores, RootStores
  <2>5. TimerInv'
    BY <1>0, <2>1, <2>3, <2>4 DEF TimerInv
  <2>6. RootInv'
    BY <1>0, <2>1, <2>2, <2>3, <2>4 DEF RootInv
  <2>7. Room'
    BY <1>0, <2>1, <2>3 DEF Room, Remaining
  <2> QED BY <2>5, <2>6, <2>7
<1> QED BY <1>1, <1>2, <1>3, <1>4, <1>5, <1>6, <1>7, <1>8, <1>9, <1>10 DEF Effect

LEMMA PoolStutter ==
  ASSUME PoolInv, UNCHANGED vars
  PROVE  PoolInv'
<1>1. TypeInv'
  BY TypeStutter DEF PoolInv
<1>2. UNCHANGED <<used, key, kind, hidden, timer, objNum, mkPath, mkIdx>>
  BY DEF vars, tree, loop
<1>3. TimerInv' /\ RootInv' /\ Room'
  BY <1>2 DEF PoolInv, TimerInv, RootInv, RootStores, Room, Remaining
<1> QED BY <1>1, <1>3 DEF PoolInv

LEMMA PoolInductive == Spec => []PoolInv
<1>1. PoolInv /\ [Next]_vars => PoolInv'
  <2>1. CASE PoolInv /\ Next
    BY <2>1, StepEffects, PoolStep DEF PoolInv, TypeInv
  <2>2. CASE PoolInv /\ UNCHANGED vars
    BY <2>2, PoolStutter
  <2> QED BY <2>1, <2>2
<1> QED BY <1>1, PoolInit, PTL DEF Spec

\* g_fs_object_num covers the stores in use and, with the components a mkdir
\* under way has still to propose, never passes index_num.
THEOREM PoolSafe == Spec => []PoolNeverDry
<1>1. PoolInv => PoolNeverDry
  <2> SUFFICES ASSUME PoolInv PROVE PoolNeverDry
    OBVIOUS
  <2>1. Cardinality(used) <= objNum
    BY DEF PoolInv, TypeInv
  <2>2. objNum + Remaining <= IndexNum
    <3>1. objNum \in Nat /\ Remaining \in Nat
      BY RemainingType DEF PoolInv, TypeInv, TypeOK
    <3> QED BY <3>1, PoolAssumption DEF PoolInv, Room
  <2> QED BY <2>1, <2>2 DEF PoolNeverDry
<1> QED BY <1>1, PoolInductive, PTL

\* mem_get0 never returns NULL to update_fi_mkdir: while components are left to
\* propose, a block of the pool is free.
THEOREM PoolHasRoom == Spec => [](mkPath # NoKey => used # Obj)
<1>1. PoolInv => (mkPath # NoKey => used # Obj)
  <2> SUFFICES ASSUME PoolInv, mkPath # NoKey PROVE used # Obj
    OBVIOUS
  <2>1. Cardinality(used) <= objNum /\ TypeOK /\ objNum \in Nat
    BY DEF PoolInv, TypeInv, TypeOK
  <2>2. mkPath \in Key /\ mkIdx \in DOMAIN Path[mkPath]
    BY <2>1 DEF TypeOK
  <2>3. Remaining \in Nat /\ Remaining >= 1
    <3>1. Len(Path[mkPath]) \in Nat /\ mkIdx \in 1 .. Len(Path[mkPath])
      BY <2>2, PathType
    <3> QED BY <3>1 DEF Remaining
  <2>4. objNum + Remaining <= IndexNum
    BY DEF PoolInv, Room
  <2>5. Cardinality(used) \in Nat /\ Cardinality(Obj) \in Nat
    BY <2>1, UsedFinite, PoolAssumption, FS_CardinalityType
  <2>6. Cardinality(used) < Cardinality(Obj)
    BY <2>1, <2>3, <2>4, <2>5, PoolAssumption
  <2> QED BY <2>5, <2>6
<1> QED BY <1>1, PoolInductive, PTL

-----------------------------------------------------------------------------
(* The order of the checkpoint queue *)

\* Whatever has left the CREATING state is in g_checkpoint_q.
Enqueued == \A o \in used : kind[o] # "creating" => o \in queued

QueueInv == TypeInv /\ Enqueued /\ ParentsFirst

LEMMA QueueInit == Init => QueueInv
<1> SUFFICES ASSUME Init PROVE QueueInv
  OBVIOUS
<1>1. Enqueued /\ ParentsFirst
  BY DEF Init, Enqueued, ParentsFirst
<1> QED BY <1>1, TypeInit DEF QueueInv

LEMMA FreeQueue ==
  ASSUME TypeOK, Enqueued, ParentsFirst, NEW R, NEW P, FreeStores(R, P)
  PROVE  Enqueued' /\ ParentsFirst'
<1>1. Enqueued'
  BY DEF TypeOK, FreeStores, Enqueued
<1>2. ASSUME NEW x \in queued', link'[x] \in Obj
      PROVE  link'[x] \in queued' /\ link'[x] \in ahead'[x]
  <2>1. x \in queued /\ x \notin R /\ x \in Obj
    BY <1>2 DEF TypeOK, FreeStores
  <2>2. link'[x] = link[x] /\ link[x] \notin R
    BY <1>2, <2>1, PoolAssumption DEF FreeStores
  <2>3. link[x] \in queued /\ link[x] \in ahead[x]
    BY <1>2, <2>1, <2>2 DEF ParentsFirst
  <2> QED BY <2>1, <2>2, <2>3 DEF FreeStores
<1> QED BY <1>1, <1>2 DEF ParentsFirst

\* A store linked under a queued directory, or under nothing, goes behind it.
LEMMA LinkQueue ==
  ASSUME TypeOK, ParentsFirst, NEW o \in Obj, NEW p \in queued \cup {NoObj},
         LinkUnder(o, p)
  PROVE  ParentsFirst'
<1>1. ASSUME NEW x \in queued', link'[x] \in Obj
      PROVE  link'[x] \in queued' /\ link'[x] \in ahead'[x]
  <2>1. queued' = queued \cup {o} /\ queued \subseteq Obj
    BY DEF TypeOK, LinkUnder
  <2>2. CASE x = o
    <3>1. link'[x] = p /\ ahead'[x] = queued
      BY <2>2 DEF TypeOK, LinkUnder
    <3> QED BY <1>1, <2>1, <3>1, PoolAssumption
  <2>3. CASE x # o
    <3>1. x \in queued /\ link'[x] = link[x] /\ ahead'[x] = ahead[x]
      BY <1>1, <2>1, <2>3 DEF TypeOK, LinkUnder
    <3> QED BY <1>1, <2>1, <3>1 DEF ParentsFirst
  <2> QED BY <2>2, <2>3
<1> QED BY <1>1 DEF ParentsFirst

LEMMA QueueStep ==
  ASSUME QueueInv, Effect
  PROVE  QueueInv'
<1>0. TypeInv /\ TypeOK /\ Enqueued /\ ParentsFirst
  BY DEF QueueInv, TypeInv
<1>t. TypeInv'
  BY <1>0, TypeStep
<1>s. SUFFICES Enqueued' /\ ParentsFirst'
  BY <1>t DEF QueueInv
<1>1. CASE Quiet \/ MkdirStarts \/ MkdirSkips \/ AddsBlock
  <2>1. UNCHANGED <<used, kind, queued, link, ahead>>
    BY <1>1 DEF Quiet, MkdirStarts, StartMkdir, MkdirSkips, AddsBlock,
                update_fi_get_additional_blk, tree
  <2> QED BY <1>0, <2>1 DEF Enqueued, ParentsFirst
<1>2. CASE MkdirMakes
  <2> DEFINE c == Path[mkPath][mkIdx]
  <2>1. PICK o \in Obj \ (used \cup timer) :
          /\ JoinStore(o, c, "dir")
          /\ \/ LinkUnder(o, NoObj)
             \/ \E p \in Lookup(ParentKey(c)) : kind[p] = "dir" /\ LinkUnder(o, p)
    BY <1>2 DEF MkdirMakes, update_fi_mkdir
  <2>2. PICK p \in queued \cup {NoObj} : LinkUnder(o, p)
    <3>1. \A p \in Lookup(ParentKey(c)) : kind[p] = "dir" => p \in queued
      BY <1>0, LookupUsed DEF Enqueued
    <3> QED BY <2>1, <3>1
  <2>3. ParentsFirst'
    BY <1>0, <2>2, LinkQueue
  <2>4. Enqueued'
    BY <1>0, <2>1, <2>2 DEF Enqueued, JoinStore, LinkUnder, TypeOK
  <2> QED BY <2>3, <2>4
<1>3. CASE RmrRemoves
  BY <1>0, <1>3, FreeQueue DEF RmrRemoves, update_fi_rmr
<1>4. CASE Creates
  <2>1. PICK k \in Key, b \in Blk : update_fi_create(k, b)
    BY <1>4 DEF Creates
  <2>2. PICK o \in Obj \ (used \cup timer) :
          JoinStore(o, k, "creating") /\ UNCHANGED <<link, queued, ahead>>
    BY <2>1 DEF update_fi_create
  <2>3. ParentsFirst'
    BY <1>0, <2>2 DEF ParentsFirst
  <2>4. Enqueued'
    BY <1>0, <2>2 DEF Enqueued, JoinStore, TypeOK
  <2> QED BY <2>3, <2>4
<1>5. CASE Closes
  <2>1. PICK o \in used, p \in used : kind[p] = "dir" /\ update_fi_close(o, p)
    BY <1>5 DEF Closes
  <2>2. /\ LinkUnder(o, p)
        /\ kind' = [kind EXCEPT ![o] = "file"]
        /\ UNCHANGED used
    BY <2>1 DEF update_fi_close
  <2>3. p \in queued /\ o \in Obj
    BY <1>0, <2>1 DEF Enqueued, TypeOK
  <2>4. ParentsFirst'
    BY <1>0, <2>2, <2>3, LinkQueue
  <2>5. Enqueued'
    BY <1>0, <2>2, <2>3 DEF Enqueued, LinkUnder, TypeOK
  <2> QED BY <2>4, <2>5
<1>6. CASE RmRemoves
  BY <1>0, <1>6, FreeQueue DEF RmRemoves, update_fi_rm
<1>7. CASE TimesOut
  BY <1>0, <1>7, FreeQueue DEF TimesOut
<1> QED BY <1>1, <1>2, <1>3, <1>4, <1>5, <1>6, <1>7 DEF Effect

\* In g_checkpoint_q every directory precedes what is linked under it, however
\* creates, closes, time-outs and recursive removals interleave, so an image
\* written in queue order can be read back parent first.
THEOREM QueueOrdered == Spec => []ParentsFirst
<1>1. QueueInv /\ [Next]_vars => QueueInv'
  <2>1. CASE QueueInv /\ Next
    BY <2>1, StepEffects, QueueStep DEF QueueInv, TypeInv
  <2>2. CASE QueueInv /\ UNCHANGED vars
    <3>1. TypeInv'
      BY <2>2, TypeStutter DEF QueueInv
    <3>2. UNCHANGED <<used, kind, queued, link, ahead>>
      BY <2>2 DEF vars, tree
    <3> QED BY <2>2, <3>1, <3>2 DEF QueueInv, Enqueued, ParentsFirst
  <2> QED BY <2>1, <2>2
<1>2. QueueInv => ParentsFirst
  BY DEF QueueInv
<1> QED BY <1>1, <1>2, QueueInit, PTL DEF Spec

-----------------------------------------------------------------------------
(* Action properties *)

\* Only a create that times out makes g_fs_object_num and the number of stores
\* differ more than before: mkdir, create, close, rm and rmr, whatever
\* clear_children walks over, change both by the same amount.
THEOREM DriftBounded == Spec => DriftOnlyByTimeout
<1> DEFINE Drift ==
      objNum' - Cardinality(used') # objNum - Cardinality(used) =>
        \E o \in used : /\ kind[o] = "creating"
                        /\ used' = used \ {o} /\ objNum' = objNum
<1>1. PoolInv /\ [Next]_vars => [Drift]_vars
  <2> SUFFICES ASSUME PoolInv, Next PROVE Drift
    OBVIOUS
  <2>0. TypeOK /\ TimerInv /\ objNum \in Nat /\ Cardinality(used) \in Nat
    BY UsedFinite DEF PoolInv, TypeInv, TypeOK
  <2>1. Effect
    BY <2>0, StepEffects
  <2>2. CASE Quiet \/ MkdirStarts \/ MkdirSkips \/ AddsBlock \/ Closes
    BY <2>2 DEF Quiet, MkdirStarts, StartMkdir, MkdirSkips, AddsBlock, Closes,
                update_fi_get_additional_blk, update_fi_close, tree
  <2>3. CASE MkdirMakes
    <3>1. PICK o \in Obj \ used : used' = used \cup {o} /\ objNum' = objNum + 1
      BY <2>3 DEF MkdirMakes, update_fi_mkdir, JoinStore
    <3> QED BY <2>0, <3>1, CardJoin
  <2>4. CASE Creates
    <3>1. PICK o \in Obj \ used : used' = used \cup {o} /\ objNum' = objNum + 1
      BY <2>4 DEF Creates, update_fi_create, JoinStore
    <3> QED BY <2>0, <3>1, CardJoin
  <2>5. CASE RmrRemoves
    <3>1. PICK o \in used : \E R \in SUBSET (used \ {o}) :
            /\ used' = used \ (R \cup {o})
            /\ objNum' = objNum - (Cardinality(R) + 1)
      BY <2>5 DEF RmrRemoves, update_fi_rmr, FreeStores
    <3>2. PICK R \in SUBSET (used \ {o}) :
            /\ used' = used \ (R \cup {o})
            /\ objNum' = objNum - (Cardinality(R) + 1)
      BY <3>1
    <3>3. /\ Cardinality(R) \in Nat
          /\ Cardinality(used') = Cardinality(used) - (Cardinality(R) + 1)
      BY <2>0, <3>2, CardFree
    <3> QED BY <2>0, <3>2, <3>3
  <2>6. CASE RmRemoves
    <3>1. PICK o \in used : used' = used \ {o} /\ objNum' = objNum - 1
      BY <2>6 DEF RmRemoves, update_fi_rm, FreeStores
    <3>2. Cardinality(used') = Cardinality(used) - 1
      BY <2>0, <3>1, CardFreeOne
    <3> QED BY <2>0, <3>1, <3>2
  <2>7. CASE TimesOut
    BY <2>0, <2>7 DEF TimesOut, FreeStores, TimerInv
  <2> QED BY <2>1, <2>2, <2>3, <2>4, <2>5, <2>6, <2>7 DEF Effect
<1> QED BY <1>1, PoolInductive, PTL DEF Spec, DriftOnlyByTimeout

\* A file that is removed, alone or with its directory, gives up an index entry
\* for each of its blocks, and nothing else takes entries out of the index.
THEOREM BlocksReleased == Spec => BlocksFollowFiles
<1> DEFINE Follow ==
      /\ \A o \in used \ used' : kind[o] = "file" =>
            \A b \in BlksOf({o}) : blkIndex'[b] < blkIndex[b] \/ blkIndex'[b] = 0
      /\ \A b \in Blk : blkIndex'[b] < blkIndex[b] =>
            \E o \in used \ used' : b \in BlksOf({o})
<1>1. PoolInv /\ [Next]_vars => [Follow]_vars
  <2> SUFFICES ASSUME PoolInv, Next PROVE Follow
    OBVIOUS
  <2>0. TypeOK /\ TimerInv
    BY DEF PoolInv, TypeInv
  <2>1. Effect
    BY <2>0, StepEffects
  <2>i. \A b \in Blk : blkIndex[b] \in Nat
    BY <2>0, PoolAssumption DEF TypeOK
  <2>b. \A S \in SUBSET used : BlksOf(S) \subseteq Blk
    BY <2>0 DEF TypeOK, BlksOf
  <2>d. ASSUME NEW S \in SUBSET used, block_object_del(BlksOf(S)),
               S \subseteq used \ used',
               \A o \in used \ used' : kind[o] = "file" => o \in S
        PROVE  Follow
    <3>1. \A o \in S : BlksOf({o}) \subseteq BlksOf(S)
      BY DEF BlksOf
    <3>2. \A b \in BlksOf(S) : \E o \in S : b \in BlksOf({o})
      BY DEF BlksOf
    <3>3. \A b \in BlksOf(S) : blkIndex'[b] < blkIndex[b] \/ blkIndex'[b] = 0
      BY <2>b, <2>d, <2>i DEF block_object_del
    <3>4. \A b \in Blk : blkIndex'[b] < blkIndex[b] => b \in BlksOf(S)
      BY <2>d, <2>i DEF block_object_del
    <3> QED BY <2>d, <3>1, <3>2, <3>3, <3>4
  <2>k. ASSUME used' = used \/ used \subseteq used', UNCHANGED blkIndex PROVE Follow
    BY <2>i, <2>k
  <2>2. CASE Quiet
    <3>1. used' = used /\ \A b \in Blk : blkIndex'[b] \in Nat /\ blkIndex'[b] >= blkIndex[b]
      BY <2>2, PoolAssumption DEF Quiet, tree
    <3> QED BY <2>i, <3>1
  <2>3. CASE MkdirStarts \/ MkdirSkips \/ AddsBlock \/ Closes
    BY <2>3, <2>k DEF MkdirStarts, StartMkdir, MkdirSkips, AddsBlock, Closes,
                update_fi_get_additional_blk, update_fi_close, tree
  <2>4. CASE MkdirMakes
    BY <2>4, <2>k DEF MkdirMakes, update_fi_mkdir, JoinStore
  <2>5. CASE Creates
    BY <2>5, <2>k DEF Creates, update_fi_create, JoinStore
  <2>6. CASE RmrRemoves
    <3>1. PICK o \in used, p \in used : \E R \in SUBSET (used \ {o}) :
            kind[o] = "dir" /\ update_fi_rmr(o, p, R)
      BY <2>6 DEF RmrRemoves
    <3>2. PICK R \in SUBSET (used \ {o}) : kind[o] = "dir" /\ update_fi_rmr(o, p, R)
      BY <3>1
    <3>3. used' = used \ (R \cup {o}) /\ block_object_del(BlksOf(R))
      BY <3>2 DEF update_fi_rmr, FreeStores
    <3> QED BY <2>d, <3>2, <3>3
  <2>7. CASE RmRemoves
    <3>1. PICK o \in used : used' = used \ {o} /\ block_object_del(BlksOf({o}))
      BY <2>7 DEF RmRemoves, update_fi_rm, FreeStores
    <3> QED BY <2>d, <3>1
  <2>8. CASE TimesOut
    <3>1. PICK o \in used \cap timer : used' = used \ {o} /\ blkIndex' = blkIndex
      BY <2>8 DEF TimesOut, FreeStores
    <3>2. kind[o] # "file"
      BY <2>0 DEF TimerInv
    <3> QED BY <2>i, <3>1, <3>2
  <2> QED BY <2>1, <2>2, <2>3, <2>4, <2>5, <2>6, <2>7, <2>8 DEF Effect
<1> QED BY <1>1, PoolInductive, PTL DEF Spec, BlocksFollowFiles

-----------------------------------------------------------------------------
(* The tree *)

\* ParentKey names the component before the last.
LEMMA ParentType ==
  ASSUME NEW k \in Key \ {Root}
  PROVE  /\ Len(Path[k]) \in Nat /\ Len(Path[k]) > 1
         /\ ParentKey(k) \in Key
         /\ Len(Path[ParentKey(k)]) = Len(Path[k]) - 1
         /\ Path[k][Len(Path[k])] = k
         /\ \A i \in 1 .. (Len(Path[k]) - 1) : Path[ParentKey(k)][i] = Path[k][i]
<1>1. Path[k] \in Seq(Key) /\ Len(Path[k]) \in Nat /\ Len(Path[k]) > 1
  BY PathAssumption
<1>2. Len(Path[k]) - 1 \in DOMAIN Path[k]
  BY <1>1
<1>3. ParentKey(k) \in Key
  BY <1>1, <1>2 DEF ParentKey
<1>4. Path[ParentKey(k)] \in Seq(Key) /\ Path[k] = Append(Path[ParentKey(k)], k)
  BY <1>3, PathAssumption
<1> HIDE DEF ParentKey
<1>5. Len(Path[k]) = Len(Path[ParentKey(k)]) + 1 /\ Len(Path[ParentKey(k)]) \in Nat
  BY <1>4
<1>6. Path[k][Len(Path[k])] = k
  BY <1>4, <1>5
<1>7. \A i \in 1 .. Len(Path[ParentKey(k)]) : Path[ParentKey(k)][i] = Path[k][i]
  BY <1>4, <1>5
<1> QED BY <1>1, <1>3, <1>5, <1>6, <1>7

\* The path of an ancestor is the part of the path that ends there.
LEMMA Prefix ==
  ASSUME NEW k \in Key, NEW i \in DOMAIN Path[k]
  PROVE  /\ Path[k][i] \in Key
         /\ Len(Path[Path[k][i]]) = i
         /\ \A j \in 1 .. i : Path[Path[k][i]][j] = Path[k][j]
<1> DEFINE Good(x, n) == /\ Path[x][n] \in Key
                         /\ Len(Path[Path[x][n]]) = n
                         /\ \A j \in 1 .. n : Path[Path[x][n]][j] = Path[x][j]
           Bad == {x \in Key : \E n \in DOMAIN Path[x] : ~ Good(x, n)}
           Lens == {Len(Path[x]) : x \in Bad}
<1>1. SUFFICES ASSUME Bad # {} PROVE FALSE
  <2>1. Bad = {} => Good(k, i)
    OBVIOUS
  <2> QED BY <2>1
<1>2. Lens \in SUBSET Nat /\ Lens # {}
  <2>1. \A x \in Bad : Len(Path[x]) \in Nat
    BY PathType
  <2> HIDE DEF Bad
  <2> QED BY <1>1, <2>1
<1>3. PICK m \in Lens : \A n \in Lens : m <= n
  <2> HIDE DEF Lens
  <2> QED BY <1>2, LeastIndex
<1>4. PICK x \in Bad : m = Len(Path[x])
  BY <1>3
<1>5. PICK n \in DOMAIN Path[x] : ~ Good(x, n)
  BY <1>4
<1>6. Len(Path[x]) \in Nat /\ n \in 1 .. Len(Path[x]) /\ Path[x] \in Seq(Key)
  BY <1>4, <1>5, PathType
<1>7. CASE x = Root
  <2>1. n = 1 /\ Path[x][n] = Root /\ Len(Path[Root]) = 1 /\ Path[Root][1] = Root
    BY <1>6, <1>7, PathType
  <2>2. Good(x, n)
    BY <1>7, <2>1, PathAssumption
  <2> QED BY <1>5, <2>2
<1>8. CASE x # Root /\ n = Len(Path[x])
  <2>1. Path[x][n] = x
    BY <1>4, <1>8, ParentType
  <2>2. Good(x, n)
    BY <1>4, <1>8, <2>1
  <2> QED BY <1>5, <2>2
<1>9. CASE x # Root /\ n # Len(Path[x])
  <2> DEFINE p == ParentKey(x)
  <2>1. /\ p \in Key /\ Len(Path[p]) = Len(Path[x]) - 1
        /\ \A j \in 1 .. (Len(Path[x]) - 1) : Path[p][j] = Path[x][j]
    BY <1>4, <1>9, ParentType
  <2> HIDE DEF p
  <2>2. n \in 1 .. Len(Path[p])
    BY <1>6, <1>9, <2>1
  <2>3. n \in DOMAIN Path[p]
    BY <2>1, <2>2, PathType
  <2>4. p \notin Bad
    <3>1. SUFFICES ASSUME p \in Bad PROVE FALSE
      OBVIOUS
    <3>2. Len(Path[p]) \in Lens
      BY <3>1
    <3>3. m <= Len(Path[p])
      BY <1>3, <3>2
    <3> QED BY <1>4, <1>6, <2>1, <3>3
  <2>5. Good(p, n)
    BY <2>1, <2>3, <2>4
  <2>6. \A j \in 1 .. n : Path[p][j] = Path[x][j]
    BY <1>6, <1>9, <2>1
  <2>7. Path[p][n] = Path[x][n]
    BY <1>6, <2>6
  <2>8. Good(x, n)
    BY <2>5, <2>6, <2>7
  <2> QED BY <1>5, <2>8
<1> QED BY <1>7, <1>8, <1>9

\* A component below the first is not "/", and its parent is the one before it.
LEMMA ParentOnPath ==
  ASSUME NEW k \in Key, NEW m \in DOMAIN Path[k], m > 1
  PROVE  /\ Path[k][m] # Root
         /\ ParentKey(Path[k][m]) = Path[k][m - 1]
         /\ m - 1 \in DOMAIN Path[k]
<1>1. Path[k][m] # Root /\ m \in 1 .. Len(Path[k]) /\ Len(Path[k]) \in Nat
  BY PathType
<1>2. /\ Len(Path[Path[k][m]]) = m
      /\ \A j \in 1 .. m : Path[Path[k][m]][j] = Path[k][j]
  BY Prefix
<1>3. ParentKey(Path[k][m]) = Path[Path[k][m]][m - 1]
  BY <1>1, <1>2 DEF ParentKey
<1>4. m - 1 \in 1 .. m /\ m - 1 \in 1 .. Len(Path[k])
  BY <1>1
<1> QED BY <1>1, <1>2, <1>3, <1>4, PathType

-----------------------------------------------------------------------------
(* The inductive invariant *)

\* The stores that nn_ls, nn_open and rmr are to find: directories, closed files.
Shown == {o \in used : kind[o] # "creating"}

\* In a hash bucket the stores of one key stand in the order in which they were
\* joined, and a directory or closed file stands in front of the others.
HidesOrdered ==
  /\ \A o \in used : hidden[o] \subseteq used \ {o}
  /\ \A o, p \in used :
        o # p /\ key[o] = key[p] => (o \in hidden[p] <=> p \notin hidden[o])
  /\ \A o \in Shown, p \in used : o # p /\ key[o] = key[p] => p \in hidden[o]

\* An unclosed file is in no list; the others hang under the directory of their
\* parent path, "/" under nothing.
Linked ==
  /\ \A o \in used \ Shown : link[o] = NoObj /\ o \notin queued
  /\ \A o \in Shown :
       /\ o \in queued
       /\ key[o] = Root => link[o] = NoObj
       /\ key[o] # Root => /\ link[o] \in Shown /\ kind[link[o]] = "dir"
                           /\ key[link[o]] = ParentKey(key[o])

\* A free block has no parent and no children.
FreeClean == \A o \in Obj \ used : link[o] = NoObj /\ childrenNum[o] = 0

\* The components log_mkdir has still to propose name no directory or closed file.
LoopClear ==
  mkPath # NoKey =>
    \A o \in Shown : \A j \in mkIdx .. Len(Path[mkPath]) : key[o] # Path[mkPath][j]

TreeInv == HidesOrdered /\ Linked /\ FreeClean /\ LoopClear /\ CountSound

\* A directory or closed file is what its path looks up to.
LEMMA ShownFound ==
  ASSUME HidesOrdered, NEW o \in Shown
  PROVE  Lookup(key[o]) = {o}
<1>1. o \in Lookup(key[o])
  BY DEF HidesOrdered, Shown, Lookup
<1>2. \A p \in Lookup(key[o]) : p = o
  BY DEF HidesOrdered, Shown, Lookup
<1> QED BY <1>1, <1>2

\* What the invariant says of the tree as clients see it.
LEMMA InvIsSound ==
  ASSUME TypeOK, TreeInv
  PROVE  TreeSound
<1>1. SUFFICES ASSUME NEW o \in used
      PROVE IF kind[o] = "creating"
              THEN link[o] = NoObj /\ o \notin queued
              ELSE /\ Lookup(key[o]) = {o}
                   /\ o \in queued
                   /\ key[o] # Root => /\ Lookup(ParentKey(key[o])) = {link[o]}
                                       /\ kind[link[o]] = "dir"
  BY DEF TreeSound
<1>2. CASE kind[o] = "creating"
  BY <1>2 DEF TreeInv, Linked, Shown
<1>3. CASE kind[o] # "creating"
  <2>1. o \in Shown /\ HidesOrdered /\ Linked
    BY <1>3 DEF Shown, TreeInv
  <2>2. Lookup(key[o]) = {o}
    BY <2>1, ShownFound
  <2>3. ASSUME key[o] # Root
        PROVE  Lookup(ParentKey(key[o])) = {link[o]} /\ kind[link[o]] = "dir"
    <3>1. link[o] \in Shown /\ kind[link[o]] = "dir" /\ key[link[o]] = ParentKey(key[o])
      BY <2>1, <2>3 DEF Linked
    <3>2. Lookup(key[link[o]]) = {link[o]}
      BY <2>1, <3>1, ShownFound
    <3> QED BY <3>1, <3>2
  <2>4. o \in queued
    BY <2>1 DEF Linked
  <2> QED BY <1>3, <2>2, <2>3, <2>4
<1> QED BY <1>2, <1>3

LEMMA KidsFinite ==
  ASSUME TypeOK
  PROVE  \A d : /\ IsFiniteSet(Kids(d)) /\ Cardinality(Kids(d)) \in Nat
                /\ Cardinality(Kids(d)) <= Cardinality(used)
                /\ Cardinality(Kids(d)) < Width
<1>1. SUFFICES ASSUME NEW d
      PROVE /\ IsFiniteSet(Kids(d)) /\ Cardinality(Kids(d)) \in Nat
            /\ Cardinality(Kids(d)) <= Cardinality(used)
            /\ Cardinality(Kids(d)) < Width
  OBVIOUS
<1>2. Kids(d) \in SUBSET used /\ used \in SUBSET Obj
  BY DEF Kids, TypeOK
<1>3. IsFiniteSet(used) /\ Cardinality(used) \in Nat
  BY UsedFinite
<1>4. /\ IsFiniteSet(Kids(d)) /\ Cardinality(Kids(d)) \in Nat
      /\ Cardinality(Kids(d)) <= Cardinality(used)
  BY <1>2, <1>3, FS_Subset, FS_CardinalityType
<1>5. Cardinality(used) <= Cardinality(Obj) /\ Cardinality(Obj) \in Nat
  BY <1>2, PoolAssumption, FS_Subset, FS_CardinalityType
<1> QED BY <1>3, <1>4, <1>5, PoolAssumption

-----------------------------------------------------------------------------
(* Taking stores out of the tree *)

\* rm, rmr and the create timer free the stores F below and with o: nobody who
\* stays is linked under F, and of those who stay only o's parent is counted down.
Prunes(o, F, P) ==
  /\ o \in F /\ F \subseteq used /\ P \subseteq used
  /\ \A x \in used : link[x] \in F => x \in F
  /\ \A x \in F \ {o} : link[x] \in F
  /\ \A d \in used \ F : d \in P <=> d = link[o]

LEMMA PruneTree ==
  ASSUME TypeOK, TypeOK', TreeInv, mkPath' = NoKey,
         NEW o, NEW F, NEW P, Prunes(o, F, P), FreeStores(F, P)
  PROVE  TreeInv'
<1>0. HidesOrdered /\ Linked /\ FreeClean /\ CountSound
  BY DEF TreeInv
<1>1. /\ used' = used \ F /\ key' = key /\ F \subseteq Obj /\ used \subseteq Obj
      /\ queued' = queued \ F
      /\ \A x \in used' : /\ kind'[x] = kind[x] /\ hidden'[x] = hidden[x] \ F
                           /\ link'[x] = link[x]
                           /\ childrenNum'[x] = IF x \in P THEN (childrenNum[x] - 1) % Width
                                                            ELSE childrenNum[x]
  BY DEF FreeStores, Prunes, TypeOK
<1>2. Shown' = Shown \ F
  BY <1>1 DEF Shown
<1>3. HidesOrdered'
  BY <1>0, <1>1, <1>2 DEF HidesOrdered, Shown
<1>4. Linked'
  <2>1. \A x \in used' \ Shown' : link'[x] = NoObj /\ x \notin queued'
    BY <1>0, <1>1, <1>2 DEF Linked
  <2>2. ASSUME NEW x \in Shown'
        PROVE  /\ x \in queued'
               /\ key'[x] = Root => link'[x] = NoObj
               /\ key'[x] # Root => /\ link'[x] \in Shown' /\ kind'[link'[x]] = "dir"
                                    /\ key'[link'[x]] = ParentKey(key'[x])
    <3>1. x \in Shown /\ x \in used' /\ x \in used /\ x \notin F
      BY <1>1, <1>2 DEF Shown
    <3>2. link'[x] = link[x] /\ key'[x] = key[x] /\ x \in queued /\ x \in queued'
      BY <1>0, <1>1, <3>1 DEF Linked
    <3>3. ASSUME key[x] # Root
          PROVE  /\ link[x] \in Shown' /\ kind'[link[x]] = "dir"
                 /\ key'[link[x]] = ParentKey(key[x])
      <4>1. link[x] \in Shown /\ kind[link[x]] = "dir" /\ key[link[x]] = ParentKey(key[x])
        BY <1>0, <3>1, <3>3 DEF Linked
      <4>2. link[x] \notin F
        BY <3>1 DEF Prunes
      <4>3. link[x] \in Shown' /\ link[x] \in used'
        BY <1>1, <1>2, <4>1, <4>2 DEF Shown
      <4> QED BY <1>1, <4>1, <4>3
    <3> QED BY <1>0, <3>1, <3>2, <3>3 DEF Linked
  <2> QED BY <2>1, <2>2 DEF Linked
<1>5. FreeClean'
  <2>1. SUFFICES ASSUME NEW x \in Obj \ used' PROVE link'[x] = NoObj /\ childrenNum'[x] = 0
    BY DEF FreeClean
  <2>2. CASE x \in F
    BY <2>2 DEF FreeStores
  <2>3. CASE x \notin F
    <3>1. x \notin used /\ x \notin P /\ link[x] = NoObj /\ childrenNum[x] = 0 /\ NoObj \notin F
      BY <1>0, <1>1, <2>3, PoolAssumption DEF FreeClean, Prunes
    <3> QED BY <2>3, <3>1 DEF FreeStores
  <2> QED BY <2>2, <2>3
<1>6. LoopClear'
  BY DEF LoopClear
<1>7. CountSound'
  <2>1. SUFFICES ASSUME NEW d \in used', kind'[d] = "dir"
        PROVE  childrenNum'[d] = Cardinality(Kids(d)')
    BY DEF CountSound
  <2>2. d \in used \ F /\ kind[d] = "dir" /\ childrenNum[d] = Cardinality(Kids(d))
    BY <1>0, <1>1, <2>1 DEF CountSound
  <2>3. Kids(d)' = Kids(d) \ F
    BY <1>1 DEF Kids
  <2>4. CASE d # link[o]
    <3>1. Kids(d) \cap F = {}
      BY <2>2, <2>4 DEF Prunes, Kids
    <3>2. Kids(d)' = Kids(d)
      BY <2>3, <3>1
    <3>3. d \notin P
      BY <2>2, <2>4 DEF Prunes
    <3> QED BY <1>1, <2>1, <2>2, <3>2, <3>3
  <2>5. CASE d = link[o]
    <3>1. o \in Kids(d) /\ Kids(d) \cap F = {o}
      BY <2>2, <2>5 DEF Prunes, Kids
    <3>2. Kids(d)' = Kids(d) \ {o}
      BY <2>3, <3>1
    <3>3. Cardinality(Kids(d) \ {o}) = Cardinality(Kids(d)) - 1
      BY <3>1, KidsFinite, FS_RemoveElement
    <3>4. Cardinality(Kids(d) \ {o}) \in Nat
      BY <3>1, KidsFinite, FS_RemoveElement, FS_CardinalityType
    <3>5. childrenNum'[d] = (childrenNum[d] - 1) % Width
      BY <1>1, <2>1, <2>2, <2>5 DEF Prunes
    <3>6. childrenNum[d] - 1 \in 0 .. (Width - 1)
      BY <2>2, <3>3, <3>4, KidsFinite, WidthType
    <3>7. (childrenNum[d] - 1) % Width = childrenNum[d] - 1
      BY <3>6, WidthType
    <3> QED BY <2>2, <3>2, <3>3, <3>5, <3>7
  <2> QED BY <2>4, <2>5
<1> QED BY <1>3, <1>4, <1>5, <1>6, <1>7 DEF TreeInv

-----------------------------------------------------------------------------
(* Putting stores into the tree *)

\* A store joined for a path that names no directory or closed file goes in
\* front of the unclosed files of that path.
LEMMA JoinHides ==
  ASSUME TypeOK, HidesOrdered, NEW o \in Obj \ used, NEW k, NEW kd, JoinStore(o, k, kd),
         \A q \in Shown : key[q] # k
  PROVE  HidesOrdered'
<1>1. /\ used' = used \cup {o} /\ used \subseteq Obj
      /\ key'[o] = k /\ kind'[o] = kd /\ hidden'[o] = {p \in used : key[p] = k}
      /\ \A x \in used : key'[x] = key[x] /\ kind'[x] = kind[x] /\ hidden'[x] = hidden[x]
  BY DEF JoinStore, TypeOK
<1>2. Shown \subseteq Shown' /\ Shown' \subseteq Shown \cup {o}
  BY <1>1 DEF Shown
<1>3. \A x \in used' : hidden'[x] \subseteq used' \ {x}
  BY <1>1 DEF HidesOrdered
<1>4. \A x, y \in used' :
        x # y /\ key'[x] = key'[y] => (x \in hidden'[y] <=> y \notin hidden'[x])
  <2>1. ASSUME NEW x \in used', NEW y \in used', x # y, key'[x] = key'[y]
        PROVE  x \in hidden'[y] <=> y \notin hidden'[x]
    <3>1. CASE x = o
      BY <1>1, <2>1, <3>1 DEF HidesOrdered
    <3>2. CASE y = o
      BY <1>1, <2>1, <3>2 DEF HidesOrdered
    <3>3. CASE x # o /\ y # o
      BY <1>1, <2>1, <3>3 DEF HidesOrdered
    <3> QED BY <3>1, <3>2, <3>3
  <2> QED BY <2>1
<1>5. \A x \in Shown', y \in used' : x # y /\ key'[x] = key'[y] => y \in hidden'[x]
  <2>1. ASSUME NEW x \in Shown', NEW y \in used', x # y, key'[x] = key'[y]
        PROVE  y \in hidden'[x]
    <3>1. CASE x = o
      BY <1>1, <2>1, <3>1
    <3>2. CASE x # o
      <4>1. x \in Shown /\ x \in used
        BY <1>1, <1>2, <3>2 DEF Shown
      <4>2. y # o
        BY <1>1, <2>1, <4>1
      <4> QED BY <1>1, <2>1, <4>1, <4>2 DEF HidesOrdered
    <3> QED BY <3>1, <3>2
  <2> QED BY <2>1
<1> QED BY <1>3, <1>4, <1>5 DEF HidesOrdered

\* A store o enters the children list of p and g_checkpoint_q: a new directory,
\* or an unclosed file that is closed.
Places(o, k, kd, p) ==
  /\ o \in Obj /\ o \notin Shown /\ used' = used \cup {o}
  /\ key'[o] = k /\ kind'[o] = kd /\ kd # "creating"
  /\ \A x \in Obj \ {o} : key'[x] = key[x] /\ kind'[x] = kind[x]
  /\ kd = "dir" => o \notin used
  /\ LinkUnder(o, p)
  /\ \/ k = Root /\ p = NoObj /\ childrenNum' = childrenNum
     \/ /\ k # Root /\ p \in Shown /\ kind[p] = "dir" /\ key[p] = ParentKey(k)
        /\ childrenNum' = [childrenNum EXCEPT ![p] = (@ + 1) % Width]

LEMMA PlaceTree ==
  ASSUME TypeOK, TypeOK', Linked, FreeClean, CountSound,
         NEW o, NEW k, NEW kd, NEW p, Places(o, k, kd, p)
  PROVE  Linked' /\ FreeClean' /\ CountSound'
<1>1. /\ o \in Obj /\ o \notin Shown /\ used' = used \cup {o} /\ used \subseteq Obj
      /\ key'[o] = k /\ kind'[o] = kd /\ kd # "creating"
      /\ \A x \in used \ {o} : key'[x] = key[x] /\ kind'[x] = kind[x]
  BY DEF Places, TypeOK
<1>2. /\ link'[o] = p /\ \A x \in Obj \ {o} : link'[x] = link[x]
      /\ queued' = queued \cup {o}
  BY <1>1 DEF Places, LinkUnder, TypeOK
<1>3. Shown' = Shown \cup {o}
  BY <1>1 DEF Shown
<1>4. /\ link[o] = NoObj
      /\ p = NoObj \/ (p \in used /\ p # o)
      /\ \A x \in Shown : x \in used /\ x # o
  BY <1>1 DEF Linked, FreeClean, Shown, Places
<1>5. Linked'
  <2>1. \A x \in used' \ Shown' : link'[x] = NoObj /\ x \notin queued'
    BY <1>1, <1>2, <1>3 DEF Linked
  <2>2. ASSUME NEW x \in Shown'
        PROVE  /\ x \in queued'
               /\ key'[x] = Root => link'[x] = NoObj
               /\ key'[x] # Root => /\ link'[x] \in Shown' /\ kind'[link'[x]] = "dir"
                                    /\ key'[link'[x]] = ParentKey(key'[x])
    <3>1. CASE x = o
      <4>1. CASE k = Root
        BY <1>1, <1>2, <3>1, <4>1 DEF Places
      <4>2. CASE k # Root
        <5>1. p \in Shown /\ kind[p] = "dir" /\ key[p] = ParentKey(k)
          BY <4>2 DEF Places
        <5>2. kind'[p] = "dir" /\ key'[p] = ParentKey(k) /\ p \in Shown'
          BY <1>1, <1>3, <1>4, <5>1
        <5> QED BY <1>1, <1>2, <3>1, <4>2, <5>2
      <4> QED BY <4>1, <4>2
    <3>2. CASE x # o
      <4>1. x \in Shown /\ x \in used
        BY <1>3, <1>4, <3>2
      <4>2. link'[x] = link[x] /\ key'[x] = key[x] /\ x \in queued'
        BY <1>1, <1>2, <3>2, <4>1 DEF Linked
      <4>3. ASSUME key[x] # Root
            PROVE  /\ link[x] \in Shown' /\ kind'[link[x]] = "dir"
                   /\ key'[link[x]] = ParentKey(key[x])
        <5>1. link[x] \in Shown /\ kind[link[x]] = "dir" /\ key[link[x]] = ParentKey(key[x])
          BY <4>1, <4>3 DEF Linked
        <5> QED BY <1>1, <1>3, <1>4, <5>1
      <4> QED BY <4>1, <4>2, <4>3 DEF Linked
    <3> QED BY <3>1, <3>2
  <2> QED BY <2>1, <2>2 DEF Linked
<1>6. FreeClean'
  <2>1. SUFFICES ASSUME NEW x \in Obj \ used' PROVE link'[x] = NoObj /\ childrenNum'[x] = 0
    BY DEF FreeClean
  <2>2. x # o /\ x \notin used /\ x # p
    BY <1>1, <1>4, <2>1, PoolAssumption
  <2>3. childrenNum'[x] = childrenNum[x]
    BY <2>2 DEF Places, TypeOK
  <2> QED BY <1>2, <2>2, <2>3 DEF FreeClean
<1>7. CountSound'
  <2>1. SUFFICES ASSUME NEW d \in used', kind'[d] = "dir"
        PROVE  childrenNum'[d] = Cardinality(Kids(d)')
    BY DEF CountSound
  <2>2. CASE d = o
    <3>1. o \notin used
      BY <1>1, <2>1, <2>2 DEF Places
    <3>2. \A x \in used : link[x] # o
      BY <1>1, <3>1, <1>4, PoolAssumption DEF Linked
    <3>3. Kids(d)' = {}
      BY <1>1, <1>2, <1>4, <2>2, <3>1, <3>2, PoolAssumption DEF Kids
    <3>4. childrenNum'[d] = 0
      BY <1>1, <1>4, <2>2, <3>1, PoolAssumption DEF FreeClean, Places, TypeOK
    <3> QED BY <3>3, <3>4, FS_EmptySet
  <2>3. CASE d # o
    <3>1. d \in used /\ kind[d] = "dir" /\ childrenNum[d] = Cardinality(Kids(d))
      BY <1>1, <2>1, <2>3 DEF CountSound
    <3>2. o \notin Kids(d)
      BY <1>1, <1>4, <3>1, PoolAssumption DEF Kids
    <3>3. CASE d = p
      <4>1. Kids(d)' = Kids(d) \cup {o}
        BY <1>1, <1>2, <3>1, <3>3 DEF Kids
      <4>2. childrenNum'[d] = (childrenNum[d] + 1) % Width
        BY <1>1, <3>1, <3>3, PoolAssumption DEF Places, TypeOK
      <4>3. Cardinality(Kids(d)') = Cardinality(Kids(d)) + 1
        BY <3>2, <4>1, KidsFinite, FS_AddElement
      <4>4. Cardinality(Kids(d)') < Width
        <5>1. Kids(d)' \in SUBSET Obj
          BY <1>1 DEF Kids
        <5>2. Cardinality(Kids(d)') <= Cardinality(Obj) /\ Cardinality(Obj) \in Nat
          BY <5>1, PoolAssumption, FS_Subset, FS_CardinalityType
        <5> QED BY <4>3, <5>2, KidsFinite, PoolAssumption
      <4>5. childrenNum[d] + 1 \in 0 .. (Width - 1)
        BY <3>1, <4>3, <4>4, KidsFinite, WidthType
      <4>6. (childrenNum[d] + 1) % Width = childrenNum[d] + 1
        BY <4>5, WidthType
      <4> QED BY <3>1, <4>2, <4>3, <4>6
    <3>4. CASE d # p
      <4>1. Kids(d)' = Kids(d)
        BY <1>1, <1>2, <3>1, <3>2, <3>4 DEF Kids
      <4>2. childrenNum'[d] = childrenNum[d]
        BY <1>1, <3>1, <3>4 DEF Places, TypeOK
      <4> QED BY <3>1, <4>1, <4>2
    <3> QED BY <3>3, <3>4
  <2> QED BY <2>2, <2>3
<1> QED BY <1>5, <1>6, <1>7

-----------------------------------------------------------------------------
(* What each handler knows when it changes the tree *)

StartsMissing ==
  \E k \in Key : \E i \in DOMAIN Path[k] :
    /\ FirstMissing(k, i)
    /\ UNCHANGED tree
    /\ mkPath' = k /\ mkIdx' = i

RmrFound ==
  \E k \in Key : \E o \in Lookup(k), p \in Lookup(ParentKey(k)) :
    \E R \in SUBSET (used \ {o}) :
      /\ mkPath' = NoKey
      /\ kind[o] = "dir"
      /\ Cleared(o, R) /\ ~ Overrun(R \cup {o})
      /\ FreeStores(R \cup {o}, {p})

CreatesMissing ==
  \E k \in Key, b \in Blk :
    /\ mkPath' = NoKey
    /\ Lookup(k) = {}
    /\ update_fi_create(k, b)

ClosesFound ==
  \E k \in Key : \E o \in Lookup(k), p \in Lookup(ParentKey(k)) :
    /\ mkPath' = NoKey
    /\ kind[o] = "creating" /\ kind[p] = "dir"
    /\ update_fi_close(o, p)

RmFound ==
  \E k \in Key : \E o \in Lookup(k), p \in Lookup(ParentKey(k)) :
    /\ mkPath' = NoKey
    /\ kind[o] = "file"
    /\ FreeStores({o}, {p})

TreeEffect ==
  \/ UNCHANGED <<tree, mkPath, mkIdx>>
  \/ StartsMissing \/ MkdirSkips \/ MkdirMakes \/ RmrFound
  \/ CreatesMissing \/ ClosesFound \/ RmFound \/ TimesOut

\* Every step of the file index has one of these effects, if clients do not
\* remove unclosed files.
LEMMA StepTreeEffects ==
  ASSUME RmUnclosed = FALSE, TypeOK, Next
  PROVE  TreeEffect
<1> USE DEF TreeEffect
<1>a. \A c : Answer(c) => UNCHANGED <<tree, mkPath, mkIdx>>
  BY DEF Answer, loop
<1>b. Crash => UNCHANGED <<tree, mkPath, mkIdx>>
  BY DEF Crash, loop
<1>1. ASSUME NEW k \in Key, log_mkdir(k) PROVE TreeEffect
  <2>2. CASE k = Root /\ Lookup(k) = {} /\ StartMkdir(k, 1, FALSE)
    <3>1. 1 \in DOMAIN Path[k] /\ Path[k][1] = k
      BY <2>2, PathType
    <3>2. FirstMissing(k, 1)
      BY <2>2, <3>1 DEF FirstMissing
    <3> QED BY <2>2, <3>1, <3>2 DEF StartsMissing, StartMkdir
  <2>3. CASE \E i \in DOMAIN Path[k] : FirstMissing(k, i) /\ StartMkdir(k, i, i > 1)
    BY <2>3 DEF StartsMissing, StartMkdir
  <2>4. CASE Crash \/ \E c : Answer(c)
    BY <2>4, <1>a, <1>b
  <2> QED BY <1>1, <2>2, <2>3, <2>4 DEF log_mkdir
<1>2. ASSUME log_mkdir_component PROVE TreeEffect
  BY <1>2, <1>b DEF log_mkdir_component, AllocCrash, MkdirSkips, MkdirMakes
<1>3. ASSUME NEW k \in Key, log_rmr(k) PROVE TreeEffect
  <2>1. mkPath = NoKey
    BY <1>3 DEF log_rmr, Ready
  <2>2. CASE Crash \/ \E c : Answer(c)
    BY <2>2, <1>a, <1>b
  <2>3. CASE \E o \in Lookup(k), p \in Lookup(ParentKey(k)) :
               \E R \in SUBSET (used \ {o}) :
                 /\ kind[o] = "dir" /\ Cleared(o, R) /\ ~ Overrun(R \cup {o})
                 /\ update_fi_rmr(o, p, R)
    <3>1. \A o, p, R : update_fi_rmr(o, p, R) => FreeStores(R \cup {o}, {p}) /\ mkPath' = mkPath
      BY DEF update_fi_rmr, loop
    <3> QED BY <2>1, <2>3, <3>1 DEF RmrFound
  <2> QED BY <1>3, <2>2, <2>3 DEF log_rmr
<1>4. ASSUME NEW k \in Key, log_create(k) PROVE TreeEffect
  <2>1. mkPath = NoKey
    BY <1>4 DEF log_create, Ready
  <2>2. CASE Crash \/ \E c : Answer(c)
    BY <2>2, <1>a, <1>b
  <2>3. CASE Lookup(k) = {} /\ \E b \in FreshBlk : update_fi_create(k, b)
    <3>1. \A b : update_fi_create(k, b) => mkPath' = mkPath
      BY DEF update_fi_create, loop
    <3> QED BY <2>1, <2>3, <3>1 DEF CreatesMissing, FreshBlk
  <2> QED BY <1>4, <2>2, <2>3 DEF log_create, AllocCrash
<1>5. ASSUME NEW k \in Key, log_get_additional_blk(k) PROVE TreeEffect
  <2>1. \A o, b : update_fi_get_additional_blk(o, b) => UNCHANGED <<tree, mkPath, mkIdx>>
    BY DEF update_fi_get_additional_blk, loop
  <2>2. CASE Crash \/ \E c : Answer(c)
    BY <2>2, <1>a, <1>b
  <2> QED BY <1>5, <2>1, <2>2 DEF log_get_additional_blk
<1>6. ASSUME NEW k \in Key, log_close(k) PROVE TreeEffect
  <2>1. mkPath = NoKey
    BY <1>6 DEF log_close, Ready
  <2>2. CASE Crash \/ \E c : Answer(c)
    BY <2>2, <1>a, <1>b
  <2>3. CASE \E o \in Lookup(k), p \in Lookup(ParentKey(k)) :
               kind[o] = "creating" /\ kind[p] = "dir" /\ update_fi_close(o, p)
    <3>1. \A o, p : update_fi_close(o, p) => mkPath' = mkPath
      BY DEF update_fi_close, loop
    <3> QED BY <2>1, <2>3, <3>1 DEF ClosesFound
  <2> QED BY <1>6, <2>2, <2>3 DEF log_close
<1>7. ASSUME NEW k \in Key, log_rm(k) PROVE TreeEffect
  <2>1. mkPath = NoKey
    BY <1>7 DEF log_rm, Ready
  <2>2. CASE Crash \/ \E c : Answer(c)
    BY <2>2, <1>a, <1>b
  <2>3. CASE \E o \in Lookup(k), p \in Lookup(ParentKey(k)) :
               kind[o] = "file" /\ update_fi_rm(o, p)
    <3>1. \A o, p : update_fi_rm(o, p) => FreeStores({o}, {p}) /\ mkPath' = mkPath
      BY DEF update_fi_rm, loop
    <3> QED BY <2>1, <2>3, <3>1 DEF RmFound
  <2> QED BY <1>7, <2>2, <2>3 DEF log_rm
<1>8. ASSUME NEW o \in Obj, fi_create_timeout(o) PROVE TreeEffect
  BY <1>8, <1>b DEF fi_create_timeout, Ready, TimesOut
<1>9. ASSUME NEW k \in Key, nn_ls(k) \/ nn_open(k) PROVE TreeEffect
  <2>2. CASE Crash \/ \E c : Answer(c)
    BY <2>2, <1>a, <1>b
  <2> QED BY <1>9, <2>2 DEF nn_ls, nn_open
<1>10. ASSUME NEW b \in Blk, add_block(b) PROVE TreeEffect
  BY <1>10 DEF add_block, loop
<1> QED BY <1>1, <1>2, <1>3, <1>4, <1>5, <1>6, <1>7, <1>8, <1>9, <1>10 DEF Next

-----------------------------------------------------------------------------
(* The invariant survives each effect *)

\* When the first missing component of a path is i, nothing below it is a
\* directory or a closed file.
LEMMA NothingBelowMissing ==
  ASSUME TypeOK, HidesOrdered, Linked,
         NEW k \in Key, NEW i \in DOMAIN Path[k], FirstMissing(k, i)
  PROVE  \A o \in Shown : \A j \in i .. Len(Path[k]) : key[o] # Path[k][j]
<1> DEFINE S == {j \in i .. Len(Path[k]) : \E o \in Shown : key[o] = Path[k][j]}
<1>0. Len(Path[k]) \in Nat /\ i \in 1 .. Len(Path[k]) /\ DOMAIN Path[k] = 1 .. Len(Path[k])
  BY PathType
<1>1. SUFFICES ASSUME S # {} PROVE FALSE
  OBVIOUS
<1>2. S \in SUBSET Nat
  BY <1>0
<1>3. PICK m \in S : \A n \in S : m <= n
  <2> HIDE DEF S
  <2> QED BY <1>1, <1>2, LeastIndex
<1>4. PICK o \in Shown : key[o] = Path[k][m]
  BY <1>3
<1>5. o \in Lookup(Path[k][m])
  BY <1>4, ShownFound
<1>6. m \in Nat /\ m > i /\ m <= Len(Path[k]) /\ m \in DOMAIN Path[k]
  <2>1. m # i
    BY <1>5 DEF FirstMissing
  <2> QED BY <1>0, <1>3, <2>1
<1>7. key[o] # Root /\ ParentKey(key[o]) = Path[k][m - 1]
  <2>1. m > 1
    BY <1>0, <1>6
  <2>2. Path[k][m] # Root /\ ParentKey(Path[k][m]) = Path[k][m - 1]
    BY <1>6, <2>1, ParentOnPath
  <2> QED BY <1>4, <2>2
<1>8. link[o] \in Shown /\ key[link[o]] = ParentKey(key[o])
  BY <1>4, <1>7 DEF Linked
<1>9. m - 1 \in S
  BY <1>0, <1>6, <1>7, <1>8
<1> QED BY <1>3, <1>6, <1>9

\* The parent a handler looks up is the store whose list it changes; "/" is its
\* own parent, and hangs nowhere.
LEMMA ParentFound ==
  ASSUME TypeOK, HidesOrdered, Linked,
         NEW o \in Shown, NEW p \in Lookup(ParentKey(key[o]))
  PROVE  /\ key[o] = Root => p = o /\ link[o] = NoObj
         /\ key[o] # Root => p = link[o]
<1>1. CASE key[o] = Root
  <2>1. ParentKey(key[o]) = key[o]
    BY <1>1 DEF ParentKey
  <2>2. p = o
    BY <2>1, ShownFound
  <2> QED BY <1>1, <2>2 DEF Linked
<1>2. CASE key[o] # Root
  <2>1. link[o] \in Shown /\ key[link[o]] = ParentKey(key[o])
    BY <1>2 DEF Linked
  <2>2. Lookup(key[link[o]]) = {link[o]}
    BY <2>1, ShownFound
  <2> QED BY <1>2, <2>1, <2>2
<1> QED BY <1>1, <1>2

\* Since every count is right, clear_children removes whole children lists.
LEMMA RmrPrunes ==
  ASSUME TypeOK, TreeInv, NEW k \in Key, NEW o \in Lookup(k), NEW p \in Lookup(ParentKey(k)),
         NEW R \in SUBSET (used \ {o}), kind[o] = "dir", Cleared(o, R)
  PROVE  Prunes(o, R \cup {o}, {p})
<1> DEFINE F == R \cup {o}
<1>0. HidesOrdered /\ Linked /\ CountSound /\ used \subseteq Obj
  BY DEF TreeInv, TypeOK
<1>1. o \in Shown /\ key[o] = k /\ F \subseteq used /\ p \in used
  BY DEF Lookup, Shown
<1>2. ASSUME NEW x \in used, link[x] \in F PROVE x \in F
  <2>1. link[x] \in used /\ link[x] # NoObj
    BY <1>0, <1>1, <1>2, PoolAssumption
  <2>2. kind[link[x]] = "dir"
    BY <1>0, <2>1 DEF Linked
  <2>3. childrenNum[link[x]] = Cardinality(Kids(link[x]))
    BY <1>0, <2>1, <2>2 DEF CountSound
  <2>4. Cardinality(R \cap Kids(link[x])) = Cardinality(Kids(link[x]))
    BY <1>2, <2>2, <2>3, KidsFinite DEF Cleared
  <2>5. R \cap Kids(link[x]) \in SUBSET Kids(link[x])
    OBVIOUS
  <2>6. R \cap Kids(link[x]) = Kids(link[x])
    BY <2>4, <2>5, KidsFinite, FS_Subset
  <2>7. x \in Kids(link[x])
    BY <1>2 DEF Kids
  <2> QED BY <2>6, <2>7
<1>3. \A x \in F \ {o} : link[x] \in F
  BY DEF Cleared
<1>4. \A d \in used \ F : d \in {p} <=> d = link[o]
  BY <1>0, <1>1, ParentFound, PoolAssumption
<1> QED BY <1>1, <1>2, <1>3, <1>4 DEF Prunes

\* rm takes out a file, which has no children.
LEMMA RmPrunes ==
  ASSUME TypeOK, TreeInv, NEW k \in Key, NEW o \in Lookup(k), NEW p \in Lookup(ParentKey(k)),
         kind[o] = "file", RootInv
  PROVE  Prunes(o, {o}, {p})
<1>0. HidesOrdered /\ Linked /\ used \subseteq Obj
  BY DEF TreeInv, TypeOK
<1>1. o \in Shown /\ key[o] = k /\ o \in used /\ p \in used
  BY DEF Lookup, Shown
<1>2. \A x \in used : link[x] # o
  <2>1. \A x \in used : link[x] = NoObj \/ kind[link[x]] = "dir"
    BY <1>0 DEF Linked
  <2> QED BY <1>0, <1>1, <2>1, PoolAssumption
<1>3. key[o] # Root
  BY <1>1 DEF RootInv, RootStores
<1>4. p = link[o]
  BY <1>0, <1>1, <1>3, ParentFound
<1> QED BY <1>1, <1>2, <1>4 DEF Prunes

\* The create timer takes out an unclosed file, which is in no list.
LEMMA TimeoutPrunes ==
  ASSUME TypeOK, TreeInv, NEW o \in used, kind[o] = "creating"
  PROVE  Prunes(o, {o}, {})
<1>0. Linked /\ used \subseteq Obj
  BY DEF TreeInv, TypeOK
<1>1. link[o] = NoObj
  BY <1>0 DEF Linked, Shown
<1>2. \A x \in used : link[x] # o
  <2>1. \A x \in used : link[x] = NoObj \/ link[x] \in Shown
    BY <1>0 DEF Linked
  <2> QED BY <1>0, <2>1, PoolAssumption DEF Shown
<1> QED BY <1>0, <1>1, <1>2, PoolAssumption DEF Prunes

\* mkdir of component c makes the directory c under its parent.
LEMMA MkdirPlaces ==
  ASSUME TypeOK, TreeInv, NEW c \in Key, update_fi_mkdir(c),
         \A q \in Shown : key[q] # c
  PROVE  \E o, p : Places(o, c, "dir", p) /\ HidesOrdered'
<1>0. HidesOrdered
  BY DEF TreeInv
<1>1. PICK o \in Obj \ (used \cup timer) :
    /\ JoinStore(o, c, "dir")
    /\ \/ c = Root /\ LinkUnder(o, NoObj) /\ UNCHANGED childrenNum
       \/ /\ c # Root
          /\ \E p \in Lookup(ParentKey(c)) :
               /\ kind[p] = "dir"
               /\ childrenNum' = [childrenNum EXCEPT ![p] = (@ + 1) % Width]
               /\ LinkUnder(o, p)
  BY DEF update_fi_mkdir
<1>2. HidesOrdered'
  BY <1>0, <1>1, JoinHides
<1>3. /\ o \in Obj /\ o \notin Shown /\ o \notin used /\ used' = used \cup {o}
      /\ key'[o] = c /\ kind'[o] = "dir"
      /\ \A x \in Obj \ {o} : key'[x] = key[x] /\ kind'[x] = kind[x]
  BY <1>1 DEF JoinStore, TypeOK, Shown
<1>4. CASE c = Root
  <2>1. Places(o, c, "dir", NoObj)
    BY <1>1, <1>3, <1>4 DEF Places
  <2> QED BY <1>2, <2>1
<1>5. CASE c # Root
  <2>1. PICK p \in Lookup(ParentKey(c)) :
               /\ kind[p] = "dir"
               /\ childrenNum' = [childrenNum EXCEPT ![p] = (@ + 1) % Width]
               /\ LinkUnder(o, p)
    BY <1>1, <1>5
  <2>2. p \in Shown /\ key[p] = ParentKey(c)
    BY <2>1 DEF Lookup, Shown
  <2>3. Places(o, c, "dir", p)
    BY <1>3, <1>5, <2>1, <2>2 DEF Places
  <2> QED BY <1>2, <2>3
<1> QED BY <1>4, <1>5

\* close moves an unclosed file into its parent's list, under its own key.
LEMMA ClosePlaces ==
  ASSUME TypeOK, TreeInv, NEW k \in Key \ {Root}, NEW o \in Lookup(k),
         NEW p \in Lookup(ParentKey(k)), kind[o] = "creating", kind[p] = "dir",
         update_fi_close(o, p)
  PROVE  Places(o, k, "file", p) /\ HidesOrdered'
<1>0. HidesOrdered
  BY DEF TreeInv
<1>1. /\ o \in used /\ o \in Obj /\ key[o] = k /\ o \notin Shown
      /\ p \in Shown /\ key[p] = ParentKey(k)
  BY DEF Lookup, Shown, TypeOK
<1>2. /\ used' = used /\ key' = key /\ hidden' = hidden
      /\ kind' = [kind EXCEPT ![o] = "file"]
      /\ childrenNum' = [childrenNum EXCEPT ![p] = (@ + 1) % Width]
      /\ LinkUnder(o, p)
  BY DEF update_fi_close
<1>3. kind'[o] = "file" /\ \A x \in Obj \ {o} : kind'[x] = kind[x]
  BY <1>1, <1>2 DEF TypeOK
<1>4. Places(o, k, "file", p)
  BY <1>1, <1>2, <1>3 DEF Places
<1>5. Shown' \subseteq Shown \cup {o}
  BY <1>1, <1>2, <1>3 DEF Shown, TypeOK
<1>6. \A x \in used : x # o /\ key[x] = key[o] => x \in hidden[o]
  BY <1>0, <1>1 DEF Lookup, HidesOrdered
<1>7. HidesOrdered'
  BY <1>0, <1>2, <1>5, <1>6 DEF HidesOrdered
<1> QED BY <1>4, <1>7

LEMMA TreeStep ==
  ASSUME PoolInv, TypeOK', TreeInv, TreeEffect
  PROVE  TreeInv'
<1>0. /\ TypeOK /\ TimerInv /\ RootInv
      /\ HidesOrdered /\ Linked /\ FreeClean /\ LoopClear /\ CountSound
  BY DEF PoolInv, TypeInv, TreeInv
<1>1. ASSUME UNCHANGED tree, LoopClear' PROVE TreeInv'
  <2>1. UNCHANGED <<used, key, kind, hidden, link, childrenNum, queued>>
    BY <1>1 DEF tree
  <2>2. Shown' = Shown /\ \A d : Kids(d)' = Kids(d)
    BY <2>1 DEF Shown, Kids
  <2>3. HidesOrdered' /\ Linked' /\ FreeClean' /\ CountSound'
    BY <1>0, <2>1, <2>2 DEF HidesOrdered, Linked, FreeClean, CountSound
  <2> QED BY <1>1, <2>3 DEF TreeInv
<1>2. CASE UNCHANGED <<tree, mkPath, mkIdx>>
  <2>1. LoopClear'
    BY <1>0, <1>2 DEF LoopClear, Shown, tree
  <2> QED BY <1>1, <1>2, <2>1
<1>3. CASE StartsMissing
  <2>1. PICK k \in Key : \E i \in DOMAIN Path[k] :
          FirstMissing(k, i) /\ UNCHANGED tree /\ mkPath' = k /\ mkIdx' = i
    BY <1>3 DEF StartsMissing
  <2>2. PICK i \in DOMAIN Path[k] :
          FirstMissing(k, i) /\ UNCHANGED tree /\ mkPath' = k /\ mkIdx' = i
    BY <2>1
  <2>3. \A o \in Shown : \A j \in i .. Len(Path[k]) : key[o] # Path[k][j]
    BY <1>0, <2>2, NothingBelowMissing
  <2>4. LoopClear'
    BY <2>2, <2>3 DEF LoopClear, Shown, tree
  <2> QED BY <1>1, <2>2, <2>4
<1>c. ASSUME mkPath # NoKey
      PROVE  /\ mkPath \in Key /\ mkIdx \in 1 .. Len(Path[mkPath])
             /\ mkIdx \in DOMAIN Path[mkPath]
             /\ Path[mkPath][mkIdx] \in Key /\ Len(Path[mkPath]) \in Nat
  <2>1. mkPath \in Key /\ mkIdx \in DOMAIN Path[mkPath]
    BY <1>0, <1>c DEF TypeOK
  <2> QED BY <2>1, PathType, Prefix
<1>n. ASSUME mkPath # NoKey, NextComponent
      PROVE  mkPath' = NoKey \/ (mkPath' = mkPath /\ mkIdx' = mkIdx + 1)
  BY <1>n DEF NextComponent
<1>4. CASE MkdirSkips
  <2>1. mkPath # NoKey /\ NextComponent /\ UNCHANGED tree
    BY <1>4 DEF MkdirSkips
  <2>2. LoopClear'
    BY <1>0, <1>c, <1>n, <2>1 DEF LoopClear, Shown, tree
  <2> QED BY <1>1, <2>1, <2>2
<1>5. CASE MkdirMakes
  <2> DEFINE c == Path[mkPath][mkIdx]
  <2>1. mkPath # NoKey /\ NextComponent /\ update_fi_mkdir(c)
    BY <1>5 DEF MkdirMakes
  <2>2. c \in Key /\ \A q \in Shown : key[q] # c
    BY <1>0, <1>c, <2>1 DEF LoopClear
  <2>3. PICK o, p : Places(o, c, "dir", p) /\ HidesOrdered'
    BY <1>0, <2>1, <2>2, MkdirPlaces
  <2>4. Linked' /\ FreeClean' /\ CountSound'
    BY <1>0, <2>3, PlaceTree
  <2>5. LoopClear'
    <3>1. CASE mkPath' = NoKey
      BY <3>1 DEF LoopClear
    <3>2. CASE mkPath' = mkPath /\ mkIdx' = mkIdx + 1
      <4>1. /\ Shown' \subseteq Shown \cup {o} /\ key'[o] = c
            /\ \A x \in Shown' : x # o => x \in Shown /\ key'[x] = key[x]
        BY <1>0, <2>3 DEF Places, Shown, TypeOK
      <4>2. \A j \in (mkIdx + 1) .. Len(Path[mkPath]) :
              /\ j \in mkIdx .. Len(Path[mkPath])
              /\ Path[mkPath][j] # c
        <5>1. SUFFICES ASSUME NEW j \in (mkIdx + 1) .. Len(Path[mkPath])
              PROVE  j \in mkIdx .. Len(Path[mkPath]) /\ Path[mkPath][j] # c
          OBVIOUS
        <5>2. /\ j \in mkIdx .. Len(Path[mkPath]) /\ j # mkIdx
              /\ j \in 1 .. Len(Path[mkPath]) /\ Len(Path[mkPath]) > 1
          BY <1>c, <2>1
        <5>3. mkPath # Root /\ j \in DOMAIN Path[mkPath]
          BY <1>c, <2>1, <5>2, PathType
        <5>4. Path[mkPath][j] # Path[mkPath][mkIdx]
          BY <1>c, <2>1, <5>2, <5>3, PathAssumption
        <5> QED BY <5>2, <5>4
      <4>3. ASSUME NEW x \in Shown', NEW j \in mkIdx' .. Len(Path[mkPath'])
            PROVE  key'[x] # Path[mkPath'][j]
        <5>1. j \in mkIdx .. Len(Path[mkPath]) /\ Path[mkPath][j] # c
          BY <3>2, <4>2
        <5>2. CASE x = o
          BY <3>2, <4>1, <5>1, <5>2
        <5>3. CASE x # o
          BY <1>0, <2>1, <3>2, <4>1, <5>1, <5>3 DEF LoopClear
        <5> QED BY <5>2, <5>3
      <4> QED BY <4>3 DEF LoopClear
    <3> QED BY <1>n, <2>1, <3>1, <3>2
  <2> QED BY <2>3, <2>4, <2>5 DEF TreeInv
<1>6. CASE RmrFound
  <2>1. PICK k \in Key : \E o \in Lookup(k), p \in Lookup(ParentKey(k)) :
          \E R \in SUBSET (used \ {o}) :
            mkPath' = NoKey /\ kind[o] = "dir" /\ Cleared(o, R) /\ FreeStores(R \cup {o}, {p})
    BY <1>6 DEF RmrFound
  <2>2. PICK o \in Lookup(k), p \in Lookup(ParentKey(k)) :
          \E R \in SUBSET (used \ {o}) :
            mkPath' = NoKey /\ kind[o] = "dir" /\ Cleared(o, R) /\ FreeStores(R \cup {o}, {p})
    BY <2>1
  <2>3. PICK R \in SUBSET (used \ {o}) :
            mkPath' = NoKey /\ kind[o] = "dir" /\ Cleared(o, R) /\ FreeStores(R \cup {o}, {p})
    BY <2>2
  <2>4. Prunes(o, R \cup {o}, {p})
    BY <1>0, <2>3, RmrPrunes
  <2> QED BY <1>0, <2>3, <2>4, PruneTree
<1>7. CASE CreatesMissing
  <2>1. PICK k \in Key, b \in Blk : mkPath' = NoKey /\ Lookup(k) = {} /\ update_fi_create(k, b)
    BY <1>7 DEF CreatesMissing
  <2>2. PICK o \in Obj \ (used \cup timer) :
          JoinStore(o, k, "creating") /\ UNCHANGED <<link, childrenNum, queued>>
    BY <2>1 DEF update_fi_create
  <2>3. \A q \in Shown : key[q] # k
    BY <1>0, <2>1, ShownFound
  <2>4. HidesOrdered'
    BY <1>0, <2>2, <2>3, JoinHides
  <2>5. /\ used' = used \cup {o} /\ kind'[o] = "creating" /\ used \subseteq Obj /\ o \in Obj
        /\ queued \subseteq used /\ link[o] = NoObj
        /\ \A x \in used : key'[x] = key[x] /\ kind'[x] = kind[x]
    BY <1>0, <2>2 DEF JoinStore, TypeOK, FreeClean
  <2>6. Shown' = Shown
    BY <2>2, <2>5 DEF Shown
  <2>7. Linked'
    <3>1. \A x \in used' \ Shown' : link'[x] = NoObj /\ x \notin queued'
      BY <1>0, <2>2, <2>5, <2>6 DEF Linked
    <3>2. \A x \in Shown : x \in used
      BY DEF Shown
    <3> QED BY <1>0, <2>2, <2>5, <2>6, <3>1, <3>2 DEF Linked
  <2>8. FreeClean'
    BY <1>0, <2>2, <2>5 DEF FreeClean
  <2>9. CountSound'
    <3>1. \A d \in used : Kids(d)' = Kids(d)
      BY <2>2, <2>5, PoolAssumption DEF Kids
    <3> QED BY <1>0, <2>2, <2>5, <3>1 DEF CountSound
  <2>10. LoopClear'
    BY <2>1 DEF LoopClear
  <2> QED BY <2>4, <2>7, <2>8, <2>9, <2>10 DEF TreeInv
<1>8. CASE ClosesFound
  <2>1. PICK k \in Key : \E o \in Lookup(k), p \in Lookup(ParentKey(k)) :
          /\ mkPath' = NoKey /\ kind[o] = "creating" /\ kind[p] = "dir"
          /\ update_fi_close(o, p)
    BY <1>8 DEF ClosesFound
  <2>2. PICK o \in Lookup(k), p \in Lookup(ParentKey(k)) :
          /\ mkPath' = NoKey /\ kind[o] = "creating" /\ kind[p] = "dir"
          /\ update_fi_close(o, p)
    BY <2>1
  <2>3. k # Root
    BY <1>0, <2>2 DEF RootInv, RootStores, Lookup
  <2>4. Places(o, k, "file", p) /\ HidesOrdered'
    BY <1>0, <2>2, <2>3, ClosePlaces
  <2>5. Linked' /\ FreeClean' /\ CountSound'
    BY <1>0, <2>4, PlaceTree
  <2>6. LoopClear'
    BY <2>2 DEF LoopClear
  <2> QED BY <2>4, <2>5, <2>6 DEF TreeInv
<1>9. CASE RmFound
  <2>1. PICK k \in Key : \E o \in Lookup(k), p \in Lookup(ParentKey(k)) :
          mkPath' = NoKey /\ kind[o] = "file" /\ FreeStores({o}, {p})
    BY <1>9 DEF RmFound
  <2>2. PICK o \in Lookup(k), p \in Lookup(ParentKey(k)) :
          mkPath' = NoKey /\ kind[o] = "file" /\ FreeStores({o}, {p})
    BY <2>1
  <2>3. Prunes(o, {o}, {p})
    BY <1>0, <2>2, RmPrunes
  <2> QED BY <1>0, <2>2, <2>3, PruneTree
<1>10. CASE TimesOut
  <2>1. PICK o \in used \cap timer : FreeStores({o}, {}) /\ mkPath' = NoKey
    BY <1>10 DEF TimesOut, loop
  <2>2. kind[o] = "creating"
    BY <1>0, <2>1 DEF TimerInv
  <2>3. Prunes(o, {o}, {})
    BY <1>0, <2>2, TimeoutPrunes
  <2> QED BY <1>0, <2>1, <2>3, PruneTree
<1> QED BY <1>2, <1>3, <1>4, <1>5, <1>6, <1>7, <1>8, <1>9, <1>10 DEF TreeEffect

LEMMA TreeInit == Init => TreeInv
<1> SUFFICES ASSUME Init PROVE TreeInv
  OBVIOUS
<1>1. used = {} /\ Shown = {} /\ mkPath = NoKey
  BY DEF Init, Shown
<1>2. FreeClean
  BY DEF Init, FreeClean
<1>3. HidesOrdered /\ Linked /\ LoopClear /\ CountSound
  BY <1>1 DEF HidesOrdered, Linked, LoopClear, CountSound
<1> QED BY <1>2, <1>3 DEF TreeInv

LEMMA TreeInductive ==
  ASSUME RmUnclosed = FALSE
  PROVE  Spec => [](TypeOK /\ PoolInv /\ TreeInv)
<1>1. TypeOK /\ TypeOK' /\ PoolInv /\ TreeInv /\ [Next]_vars => TreeInv'
  <2>1. CASE TypeOK /\ TypeOK' /\ PoolInv /\ TreeInv /\ Next
    BY <2>1, StepTreeEffects, TreeStep
  <2>2. CASE TypeOK /\ TypeOK' /\ PoolInv /\ TreeInv /\ UNCHANGED vars
    <3>1. UNCHANGED <<tree, mkPath, mkIdx>>
      BY <2>2 DEF vars, loop
    <3> QED BY <2>2, <3>1, TreeStep DEF TreeEffect
  <2> QED BY <2>1, <2>2
<1> QED BY <1>1, TreeInit, TypeCorrect, PoolInductive, PTL DEF Spec

\* Every directory and every closed file is what its path looks up to and hangs
\* in the children list of the directory its parent path looks up to, whatever
\* mkdir, rmr, create, close, rm and create timeouts have done, an interrupted
\* mkdir -p included: nn_ls, nn_open and update_fi_rmr can reach it.
THEOREM TreeReachable ==
  ASSUME RmUnclosed = FALSE
  PROVE  Spec => []TreeSound
<1>1. TypeOK /\ TreeInv => TreeSound
  BY InvIsSound
<1> QED BY <1>1, TreeInductive, PTL

\* children_num is the length of the children list of every directory, so that
\* clear_children and nn_ls, which walk that many members, neither stop short
\* nor run over the list's head.
THEOREM CountsRight ==
  ASSUME RmUnclosed = FALSE
  PROVE  Spec => []CountSound
<1>1. TreeInv => CountSound
  BY DEF TreeInv
<1> QED BY <1>1, TreeInductive, PTL

-----------------------------------------------------------------------------
(* The index implements the abstract namespace *)

EntriesMatch ==
  /\ \A o \in Shown : key[o] \in Key /\ Entries[key[o]] = kind[o]
  /\ \A k \in Key : (\A o \in Shown : key[o] # k) => Entries[k] = "absent"

\* A path names the directory or closed file that has it as its key.
LEMMA EntriesAre == TypeOK /\ HidesOrdered => EntriesMatch
<1> SUFFICES ASSUME TypeOK, HidesOrdered PROVE EntriesMatch
  OBVIOUS
<1>1. ASSUME NEW o \in Shown PROVE key[o] \in Key /\ Entries[key[o]] = kind[o]
  <2>1. Lookup(key[o]) = {o} /\ key[o] \in Key /\ kind[o] # "creating"
    BY ShownFound DEF Shown, TypeOK
  <2>2. (CHOOSE x \in {o} : TRUE) = o
    OBVIOUS
  <2> QED BY <2>1, <2>2 DEF Entries
<1>2. ASSUME NEW k \in Key, \A o \in Shown : key[o] # k PROVE Entries[k] = "absent"
  <2>1. \A o \in Lookup(k) : kind[o] = "creating"
    BY <1>2 DEF Lookup, Shown
  <2> QED BY <2>1 DEF Entries
<1> QED BY <1>1, <1>2 DEF EntriesMatch

LEMMA EntriesAreNext == TypeOK' /\ HidesOrdered' => EntriesMatch'
<1>1. TypeOK /\ HidesOrdered => EntriesMatch
  BY EntriesAre
<1> QED BY <1>1, PTL

\* Unclosed files are no entries.
LEMMA EntriesStay ==
  ASSUME TypeOK, TypeOK', HidesOrdered, HidesOrdered', Shown' = Shown,
         \A o \in Shown : key'[o] = key[o] /\ kind'[o] = kind[o]
  PROVE  Entries' = Entries
<1>1. ASSUME NEW k \in Key PROVE Entries'[k] = Entries[k]
  <2>1. CASE \E o \in Shown : key[o] = k
    <3>1. PICK o \in Shown : key[o] = k
      BY <2>1
    <3>2. Entries[k] = kind[o]
      BY <3>1, EntriesAre DEF EntriesMatch
    <3>3. Entries'[key'[o]] = kind'[o]
      BY <3>1, EntriesAreNext DEF EntriesMatch
    <3> QED BY <3>1, <3>2, <3>3
  <2>2. CASE \A o \in Shown : key[o] # k
    <3>1. Entries[k] = "absent"
      BY <2>2, EntriesAre DEF EntriesMatch
    <3>2. Entries'[k] = "absent"
      BY <2>2, EntriesAreNext DEF EntriesMatch
    <3> QED BY <3>1, <3>2
  <2> QED BY <2>1, <2>2
<1>2. Entries = [k \in Key |-> Entries[k]] /\ Entries' = [k \in Key |-> Entries'[k]]
  BY DEF Entries
<1> QED BY <1>1, <1>2

\* A store put into the tree adds the entry of its path.
LEMMA PlaceAdds ==
  ASSUME TypeOK, TypeOK', HidesOrdered, HidesOrdered',
         NEW o, NEW k \in Key, NEW kd \in {"dir", "file"}, NEW p, Places(o, k, kd, p),
         k = Root => kd = "dir", \A q \in Shown : key[q] # k
  PROVE  NS!Add(k, kd)
<1>1. /\ Shown' = Shown \cup {o} /\ o \notin Shown /\ key'[o] = k /\ kind'[o] = kd
      /\ \A x \in Shown : key'[x] = key[x] /\ kind'[x] = kind[x]
  <2>1. /\ o \in Obj /\ o \notin Shown /\ used' = used \cup {o} /\ used \subseteq Obj
        /\ key'[o] = k /\ kind'[o] = kd /\ kd # "creating"
        /\ \A x \in used \ {o} : key'[x] = key[x] /\ kind'[x] = kind[x]
    BY DEF Places, TypeOK
  <2> QED BY <2>1 DEF Shown
<1>2. Entries[k] = "absent"
  BY EntriesAre DEF EntriesMatch
<1>3. k # Root => Entries[NS!Above(k)] = "dir"
  <2>1. SUFFICES ASSUME k # Root PROVE Entries[NS!Above(k)] = "dir"
    OBVIOUS
  <2>2. p \in Shown /\ kind[p] = "dir" /\ key[p] = ParentKey(k)
    BY <2>1 DEF Places
  <2>3. Entries[key[p]] = "dir"
    BY <2>2, EntriesAre DEF EntriesMatch
  <2> QED BY <2>2, <2>3 DEF ParentKey, NS!Above
<1>4. ASSUME NEW x \in Key PROVE Entries'[x] = IF x = k THEN kd ELSE Entries[x]
  <2>1. CASE x = k
    <3>1. Entries'[key'[o]] = kind'[o]
      BY <1>1, EntriesAreNext DEF EntriesMatch
    <3> QED BY <1>1, <2>1, <3>1
  <2>2. CASE x # k /\ \E q \in Shown : key[q] = x
    <3>1. PICK q \in Shown : key[q] = x
      BY <2>2
    <3>2. Entries[x] = kind[q]
      BY <3>1, EntriesAre DEF EntriesMatch
    <3>3. Entries'[key'[q]] = kind'[q]
      BY <1>1, <3>1, EntriesAreNext DEF EntriesMatch
    <3> QED BY <1>1, <2>2, <3>1, <3>2, <3>3
  <2>3. CASE x # k /\ \A q \in Shown : key[q] # x
    <3>1. Entries[x] = "absent"
      BY <2>3, EntriesAre DEF EntriesMatch
    <3>2. \A q \in Shown' : key'[q] # x
      BY <1>1, <2>3
    <3>3. Entries'[x] = "absent"
      BY <3>2, EntriesAreNext DEF EntriesMatch
    <3> QED BY <2>3, <3>1, <3>3
  <2> QED BY <2>1, <2>2, <2>3
<1>5. Entries' = [Entries EXCEPT ![k] = kd]
  <2>1. Entries' = [x \in Key |-> Entries'[x]]
    BY DEF Entries
  <2>2. Entries = [x \in Key |-> Entries[x]]
    BY DEF Entries
  <2>3. [Entries EXCEPT ![k] = kd] = [x \in Key |-> IF x = k THEN kd ELSE Entries[x]]
    BY <2>2
  <2> QED BY <1>4, <2>1, <2>3
<1> QED BY <1>2, <1>3, <1>5 DEF NS!Add

\* What is pruned with o is exactly what lies below o's path.
LEMMA PrunedIsBelow ==
  ASSUME TypeOK, HidesOrdered, Linked, NEW o \in Shown, NEW F, NEW P, Prunes(o, F, P),
         NEW x \in Shown
  PROVE  x \in F <=> \E j \in DOMAIN Path[key[x]] : Path[key[x]][j] = key[o]
<1> DEFINE K == key[x]
<1>0. /\ K \in Key /\ x \in used /\ F \subseteq used /\ used \subseteq Obj /\ o \in F
      /\ \A y \in used : key[y] \in Key
  BY DEF Shown, TypeOK, Prunes
<1>1. /\ Len(Path[K]) \in Nat /\ DOMAIN Path[K] = 1 .. Len(Path[K])
      /\ Len(Path[K]) \in 1 .. Len(Path[K]) /\ Path[K][Len(Path[K])] = K
  BY <1>0, PathType, ParentType
<1>2. ASSUME NEW y \in Shown, NEW m \in DOMAIN Path[K], m > 1, key[y] = Path[K][m]
      PROVE  /\ link[y] \in Shown /\ key[link[y]] = Path[K][m - 1]
             /\ m - 1 \in DOMAIN Path[K]
  <2>1. /\ Path[K][m] # Root /\ ParentKey(Path[K][m]) = Path[K][m - 1]
        /\ m - 1 \in DOMAIN Path[K]
    BY <1>0, <1>2, ParentOnPath
  <2> QED BY <1>2, <2>1 DEF Linked
<1> HIDE DEF K
<1>3. ASSUME x \in F PROVE \E j \in DOMAIN Path[K] : Path[K][j] = key[o]
  <2> DEFINE S == {j \in 1 .. Len(Path[K]) : \E y \in F : key[y] = Path[K][j]}
  <2>1. Len(Path[K]) \in S
    BY <1>1, <1>3 DEF K
  <2>2. S \in SUBSET Nat /\ S # {}
    BY <2>1
  <2>3. PICK m \in S : \A n \in S : m <= n
    <3> HIDE DEF S
    <3> QED BY <2>2, LeastIndex
  <2>4. PICK y \in F : key[y] = Path[K][m]
    BY <2>3
  <2>5. CASE y = o
    BY <1>1, <2>3, <2>4, <2>5
  <2>6. CASE y # o
    <3>1. link[y] \in F /\ link[y] # NoObj /\ y \in used
      BY <1>0, <2>4, <2>6, PoolAssumption DEF Prunes
    <3>2. y \in Shown /\ key[y] # Root
      BY <3>1 DEF Linked
    <3>3. m \in DOMAIN Path[K] /\ m \in Nat /\ m >= 1
      BY <1>1, <2>3
    <3>4. m # 1
      <4>1. Path[K][1] = Root
        BY <1>0, PathAssumption, PathType DEF K
      <4> QED BY <2>4, <3>2, <4>1
    <3>5. key[link[y]] = Path[K][m - 1] /\ m - 1 \in DOMAIN Path[K]
      <4>1. m > 1
        BY <3>3, <3>4
      <4> QED BY <1>2, <2>4, <3>2, <3>3, <4>1
    <3>6. m - 1 \in S
      BY <1>1, <3>1, <3>5
    <3> QED BY <2>3, <3>3, <3>6
  <2> QED BY <2>5, <2>6
<1>4. ASSUME NEW j \in DOMAIN Path[K], Path[K][j] = key[o], x \notin F PROVE FALSE
  <2> DEFINE T == {n \in j .. Len(Path[K]) : \E y \in Shown \ F : key[y] = Path[K][n]}
  <2>0. j \in 1 .. Len(Path[K])
    BY <1>1, <1>4
  <2>1. Len(Path[K]) \in T
    BY <1>1, <1>4, <2>0 DEF K
  <2>2. T \in SUBSET Nat /\ T # {}
    BY <2>0, <2>1
  <2>3. PICK m \in T : \A n \in T : m <= n
    <3> HIDE DEF T
    <3> QED BY <2>2, LeastIndex
  <2>4. PICK y \in Shown \ F : key[y] = Path[K][m]
    BY <2>3
  <2>5. m # j
    <3>1. SUFFICES ASSUME key[y] = key[o] PROVE FALSE
      BY <1>4, <2>4
    <3>2. Lookup(key[y]) = {y} /\ Lookup(key[o]) = {o}
      BY <2>4, ShownFound
    <3> QED BY <1>0, <2>4, <3>1, <3>2
  <2>6. m \in DOMAIN Path[K] /\ m > j /\ m \in Nat /\ m > 1
    BY <1>1, <2>0, <2>3, <2>5
  <2>7. link[y] \in Shown /\ key[link[y]] = Path[K][m - 1]
    BY <1>2, <2>4, <2>6
  <2>8. link[y] \notin F
    BY <2>4 DEF Prunes, Shown
  <2>9. m - 1 \in j .. Len(Path[K])
    BY <1>1, <2>0, <2>3, <2>6
  <2>10. m - 1 \in T
    BY <2>7, <2>8, <2>9
  <2> QED BY <2>3, <2>6, <2>10
<1> QED BY <1>3, <1>4 DEF K

\* rm and rmr remove the entry and all entries below it, and no other.
LEMMA PruneRemoves ==
  ASSUME TypeOK, TypeOK', TreeInv, TreeInv', NEW o \in Shown, NEW F, NEW P,
         Prunes(o, F, P), FreeStores(F, P)
  PROVE  NS!Remove(key[o])
<1>0. HidesOrdered /\ HidesOrdered' /\ Linked
  BY DEF TreeInv
<1>1. /\ Shown' = Shown \ F
      /\ \A x \in Shown' : x \in Shown /\ key'[x] = key[x] /\ kind'[x] = kind[x]
  BY DEF FreeStores, Prunes, TypeOK, Shown
<1>2. Entries[key[o]] # "absent"
  <2>1. kind[o] \in Kinds
    BY DEF Shown, TypeOK
  <2> QED BY <1>0, <2>1, EntriesAre DEF Kinds, EntriesMatch
<1>3. ASSUME NEW k \in Key
      PROVE  Entries'[k] = IF k \in NS!Below(key[o]) THEN "absent" ELSE Entries[k]
  <2>1. CASE \E x \in Shown : key[x] = k
    <3>1. PICK x \in Shown : key[x] = k
      BY <2>1
    <3>2. x \in F <=> k \in NS!Below(key[o])
      <4>1. x \in F <=> \E j \in DOMAIN Path[k] : Path[k][j] = key[o]
        BY <1>0, <3>1, PrunedIsBelow
      <4> QED BY <4>1 DEF NS!Below
    <3>3. CASE x \in F
      <4>1. \A y \in Shown : key[y] = k => y = x
        <5>1. \A y \in Shown : Lookup(key[y]) = {y}
          BY <1>0, ShownFound
        <5> QED BY <3>1, <5>1
      <4>2. \A y \in Shown' : key'[y] # k
        BY <1>1, <3>3, <4>1
      <4>3. Entries'[k] = "absent"
        BY <1>0, <4>2, EntriesAreNext DEF EntriesMatch
      <4> QED BY <3>2, <3>3, <4>3
    <3>4. CASE x \notin F
      <4>1. x \in Shown' /\ key'[x] = k /\ kind'[x] = kind[x]
        BY <1>1, <3>1, <3>4
      <4>2. Entries'[key'[x]] = kind'[x]
        BY <1>0, <4>1, EntriesAreNext DEF EntriesMatch
      <4>3. Entries[k] = kind[x]
        BY <1>0, <3>1, EntriesAre DEF EntriesMatch
      <4> QED BY <3>2, <3>4, <4>1, <4>2, <4>3
    <3> QED BY <3>3, <3>4
  <2>2. CASE \A x \in Shown : key[x] # k
    <3>1. Entries[k] = "absent"
      BY <1>0, <2>2, EntriesAre DEF EntriesMatch
    <3>2. \A x \in Shown' : key'[x] # k
      BY <1>1, <2>2
    <3>3. Entries'[k] = "absent"
      BY <1>0, <3>2, EntriesAreNext DEF EntriesMatch
    <3> QED BY <3>1, <3>3
  <2> QED BY <2>1, <2>2
<1>4. Entries' = [k \in Key |-> IF k \in NS!Below(key[o]) THEN "absent" ELSE Entries[k]]
  <2>1. Entries' = [k \in Key |-> Entries'[k]]
    BY DEF Entries
  <2> QED BY <1>3, <2>1
<1> QED BY <1>2, <1>4 DEF NS!Remove

LEMMA NamespaceStep ==
  ASSUME TypeOK, TypeOK', PoolInv, TreeInv, TreeInv', TreeEffect
  PROVE  [NS!Next]_Entries
<1>0. HidesOrdered /\ HidesOrdered' /\ Linked /\ LoopClear /\ TimerInv /\ RootInv
  BY DEF TreeInv, PoolInv
<1>r. ASSUME NEW o \in Shown, NEW F, NEW P, Prunes(o, F, P), FreeStores(F, P)
      PROVE  NS!Next
  <2>1. NS!Remove(key[o]) /\ key[o] \in Key
    BY <1>r, PruneRemoves DEF Shown, TypeOK
  <2> QED BY <2>1 DEF NS!Next
<1>1. CASE UNCHANGED tree
  <2>1. UNCHANGED <<used, key, kind>>
    BY <1>1 DEF tree
  <2>2. Shown' = Shown
    BY <2>1 DEF Shown
  <2> QED BY <1>0, <2>1, <2>2, EntriesStay
<1>2. CASE MkdirMakes
  <2> DEFINE c == Path[mkPath][mkIdx]
  <2>1. mkPath # NoKey /\ update_fi_mkdir(c)
    BY <1>2 DEF MkdirMakes
  <2>2. mkPath \in Key /\ mkIdx \in DOMAIN Path[mkPath]
    BY <2>1 DEF TypeOK
  <2>3. /\ c \in Key
        /\ mkIdx \in mkIdx .. Len(Path[mkPath])
    BY <2>2, PathType, Prefix
  <2>4. \A q \in Shown : key[q] # c
    BY <1>0, <2>1, <2>3 DEF LoopClear
  <2>5. PICK o, p : Places(o, c, "dir", p)
    BY <2>1, <2>3, <2>4, MkdirPlaces
  <2>6. NS!Add(c, "dir")
    BY <1>0, <2>3, <2>4, <2>5, PlaceAdds
  <2> QED BY <2>3, <2>6 DEF NS!Next
<1>3. CASE RmrFound
  <2>1. PICK k \in Key : \E o \in Lookup(k), p \in Lookup(ParentKey(k)) :
          \E R \in SUBSET (used \ {o}) :
            kind[o] = "dir" /\ Cleared(o, R) /\ FreeStores(R \cup {o}, {p})
    BY <1>3 DEF RmrFound
  <2>2. PICK o \in Lookup(k), p \in Lookup(ParentKey(k)) :
          \E R \in SUBSET (used \ {o}) :
            kind[o] = "dir" /\ Cleared(o, R) /\ FreeStores(R \cup {o}, {p})
    BY <2>1
  <2>3. PICK R \in SUBSET (used \ {o}) :
            kind[o] = "dir" /\ Cleared(o, R) /\ FreeStores(R \cup {o}, {p})
    BY <2>2
  <2>4. Prunes(o, R \cup {o}, {p})
    BY <2>3, RmrPrunes
  <2>5. o \in Shown
    BY <2>3 DEF Lookup, Shown
  <2> QED BY <1>r, <2>3, <2>4, <2>5
<1>4. CASE CreatesMissing
  <2>1. PICK k \in Key, b \in Blk : update_fi_create(k, b)
    BY <1>4 DEF CreatesMissing
  <2>2. PICK o \in Obj \ (used \cup timer) : JoinStore(o, k, "creating")
    BY <2>1 DEF update_fi_create
  <2>3. /\ used' = used \cup {o} /\ kind'[o] = "creating" /\ o \notin used
        /\ \A x \in used : key'[x] = key[x] /\ kind'[x] = kind[x]
    BY <2>2 DEF JoinStore, TypeOK
  <2>4. Shown' = Shown
    BY <2>3 DEF Shown
  <2>5. \A x \in Shown : key'[x] = key[x] /\ kind'[x] = kind[x]
    BY <2>3 DEF Shown
  <2> QED BY <1>0, <2>4, <2>5, EntriesStay
<1>5. CASE ClosesFound
  <2>1. PICK k \in Key : \E o \in Lookup(k), p \in Lookup(ParentKey(k)) :
          kind[o] = "creating" /\ kind[p] = "dir" /\ update_fi_close(o, p)
    BY <1>5 DEF ClosesFound
  <2>2. PICK o \in Lookup(k), p \in Lookup(ParentKey(k)) :
          kind[o] = "creating" /\ kind[p] = "dir" /\ update_fi_close(o, p)
    BY <2>1
  <2>3. k # Root
    BY <1>0, <2>2 DEF RootInv, RootStores, Lookup
  <2>4. Places(o, k, "file", p)
    BY <2>2, <2>3, ClosePlaces
  <2>5. \A q \in Shown : key[q] # k
    <3>1. \A q \in Shown : Lookup(key[q]) = {q}
      BY <1>0, ShownFound
    <3> QED BY <2>2, <3>1 DEF Shown
  <2>6. NS!Add(k, "file")
    BY <1>0, <2>3, <2>4, <2>5, PlaceAdds
  <2> QED BY <2>6 DEF NS!Next
<1>6. CASE RmFound
  <2>1. PICK k \in Key : \E o \in Lookup(k), p \in Lookup(ParentKey(k)) :
          kind[o] = "file" /\ FreeStores({o}, {p})
    BY <1>6 DEF RmFound
  <2>2. PICK o \in Lookup(k), p \in Lookup(ParentKey(k)) :
          kind[o] = "file" /\ FreeStores({o}, {p})
    BY <2>1
  <2>3. Prunes(o, {o}, {p})
    BY <1>0, <2>2, RmPrunes
  <2>4. o \in Shown
    BY <2>2 DEF Lookup, Shown
  <2> QED BY <1>r, <2>2, <2>3, <2>4
<1>7. CASE TimesOut
  <2>1. PICK o \in used \cap timer : FreeStores({o}, {})
    BY <1>7 DEF TimesOut
  <2>2. kind[o] = "creating"
    BY <1>0, <2>1 DEF TimerInv
  <2>3. /\ used' = used \ {o} /\ key' = key /\ used \subseteq Obj
        /\ \A x \in used \ {o} : kind'[x] = kind[x]
    BY <2>1 DEF FreeStores, TypeOK
  <2>4. Shown' = Shown
    BY <2>2, <2>3 DEF Shown
  <2>5. \A x \in Shown : key'[x] = key[x] /\ kind'[x] = kind[x]
    BY <2>2, <2>3 DEF Shown
  <2> QED BY <1>0, <2>4, <2>5, EntriesStay
<1> QED BY <1>1, <1>2, <1>3, <1>4, <1>5, <1>6, <1>7
        DEF TreeEffect, StartsMissing, MkdirSkips

\* The file index implements the abstract namespace, for every set of paths and
\* every pool: each step of a handler leaves the entries alone, adds one under a
\* directory that is there (update_fi_mkdir, update_fi_close), or removes one
\* with everything below it and nothing else (update_fi_rm, update_fi_rmr).
THEOREM IndexImplementsNamespace ==
  ASSUME RmUnclosed = FALSE
  PROVE  Spec => NamespaceSpec
<1>1. Init => NS!Init
  <2>1. SUFFICES ASSUME Init PROVE NS!Init
    OBVIOUS
  <2>2. used = {}
    BY <2>1 DEF Init
  <2>3. \A k : Lookup(k) = {}
    BY <2>2 DEF Lookup
  <2> QED BY <2>3 DEF NS!Init, Entries
<1>2. /\ TypeOK /\ PoolInv /\ TreeInv /\ TypeOK' /\ TreeInv'
      /\ [Next]_vars
      => [NS!Next]_Entries
  <2>1. SUFFICES ASSUME TypeOK, PoolInv, TreeInv, TypeOK', TreeInv', [Next]_vars
        PROVE  [NS!Next]_Entries
    OBVIOUS
  <2>2. TreeEffect
    <3>1. CASE Next
      BY <2>1, <3>1, StepTreeEffects
    <3>2. CASE UNCHANGED vars
      BY <3>2 DEF vars, loop, TreeEffect
    <3> QED BY <2>1, <3>1, <3>2
  <2> QED BY <2>1, <2>2, NamespaceStep
<1> QED BY <1>1, <1>2, TreeInductive, PTL DEF Spec, NamespaceSpec, NS!Spec
=============================================================================
