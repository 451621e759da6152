----------------------------- MODULE FileIndex -----------------------------
(***************************************************************************)
(* The in-memory file index of one namenode and the paxos thread that      *)
(* serves it: the request handlers log_* (namenode/nn_paxos.c), the state  *)
(* machine operations update_fi_* they trigger through the editlog, the    *)
(* create timer, and the readers nn_ls and nn_open                         *)
(* (namenode/nn_file_index.c).                                             *)
(*                                                                         *)
(* The node is the paxos master and the only proposer, so a Propose either *)
(* fails without effect or executes its operation before it returns.       *)
(* Handlers ignore the result of Propose.  What the other replicas do with *)
(* the same editlog, and checkpoints, are outside this module.             *)
(*                                                                         *)
(* A fi_store_t block is a member of Obj, the pool behind mem_get0.  The   *)
(* doubly linked lists of the code are kept as membership and order:       *)
(*   link[o]    the block in whose children list o.me stands,              *)
(*   queued     the members of g_checkpoint_q,                             *)
(*   ahead[o]   the members of g_checkpoint_q in front of o,               *)
(*   hidden[o]  the stores of o's key that o was joined in front of in its *)
(*              hash bucket (dfs_hashtable_join inserts at the head and    *)
(*              never looks for the key).                                  *)
(* A NULL or wild pointer that is followed ends the process: up = FALSE.   *)
(***************************************************************************)
EXTENDS Integers, Sequences, FiniteSets

CONSTANTS
  Key,          \* the paths clients name (the code keys them by base64 of the path)
  Root,         \* "/"
  Path,         \* Path[k]: the keys of k's ancestors from "/" down to k itself
  Obj,          \* the fi_store_t blocks of the pool
  Blk,          \* block ids
  IndexNum,     \* server.index_num: the limit on file system objects
  BlkLimit,     \* BLK_LIMIT, the slots of fi_inode_t.blks
  Width,        \* children_num is an unsigned counter modulo Width (2^64)
  MaxEntries,   \* bound of the model: entries of one id in blk_htable
  RmUnclosed,   \* do clients remove files that are still being created?
  NoObj, Dangling, NoKey

ParentKey(k) == IF k = Root THEN Root ELSE Path[k][Len(Path[k]) - 1]

ASSUME PathAssumption ==
  /\ Root \in Key /\ NoKey \notin Key
  /\ Path \in [Key -> Seq(Key)]
  /\ Path[Root] = <<Root>>
  /\ \A k \in Key \ {Root} :
        /\ Len(Path[k]) > 1
        /\ Path[k] = Append(Path[ParentKey(k)], k)
        /\ Path[k][1] = Root
        /\ \A i, j \in DOMAIN Path[k] : Path[k][i] = Path[k][j] => i = j

ASSUME PoolAssumption ==
  /\ IsFiniteSet(Obj)
  /\ IndexNum \in Nat /\ IndexNum > 0 /\ IndexNum <= Cardinality(Obj)
  /\ Width \in Nat /\ Width > Cardinality(Obj)
  /\ NoObj \notin Obj /\ Dangling \notin Obj /\ NoObj # Dangling
  /\ BlkLimit \in Nat /\ BlkLimit > 0
  /\ MaxEntries \in Nat
  /\ RmUnclosed \in BOOLEAN

Kinds == {"dir", "file", "creating"}   \* is_directory and KEY_STATE_* together

Codes == {"none", "SUCC", "FAIL", "MASTER_REDIRECT", "KEY_EXIST",
          "KEY_NOTEXIST", "KEY_STATE_CREATING", "NOT_DIRECTORY", "NOT_FILE",
          "NOT_DATANODE", "PERMISSION_DENY", "FSOBJECT_EXCEED"}

VARIABLES
  used,         \* blocks handed out by mem_get0 and not yet put back
  key, kind, blks,      \* fi_inode_t of a block; a free block keeps its bytes
  hidden, link, childrenNum, queued, ahead,
  timer,        \* blocks whose create timer is armed
  objNum,       \* g_fs_object_num
  mkPath, mkIdx, mkRead,  \* the loop of log_mkdir: path, component, finodes[] consulted
  blkIndex,     \* blkIndex[b]: the entries of b in blk_htable (a join never looks for the id)
  ret,          \* task->ret of the last request answered
  up

tree == <<used, key, kind, hidden, link, childrenNum, queued, ahead>>
loop == <<mkPath, mkIdx, mkRead>>
vars == <<tree, blks, timer, objNum, loop, blkIndex, ret, up>>

-----------------------------------------------------------------------------
(* Lookups *)

\* dfs_hashtable_lookup: the store of k joined last, as a set of at most one.
Lookup(k) ==
  {o \in used : key[o] = k /\ \A p \in used : key[p] = k => o \notin hidden[p]}

Kids(d) == {o \in used : link[o] = d}

\* get_path_inodes: component i of k's path is the first that is not in the
\* index (parent_index is the component before it).
FirstMissing(k, i) ==
  /\ Lookup(Path[k][i]) = {}
  /\ \A j \in 1 .. (i - 1) : Lookup(Path[k][j]) # {}

\* Some freed block still holds the bytes of key c or of a path below it: what
\* the uninitialised finodes[] entry of a missing component may point at.
Stale(c) == \E o \in Obj \ used :
              key[o] \in Key /\ \E i \in DOMAIN Path[key[o]] : Path[key[o]][i] = c

\* Where component i is the first missing one: the deepest ancestor of k in the
\* index (finodes[parent_index]) is below "/" and is a directory, or is not one.
AboveIs(k, i, isdir) ==
  i > 2 /\ \E p \in Lookup(Path[k][i - 1]) : (kind[p] = "dir") = isdir

\* Mutant: the objects about to be added are not counted.
is_FsObjectExceed_Now(n) == objNum >= IndexNum

is_FsObjectExceed(n) == objNum + n >= IndexNum

\* A block id of generate_uid: not in use anywhere.
FreshBlk == {b \in Blk : blkIndex[b] = 0 /\
                \A o \in used : \A i \in DOMAIN blks[o] : blks[o][i] # b}

-----------------------------------------------------------------------------
(* Pieces of handlers *)

Ready == up /\ mkPath = NoKey     \* the paxos thread is between two tasks

\* write_back with this code and no other effect.
Answer(code) ==
  /\ ret' = code
  /\ UNCHANGED <<tree, blks, timer, objNum, loop, blkIndex, up>>

\* The process dies: NULL or wild pointer.
Crash ==
  /\ up' = FALSE
  /\ UNCHANGED <<tree, blks, timer, objNum, loop, blkIndex, ret>>

\* mem_get0 and dfs_hashtable_join: block o becomes the store of k.
JoinStore(o, k, kd) ==
  /\ used' = used \cup {o}
  /\ key' = [key EXCEPT ![o] = k]
  /\ kind' = [kind EXCEPT ![o] = kd]
  /\ hidden' = [hidden EXCEPT ![o] = {p \in used : key[p] = k}]

\* mem_get0 finds no block, or one whose old create timer is still in the
\* timer tree and is wiped by the memset.
AllocCrash == (used = Obj \/ timer \ used # {}) /\ Crash

\* Mutant: the queue_remove of ckp is forgotten.
FreeStores_KeepCkp(R, P) ==
  /\ used' = used \ R
  /\ hidden' = [o \in Obj |-> IF o \in R THEN {} ELSE hidden[o] \ R]
  /\ link' = [o \in Obj |-> IF o \in R THEN NoObj
                             ELSE IF link[o] \in R THEN Dangling ELSE link[o]]
  /\ childrenNum' = [o \in Obj |-> IF o \in R THEN 0
                                    ELSE IF o \in P THEN (childrenNum[o] - 1) % Width
                                                    ELSE childrenNum[o]]
  /\ kind' = [o \in Obj |-> IF o \in R THEN "dir" ELSE kind[o]]
  /\ blks' = [o \in Obj |-> IF o \in R THEN <<>> ELSE blks[o]]
  /\ UNCHANGED <<key, queued, ahead>>

\* dfs_hashtable_remove_link, queue_remove of me and ckp, and mem_put, for all
\* of R; the counts of the stores in P lose one.  Of a freed block only the key
\* bytes are ever looked at again, so its other fields are cleared here instead
\* of in mem_get0.
FreeStores(R, P) ==
  /\ used' = used \ R
  /\ hidden' = [o \in Obj |-> IF o \in R THEN {} ELSE hidden[o] \ R]
  /\ link' = [o \in Obj |-> IF o \in R THEN NoObj
                             ELSE IF link[o] \in R THEN Dangling ELSE link[o]]
  /\ childrenNum' = [o \in Obj |-> IF o \in R THEN 0
                                    ELSE IF o \in P THEN (childrenNum[o] - 1) % Width
                                                    ELSE childrenNum[o]]
  /\ kind' = [o \in Obj |-> IF o \in R THEN "dir" ELSE kind[o]]
  /\ blks' = [o \in Obj |-> IF o \in R THEN <<>> ELSE blks[o]]
  /\ queued' = queued \ R
  /\ ahead' = [o \in Obj |-> IF o \in R THEN {} ELSE ahead[o] \ R]
  /\ UNCHANGED key

\* Mutant: queue_insert_head instead of queue_insert_tail into g_checkpoint_q.
LinkUnder_Head(o, p) ==
  /\ link' = [link EXCEPT ![o] = p]
  /\ queued' = queued \cup {o}
  /\ ahead' = [x \in Obj |-> IF x = o THEN {}
                              ELSE IF x \in queued THEN ahead[x] \cup {o} ELSE {}]

\* Mutant: the store never enters g_checkpoint_q.
LinkUnder_NoCkp(o, p) ==
  /\ link' = [link EXCEPT ![o] = p]
  /\ UNCHANGED <<queued, ahead>>

\* Insert o at the tail of p's children and of g_checkpoint_q.
LinkUnder(o, p) ==
  /\ link' = [link EXCEPT ![o] = p]
  /\ queued' = queued \cup {o}
  /\ ahead' = [ahead EXCEPT ![o] = queued]

BlksOf(R) == UNION {{blks[o][i] : i \in DOMAIN blks[o]} : o \in R}

\* block_object_del of every id in B: one entry goes, if there is one.
block_object_del(B) ==
  blkIndex' = [b \in Blk |-> IF b \in B /\ blkIndex[b] > 0
                               THEN blkIndex[b] - 1 ELSE blkIndex[b]]

-----------------------------------------------------------------------------
(* NN_MKDIR *)

\* The loop of log_mkdir has dealt with component mkIdx.
NextComponent ==
  IF mkIdx = Len(Path[mkPath])
    THEN mkPath' = NoKey /\ mkIdx' = 0 /\ mkRead' = FALSE /\ ret' = "SUCC"
    ELSE mkIdx' = mkIdx + 1 /\ UNCHANGED <<mkPath, mkRead, ret>>

\* update_fi_mkdir
update_fi_mkdir(k) ==
  \E o \in Obj \ (used \cup timer) :
    /\ JoinStore(o, k, "dir")
    /\ \/ /\ k = Root
          /\ LinkUnder(o, NoObj)
          /\ UNCHANGED childrenNum
       \/ /\ k # Root
          /\ \E p \in Lookup(ParentKey(k)) :
               /\ kind[p] = "dir"
               /\ childrenNum' = [childrenNum EXCEPT ![p] = (@ + 1) % Width]
               /\ LinkUnder(o, p)
    /\ objNum' = objNum + 1
    /\ UNCHANGED blks

\* fparent is NULL, or a file, whose children list is never initialised.
NoParentDir(k) == k # Root /\ \A p \in Lookup(ParentKey(k)) : kind[p] # "dir"

StartMkdir(k, i, read) ==
  /\ mkPath' = k /\ mkIdx' = i /\ mkRead' = read
  /\ UNCHANGED <<tree, blks, timer, objNum, blkIndex, ret, up>>

log_mkdir(k) ==
  /\ Ready
  /\ \/ Answer("MASTER_REDIRECT")
     \/ Lookup(k) # {} /\ Answer("KEY_EXIST")
     \/ Lookup(k) = {} /\ k = Root /\ StartMkdir(k, 1, FALSE)
     \/ /\ k # Root /\ Lookup(k) = {}
        /\ \E i \in DOMAIN Path[k] :
             /\ FirstMissing(k, i)
             /\ \/ AboveIs(k, i, FALSE) /\ Answer("NOT_DIRECTORY")
                \/ /\ ~AboveIs(k, i, FALSE)
                   /\ \/ Answer("PERMISSION_DENY")
                      \/ i > 1 /\ Crash  \* check_traverse reads finodes[] past parent_index
                      \/ /\ is_FsObjectExceed(Len(Path[k]) - i + 1)
                         /\ Answer("FSOBJECT_EXCEED")
                      \/ /\ ~is_FsObjectExceed(Len(Path[k]) - i + 1)
                         /\ StartMkdir(k, i, i > 1)

\* One turn of the loop: component c is proposed, unless the uninitialised
\* finodes[] entry happens to hold its key; or that entry is a wild pointer.
log_mkdir_component ==
  LET c == Path[mkPath][mkIdx] IN
  /\ up /\ mkPath # NoKey
  /\ \/ /\ mkRead /\ Stale(c)
        /\ NextComponent
        /\ UNCHANGED <<tree, blks, timer, objNum, blkIndex, up>>
     \/ mkRead /\ Crash
     \/ /\ NextComponent          \* Propose fails
        /\ UNCHANGED <<tree, blks, timer, objNum, blkIndex, up>>
     \/ /\ update_fi_mkdir(c)
        /\ NextComponent
        /\ UNCHANGED <<timer, blkIndex, up>>
     \/ AllocCrash
     \/ NoParentDir(c) /\ Crash

-----------------------------------------------------------------------------
(* NN_RMR *)

\* Mutant: clear_children does not descend.
Cleared_Shallow(o, R) == R = Kids(o)

\* clear_children run on directory o removes the stores R: the first
\* children_num members of every children list it walks.
Cleared(o, R) ==
  /\ \A r \in R : link[r] \in R \cup {o}
  /\ \A d \in R \cup {o} :
       kind[d] = "dir" =>
         Cardinality(R \cap Kids(d)) =
           IF childrenNum[d] <= Cardinality(Kids(d)) THEN childrenNum[d]
                                                     ELSE Cardinality(Kids(d))

\* children_num exceeds the length of the list: the walk runs over its head.
Overrun(D) == \E d \in D : kind[d] = "dir" /\ childrenNum[d] > Cardinality(Kids(d))

\* Mutant: rmr frees the stores and leaves their blocks in the index.
update_fi_rmr_KeepBlks(o, p, R) ==
  /\ FreeStores(R \cup {o}, {p})
  /\ objNum' = objNum - (Cardinality(R) + 1)
  /\ ret' = "SUCC"
  /\ UNCHANGED <<timer, loop, blkIndex, up>>

\* Mutant: sub_FsObjectNum for the directory only.
update_fi_rmr_SubOne(o, p, R) ==
  /\ FreeStores(R \cup {o}, {p})
  /\ objNum' = objNum - 1
  /\ block_object_del(BlksOf(R))
  /\ ret' = "SUCC"
  /\ UNCHANGED <<timer, loop, up>>

update_fi_rmr(o, p, R) ==
  /\ FreeStores(R \cup {o}, {p})
  /\ objNum' = objNum - (Cardinality(R) + 1)
  /\ block_object_del(BlksOf(R))
  /\ ret' = "SUCC"
  /\ UNCHANGED <<timer, loop, up>>

log_rmr(k) ==
  /\ Ready
  /\ \/ Answer("MASTER_REDIRECT")
     \/ Lookup(k) = {} /\ Answer("KEY_NOTEXIST")
     \/ \E o \in Lookup(k) :
          \/ kind[o] # "dir" /\ Answer("NOT_DIRECTORY")
          \/ /\ kind[o] = "dir"
             /\ \/ Answer("PERMISSION_DENY")
                \/ Answer("SUCC")                              \* Propose fails
                \/ Lookup(ParentKey(k)) = {} /\ Crash
                \/ link[o] = Dangling /\ Crash
                \/ \E p \in Lookup(ParentKey(k)) :
                     \E R \in SUBSET (used \ {o}) :
                       /\ Cleared(o, R)
                       /\ \/ Overrun(R \cup {o}) /\ Crash
                          \/ ~Overrun(R \cup {o}) /\ update_fi_rmr(o, p, R)

-----------------------------------------------------------------------------
(* NN_CREATE, NN_GET_ADDITIONAL_BLK, NN_CLOSE, NN_RM *)

update_fi_create(k, b) ==
  \E o \in Obj \ (used \cup timer) :
    /\ JoinStore(o, k, "creating")
    /\ blks' = [blks EXCEPT ![o] = <<b>>]
    /\ timer' = timer \cup {o}
    /\ objNum' = objNum + 1
    /\ ret' = "SUCC"
    /\ UNCHANGED <<link, childrenNum, queued, ahead, loop, blkIndex, up>>

log_create(k) ==
  /\ Ready
  /\ \/ Answer("MASTER_REDIRECT")
     \/ \E o \in Lookup(k) :
          Answer(IF kind[o] = "creating" THEN "KEY_STATE_CREATING" ELSE "KEY_EXIST")
     \/ /\ Lookup(k) = {}
        /\ \E i \in DOMAIN Path[k] :
             /\ FirstMissing(k, i)
             /\ \/ ~AboveIs(k, i, TRUE) /\ Answer("NOT_DIRECTORY")
                \/ /\ AboveIs(k, i, TRUE)
                   /\ \/ Answer("PERMISSION_DENY")
                      \/ Crash           \* check_traverse reads finodes[] past parent_index
                      \/ is_FsObjectExceed(1) /\ Answer("FSOBJECT_EXCEED")
                      \/ /\ ~is_FsObjectExceed(1)
                         /\ \/ Answer("NOT_DATANODE")                     \* generate_dns
                            \/ Answer("SUCC")                             \* Propose fails
                            \/ \E b \in FreshBlk : update_fi_create(k, b)
                            \/ AllocCrash

\* The slots are full: the id is handed out and recorded nowhere.
update_fi_get_additional_blk(o, b) ==
  /\ blks' = IF Len(blks[o]) < BlkLimit
               THEN [blks EXCEPT ![o] = Append(@, b)] ELSE blks
  /\ ret' = "SUCC"
  /\ UNCHANGED <<tree, timer, objNum, loop, blkIndex, up>>

log_get_additional_blk(k) ==
  /\ Ready
  /\ \/ Answer("MASTER_REDIRECT")
     \/ \E o \in Lookup(k) : kind[o] # "creating" /\ Answer("FAIL")
     \/ /\ \A o \in Lookup(k) : kind[o] = "creating"
        /\ \/ Answer("NOT_DATANODE")
           \/ Answer("SUCC")                                   \* Propose fails
           \/ Lookup(k) = {} /\ Crash
           \/ \E o \in Lookup(k), b \in FreshBlk : update_fi_get_additional_blk(o, b)

update_fi_close(o, p) ==
  /\ timer' = timer \ {o}
  /\ kind' = [kind EXCEPT ![o] = "file"]
  /\ childrenNum' = [childrenNum EXCEPT ![p] = (@ + 1) % Width]
  /\ LinkUnder(o, p)
  /\ ret' = "SUCC"
  /\ UNCHANGED <<used, key, hidden, blks, objNum, loop, blkIndex, up>>

log_close(k) ==
  /\ Ready
  /\ \/ \E o \in Lookup(k) : kind[o] # "creating" /\ Answer("FAIL")
     \/ /\ \A o \in Lookup(k) : kind[o] = "creating"
        /\ \/ Answer("SUCC")                                   \* Propose fails
           \/ (Lookup(k) = {} \/ NoParentDir(k)) /\ Crash
           \/ \E o \in Lookup(k), p \in Lookup(ParentKey(k)) :
                kind[p] = "dir" /\ update_fi_close(o, p)

\* Mutant: the parent's children_num is not decremented.
update_fi_rm_NoCount(o, p) ==
  /\ FreeStores({o}, {})
  /\ objNum' = objNum - 1
  /\ block_object_del(BlksOf({o}))
  /\ ret' = "SUCC"
  /\ UNCHANGED <<timer, loop, up>>

update_fi_rm(o, p) ==
  /\ FreeStores({o}, {p})
  /\ objNum' = objNum - 1
  /\ block_object_del(BlksOf({o}))
  /\ ret' = "SUCC"
  /\ UNCHANGED <<timer, loop, up>>

log_rm(k) ==
  /\ Ready
  /\ \/ Answer("MASTER_REDIRECT")
     \/ Lookup(k) = {} /\ Answer("KEY_NOTEXIST")
     \/ \E o \in Lookup(k) :
          \/ kind[o] = "dir" /\ Answer("NOT_FILE")
          \/ /\ kind[o] # "dir"
             /\ kind[o] = "file" \/ RmUnclosed
             /\ \/ Answer("PERMISSION_DENY")
                \/ Answer("SUCC")                              \* Propose fails
                \/ (Lookup(ParentKey(k)) = {} \/ link[o] = Dangling) /\ Crash
                \/ \E p \in Lookup(ParentKey(k)) : update_fi_rm(o, p)

\* The create timer of o fires in the paxos thread.  On a block that was put
\* back while its timer was armed, mem_put runs a second time.
fi_create_timeout(o) ==
  /\ Ready /\ o \in timer
  /\ \/ o \notin used /\ Crash
     \/ /\ o \in used
        /\ FreeStores({o}, {})
        /\ timer' = timer \ {o}
        /\ UNCHANGED <<objNum, loop, blkIndex, ret, up>>

-----------------------------------------------------------------------------
(* Readers on the task threads, and block reports *)

nn_ls(k) ==
  /\ up
  /\ \/ Lookup(k) = {} /\ Answer("KEY_NOTEXIST")
     \/ \E o \in Lookup(k) :
          \/ Answer("PERMISSION_DENY")
          \/ Overrun({o}) /\ Crash
          \/ ~Overrun({o}) /\ Answer("SUCC")

\* The block of blks[0] is dereferenced without a check.
nn_open(k) ==
  /\ up
  /\ \/ Lookup(k) = {} /\ Answer("KEY_NOTEXIST")
     \/ \E o \in Lookup(k) :
          \/ kind[o] = "creating" /\ Answer("KEY_STATE_CREATING")
          \/ kind[o] = "dir" /\ Answer("NOT_FILE")
          \/ /\ kind[o] = "file"
             /\ \/ Answer("PERMISSION_DENY")
                \/ blkIndex[blks[o][1]] = 0 /\ Crash
                \/ blkIndex[blks[o][1]] > 0 /\ Answer("SUCC")

\* add_block, for a block some datanode reports: nn_dn_recv_blk_report joins an
\* entry even if the id has one.
add_block(b) ==
  /\ up
  /\ blkIndex[b] < MaxEntries
  /\ blkIndex' = [blkIndex EXCEPT ![b] = @ + 1]
  /\ UNCHANGED <<tree, blks, timer, objNum, loop, ret, up>>

-----------------------------------------------------------------------------
Init ==
  /\ used = {} /\ queued = {} /\ timer = {}
  /\ blkIndex = [b \in Blk |-> 0]
  /\ key = [o \in Obj |-> NoKey]
  /\ kind = [o \in Obj |-> "dir"]
  /\ blks = [o \in Obj |-> <<>>]
  /\ hidden = [o \in Obj |-> {}]
  /\ link = [o \in Obj |-> NoObj]
  /\ childrenNum = [o \in Obj |-> 0]
  /\ ahead = [o \in Obj |-> {}]
  /\ objNum = 0
  /\ mkPath = NoKey /\ mkIdx = 0 /\ mkRead = FALSE
  /\ ret = "none"
  /\ up = TRUE

Next ==
  \/ \E k \in Key :
       \/ log_mkdir(k) \/ log_rmr(k) \/ log_create(k)
       \/ log_get_additional_blk(k) \/ log_close(k) \/ log_rm(k)
       \/ nn_ls(k) \/ nn_open(k)
  \/ log_mkdir_component
  \/ \E o \in Obj : fi_create_timeout(o)
  \/ \E b \in Blk : add_block(b)

Spec == Init /\ [][Next]_vars

-----------------------------------------------------------------------------
(* Properties *)

\* Every variable keeps its type; a free block has no links and is queued nowhere.
TypeOK ==
  /\ used \subseteq Obj /\ queued \subseteq used /\ timer \subseteq Obj
  /\ key \in [Obj -> Key \cup {NoKey}]
  /\ \A o \in used : key[o] \in Key
  /\ kind \in [Obj -> Kinds]
  /\ blks \in [Obj -> Seq(Blk)]
  /\ hidden \in [Obj -> SUBSET Obj]
  /\ link \in [Obj -> Obj \cup {NoObj, Dangling}]
  /\ childrenNum \in [Obj -> 0 .. (Width - 1)]
  /\ ahead \in [Obj -> SUBSET Obj]
  /\ objNum \in Nat
  /\ mkPath \in Key \cup {NoKey} /\ mkIdx \in Nat /\ mkRead \in BOOLEAN
  /\ mkPath # NoKey => mkIdx \in DOMAIN Path[mkPath]
  /\ blkIndex \in [Blk -> 0 .. MaxEntries]
  /\ ret \in Codes
  /\ up \in BOOLEAN

\* Components log_mkdir has still to propose.
Remaining == IF mkPath = NoKey THEN 0 ELSE Len(Path[mkPath]) - mkIdx + 1

\* mem_get0 never runs dry: g_fs_object_num counts at least the stores in use
\* (a timed-out create is never subtracted), and with what a mkdir under way
\* still adds it stays within index_num, even though mkdir of "/" skips
\* is_FsObjectExceed.
PoolNeverDry ==
  /\ Cardinality(used) <= objNum
  /\ objNum + Remaining <= IndexNum

\* Every directory and every closed file is the store its key looks up to, and
\* hangs in the children list of the directory its parent path looks up to:
\* ls, open and rmr can reach it.  Unclosed files are in no list.
TreeSound ==
  \A o \in used :
    IF kind[o] = "creating"
      THEN link[o] = NoObj /\ o \notin queued
      ELSE /\ Lookup(key[o]) = {o}
           /\ o \in queued
           /\ key[o] # Root => /\ Lookup(ParentKey(key[o])) = {link[o]}
                               /\ kind[link[o]] = "dir"

\* children_num of a directory is the length of its children list, which
\* clear_children and nn_ls trust when they walk the list.
CountSound ==
  \A d \in used : kind[d] = "dir" => childrenNum[d] = Cardinality(Kids(d))

\* In g_checkpoint_q a directory stands in front of everything linked under
\* it, so that load_image, which replays the saved queue through
\* update_fi_mkdir and does not check fparent, finds every parent.
ParentsFirst ==
  \A o \in queued : link[o] \in Obj => link[o] \in queued /\ link[o] \in ahead[o]

\* Each block of a closed file loses an index entry, which is what sends the
\* delete to its datanode, in the step that removes the file, recursively under
\* rmr; and no other step takes an entry away.
BlocksFollowFiles ==
  [][/\ \A o \in used \ used' : kind[o] = "file" =>
          \A b \in BlksOf({o}) : blkIndex'[b] < blkIndex[b] \/ blkIndex'[b] = 0
     /\ \A b \in Blk : blkIndex'[b] < blkIndex[b] =>
          \E o \in used \ used' : b \in BlksOf({o})
    ]_vars

\* g_fs_object_num and the number of stores in use drift apart only when a
\* create timer drops an unclosed file; every other step, a partial mkdir and
\* a recursive rmr included, changes both alike.
DriftOnlyByTimeout ==
  [][objNum' - Cardinality(used') # objNum - Cardinality(used) =>
       \E o \in used : /\ kind[o] = "creating"
                       /\ used' = used \ {o} /\ objNum' = objNum]_vars

\* What each path names: a directory, a closed file, or nothing.
Entries ==
  [k \in Key |-> IF \E o \in Lookup(k) : kind[o] # "creating"
                   THEN kind[CHOOSE o \in Lookup(k) : TRUE] ELSE "absent"]

NS == INSTANCE Namespace WITH ns <- Entries

\* The file index implements the abstract namespace: in particular rmr takes
\* away exactly the subtree, and mkdir and close add one entry under a
\* directory that is there.
NamespaceSpec == NS!Spec
=============================================================================
