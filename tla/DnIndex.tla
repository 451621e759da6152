------------------------------- MODULE DnIndex -------------------------------
(***************************************************************************)
(* The namenode's index of datanodes (namenode/nn_dn_index.c) and of the   *)
(* blocks they hold (nn_blk_index.c): registration, heartbeats, the timer  *)
(* that declares a datanode dead, block reports, the choice of a datanode  *)
(* for a new block, and the orders to delete blocks.                       *)
(*                                                                         *)
(* All requests of one datanode, and its timer, run on one task thread     *)
(* (the key is hashed). Block removal and the choice of datanodes run on   *)
(* another thread, the one that applies the edit log; it holds pointers to *)
(* stores across the points where it releases the index lock.              *)
(***************************************************************************)
EXTENDS Naturals, Sequences, FiniteSets, SequencesExt

CONSTANTS
  DataNode,    \* datanodes, by the address that is their key
  Block,       \* block ids
  Store,       \* dn_store_t objects of the pool
  DnTimeout,   \* g_dcm->timeout, in ticks of the clock
  DeleteOnce,  \* DELETING_BLK_FOR_ONCE
  Alias        \* Alias[d]: other datanodes in the hash bucket of d whose key
               \* begins with the key of d

None == "none"

ASSUME DnIndexAssumption ==
  /\ None \notin Store \cup DataNode \cup Block
  /\ DnTimeout \in Nat \ {0} /\ DeleteOnce \in Nat \ {0}
  /\ IsFiniteSet(DataNode) /\ IsFiniteSet(Store)
  /\ Cardinality(Store) >= Cardinality(DataNode)
  /\ Alias \in [DataNode -> SUBSET DataNode]

VARIABLES
  owner,    \* owner[s]: dni.id of store s, kept when s is freed
  delBlk,   \* delBlk[s]: queue del_blk of store s
  free,     \* the pool's list of free stores
  table,    \* dn_htable, the most recently joined store first
  dnq,      \* g_dn_q
  timer,    \* timer[s]: ticks until the timer of store s fires
  task,     \* task[d]: what the task thread of d does for it, with which store
  index,    \* index[b]: the datanodes of the entries of block b, newest first
  placed,   \* placed[b]: the datanodes its writer was told, {} before the create
  rmd,      \* blocks whose file was removed
  px,       \* what the thread that applies removals does, with which block,
            \* store and entry of the block, counted from the oldest
  given,    \* given[d]: ids sent to d in heartbeat answers, in order
  sent,     \* <<d, b>>: d has reported the block it received
  heard     \* heard[d]: ticks since d last registered or sent a heartbeat that
            \* found it registered

stores == <<owner, delBlk, free, table, dnq>>
vars   == <<owner, delBlk, free, table, dnq, timer, task, index, placed, rmd, px,
            given, sent, heard>>

Idle == [pc |-> "idle", st |-> None, n |-> 0]
Done == [pc |-> "idle", blk |-> None, st |-> None, nth |-> 0]
Never == DnTimeout + 1    \* value of heard for a datanode never answered, or long ago

TypeOK ==
  /\ owner \in [Store -> DataNode \cup {None}]
  /\ delBlk \in [Store -> Seq(Block)]
  /\ free \in Seq(Store) /\ table \in Seq(Store) /\ dnq \in Seq(Store)
  /\ timer \in [Store -> 0..DnTimeout]
  /\ task \in [DataNode -> [pc : {"idle", "beat", "dead"}, st : Store \cup {None},
                            n : 0..DeleteOnce]]
  /\ index \in [Block -> Seq(DataNode)]
  /\ placed \in [Block -> SUBSET DataNode]
  /\ rmd \subseteq Block
  /\ px \in [pc : {"idle", "insert", "remove"}, blk : Block \cup {None},
             st : Store \cup {None}, nth : Nat]
  /\ sent \subseteq DataNode \X Block
  /\ given \in [DataNode -> Seq(Block)]
  /\ heard \in [DataNode -> 0..Never]

\* nn_dn_index_worker_init, nn_blk_index_worker_init.
Init ==
  /\ owner = [s \in Store |-> None]
  /\ delBlk = [s \in Store |-> <<>>]
  /\ free = SetToSeq(Store) /\ table = <<>> /\ dnq = <<>>
  /\ timer = [s \in Store |-> 0]
  /\ task = [d \in DataNode |-> Idle]
  /\ index = [b \in Block |-> <<>>]
  /\ placed = [b \in Block |-> {}]
  /\ rmd = {}
  /\ px = Done
  /\ given = [d \in DataNode |-> <<>>]
  /\ sent = {}
  /\ heard = [d \in DataNode |-> Never]

----------------------------------------------------------------------------

\* get_dn_store_obj: dfs_hashtable_lookup compares only as many bytes as the
\* key it looks for has.
get_dn_store_obj(d) ==
  LET at == {i \in DOMAIN table : owner[table[i]] \in {d} \cup Alias[d]}
  IN IF at = {} THEN None ELSE table[CHOOSE i \in at : \A j \in at : i <= j]

\* Mutant: an armed timer is left as it is.
dn_timer_update_Lazy(s) == timer' = [timer EXCEPT ![s] = IF @ > 0 THEN @ ELSE DnTimeout]

\* dn_timer_update: the timer of the store that was found.
dn_timer_update(s) == timer' = [timer EXCEPT ![s] = DnTimeout]

Answered(d) == heard' = [heard EXCEPT ![d] = 0]

(***************************************************************************)
(* nn_dn_register: a known datanode gets its timer renewed; a new one a    *)
(* store, a place at the end of g_dn_q and a timer.                        *)
(***************************************************************************)
nn_dn_register(d) ==
  LET s == get_dn_store_obj(d) IN
  /\ task[d].pc = "idle"
  /\ IF s # None
     THEN dn_timer_update(s) /\ UNCHANGED stores
     ELSE LET new == Head(free) IN
          /\ free # <<>> /\ free' = Tail(free)
          /\ owner' = [owner EXCEPT ![new] = d]
          /\ delBlk' = [delBlk EXCEPT ![new] = <<>>]
          /\ table' = <<new>> \o table
          /\ dnq' = Append(dnq, new)
          /\ dn_timer_update(new)
  /\ Answered(d)
  /\ UNCHANGED <<task, index, placed, rmd, px, given, sent>>

(***************************************************************************)
(* nn_dn_heartbeat: the timer is renewed and del_blk_num read; then, under *)
(* the lock, that many ids, at most DeleteOnce, are taken for the answer.  *)
(* An unknown datanode is answered DFS_ERROR, which changes nothing.       *)
(***************************************************************************)
nn_dn_heartbeat(d) ==
  LET s == get_dn_store_obj(d)
      n == Len(delBlk[s])
  IN /\ task[d].pc = "idle" /\ s # None
     /\ dn_timer_update(s)
     /\ task' = [task EXCEPT ![d] =
                   [pc |-> "beat", st |-> s, n |-> IF n > DeleteOnce THEN DeleteOnce ELSE n]]
     /\ Answered(d)
     /\ UNCHANGED <<stores, index, placed, rmd, px, given, sent>>

\* Mutant: the ids are sent and stay in the queue.
heartbeat_answer_Keep(d) ==
  /\ task[d].pc = "beat"
  /\ given' = [given EXCEPT ![d] = @ \o SubSeq(delBlk[task[d].st], 1, task[d].n)]
  /\ task' = [task EXCEPT ![d] = Idle]
  /\ UNCHANGED <<stores, timer, index, placed, rmd, px, sent, heard>>

\* Mutant: the queue is emptied, whatever was sent.
heartbeat_answer_Drop(d) ==
  /\ task[d].pc = "beat"
  /\ delBlk' = [delBlk EXCEPT ![task[d].st] = <<>>]
  /\ given' = [given EXCEPT ![d] = @ \o SubSeq(delBlk[task[d].st], 1, task[d].n)]
  /\ task' = [task EXCEPT ![d] = Idle]
  /\ UNCHANGED <<owner, free, table, dnq, timer, index, placed, rmd, px, sent, heard>>

heartbeat_answer(d) ==
  LET s == task[d].st
      n == task[d].n
  IN /\ task[d].pc = "beat"
     /\ delBlk' = [delBlk EXCEPT ![s] = SubSeq(@, n + 1, Len(@))]
     /\ given' = [given EXCEPT ![d] = @ \o SubSeq(delBlk[s], 1, n)]
     /\ task' = [task EXCEPT ![d] = Idle]
     /\ UNCHANGED <<owner, free, table, dnq, timer, index, placed, rmd, px, sent, heard>>

\* queue_remove, dfs_hashtable_remove_link: the node of s goes, wherever it is.
Unlink(q, s) == RemoveAt(q, CHOOSE i \in DOMAIN q : q[i] = s)

\* Mutant: the store stays in the hash table.
dn_timeout_handler_KeepLink(s) ==
  /\ s \in Range(dnq) /\ timer[s] = 0
  /\ task[owner[s]].pc = "idle"
  /\ dnq' = Unlink(dnq, s)
  /\ task' = [task EXCEPT ![owner[s]] = [pc |-> "dead", st |-> s, n |-> 0]]
  /\ UNCHANGED <<owner, delBlk, free, table, timer, index, placed, rmd, px, given, sent,
                 heard>>

(***************************************************************************)
(* dn_timeout_handler: out of the index, then dn_store_destroy.            *)
(* The blocks of the datanode stay in the block index.                     *)
(***************************************************************************)
dn_timeout_handler(s) ==
  /\ s \in Range(dnq) /\ timer[s] = 0
  /\ task[owner[s]].pc = "idle"
  /\ table' = Unlink(table, s)
  /\ dnq' = Unlink(dnq, s)
  /\ task' = [task EXCEPT ![owner[s]] = [pc |-> "dead", st |-> s, n |-> 0]]
  /\ UNCHANGED <<owner, delBlk, free, timer, index, placed, rmd, px, given, sent, heard>>

dn_store_destroy(d) ==
  /\ task[d].pc = "dead"
  /\ free' = <<task[d].st>> \o free
  /\ task' = [task EXCEPT ![d] = Idle]
  /\ UNCHANGED <<owner, delBlk, table, dnq, timer, index, placed, rmd, px, given, sent, heard>>

Tick ==
  /\ timer' = [s \in Store |-> IF timer[s] > 0 THEN timer[s] - 1 ELSE 0]
  /\ heard' = [d \in DataNode |-> IF heard[d] < Never THEN heard[d] + 1 ELSE Never]
  /\ UNCHANGED <<stores, task, index, placed, rmd, px, given, sent>>

----------------------------------------------------------------------------
(* Block reports, from a datanode that was told to store the block. *)

Stored(d, b) == d \in placed[b] /\ b \notin Range(given[d])

\* nn_dn_recv_blk_report and add_block: a new entry, even if there is one.
nn_dn_recv_blk_report(d, b) ==
  /\ Stored(d, b) /\ <<d, b>> \notin sent
  /\ task[d].pc = "idle" /\ get_dn_store_obj(d) # None
  /\ sent' = sent \cup {<<d, b>>}
  /\ index' = [index EXCEPT ![b] = <<d>> \o @]
  /\ UNCHANGED <<stores, timer, task, placed, rmd, px, given, heard>>

\* nn_dn_blk_report: an entry only when the block has none.
nn_dn_blk_report(d, b) ==
  /\ Stored(d, b)
  /\ task[d].pc = "idle" /\ get_dn_store_obj(d) # None
  /\ index[b] = <<>>
  /\ index' = [index EXCEPT ![b] = <<d>>]
  /\ UNCHANGED <<stores, timer, task, placed, rmd, px, given, sent, heard>>

----------------------------------------------------------------------------
(* Creates and removals. *)

\* generate_dns: whatever blk_rep is, the first datanode of g_dn_q.
generate_dns(b) ==
  /\ px.pc = "idle" /\ placed[b] = {} /\ b \notin rmd
  /\ dnq # <<>>
  /\ placed' = [placed EXCEPT ![b] = {owner[Head(dnq)]}]
  /\ UNCHANGED <<stores, timer, task, index, rmd, px, given, sent, heard>>

(***************************************************************************)
(* block_object_del: the newest entry of the block is looked up, and the   *)
(* store of its datanode by notify_dn_2_delete_blk, which gives up when    *)
(* there is none. The id is queued in that store, whatever has become of   *)
(* it since; then the entry goes.                                          *)
(***************************************************************************)
block_object_del(b) ==
  LET s == get_dn_store_obj(Head(index[b])) IN
  /\ px.pc = "idle" /\ placed[b] # {} /\ b \notin rmd
  /\ rmd' = rmd \cup {b}
  /\ px' = IF index[b] = <<>> THEN Done
           ELSE [pc |-> IF s = None THEN "remove" ELSE "insert", blk |-> b, st |-> s,
                 nth |-> Len(index[b])]
  /\ UNCHANGED <<stores, timer, task, index, placed, given, sent, heard>>

notify_dn_2_delete_blk ==
  /\ px.pc = "insert"
  /\ delBlk' = [delBlk EXCEPT ![px.st] = Append(@, px.blk)]
  /\ px' = [px EXCEPT !.pc = "remove"]
  /\ UNCHANGED <<owner, free, table, dnq, timer, task, index, placed, rmd, given, sent,
                 heard>>

remove_entry ==
  /\ px.pc = "remove"
  /\ index' = [index EXCEPT ![px.blk] = RemoveAt(@, Len(@) - px.nth + 1)]
  /\ px' = Done
  /\ UNCHANGED <<stores, timer, task, placed, rmd, given, sent, heard>>

----------------------------------------------------------------------------

TaskThread(d) == heartbeat_answer(d) \/ dn_store_destroy(d)

Removal == notify_dn_2_delete_blk \/ remove_entry

Next ==
  \/ \E d \in DataNode : nn_dn_register(d) \/ nn_dn_heartbeat(d) \/ TaskThread(d)
  \/ \E s \in Store : dn_timeout_handler(s)
  \/ \E d \in DataNode, b \in Block : nn_dn_recv_blk_report(d, b) \/ nn_dn_blk_report(d, b)
  \/ \E b \in Block : generate_dns(b) \/ block_object_del(b)
  \/ Removal
  \/ Tick

Spec == Init /\ [][Next]_vars

----------------------------------------------------------------------------
(* Properties. *)

(***************************************************************************)
(* The hash table, g_dn_q and the pool agree: every store is in the pool,  *)
(* or in both, or on its way to dn_store_destroy, and no datanode has two  *)
(* stores, through any sequence of registrations and timeouts.             *)
(***************************************************************************)
StoresAccounted ==
  LET dying == {task[d].st : d \in {e \in DataNode : task[e].pc = "dead"}}
      Dup(q) == Cardinality(Range(q)) # Len(q)
  IN /\ TypeOK
     /\ Range(table) = Range(dnq)
     /\ ~Dup(table) /\ ~Dup(dnq) /\ ~Dup(free)
     /\ Range(dnq) \cup Range(free) \cup dying = Store
     /\ Len(dnq) + Len(free) + Cardinality(dying) = Cardinality(Store)
     /\ \A s, t \in Range(dnq) : owner[s] = owner[t] => s = t

(***************************************************************************)
(* A datanode whose registration or last heartbeat was answered less than  *)
(* dn_timeout ago has its own store in the index (nn_dn_register,          *)
(* dn_timer_update, dn_timeout_handler).                                   *)
(***************************************************************************)
AliveIsListed ==
  \A d \in DataNode : heard[d] < DnTimeout => \E s \in Range(table) : owner[s] = d

(***************************************************************************)
(* An order to delete a block is sent in a heartbeat answer at most once,  *)
(* to one datanode, and only after the file of the block was removed.      *)
(***************************************************************************)
OrdersOnce ==
  \A d, e \in DataNode : \A i \in DOMAIN given[d], j \in DOMAIN given[e] :
    /\ given[d][i] \in rmd
    /\ given[d][i] = given[e][j] => d = e /\ i = j

(***************************************************************************)
(* While a datanode stays registered no order for it is lost or overtaken: *)
(* what was sent, followed by what is queued, only grows at its end, at    *)
(* most DeleteOnce ids moving from one to the other with a heartbeat       *)
(* answer (nn_dn_heartbeat counts the ids under one lock and dequeues them *)
(* under another, while notify_dn_2_delete_blk goes on inserting).         *)
(***************************************************************************)
OrdersKept ==
  [][\A s \in Range(table) \cap Range(table') :
       LET d == owner[s]
       IN d = owner'[s] =>
            /\ IsPrefix(given[d] \o delBlk[s], given'[d] \o delBlk'[s])
            /\ Len(given'[d]) <= Len(given[d]) + DeleteOnce]_vars
=============================================================================
