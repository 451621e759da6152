------------------------------ MODULE NsService ------------------------------
(***************************************************************************)
(* The datanode's side of its conversation with the namenodes: one service *)
(* thread per namenode (dn_worker_process.c, dn_ns_service.c), the two     *)
(* queues of block reports they share, the cache of block objects          *)
(* (dn_data_storage.c), the network threads that finish block writes and   *)
(* the scanner that reads the storage directories.                         *)
(*                                                                         *)
(* Time is in whole seconds, as the code computes it. Only differences     *)
(* matter, and only up to heartbeat_interval: every age below saturates    *)
(* there, which loses nothing. Each namenode is external: it registers the *)
(* datanode, keeps the blocks reported to it and answers a heartbeat with  *)
(* block ids to delete.                                                    *)
(***************************************************************************)
EXTENDS Integers, Sequences, FiniteSets, SequencesExt

CONSTANTS
  NameNode,           \* the namenodes of ns_srv, one service thread each
  Block,              \* block ids that clients may write
  Object,             \* block_info_t objects of the cache's pool
  HeartbeatInterval,  \* sconf->heartbeat_interval, in seconds
  DeleteOnce,         \* DELETING_BLK_FOR_ONCE of the namenode
  FaultKind,          \* the faults that may occur
  MaxFaults           \* bound on the number of faults

None == "none"

ASSUME NsServiceAssumption ==
  /\ HeartbeatInterval \in Nat \ {0}
  /\ DeleteOnce \in Nat \ {0}
  /\ FaultKind \subseteq {"break", "lost", "expire", "restart", "crash"}
  /\ MaxFaults \in Nat
  /\ IsFiniteSet(Object) /\ IsFiniteSet(Block) /\ IsFiniteSet(NameNode)
  /\ None \notin Block \cup Object

VARIABLES
  pc,         \* pc[n]: where service thread n stands
  since,      \* since[n]: seconds since thread n last read the clock (now_time)
  diff,       \* diff[n]: the thread's variable of that name
  left,       \* left[n]: seconds until its wait or sleep ends
  todo,       \* todo[n]: block ids of the last heartbeat answer yet to delete
  hold,       \* hold[n]: the object thread n took from a queue or looked up
  age,        \* seconds since g_last_heartbeat
  que,        \* que["recv"], que["blk"]: g_recv_blk_report, g_blk_report
  cell,       \* cell[o]: the block id in object o; kept when o is freed
  free,       \* the pool's list of free objects
  table,      \* blk_htable, the most recently joined object first
  write,      \* write[b]: how far the write of block b is
  wobj,       \* wobj[b]: the object made for that write
  file,       \* blocks with a file under current/
  scan,       \* what the scanner does, to which block, with which object
  left2scan,  \* directory entries the scanner has yet to look at
  bad,        \* the kind of memory corruption that occurred, or "none"
  link,       \* link[n]: "up", "fin" (closed by the namenode), "rst"
  registered, \* registered[n]: namenode n has the datanode in its index
  known,      \* known[n]: blocks in the index of namenode n
  dels,       \* dels[n]: ids namenode n will hand out for deletion
  removed,    \* removed[n]: blocks whose file was removed at namenode n
  faults      \* faults so far, and whether one of them cut off a namenode

thread == <<pc, since, diff, left, todo, hold, age>>
cache  == <<cell, free, table, file>>
writer == <<write, wobj>>
nn     == <<link, registered, known, dels, removed>>
vars   == <<pc, since, diff, left, todo, hold, age, que, cell, free, table, write,
            wobj, file, scan, left2scan, bad, link, registered, known, dels,
            removed, faults>>

Pc == {"register", "sleep", "heartbeat", "delete", "deleting", "recv", "recv_take",
       "recv_send", "blk", "blk_take", "blk_send", "wait", "waiting"}

\* Enough objects for every block to have two: a write and a scan of it.
ASSUME PoolAssumption == Cardinality(Object) >= 2 * Cardinality(Block)

TypeOK ==
  /\ pc \in [NameNode -> Pc]
  /\ since \in [NameNode -> 0..HeartbeatInterval]
  /\ diff \in [NameNode -> 0..HeartbeatInterval]
  /\ left \in [NameNode -> 0..HeartbeatInterval]
  /\ todo \in [NameNode -> Seq(Block)]
  /\ hold \in [NameNode -> Object \cup {None}]
  /\ age \in 0..HeartbeatInterval
  /\ que \in [{"recv", "blk"} -> Seq(Object)]
  /\ cell \in [Object -> Block \cup {None}]
  /\ free \in Seq(Object)
  /\ table \in Seq(Object)
  /\ write \in [Block -> {"open", "renamed", "joined", "done"}]
  /\ wobj \in [Block -> Object \cup {None}]
  /\ file \subseteq Block
  /\ scan \in [pc : {"readdir", "add", "notify"}, blk : Block \cup {None},
               obj : Object \cup {None}]
  /\ left2scan \subseteq Block
  /\ bad \in {None, "empty", "reinit", "double"}
  /\ link \in [NameNode -> {"up", "fin", "rst"}]
  /\ registered \in [NameNode -> BOOLEAN]
  /\ known \in [NameNode -> SUBSET Block]
  /\ dels \in [NameNode -> Seq(Block)]
  /\ removed \in [NameNode -> SUBSET Block]
  /\ faults \in [n : 0..MaxFaults, cut : BOOLEAN]

\* thread_ns_service_cycle starts by registering; blk_report_queue_init.
Init ==
  /\ pc = [n \in NameNode |-> "register"]
  /\ since = [n \in NameNode |-> 0]
  /\ diff = [n \in NameNode |-> 0]
  /\ left = [n \in NameNode |-> 0]
  /\ todo = [n \in NameNode |-> <<>>]
  /\ hold = [n \in NameNode |-> None]
  /\ age = HeartbeatInterval
  /\ que = [q \in {"recv", "blk"} |-> <<>>]
  /\ cell = [o \in Object |-> None]
  /\ free = SetToSeq(Object)
  /\ table = <<>>
  /\ write = [b \in Block |-> "open"]
  /\ wobj = [b \in Block |-> None]
  /\ file = {}
  /\ scan = [pc |-> "readdir", blk |-> None, obj |-> None]
  /\ left2scan = {}
  /\ bad = None
  /\ link = [n \in NameNode |-> "rst"]
  /\ registered = [n \in NameNode |-> FALSE]
  /\ known = [n \in NameNode |-> {}]
  /\ dels = [n \in NameNode |-> <<>>]
  /\ removed = [n \in NameNode |-> {}]
  /\ faults = [n |-> 0, cut |-> FALSE]

----------------------------------------------------------------------------
(* Requests to a namenode. *)

Least(a, b) == IF a < b THEN a ELSE b

CanFail(kind) == kind \in FaultKind /\ faults.n < MaxFaults

\* One more fault; cut: a namenode lost the connection or what it knew of the datanode.
Failed(cut) == [n |-> faults.n + 1, cut |-> faults.cut \/ cut]

(***************************************************************************)
(* What a request on the connection to n meets. "ok" and "refused" are     *)
(* answered by the namenode; "lost" is carried out but its answer never    *)
(* arrives. A connection closed by the namenode accepts one more write,    *)
(* and the end-of-file read in place of an answer leaves in_t.ret at 0     *)
(* ("eof"), unless the read fails first.                                   *)
(***************************************************************************)
Outcomes(n) ==
  CASE link[n] = "up" /\ registered[n] ->
         {"ok"} \cup (IF CanFail("lost") THEN {"lost"} ELSE {})
    [] link[n] = "up" /\ ~registered[n] -> {"refused"}
    [] link[n] = "fin" -> {"eof", "err"}
    [] OTHER -> {"err"}

Carried(outcome) == outcome \in {"ok", "lost"}

Accepted(outcome) == outcome \in {"ok", "eof"}

\* The connection and the fault count after a request; an error makes
\* offer_service close the socket.
AfterRequest(n, outcome) ==
  /\ link' = [link EXCEPT ![n] = IF outcome = "ok" THEN "up" ELSE "rst"]
  /\ faults' = IF outcome = "lost" THEN Failed(FALSE) ELSE faults

Goto(n, label) == pc' = [pc EXCEPT ![n] = label]

(***************************************************************************)
(* dn_register: a namenode that accepts the connection registers the       *)
(* datanode. With a fault, the connection is refused, or closed before the *)
(* answer: that end-of-file too is taken for success. offer_service starts *)
(* with diff = 0.                                                          *)
(***************************************************************************)
dn_register(n) ==
  /\ pc[n] = "register"
  /\ \/ /\ link' = [link EXCEPT ![n] = "up"]
        /\ registered' = [registered EXCEPT ![n] = TRUE]
        /\ Goto(n, "heartbeat")
        /\ diff' = [diff EXCEPT ![n] = 0]
        /\ since' = [since EXCEPT ![n] = 0]
        /\ UNCHANGED <<left, faults>>
     \/ /\ CanFail("break") /\ faults' = Failed(TRUE)
        /\ Goto(n, "heartbeat")
        /\ diff' = [diff EXCEPT ![n] = 0]
        /\ since' = [since EXCEPT ![n] = 0]
        /\ UNCHANGED <<link, registered, left>>
     \/ /\ CanFail("break") /\ faults' = Failed(TRUE)
        /\ Goto(n, "sleep")
        /\ left' = [left EXCEPT ![n] = 1]
        /\ UNCHANGED <<link, registered, diff, since>>
  /\ UNCHANGED <<todo, hold, age, que, cache, writer, scan, left2scan, bad, known,
                 dels, removed>>

\* thread_ns_service_cycle: sleep(1) and try again.
ns_sleep(n) ==
  /\ pc[n] = "sleep" /\ left[n] = 0
  /\ Goto(n, "register")
  /\ UNCHANGED <<since, diff, left, todo, hold, age, que, cache, writer, scan,
                 left2scan, bad, nn, faults>>

(***************************************************************************)
(* The top of the loop of offer_service: a heartbeat when diff is large    *)
(* enough. Its answer carries at most DeleteOnce ids, which the namenode   *)
(* has then forgotten.                                                     *)
(***************************************************************************)
send_heartbeat(n) ==
  LET given == SubSeq(dels[n], 1, Least(DeleteOnce, Len(dels[n])))
      kept  == SubSeq(dels[n], Len(given) + 1, Len(dels[n]))
  IN /\ pc[n] = "heartbeat"
     /\ IF diff[n] >= HeartbeatInterval
        THEN /\ age' = since[n]
             /\ \E outcome \in Outcomes(n) :
                  /\ AfterRequest(n, outcome)
                  /\ dels' = IF Carried(outcome) THEN [dels EXCEPT ![n] = kept] ELSE dels
                  /\ todo' = IF outcome = "ok" THEN [todo EXCEPT ![n] = given] ELSE todo
                  /\ Goto(n, IF Accepted(outcome) THEN "delete" ELSE "register")
        ELSE /\ Goto(n, "recv")
             /\ UNCHANGED <<age, link, faults, dels, todo>>
     /\ UNCHANGED <<since, diff, left, hold, que, cache, writer, scan, left2scan, bad,
                    registered, known, removed>>

----------------------------------------------------------------------------
(* The block cache. *)

\* dfs_hashtable_lookup: the first object of the chain with this id.
lookup(b) ==
  LET at == {i \in DOMAIN table : cell[table[i]] = b}
  IN IF at = {} THEN None ELSE table[CHOOSE i \in at : \A j \in at : i <= j]

\* dfs_hashtable_remove_link: does nothing if the link is not in the chain.
Unlink(q, o) == IF o \in Range(q) THEN RemoveAt(q, CHOOSE i \in DOMAIN q : q[i] = o) ELSE q

Queued(o) == o \in Range(que["recv"]) \cup Range(que["blk"])

\* mem_get0, queue_init and dfs_hashtable_join: a new object for block b.
\* queue_init of an object that is still linked in a queue cuts the queue.
Join(b) ==
  LET o == Head(free)
  IN /\ free # <<>>
     /\ free' = Tail(free)
     /\ cell' = [cell EXCEPT ![o] = b]
     /\ table' = <<o>> \o table
     /\ bad' = IF Queued(o) THEN "reinit" ELSE bad

\* notify_nn_receivedblock and notify_blk_report.
Enqueue(q, o) == que' = [que EXCEPT ![q] = Append(@, o)]

(***************************************************************************)
(* delete_blks: for each id, block_object_del looks the object up, unlinks *)
(* its file and then, under the write lock, removes and frees it.          *)
(***************************************************************************)
\* Mutant: the object goes, the file stays.
block_object_del_unlink_KeepFile(n) ==
  /\ pc[n] = "delete"
  /\ IF todo[n] = <<>>
     THEN Goto(n, "recv") /\ UNCHANGED <<todo, hold>>
     ELSE /\ todo' = [todo EXCEPT ![n] = Tail(@)]
          /\ IF lookup(Head(todo[n])) = None
             THEN UNCHANGED <<pc, hold>>
             ELSE /\ hold' = [hold EXCEPT ![n] = lookup(Head(todo[n]))]
                  /\ Goto(n, "deleting")
  /\ UNCHANGED <<since, diff, left, age, que, cell, free, table, file, writer, scan,
                 left2scan, bad, nn, faults>>

block_object_del_unlink(n) ==
  /\ pc[n] = "delete"
  /\ IF todo[n] = <<>>
     THEN Goto(n, "recv") /\ UNCHANGED <<todo, hold, file>>
     ELSE LET b == Head(todo[n]) IN
          /\ todo' = [todo EXCEPT ![n] = Tail(@)]
          /\ IF lookup(b) = None
             THEN UNCHANGED <<pc, hold, file>>
             ELSE /\ hold' = [hold EXCEPT ![n] = lookup(b)]
                  /\ file' = file \ {b}
                  /\ Goto(n, "deleting")
  /\ UNCHANGED <<since, diff, left, age, que, cell, free, table, writer, scan,
                 left2scan, bad, nn, faults>>

block_object_del(n) ==
  /\ pc[n] = "deleting"
  /\ bad' = IF hold[n] \in Range(free) THEN "double" ELSE bad
  /\ table' = Unlink(table, hold[n])
  /\ free' = <<hold[n]>> \o free
  /\ hold' = [hold EXCEPT ![n] = None]
  /\ Goto(n, "delete")
  /\ UNCHANGED <<since, diff, left, todo, age, que, cell, writer, file, scan,
                 left2scan, nn, faults>>

----------------------------------------------------------------------------
(* Block reports: q is "recv" for receivedblock_report and "blk" for       *)
(* block_report; Then is where offer_service goes on.                      *)

Then(q) == IF q = "recv" THEN "blk" ELSE "wait"
Take(q) == IF q = "recv" THEN "recv_take" ELSE "blk_take"
Send(q) == IF q = "recv" THEN "recv_send" ELSE "blk_send"

\* offer_service reads num without the lock.
\* Mutant: both reports look at g_recv_blk_report.num.
check_report_Recv(n, q) ==
  /\ pc[n] = q
  /\ Goto(n, IF Len(que["recv"]) > 0 THEN Take(q) ELSE Then(q))
  /\ UNCHANGED <<since, diff, left, todo, hold, age, que, cache, writer, scan,
                 left2scan, bad, nn, faults>>

check_report(n, q) ==
  /\ pc[n] = q
  /\ Goto(n, IF Len(que[q]) > 0 THEN Take(q) ELSE Then(q))
  /\ UNCHANGED <<since, diff, left, todo, hold, age, que, cache, writer, scan,
                 left2scan, bad, nn, faults>>

\* The head of the queue is taken under the lock, without looking at num again.
take_report(n, q) ==
  /\ pc[n] = Take(q)
  /\ IF que[q] = <<>>
     THEN bad' = "empty" /\ UNCHANGED <<que, hold, pc>>
     ELSE /\ hold' = [hold EXCEPT ![n] = Head(que[q])]
          /\ que' = [que EXCEPT ![q] = Tail(@)]
          /\ Goto(n, Send(q))
          /\ UNCHANGED bad
  /\ UNCHANGED <<since, diff, left, todo, age, cache, writer, scan, left2scan, nn,
                 faults>>

\* The rest of receivedblock_report and block_report: the id is read from the
\* object and sent; a failed request is not queued again.
send_report(n, q) ==
  /\ pc[n] = Send(q)
  /\ \E outcome \in Outcomes(n) :
       /\ AfterRequest(n, outcome)
       /\ known' = IF Carried(outcome)
                   THEN [known EXCEPT ![n] = @ \cup {cell[hold[n]]}] ELSE known
       /\ Goto(n, IF Accepted(outcome) THEN Then(q) ELSE "register")
  /\ hold' = [hold EXCEPT ![n] = None]
  /\ UNCHANGED <<since, diff, left, todo, age, que, cache, writer, scan, left2scan,
                 bad, registered, dels, removed>>

(***************************************************************************)
(* The end of the loop: wait_to_work when both queues are empty, and the   *)
(* clock is read. g_last_heartbeat is moved to now_time before the wait.   *)
(* Reading the clock and g_last_heartbeat is one step.                     *)
(***************************************************************************)
WaitTime(n) == IF HeartbeatInterval - diff[n] > 0 THEN HeartbeatInterval - diff[n]
                                                   ELSE HeartbeatInterval

\* Mutant: diff is not computed again.
ReadClock_NoDiff(n) ==
  /\ since' = [since EXCEPT ![n] = 0]
  /\ UNCHANGED diff
  /\ Goto(n, "heartbeat")

ReadClock(n) ==
  /\ since' = [since EXCEPT ![n] = 0]
  /\ diff' = [diff EXCEPT ![n] = age]
  /\ Goto(n, "heartbeat")

start_wait(n) ==
  /\ pc[n] = "wait"
  /\ IF que["recv"] = <<>> /\ que["blk"] = <<>>
     THEN /\ age' = since[n]
          /\ left' = [left EXCEPT ![n] = WaitTime(n)]
          /\ Goto(n, "waiting")
          /\ UNCHANGED <<since, diff>>
     ELSE ReadClock(n) /\ UNCHANGED <<age, left>>
  /\ UNCHANGED <<todo, hold, que, cache, writer, scan, left2scan, bad, nn, faults>>

\* pthread_cond_timedwait ends by its deadline, or with a received block queued.
end_wait(n) ==
  /\ pc[n] = "waiting"
  /\ left[n] = 0 \/ que["recv"] # <<>>
  /\ ReadClock(n)
  /\ left' = [left EXCEPT ![n] = 0]
  /\ UNCHANGED <<todo, hold, age, que, cache, writer, scan, left2scan, bad, nn, faults>>

\* One second passes.
Tick ==
  /\ age' = Least(age + 1, HeartbeatInterval)
  /\ since' = [n \in NameNode |-> Least(since[n] + 1, HeartbeatInterval)]
  /\ left' = [n \in NameNode |-> IF left[n] > 0 THEN left[n] - 1 ELSE 0]
  /\ UNCHANGED <<pc, diff, todo, hold, que, cache, writer, scan, left2scan, bad, nn,
                 faults>>

----------------------------------------------------------------------------
(* Block writes, on the network threads. *)

\* write_block_done: the finished block is renamed into current/.
\* Mutant: the report is made although the rename failed.
write_block_done_NoRename(b) ==
  /\ write[b] = "open"
  /\ write' = [write EXCEPT ![b] = "renamed"]
  /\ UNCHANGED <<thread, que, cache, wobj, scan, left2scan, bad, nn, faults>>

write_block_done(b) ==
  /\ write[b] = "open"
  /\ file' = file \cup {b}
  /\ write' = [write EXCEPT ![b] = "renamed"]
  /\ UNCHANGED <<thread, que, cell, free, table, wobj, scan, left2scan, bad, nn, faults>>

\* recv_blk_report: an object for it, without a look for an existing one.
recv_blk_report(b) ==
  /\ write[b] = "renamed"
  /\ Join(b)
  /\ wobj' = [wobj EXCEPT ![b] = Head(free)]
  /\ write' = [write EXCEPT ![b] = "joined"]
  /\ UNCHANGED <<thread, que, file, scan, left2scan, nn, faults>>

\* Mutant: the object is not queued.
notify_nn_receivedblock_NoInsert(b) ==
  /\ write[b] = "joined"
  /\ write' = [write EXCEPT ![b] = "done"]
  /\ wobj' = [wobj EXCEPT ![b] = None]
  /\ UNCHANGED <<thread, que, cache, scan, left2scan, bad, nn, faults>>

notify_nn_receivedblock(b) ==
  /\ write[b] = "joined"
  /\ Enqueue("recv", wobj[b])
  /\ write' = [write EXCEPT ![b] = "done"]
  /\ wobj' = [wobj EXCEPT ![b] = None]
  /\ UNCHANGED <<thread, cache, scan, left2scan, bad, nn, faults>>

----------------------------------------------------------------------------
(* The block scanner. *)

\* blk_scanner_start: the next round; readdir returns what is there now.
scan_dirs ==
  /\ scan.pc = "readdir" /\ left2scan = {} /\ file # {}
  /\ left2scan' = file
  /\ UNCHANGED <<thread, que, cache, writer, scan, bad, nn, faults>>

\* scan_subdir_subdir and the lookup of block_object_add.
scan_entry(b) ==
  /\ scan.pc = "readdir" /\ b \in left2scan
  /\ left2scan' = left2scan \ {b}
  /\ scan' = IF lookup(b) = None THEN [scan EXCEPT !.pc = "add", !.blk = b] ELSE scan
  /\ UNCHANGED <<thread, que, cache, writer, bad, nn, faults>>

block_object_add ==
  /\ scan.pc = "add"
  /\ Join(scan.blk)
  /\ scan' = [pc |-> "notify", blk |-> None, obj |-> Head(free)]
  /\ UNCHANGED <<thread, que, writer, file, left2scan, nn, faults>>

notify_blk_report ==
  /\ scan.pc = "notify"
  /\ Enqueue("blk", scan.obj)
  /\ scan' = [pc |-> "readdir", blk |-> None, obj |-> None]
  /\ UNCHANGED <<thread, cache, writer, left2scan, bad, nn, faults>>

----------------------------------------------------------------------------
(* The namenodes, and what may go wrong. *)

\* nn: block_object_del of a removed file's block, and notify_dn_2_delete_blk,
\* which does nothing when the datanode is not registered.
NnRemove(n, b) ==
  /\ b \in known[n] \ removed[n]
  /\ known' = [known EXCEPT ![n] = @ \ {b}]
  /\ removed' = [removed EXCEPT ![n] = @ \cup {b}]
  /\ dels' = IF registered[n] THEN [dels EXCEPT ![n] = Append(@, b)] ELSE dels
  /\ UNCHANGED <<thread, que, cache, writer, scan, left2scan, bad, link, registered,
                 faults>>

\* nn: the connection is closed by the namenode.
NnClose(n) ==
  /\ link[n] = "up" /\ CanFail("break") /\ faults' = Failed(TRUE)
  /\ link' = [link EXCEPT ![n] = "fin"]
  /\ UNCHANGED <<thread, que, cache, writer, scan, left2scan, bad, registered, known,
                 dels, removed>>

\* nn: dn_timeout_handler drops the datanode with its list of deletes.
NnExpire(n) ==
  /\ registered[n] /\ CanFail("expire") /\ faults' = Failed(TRUE)
  /\ registered' = [registered EXCEPT ![n] = FALSE]
  /\ dels' = [dels EXCEPT ![n] = <<>>]
  /\ UNCHANGED <<thread, que, cache, writer, scan, left2scan, bad, link, known, removed>>

\* nn: a restart rebuilds the namespace from image and log; blocks are
\* indexed again only when they are reported.
NnRestart(n) ==
  /\ CanFail("restart") /\ faults' = Failed(TRUE)
  /\ link' = [link EXCEPT ![n] = IF @ = "up" THEN "fin" ELSE @]
  /\ registered' = [registered EXCEPT ![n] = FALSE]
  /\ known' = [known EXCEPT ![n] = {}]
  /\ dels' = [dels EXCEPT ![n] = <<>>]
  /\ UNCHANGED <<thread, que, cache, writer, scan, left2scan, bad, removed>>

\* The datanode's worker process dies and is started again: what is on disk
\* stays, everything else is gone.
DnCrash ==
  /\ CanFail("crash") /\ faults' = Failed(FALSE)
  /\ pc' = [n \in NameNode |-> "register"]
  /\ since' = [n \in NameNode |-> 0] /\ diff' = [n \in NameNode |-> 0]
  /\ left' = [n \in NameNode |-> 0] /\ age' = HeartbeatInterval
  /\ todo' = [n \in NameNode |-> <<>>] /\ hold' = [n \in NameNode |-> None]
  /\ que' = [q \in {"recv", "blk"} |-> <<>>]
  /\ cell' = [o \in Object |-> None] /\ free' = SetToSeq(Object) /\ table' = <<>>
  /\ write' = [b \in Block |-> IF write[b] = "open" THEN "open" ELSE "done"]
  /\ wobj' = [b \in Block |-> None]
  /\ scan' = [pc |-> "readdir", blk |-> None, obj |-> None] /\ left2scan' = {}
  /\ link' = [n \in NameNode |-> "rst"]
  /\ UNCHANGED <<file, bad, registered, known, dels, removed>>

----------------------------------------------------------------------------

Service(n) ==
  \/ dn_register(n) \/ ns_sleep(n) \/ send_heartbeat(n)
  \/ block_object_del_unlink(n) \/ block_object_del(n)
  \/ \E q \in {"recv", "blk"} :
       check_report(n, q) \/ take_report(n, q) \/ send_report(n, q)
  \/ start_wait(n) \/ end_wait(n)

Scanner ==
  \/ scan_dirs \/ (\E b \in Block : scan_entry(b))
  \/ block_object_add \/ notify_blk_report

Write(b) == write_block_done(b) \/ recv_blk_report(b) \/ notify_nn_receivedblock(b)

Fault ==
  \/ \E n \in NameNode : NnClose(n) \/ NnExpire(n) \/ NnRestart(n)
  \/ DnCrash

\* After a corruption of the queues or the pool nothing is known of the process.
Next ==
  /\ bad = None
  /\ \/ \E n \in NameNode : Service(n)
     \/ Scanner
     \/ \E b \in Block : Write(b)
     \/ \E n \in NameNode, b \in Block : NnRemove(n, b)
     \/ Fault
     \/ Tick

Spec == Init /\ [][Next]_vars

(***************************************************************************)
(* The threads run and time passes; a client need not write, a file need   *)
(* not be removed and nothing need fail. A write that has been renamed is  *)
(* finished by its thread.                                                 *)
(***************************************************************************)
Fairness ==
  /\ \A n \in NameNode : WF_vars(bad = None /\ Service(n))
  /\ WF_vars(bad = None /\ Scanner)
  /\ \A b \in Block : WF_vars(bad = None /\ (recv_blk_report(b) \/ notify_nn_receivedblock(b)))
  /\ WF_vars(bad = None /\ Tick)

FairSpec == Spec /\ Fairness

\* The same when the threads are fast: no second ends while one of them runs.
Asleep == \A n \in NameNode : pc[n] \in {"waiting", "sleep"} /\ left[n] > 0

PromptSpec == Init /\ [][Next /\ (Tick => Asleep)]_vars /\ Fairness
----------------------------------------------------------------------------
(* Properties. *)

(***************************************************************************)
(* With one namenode the unlocked test of num and the dequeue cannot be    *)
(* separated by another reader: no report is taken from an empty queue     *)
(* (offer_service, receivedblock_report, block_report), and no object is   *)
(* freed twice by delete_blks, through every fault.                        *)
(***************************************************************************)
QueuesSound == TypeOK /\ bad \notin {"empty", "double"}

(***************************************************************************)
(* A namenode that lists a block on this datanode finds its file there,    *)
(* unless the block's deletion was ordered: reports follow the rename of   *)
(* write_block_done or come from the scanner, through every loss of a      *)
(* connection, restart of a namenode and crash of the datanode.            *)
(***************************************************************************)
KnownBlocksStored ==
  \A n \in NameNode : \A b \in known[n] :
    b \in file \/ \E m \in NameNode : b \in removed[m]

\* Thread n is about to send a heartbeat.
Beating(n) == pc[n] = "heartbeat" /\ diff[n] >= HeartbeatInterval

(***************************************************************************)
(* Every service thread goes on sending heartbeats (offer_service), so     *)
(* that the namenode does not take the datanode for dead.                  *)
(***************************************************************************)
HeartbeatsGoOn == \A n \in NameNode : []<>(Beating(n) \/ bad # None)

(***************************************************************************)
(* A stored block becomes known to every namenode: by                      *)
(* receivedblock_report after its write, or by block_report after a scan,  *)
(* although the datanode crashes or an answer is lost. Not so once a       *)
(* namenode closed the connection or forgot the datanode: a report that    *)
(* meets this is not queued again, and the scanner finds the block cached. *)
(***************************************************************************)
BlocksBecomeKnown ==
  \A n \in NameNode, b \in Block :
    (b \in file /\ b \notin removed[n]) ~>
      (b \in known[n] \/ b \in removed[n] \/ b \notin file \/ bad # None \/ faults.cut)

(***************************************************************************)
(* A block whose file was removed at a namenode loses its file on the      *)
(* datanode: the id travels in a heartbeat answer to delete_blks.  An      *)
(* order that meets a fault may be forgotten (block_object_del does not    *)
(* know the block before the scan after a restart).                        *)
(***************************************************************************)
DeletesHappen ==
  \A n \in NameNode, b \in Block :
    b \in removed[n] ~> (b \notin file \/ bad # None \/ faults.n # 0)

=============================================================================
