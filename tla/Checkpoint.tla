---------------------------- MODULE Checkpoint ----------------------------
(***************************************************************************)
(* Checkpoint and restart of a namenode (do_checkpoint and load_image of   *)
(* namenode/nn_file_index.c, the trigger in namenode/nn_paxos.c, replay    *)
(* through PhxEditlogSM::Execute), for a workload that only adds: mkdir,   *)
(* create and close of paths whose parent directory is there, and creates  *)
(* that time out.  Removals, and requests the handlers refuse, are in      *)
(* FileIndex.                                                              *)
(*                                                                         *)
(* save_image walks g_checkpoint_q without the lock and stops at the first *)
(* inode modified after it began; a child's arrival modifies its parent.   *)
(* The clock is taken to have moved on between the start of a save and any *)
(* operation that follows it.                                              *)
(***************************************************************************)
EXTENDS Naturals, Sequences, SequencesExt

CONSTANTS
  Key, Root,
  Parent,       \* Parent[k], for k other than Root
  Ops,          \* the requests clients send, of "mkdir", "create", "close"
  CkpNum,       \* server.checkpoint_num
  Thread,       \* bound of the model: checkpoint threads alive at a time
  MaxLog,       \* bound of the model: length of the editlog
  SaveFails     \* may a save of image and id be cut short (crash, disk error)?

ASSUME CheckpointAssumption ==
  /\ Root \in Key /\ Parent \in [Key \ {Root} -> Key]
  /\ Ops \subseteq {"mkdir", "create", "close"}
  /\ CkpNum \in Nat \ {0} /\ MaxLog \in Nat
  /\ SaveFails \in BOOLEAN

VARIABLES
  log,          \* the editlog: what paxos has chosen, instance i at position i
  queue,        \* g_checkpoint_q: the inodes of directories and closed files
  creating,     \* the stores in state KEY_STATE_CREATING, newest last
  lost,         \* inodes of the index that a walk of g_checkpoint_q no longer meets
  twice,        \* keys linked under their parent twice: its children_num is too high
  opNum,        \* g_edit_op_num
  pc,           \* pc[t]: where checkpoint thread t stands in do_checkpoint
  at,           \* at[t]: the next position of queue its save_image looks at
  dirty,        \* dirty[t]: positions of queue modified since its save began
  lastId,       \* lastCheckpointInstanceID
  smId,         \* m_llCheckpointInstanceID: paxos may drop the log up to it
  image, ckpid, \* current/fsimage and current/ckpid
  tmp,          \* does lastcheckpoint.tmp exist?
  phase         \* "up", "down", or "dead": replay followed a NULL pointer

memory == <<queue, creating, lost, twice>>
disk == <<image, ckpid, tmp>>
threads == <<pc, at, dirty>>
vars == <<log, memory, opNum, threads, lastId, smId, disk, phase>>

-----------------------------------------------------------------------------
(* The operations of the state machine, on m, the memory and a flag ok *)

Inode(k, kd, id) == [key |-> k, kind |-> kd, uid |-> id]

Position(q, k) == {i \in DOMAIN q : q[i].key = k}

Newest(S) == CHOOSE i \in S : \A x \in S : x <= i

\* fparent is a directory in the index, which holds the stores of q.
ParentThere(q, k) ==
  k = Root \/ \E i \in Position(q, Parent[k]) : q[i].kind = "dir"

\* update_fi_mkdir, which load_image uses for directories and files alike.
update_fi_mkdir(m, ino) ==
  IF ParentThere(m.queue \o m.lost, ino.key)
    THEN [m EXCEPT !.queue = Append(@, ino)]
    ELSE [m EXCEPT !.ok = FALSE]

update_fi_create(m, k, id) ==
  [m EXCEPT !.creating = Append(@, Inode(k, "creating", id))]

\* A store that is linked already is inserted at the tail a second time: its
\* old predecessor still leads to it, and what stood behind it is cut off.
Relink(m, k) ==
  LET js == Position(m.queue, k)
      ls == Position(m.lost, k)
      j  == Newest(js)
      l  == Newest(ls)
  IN IF js # {}
       THEN [m EXCEPT !.queue = SubSeq(@, 1, j),
                      !.lost = @ \o SubSeq(m.queue, j + 1, Len(m.queue)),
                      !.twice = @ \cup {k}]
       ELSE [m EXCEPT !.queue = Append(@, m.lost[l]),
                      !.lost = RemoveAt(@, l),
                      !.twice = @ \cup {k}]

\* The newest store of k gets linked.  With no store of k, NULL is followed.
update_fi_close(m, k) ==
  LET js == Position(m.creating, k)
      j  == Newest(js)
  IN CASE ~ParentThere(m.queue \o m.lost, k) -> [m EXCEPT !.ok = FALSE]
       [] ParentThere(m.queue \o m.lost, k) /\ js # {} ->
            [m EXCEPT !.queue = Append(@, Inode(k, "file", m.creating[j].uid)),
                      !.creating = RemoveAt(@, j)]
       [] OTHER -> IF Position(m.queue \o m.lost, k) # {} THEN Relink(m, k)
                                                          ELSE [m EXCEPT !.ok = FALSE]

\* update_fi_cache_mgmt
Execute(m, e) ==
  CASE e.op = "mkdir"  -> update_fi_mkdir(m, Inode(e.key, "dir", e.id))
    [] e.op = "create" -> update_fi_create(m, e.key, e.id)
    [] e.op = "close"  -> update_fi_close(m, e.key)

Empty == [queue |-> <<>>, creating |-> <<>>, lost |-> <<>>, twice |-> {}, ok |-> TRUE]

load_image(img) == FoldLeft(update_fi_mkdir, Empty, img)

\* paxos hands every instance after the checkpoint to Execute.
Replay(m, l, id) == FoldLeft(Execute, m, SubSeq(l, id + 1, Len(l)))

-----------------------------------------------------------------------------
(* Requests *)

\* The checkpoint thread is created on every CkpNum-th operation.
inc_edit_op_num ==
  \/ /\ opNum + 1 < CkpNum
     /\ opNum' = opNum + 1
     /\ UNCHANGED pc
  \/ /\ opNum + 1 >= CkpNum
     /\ opNum' = 0
     /\ \/ \E t \in Thread : pc[t] = "idle" /\ pc' = [pc EXCEPT ![t] = "start"]
        \/ UNCHANGED pc                             \* pthread_create fails

\* Operation op on k is logged, executed and counted.
Propose(op, k) ==
  LET e == [op |-> op, key |-> k, id |-> Len(log) + 1]
      m == Execute([queue |-> queue, creating |-> creating, lost |-> lost,
                    twice |-> twice, ok |-> TRUE], e)
  IN /\ phase = "up" /\ op \in Ops /\ Len(log) < MaxLog
     /\ ParentThere(queue \o lost, k)
     /\ log' = Append(log, e)
     /\ queue' = m.queue /\ creating' = m.creating
     /\ dirty' = [t \in Thread |->
          IF m.queue = queue THEN dirty[t]
          ELSE dirty[t] \cup {Len(m.queue)}
                 \cup (IF k = Root THEN {} ELSE Position(queue, Parent[k]))]
     /\ inc_edit_op_num
     /\ UNCHANGED <<lost, twice, at, lastId, smId, disk, phase>>

Absent(k) == Position(queue \o lost, k) = {} /\ Position(creating, k) = {}

log_mkdir(k) == Absent(k) /\ Propose("mkdir", k)

log_create(k) == k # Root /\ Absent(k) /\ Propose("create", k)

log_close(k) == /\ Position(creating, k) # {} /\ Position(queue \o lost, k) = {}
                /\ Propose("close", k)

\* Not logged, and on a replica that replays the create not armed.
fi_create_timeout(k) ==
  /\ phase = "up"
  /\ \E j \in Position(creating, k) : creating' = RemoveAt(creating, j)
  /\ UNCHANGED <<log, queue, lost, twice, opNum, threads, lastId, smId, disk, phase>>

-----------------------------------------------------------------------------
(* do_checkpoint, in thread t *)

Goto(t, from, to) == phase = "up" /\ pc[t] = from /\ pc' = [pc EXCEPT ![t] = to]

\* Mutant: EEXIST of lastcheckpoint.tmp is tolerated.
mv_current_Exist(t) ==
  /\ Goto(t, "start", "copied")
  /\ tmp' = TRUE
  /\ UNCHANGED <<log, memory, opNum, at, dirty, lastId, smId, image, ckpid, phase>>

\* mkdir of lastcheckpoint.tmp fails if it is there.
mv_current(t) ==
  /\ \/ tmp /\ Goto(t, "start", "idle") /\ UNCHANGED tmp
     \/ ~tmp /\ Goto(t, "start", "copied") /\ tmp' = TRUE
  /\ UNCHANGED <<log, memory, opNum, at, dirty, lastId, smId, image, ckpid, phase>>

\* start_time is taken and the image file truncated.
save_image(t) ==
  /\ Goto(t, "copied", "writing")
  /\ image' = <<>>
  /\ at' = [at EXCEPT ![t] = 1]
  /\ dirty' = [dirty EXCEPT ![t] = {}]
  /\ UNCHANGED <<log, memory, opNum, lastId, smId, ckpid, tmp, phase>>

\* Mutant: an entry modified during the save is skipped, and the walk goes on.
save_image_entry_Skip(t) ==
  /\ \/ /\ at[t] \in DOMAIN queue
        /\ Goto(t, "writing", "writing")
        /\ image' = IF at[t] \in dirty[t] THEN image ELSE Append(image, queue[at[t]])
        /\ at' = [at EXCEPT ![t] = @ + 1]
        /\ UNCHANGED lastId
     \/ /\ at[t] \notin DOMAIN queue
        /\ Goto(t, "writing", "saved")
        /\ lastId' = IF image = <<>> THEN 0 ELSE Last(image).uid
        /\ UNCHANGED <<image, at>>
  /\ UNCHANGED <<log, memory, opNum, dirty, smId, ckpid, tmp, phase>>

save_image_entry(t) ==
  /\ \/ /\ at[t] \in DOMAIN queue \ dirty[t]
        /\ Goto(t, "writing", "writing")
        /\ image' = Append(image, queue[at[t]])
        /\ at' = [at EXCEPT ![t] = @ + 1]
        /\ UNCHANGED lastId
     \/ /\ at[t] \notin DOMAIN queue \ dirty[t]
        /\ Goto(t, "writing", "saved")
        /\ lastId' = IF image = <<>> THEN 0 ELSE Last(image).uid
        /\ UNCHANGED <<image, at>>
  /\ UNCHANGED <<log, memory, opNum, dirty, smId, ckpid, tmp, phase>>

\* Mutant: the newest instance is saved, not the last one of the image.
save_checkpoinID_Newest(t) ==
  /\ Goto(t, "saved", "ided")
  /\ ckpid' = Len(log)
  /\ UNCHANGED <<log, memory, opNum, at, dirty, lastId, smId, image, tmp, phase>>

save_checkpoinID(t) ==
  /\ Goto(t, "saved", "ided")
  /\ ckpid' = lastId
  /\ UNCHANGED <<log, memory, opNum, at, dirty, lastId, smId, image, tmp, phase>>

\* mkdir, opendir, open, write or rename returns an error: do_checkpoint gives up
\* where it is, and lastcheckpoint.tmp stays.
save_error(t) ==
  /\ SaveFails
  /\ \/ ~tmp /\ Goto(t, "start", "idle") /\ tmp' = TRUE /\ UNCHANGED ckpid
     \/ \E from \in {"copied", "writing", "ided"} :
          Goto(t, from, "idle") /\ UNCHANGED <<ckpid, tmp>>
     \/ Goto(t, "saved", "idle") /\ ckpid' \in {ckpid, 0} /\ UNCHANGED tmp
  /\ UNCHANGED <<log, memory, opNum, at, dirty, lastId, smId, image, phase>>

mv_last_checkpoint(t) ==
  /\ Goto(t, "ided", "moved")
  /\ tmp' = FALSE
  /\ UNCHANGED <<log, memory, opNum, at, dirty, lastId, smId, image, ckpid, phase>>

set_checkpoint_instanceID(t) ==
  /\ Goto(t, "moved", "idle")
  /\ smId' = lastId
  /\ UNCHANGED <<log, memory, opNum, at, dirty, lastId, disk, phase>>

-----------------------------------------------------------------------------
(* Crash and restart *)

Saving(t) == pc[t] \in {"writing", "saved"}

Crash ==
  /\ phase = "up"
  /\ SaveFails \/ \A t \in Thread : ~Saving(t)
  /\ phase' = "down"
  /\ pc' = [t \in Thread |-> "idle"]
  /\ queue' = <<>> /\ creating' = <<>> /\ lost' = <<>> /\ twice' = {}
  /\ ckpid' \in {ckpid} \cup {0 : t \in {t \in Thread : pc[t] = "saved"}}
  /\ UNCHANGED <<log, opNum, at, dirty, lastId, smId, image, tmp>>

\* load_image, then replay from the checkpoint on.
Restart ==
  LET m == Replay(load_image(image), log, ckpid) IN
  /\ phase = "down"
  /\ phase' = IF m.ok THEN "up" ELSE "dead"
  /\ queue' = m.queue /\ creating' = m.creating
  /\ lost' = m.lost /\ twice' = m.twice
  /\ opNum' = 0
  /\ lastId' = ckpid /\ smId' = ckpid
  /\ at' = [t \in Thread |-> 1] /\ dirty' = [t \in Thread |-> {}]
  /\ UNCHANGED <<log, pc, disk>>

Init ==
  /\ log = <<>> /\ opNum = 0
  /\ queue = <<>> /\ creating = <<>> /\ lost = <<>> /\ twice = {}
  /\ pc = [t \in Thread |-> "idle"]
  /\ at = [t \in Thread |-> 1] /\ dirty = [t \in Thread |-> {}]
  /\ lastId = 0 /\ smId = 0
  /\ image = <<>> /\ ckpid = 0 /\ tmp = FALSE
  /\ phase = "up"

Next ==
  \/ \E k \in Key : log_mkdir(k) \/ log_create(k) \/ log_close(k) \/ fi_create_timeout(k)
  \/ \E t \in Thread :
       \/ mv_current(t) \/ save_image(t) \/ save_image_entry(t)
       \/ save_checkpoinID(t) \/ save_error(t) \/ mv_last_checkpoint(t)
       \/ set_checkpoint_instanceID(t)
  \/ Crash \/ Restart

Spec == Init /\ [][Next]_vars

-----------------------------------------------------------------------------
(* Properties *)

\* Every variable keeps its type, and the checkpoint queue of a namenode that was
\* rebuilt from an image and the whole editlog is no longer than both together.
TypeOK ==
  LET Inodes == [key : Key, kind : {"dir", "file", "creating"}, uid : 1 .. MaxLog] IN
  /\ log \in Seq([op : Ops, key : Key, id : 1 .. MaxLog]) /\ Len(log) <= MaxLog
  /\ queue \in Seq(Inodes) /\ creating \in Seq(Inodes) /\ image \in Seq(Inodes)
  /\ lost \in Seq(Inodes) /\ twice \subseteq Key
  /\ opNum \in 0 .. (CkpNum - 1)
  /\ pc \in [Thread -> {"idle", "start", "copied", "writing", "saved", "ided", "moved"}]
  /\ at \in [Thread -> 1 .. (2 * MaxLog + 1)]
  /\ dirty \in [Thread -> SUBSET (1 .. (2 * MaxLog))]
  /\ lastId \in 0 .. MaxLog /\ smId \in 0 .. MaxLog /\ ckpid \in 0 .. MaxLog
  /\ tmp \in BOOLEAN
  /\ phase \in {"up", "down", "dead"}

Listing(q) == {<<q[i].key, q[i].kind>> : i \in DOMAIN q}

\* "Every time of rebooting Namenode, the metadata mapping relationship will be
\* rebuilt through reconstruction of the fsimage and editlog" (README): a
\* running namenode holds each directory and closed file of the editlog once,
\* in its checkpoint queue and once under its parent, whatever checkpoints and
\* restarts lie behind it, and a restart comes up.
Rebuilt ==
  LET all == Replay(Empty, log, 0).queue IN
  /\ phase # "dead"
  /\ phase = "up" => /\ Len(queue) = Len(all) /\ Listing(queue) = Listing(all)
                     /\ twice = {}

\* What holds of it: as long as no crash or write error has interrupted a checkpoint
\* (which leaves lastcheckpoint.tmp for good), a namespace of directories is
\* rebuilt, with overlapping checkpoint threads, entries appended and touched
\* during save_image, and any number of restarts.
DirsRebuilt ==
  /\ TypeOK
  /\ (~tmp /\ \A i \in DOMAIN log : log[i].op = "mkdir") => Rebuilt

\* Checkpoint threads overlap when operations come fast, and lastcheckpoint.tmp
\* keeps them apart: at most one is between mv_current and mv_last_checkpoint.
OneWriter ==
  \A t, u \in {t \in Thread : pc[t] \in {"copied", "writing", "saved", "ided"}} : t = u

\* fsimage and ckpid are two files, written one after the other by a thread that
\* other checkpoints, write errors and crashes interrupt.  Whenever
\* lastcheckpoint.tmp is not there, the two belong together; otherwise it holds
\* the copy of the last pair that did.
DiskPaired ==
  tmp \/ ckpid = (IF image = <<>> THEN 0 ELSE Last(image).uid)
=============================================================================
