-------------------------- MODULE CheckpointProofs --------------------------
(***************************************************************************)
(* Proofs about the checkpoint files (Checkpoint.tla), for any number of   *)
(* checkpoint threads, any workload and any editlog length: the mkdir of   *)
(* lastcheckpoint.tmp keeps the threads apart, and fsimage and ckpid       *)
(* belong together whenever that directory is not there.  What replay      *)
(* rebuilds (Replay and load_image, which are folds) plays no part in it.  *)
(***************************************************************************)
EXTENDS Checkpoint, TLAPS

States == {"idle", "start", "copied", "writing", "saved", "ided", "moved"}

Writing == {"copied", "writing", "saved", "ided"}

SavedId == IF image = <<>> THEN 0 ELSE Last(image).uid

\* The inductive invariant.  OneWriter needs to know that a writer has made
\* lastcheckpoint.tmp; DiskPaired, which is only about the moments without it, that
\* what the writer will leave behind when it moves it away is a pair.
PcOK == pc \in [Thread -> States]

WriterHasTmp == \A t \in Thread : pc[t] \in Writing => tmp

SavedKnown == \A t \in Thread : pc[t] = "saved" => lastId = SavedId

IdWritten == \A t \in Thread : pc[t] = "ided" => ckpid = SavedId

NoThreadWhenDown == phase = "down" => \A t \in Thread : pc[t] = "idle"

CheckpointInv ==
  /\ PcOK /\ OneWriter /\ WriterHasTmp /\ SavedKnown /\ IdWritten
  /\ NoThreadWhenDown /\ DiskPaired

-----------------------------------------------------------------------------
\* Requests and the create timer touch neither the files nor lastId, and start at
\* most one thread, which does not write yet (inc_edit_op_num).
LEMMA RequestEffect ==
  ASSUME PcOK, NEW k \in Key,
         log_mkdir(k) \/ log_create(k) \/ log_close(k) \/ fi_create_timeout(k)
  PROVE  /\ phase = "up" /\ phase' = phase
         /\ image' = image /\ ckpid' = ckpid /\ tmp' = tmp /\ lastId' = lastId
         /\ \/ pc' = pc
            \/ \E t \in Thread : pc[t] = "idle" /\ pc' = [pc EXCEPT ![t] = "start"]
<1>1. ASSUME NEW op, Propose(op, k)
      PROVE  /\ phase = "up" /\ phase' = phase
             /\ image' = image /\ ckpid' = ckpid /\ tmp' = tmp /\ lastId' = lastId
             /\ inc_edit_op_num
  BY <1>1 DEF Propose, disk
<1>2. ASSUME inc_edit_op_num
      PROVE  \/ pc' = pc
             \/ \E t \in Thread : pc[t] = "idle" /\ pc' = [pc EXCEPT ![t] = "start"]
  BY <1>2 DEF inc_edit_op_num
<1>3. CASE log_mkdir(k)
  BY <1>1, <1>2, <1>3 DEF log_mkdir
<1>4. CASE log_create(k)
  BY <1>1, <1>2, <1>4 DEF log_create
<1>5. CASE log_close(k)
  BY <1>1, <1>2, <1>5 DEF log_close
<1>6. CASE fi_create_timeout(k)
  BY <1>6 DEF fi_create_timeout, disk, threads
<1> QED BY <1>3, <1>4, <1>5, <1>6

\* The namenode comes up with no file and no thread.
LEMMA CheckpointInvInit == Init => CheckpointInv
BY DEF Init, CheckpointInv, PcOK, OneWriter, WriterHasTmp, SavedKnown, IdWritten,
       NoThreadWhenDown, DiskPaired, SavedId, States, Writing

\* Every step of a request, a checkpoint thread, a crash or a restart keeps it.
LEMMA CheckpointInvNext == CheckpointInv /\ [Next]_vars => CheckpointInv'
<1> SUFFICES ASSUME CheckpointInv, [Next]_vars PROVE CheckpointInv'
  OBVIOUS
<1> USE DEF PcOK, OneWriter, WriterHasTmp, SavedKnown, IdWritten, NoThreadWhenDown,
            DiskPaired, SavedId, States, Writing
<1>1. ASSUME NEW k \in Key,
             log_mkdir(k) \/ log_create(k) \/ log_close(k) \/ fi_create_timeout(k)
      PROVE  CheckpointInv'
  BY <1>1, RequestEffect DEF CheckpointInv
<1>2. ASSUME NEW t \in Thread, mv_current(t) PROVE CheckpointInv'
  BY <1>2 DEF CheckpointInv, mv_current, Goto
<1>3. ASSUME NEW t \in Thread, save_image(t) PROVE CheckpointInv'
  BY <1>3 DEF CheckpointInv, save_image, Goto
<1>4. ASSUME NEW t \in Thread, save_image_entry(t) PROVE CheckpointInv'
  BY <1>4 DEF CheckpointInv, save_image_entry, Goto
<1>5. ASSUME NEW t \in Thread, save_checkpoinID(t) PROVE CheckpointInv'
  BY <1>5 DEF CheckpointInv, save_checkpoinID, Goto
<1>6. ASSUME NEW t \in Thread, save_error(t) PROVE CheckpointInv'
  BY <1>6 DEF CheckpointInv, save_error, Goto
<1>7. ASSUME NEW t \in Thread, mv_last_checkpoint(t) PROVE CheckpointInv'
  BY <1>7 DEF CheckpointInv, mv_last_checkpoint, Goto
<1>8. ASSUME NEW t \in Thread, set_checkpoint_instanceID(t) PROVE CheckpointInv'
  BY <1>8 DEF CheckpointInv, set_checkpoint_instanceID, Goto, disk
<1>9. CASE Crash
  BY <1>9 DEF CheckpointInv, Crash
<1>10. CASE Restart
  BY <1>10 DEF CheckpointInv, Restart, disk
<1>11. CASE UNCHANGED vars
  BY <1>11 DEF CheckpointInv, vars, disk, threads
<1> QED
  BY <1>1, <1>2, <1>3, <1>4, <1>5, <1>6, <1>7, <1>8, <1>9, <1>10, <1>11 DEF Next

-----------------------------------------------------------------------------
\* The inductive invariant holds in every reachable state.
LEMMA CheckpointInvHolds == Spec => []CheckpointInv
BY CheckpointInvInit, CheckpointInvNext, PTL DEF Spec

\* However many checkpoint threads inc_edit_op_num has started, at most one is
\* between mv_current and mv_last_checkpoint.
THEOREM WritersApart == Spec => []OneWriter
BY CheckpointInvHolds, PTL DEF CheckpointInv

\* Through write errors, crashes and restarts, whenever lastcheckpoint.tmp is not
\* there, ckpid names the last inode of fsimage.
THEOREM FilesPaired == Spec => []DiskPaired
BY CheckpointInvHolds, PTL DEF CheckpointInv
=============================================================================
