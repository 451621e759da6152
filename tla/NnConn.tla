------------------------------- MODULE NnConn -------------------------------
(***************************************************************************)
(* One connection of the namenode and the threads its requests travel      *)
(* through: the network thread that owns it (namenode/nn_request.c, the    *)
(* event loop of nn_thread.c, dfs_epoll.c and dfs_event.c), the task       *)
(* threads and the paxos thread, the task queues between them              *)
(* (nn_task_queue.c) and the pipes that wake their readers (dfs_notice.c). *)
(*                                                                         *)
(* A request occupies one task node of the connection from nn_conn_decode  *)
(* until its answer is encoded; nodes are told apart by their request.     *)
(* The memory pool of the connection holds nn_conn_t and every node, and   *)
(* is destroyed by whoever finalizes a connection with no node in use.     *)
(* Bytes are counted in whole messages.                                    *)
(*                                                                         *)
(* The namenode has two network threads (dn_thread and cli_thread), and    *)
(* dispatch_task keeps the thread it has chosen in the global last_task,   *)
(* which both write without a lock and read again for the push and for the *)
(* wakeup.  The owner of the connection is modelled step by step; the      *)
(* other, which serves other connections, is what may be found in          *)
(* last_task (any task thread) and a source of wakeups (OtherWakes).       *)
(* Left out: an epoll_ctl that fails when EPOLLOUT is asked for            *)
(* (AwaitWritable).                                                        *)
(***************************************************************************)
EXTENDS Naturals, Sequences, FiniteSets

CONSTANTS
  Request,      \* the requests the peer may send, each once
  Logged,       \* those the task thread passes on to the paxos thread
  Silent,       \* those whose handler writes nothing back
  Bad,          \* those task_decode rejects
  Big,          \* those whose answer is larger than an empty out buffer
  TaskThread,   \* the task threads that may get tasks of this connection
  Elsewhere,    \* any task thread that gets none
  Paxos,
  Slot,         \* Slot[w]: the answer queue that worker thread w writes to
  QueueSize,    \* number of answer queues of the network thread
  MaxTask,      \* max_tqueue_len: task nodes of a connection
  InCap, OutCap \* messages that fit the in and the out buffer

Worker == TaskThread \cup {Paxos}

ASSUME NnConnAssumption ==
  /\ Logged \subseteq Request /\ Silent \subseteq Request
  /\ Bad \subseteq Request /\ Big \subseteq Request
  /\ Paxos \notin TaskThread /\ "net" \notin Worker
  /\ Elsewhere \notin Worker \cup {"net"}
  /\ QueueSize \in Nat \ {0} /\ Slot \in [Worker -> 0..QueueSize - 1]
  /\ MaxTask \in Nat \ {0}
  /\ InCap \in Nat \ {0} /\ OutCap \in Nat \ {0}

VARIABLES
  open,         \* the peer has not closed its end
  unsent,       \* requests the peer has yet to send
  sock,         \* what the kernel holds for recv
  inb,          \* mc->in
  state,        \* mc->state: ST_CONNCECTED or ST_DISCONNCECTED
  count,        \* mc->count
  free,         \* length of mc->free_task
  destroyed,    \* pool_destroy(mc->mempool) was called
  outTask,      \* mc->out_task
  out,          \* mc->out
  sent,         \* answers handed to the kernel, in order
  leaked,       \* requests whose handler returned without write_back
  ev,           \* epoll and timer flags of the connection
  posted,       \* posted_events of the network thread
  net,          \* what the network thread is doing
  batch,        \* batch[w]: the tasks w (or "net") popped and has yet to handle
  tq,           \* tq[w]: task queue of worker w
  bque,         \* bque[i]: answer queue i of the network thread
  wpc,          \* wpc[w]: where worker w stands
  wake,         \* wake[t]: bytes are in the notice pipe of thread t
  astray        \* task threads left with a task whose wakeup another thread got

peer  == <<open, unsent, sock>>
conn  == <<state, count, free, destroyed, leaked>>
outs  == <<outTask, out, sent>>
work  == <<tq, bque, wpc, wake, astray>>
vars  == <<open, unsent, sock, inb, state, count, free, destroyed, outTask, out,
           sent, leaked, ev, posted, net, batch, tq, bque, wpc, wake, astray>>

Thread == Worker \cup {"net"}

(***************************************************************************)
(* net.pc: "loop" between events, "recv" in the read handler, "decode",    *)
(* "dispatched" (task pushed, nobody woken yet), "pop" and "batch" in      *)
(* net_response_handler, "pack" and "send" in nn_conn_output.              *)
(* net.i: the answer queue at hand; net.then: where nn_conn_output returns *)
(* to; net.to: the thread that was given the task.                         *)
(***************************************************************************)
NetPc == {"loop", "recv", "decode", "dispatched", "pop", "batch", "pack", "send"}

TypeOK ==
  /\ open \in BOOLEAN /\ unsent \subseteq Request
  /\ sock \in Seq(Request) /\ inb \in Seq(Request)
  /\ state \in {"connected", "disconnected"}
  /\ count \in Nat /\ free \in Nat /\ destroyed \in BOOLEAN
  /\ outTask \in Seq(Request) /\ out \in Seq(Request) /\ sent \in Seq(Request)
  /\ leaked \subseteq Request
  /\ ev \in [rd : BOOLEAN, slow : BOOLEAN, wr : BOOLEAN, ready : BOOLEAN,
             timer : BOOLEAN]
  /\ posted \in Seq({"read", "write", "notice"})
  /\ net \in [pc : NetPc, i : 0..QueueSize, then : {"loop", "batch", "recv"},
              to : Worker]
  /\ batch \in [Thread -> Seq(Request)]
  /\ tq \in [Worker -> Seq(Request)] /\ bque \in [0..QueueSize - 1 -> Seq(Request)]
  /\ wpc \in [Worker -> {"idle", "pop", "run", "toPaxos", "toNet"}]
  /\ wake \in [Thread -> BOOLEAN]
  /\ astray \subseteq TaskThread

\* nn_conn_init: every node free, the read event added, not yet writable.
Init ==
  /\ open = TRUE /\ unsent = Request /\ sock = <<>> /\ inb = <<>>
  /\ state = "connected" /\ count = 0 /\ free = MaxTask /\ destroyed = FALSE
  /\ outTask = <<>> /\ out = <<>> /\ sent = <<>> /\ leaked = {}
  /\ ev = [rd |-> TRUE, slow |-> FALSE, wr |-> FALSE, ready |-> FALSE,
           timer |-> FALSE]
  /\ posted = <<>>
  /\ net = [pc |-> "loop", i |-> 0, then |-> "loop", to |-> Paxos]
  /\ batch = [t \in Thread |-> <<>>]
  /\ tq = [w \in Worker |-> <<>>] /\ bque = [i \in 0..QueueSize - 1 |-> <<>>]
  /\ wpc = [w \in Worker |-> "idle"] /\ wake = [t \in Thread |-> FALSE]
  /\ astray = {}

----------------------------------------------------------------------------
(* The peer. *)

PeerSend(r) ==
  /\ open /\ state = "connected" /\ r \in unsent
  /\ unsent' = unsent \ {r} /\ sock' = Append(sock, r)
  /\ UNCHANGED <<open, inb, conn, outs, ev, posted, net, batch, work>>

PeerClose ==
  /\ open /\ state = "connected" /\ open' = FALSE
  /\ UNCHANGED <<unsent, sock, inb, conn, outs, ev, posted, net, batch, work>>

----------------------------------------------------------------------------
(* Queues and the life of the connection. *)

\* push_task inserts at the head, and pop_all's readers start from the head.
push_task(q, r) == <<r>> \o q

\* nn_conn_free_task, for n nodes of a connection that is still connected.
FreeNodes(n) == count' = count - n /\ free' = free + n

\* (mutant: out_task is emptied without nn_conn_free_task)
nn_conn_finalize_KeepNodes ==
  /\ state' = "disconnected" /\ UNCHANGED <<count, free, leaked>>
  /\ outTask' = <<>>
  /\ ev' = [rd |-> FALSE, slow |-> FALSE, wr |-> FALSE, ready |-> FALSE,
            timer |-> FALSE]
  /\ destroyed' = (count' = 0)

\* (mutant: the pool is destroyed whatever the count)
nn_conn_finalize_Always ==
  /\ state' = "disconnected"
  /\ IF state = "connected" THEN FreeNodes(Len(outTask)) ELSE UNCHANGED <<count, free>>
  /\ outTask' = <<>>
  /\ ev' = [rd |-> FALSE, slow |-> FALSE, wr |-> FALSE, ready |-> FALSE,
            timer |-> FALSE]
  /\ destroyed' = TRUE
  /\ UNCHANGED leaked

\* nn_conn_finalize: close, free the answers that wait in out_task, and destroy
\* the pool unless a node is in use elsewhere.
nn_conn_finalize ==
  /\ state' = "disconnected"
  /\ IF state = "connected" THEN FreeNodes(Len(outTask)) ELSE UNCHANGED <<count, free>>
  /\ outTask' = <<>>
  /\ ev' = [rd |-> FALSE, slow |-> FALSE, wr |-> FALSE, ready |-> FALSE,
            timer |-> FALSE]
  /\ destroyed' = (count' = 0)
  /\ UNCHANGED leaked

----------------------------------------------------------------------------
(* The event loop of the network thread. *)

\* What epoll_wait may report of the connection: writability is up to the peer.
Readable == ev.rd /\ (sock # <<>> \/ ~open)
ConnEvents(writable) ==
  (IF Readable THEN <<"read">> ELSE <<>>) \o
  (IF ev.wr /\ writable THEN <<"write">> ELSE <<>>)
NoticeEvents == IF wake["net"] THEN <<"notice">> ELSE <<>>

\* epoll_process_events posts what is reported; the write flag is set at once.
epoll_process_events(writable) ==
  /\ net.pc = "loop" /\ posted = <<>>
  /\ posted' \in {ConnEvents(writable) \o NoticeEvents,
                  NoticeEvents \o ConnEvents(writable)}
  /\ posted' # <<>>
  /\ ev' = [ev EXCEPT !.ready = @ \/ (ev.wr /\ writable)]
  /\ UNCHANGED <<peer, inb, conn, outs, net, batch, work>>

\* event_process_posted: an event of a closed descriptor is skipped.
Skip ==
  /\ net.pc = "loop" /\ posted # <<>> /\ Head(posted) # "notice"
  /\ state = "disconnected"
  /\ posted' = Tail(posted)
  /\ UNCHANGED <<peer, inb, conn, outs, ev, net, batch, work>>

OnEvent(e) ==
  /\ net.pc = "loop" /\ posted # <<>> /\ Head(posted) = e
  /\ e = "notice" \/ state = "connected"
  /\ posted' = Tail(posted)

ReadEvent ==
  /\ OnEvent("read") /\ net' = [net EXCEPT !.pc = "recv"]
  /\ UNCHANGED <<peer, inb, conn, outs, ev, batch, work>>

\* noice_read_event_handler drains the pipe before it calls back.
NoticeEvent ==
  /\ OnEvent("notice")
  /\ wake' = [wake EXCEPT !["net"] = FALSE]
  /\ net' = [net EXCEPT !.pc = "pop", !.i = 0]
  /\ UNCHANGED <<peer, inb, conn, outs, ev, batch, tq, bque, wpc, astray>>

----------------------------------------------------------------------------
(* Reading. *)

\* nn_conn_read_handler up to nn_conn_recv: recv is repeated until it would block,
\* the buffer is full, or it reports the end (or loss) of the connection.
nn_conn_recv ==
  LET room == InCap - Len(inb)
      k    == IF Len(sock) < room THEN Len(sock) ELSE room
  IN  /\ inb' = inb \o SubSeq(sock, 1, k)
      /\ sock' = SubSeq(sock, k + 1, Len(sock))

nn_conn_read_handler ==
  /\ net.pc = "recv"
  /\ UNCHANGED <<open, unsent, posted, batch, work>>
  /\ \/ /\ state = "disconnected" /\ net' = [net EXCEPT !.pc = "loop"]
        /\ UNCHANGED <<sock, inb, conn, outs, ev>>
     \/ /\ state = "connected" /\ nn_conn_recv
        /\ IF ~open /\ Len(inb') < InCap
           THEN /\ nn_conn_finalize /\ UNCHANGED <<out, sent>>
                /\ net' = [net EXCEPT !.pc = "loop"]
           ELSE /\ net' = [net EXCEPT !.pc = "decode"]
                /\ UNCHANGED <<conn, outs, ev>>

\* (mutant: the one-second timer is not set)
DecodeBusy_NoTimer ==
  /\ net.pc = "decode" /\ count >= MaxTask
  /\ ev' = [ev EXCEPT !.rd = FALSE]
  /\ net' = [net EXCEPT !.pc = "loop"]
  /\ UNCHANGED <<peer, inb, conn, outs, posted, batch, work>>

\* nn_conn_get_task refused: stop reading and come back in a second.
DecodeBusy ==
  /\ net.pc = "decode" /\ count >= MaxTask
  /\ ev' = [ev EXCEPT !.rd = FALSE, !.slow = TRUE]
  /\ net' = [net EXCEPT !.pc = "loop"]
  /\ UNCHANGED <<peer, inb, conn, outs, posted, batch, work>>

\* Nothing (complete) to decode: the node taken is freed again.
DecodeAgain ==
  /\ net.pc = "decode" /\ count < MaxTask /\ inb = <<>>
  /\ net' = [net EXCEPT !.pc = "loop"]
  /\ UNCHANGED <<peer, inb, conn, outs, ev, posted, batch, work>>

\* Protocol error: the node is freed, the buffer reset, the connection closed.
DecodeError ==
  /\ net.pc = "decode" /\ count < MaxTask /\ inb # <<>> /\ Head(inb) \in Bad
  /\ inb' = <<>> /\ nn_conn_finalize
  /\ net' = [net EXCEPT !.pc = "loop"]
  /\ UNCHANGED <<peer, out, sent, posted, batch, work>>

\* task_decode succeeded: dispatch_task pushes the node on the queue of the thread
\* it finds in last_task, that of the key's hash unless the other network thread
\* has written last_task since, ...
DecodeTask ==
  /\ net.pc = "decode" /\ count < MaxTask /\ inb # <<>> /\ Head(inb) \notin Bad
  /\ \E w \in TaskThread :
       /\ tq' = [tq EXCEPT ![w] = push_task(@, Head(inb))]
       /\ net' = [net EXCEPT !.pc = "dispatched", !.to = w]
  /\ inb' = Tail(inb) /\ count' = count + 1 /\ free' = free - 1
  /\ UNCHANGED <<peer, state, destroyed, leaked, outs, ev, posted, batch, bque,
                 wpc, wake, astray>>

\* Nobody has told w of what is in its queue.
Untold(w) == tq[w] # <<>> /\ ~wake[w] /\ wpc[w] # "pop"

\* ... and wakes the thread it then finds there.
Dispatched ==
  /\ net.pc = "dispatched"
  /\ \E v \in TaskThread \cup {Elsewhere} :
       /\ wake' = [wake EXCEPT ![v] = TRUE]
       /\ astray' = (astray \cup {w \in {net.to} : Untold(w)}) \ {v}
  /\ net' = [net EXCEPT !.pc = "decode"]
  /\ UNCHANGED <<peer, inb, conn, outs, ev, posted, batch, tq, bque, wpc>>

\* dispatch_task of the other network thread wakes t, which makes up for a wakeup
\* that went astray (at other times t would only look at its queue once more, or
\* sooner than its own wakeup tells it to).
OtherWakes(t) ==
  /\ t \in astray
  /\ wake' = [wake EXCEPT ![t] = TRUE] /\ astray' = astray \ {t}
  /\ UNCHANGED <<peer, inb, conn, outs, ev, posted, net, batch, tq, bque, wpc>>

----------------------------------------------------------------------------
(* Answering. *)

\* nn_conn_output: nothing to do while a full buffer waits for the peer.
StartOutput(then) ==
  net' = [net EXCEPT !.pc = IF ~ev'.ready /\ out # <<>> THEN then ELSE "pack",
                     !.then = then]

\* nn_conn_write_handler on EPOLLOUT: the write timer is removed first.
WriteEvent ==
  /\ OnEvent("write")
  /\ ev' = [ev EXCEPT !.timer = FALSE]
  /\ StartOutput("loop")
  /\ UNCHANGED <<peer, inb, conn, outs, batch, work>>

\* (mutant: only the first answer queue is looked at)
PopAnswers_First ==
  /\ net.pc = "pop"
  /\ IF net.i = 1
     THEN net' = [net EXCEPT !.pc = "loop"] /\ UNCHANGED <<batch, bque>>
     ELSE /\ batch' = [batch EXCEPT !["net"] = bque[net.i]]
          /\ bque' = [bque EXCEPT ![net.i] = <<>>]
          /\ net' = [net EXCEPT !.pc = "batch", !.i = @ + 1]
  /\ UNCHANGED <<peer, inb, conn, outs, ev, posted, tq, wpc, wake, astray>>

\* net_response_handler: empty the answer queues one after the other.
PopAnswers ==
  /\ net.pc = "pop"
  /\ IF net.i = QueueSize
     THEN net' = [net EXCEPT !.pc = "loop"] /\ UNCHANGED <<batch, bque>>
     ELSE /\ batch' = [batch EXCEPT !["net"] = bque[net.i]]
          /\ bque' = [bque EXCEPT ![net.i] = <<>>]
          /\ net' = [net EXCEPT !.pc = "batch", !.i = @ + 1]
  /\ UNCHANGED <<peer, inb, conn, outs, ev, posted, tq, wpc, wake, astray>>

\* write_back_pack_queue has no task left.
BatchDone ==
  /\ net.pc = "batch" /\ batch["net"] = <<>>
  /\ net' = [net EXCEPT !.pc = "pop"]
  /\ UNCHANGED <<peer, inb, conn, outs, ev, posted, batch, work>>

\* (mutant: the last node of a closed connection does not finalize it)
nn_conn_outtask_NoFinalize ==
  /\ net.pc = "batch" /\ batch["net"] # <<>>
  /\ batch' = [batch EXCEPT !["net"] = Tail(@)]
  /\ IF state = "connected"
     THEN /\ outTask' = Append(outTask, Head(batch["net"]))
          /\ UNCHANGED <<conn, ev>> /\ StartOutput("batch")
     ELSE /\ FreeNodes(1)
          /\ UNCHANGED <<state, destroyed, leaked, outTask, ev, net>>
  /\ UNCHANGED <<peer, inb, out, sent, posted, work>>

\* nn_conn_outtask: queue the answer, or drop it if the connection is gone; the
\* last node of a closed connection takes the connection with it.
nn_conn_outtask ==
  /\ net.pc = "batch" /\ batch["net"] # <<>>
  /\ batch' = [batch EXCEPT !["net"] = Tail(@)]
  /\ IF state = "connected"
     THEN /\ outTask' = Append(outTask, Head(batch["net"]))
          /\ UNCHANGED <<conn, ev>> /\ StartOutput("batch")
     ELSE /\ FreeNodes(1) /\ destroyed' = (count' = 0)
          /\ UNCHANGED <<state, leaked, outTask, ev, net>>
  /\ UNCHANGED <<peer, inb, out, sent, posted, work>>

\* How many answers of out_task task_encode fits into the out buffer: it stops at
\* the first that does not fit.
Fits == CHOOSE k \in 0..Len(outTask) :
          /\ Len(out) + k <= OutCap
          /\ \A j \in 1..k : outTask[j] \notin Big
          /\ k = Len(outTask) \/ Len(out) + k = OutCap \/ outTask[k + 1] \in Big

Return == net' = [net EXCEPT !.pc = net.then]

\* (mutant: EPOLLOUT is not asked for)
AwaitWritable_NoEvent == ev' = [ev EXCEPT !.ready = FALSE, !.timer = TRUE]

\* The peer is not ready: wait for EPOLLOUT, but no longer than CONN_TIME_OUT.
AwaitWritable == ev' = [ev EXCEPT !.ready = FALSE, !.wr = TRUE, !.timer = TRUE]

\* nn_conn_output from repack to nn_conn_out_buffer.
Pack ==
  /\ net.pc = "pack"
  /\ out' = out \o SubSeq(outTask, 1, Fits)
  /\ outTask' = SubSeq(outTask, Fits + 1, Len(outTask))
  /\ FreeNodes(Fits)
  /\ \/ out' = <<>> /\ Return /\ UNCHANGED ev
     \/ out' # <<>> /\ ~ev.ready /\ AwaitWritable /\ Return
     \/ out' # <<>> /\ ev.ready /\ net' = [net EXCEPT !.pc = "send"] /\ UNCHANGED ev
  /\ UNCHANGED <<peer, inb, state, destroyed, leaked, sent, posted, batch, work>>

\* nn_conn_out_buffer: the kernel takes all of the buffer,
SendAll ==
  /\ net.pc = "send"
  /\ sent' = sent \o out /\ out' = <<>>
  /\ net' = [net EXCEPT !.pc = "pack"]
  /\ UNCHANGED <<peer, inb, conn, outTask, ev, posted, batch, work>>

\* (mutant: b->pos is not advanced)
SendSome_KeepPos(k) ==
  /\ net.pc = "send" /\ k < Len(out)
  /\ sent' = sent \o SubSeq(out, 1, k) /\ out' = out
  /\ AwaitWritable /\ Return
  /\ UNCHANGED <<peer, inb, conn, outTask, posted, batch, work>>

\* a part of it,
SendSome(k) ==
  /\ net.pc = "send" /\ k < Len(out)
  /\ sent' = sent \o SubSeq(out, 1, k) /\ out' = SubSeq(out, k + 1, Len(out))
  /\ AwaitWritable /\ Return
  /\ UNCHANGED <<peer, inb, conn, outTask, posted, batch, work>>

\* or reports an error, which closes the connection.
SendError ==
  /\ net.pc = "send" /\ nn_conn_finalize /\ Return
  /\ UNCHANGED <<peer, inb, out, sent, posted, batch, work>>

----------------------------------------------------------------------------
(* Timers: event_timers_expire runs when no posted event is left. *)

WriteTimeout ==
  /\ net.pc = "loop" /\ posted = <<>> /\ ev.timer
  /\ nn_conn_finalize
  /\ UNCHANGED <<peer, inb, out, sent, posted, net, batch, work>>

\* nn_conn_timer_handler: read again, after a call of the write handler (which
\* removes the write timer); if the read event cannot be added, close.
nn_conn_timer_handler ==
  /\ net.pc = "loop" /\ posted = <<>> /\ ev.slow
  /\ \/ /\ ev' = [ev EXCEPT !.slow = FALSE, !.rd = TRUE, !.timer = FALSE]
        /\ StartOutput("recv")
        /\ UNCHANGED <<conn, outTask>>
     \/ nn_conn_finalize /\ UNCHANGED net
  /\ UNCHANGED <<peer, inb, out, sent, posted, batch, work>>

----------------------------------------------------------------------------
(* The task threads and the paxos thread. *)

\* noice_read_event_handler: drain the pipe, then call do_task_handler ...
Woken(w) ==
  /\ wpc[w] = "idle" /\ wake[w]
  /\ wake' = [wake EXCEPT ![w] = FALSE] /\ wpc' = [wpc EXCEPT ![w] = "pop"]
  /\ UNCHANGED <<peer, inb, conn, outs, ev, posted, net, batch, tq, bque, astray>>

\* ... which takes the whole queue,
pop_all(w) ==
  /\ wpc[w] = "pop"
  /\ batch' = [batch EXCEPT ![w] = tq[w]] /\ tq' = [tq EXCEPT ![w] = <<>>]
  /\ wpc' = [wpc EXCEPT ![w] = "run"]
  /\ UNCHANGED <<peer, inb, conn, outs, ev, posted, net, bque, wake, astray>>

\* (mutant: the pipe is drained after the tasks have been taken)
RunDone_DrainAfter(w) ==
  /\ wpc[w] = "run" /\ batch[w] = <<>> /\ wpc' = [wpc EXCEPT ![w] = "idle"]
  /\ wake' = [wake EXCEPT ![w] = FALSE]
  /\ UNCHANGED <<peer, inb, conn, outs, ev, posted, net, batch, tq, bque, astray>>

RunDone(w) ==
  /\ wpc[w] = "run" /\ batch[w] = <<>> /\ wpc' = [wpc EXCEPT ![w] = "idle"]
  /\ UNCHANGED <<peer, inb, conn, outs, ev, posted, net, batch, tq, bque, wake, astray>>

\* and runs the handler of each task.  nn_mkdir, nn_rmr, nn_create,
\* nn_get_additional_blk, nn_close and nn_rm pass it to the paxos thread,
PassToPaxos(w, r) ==
  /\ w # Paxos /\ r \in Logged
  /\ tq' = [tq EXCEPT ![Paxos] = push_task(@, r)]
  /\ wpc' = [wpc EXCEPT ![w] = "toPaxos"]
  /\ UNCHANGED <<bque, leaked>>

\* nn_get_file_info and nn_dn_del_blk_report drop it,
Drop(w, r) ==
  /\ w # Paxos /\ r \in Silent \ Logged
  /\ leaked' = leaked \cup {r}
  /\ UNCHANGED <<tq, bque, wpc>>

\* the others, and every log_* handler of the paxos thread, answer.
write_back(w, r) ==
  /\ w = Paxos \/ r \notin Logged \cup Silent
  /\ bque' = [bque EXCEPT ![Slot[w]] = push_task(@, r)]
  /\ wpc' = [wpc EXCEPT ![w] = "toNet"]
  /\ UNCHANGED <<tq, leaked>>

do_task(w) ==
  /\ wpc[w] = "run" /\ batch[w] # <<>>
  /\ batch' = [batch EXCEPT ![w] = Tail(@)]
  /\ LET r == Head(batch[w]) IN PassToPaxos(w, r) \/ Drop(w, r) \/ write_back(w, r)
  /\ UNCHANGED <<peer, inb, state, count, free, destroyed, outs, ev, posted, net, wake,
                 astray>>

notice_wake_up(w) ==
  /\ wpc[w] \in {"toPaxos", "toNet"}
  /\ wake' = [wake EXCEPT ![IF wpc[w] = "toNet" THEN "net" ELSE Paxos] = TRUE]
  /\ wpc' = [wpc EXCEPT ![w] = "run"]
  /\ UNCHANGED <<peer, inb, conn, outs, ev, posted, net, batch, tq, bque, astray>>

----------------------------------------------------------------------------
NetStep ==
  \/ ReadEvent \/ NoticeEvent \/ WriteEvent \/ Skip
  \/ nn_conn_read_handler \/ DecodeBusy \/ DecodeAgain \/ DecodeError
  \/ DecodeTask \/ Dispatched \/ PopAnswers \/ BatchDone \/ nn_conn_outtask
  \/ Pack \/ SendAll \/ (\E k \in 0..OutCap : SendSome(k)) \/ SendError

WorkerStep(w) ==
  Woken(w) \/ pop_all(w) \/ RunDone(w) \/ do_task(w) \/ notice_wake_up(w)

Next ==
  \/ \E r \in Request : PeerSend(r)
  \/ PeerClose
  \/ \E b \in BOOLEAN : epoll_process_events(b)
  \/ NetStep
  \/ WriteTimeout \/ nn_conn_timer_handler
  \/ \E w \in Worker : WorkerStep(w)
  \/ \E t \in TaskThread : OtherWakes(t)

Spec == Init /\ [][Next]_vars

(***************************************************************************)
(* Fairness: every thread keeps running, epoll reports what is readable,   *)
(* and a timer that is set again and again goes off.  Answered needs a     *)
(* peer that reads, too (ReadingPeer): the write timer does not replace    *)
(* it, because WriteEvent and nn_conn_timer_handler may remove it and find *)
(* the peer still not ready.                                               *)
(***************************************************************************)
Fairness ==
  /\ WF_vars(NetStep)
  /\ SF_vars(epoll_process_events(FALSE))
  /\ SF_vars(WriteTimeout) /\ SF_vars(nn_conn_timer_handler)
  /\ \A w \in Worker : WF_vars(WorkerStep(w))

FairSpec == Spec /\ Fairness

ReadingPeer ==
  SF_vars(ev.wr /\ epoll_process_events(TRUE)) /\ SF_vars(SendAll)

ReadingSpec == FairSpec /\ ReadingPeer

----------------------------------------------------------------------------
(* Properties. *)

\* Where the node of a request can be, and the nodes in use.
Place == ({"tq"} \X Worker) \cup ({"batch"} \X Thread)
         \cup ({"bque"} \X (0..QueueSize - 1)) \cup {<<"out_task", 0>>}
At(p) == CASE p[1] = "tq"    -> tq[p[2]]
           [] p[1] = "batch" -> batch[p[2]]
           [] p[1] = "bque"  -> bque[p[2]]
           [] OTHER          -> outTask
InUse == {u \in Place \X (1..MaxTask) : u[2] \in DOMAIN At(u[1])}
Elems(q) == {q[j] : j \in DOMAIN q}
Waiting == {At(u[1])[u[2]] : u \in InUse}

\* mc->count is the number of nodes that are not in free_task, through every
\* path a node can take: it guards queue_head(&mc->free_task), which has no check
\* of its own, and it decides when the pool may go (nn_conn_get_task,
\* nn_conn_free_task).
NodesAccounted ==
  /\ TypeOK
  /\ count + free = MaxTask
  /\ count = Cardinality(InUse) + Cardinality(leaked)

\* The pool of a closed connection is destroyed exactly when the last node has
\* come back, whichever thread held it, and no handler that is under way still
\* needs the connection (nn_conn_finalize, nn_conn_timer_handler).
PoolDestroyedLast ==
  /\ destroyed <=> (state = "disconnected" /\ InUse = {} /\ leaked = {})
  /\ destroyed => net.pc \in {"loop", "pop", "batch"}

\* A request has one node and gets at most one answer.
OneAnswer ==
  /\ Cardinality(Elems(sent)) = Len(sent)
  /\ Cardinality(Waiting) = Cardinality(InUse)
  /\ Waiting \cap (Elems(sent) \cup Elems(out)) = {}

\* A queue with a task in it has a reader that is about to look at it: a byte in
\* its pipe, the reader between draining the pipe and pop_all, or a writer between
\* push_task and notice_wake_up.  The one way a task is left without: dispatch_task
\* of the other network thread wrote last_task between the push and the wakeup,
\* and nobody has woken the thread since; then the task is left indeed.
Answering == net.pc \in {"pop", "batch"}
             \/ (net.pc \in {"pack", "send"} /\ net.then = "batch")
NoLostWakeup ==
  /\ \A w \in Worker : tq[w] # <<>> =>
       \/ wake[w] \/ wpc[w] = "pop"
       \/ net.pc = "dispatched" /\ net.to = w
       \/ w = Paxos /\ \E v \in Worker : wpc[v] = "toPaxos"
       \/ w \in astray
  /\ \A i \in 0..QueueSize - 1 : bque[i] # <<>> =>
       \/ wake["net"] \/ (Answering /\ net.i <= i)
       \/ \E v \in Worker : wpc[v] = "toNet"
  /\ \A w \in astray : Untold(w)

\* Between events nothing the connection must still do is left without something
\* that will call it: answers wait for EPOLLOUT, or behind one that is too large
\* for the buffer; requests wait for EPOLLIN, or for the one-second timer.
NeverStalls ==
  (net.pc = "loop" /\ posted = <<>> /\ state = "connected") =>
    /\ out # <<>> => ev.wr /\ ~ev.ready
    /\ (out = <<>> /\ outTask # <<>>) => Head(outTask) \in Big
    /\ ev.rd # ev.slow

\* Every request that was decoded is answered, unless the connection closes, its
\* handler writes nothing back, or it lies for ever with a task thread whose wakeup
\* went astray.  (FairSpec with a peer that reads; no answer larger than the buffer.)
Forgotten(r) == \E w \in astray : r \in Elems(tq[w])
Answered ==
  \A r \in Request :
    (r \in Waiting) ~> \/ r \in Elems(sent) \/ state = "disconnected" \/ r \in leaked
                       \/ []Forgotten(r)

\* A connection that ran out of nodes goes on reading when answers return them,
\* unless one of its nodes lies with a thread whose wakeup went astray.
Accepted ==
  \A r \in Request :
    (r \in Elems(sock)) ~> \/ r \in Waiting \cup Elems(sent) \cup leaked
                           \/ state = "disconnected" \/ [](astray # {})

\* The memory of a closed connection is given back, unless a handler kept a node or
\* one lies with a thread whose wakeup went astray.
Reclaimed ==
  (state = "disconnected") ~> (destroyed \/ leaked # {} \/ [](astray # {}))
=============================================================================
