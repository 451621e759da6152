----------------------------- MODULE DnRequest -----------------------------
(***************************************************************************)
(* A network thread of a datanode serving clients that upload and download *)
(* blocks (datanode/dn_request.c, dn_conn_event.c, the event loop of       *)
(* dn_thread.c over dfs_epoll.c, dfs_event.c and dfs_event_timer.c, the    *)
(* connection pool, and the pool of I/O tasks cfs_fio.c), together with    *)
(* the workers that carry out its I/O as AsyncIo promises.                 *)
(*                                                                         *)
(* The thread runs one handler at a time; a handler is a step.  Between    *)
(* two handlers clients and workers move, and other connections get their  *)
(* turn.  Descriptors are the numbers the kernel hands out, lowest first:  *)
(* code that keeps a number may find it in other hands.  Data is counted   *)
(* in pieces.  What frees or links an object that is still in use is       *)
(* undefined; the model then sets bad and stops.  Left out: memory that    *)
(* cannot be had; the timer of dn_request_read_header, whose first event   *)
(* always finds something to read; and an answer of a few bytes that does  *)
(* not fit the still empty send buffer.                                    *)
(***************************************************************************)
EXTENDS Integers, Sequences, FiniteSets, SequencesExt, FiniteSetsExt

CONSTANTS
  Peer,         \* clients, each with one connection and one request
  Ops,          \* Ops[p]: the op_types it may send: "write", "read", "junk"
  Blk,          \* Blk[p]: the block it is about
  Size,         \* Size[b]: pieces of block b
  Stored,       \* the blocks stored from the start
  Conn,         \* the connections of the pool
  Fio,          \* I/O tasks that can be made
  FioMax, FioIdle, FioBatch, RefillLevel,   \* max, idle, batch, refill_level
  BufCap,       \* pieces that fit r->input
  TxCap,        \* pieces that fit the send buffer of a socket
  MayFail       \* a system call on a file may fail, once

ASSUME DnRequestAssumption ==
  /\ Ops \in [Peer -> SUBSET {"write", "read", "junk"}]
  /\ Stored \subseteq DOMAIN Size /\ Blk \in [Peer -> DOMAIN Size]
  /\ Size \in [DOMAIN Size -> Nat]
  /\ IsFiniteSet(Conn) /\ IsFiniteSet(Fio)
  /\ FioMax \in 1 .. Cardinality(Fio)
  /\ FioIdle \in 1 .. FioMax /\ FioBatch \in 1 .. FioMax
  /\ RefillLevel \in 0 .. FioBatch
  /\ BufCap \in Nat \ {0} /\ TxCap \in Nat \ {0} /\ MayFail \in BOOLEAN
  /\ "none" \notin Peer \cup Conn \cup Fio \cup DOMAIN Size
  /\ Peer \cap DOMAIN Size = {}

VARIABLES
  peer,     \* peer[p]: where client p stands, and what its socket holds
  conn,     \* conn[c]: conn_t with its events and its dn_request_t
  pool,     \* free_connections
  fdt,      \* fdt[d]: what descriptor d stands for
  fio,      \* fio[f]: file_io_t
  freeq,    \* freeq of the fio manager
  tmp,      \* tmp[b]: the file blocksBeingWritten/blk_b
  file,     \* file[b]: the file current/.../blk_b
  data,     \* data[i]: the pieces file i holds
  index,    \* the blocks block_object_get finds
  posted,   \* posted[c]: events reported and not yet handled
  bad,      \* what made the process undefined
  cause     \* what has gone wrong so far: "starved", "slow", "failed", "stale"

disk == <<tmp, file, data, index>>
tasks == <<fio, freeq>>
vars == <<peer, conn, pool, fdt, tasks, disk, posted, bad, cause>>

None == "none"
Block == DOMAIN Size
Fd == 1 .. 2 * Cardinality(Conn)

\* A connection in the pool.
Unused == [fd |-> 0, peer |-> None, rh |-> None, wh |-> None, sub |-> {}, edge |-> FALSE,
           ract |-> FALSE, wact |-> FALSE, wtimer |-> FALSE, etimer |-> FALSE,
           store |-> 0, fio |-> None, done |-> 0]

\* A task as cfs_fio_manager_refill makes it.
NewFio == [st |-> "free", io |-> "own", conn |-> None, fd |-> 0, off |-> 0, need |-> 0,
           ret |-> 0, sf |-> <<>>]
NoFio == [NewFio EXCEPT !.st = None]

\* The results of a task besides the number of pieces written.
EAGAIN == -2
ERROR == -1

\* A client and its socket; conn_t and dn_request_t; file_io_t.
Client_t == [pc : {"new", "open", "asked", "left"}, op : {None, "write", "read", "junk"},
             rx : Nat, sent : Nat, out : Seq((Block \cup {"header", "done"}) \X Nat),
             taken : Nat, cut : BOOLEAN]
Conn_t == [fd : Fd \cup {0}, peer : Peer \cup {None},
           rh : {None, "header", "check", "blocked"}, wh : {None, "header", "blocked", "again"},
           sub : SUBSET {"in", "out"}, edge : BOOLEAN, ract : BOOLEAN, wact : BOOLEAN,
           wtimer : BOOLEAN, etimer : BOOLEAN,
           store : Fd \cup {0}, fio : Fio \cup {None}, done : Nat]
Fio_t == [st : {None, "free", "used"}, io : {"own", "pending", "done"},
          conn : Conn \cup {None}, fd : Fd \cup {0}, off : Nat, need : Nat,
          ret : Int, sf : {<<>>} \cup ((Fd \cup {0}) \X (Fd \cup {0}))]

TypeOK ==
  /\ peer \in [Peer -> Client_t] /\ conn \in [Conn -> Conn_t] /\ fio \in [Fio -> Fio_t]
  /\ pool \in Seq(Conn) /\ freeq \in Seq(Fio)
  /\ fdt \in [Fd -> {<<>>} \cup ({"sock"} \X Peer) \cup ({"file"} \X (Peer \cup Block))]
  /\ tmp \in [Block -> Peer \cup {None}] /\ file \in [Block -> Peer \cup Block \cup {None}]
  /\ data \in [Peer \cup Block -> SUBSET Nat] /\ index \subseteq Block
  /\ posted \in [Conn -> SUBSET {"in", "out"}]
  /\ bad \in {None, "inflight", "timer", "twice", "double"}
  /\ cause \subseteq {"starved", "slow", "failed", "stale"}

Init ==
  /\ peer = [p \in Peer |-> [pc |-> "new", op |-> None, rx |-> 0, sent |-> 0, out |-> <<>>,
                             taken |-> 0, cut |-> FALSE]]
  /\ conn = [c \in Conn |-> Unused] /\ pool = SetToSeq(Conn)
  /\ fdt = [d \in Fd |-> <<>>]
  /\ freeq = SubSeq(SetToSeq(Fio), 1, FioIdle)
  /\ fio = [f \in Fio |-> IF f \in ToSet(freeq) THEN NewFio ELSE NoFio]
  /\ tmp = [b \in Block |-> None]
  /\ file = [b \in Block |-> IF b \in Stored THEN b ELSE None]
  /\ data = [i \in Peer \cup Block |-> IF i \in Stored THEN 1 .. Size[i] ELSE {}]
  /\ index = Stored
  /\ posted = [c \in Conn |-> {}] /\ bad = None /\ cause = {}

----------------------------------------------------------------------------
(* Sockets and clients. *)

Gone(p) == peer[p].pc = "left"

\* Room in the send buffer of p's socket.
Room(p) == TxCap - (Len(peer[p].out) - peer[p].taken)

\* A client whose connection is open moves; its socket is reported again where the
\* datanode has asked for events of that kind.
Move(p, new, events) ==
  /\ ~Gone(p) /\ ~peer[p].cut
  /\ peer' = [peer EXCEPT ![p] = new]
  /\ conn' = [c \in Conn |-> IF conn[c].peer = p /\ conn[c].sub \cap events # {}
                             THEN [conn[c] EXCEPT !.edge = TRUE] ELSE conn[c]]
  /\ UNCHANGED <<pool, fdt, tasks, disk, posted, bad, cause>>

Connect(p) == peer[p].pc = "new" /\ Move(p, [peer[p] EXCEPT !.pc = "open"], {})

SendHeader(p) ==
  /\ peer[p].pc = "open"
  /\ \E op \in Ops[p] :
       Move(p, [peer[p] EXCEPT !.pc = "asked", !.op = op, !.rx = 1], {"in"})

\* dfscli_put.c sends the block once it has the answer to the header.
SendPiece(p) ==
  /\ peer[p].op = "write" /\ peer[p].taken = 1 /\ peer[p].sent < Size[Blk[p]]
  /\ Move(p, [peer[p] EXCEPT !.sent = @ + 1, !.rx = @ + 1], {"in"})

Receive(p) ==
  /\ peer[p].taken < Len(peer[p].out)
  /\ Move(p, [peer[p] EXCEPT !.taken = @ + 1], IF Room(p) = 0 THEN {"out"} ELSE {})

\* The client closes its socket before the datanode does.
Leave(p) ==
  /\ peer[p].pc # "new"
  /\ Move(p, [peer[p] EXCEPT !.pc = "left", !.taken = 0], {"in", "out"})

----------------------------------------------------------------------------
(* What a handler works on: its request, the sockets and the I/O tasks. *)

Now(c) == [r |-> conn[c], peer |-> peer, fio |-> fio, freeq |-> freeq]

\* A call on a file fails here.
Failing == MayFail /\ "failed" \notin cause

\* The lowest descriptor that is free.
NewFd == Min({d \in Fd : fdt[d] = <<>>})

\* As many tasks as max allows join the tail of freeq.
cfs_fio_manager_refill(w, n) ==
  LET spare == SetToSeq({f \in Fio : w.fio[f].st = None})
      nelts == Cardinality(Fio) - Len(spare)
      new == SubSeq(spare, 1, Min({n, FioMax - nelts}))
  IN  [w EXCEPT !.freeq = @ \o new,
                !.fio = [f \in Fio |-> IF f \in ToSet(new) THEN NewFio ELSE @[f]]]

\* r->fio is the head of freeq, or stays empty.
cfs_fio_manager_alloc(w) ==
  LET v == IF w.freeq = <<>> THEN cfs_fio_manager_refill(w, FioBatch) ELSE w
      u == IF Len(v.freeq) < RefillLevel /\ v.freeq # <<>>
           THEN cfs_fio_manager_refill(v, FioBatch) ELSE v
  IN  IF u.freeq = <<>> THEN u
      ELSE [u EXCEPT !.r.fio = Head(u.freeq), !.freeq = Tail(u.freeq),
                     !.fio[Head(u.freeq)].st = "used"]

\* The task returns to the head of freeq.  Above idle a quarter of the surplus, or
\* all of it, is freed from that head.  Its sf_chain_task stays in the task.
cfs_fio_manager_free(w) ==
  LET q == <<w.r.fio>> \o w.freeq
      over == Len(q) - FioIdle
      gone == IF over <= 0 THEN 0 ELSE IF over \div 4 > 0 THEN over \div 4 ELSE over
      kill == ToSet(SubSeq(q, 1, gone))
  IN  [w EXCEPT !.freeq = SubSeq(q, gone + 1, Len(q)), !.r.fio = None,
                !.fio = [f \in Fio |-> IF f \in kill THEN NoFio
                                       ELSE IF f = w.r.fio THEN [NewFio EXCEPT !.sf = w.fio[f].sf, !.io = w.fio[f].io]
                                       ELSE @[f]]]

\* The event at hand is done with: "in" comes before "out".
Handled(c) ==
  posted' = [posted EXCEPT ![c] = IF "in" \in @ THEN @ \ {"in"} ELSE {}]

\* The handler ends with the connection still open.
Keep(c, w) ==
  /\ conn' = [conn EXCEPT ![c] = w.r]
  /\ peer' = w.peer /\ fio' = w.fio /\ freeq' = w.freeq
  /\ Handled(c)
  /\ UNCHANGED pool

\* What dn_request_close must not find: ev_timer still in the timer tree, which the
\* pool that is destroyed holds, or a task that a worker has yet to post.
Broken(w) ==
  IF w.r.etimer THEN "timer"
  ELSE IF w.r.fio # None /\ w.fio[w.r.fio].io # "own" THEN "inflight" ELSE bad

\* The timers, the place in epoll and the events go; the connection joins the head
\* of free_connections (conn_pool_free_connection).
conn_release(c) ==
  /\ conn' = [conn EXCEPT ![c] = Unused] /\ pool' = <<c>> \o pool
  /\ posted' = [posted EXCEPT ![c] = {}]

\* Mutant: the file is not closed.
dn_request_close_LeaksFile(c, w) ==
  LET v == IF w.r.fio = None THEN w ELSE cfs_fio_manager_free(w)
  IN  /\ peer' = [v.peer EXCEPT ![w.r.peer].cut = TRUE, ![w.r.peer].rx = 0]
      /\ fio' = v.fio /\ freeq' = v.freeq
      /\ fdt' = [fdt EXCEPT ![w.r.fd] = <<>>]
      /\ conn_release(c)
      /\ bad' = Broken(w)

\* The task, the file, the pools, the socket and the connection.
dn_request_close(c, w) ==
  LET v == IF w.r.fio = None THEN w ELSE cfs_fio_manager_free(w)
  IN  /\ peer' = [v.peer EXCEPT ![w.r.peer].cut = TRUE, ![w.r.peer].rx = 0]
      /\ fio' = v.fio /\ freeq' = v.freeq
      /\ fdt' = [d \in Fd |-> IF d \in {w.r.fd, w.r.store} THEN <<>> ELSE fdt[d]]
      /\ conn_release(c)
      /\ bad' = Broken(w)

Refuse(c, w, why) == dn_request_close(c, w) /\ cause' = cause \cup why /\ UNCHANGED disk

\* faio_write or faio_sendfile takes the task over, or fails; a task it already has
\* is linked into the request queue a second time.
Submit(c, w, why) ==
  LET f == w.r.fio
  IN  \/ /\ Keep(c, [w EXCEPT !.fio[f].io = "pending", !.fio[f].conn = c])
         /\ bad' = IF w.fio[f].io # "own" THEN "twice" ELSE bad
         /\ cause' = cause \cup why
         /\ UNCHANGED <<fdt, disk>>
      \/ Failing /\ w.fio[f].io = "own" /\ Refuse(c, w, {"failed"})

----------------------------------------------------------------------------
(* The handlers. *)

\* Mutant: the read handler goes on looking for the end of the stream.
recv_block_handler_StaysReading(c, w) ==
  LET p == w.r.peer
      n == Min({w.peer[p].rx, BufCap})
      v == [w EXCEPT !.peer[p].rx = @ - n, !.r.wh = "blocked",
                     !.fio[w.r.fio].fd = w.r.store, !.fio[w.r.fio].need = n,
                     !.fio[w.r.fio].off = w.r.done]
  IN  IF n < BufCap /\ Gone(p) THEN Refuse(c, w, {}) ELSE Submit(c, v, {})

\* Mutant: with nothing received the request waits for an event.
recv_block_handler_Waits(c, w) ==
  LET p == w.r.peer
      n == Min({w.peer[p].rx, BufCap})
      v == [w EXCEPT !.peer[p].rx = @ - n, !.r.rh = "blocked", !.r.wh = "blocked",
                     !.fio[w.r.fio].fd = w.r.store, !.fio[w.r.fio].need = n,
                     !.fio[w.r.fio].off = w.r.done]
  IN  IF n < BufCap /\ Gone(p) THEN Refuse(c, w, {})
      ELSE IF n = 0 THEN Keep(c, v) /\ UNCHANGED <<fdt, disk, bad, cause>>
      ELSE Submit(c, v, {})

\* What the socket holds, up to a full buffer, is handed to a worker, even when it
\* holds nothing.
recv_block_handler(c, w) ==
  LET p == w.r.peer
      n == Min({w.peer[p].rx, BufCap})
      v == [w EXCEPT !.peer[p].rx = @ - n, !.r.rh = "blocked", !.r.wh = "blocked",
                     !.fio[w.r.fio].fd = w.r.store, !.fio[w.r.fio].need = n,
                     !.fio[w.r.fio].off = w.r.done]
  IN  IF n < BufCap /\ Gone(p)
      THEN Refuse(c, w, {})
      ELSE Submit(c, v, {})

\* A task that has carried a read keeps its sf_chain_task, which lies in the pool of
\* that other request: its two descriptors are still there, or anything else is.
dn_request_send_block(c, w) ==
  LET f == w.r.fio
      fresh == <<w.r.fd, w.r.store>>
  IN  \E sf \in IF w.fio[f].sf = <<>> THEN {fresh} ELSE {w.fio[f].sf, <<0, 0>>} :
        Submit(c, [w EXCEPT !.r.wh = "blocked", !.fio[f].sf = sf, !.fio[f].off = 0,
                            !.fio[f].need = Size[Blk[w.r.peer]]],
               IF sf = fresh THEN {} ELSE {"stale"})

\* Without a task the request waits half a second and tries again.  Its write handler
\* stays in place, so that an event can come first: then the armed timer is wiped, or
\* the timer later finds the request at work.
dn_request_process_body(c, w) ==
  LET v == IF w.r.fio = None THEN cfs_fio_manager_alloc(w) ELSE w
  IN  \/ /\ v.r.fio = None
         /\ Keep(c, [v EXCEPT !.r.etimer = TRUE])
         /\ bad' = IF w.r.etimer THEN "timer" ELSE bad
         /\ cause' = cause \cup {"starved"}
         /\ UNCHANGED <<fdt, disk>>
      \/ /\ v.r.fio # None /\ peer[w.r.peer].op = "write"
         /\ recv_block_handler(c, v)
      \/ /\ v.r.fio # None /\ peer[w.r.peer].op = "read"
         /\ dn_request_send_block(c, v)

\* Sending to a client that has closed its socket may work or fail.
Sends(p) == IF Gone(p) THEN BOOLEAN ELSE {TRUE}

dn_request_send_header_response(c) ==
  LET p == conn[c].peer
      w == [Now(c) EXCEPT !.r.wtimer = FALSE]
      sent == [w EXCEPT !.peer[p].out = Append(@, <<"header", 0>>)]
  IN  IF peer[p].out # <<>> THEN dn_request_process_body(c, w)
      ELSE \E ok \in Sends(p) :
             IF ok THEN dn_request_process_body(c, sent)
             ELSE Refuse(c, w, {})

\* open: the file gets the next descriptor and the answer to the header waits for the
\* socket to be reported writable.
Opened(c, w, i) ==
  /\ Keep(c, [w EXCEPT !.r.store = NewFd, !.r.rh = "check", !.r.wh = "header",
                       !.r.wact = TRUE, !.r.sub = {"in", "out"}, !.r.edge = TRUE,
                       !.r.wtimer = TRUE])
  /\ fdt' = [fdt EXCEPT ![NewFd] = <<"file", i>>]
  /\ UNCHANGED <<bad, index, file, cause>>

\* O_CREAT | O_TRUNC: an upload of the same block in progress is emptied.
dn_request_write_file(c, w) ==
  LET b == Blk[w.r.peer]
      i == IF tmp[b] = None THEN w.r.peer ELSE tmp[b]
  IN  /\ Opened(c, w, i)
      /\ tmp' = [tmp EXCEPT ![b] = i] /\ data' = [data EXCEPT ![i] = {}]

dn_request_read_file(c, w) ==
  /\ Blk[w.r.peer] \in index
  /\ Opened(c, w, file[Blk[w.r.peer]]) /\ UNCHANGED <<tmp, data>>

\* dn_request_read_header and dn_request_parse_header.
dn_request_read_header(c) ==
  LET p == conn[c].peer
      w == [Now(c) EXCEPT !.peer[p].rx = 0]
  IN  IF peer[p].rx = 0 THEN Refuse(c, w, {})
      ELSE \/ peer[p].op = "write" /\ dn_request_write_file(c, w)
           \/ peer[p].op = "read" /\ dn_request_read_file(c, w)
           \/ /\ peer[p].op = "junk" \/ (peer[p].op = "read" /\ Blk[p] \notin index)
              /\ Refuse(c, w, {})
           \/ Failing /\ peer[p].op # "junk" /\ Refuse(c, w, {"failed"})

\* MSG_PEEK: only the end of the stream matters, whatever the request is doing.
dn_request_check_connection(c) ==
  IF peer[conn[c].peer].rx = 0 /\ Gone(conn[c].peer)
  THEN Refuse(c, Now(c), {})
  ELSE Keep(c, Now(c)) /\ UNCHANGED <<fdt, disk, bad, cause>>

\* The other event stays, and is looked at anew, if it is active.
epoll_del_event(r, other, active) ==
  [r EXCEPT !.sub = IF active THEN {other} ELSE {}, !.edge = active]

dn_request_block_reading(c) ==
  /\ Keep(c, [Now(c) EXCEPT !.r = [epoll_del_event(@, "out", @.wact) EXCEPT !.ract = FALSE]])
  /\ UNCHANGED <<fdt, disk, bad, cause>>

\* It is the read event that is marked inactive.
dn_request_block_writing(c) ==
  /\ Keep(c, [Now(c) EXCEPT !.r = [epoll_del_event(@, "in", @.ract) EXCEPT !.ract = FALSE]])
  /\ UNCHANGED <<fdt, disk, bad, cause>>

dn_request_send_block_again(c) == Submit(c, Now(c), {})

----------------------------------------------------------------------------
(* The turns of the thread. *)

Calm == \A c \in Conn : posted[c] = {}

\* The read event waits for the header.
dn_conn_init(p) ==
  [Unused EXCEPT !.fd = NewFd, !.peer = p, !.rh = "header", !.sub = {"in"},
                 !.edge = TRUE, !.ract = TRUE]

\* A connection of the pool, or the socket is closed at once.
listen_rev_handler(p) ==
  /\ Calm
  /\ peer[p].pc # "new" /\ ~peer[p].cut /\ \A c \in Conn : conn[c].peer # p
  /\ IF pool = <<>>
     THEN peer' = [peer EXCEPT ![p].cut = TRUE] /\ UNCHANGED <<conn, pool, fdt>>
     ELSE /\ conn' = [conn EXCEPT ![Head(pool)] = dn_conn_init(p)]
          /\ pool' = Tail(pool)
          /\ fdt' = [fdt EXCEPT ![NewFd] = <<"sock", p>>]
          /\ UNCHANGED peer
  /\ UNCHANGED <<tasks, disk, posted, bad, cause>>

\* Edge-triggered: everything the socket is ready for and registered with is
\* reported once; events that are not active are dropped.
epoll_process_events(c) ==
  LET r == conn[c]
      ready == {e \in r.sub : IF e = "in" THEN peer[r.peer].rx > 0 \/ Gone(r.peer)
                             ELSE Room(r.peer) > 0 \/ Gone(r.peer)}
  IN  /\ Calm /\ r.edge
      /\ conn' = [conn EXCEPT ![c].edge = FALSE]
      /\ posted' = [posted EXCEPT ![c] =
                      {e \in ready : IF e = "in" THEN r.ract ELSE r.wact}]
      /\ UNCHANGED <<peer, pool, fdt, tasks, disk, bad, cause>>

\* event_process_posted through dn_request_process_handler.
ReadEvent(c) ==
  /\ "in" \in posted[c]
  /\ \/ conn[c].rh = "header" /\ dn_request_read_header(c)
     \/ conn[c].rh = "check" /\ dn_request_check_connection(c)
     \/ conn[c].rh = "blocked" /\ dn_request_block_reading(c)

WriteEvent(c) ==
  /\ posted[c] = {"out"}
  /\ \/ conn[c].wh = "header" /\ dn_request_send_header_response(c)
     \/ conn[c].wh = "blocked" /\ dn_request_block_writing(c)
     \/ conn[c].wh = "again" /\ dn_request_send_block_again(c)

\* event_timers_expire: the write timer closes the request, ev_timer tries again.
WriteTimeout(c) == Calm /\ conn[c].wtimer /\ Refuse(c, Now(c), {"failed"})

fio_task_alloc_timeout(c) ==
  /\ Calm /\ conn[c].etimer
  /\ dn_request_process_body(c, [Now(c) EXCEPT !.r.etimer = FALSE])

\* write_block_done: the rename fails when another upload of the block has already
\* moved the file; the result is ignored.
write_block_done(b) ==
  IF tmp[b] = None THEN UNCHANGED disk
  ELSE /\ file' = [file EXCEPT ![b] = tmp[b]] /\ tmp' = [tmp EXCEPT ![b] = None]
       /\ index' = index \cup {b} /\ UNCHANGED data

\* The answer at the end and the close that follows it.  When the answer fails the
\* request is closed there already, and then once more.
DoneResponse(c, w) ==
  LET p == w.r.peer
      room == TxCap > Len(w.peer[p].out) - w.peer[p].taken
  IN  \/ dn_request_close(c, IF room THEN [w EXCEPT !.peer[p].out = Append(@, <<"done", 0>>)] ELSE w)
      \/ /\ Gone(p) /\ bad' = "double"
         /\ UNCHANGED <<peer, conn, pool, fdt, tasks, posted>>

\* Mutant: the result of the write is not looked at.
block_write_complete_Trusting(c, w) ==
  LET v == [w EXCEPT !.r.done = @ + w.fio[w.r.fio].need]
      b == Blk[w.r.peer]
  IN  IF v.r.done < Size[b] THEN recv_block_handler(c, v)
      ELSE write_block_done(b) /\ DoneResponse(c, v) /\ UNCHANGED cause

block_write_complete(c, w) ==
  LET f == w.r.fio
      v == [w EXCEPT !.r.done = @ + w.fio[f].need]
      b == Blk[w.r.peer]
  IN  IF w.fio[f].ret # w.fio[f].need THEN Refuse(c, w, {})
      ELSE IF v.r.done < Size[b] THEN recv_block_handler(c, v)
      ELSE write_block_done(b) /\ DoneResponse(c, v) /\ UNCHANGED cause

\* Mutant: after EAGAIN the block is sent from its beginning.
block_read_complete_Restarts(c, w) ==
  LET f == w.r.fio
  IN  IF w.fio[f].ret = EAGAIN
      THEN /\ Keep(c, [w EXCEPT !.r.wh = "again", !.fio[f].io = "pending", !.fio[f].off = 0])
           /\ cause' = cause \cup {"slow"} /\ UNCHANGED <<fdt, disk, bad>>
      ELSE IF w.fio[f].ret = ERROR THEN Refuse(c, w, {})
      ELSE DoneResponse(c, w) /\ UNCHANGED <<disk, cause>>

\* The socket counts as writable ever since it was reported so: after EAGAIN the
\* rest is submitted again at once, and each report of room does so, too.
block_read_complete(c, w) ==
  LET f == w.r.fio
  IN  IF w.fio[f].ret = EAGAIN
      THEN \/ /\ Keep(c, [w EXCEPT !.r.wh = "again", !.fio[f].io = "pending"])
              /\ cause' = cause \cup {"slow"} /\ UNCHANGED <<fdt, disk, bad>>
           \/ Failing /\ Refuse(c, w, {"failed"})
      ELSE IF w.fio[f].ret = ERROR THEN Refuse(c, w, {})
      ELSE DoneResponse(c, w) /\ UNCHANGED <<disk, cause>>

\* cfs_ioevents_process_posted calls the handler of a task that is done.
ioevents_process_posted(f) ==
  LET c == fio[f].conn
      w == [Now(c) EXCEPT !.fio[f].io = "own"]
  IN  /\ Calm /\ fio[f].io = "done"
      /\ IF peer[conn[c].peer].op = "write" THEN block_write_complete(c, w)
                                       ELSE block_read_complete(c, w)

----------------------------------------------------------------------------
(* The workers. *)

Post(f, ret) == fio' = [fio EXCEPT ![f].io = "done", ![f].ret = ret]

\* pwrite at the offset the request had reached.
cfs_faio_io_write(f) ==
  LET t == fdt[fio[f].fd]
  IN  /\ fio[f].io = "pending" /\ peer[conn[fio[f].conn].peer].op = "write"
      /\ \/ /\ Post(f, fio[f].need)
            /\ data' = [data EXCEPT ![t[2]] =
                          @ \cup (fio[f].off + 1 .. fio[f].off + fio[f].need)]
            /\ UNCHANGED cause
         \/ /\ Failing /\ Post(f, ERROR) /\ cause' = cause \cup {"failed"}
            /\ UNCHANGED data
      /\ UNCHANGED <<peer, conn, pool, fdt, freeq, tmp, file, index, posted, bad>>

\* One call of sendfile in the worker's loop.
cfs_faio_io_send_file(f) ==
  LET sock == IF fio[f].sf[1] = 0 THEN <<>> ELSE fdt[fio[f].sf[1]]
      src == IF fio[f].sf[2] = 0 THEN <<>> ELSE fdt[fio[f].sf[2]]
      p == sock[2]
      n == Min({Room(p), fio[f].need})
      pieces == [k \in 1 .. n |-> <<IF src[2] \in Block THEN src[2] ELSE Blk[src[2]],
                                   fio[f].off + k>>]
      left == fio[f].need - n
  IN  /\ fio[f].io = "pending" /\ peer[conn[fio[f].conn].peer].op = "read"
      /\ IF fio[f].need = 0
         THEN Post(f, 0) /\ UNCHANGED peer
         ELSE IF sock = <<>> \/ src = <<>> THEN Post(f, ERROR) /\ UNCHANGED peer
         ELSE IF sock[1] # "sock" \/ src[1] # "file" \/ Gone(p)
         THEN Post(f, ERROR) /\ UNCHANGED peer
         ELSE IF n = 0 THEN Post(f, EAGAIN) /\ UNCHANGED peer
         ELSE /\ peer' = [peer EXCEPT ![p].out = @ \o pieces]
              /\ fio' = [fio EXCEPT ![f].off = @ + n, ![f].need = left, ![f].ret = 0,
                                    ![f].io = IF left = 0 THEN "done" ELSE @]
      /\ UNCHANGED <<conn, pool, fdt, freeq, disk, posted, bad, cause>>

----------------------------------------------------------------------------

Client(p) == Connect(p) \/ SendHeader(p) \/ SendPiece(p) \/ Receive(p)

NetThread ==
  \/ \E p \in Peer : listen_rev_handler(p)
  \/ \E c \in Conn : \/ epoll_process_events(c) \/ ReadEvent(c) \/ WriteEvent(c)
                     \/ fio_task_alloc_timeout(c)
  \/ \E f \in Fio : ioevents_process_posted(f)

Worker(f) == cfs_faio_io_write(f) \/ cfs_faio_io_send_file(f)

Next ==
  /\ bad = None
  /\ \/ \E p \in Peer : Client(p) \/ Leave(p)
     \/ NetThread
     \/ \E c \in Conn : WriteTimeout(c)
     \/ \E f \in Fio : Worker(f)

Spec == Init /\ [][Next]_vars

----------------------------------------------------------------------------
(* Properties. *)

\* No two clients upload the same block: every create of a file gets new block ids.
OneUpload ==
  \A p, q \in Peer : "write" \in Ops[p] /\ "write" \in Ops[q] /\ Blk[p] = Blk[q] => p = q

(***************************************************************************)
(* A block that block_object_get finds is whole: write_block_done comes    *)
(* after the last piece was written, whatever clients left, files failed   *)
(* or descriptors changed hands before, if no two clients upload the same  *)
(* block (OneUpload).                                                      *)
(***************************************************************************)
PublishedWhole == \A b \in index : data[file[b]] = 1 .. Size[b]

(***************************************************************************)
(* As long as nothing is corrupted nothing is lost or owned twice: the     *)
(* free list holds every unused connection once, freeq every free task     *)
(* once, a task at work is its connection's, and a descriptor is open      *)
(* only while one request has it (dn_request_close, cfs_fio.c).            *)
(***************************************************************************)
Accounted ==
  /\ TypeOK
  /\ bad = None =>
    /\ IsInjective(pool) /\ ToSet(pool) = {c \in Conn : conn[c] = Unused}
    /\ IsInjective(freeq) /\ ToSet(freeq) = {f \in Fio : fio[f].st = "free"}
    /\ \A f \in Fio :
         /\ fio[f].st = "used" <=> Cardinality({c \in Conn : conn[c].fio = f}) = 1
         /\ fio[f].io # "own" => fio[f].st = "used" /\ conn[fio[f].conn].fio = f
    /\ \A d \in Fd : fdt[d] # <<>> <=>
         Cardinality({c \in Conn : conn[c].fd = d} \cup {c \in Conn : conn[c].store = d}) = 1

(***************************************************************************)
(* The only ways to a corrupted process: a client that left while its      *)
(* block was read or before its last answer, a read the client was slower  *)
(* than, and a shortage of tasks.                                          *)
(***************************************************************************)
LeftEarly(ops) == \E p \in Peer : peer[p].pc = "left" /\ peer[p].op \in ops
CorruptedOnlyBy ==
  /\ bad = "inflight" => LeftEarly({"read"}) \/ "starved" \in cause
  /\ bad = "double" => LeftEarly({"read", "write"})
  /\ bad = "timer" => "starved" \in cause
  /\ bad = "twice" => cause \cap {"starved", "slow"} # {}

(***************************************************************************)
(* A client is sent the answer to its header, the pieces of the block it   *)
(* asked for, in order, and the last answer: nothing else, and nothing of  *)
(* another client's, although descriptors are reused (sendfile), unless a  *)
(* read got a task that an earlier read had used.                          *)
(***************************************************************************)
Stream(p) ==
  LET b == Blk[p]
  IN  <<<<"header", 0>>>> \o (IF peer[p].op = "read" THEN [k \in 1 .. Size[b] |-> <<b, k>>] ELSE <<>>)
        \o <<<<"done", 0>>>>
OwnStream ==
  "stale" \notin cause => \A p \in Peer : \A k \in DOMAIN peer[p].out :
    k <= Len(Stream(p)) /\ peer[p].out[k] = Stream(p)[k]

(***************************************************************************)
(* An upload whose client stays never comes to rest before its end: the    *)
(* client has something to send or to take, or the thread has been told of *)
(* the connection, by an edge it has yet to collect, an event, ev_timer or *)
(* a task.  Nothing polls a socket again whose edge was lost, and the      *)
(* timers that would close it are deleted on the way.                      *)
(***************************************************************************)
Told(c) ==
  \/ posted[c] # {} \/ conn[c].etimer
  \/ conn[c].edge /\ (("in" \in conn[c].sub /\ conn[c].ract) \/ "out" \in conn[c].sub)
  \/ conn[c].fio # None /\ fio[conn[c].fio].io # "own"
UploadsMove ==
  \A p \in Peer :
    peer[p].op = "write" /\ peer[p].pc = "asked" /\ ~peer[p].cut /\ bad = None =>
      \/ peer[p].taken < Len(peer[p].out)
      \/ \A c \in Conn : conn[c].peer # p
      \/ \E c \in Conn : conn[c].peer = p /\ Told(c)

(***************************************************************************)
(* A client that stays is sent the whole block it asked for before its     *)
(* connection is closed, unless the datanode does not have it, no          *)
(* connection is left, a file fails or the process is corrupted.           *)
(***************************************************************************)
ReadersServed ==
  \A p \in Peer :
    peer[p].op = "read" /\ peer[p].cut /\ peer[p].pc # "left" /\ peer[p].out # <<>>
      => cause \ {"stale"} # {} \/ bad # None \/ Len(peer[p].out) > Size[Blk[p]]
=============================================================================
