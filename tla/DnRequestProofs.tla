-------------------------- MODULE DnRequestProofs --------------------------
(***************************************************************************)
(* Proofs about the network thread of a datanode (DnRequest.tla), for any  *)
(* number of clients, connections and I/O tasks and any size of blocks and *)
(* buffers.  A handler is followed call by call: Work(c, w) says what is   *)
(* so of the state w that the handler of connection c has reached, and     *)
(* Step(c) is all that one may come to.  NextEffect reduces Next to eight  *)
(* such effects, and each of the four parts of the inductive invariant is  *)
(* preserved effect by effect: who owns connections, tasks and descriptors *)
(* and what a request may do (OwnInv, OpInv), what wakes up a request      *)
(* (MoveInv), how far an upload has come (UploadInv) and what a client has *)
(* been sent (StreamInv).                                                  *)
(***************************************************************************)
EXTENDS DnRequest, SequenceLemmas

----------------------------------------------------------------------------
(* Who owns what *)

\* A request waits for its header, for a task, or for its task.
Waiting(r) ==
  /\ r.rh = "header" /\ r.wh = None /\ r.store = 0 /\ r.fio = None /\ r.done = 0
  /\ r.sub = {"in"} /\ r.ract /\ ~r.wtimer /\ ~r.etimer
Opening(r) ==
  /\ r.rh = "check" /\ r.wh = "header" /\ r.store # 0 /\ r.fio = None /\ r.done = 0
  /\ r.sub = {"in", "out"} /\ r.wact /\ ~(r.wtimer /\ r.etimer)
Working(r) ==
  /\ r.rh \in {"check", "blocked"} /\ r.wh \in {"blocked", "again"} /\ r.store # 0
  /\ r.fio # None /\ ~r.wtimer
Shape(r) == r = Unused \/ (r.fd # 0 /\ r.peer # None /\ (Waiting(r) \/ Opening(r) \/ Working(r)))

\* The free list holds the connections that are not in use.
PoolInv == IsInjective(pool) /\ ToSet(pool) = {c \in Conn : conn[c] = Unused}

\* The tasks fi with the queue fq, when the connections have the tasks own.
Owned(own, fi, fq) ==
  /\ IsInjective(fq) /\ ToSet(fq) = {f \in Fio : fi[f].st = "free"}
  /\ \A c \in Conn : own[c] # None => fi[own[c]].st = "used"
  /\ \A c, d \in Conn : own[c] = own[d] /\ own[c] # None => c = d
  /\ \A f \in Fio : fi[f].st = "used" => \E c \in Conn : own[c] = f
  /\ \A f \in Fio : fi[f].io # "own" => fi[f].conn \in Conn /\ own[fi[f].conn] = f

\* The tasks of the connections, with f in the place of c's.
Tasks == [c \in Conn |-> conn[c].fio]
TasksWith(c, f) == [Tasks EXCEPT ![c] = f]

\* Between two handlers a worker has the task of a request, or is done with it.
Busy == \A c \in Conn : conn[c].fio # None => fio[conn[c].fio].io # "own"

\* The descriptors a connection has are its socket and its file, and no others are open.
FdInv ==
  /\ \A c \in Conn : conn[c].fd # 0 => fdt[conn[c].fd] = <<"sock", conn[c].peer>>
  /\ \A c \in Conn : conn[c].store # 0 =>
       \E i \in Peer \cup Block : fdt[conn[c].store] = <<"file", i>>
  /\ \A c, d \in Conn : conn[c].store = conn[d].store /\ conn[c].store # 0 => c = d
  /\ \A x \in Fd : fdt[x] # <<>> => \E c \in Conn : conn[c].fd = x \/ conn[c].store = x

\* A client has one connection, until the datanode closes it.
PeerInv ==
  /\ \A c, d \in Conn : conn[c].peer = conn[d].peer /\ conn[c].peer # None => c = d
  /\ \A c \in Conn : conn[c].peer # None => ~peer[conn[c].peer].cut
  /\ \A c \in Conn : posted[c] # {} => conn[c].peer # None

\* What client q has not taken fits the send buffer.
Fits(q) == q.pc # "left" => q.taken <= Len(q.out) /\ Len(q.out) - q.taken <= TxCap
RoomInv == \A p \in Peer : Fits(peer[p])

OwnInv ==
  /\ TypeOK /\ RoomInv
  /\ bad = None => /\ PoolInv /\ Owned(Tasks, fio, freeq) /\ Busy /\ FdInv /\ PeerInv
                   /\ \A c \in Conn : Shape(conn[c])

----------------------------------------------------------------------------
(* What a request may do *)

\* The request of c has been read.
Asked(c) == conn[c].peer # None /\ conn[c].rh # "header"

OpInv ==
  /\ \A b \in index : file[b] # None
  /\ \A p \in Peer : /\ peer[p].op \in Ops[p] \cup {None}
                     /\ peer[p].pc \in {"new", "open"} => peer[p].op = None
  /\ bad = None => \A c \in Conn : Asked(c) =>
       /\ peer[conn[c].peer].op \in {"write", "read"}
       /\ conn[c].etimer => "starved" \in cause
       /\ conn[c].wh = "again" => "slow" \in cause
       /\ peer[conn[c].peer].op = "read" => conn[c].rh = "check"
       /\ peer[conn[c].peer].op = "read" /\ conn[c].fio # None => fio[conn[c].fio].sf # <<>>
       /\ peer[conn[c].peer].op = "write" => conn[c].wh # "again" /\ (conn[c].fio # None => conn[c].rh = "blocked")

\* Client p has not been answered.
New(p) == ~peer[p].cut /\ \A c \in Conn : conn[c].peer = p => conn[c].rh = "header"

\* A header that has come, and room for the answer to it, have been reported or will be.
MoveInv ==
  bad = None =>
    /\ \A p \in Peer : New(p) /\ peer[p].pc = "asked" => peer[p].rx > 0
    /\ \A c \in Conn : conn[c].rh = "header" /\ peer[conn[c].peer].rx > 0 =>
         conn[c].edge \/ "in" \in posted[c]
    /\ \A c \in Conn : conn[c].wh = "header" /\ peer[conn[c].peer].pc # "left" =>
         conn[c].etimer \/ conn[c].edge \/ "out" \in posted[c] \/ Room(conn[c].peer) <= 0

----------------------------------------------------------------------------
(* Uploads *)

\* The pieces a worker has in hand.
InFlight(c) == IF conn[c].fio = None THEN 0 ELSE fio[conn[c].fio].need

\* The file an upload writes to, and how far it has come.
Uploading(c) ==
  LET p == conn[c].peer  t == fio[conn[c].fio]
  IN  /\ conn[c].done + peer[p].rx + InFlight(c) <= peer[p].sent
      /\ fdt[conn[c].store] = <<"file", p>> /\ tmp[Blk[p]] = p
      /\ \/ conn[c].fio = None /\ data[p] = 1 .. conn[c].done
         \/ /\ conn[c].fio # None /\ t.fd = conn[c].store /\ t.off = conn[c].done
            /\ \/ t.io = "pending" /\ data[p] = 1 .. conn[c].done
               \/ t.io = "done" /\ t.ret = t.need /\ data[p] = 1 .. conn[c].done + t.need
               \/ t.io = "done" /\ t.ret # t.need

\* A file is published by the client that wrote it, before its connection is closed.
UploadInv ==
  /\ \A p \in Peer : peer[p].sent <= Size[Blk[p]]
  /\ PublishedWhole
  /\ \A b \in Block : /\ tmp[b] # None => "write" \in Ops[tmp[b]] /\ Blk[tmp[b]] = b
                      /\ file[b] \in Block => file[b] = b
  /\ bad = None =>
       /\ \A c \in Conn : Asked(c) /\ peer[conn[c].peer].op = "write" => Uploading(c)
       /\ \A p \in Peer, b \in Block : /\ ~peer[p].cut => file[b] # p
                                       /\ New(p) => tmp[b] # p

----------------------------------------------------------------------------
(* Streams *)

\* The block that file i is of.
BlockOf(i) == IF i \in Block THEN i ELSE Blk[i]

\* The task of a download sends where it should from where it should.
Downloading(c) ==
  LET p == conn[c].peer  t == fio[conn[c].fio]
  IN  /\ t.sf = <<conn[c].fd, conn[c].store>>
      /\ t.off + t.need = Size[Blk[p]] /\ Len(peer[p].out) = 1 + t.off
      /\ t.io = "done" /\ t.ret \notin {EAGAIN, ERROR} => t.need = 0

\* No file changes hands between blocks, and as long as no task kept the descriptors of
\* another request, what was sent is as long as the state of the request says.
StreamInv ==
  /\ OwnStream
  /\ \A b \in Block : /\ tmp[b] # None => BlockOf(tmp[b]) = b
                      /\ file[b] # None => BlockOf(file[b]) = b
  /\ bad = None => \A c \in Conn : conn[c].store # 0 =>
       BlockOf(fdt[conn[c].store][2]) = Blk[conn[c].peer]
  /\ bad = None /\ "stale" \notin cause =>
       /\ \A p \in Peer : New(p) => peer[p].out = <<>>
       /\ \A c \in Conn : Asked(c) =>
            /\ conn[c].fio = None => IF conn[c].etimer THEN Len(peer[conn[c].peer].out) = 1
                                     ELSE peer[conn[c].peer].out = <<>>
            /\ conn[c].fio # None /\ peer[conn[c].peer].op = "write" =>
                 Len(peer[conn[c].peer].out) = 1
            /\ conn[c].fio # None /\ peer[conn[c].peer].op = "read" => Downloading(c)

----------------------------------------------------------------------------
(* The least of some numbers *)

LEMMA MinTwo ==
  ASSUME NEW a \in Int, NEW b \in Int
  PROVE  Min({a, b}) = IF a <= b THEN a ELSE b
BY DEF Min

LEMMA MinLeast ==
  ASSUME NEW S \in SUBSET Nat, S # {}
  PROVE  Min(S) \in S
BY LeastIndex DEF Min

----------------------------------------------------------------------------
(* The pool of tasks *)

\* What a handler works on.
Hs == [r : Conn_t, peer : [Peer -> Client_t], fio : [Fio -> Fio_t], freeq : Seq(Fio)]

LEMMA NewFioType == NewFio \in Fio_t /\ NoFio \in Fio_t
BY DEF NewFio, NoFio, Fio_t, Fd, None

LEMMA ConnCount == Cardinality(Conn) \in Nat /\ Cardinality(Fio) \in Nat
BY DnRequestAssumption, FS_CardinalityType

\* Tasks that are made join the tail of freeq.
LEMMA RefillOwned ==
  ASSUME NEW w \in Hs, NEW n \in Nat, NEW own \in [Conn -> Fio \cup {None}],
         Owned(own, w.fio, w.freeq)
  PROVE  LET v == cfs_fio_manager_refill(w, n)
         IN  /\ v \in Hs /\ v.r = w.r /\ v.peer = w.peer
             /\ Owned(own, v.fio, v.freeq)
             /\ \A f \in Fio : w.fio[f].st = "used" => v.fio[f] = w.fio[f]
<1> DEFINE S == {f \in Fio : w.fio[f].st = None}
           spare == SetToSeq(S)
           nelts == Cardinality(Fio) - Len(spare)
           k == Min({n, FioMax - nelts})
           new == SubSeq(spare, 1, k)
           v == cfs_fio_manager_refill(w, n)
<1>1. IsFiniteSet(S) /\ S \subseteq Fio
  BY DnRequestAssumption, FS_Subset
<1>2. spare \in Seq(Fio) /\ IsInjective(spare) /\ Range(spare) = S
  <2> HIDE DEF S
  <2>1. spare \in Seq(S) /\ IsInjective(spare) /\ Range(spare) = S
    BY <1>1, SetToSeqRange
  <2> HIDE DEF spare
  <2> QED BY <1>1, <2>1
<1>3. k \in Int /\ k <= Len(spare)
  <2> HIDE DEF spare
  <2>1. Len(spare) \in Nat /\ FioMax \in Nat /\ FioMax <= Cardinality(Fio)
    BY <1>2, ConnCount, DnRequestAssumption
  <2> QED BY <2>1, ConnCount, MinTwo
<1>4. new \in Seq(Fio) /\ IsInjective(new) /\ Range(new) \subseteq S
  <2> HIDE DEF spare, k
  <2>1. CASE k >= 0
    <3>1. k \in 0 .. Len(spare)
      BY <1>2, <1>3, <2>1
    <3> QED BY <1>2, <3>1, SplitRange
  <2>2. CASE k < 0
    <3>1. new = <<>>
      BY <1>2, <1>3, <2>2
    <3> HIDE DEF new
    <3>2. new \in Seq(Fio) /\ Len(new) = 0 /\ DOMAIN new = {}
      BY <3>1
    <3> QED BY <3>2 DEF IsInjective, Range
  <2> QED BY <1>3, <2>1, <2>2
<1>5. v = [w EXCEPT !.freeq = @ \o new,
                    !.fio = [f \in Fio |-> IF f \in Range(new) THEN NewFio ELSE @[f]]]
  BY DEF cfs_fio_manager_refill, ToSet, Range
<1> HIDE DEF new, v
<1>6. w.freeq \in Seq(Fio) /\ w.fio \in [Fio -> Fio_t] /\ w.peer \in [Peer -> Client_t] /\ w.r \in Conn_t
  BY DEF Hs
<1>7. /\ v.freeq = w.freeq \o new /\ v.r = w.r /\ v.peer = w.peer
      /\ v.fio = [f \in Fio |-> IF f \in Range(new) THEN NewFio ELSE w.fio[f]]
  BY <1>5 DEF Hs
<1>8. IsInjective(w.freeq) /\ Range(w.freeq) = {f \in Fio : w.fio[f].st = "free"}
  BY DEF Owned, ToSet, Range
<1>9. Range(w.freeq) \cap Range(new) = {}
  BY <1>4, <1>8 DEF None
<1>10. /\ v.freeq \in Seq(Fio) /\ IsInjective(v.freeq)
       /\ Range(v.freeq) = Range(w.freeq) \cup Range(new)
  BY <1>4, <1>6, <1>7, <1>8, <1>9, ConcatRange
<1>11. v.fio \in [Fio -> Fio_t]
  BY <1>6, <1>7, NewFioType
<1>12. v \in Hs
  BY <1>5, <1>6, <1>7, <1>10, <1>11 DEF Hs
<1>13. \A f \in Fio : /\ f \in Range(new) => v.fio[f] = NewFio /\ w.fio[f].st = None
                      /\ f \notin Range(new) => v.fio[f] = w.fio[f]
  BY <1>4, <1>7
<1>14. NewFio.st = "free" /\ NewFio.io = "own"
  BY DEF NewFio
<1>15. {f \in Fio : v.fio[f].st = "free"} = Range(v.freeq)
  BY <1>4, <1>8, <1>10, <1>13, <1>14 DEF None
<1>16. Owned(own, v.fio, v.freeq)
  <2>1. IsInjective(v.freeq) /\ ToSet(v.freeq) = {f \in Fio : v.fio[f].st = "free"}
    BY <1>10, <1>15 DEF ToSet, Range
  <2>2. \A f \in Fio : w.fio[f].st = "used" => v.fio[f] = w.fio[f]
    BY <1>13 DEF None
  <2>3. \A f \in Fio : v.fio[f].st = "used" => v.fio[f] = w.fio[f]
    BY <1>13, <1>14
  <2>4. \A f \in Fio : v.fio[f].io # "own" => v.fio[f] = w.fio[f]
    BY <1>13, <1>14
  <2> QED BY <2>1, <2>2, <2>3, <2>4 DEF Owned
<1> QED BY <1>7, <1>12, <1>13, <1>16 DEF None, v

LEMMA FioUsed == \A t \in Fio_t : [t EXCEPT !.st = "used"] \in Fio_t
BY DEF Fio_t

LEMMA ToSetRange == \A q : ToSet(q) = Range(q)
BY DEF ToSet, Range

\* The task handed out is one that nobody has.
LEMMA AllocOwned ==
  ASSUME NEW w \in Hs, NEW own \in [Conn -> Fio \cup {None}], NEW c \in Conn,
         own[c] = None, w.r.fio = None, Owned(own, w.fio, w.freeq)
  PROVE  LET v == cfs_fio_manager_alloc(w)
         IN  /\ v \in Hs /\ v.peer = w.peer
             /\ v.r = w.r \/ (v.r.fio # None /\ v.r = [w.r EXCEPT !.fio = v.r.fio])
             /\ Owned([own EXCEPT ![c] = v.r.fio], v.fio, v.freeq)
             /\ \A f \in Fio : w.fio[f].st = "used" => v.fio[f] = w.fio[f]
             /\ v.r.fio # None => v.r.fio \in Fio /\ v.fio[v.r.fio].io = "own"
<1> DEFINE Refilled(x) == /\ x \in Hs /\ x.r = w.r /\ x.peer = w.peer /\ Owned(own, x.fio, x.freeq)
                          /\ \A f \in Fio : w.fio[f].st = "used" => x.fio[f] = w.fio[f]
           x == IF w.freeq = <<>> THEN cfs_fio_manager_refill(w, FioBatch) ELSE w
           u == IF Len(x.freeq) < RefillLevel /\ x.freeq # <<>>
                THEN cfs_fio_manager_refill(x, FioBatch) ELSE x
           v == cfs_fio_manager_alloc(w)
           h == Head(u.freeq)
<1>0. FioBatch \in Nat
  BY DnRequestAssumption, ConnCount
<1>1. Refilled(x)
  BY <1>0, RefillOwned
<1>2. Refilled(u)
  <2> HIDE DEF x
  <2>1. CASE Len(x.freeq) < RefillLevel /\ x.freeq # <<>>
    <3>1. u = cfs_fio_manager_refill(x, FioBatch)
      BY <2>1
    <3> HIDE DEF u
    <3> QED BY <1>0, <1>1, <3>1, RefillOwned
  <2>2. CASE ~(Len(x.freeq) < RefillLevel /\ x.freeq # <<>>)
    BY <1>1, <2>2
  <2> QED BY <2>1, <2>2
<1>3. v = IF u.freeq = <<>> THEN u
          ELSE [u EXCEPT !.r.fio = h, !.freeq = Tail(u.freeq), !.fio[h].st = "used"]
  BY DEF cfs_fio_manager_alloc
<1> HIDE DEF u, v
<1>4. CASE u.freeq = <<>>
  <2>1. v = u /\ [own EXCEPT ![c] = v.r.fio] = own
    BY <1>2, <1>3, <1>4
  <2> QED BY <1>2, <2>1 DEF v
<1>5. CASE u.freeq # <<>>
  <2>1. /\ u.freeq \in Seq(Fio) /\ u.fio \in [Fio -> Fio_t] /\ u.peer \in [Peer -> Client_t]
        /\ u.r \in Conn_t
    BY <1>2 DEF Hs
  <2>2. IsInjective(u.freeq) /\ Range(u.freeq) = {f \in Fio : u.fio[f].st = "free"}
    BY <1>2 DEF Owned, ToSet, Range
  <2>3. /\ h \in Fio /\ u.fio[h].st = "free" /\ Tail(u.freeq) \in Seq(Fio)
        /\ Range(Tail(u.freeq)) = Range(u.freeq) \ {h} /\ IsInjective(Tail(u.freeq))
    BY <1>5, <2>1, <2>2, TailRange
  <2>4. /\ v.r = [u.r EXCEPT !.fio = h] /\ v.peer = u.peer /\ v.freeq = Tail(u.freeq)
        /\ v.fio = [u.fio EXCEPT ![h].st = "used"] /\ v \in Hs
    <3> HIDE DEF h
    <3>1. v = [u EXCEPT !.r.fio = h, !.freeq = Tail(u.freeq), !.fio[h].st = "used"]
      BY <1>3, <1>5 
    <3>2. /\ v.r = [u.r EXCEPT !.fio = h] /\ v.peer = u.peer /\ v.freeq = Tail(u.freeq)
          /\ v.fio = [u.fio EXCEPT ![h].st = "used"]
      BY <1>2, <3>1 DEF Hs
    <3>3. [u.r EXCEPT !.fio = h] \in Conn_t
      BY <2>1, <2>3 DEF Conn_t
    <3>4. [u.fio[h] EXCEPT !.st = "used"] \in Fio_t
      BY <2>1, <2>3, FioUsed
    <3>5. [u.fio EXCEPT ![h].st = "used"] \in [Fio -> Fio_t]
      BY <2>1, <2>3, <3>4
    <3> QED BY <1>2, <2>1, <2>3, <3>1, <3>2, <3>3, <3>5 DEF Hs
  <2> HIDE DEF h
  <2>5. v.r.fio = h /\ h # None
    BY <2>1, <2>3, <2>4, DnRequestAssumption DEF Conn_t, None
  <2>6. /\ v.fio[h].st = "used" /\ v.fio[h].io = u.fio[h].io
        /\ \A f \in Fio \ {h} : v.fio[f] = u.fio[f]
    BY <2>1, <2>3, <2>4 DEF Fio_t
  <2>7. u.fio[h].io = "own" /\ \A d \in Conn : own[d] # h
    BY <1>2, <2>3, <2>5 DEF Owned
  <2>8. Owned([own EXCEPT ![c] = h], v.fio, v.freeq)
    <3>1. IsInjective(v.freeq) /\ ToSet(v.freeq) = {f \in Fio : v.fio[f].st = "free"}
      BY <2>2, <2>3, <2>4, <2>6, ToSetRange
    <3> DEFINE ow == [own EXCEPT ![c] = h]
    <3>2. ow[c] = h /\ \A d \in Conn \ {c} : ow[d] = own[d]
      OBVIOUS
    <3> HIDE DEF ow
    <3>3. \A d \in Conn : ow[d] # None => v.fio[ow[d]].st = "used"
      BY <1>2, <2>6, <2>7, <3>2 DEF Owned
    <3>4. \A d, e \in Conn : ow[d] = ow[e] /\ ow[d] # None => d = e
      BY <1>2, <2>7, <3>2 DEF Owned
    <3>5. \A f \in Fio : v.fio[f].st = "used" => \E d \in Conn : ow[d] = f
      <4> SUFFICES ASSUME NEW f \in Fio, v.fio[f].st = "used", f # h PROVE \E d \in Conn : ow[d] = f
        BY <3>2
      <4>1. PICK d \in Conn : own[d] = f
        BY <1>2, <2>6 DEF Owned
      <4> QED BY <3>2, <4>1, DnRequestAssumption DEF None
    <3>6. \A f \in Fio : v.fio[f].io # "own" => v.fio[f].conn \in Conn /\ ow[v.fio[f].conn] = f
      <4> SUFFICES ASSUME NEW f \in Fio, v.fio[f].io # "own"
                   PROVE  v.fio[f].conn \in Conn /\ ow[v.fio[f].conn] = f
        OBVIOUS
      <4>1. f # h /\ v.fio[f] = u.fio[f]
        BY <2>6, <2>7
      <4>2. u.fio[f].conn \in Conn /\ own[u.fio[f].conn] = f
        BY <1>2, <4>1 DEF Owned
      <4> QED BY <4>1, <4>2, <3>2, DnRequestAssumption DEF None
    <3> QED BY <3>1, <3>3, <3>4, <3>5, <3>6 DEF Owned, ow
  <2> QED BY <1>2, <2>3, <2>4, <2>5, <2>6, <2>7, <2>8 DEF v
<1> QED BY <1>4, <1>5

\* A task that is given back is at the head of freeq, or freed.
LEMMA FreeOwned ==
  ASSUME NEW w \in Hs, NEW own \in [Conn -> Fio \cup {None}], NEW c \in Conn,
         own[c] = w.r.fio, w.r.fio # None, Owned(own, w.fio, w.freeq)
  PROVE  LET v == cfs_fio_manager_free(w)
         IN  /\ v \in Hs /\ v.peer = w.peer
             /\ w.fio[w.r.fio].io = "own" => Owned([own EXCEPT ![c] = None], v.fio, v.freeq)
             /\ \A f \in Fio : w.fio[f].st = "used" /\ f # w.r.fio => v.fio[f] = w.fio[f]
<1> DEFINE g == w.r.fio
           q == <<g>> \o w.freeq
           over == Len(q) - FioIdle
           gone == IF over <= 0 THEN 0 ELSE IF over \div 4 > 0 THEN over \div 4 ELSE over
           kill == ToSet(SubSeq(q, 1, gone))
           rest == SubSeq(q, gone + 1, Len(q))
           back == [NewFio EXCEPT !.sf = w.fio[g].sf, !.io = w.fio[g].io]
           v == cfs_fio_manager_free(w)
<1>1. /\ w.freeq \in Seq(Fio) /\ w.fio \in [Fio -> Fio_t] /\ w.peer \in [Peer -> Client_t]
      /\ w.r \in Conn_t /\ g \in Fio
  BY DEF Hs, Conn_t
<1>2. IsInjective(w.freeq) /\ Range(w.freeq) = {f \in Fio : w.fio[f].st = "free"}
  BY DEF Owned, ToSet, Range
<1>3. w.fio[g].st = "used"
  BY DEF Owned
<1>4. q \in Seq(Fio) /\ Range(q) = Range(w.freeq) \cup {g} /\ IsInjective(q)
  <2> HIDE DEF g
  <2> QED BY <1>1, <1>2, <1>3, ConsRange
<1>5. gone \in 0 .. Len(q)
  <2> HIDE DEF q
  <2>1. Len(q) \in Nat /\ FioIdle \in Nat
    BY <1>4, DnRequestAssumption, ConnCount
  <2> QED BY <2>1
<1>6. /\ rest \in Seq(Fio) /\ IsInjective(rest) /\ kill \cup Range(rest) = Range(q)
      /\ kill \cap Range(rest) = {}
  <2> HIDE DEF q, gone
  <2>1. kill = Range(SubSeq(q, 1, gone))
    BY DEF ToSet, Range
  <2> QED BY <1>4, <1>5, <2>1, SplitRange
<1>7. v = [w EXCEPT !.freeq = rest, !.r.fio = None,
                    !.fio = [f \in Fio |-> IF f \in kill THEN NoFio
                                           ELSE IF f = g THEN back ELSE @[f]]]
  BY DEF cfs_fio_manager_free
<1> HIDE DEF q, kill, rest, gone, v
<1>8. /\ v.freeq = rest /\ v.peer = w.peer /\ v.r = [w.r EXCEPT !.fio = None]
      /\ v.fio = [f \in Fio |-> IF f \in kill THEN NoFio ELSE IF f = g THEN back ELSE w.fio[f]]
  BY <1>1, <1>7 DEF Hs
<1>9. back \in Fio_t /\ back.st = "free" /\ back.io = w.fio[g].io
  BY <1>1, NewFioType DEF Fio_t, NewFio
<1> HIDE DEF back
<1>10. v.fio \in [Fio -> Fio_t] /\ v.r \in Conn_t
  BY <1>1, <1>8, <1>9, NewFioType DEF Conn_t
<1>11. v \in Hs
  BY <1>1, <1>6, <1>7, <1>8, <1>10 DEF Hs
<1>12. \A f \in Fio : /\ f \in kill => v.fio[f] = NoFio
                      /\ f \notin kill => v.fio[f] = IF f = g THEN back ELSE w.fio[f]
  BY <1>8
<1>13. NoFio.st = None /\ NoFio.io = "own"
  BY DEF NoFio, NewFio, None
<1>14. \A f \in kill : f \in Fio /\ (f = g \/ w.fio[f].st = "free")
  BY <1>1, <1>2, <1>4, <1>6
<1>15. \A f \in Fio : w.fio[f].st = "used" /\ f # g => v.fio[f] = w.fio[f]
  BY <1>12, <1>14
<1>16. ASSUME w.fio[g].io = "own" PROVE Owned([own EXCEPT ![c] = None], v.fio, v.freeq)
  <2> DEFINE ow == [own EXCEPT ![c] = None]
  <2>1. ow[c] = None /\ \A d \in Conn \ {c} : ow[d] = own[d]
    OBVIOUS
  <2> HIDE DEF ow
  <2>2. {f \in Fio : v.fio[f].st = "free"} = Range(rest)
    <3>1. \A f \in Range(rest) : f \in Fio /\ f \notin kill /\ (f = g \/ w.fio[f].st = "free")
      BY <1>1, <1>2, <1>4, <1>6
    <3>2. \A f \in Fio : (f = g \/ w.fio[f].st = "free") /\ f \notin kill => f \in Range(rest)
      BY <1>2, <1>4, <1>6
    <3> QED BY <3>1, <3>2, <1>9, <1>12, <1>13 DEF None
  <2>3. IsInjective(v.freeq) /\ ToSet(v.freeq) = {f \in Fio : v.fio[f].st = "free"}
    BY <1>6, <1>8, <2>2, ToSetRange
  <2>4. \A d \in Conn \ {c} : own[d] # None => own[d] \in Fio /\ own[d] # g /\ w.fio[own[d]].st = "used"
    BY DEF Owned
  <2>5. \A d \in Conn : ow[d] # None => v.fio[ow[d]].st = "used"
    BY <1>15, <2>1, <2>4
  <2>6. \A d, e \in Conn : ow[d] = ow[e] /\ ow[d] # None => d = e
    BY <2>1 DEF Owned
  <2>7. \A f \in Fio : v.fio[f].st = "used" => f # g /\ v.fio[f] = w.fio[f]
    BY <1>9, <1>12, <1>13 DEF None
  <2>8. \A f \in Fio : v.fio[f].st = "used" => \E d \in Conn : ow[d] = f
    <3> SUFFICES ASSUME NEW f \in Fio, v.fio[f].st = "used" PROVE \E d \in Conn : ow[d] = f
      OBVIOUS
    <3>1. PICK d \in Conn : own[d] = f
      BY <2>7 DEF Owned
    <3> QED BY <2>1, <2>7, <3>1
  <2>9. \A f \in Fio : v.fio[f].io # "own" => v.fio[f].conn \in Conn /\ ow[v.fio[f].conn] = f
    <3> SUFFICES ASSUME NEW f \in Fio, v.fio[f].io # "own"
                 PROVE  v.fio[f].conn \in Conn /\ ow[v.fio[f].conn] = f
      OBVIOUS
    <3>1. f # g /\ v.fio[f] = w.fio[f]
      BY <1>9, <1>12, <1>13, <1>16
    <3>2. w.fio[f].conn \in Conn /\ own[w.fio[f].conn] = f
      BY <3>1 DEF Owned
    <3> QED BY <2>1, <3>1, <3>2
  <2> QED BY <2>3, <2>5, <2>6, <2>8, <2>9 DEF Owned, ow
<1> QED BY <1>8, <1>11, <1>15, <1>16 DEF v

----------------------------------------------------------------------------
(* A handler at work *)

\* The handler of connection c has come as far as w.
Work(c, w) ==
  LET p == conn[c].peer
  IN  /\ w \in Hs /\ p # None
      /\ w.r.peer = p /\ w.r.fd = conn[c].fd /\ w.r.store = conn[c].store
      /\ Owned(TasksWith(c, w.r.fio), w.fio, w.freeq)
      /\ \A d \in Conn \ {c} : conn[d].fio # None => w.fio[conn[d].fio] = fio[conn[d].fio]
      /\ \A q \in Peer \ {p} : w.peer[q] = peer[q]
      /\ w.peer[p].pc = peer[p].pc /\ w.peer[p].op = peer[p].op /\ w.peer[p].cut = peer[p].cut
      /\ w.peer[p].taken = peer[p].taken /\ w.peer[p].sent = peer[p].sent
      /\ Fits(w.peer[p])

\* What the other connections see of a step of c.
Frame(c) ==
  /\ \A d \in Conn \ {c} : conn'[d] = conn[d] /\ posted'[d] = posted[d]
  /\ \A q \in Peer : q # conn[c].peer => peer'[q] = peer[q]
  /\ \A d \in Conn \ {c} : conn[d].fio # None => fio'[conn[d].fio] = fio[conn[d].fio]
  /\ \A d \in Conn \ {c} : conn[d].store # 0 => fdt'[conn[d].store] = fdt[conn[d].store]

Bads == {None, "inflight", "timer", "twice", "double"}
DiskType ==
  /\ tmp \in [Block -> Peer \cup {None}] /\ file \in [Block -> Peer \cup Block \cup {None}]
  /\ data \in [Peer \cup Block -> SUBSET Nat] /\ index \subseteq Block
  /\ cause \subseteq {"starved", "slow", "failed", "stale"}

\* A connection that is in use, and its client.
LEMMA UsedConn ==
  ASSUME OwnInv, bad = None, NEW c \in Conn, conn[c].peer # None
  PROVE  /\ conn[c].peer \in Peer /\ conn[c].fd \in Fd /\ conn[c].fd # 0 /\ conn[c] # Unused
         /\ conn[c].store \in Fd \cup {0} /\ conn[c].fio \in Fio \cup {None}
         /\ Waiting(conn[c]) \/ Opening(conn[c]) \/ Working(conn[c])
<1>1. conn[c] \in Conn_t /\ Shape(conn[c])
  BY DEF OwnInv, TypeOK
<1>2. conn[c] # Unused
  BY DEF Unused
<1> QED BY <1>1, <1>2 DEF Shape, Conn_t, Fd

LEMMA HandledType ==
  ASSUME TypeOK, NEW c \in Conn, Handled(c)
  PROVE  /\ posted' \in [Conn -> SUBSET {"in", "out"}]
         /\ \A d \in Conn \ {c} : posted'[d] = posted[d]
         /\ posted'[c] = IF "in" \in posted[c] THEN posted[c] \ {"in"} ELSE {}
BY DEF TypeOK, Handled

LEMMA TasksType ==
  ASSUME TypeOK
  PROVE  /\ Tasks \in [Conn -> Fio \cup {None}]
         /\ \A c \in Conn, f \in Fio \cup {None} : TasksWith(c, f) \in [Conn -> Fio \cup {None}]
         /\ \A c \in Conn, f \in Fio \cup {None} : TasksWith(c, f)[c] = f
         /\ \A c, d \in Conn : Tasks[d] = conn[d].fio
         /\ \A c, d \in Conn, f \in Fio \cup {None} : d # c => TasksWith(c, f)[d] = conn[d].fio
<1>1. \A c \in Conn : conn[c].fio \in Fio \cup {None}
  BY DEF TypeOK, Conn_t
<1> QED BY <1>1 DEF Tasks, TasksWith

\* The handler ends and the connection stays.
LEMMA KeepOwn ==
  ASSUME OwnInv, bad = None, NEW c \in Conn, NEW w, Work(c, w), Keep(c, w),
         fdt' = fdt, DiskType', bad' \in Bads,
         bad' = None => Shape(w.r) /\ (w.r.fio # None => w.fio[w.r.fio].io # "own")
  PROVE  OwnInv' /\ Frame(c)
<1> DEFINE p == conn[c].peer
<1>1. TypeOK /\ RoomInv /\ PoolInv /\ Owned(Tasks, fio, freeq) /\ Busy /\ FdInv /\ PeerInv
  BY DEF OwnInv
<1>2. /\ conn' = [conn EXCEPT ![c] = w.r] /\ peer' = w.peer /\ fio' = w.fio /\ freeq' = w.freeq
      /\ Handled(c) /\ pool' = pool
  BY DEF Keep
<1>3. p \in Peer /\ conn[c] # Unused
  BY UsedConn DEF Work
<1>4. /\ w \in Hs /\ w.r \in Conn_t /\ w.peer \in [Peer -> Client_t] /\ w.fio \in [Fio -> Fio_t]
      /\ w.freeq \in Seq(Fio)
  BY DEF Work, Hs
<1>5. TypeOK'
  BY <1>1, <1>2, <1>4, HandledType DEF TypeOK, DiskType, Bads
<1>6. conn'[c] = w.r /\ \A d \in Conn \ {c} : conn'[d] = conn[d]
  BY <1>1, <1>2 DEF TypeOK
<1>7. w.r.peer = p /\ w.r.fd = conn[c].fd /\ w.r.store = conn[c].store /\ p # None
  BY DEF Work
<1>8. /\ \A q \in Peer \ {p} : w.peer[q] = peer[q]
      /\ w.peer[p].pc = peer[p].pc /\ w.peer[p].cut = peer[p].cut /\ w.peer[p].taken = peer[p].taken
      /\ Fits(w.peer[p])
  BY DEF Work
<1>9. Frame(c)
  <2>1. \A d \in Conn \ {c} : conn[d].fio # None => w.fio[conn[d].fio] = fio[conn[d].fio]
    BY DEF Work
  <2> QED BY <1>1, <1>2, <1>6, <1>8, <2>1, HandledType DEF Frame
<1>10. RoomInv'
  BY <1>1, <1>2, <1>8 DEF RoomInv
<1>11. ASSUME bad' = None
       PROVE  /\ PoolInv' /\ Owned(Tasks, fio, freeq)' /\ Busy' /\ FdInv' /\ PeerInv'
              /\ \A d \in Conn : Shape(conn'[d])
  <2>1. Shape(w.r) /\ (w.r.fio # None => w.fio[w.r.fio].io # "own")
    BY <1>11
  <2>2. \A d \in Conn : Shape(conn'[d])
    BY <1>6, <2>1 DEF OwnInv
  <2>3. PoolInv'
    <3>1. w.r # Unused
      BY <1>7 DEF Unused
    <3> QED BY <1>1, <1>2, <1>3, <1>6, <3>1 DEF PoolInv
  <2>4. Owned(Tasks, fio, freeq)'
    <3>1. Tasks' = TasksWith(c, w.r.fio)
      BY <1>6 DEF Tasks, TasksWith
    <3>2. Owned(TasksWith(c, w.r.fio), w.fio, w.freeq)
      BY DEF Work
    <3> QED BY <1>2, <3>1, <3>2 DEF Owned
  <2>5. Busy'
    BY <1>1, <1>2, <1>6, <1>9, <2>1 DEF Busy, Frame
  <2>6. FdInv'
    <3>1. \A d \in Conn : /\ conn'[d].fd = conn[d].fd /\ conn'[d].store = conn[d].store
                          /\ conn'[d].peer = conn[d].peer
      BY <1>6, <1>7
    <3>2. \A d \in Conn : conn'[d].fd # 0 => fdt'[conn'[d].fd] = <<"sock", conn'[d].peer>>
      BY <1>1, <3>1 DEF FdInv
    <3>3. \A d \in Conn : conn'[d].store # 0 =>
            \E i \in Peer \cup Block : fdt'[conn'[d].store] = <<"file", i>>
      <4> SUFFICES ASSUME NEW d \in Conn, conn[d].store # 0
                   PROVE  \E i \in Peer \cup Block : fdt[conn[d].store] = <<"file", i>>
        BY <3>1
      <4> QED BY <1>1 DEF FdInv
    <3>4. \A d, e \in Conn : conn'[d].store = conn'[e].store /\ conn'[d].store # 0 => d = e
      BY <1>1, <3>1 DEF FdInv
    <3>5. \A x \in Fd : fdt'[x] # <<>> => \E d \in Conn : conn'[d].fd = x \/ conn'[d].store = x
      <4> SUFFICES ASSUME NEW x \in Fd, fdt[x] # <<>>
                   PROVE  \E d \in Conn : conn'[d].fd = x \/ conn'[d].store = x
        OBVIOUS
      <4>1. PICK d \in Conn : conn[d].fd = x \/ conn[d].store = x
        BY <1>1 DEF FdInv
      <4> QED BY <3>1, <4>1
    <3> QED BY <3>2, <3>3, <3>4, <3>5 DEF FdInv
  <2>7. PeerInv'
    <3>1. \A d, e \in Conn : conn'[d].peer = conn'[e].peer /\ conn'[d].peer # None => d = e
      BY <1>1, <1>6, <1>7 DEF PeerInv
    <3>2. \A d \in Conn : conn'[d].peer # None => ~peer'[conn'[d].peer].cut
      <4> SUFFICES ASSUME NEW d \in Conn, conn'[d].peer # None PROVE ~peer'[conn'[d].peer].cut
        OBVIOUS
      <4>1. conn'[d].peer = conn[d].peer /\ conn[d].peer \in Peer
        BY <1>1, <1>3, <1>6, <1>7 DEF TypeOK, Conn_t
      <4> QED BY <1>1, <1>2, <1>8, <4>1 DEF PeerInv
    <3>3. \A d \in Conn : posted'[d] # {} => conn'[d].peer # None
      BY <1>1, <1>2, <1>6, <1>7, HandledType, ZenonT(60) DEF PeerInv
    <3> QED BY <3>1, <3>2, <3>3 DEF PeerInv
  <2> QED BY <2>2, <2>3, <2>4, <2>5, <2>6, <2>7
<1> QED BY <1>5, <1>9, <1>10, <1>11 DEF OwnInv

\* The handler ends by closing the connection.
LEMMA CloseOwn ==
  ASSUME OwnInv, bad = None, NEW c \in Conn, NEW w, Work(c, w), dn_request_close(c, w), DiskType'
  PROVE  /\ OwnInv' /\ Frame(c)
         /\ conn'[c] = Unused /\ posted'[c] = {}
         /\ peer'[conn[c].peer] = [w.peer[conn[c].peer] EXCEPT !.cut = TRUE, !.rx = 0]
         /\ bad' = Broken(w)
<1> DEFINE p == conn[c].peer
           v == IF w.r.fio = None THEN w ELSE cfs_fio_manager_free(w)
<1>1. TypeOK /\ RoomInv /\ PoolInv /\ Owned(Tasks, fio, freeq) /\ Busy /\ FdInv /\ PeerInv
  BY DEF OwnInv
<1>2. /\ p \in Peer /\ conn[c] # Unused /\ conn[c].fd \in Fd /\ conn[c].store \in Fd \cup {0}
      /\ conn[c].fd # 0
  BY UsedConn DEF Work
<1>3. /\ w \in Hs /\ w.r \in Conn_t /\ w.peer \in [Peer -> Client_t] /\ w.fio \in [Fio -> Fio_t]
      /\ w.freeq \in Seq(Fio) /\ w.r.fio \in Fio \cup {None}
  BY DEF Work, Hs, Conn_t
<1>4. w.r.peer = p /\ w.r.fd = conn[c].fd /\ w.r.store = conn[c].store /\ p # None
  BY DEF Work
<1>5. /\ \A q \in Peer \ {p} : w.peer[q] = peer[q]
      /\ w.peer[p].pc = peer[p].pc /\ w.peer[p].cut = peer[p].cut /\ w.peer[p].taken = peer[p].taken
      /\ Fits(w.peer[p])
  BY DEF Work
<1>6. /\ peer' = [v.peer EXCEPT ![p].cut = TRUE, ![p].rx = 0] /\ fio' = v.fio /\ freeq' = v.freeq
      /\ fdt' = [x \in Fd |-> IF x \in {conn[c].fd, conn[c].store} THEN <<>> ELSE fdt[x]]
      /\ conn' = [conn EXCEPT ![c] = Unused] /\ pool' = <<c>> \o pool
      /\ posted' = [posted EXCEPT ![c] = {}] /\ bad' = Broken(w)
  <2> HIDE DEF p
  <2> QED BY <1>4 DEF dn_request_close, conn_release
<1>7. /\ v \in Hs /\ v.peer = w.peer
      /\ w.r.fio = None \/ w.fio[w.r.fio].io = "own" => Owned(TasksWith(c, None), v.fio, v.freeq)
      /\ \A f \in Fio : w.fio[f].st = "used" /\ f # w.r.fio => v.fio[f] = w.fio[f]
  <2>1. Owned(TasksWith(c, w.r.fio), w.fio, w.freeq)
    BY DEF Work
  <2>2. CASE w.r.fio = None
    BY <1>3, <2>1, <2>2
  <2>3. CASE w.r.fio # None
    <3>1. v = cfs_fio_manager_free(w)
      BY <2>3
    <3>2. /\ TasksWith(c, w.r.fio) \in [Conn -> Fio \cup {None}] /\ TasksWith(c, w.r.fio)[c] = w.r.fio
          /\ [TasksWith(c, w.r.fio) EXCEPT ![c] = None] = TasksWith(c, None)
      BY <1>1, <1>3, TasksType DEF TasksWith, Tasks
    <3> HIDE DEF v
    <3> QED BY <1>3, <2>1, <2>3, <3>1, <3>2, FreeOwned
  <2> QED BY <2>2, <2>3
<1> HIDE DEF v
<1>8. /\ v.peer \in [Peer -> Client_t] /\ v.fio \in [Fio -> Fio_t] /\ v.freeq \in Seq(Fio)
  BY <1>7 DEF Hs
<1>9. /\ peer'[p] = [w.peer[p] EXCEPT !.cut = TRUE, !.rx = 0]
      /\ \A q \in Peer \ {p} : peer'[q] = peer[q]
      /\ peer' \in [Peer -> Client_t]
  <2> HIDE DEF p
  <2>1. w.peer[p] \in Client_t
    BY <1>2, <1>3
  <2>2. [w.peer[p] EXCEPT !.cut = TRUE, !.rx = 0] \in Client_t
    BY <2>1 DEF Client_t
  <2>3. /\ peer'[p] = [w.peer[p] EXCEPT !.cut = TRUE, !.rx = 0]
        /\ \A q \in Peer \ {p} : peer'[q] = w.peer[q]
    BY <1>2, <1>3, <1>6, <1>7
  <2>4. DOMAIN peer' = Peer /\ peer' = [q \in Peer |-> peer'[q]]
    BY <1>3, <1>6, <1>7
  <2> QED BY <1>3, <1>5, <2>2, <2>3, <2>4
<1>10. conn'[c] = Unused /\ posted'[c] = {} /\ \A d \in Conn \ {c} : conn'[d] = conn[d] /\ posted'[d] = posted[d]
  BY <1>1, <1>6 DEF TypeOK
<1>11. Unused \in Conn_t
  BY DEF Unused, Conn_t, None, Fd
<1>12. bad' \in {None, "timer", "inflight"}
       /\ (bad' = None => w.r.fio = None \/ w.fio[w.r.fio].io = "own")
  BY <1>6 DEF Broken, None
<1>13. /\ <<c>> \o pool \in Seq(Conn) /\ Range(<<c>> \o pool) = Range(pool) \cup {c}
       /\ IsInjective(pool) /\ c \notin Range(pool) => IsInjective(<<c>> \o pool)
  BY <1>1, ConsRange DEF TypeOK
<1>14. TypeOK'
  <2>1. fdt' \in [Fd -> {<<>>} \cup ({"sock"} \X Peer) \cup ({"file"} \X (Peer \cup Block))]
    BY <1>1, <1>6 DEF TypeOK
  <2>2. conn' \in [Conn -> Conn_t] /\ posted' \in [Conn -> SUBSET {"in", "out"}]
    BY <1>1, <1>6, <1>11 DEF TypeOK
  <2>3. bad' \in {None, "inflight", "timer", "twice", "double"}
    BY <1>12
  <2> QED BY <1>6, <1>8, <1>9, <1>13, <2>1, <2>2, <2>3 DEF TypeOK, DiskType
<1>15. Frame(c)
  <2>1. \A d \in Conn \ {c} : conn[d].fio # None => fio'[conn[d].fio] = fio[conn[d].fio]
    <3> SUFFICES ASSUME NEW d \in Conn \ {c}, conn[d].fio # None
                 PROVE  v.fio[conn[d].fio] = fio[conn[d].fio]
      BY <1>6
    <3>1. w.fio[conn[d].fio] = fio[conn[d].fio] /\ Owned(TasksWith(c, w.r.fio), w.fio, w.freeq)
      BY DEF Work
    <3>2. /\ TasksWith(c, w.r.fio)[d] = conn[d].fio /\ TasksWith(c, w.r.fio)[c] = w.r.fio
          /\ conn[d].fio \in Fio
      BY <1>1, <1>3, TasksType DEF TypeOK, Conn_t
    <3>3. w.fio[conn[d].fio].st = "used" /\ conn[d].fio # w.r.fio
      BY <3>1, <3>2 DEF Owned
    <3> QED BY <1>7, <3>1, <3>2, <3>3
  <2>2. \A d \in Conn \ {c} : conn[d].store # 0 => fdt'[conn[d].store] = fdt[conn[d].store]
    <3> SUFFICES ASSUME NEW d \in Conn \ {c}, conn[d].store # 0
                 PROVE  fdt'[conn[d].store] = fdt[conn[d].store]
      OBVIOUS
    <3>1. conn[d].store \in Fd
      BY <1>1 DEF TypeOK, Conn_t
    <3>2. conn[d].store # conn[c].store /\ conn[d].store # conn[c].fd
      BY <1>1, <1>2 DEF FdInv
    <3> QED BY <1>6, <3>1, <3>2
  <2> QED BY <1>9, <1>10, <2>1, <2>2 DEF Frame
<1>16. RoomInv'
  <2>1. Fits(peer'[p])
    <3>1. w.peer[p] \in Client_t
      BY <1>2, <1>3
    <3>2. /\ peer'[p].pc = w.peer[p].pc /\ peer'[p].taken = w.peer[p].taken
          /\ peer'[p].out = w.peer[p].out
      BY <1>9, <3>1 DEF Client_t
    <3> QED BY <1>5, <3>2 DEF Fits
  <2> QED BY <1>1, <1>9, <2>1 DEF RoomInv
<1>17. ASSUME bad' = None
       PROVE  /\ PoolInv' /\ Owned(Tasks, fio, freeq)' /\ Busy' /\ FdInv' /\ PeerInv'
              /\ \A d \in Conn : Shape(conn'[d])
  <2>1. w.r.fio = None \/ w.fio[w.r.fio].io = "own"
    BY <1>12, <1>17
  <2>2. \A d \in Conn : Shape(conn'[d])
    BY <1>10 DEF OwnInv, Shape
  <2>3. PoolInv'
    <3>1. IsInjective(pool) /\ Range(pool) = {d \in Conn : conn[d] = Unused}
      BY <1>1, ToSetRange DEF PoolInv
    <3>2. c \notin Range(pool)
      BY <1>2, <3>1
    <3>3. Range(pool) \cup {c} = {d \in Conn : conn'[d] = Unused}
      BY <1>10, <3>1
    <3> QED BY <1>6, <1>13, <3>1, <3>2, <3>3, ToSetRange DEF PoolInv
  <2>4. Owned(Tasks, fio, freeq)'
    <3>1. Tasks' = TasksWith(c, None)
      <4>1. Unused.fio = None
        BY DEF Unused
      <4> QED BY <1>10, <4>1 DEF Tasks, TasksWith
    <3> QED BY <1>6, <1>7, <2>1, <3>1 DEF Owned
  <2>5. Busy'
    BY <1>1, <1>10, <1>15 DEF Busy, Frame, Unused
  <2>6. FdInv'
    <3>0. Unused.fd = 0 /\ Unused.store = 0 /\ Unused.peer = None
      BY DEF Unused
    <3>1. \A d \in Conn : conn'[d].fd # 0 => fdt'[conn'[d].fd] = <<"sock", conn'[d].peer>>
      <4> SUFFICES ASSUME NEW d \in Conn, conn'[d].fd # 0
                   PROVE  fdt'[conn'[d].fd] = <<"sock", conn'[d].peer>>
        OBVIOUS
      <4>1. d # c /\ conn'[d] = conn[d] /\ conn[d].fd \in Fd
        BY <1>1, <1>10, <3>0 DEF TypeOK, Conn_t
      <4>2. fdt[conn[d].fd] = <<"sock", conn[d].peer>> /\ fdt[conn[c].fd] = <<"sock", p>>
        BY <1>1, <1>2, <4>1 DEF FdInv
      <4>3. conn[d].peer # None
        <5>1. Shape(conn[d])
          BY DEF OwnInv
        <5> QED BY <3>0, <4>1, <5>1 DEF Shape
      <4>4. conn[d].peer # p
        BY <1>1, <4>1, <4>3 DEF PeerInv
      <4>5. conn[d].fd # conn[c].fd
        BY <4>2, <4>4
      <4>6. conn[d].fd # conn[c].store
        <5> SUFFICES ASSUME conn[c].store # 0, conn[c].store = conn[d].fd PROVE FALSE
          BY <1>2, <4>1, <3>0
        <5>1. PICK i \in Peer \cup Block : fdt[conn[c].store] = <<"file", i>>
          BY <1>1 DEF FdInv
        <5> QED BY <4>2, <5>1
      <4> QED BY <1>6, <4>1, <4>2, <4>5, <4>6
    <3>2. \A d \in Conn : conn'[d].store # 0 =>
            \E i \in Peer \cup Block : fdt'[conn'[d].store] = <<"file", i>>
      <4> SUFFICES ASSUME NEW d \in Conn, conn'[d].store # 0
                   PROVE  \E i \in Peer \cup Block : fdt'[conn'[d].store] = <<"file", i>>
        OBVIOUS
      <4>1. d # c /\ conn'[d] = conn[d] /\ fdt'[conn[d].store] = fdt[conn[d].store]
        BY <1>10, <1>15, <3>0 DEF Frame
      <4> QED BY <1>1, <4>1 DEF FdInv
    <3>3. \A d, e \in Conn : conn'[d].store = conn'[e].store /\ conn'[d].store # 0 => d = e
      BY <1>1, <1>10, <3>0 DEF FdInv
    <3>4. \A x \in Fd : fdt'[x] # <<>> => \E d \in Conn : conn'[d].fd = x \/ conn'[d].store = x
      <4> SUFFICES ASSUME NEW x \in Fd, fdt'[x] # <<>>
                   PROVE  \E d \in Conn : conn'[d].fd = x \/ conn'[d].store = x
        OBVIOUS
      <4>1. x # conn[c].fd /\ x # conn[c].store /\ fdt[x] # <<>>
        BY <1>6
      <4>2. PICK d \in Conn : conn[d].fd = x \/ conn[d].store = x
        BY <1>1, <4>1 DEF FdInv
      <4> QED BY <1>10, <4>1, <4>2
    <3> QED BY <3>1, <3>2, <3>3, <3>4 DEF FdInv
  <2>7. PeerInv'
    <3>0. Unused.peer = None
      BY DEF Unused
    <3>1. \A d, e \in Conn : conn'[d].peer = conn'[e].peer /\ conn'[d].peer # None => d = e
      BY <1>1, <1>10, <3>0 DEF PeerInv
    <3>2. \A d \in Conn : conn'[d].peer # None => ~peer'[conn'[d].peer].cut
      <4> SUFFICES ASSUME NEW d \in Conn, conn'[d].peer # None PROVE ~peer'[conn'[d].peer].cut
        OBVIOUS
      <4>1. d # c /\ conn'[d] = conn[d] /\ conn[d].peer \in Peer /\ conn[d].peer # p
        BY <1>1, <1>10, <3>0 DEF PeerInv, TypeOK, Conn_t
      <4> QED BY <1>1, <1>9, <4>1 DEF PeerInv
    <3>3. \A d \in Conn : posted'[d] # {} => conn'[d].peer # None
      BY <1>1, <1>10 DEF PeerInv
    <3> QED BY <3>1, <3>2, <3>3 DEF PeerInv
  <2> QED BY <2>2, <2>3, <2>4, <2>5, <2>6, <2>7
<1> QED BY <1>6, <1>9, <1>10, <1>14, <1>15, <1>16, <1>17 DEF OwnInv

\* A handler that goes on with its request, its client and its task.
Follows(c, w, v) ==
  LET p == conn[c].peer  f == w.r.fio  t == v.fio[f]  s == w.fio[f]
  IN  /\ v \in Hs /\ v.r.peer = w.r.peer /\ v.r.fd = w.r.fd /\ v.r.store = w.r.store
      /\ v.r.fio = f /\ v.freeq = w.freeq
      /\ \A g \in Fio : g # f => v.fio[g] = w.fio[g]
      /\ f # None => t.st = s.st /\ (t.io = "own" \/ t.conn = c \/ (t.io = s.io /\ t.conn = s.conn))
      /\ \A q \in Peer \ {p} : v.peer[q] = w.peer[q]
      /\ v.peer[p].pc = w.peer[p].pc /\ v.peer[p].op = w.peer[p].op
      /\ v.peer[p].cut = w.peer[p].cut /\ v.peer[p].taken = w.peer[p].taken
      /\ v.peer[p].sent = w.peer[p].sent /\ (Fits(w.peer[p]) => Fits(v.peer[p]))

LEMMA WorkOn ==
  ASSUME OwnInv, NEW c \in Conn, NEW w, Work(c, w), NEW v, Follows(c, w, v)
  PROVE  Work(c, v)
<1> USE DEF Follows
<1> DEFINE own == TasksWith(c, w.r.fio)
           f == w.r.fio
<1>0. TypeOK /\ w \in Hs /\ w.r.fio \in Fio \cup {None}
  BY DEF OwnInv, Work, Hs, Conn_t
<1>1. /\ own \in [Conn -> Fio \cup {None}] /\ own[c] = f
      /\ \A d \in Conn : d # c => own[d] = conn[d].fio
  BY <1>0, TasksType
<1>2. Owned(own, w.fio, w.freeq)
  BY DEF Work
<1> HIDE DEF own
<1>3. Owned(own, v.fio, v.freeq)
  <2>1. CASE f = None
    <3>1. \A g \in Fio : v.fio[g] = w.fio[g]
      BY <2>1, DnRequestAssumption DEF None
    <3>2. \A d \in Conn : own[d] # None => own[d] \in Fio
      BY <1>1
    <3> QED BY <1>2, <3>1, <3>2 DEF Owned
  <2>2. CASE f # None
    <3>1. f \in Fio /\ v.fio[f].st = w.fio[f].st /\ \A g \in Fio : v.fio[g].st = w.fio[g].st
      BY <1>0, <2>2
    <3>2. \A d \in Conn : own[d] # None => own[d] \in Fio
      BY <1>1
    <3>3. v.fio[f].io # "own" => v.fio[f].conn = c
      <4> SUFFICES ASSUME v.fio[f].io # "own", v.fio[f].io = w.fio[f].io, v.fio[f].conn = w.fio[f].conn
                   PROVE  w.fio[f].conn = c
        BY <2>2
      <4>1. w.fio[f].conn \in Conn /\ own[w.fio[f].conn] = f
        BY <1>2, <3>1 DEF Owned
      <4> QED BY <1>1, <1>2, <2>2, <4>1 DEF Owned
    <3>4. \A g \in Fio : v.fio[g].io # "own" => v.fio[g].conn \in Conn /\ own[v.fio[g].conn] = g
      BY <1>1, <1>2, <3>1, <3>3 DEF Owned
    <3>5. IsInjective(v.freeq) /\ ToSet(v.freeq) = {g \in Fio : v.fio[g].st = "free"}
      <4>1. {g \in Fio : v.fio[g].st = "free"} = {g \in Fio : w.fio[g].st = "free"}
        BY <3>1
      <4> QED BY <1>2, <4>1 DEF Owned
    <3> QED BY <1>2, <3>1, <3>2, <3>4, <3>5, SMTT(60) DEF Owned
  <2> QED BY <2>1, <2>2
<1>4. \A d \in Conn \ {c} : conn[d].fio # None => v.fio[conn[d].fio] = fio[conn[d].fio]
  <2> SUFFICES ASSUME NEW d \in Conn \ {c}, conn[d].fio # None
               PROVE  v.fio[conn[d].fio] = fio[conn[d].fio]
    OBVIOUS
  <2>1. own[d] = conn[d].fio /\ own[d] \in Fio
    BY <1>1
  <2>2. conn[d].fio # f
    BY <1>1, <1>2, <2>1 DEF Owned
  <2> QED BY <2>1, <2>2 DEF Work
<1> QED BY <1>3, <1>4 DEF Work, own

\* A handler starts with what it finds.
LEMMA WorkStarts ==
  ASSUME OwnInv, bad = None, NEW c \in Conn, conn[c].peer # None
  PROVE  Work(c, Now(c))
<1>1. /\ conn \in [Conn -> Conn_t] /\ peer \in [Peer -> Client_t] /\ fio \in [Fio -> Fio_t]
      /\ freeq \in Seq(Fio) /\ TypeOK /\ RoomInv /\ Owned(Tasks, fio, freeq)
  BY DEF OwnInv, TypeOK
<1>2. /\ Now(c) \in Hs /\ Now(c).r = conn[c] /\ Now(c).peer = peer /\ Now(c).fio = fio
      /\ Now(c).freeq = freeq
  BY <1>1 DEF Now, Hs
<1>3. TasksWith(c, conn[c].fio) = Tasks
  BY <1>1 DEF TasksWith, Tasks
<1>4. conn[c].peer \in Peer
  BY UsedConn
<1> QED BY <1>1, <1>2, <1>3, <1>4 DEF Work, RoomInv

\* The handler gives the task away, or closes the connection.
Submitted(c, w, why) ==
  LET p == conn[c].peer  f == w.r.fio
  IN  /\ conn'[c] = w.r /\ peer'[p] = w.peer[p] /\ Handled(c) /\ UNCHANGED fdt
      /\ fio'[f] = [w.fio[f] EXCEPT !.io = "pending", !.conn = c]
      /\ bad' = IF w.fio[f].io # "own" THEN "twice" ELSE None
      /\ cause' = cause \cup why
Closed(c, w) ==
  LET p == conn[c].peer
  IN  /\ conn'[c] = Unused /\ posted'[c] = {} /\ bad' = Broken(w)
      /\ peer'[p] = [w.peer[p] EXCEPT !.cut = TRUE, !.rx = 0]

Causes == {"starved", "slow", "failed", "stale"}

LEMMA FioGiven ==
  \A t \in Fio_t, c \in Conn :
    LET s == [t EXCEPT !.io = "pending", !.conn = c]
    IN  s \in Fio_t /\ s.io = "pending" /\ s.conn = c /\ s.st = t.st
BY DEF Fio_t

LEMMA RefuseStep ==
  ASSUME OwnInv, bad = None, NEW c \in Conn, NEW w, Work(c, w), NEW why \in SUBSET Causes,
         Refuse(c, w, why)
  PROVE  OwnInv' /\ Frame(c) /\ UNCHANGED disk /\ Closed(c, w) /\ cause' = cause \cup why
<1>1. dn_request_close(c, w) /\ cause' = cause \cup why /\ UNCHANGED disk
  BY DEF Refuse
<1>2. DiskType'
  BY <1>1 DEF OwnInv, TypeOK, DiskType, disk, Causes
<1> QED BY <1>1, <1>2, CloseOwn DEF Closed

LEMMA SubmitStep ==
  ASSUME OwnInv, bad = None, NEW c \in Conn, NEW w, Work(c, w), NEW why \in SUBSET Causes,
         w.r.fio # None, Shape(w.r), Submit(c, w, why)
  PROVE  /\ OwnInv' /\ Frame(c) /\ UNCHANGED disk
         /\ \/ Submitted(c, w, why)
            \/ w.fio[w.r.fio].io = "own" /\ Closed(c, w) /\ cause' = cause \cup {"failed"}
<1> DEFINE f == w.r.fio
           p == conn[c].peer
           v == [w EXCEPT !.fio[f].io = "pending", !.fio[f].conn = c]
<1>1. CASE /\ Keep(c, v) /\ bad' = IF w.fio[f].io # "own" THEN "twice" ELSE bad
           /\ cause' = cause \cup why /\ UNCHANGED <<fdt, disk>>
  <2>1. /\ w \in Hs /\ w.fio \in [Fio -> Fio_t] /\ f \in Fio /\ w.r \in Conn_t
        /\ w.peer \in [Peer -> Client_t] /\ w.freeq \in Seq(Fio)
    BY DEF Work, Hs, Conn_t
  <2> DEFINE t == [w.fio[f] EXCEPT !.io = "pending", !.conn = c]
  <2>2. t \in Fio_t /\ t.io = "pending" /\ t.conn = c /\ t.st = w.fio[f].st
    BY <2>1, FioGiven
  <2>3. /\ v.r = w.r /\ v.peer = w.peer /\ v.freeq = w.freeq /\ v.fio = [w.fio EXCEPT ![f] = t]
        /\ v = [w EXCEPT !.fio = [w.fio EXCEPT ![f] = t]]
    BY <2>1 DEF Hs
  <2> HIDE DEF v, t, f
  <2>4. v.fio[f] = t /\ \A g \in Fio \ {f} : v.fio[g] = w.fio[g]
    BY <2>1, <2>3
  <2>5. v \in Hs
    BY <2>1, <2>2, <2>3 DEF Hs
  <2>6. Work(c, v)
    <3>1. \A g \in Fio : g # w.r.fio => v.fio[g] = w.fio[g]
      BY <2>4 DEF f
    <3>2. v.fio[w.r.fio].st = w.fio[w.r.fio].st /\ v.fio[w.r.fio].conn = c
      BY <2>2, <2>4 DEF f
    <3>3. Follows(c, w, v)
      BY <2>3, <2>5, <3>1, <3>2 DEF Follows
    <3> QED BY <3>3, WorkOn
  <2>7. DiskType' /\ bad' \in Bads
    BY <1>1 DEF OwnInv, TypeOK, DiskType, disk, Causes, Bads
  <2>8. OwnInv' /\ Frame(c)
    BY <1>1, <2>2, <2>3, <2>4, <2>6, <2>7, KeepOwn DEF f
  <2>9. conn'[c] = w.r /\ peer'[p] = w.peer[p] /\ fio'[f] = t /\ Handled(c)
    <3>1. conn \in [Conn -> Conn_t]
      BY DEF OwnInv, TypeOK
    <3> QED BY <1>1, <2>3, <2>4, <3>1 DEF Keep
  <2> QED BY <1>1, <2>8, <2>9 DEF Submitted, f, t
<1>2. CASE Failing /\ w.fio[f].io = "own" /\ Refuse(c, w, {"failed"})
  <2>1. {"failed"} \in SUBSET Causes
    BY DEF Causes
  <2> QED BY <1>2, <2>1, RefuseStep
<1> QED BY <1>1, <1>2 DEF Submit

\* The request that hands its task over, by recv_block_handler and by send_block.
LEMMA ConnBlocked ==
  \A r \in Conn_t : LET s == [r EXCEPT !.wh = "blocked"]  t == [r EXCEPT !.rh = "blocked", !.wh = "blocked"]
                    IN  /\ s \in Conn_t /\ t \in Conn_t
                        /\ s.fd = r.fd /\ s.peer = r.peer /\ s.store = r.store /\ s.fio = r.fio
                        /\ t.fd = r.fd /\ t.peer = r.peer /\ t.store = r.store /\ t.fio = r.fio
                        /\ s.etimer = r.etimer /\ t.etimer = r.etimer
                        /\ s.wtimer = r.wtimer /\ t.wtimer = r.wtimer
                        /\ s.done = r.done /\ t.done = r.done
                        /\ s.rh = r.rh /\ t.rh = "blocked" /\ s.wh = "blocked" /\ t.wh = "blocked"
BY ZenonT(60) DEF Conn_t

FioTo(t, d, n, k) == [t EXCEPT !.fd = d, !.need = n, !.off = k]

LEMMA FioWrite ==
  ASSUME NEW t \in Fio_t, NEW d \in Fd \cup {0}, NEW n \in Nat, NEW k \in Nat
  PROVE  LET s == FioTo(t, d, n, k)
         IN  /\ s \in Fio_t /\ s.fd = d /\ s.need = n /\ s.off = k
             /\ s.st = t.st /\ s.io = t.io /\ s.conn = t.conn
<1> DEFINE s == FioTo(t, d, n, k)
<1>0. s = [t EXCEPT !.fd = d, !.need = n, !.off = k]
  BY DEF FioTo
<1> HIDE DEF s
<1>1. s = [st |-> t.st, io |-> t.io, conn |-> t.conn, fd |-> d, off |-> k, need |-> n,
           ret |-> t.ret, sf |-> t.sf]
  BY <1>0 DEF Fio_t
<1>2. /\ s.fd = d /\ s.need = n /\ s.off = k /\ s.st = t.st /\ s.io = t.io /\ s.conn = t.conn
  BY <1>1
<1>4. s \in Fio_t
  BY <1>1 DEF Fio_t
<1> QED BY <1>2, <1>4 DEF s

LEMMA ClientRx ==
  \A q \in Client_t, n \in Nat :
    LET s == [q EXCEPT !.rx = n]
    IN  /\ s \in Client_t /\ s.rx = n /\ s.pc = q.pc /\ s.op = q.op /\ s.cut = q.cut
        /\ s.taken = q.taken /\ s.sent = q.sent /\ s.out = q.out
        /\ [s EXCEPT !.cut = TRUE, !.rx = 0] = [q EXCEPT !.cut = TRUE, !.rx = 0]
BY DEF Client_t

LEMMA HsPut ==
  ASSUME NEW w \in Hs
  PROVE  /\ \A r \in Conn_t : LET v == [w EXCEPT !.r = r]
                              IN  v \in Hs /\ v.r = r /\ v.peer = w.peer /\ v.fio = w.fio /\ v.freeq = w.freeq
         /\ \A b \in [Peer -> Client_t] : LET v == [w EXCEPT !.peer = b]
              IN  v \in Hs /\ v.r = w.r /\ v.peer = b /\ v.fio = w.fio /\ v.freeq = w.freeq
         /\ \A t \in [Fio -> Fio_t] : LET v == [w EXCEPT !.fio = t]
              IN  v \in Hs /\ v.r = w.r /\ v.peer = w.peer /\ v.fio = t /\ v.freeq = w.freeq
BY DEF Hs

LEMMA RecvStep ==
  ASSUME OwnInv, bad = None, NEW c \in Conn, NEW w, Work(c, w), w.r.fio # None,
         w.r.store # 0, ~w.r.wtimer, recv_block_handler(c, w)
  PROVE  LET p == conn[c].peer  f == w.r.fio  t == fio'[f]
         IN  /\ OwnInv' /\ Frame(c) /\ UNCHANGED disk
             /\ \/ /\ conn'[c] = [w.r EXCEPT !.rh = "blocked", !.wh = "blocked"]
                   /\ t.io = "pending" /\ t.fd = w.r.store /\ t.off = w.r.done
                   /\ t.need \in Nat /\ t.need <= w.peer[p].rx
                   /\ peer'[p] = [w.peer[p] EXCEPT !.rx = @ - t.need] /\ UNCHANGED <<fdt, cause>>
                   /\ bad' = IF w.fio[f].io # "own" THEN "twice" ELSE None
                \/ /\ Closed(c, w) /\ cause' \in SUBSET Causes /\ cause \subseteq cause'
                   /\ Gone(p) \/ w.fio[f].io = "own"
<1> DEFINE p == conn[c].peer
           f == w.r.fio
           n == Min({w.peer[p].rx, BufCap})
           v == [w EXCEPT !.peer[p].rx = @ - n, !.r.rh = "blocked", !.r.wh = "blocked",
                          !.fio[f].fd = w.r.store, !.fio[f].need = n, !.fio[f].off = w.r.done]
<1>1. /\ w \in Hs /\ w.fio \in [Fio -> Fio_t] /\ f \in Fio /\ w.r \in Conn_t
      /\ w.peer \in [Peer -> Client_t] /\ w.freeq \in Seq(Fio) /\ w.r.store \in Fd \cup {0}
      /\ w.r.done \in Nat
  BY DEF Work, Hs, Conn_t
<1>2. w.r.peer = p /\ p \in Peer /\ p # None /\ w.r.fd # 0
  BY UsedConn DEF Work
<1>3. n \in Nat /\ n <= w.peer[p].rx /\ w.peer[p].rx \in Nat
  <2> DEFINE x == w.peer[p].rx
  <2>1. x \in Nat /\ BufCap \in Nat
    BY <1>1, <1>2, DnRequestAssumption DEF Client_t
  <2> HIDE DEF x
  <2> QED BY <2>1, MinTwo DEF x
<1>4. IF n < BufCap /\ Gone(p) THEN Refuse(c, w, {}) ELSE Submit(c, v, {})
  BY <1>2 DEF recv_block_handler
<1> DEFINE r == [w.r EXCEPT !.rh = "blocked", !.wh = "blocked"]
           t == [w.fio[f] EXCEPT !.fd = w.r.store, !.need = n, !.off = w.r.done]
           q == [w.peer[p] EXCEPT !.rx = w.peer[p].rx - n]
<1> HIDE DEF n
<1>6. /\ t \in Fio_t /\ t.fd = w.r.store /\ t.need = n /\ t.off = w.r.done
      /\ t.st = w.fio[f].st /\ t.io = w.fio[f].io /\ t.conn = w.fio[f].conn
  <2>1. w.fio[f] \in Fio_t /\ w.r.store \in Fd \cup {0} /\ w.r.done \in Nat /\ n \in Nat
    BY <1>1, <1>3
  <2>2. PICK x \in Fio_t, d \in Fd \cup {0}, k \in Nat, m \in Nat :
          x = w.fio[f] /\ d = w.r.store /\ k = w.r.done /\ m = n
    BY <2>1
  <2>3. t = FioTo(x, d, m, k)
    BY <2>2 DEF FioTo
  <2> HIDE DEF t
  <2>4. /\ t \in Fio_t /\ t.fd = d /\ t.need = m /\ t.off = k
        /\ t.st = x.st /\ t.io = x.io /\ t.conn = x.conn
    BY <2>3, FioWrite
  <2> QED BY <2>2, <2>4
<1>7. /\ q \in Client_t /\ q.pc = w.peer[p].pc /\ q.op = w.peer[p].op /\ q.cut = w.peer[p].cut
      /\ q.taken = w.peer[p].taken /\ q.sent = w.peer[p].sent /\ q.out = w.peer[p].out
      /\ [q EXCEPT !.cut = TRUE, !.rx = 0] = [w.peer[p] EXCEPT !.cut = TRUE, !.rx = 0]
  <2>1. w.peer[p] \in Client_t /\ w.peer[p].rx - n \in Nat
    BY <1>1, <1>2, <1>3
  <2> QED BY <2>1, ClientRx
<1>8. /\ r \in Conn_t /\ r.fd = w.r.fd /\ r.peer = w.r.peer /\ r.store = w.r.store /\ r.fio = f
      /\ r.etimer = w.r.etimer /\ ~r.wtimer /\ r.rh = "blocked" /\ r.wh = "blocked"
  BY <1>1, ConnBlocked
<1> DEFINE w1 == [w EXCEPT !.peer[p].rx = @ - n]
           w2 == [w1 EXCEPT !.r.rh = "blocked", !.r.wh = "blocked"]
           w3 == [w2 EXCEPT !.fio[f].fd = w.r.store, !.fio[f].need = n, !.fio[f].off = w.r.done]
<1>5. /\ v \in Hs /\ v.r = r /\ v.freeq = w.freeq /\ v.fio = [w.fio EXCEPT ![f] = t]
      /\ v.peer = [w.peer EXCEPT ![p] = q]
  <2>1. v = w3
    OBVIOUS
  <2> DEFINE b == [w.peer EXCEPT ![p] = q]
  <2>2. w1 = [w EXCEPT !.peer = b]
    OBVIOUS
  <2> HIDE DEF v, w1, w2, w3, r, t, q, f, p
  <2>3. b \in [Peer -> Client_t]
    BY <1>1, <1>2, <1>7
  <2> HIDE DEF b
  <2>4. w1 \in Hs /\ w1.r = w.r /\ w1.peer = b /\ w1.fio = w.fio /\ w1.freeq = w.freeq
    BY <1>1, <2>2, <2>3, HsPut
  <2>5. w2 = [w1 EXCEPT !.r = r]
    BY <2>4 DEF Hs, w2, r
  <2>6. w2 \in Hs /\ w2.r = r /\ w2.peer = b /\ w2.fio = w.fio /\ w2.freeq = w.freeq
    BY <1>8, <2>4, <2>5, HsPut
  <2> DEFINE x == [w.fio EXCEPT ![f] = t]
  <2>7. x \in [Fio -> Fio_t]
    BY <1>1, <1>6
  <2>8. w3 = [w2 EXCEPT !.fio = x]
    BY <1>1, <2>6 DEF Hs, w3, t
  <2> HIDE DEF x
  <2>9. w3 \in Hs /\ w3.r = r /\ w3.peer = b /\ w3.fio = x /\ w3.freeq = w.freeq
    BY <2>6, <2>7, <2>8, HsPut
  <2> QED BY <2>1, <2>9 DEF x, b
<1> HIDE DEF v, r, t, q
<1>9. /\ v.fio[f] = t /\ \A g \in Fio \ {f} : v.fio[g] = w.fio[g]
      /\ v.peer[p] = q /\ \A x \in Peer \ {p} : v.peer[x] = w.peer[x]
  BY <1>1, <1>2, <1>5
<1>10. v \in Hs
  BY <1>5
<1>11. Work(c, v)
  <2>1. \A g \in Fio : g # w.r.fio => v.fio[g] = w.fio[g]
    BY <1>9
  <2>2. /\ v.fio[w.r.fio].st = w.fio[w.r.fio].st /\ v.fio[w.r.fio].io = w.fio[w.r.fio].io
        /\ v.fio[w.r.fio].conn = w.fio[w.r.fio].conn
    BY <1>6, <1>9
  <2>3. Fits(w.peer[p]) => Fits(v.peer[p])
    BY <1>7, <1>9 DEF Fits
  <2>4. /\ v.r.peer = w.r.peer /\ v.r.fd = w.r.fd /\ v.r.store = w.r.store /\ v.r.fio = w.r.fio
        /\ v.freeq = w.freeq
    BY <1>5, <1>8
  <2>5. /\ v.peer[p].pc = w.peer[p].pc /\ v.peer[p].op = w.peer[p].op /\ v.peer[p].cut = w.peer[p].cut
        /\ v.peer[p].taken = w.peer[p].taken /\ v.peer[p].sent = w.peer[p].sent
    BY <1>7, <1>9
  <2>6. \A x \in Peer \ {p} : v.peer[x] = w.peer[x]
    BY <1>9
  <2>7. Follows(c, w, v)
    BY <1>10, <2>1, <2>2, <2>3, <2>4, <2>5, <2>6 DEF Follows
  <2> QED BY <2>7, WorkOn
<1>12. CASE n < BufCap /\ Gone(p)
  <2>1. Refuse(c, w, {})
    BY <1>4, <1>12
  <2>2. cause \in SUBSET Causes
    BY DEF OwnInv, TypeOK, Causes
  <2> QED BY <1>12, <2>1, <2>2, RefuseStep
<1>13. CASE ~(n < BufCap /\ Gone(p))
  <2>1. Submit(c, v, {}) /\ v.r.fio # None
    BY <1>4, <1>5, <1>8, <1>13
  <2>2. Shape(v.r)
    BY <1>2, <1>5, <1>8 DEF Shape, Working
  <2>3. /\ OwnInv' /\ Frame(c) /\ UNCHANGED disk
        /\ \/ Submitted(c, v, {})
           \/ v.fio[v.r.fio].io = "own" /\ Closed(c, v) /\ cause' = cause \cup {"failed"}
    BY <1>11, <2>1, <2>2, SubmitStep
  <2>4. CASE Submitted(c, v, {})
    <3>1. /\ conn'[c] = r /\ peer'[p] = q /\ UNCHANGED fdt
          /\ fio'[f] = [t EXCEPT !.io = "pending", !.conn = c]
          /\ bad' = IF t.io # "own" THEN "twice" ELSE None
          /\ cause' = cause
      BY <1>5, <1>8, <1>9, <2>4 DEF Submitted
    <3>2. /\ fio'[f].io = "pending" /\ fio'[f].fd = t.fd /\ fio'[f].off = t.off
          /\ fio'[f].need = t.need
      BY <1>6, <3>1 DEF Fio_t
    <3> QED BY <1>3, <1>6, <2>3, <3>1, <3>2 DEF r, q
  <2>5. CASE v.fio[v.r.fio].io = "own" /\ Closed(c, v) /\ cause' = cause \cup {"failed"}
    <3>1. w.fio[f].io = "own" /\ v.fio[f].io = "own"
      BY <1>5, <1>6, <1>8, <1>9, <2>5
    <3>2. Broken(v) = Broken(w)
      BY <1>5, <1>8, <3>1 DEF Broken
    <3>3. Closed(c, w)
      <4> HIDE DEF p
      <4> QED BY <1>7, <1>9, <2>5, <3>2 DEF Closed, p
    <3>4. cause' \in SUBSET Causes
      BY <2>5 DEF OwnInv, TypeOK, Causes
    <3> QED BY <2>3, <2>5, <3>1, <3>3, <3>4
  <2> QED BY <2>3, <2>4, <2>5
<1> QED BY <1>12, <1>13

Sf_t == {<<>>} \cup ((Fd \cup {0}) \X (Fd \cup {0}))
FioFrom(t, sf, n) == [t EXCEPT !.sf = sf, !.off = 0, !.need = n]

LEMMA FioRead ==
  ASSUME NEW t \in Fio_t, NEW sf \in Sf_t, NEW n \in Nat
  PROVE  LET s == FioFrom(t, sf, n)
         IN  /\ s \in Fio_t /\ s.sf = sf /\ s.need = n /\ s.off = 0
             /\ s.st = t.st /\ s.io = t.io /\ s.conn = t.conn
<1> DEFINE s == FioFrom(t, sf, n)
<1>0. s = [t EXCEPT !.sf = sf, !.off = 0, !.need = n]
  BY DEF FioFrom
<1> HIDE DEF s
<1>1. s = [st |-> t.st, io |-> t.io, conn |-> t.conn, fd |-> t.fd, off |-> 0, need |-> n,
           ret |-> t.ret, sf |-> sf]
  BY <1>0 DEF Fio_t
<1>2. /\ s.sf = sf /\ s.need = n /\ s.off = 0 /\ s.st = t.st /\ s.io = t.io /\ s.conn = t.conn
  BY <1>1
<1>4. s \in Fio_t
  BY <1>1 DEF Fio_t, Sf_t
<1> QED BY <1>2, <1>4 DEF s

LEMMA SendStep ==
  ASSUME OwnInv, bad = None, NEW c \in Conn, NEW w, Work(c, w), w.r.fio # None,
         w.r.store # 0, ~w.r.wtimer, w.r.rh \in {"check", "blocked"}, dn_request_send_block(c, w)
  PROVE  LET p == conn[c].peer  f == w.r.fio  t == fio'[f]
         IN  /\ OwnInv' /\ Frame(c) /\ UNCHANGED disk
             /\ cause' \in SUBSET Causes /\ cause \subseteq cause'
             /\ \/ /\ conn'[c] = [w.r EXCEPT !.wh = "blocked"] /\ peer'[p] = w.peer[p] /\ UNCHANGED fdt
                   /\ t.io = "pending" /\ t.off = 0 /\ t.need = Size[Blk[p]]
                   /\ t.sf = <<w.r.fd, w.r.store>> \/ "stale" \in cause'
                   /\ t.sf # <<>>
                   /\ bad' = IF w.fio[f].io # "own" THEN "twice" ELSE None
                \/ Closed(c, w) /\ w.fio[f].io = "own"
<1> DEFINE p == conn[c].peer
           f == w.r.fio
           z == Size[Blk[p]]
           fresh == <<w.r.fd, w.r.store>>
<1>1. /\ w \in Hs /\ w.fio \in [Fio -> Fio_t] /\ f \in Fio /\ w.r \in Conn_t
      /\ w.peer \in [Peer -> Client_t] /\ w.freeq \in Seq(Fio) /\ w.r.store \in Fd \cup {0}
      /\ w.r.fd \in Fd \cup {0}
  BY DEF Work, Hs, Conn_t
<1>2. w.r.peer = p /\ p \in Peer /\ p # None /\ w.r.fd # 0
  BY UsedConn DEF Work
<1>3. PICK sf \in IF w.fio[f].sf = <<>> THEN {fresh} ELSE {w.fio[f].sf, <<0, 0>>} :
        Submit(c, [w EXCEPT !.r.wh = "blocked", !.fio[f].sf = sf, !.fio[f].off = 0,
                            !.fio[f].need = z],
               IF sf = fresh THEN {} ELSE {"stale"})
  BY <1>2 DEF dn_request_send_block
<1> DEFINE v == [w EXCEPT !.r.wh = "blocked", !.fio[f].sf = sf, !.fio[f].off = 0, !.fio[f].need = z]
           why == IF sf = fresh THEN {} ELSE {"stale"}
           r == [w.r EXCEPT !.wh = "blocked"]
           t == [w.fio[f] EXCEPT !.sf = sf, !.off = 0, !.need = z]
<1>4. w.fio[f] \in Fio_t /\ sf \in {<<>>} \cup ((Fd \cup {0}) \X (Fd \cup {0})) /\ z \in Nat /\ sf # <<>>
  <2>1. w.fio[f] \in Fio_t /\ w.fio[f].sf \in {<<>>} \cup ((Fd \cup {0}) \X (Fd \cup {0}))
    BY <1>1 DEF Fio_t
  <2>2. fresh \in (Fd \cup {0}) \X (Fd \cup {0}) /\ <<0, 0>> \in (Fd \cup {0}) \X (Fd \cup {0})
    BY <1>1
  <2>3. z \in Nat
    BY <1>2, DnRequestAssumption DEF Block
  <2>4. fresh # <<>> /\ <<0, 0>> # <<>>
    OBVIOUS
  <2> HIDE DEF fresh
  <2> QED BY <1>3, <2>1, <2>2, <2>3, <2>4
<1>6. /\ t \in Fio_t /\ t.sf = sf /\ t.need = z /\ t.off = 0
      /\ t.st = w.fio[f].st /\ t.io = w.fio[f].io /\ t.conn = w.fio[f].conn
  <2>2. PICK x \in Fio_t, k \in Sf_t, m \in Nat :
          x = w.fio[f] /\ k = sf /\ m = z
    BY <1>4 DEF Sf_t
  <2>3. t = FioFrom(x, k, m)
    BY <2>2 DEF FioFrom
  <2> HIDE DEF t
  <2>4. /\ t \in Fio_t /\ t.sf = k /\ t.need = m /\ t.off = 0
        /\ t.st = x.st /\ t.io = x.io /\ t.conn = x.conn
    BY <2>3, FioRead
  <2> QED BY <2>2, <2>4
<1>8. /\ r \in Conn_t /\ r.fd = w.r.fd /\ r.peer = w.r.peer /\ r.store = w.r.store /\ r.fio = f
      /\ r.etimer = w.r.etimer /\ ~r.wtimer /\ r.rh = w.r.rh /\ r.wh = "blocked"
  BY <1>1, ConnBlocked
<1> DEFINE w2 == [w EXCEPT !.r.wh = "blocked"]
           w3 == [w2 EXCEPT !.fio[f].sf = sf, !.fio[f].off = 0, !.fio[f].need = z]
<1>5. /\ v \in Hs /\ v.r = r /\ v.freeq = w.freeq /\ v.fio = [w.fio EXCEPT ![f] = t]
      /\ v.peer = w.peer
  <2>1. v = w3
    OBVIOUS
  <2>2. w2 = [w EXCEPT !.r = r]
    OBVIOUS
  <2> HIDE DEF v, w2, w3, r, t, f, p, z
  <2>6. w2 \in Hs /\ w2.r = r /\ w2.peer = w.peer /\ w2.fio = w.fio /\ w2.freeq = w.freeq
    BY <1>1, <1>8, <2>2, HsPut
  <2> DEFINE x == [w.fio EXCEPT ![f] = t]
  <2>7. x \in [Fio -> Fio_t]
    BY <1>1, <1>6
  <2>8. w3 = [w2 EXCEPT !.fio = x]
    BY <1>1, <2>6 DEF Hs, w3, t
  <2> HIDE DEF x
  <2>9. w3 \in Hs /\ w3.r = r /\ w3.peer = w.peer /\ w3.fio = x /\ w3.freeq = w.freeq
    BY <2>6, <2>7, <2>8, HsPut
  <2> QED BY <2>1, <2>9 DEF x
<1> HIDE DEF v, r, t
<1>9. v.fio[f] = t /\ \A g \in Fio \ {f} : v.fio[g] = w.fio[g]
  BY <1>1, <1>5
<1>11. Work(c, v)
  <2>1. \A g \in Fio : g # w.r.fio => v.fio[g] = w.fio[g]
    BY <1>9
  <2>2. /\ v.fio[w.r.fio].st = w.fio[w.r.fio].st /\ v.fio[w.r.fio].io = w.fio[w.r.fio].io
        /\ v.fio[w.r.fio].conn = w.fio[w.r.fio].conn
    BY <1>6, <1>9
  <2>4. /\ v.r.peer = w.r.peer /\ v.r.fd = w.r.fd /\ v.r.store = w.r.store /\ v.r.fio = w.r.fio
        /\ v.freeq = w.freeq
    BY <1>5, <1>8
  <2>7. Follows(c, w, v)
    BY <1>5, <2>1, <2>2, <2>4 DEF Follows
  <2> QED BY <2>7, WorkOn
<1>12. Shape(v.r) /\ v.r.fio # None
  BY <1>2, <1>5, <1>8 DEF Shape, Working
<1>13. why \in SUBSET Causes /\ cause \in SUBSET Causes /\ (sf = fresh \/ "stale" \in why)
  BY DEF OwnInv, TypeOK, Causes
<1>14. Submit(c, v, why)
  BY <1>3 DEF v
<1> HIDE DEF why
<1>15. /\ OwnInv' /\ Frame(c) /\ UNCHANGED disk
       /\ \/ Submitted(c, v, why)
          \/ v.fio[v.r.fio].io = "own" /\ Closed(c, v) /\ cause' = cause \cup {"failed"}
  BY <1>11, <1>12, <1>13, <1>14, SubmitStep
<1>16. CASE Submitted(c, v, why)
  <2>1. /\ conn'[c] = r /\ peer'[p] = w.peer[p] /\ UNCHANGED fdt
        /\ fio'[f] = [t EXCEPT !.io = "pending", !.conn = c]
        /\ bad' = IF t.io # "own" THEN "twice" ELSE None
        /\ cause' = cause \cup why
    BY <1>5, <1>8, <1>9, <1>16 DEF Submitted
  <2>2. /\ fio'[f].io = "pending" /\ fio'[f].sf = t.sf /\ fio'[f].off = t.off
        /\ fio'[f].need = t.need
    BY <1>6, <2>1 DEF Fio_t
  <2> QED BY <1>4, <1>6, <1>13, <1>15, <2>1, <2>2 DEF r
<1>17. CASE v.fio[v.r.fio].io = "own" /\ Closed(c, v) /\ cause' = cause \cup {"failed"}
  <2>1. w.fio[f].io = "own" /\ v.fio[f].io = "own"
    BY <1>5, <1>6, <1>8, <1>9, <1>17
  <2>2. Broken(v) = Broken(w)
    BY <1>5, <1>8, <2>1 DEF Broken
  <2>3. Closed(c, w)
    BY <1>5, <1>17, <2>2 DEF Closed
  <2>4. cause' \in SUBSET Causes
    BY <1>13, <1>17 DEF Causes
  <2> QED BY <1>15, <1>17, <2>1, <2>3, <2>4
<1> QED BY <1>15, <1>16, <1>17

----------------------------------------------------------------------------
(* What a handler of connection c does *)

\* The answer to the header is sent, now or before.
Headed(c, o) ==
  LET q == peer[conn[c].peer]
  IN  \/ q.out = <<>> /\ o = <<<<"header", 0>>>>
      \/ o = q.out /\ (o # <<>> \/ conn[c].etimer)

\* What no handler changes of its client, and what it may break.
Kept(c) ==
  LET p == conn[c].peer
  IN  /\ peer'[p].pc = peer[p].pc /\ peer'[p].op = peer[p].op
      /\ peer'[p].sent = peer[p].sent /\ peer'[p].taken = peer[p].taken
      /\ cause \subseteq cause'
Excuse(c) ==
  LET p == conn[c].peer
  IN  /\ bad' = "inflight" => (Gone(p) /\ peer[p].op = "read") \/ "starved" \in cause
      /\ bad' = "double" => Gone(p) /\ peer[p].op \in {"read", "write"}
      /\ bad' = "timer" => "starved" \in cause'
      /\ bad' = "twice" => cause \cap {"starved", "slow"} # {}

SameConn(c) ==
  LET r == conn[c]  s == conn'[c]
  IN  s.peer = r.peer /\ s.fd = r.fd /\ s.store = r.store /\ (s.etimer => r.etimer)

Starves(c) ==
  LET r == conn[c]  s == conn'[c]  p == conn[c].peer
  IN  /\ Opening(r) /\ Opening(s) /\ s.etimer /\ s.peer = p /\ s.fd = r.fd /\ s.store = r.store
      /\ peer'[p].rx = peer[p].rx /\ peer'[p].cut = peer[p].cut /\ Headed(c, peer'[p].out)
      /\ "starved" \in cause' /\ UNCHANGED <<fdt, disk>>

Writes(c) ==
  LET r == conn[c]  s == conn'[c]  p == conn[c].peer  u == fio[r.fio]  t == fio'[s.fio]
  IN  /\ peer[p].op = "write" /\ SameConn(c) /\ s.rh = "blocked" /\ s.wh = "blocked" /\ s.fio \in Fio
      /\ t.io = "pending" /\ t.fd = r.store /\ t.off = s.done
      /\ t.need <= peer[p].rx /\ peer'[p].rx = peer[p].rx - t.need /\ peer'[p].cut = peer[p].cut
      /\ UNCHANGED <<fdt, disk>>
      /\ \/ Opening(r) /\ s.done = r.done /\ Headed(c, peer'[p].out)
         \/ /\ r.fio \in Fio /\ u.io = "done" /\ u.ret = u.need /\ s.done = r.done + u.need
            /\ s.done < Size[Blk[p]] /\ peer'[p].out = peer[p].out

Reads(c) ==
  LET r == conn[c]  s == conn'[c]  p == conn[c].peer  t == fio'[s.fio]
  IN  /\ peer[p].op = "read" /\ SameConn(c) /\ s.rh = "check" /\ s.wh = "blocked" /\ s.fio \in Fio
      /\ Opening(r) /\ Headed(c, peer'[p].out)
      /\ t.io = "pending" /\ t.off = 0 /\ t.need = Size[Blk[p]]
      /\ t.sf = <<r.fd, r.store>> \/ "stale" \in cause'
      /\ t.sf # <<>>
      /\ peer'[p].rx = peer[p].rx /\ peer'[p].cut = peer[p].cut /\ UNCHANGED <<fdt, disk>>

Retries(c) ==
  LET r == conn[c]  s == conn'[c]  p == conn[c].peer  u == fio[r.fio]  t == fio'[r.fio]
  IN  /\ peer[p].op = "read" /\ SameConn(c) /\ s.rh = r.rh /\ s.wh = "again" /\ r.fio \in Fio
      /\ s.fio = r.fio /\ t.io = "pending" /\ t.off = u.off /\ t.need = u.need /\ t.sf = u.sf
      /\ peer' = peer /\ "slow" \in cause' /\ UNCHANGED <<fdt, disk>>

Sames(c) ==
  LET r == conn[c]  s == conn'[c]
  IN  /\ \/ s = r /\ posted'[c] = posted[c] \ {"in"} /\ r.rh # "header"
         \/ Working(r) /\ Working(s) /\ s.rh = r.rh /\ s.wh = r.wh /\ s.fio = r.fio /\ s.done = r.done
      /\ SameConn(c) /\ UNCHANGED <<peer, fio, fdt, disk, cause>>

\* The task is done as it should be.
Finished(c) ==
  LET r == conn[c]  u == fio[r.fio]  p == r.peer
  IN  /\ r.fio \in Fio /\ u.io = "done"
      /\ IF peer[p].op = "write" THEN u.ret = u.need /\ r.done + u.need >= Size[Blk[p]]
         ELSE u.ret \notin {EAGAIN, ERROR}
Ends(c) ==
  LET p == conn[c].peer
  IN  /\ bad' = None => conn'[c] = Unused /\ posted'[c] = {} /\ peer'[p].cut
      /\ \/ UNCHANGED disk /\ (peer'[p].out = peer[p].out \/ Headed(c, peer'[p].out))
         \/ /\ Finished(c)
            /\ IF peer[p].op = "write" THEN write_block_done(Blk[p]) ELSE UNCHANGED disk
            /\ peer'[p].out \in {peer[p].out, Append(peer[p].out, <<"done", 0>>)}

Step(c) ==
  /\ OwnInv' /\ Frame(c) /\ Kept(c) /\ Excuse(c)
  /\ \/ Ends(c)
     \/ bad' = None /\ (Starves(c) \/ Writes(c) \/ Reads(c) \/ Retries(c) \/ Sames(c))

\* A handler that closes the connection having got as far as w.
LEMMA ClosedEnds ==
  ASSUME OwnInv, bad = None, NEW c \in Conn, NEW w, Work(c, w), Closed(c, w),
         OwnInv', Frame(c), cause \subseteq cause', UNCHANGED disk,
         w.peer[conn[c].peer].out = peer[conn[c].peer].out \/ Headed(c, w.peer[conn[c].peer].out),
         w.r.etimer => "starved" \in cause,
         w.r.fio = None \/ w.fio[w.r.fio].io = "own" \/ "starved" \in cause
           \/ (Gone(conn[c].peer) /\ peer[conn[c].peer].op = "read")
  PROVE  Step(c)
<1> DEFINE p == conn[c].peer
<1>1. p \in Peer /\ w.peer[p] \in Client_t
  BY UsedConn DEF Work, Hs
<1>2. /\ conn'[c] = Unused /\ posted'[c] = {} /\ bad' = Broken(w)
      /\ peer'[p] = [w.peer[p] EXCEPT !.cut = TRUE, !.rx = 0]
  BY DEF Closed
<1>3. /\ w.peer[p].pc = peer[p].pc /\ w.peer[p].op = peer[p].op
      /\ w.peer[p].taken = peer[p].taken /\ w.peer[p].sent = peer[p].sent
  BY DEF Work
<1>4. /\ peer'[p].pc = peer[p].pc /\ peer'[p].op = peer[p].op /\ peer'[p].sent = peer[p].sent
      /\ peer'[p].taken = peer[p].taken /\ peer'[p].cut /\ peer'[p].out = w.peer[p].out
  BY <1>1, <1>2, <1>3 DEF Client_t
<1>5. Kept(c)
  BY <1>4 DEF Kept
<1>6. Excuse(c)
  BY <1>2 DEF Excuse, Broken, None
<1>7. Ends(c)
  BY <1>2, <1>4 DEF Ends
<1> QED BY <1>5, <1>6, <1>7 DEF Step

LEMMA AllocWork ==
  ASSUME OwnInv, bad = None, NEW c \in Conn, NEW w, Work(c, w), w.r.fio = None,
         NEW v, v = cfs_fio_manager_alloc(w)
  PROVE  /\ Work(c, v) /\ v.peer = w.peer
         /\ v.r = w.r \/ (v.r.fio # None /\ v.r = [w.r EXCEPT !.fio = v.r.fio])
         /\ v.r.fio # None => v.r.fio \in Fio /\ v.fio[v.r.fio].io = "own"
<1>1. TypeOK /\ w \in Hs /\ Owned(TasksWith(c, None), w.fio, w.freeq)
  BY DEF OwnInv, Work
<1>2. /\ TasksWith(c, None) \in [Conn -> Fio \cup {None}] /\ TasksWith(c, None)[c] = None
      /\ \A d \in Conn : d # c => TasksWith(c, None)[d] = conn[d].fio
  BY <1>1, TasksType
<1>3. /\ v \in Hs /\ v.peer = w.peer
      /\ v.r = w.r \/ (v.r.fio # None /\ v.r = [w.r EXCEPT !.fio = v.r.fio])
      /\ Owned([TasksWith(c, None) EXCEPT ![c] = v.r.fio], v.fio, v.freeq)
      /\ \A f \in Fio : w.fio[f].st = "used" => v.fio[f] = w.fio[f]
      /\ v.r.fio # None => v.r.fio \in Fio /\ v.fio[v.r.fio].io = "own"
  BY <1>1, <1>2, AllocOwned
<1>4. [TasksWith(c, None) EXCEPT ![c] = v.r.fio] = TasksWith(c, v.r.fio)
  BY DEF TasksWith, Tasks
<1>5. \A d \in Conn \ {c} : conn[d].fio # None => v.fio[conn[d].fio] = fio[conn[d].fio]
  <2> SUFFICES ASSUME NEW d \in Conn \ {c}, conn[d].fio # None
               PROVE  v.fio[conn[d].fio] = fio[conn[d].fio]
    OBVIOUS
  <2>1. conn[d].fio \in Fio /\ w.fio[conn[d].fio].st = "used"
    BY <1>1, <1>2 DEF Owned
  <2> QED BY <1>3, <2>1 DEF Work
<1>6. v.r.peer = w.r.peer /\ v.r.fd = w.r.fd /\ v.r.store = w.r.store
  <2>1. w.r \in Conn_t
    BY <1>1 DEF Hs
  <2> QED BY <1>3, <2>1 DEF Conn_t
<1> QED BY <1>3, <1>4, <1>5, <1>6, SMTT(60) DEF Work

\* The request is ready for its block; w is what the handler has made of it.
Ready(c, w) ==
  LET r == conn[c]  p == conn[c].peer
  IN  /\ Work(c, w) /\ Asked(c)
      /\ ~w.r.wtimer /\ w.r.rh = r.rh /\ w.r.wh = r.wh /\ w.r.sub = r.sub /\ w.r.wact = r.wact
      /\ w.r.done = r.done /\ w.r.fio = r.fio /\ (w.r.etimer => r.etimer)
      /\ w.peer[p].rx = peer[p].rx /\ Headed(c, w.peer[p].out)
      /\ r.fio # None => r.etimer /\ w.fio[r.fio].io # "own"

\* A step that ends the process.
LEMMA Ruined ==
  ASSUME NEW c, OwnInv', Frame(c), Kept(c), Excuse(c), bad' # None, UNCHANGED disk,
         peer'[conn[c].peer].out = peer[conn[c].peer].out \/ Headed(c, peer'[conn[c].peer].out)
  PROVE  Step(c)
BY DEF Step, Ends

LEMMA ConnRest ==
  ASSUME NEW r \in Conn_t, NEW x
  PROVE  /\ LET s == [r EXCEPT !.fio = x]
            IN  /\ s.peer = r.peer /\ s.fd = r.fd /\ s.store = r.store /\ s.rh = r.rh /\ s.wh = r.wh
                /\ s.done = r.done /\ s.etimer = r.etimer /\ s.wtimer = r.wtimer
                /\ s.sub = r.sub /\ s.wact = r.wact
         /\ LET s == [r EXCEPT !.etimer = TRUE]
            IN  /\ s.peer = r.peer /\ s.fd = r.fd /\ s.store = r.store /\ s.rh = r.rh /\ s.wh = r.wh
                /\ s.done = r.done /\ s.etimer /\ s.wtimer = r.wtimer /\ s.fio = r.fio
                /\ s.sub = r.sub /\ s.wact = r.wact /\ s \in Conn_t
BY DEF Conn_t

LEMMA BodyStep ==
  ASSUME OwnInv, OpInv, bad = None, NEW c \in Conn, NEW w, Ready(c, w), dn_request_process_body(c, w)
  PROVE  Step(c)
<1> DEFINE p == conn[c].peer
           r == conn[c]
           v == IF w.r.fio = None THEN cfs_fio_manager_alloc(w) ELSE w
<1>1. /\ Work(c, w) /\ Asked(c) /\ w.r.peer = p /\ w.r.fd = r.fd /\ w.r.store = r.store
      /\ ~w.r.wtimer /\ w.r.rh = r.rh /\ w.r.wh = r.wh /\ w.r.sub = r.sub /\ w.r.wact = r.wact
      /\ w.r.done = r.done /\ w.r.fio = r.fio /\ (w.r.etimer => r.etimer)
      /\ w.peer[p].rx = peer[p].rx /\ Headed(c, w.peer[p].out)
      /\ r.fio # None => r.etimer /\ w.fio[r.fio].io # "own"
  BY DEF Ready, Work
<1>2. /\ w \in Hs /\ w.r \in Conn_t /\ w.peer \in [Peer -> Client_t] /\ p \in Peer
      /\ w.peer[p] \in Client_t
      /\ w.peer[p].pc = peer[p].pc /\ w.peer[p].op = peer[p].op /\ w.peer[p].cut = peer[p].cut
      /\ w.peer[p].taken = peer[p].taken /\ w.peer[p].sent = peer[p].sent
  BY <1>1, UsedConn DEF Work, Hs
<1>3. Opening(r) \/ Working(r)
  BY <1>1, UsedConn DEF Work, Asked, Waiting
<1>4. /\ r.etimer => "starved" \in cause
      /\ peer[p].op = "read" => r.rh = "check"
  BY <1>1 DEF OpInv
<1>5. /\ Work(c, v) /\ v.peer = w.peer
      /\ v.r = w.r \/ (w.r.fio = None /\ v.r.fio # None /\ v.r = [w.r EXCEPT !.fio = v.r.fio])
      /\ r.fio = None /\ v.r.fio # None => v.r.fio \in Fio /\ v.fio[v.r.fio].io = "own"
      /\ r.fio # None => v = w
  <2>1. CASE r.fio = None
    <3>1. v = cfs_fio_manager_alloc(w) /\ w.r.fio = None
      BY <1>1, <2>1
    <3> HIDE DEF v
    <3> QED BY <1>1, <2>1, <3>1, AllocWork
  <2>2. CASE r.fio # None
    BY <1>1, <2>2
  <2> QED BY <2>1, <2>2
<1>6. /\ w.r.peer = p /\ dn_request_process_body(c, w)
      /\ \/ /\ v.r.fio = None /\ Keep(c, [v EXCEPT !.r.etimer = TRUE])
            /\ bad' = IF w.r.etimer THEN "timer" ELSE bad
            /\ cause' = cause \cup {"starved"} /\ UNCHANGED <<fdt, disk>>
         \/ v.r.fio # None /\ peer[p].op = "write" /\ recv_block_handler(c, v)
         \/ v.r.fio # None /\ peer[p].op = "read" /\ dn_request_send_block(c, v)
  <2> HIDE DEF p
  <2> QED BY <1>1 DEF dn_request_process_body
<1> HIDE DEF v
<1>7. /\ v \in Hs /\ v.r \in Conn_t
      /\ v.r.peer = p /\ v.r.fd = r.fd /\ v.r.store = r.store
      /\ ~v.r.wtimer /\ v.r.rh = r.rh /\ v.r.wh = r.wh /\ v.r.sub = r.sub /\ v.r.wact = r.wact
      /\ v.r.done = r.done /\ (v.r.etimer => r.etimer)
  <2>1. v \in Hs /\ v.r \in Conn_t
    BY <1>5 DEF Work, Hs
  <2> HIDE DEF r, p
  <2>2. PICK y \in Conn_t : y = w.r
    BY <1>2
  <2>3. PICK z : z = v.r.fio
    OBVIOUS
  <2>4. LET s == [y EXCEPT !.fio = z]
        IN  /\ s.peer = y.peer /\ s.fd = y.fd /\ s.store = y.store /\ s.rh = y.rh /\ s.wh = y.wh
            /\ s.done = y.done /\ s.etimer = y.etimer /\ s.wtimer = y.wtimer
            /\ s.sub = y.sub /\ s.wact = y.wact
    BY ConnRest
  <2>5. v.r = y \/ v.r = [y EXCEPT !.fio = z]
    BY <1>5, <2>2, <2>3
  <2> QED BY <1>1, <2>1, <2>2, <2>4, <2>5
<1>8. /\ v.r.store # 0 /\ v.r.rh \in {"check", "blocked"} /\ v.r.fd # 0 /\ p # None
  BY <1>3, <1>5, <1>7, UsedConn DEF Opening, Working, Work
<1>9. CASE /\ v.r.fio = None /\ Keep(c, [v EXCEPT !.r.etimer = TRUE])
           /\ bad' = IF w.r.etimer THEN "timer" ELSE bad
           /\ cause' = cause \cup {"starved"} /\ UNCHANGED <<fdt, disk>>
  <2>1. r.fio = None /\ Opening(r)
    BY <1>1, <1>3, <1>5, <1>9 DEF Working
  <2> DEFINE s == [v.r EXCEPT !.etimer = TRUE]
             x == [v EXCEPT !.r.etimer = TRUE]
  <2>2. /\ s.peer = p /\ s.fd = r.fd /\ s.store = r.store /\ s.rh = r.rh /\ s.wh = r.wh
        /\ s.done = r.done /\ s.etimer /\ ~s.wtimer /\ s.fio = None
        /\ s.sub = r.sub /\ s.wact = r.wact /\ s \in Conn_t
    BY <1>7, <1>9, ConnRest
  <2>3. x = [v EXCEPT !.r = s]
    OBVIOUS
  <2> HIDE DEF x, s
  <2>4. x \in Hs /\ x.r = s /\ x.peer = v.peer /\ x.fio = v.fio /\ x.freeq = v.freeq
    BY <1>7, <2>2, <2>3, HsPut
  <2>5. Work(c, x)
    <3>1. Follows(c, v, x)
      BY <1>7, <1>9, <2>2, <2>4 DEF Follows
    <3> QED BY <1>5, <3>1, WorkOn
  <2>6. Opening(s)
    BY <2>1, <2>2 DEF Opening
  <2>7. Shape(x.r) /\ x.r.fio = None
    BY <1>7, <1>8, <2>2, <2>4, <2>6 DEF Shape
  <2>8. DiskType' /\ bad' \in Bads /\ fdt' = fdt /\ Keep(c, x)
    BY <1>9 DEF OwnInv, TypeOK, DiskType, disk, Bads, x
  <2>9. OwnInv' /\ Frame(c)
    BY <2>5, <2>7, <2>8, KeepOwn
  <2>10. conn'[c] = s /\ peer'[p] = w.peer[p]
    <3>1. conn \in [Conn -> Conn_t]
      BY DEF OwnInv, TypeOK
    <3> QED BY <1>5, <2>4, <2>8, <3>1 DEF Keep
  <2>11. Kept(c)
    BY <1>2, <1>9, <2>10 DEF Kept
  <2>12. Excuse(c)
    BY <1>9 DEF Excuse, None
  <2>13. CASE bad' # None
    BY <1>1, <1>9, <2>9, <2>10, <2>11, <2>12, <2>13, Ruined
  <2>14. CASE bad' = None
    <3>1. Starves(c)
      BY <1>1, <1>2, <1>9, <2>1, <2>2, <2>6, <2>10 DEF Starves
    <3> QED BY <2>9, <2>11, <2>12, <2>14, <3>1 DEF Step
  <2> QED BY <2>13, <2>14
<1>10. ASSUME v.r.fio # None, Closed(c, v), OwnInv', Frame(c), UNCHANGED disk,
              cause \subseteq cause', Gone(p) \/ v.fio[v.r.fio].io = "own"
       PROVE  Step(c)
  <2>1. v.r.etimer => "starved" \in cause
    BY <1>4, <1>7
  <2>2. v.fio[v.r.fio].io = "own" \/ "starved" \in cause
    BY <1>1, <1>4, <1>5, <1>10
  <2>3. Headed(c, v.peer[p].out)
    BY <1>1, <1>5
  <2> QED BY <1>5, <1>10, <2>1, <2>2, <2>3, ClosedEnds
<1>11. CASE v.r.fio # None /\ peer[p].op = "write" /\ recv_block_handler(c, v)
  <2> DEFINE f == v.r.fio
             t == fio'[f]
             s == [v.r EXCEPT !.rh = "blocked", !.wh = "blocked"]
             q == [w.peer[p] EXCEPT !.rx = w.peer[p].rx - t.need]
  <2>1. /\ OwnInv' /\ Frame(c) /\ UNCHANGED disk
        /\ \/ /\ conn'[c] = s
              /\ t.io = "pending" /\ t.fd = v.r.store /\ t.off = v.r.done
              /\ t.need \in Nat /\ t.need <= w.peer[p].rx
              /\ peer'[p] = q /\ UNCHANGED <<fdt, cause>>
              /\ bad' = IF v.fio[f].io # "own" THEN "twice" ELSE None
           \/ /\ Closed(c, v) /\ cause' \in SUBSET Causes /\ cause \subseteq cause'
              /\ Gone(p) \/ v.fio[f].io = "own"
    <3>1. v.r.fio # None /\ v.r.store # 0 /\ ~v.r.wtimer /\ recv_block_handler(c, v)
      BY <1>7, <1>8, <1>11
    <3> QED BY <1>5, <3>1, RecvStep
  <2>2. CASE Closed(c, v) /\ cause \subseteq cause' /\ (Gone(p) \/ v.fio[f].io = "own")
    BY <1>10, <1>11, <2>1, <2>2
  <2>3. CASE /\ conn'[c] = s
             /\ t.io = "pending" /\ t.fd = v.r.store /\ t.off = v.r.done
             /\ t.need \in Nat /\ t.need <= w.peer[p].rx
             /\ peer'[p] = q /\ UNCHANGED <<fdt, cause>>
             /\ bad' = IF v.fio[f].io # "own" THEN "twice" ELSE None
    <3>1. /\ q.rx = w.peer[p].rx - t.need /\ q.pc = peer[p].pc /\ q.op = peer[p].op
          /\ q.cut = peer[p].cut /\ q.taken = peer[p].taken /\ q.sent = peer[p].sent
          /\ q.out = w.peer[p].out
      BY <1>2 DEF Client_t
    <3>2. /\ s.fd = r.fd /\ s.peer = p /\ s.store = r.store /\ s.fio = f
          /\ (s.etimer => r.etimer) /\ s.done = r.done /\ s.rh = "blocked" /\ s.wh = "blocked"
      <4>1. PICK y \in Conn_t : y = v.r
        BY <1>7
      <4>2. /\ s.fd = y.fd /\ s.peer = y.peer /\ s.store = y.store /\ s.fio = y.fio
            /\ s.etimer = y.etimer /\ s.done = y.done /\ s.rh = "blocked" /\ s.wh = "blocked"
        <5>1. s = [y EXCEPT !.rh = "blocked", !.wh = "blocked"]
          BY <4>1
        <5> HIDE DEF s
        <5> QED BY <5>1, ConnBlocked
      <4> HIDE DEF s, r, p
      <4> QED BY <1>7, <4>1, <4>2
    <3> HIDE DEF s, q
    <3>3. Kept(c)
      BY <2>3, <3>1 DEF Kept
    <3>4. Excuse(c)
      <4>1. bad' = "twice" \/ bad' = None
        BY <2>3
      <4>2. bad' = "twice" => "starved" \in cause
        BY <1>1, <1>4, <1>5, <1>11, <2>3 DEF None
      <4> QED BY <4>1, <4>2 DEF Excuse, None
    <3>5. CASE r.fio # None
      <4>1. bad' = "twice"
        BY <1>1, <1>5, <2>3, <3>5
      <4>2. Headed(c, peer'[p].out)
        BY <1>1, <2>3, <3>1
      <4> QED BY <2>1, <3>3, <3>4, <4>1, <4>2, Ruined DEF None
    <3>6. CASE r.fio = None
      <4>1. bad' = None /\ f \in Fio /\ Opening(r)
        BY <1>3, <1>5, <1>11, <2>3, <3>6 DEF Working
      <4>2. SameConn(c) /\ conn'[c].fio = f /\ conn'[c].done = r.done
        BY <2>3, <3>2 DEF SameConn
      <4>3. /\ fio'[conn'[c].fio] = t /\ t.fd = r.store /\ t.off = conn'[c].done
            /\ t.need <= peer[p].rx /\ peer'[p].rx = peer[p].rx - t.need
        BY <1>1, <1>7, <2>3, <3>1, <4>2
      <4>4. Headed(c, peer'[p].out)
        BY <1>1, <2>3, <3>1
      <4>5. Writes(c)
        BY <1>11, <2>1, <2>3, <3>1, <3>2, <4>1, <4>2, <4>3, <4>4 DEF Writes
      <4> QED BY <2>1, <3>3, <3>4, <4>1, <4>5 DEF Step
    <3> QED BY <3>5, <3>6
  <2> QED BY <2>1, <2>2, <2>3
<1>12. CASE v.r.fio # None /\ peer[p].op = "read" /\ dn_request_send_block(c, v)
  <2> DEFINE f == v.r.fio
             t == fio'[f]
             s == [v.r EXCEPT !.wh = "blocked"]
  <2>1. /\ OwnInv' /\ Frame(c) /\ UNCHANGED disk /\ cause \subseteq cause'
        /\ \/ /\ conn'[c] = s /\ peer'[p] = v.peer[p] /\ UNCHANGED fdt
              /\ t.io = "pending" /\ t.off = 0 /\ t.need = Size[Blk[p]]
              /\ t.sf # <<>> /\ (t.sf = <<v.r.fd, v.r.store>> \/ "stale" \in cause')
              /\ bad' = IF v.fio[f].io # "own" THEN "twice" ELSE None
           \/ Closed(c, v) /\ v.fio[f].io = "own"
    <3>1. /\ v.r.fio # None /\ v.r.store # 0 /\ ~v.r.wtimer /\ v.r.rh \in {"check", "blocked"}
          /\ dn_request_send_block(c, v)
      BY <1>7, <1>8, <1>12
    <3> QED BY <1>5, <3>1, SendStep
  <2>2. CASE Closed(c, v) /\ v.fio[f].io = "own"
    BY <1>10, <1>12, <2>1, <2>2
  <2>3. CASE /\ conn'[c] = s /\ peer'[p] = v.peer[p] /\ UNCHANGED fdt
             /\ t.io = "pending" /\ t.off = 0 /\ t.need = Size[Blk[p]]
             /\ t.sf # <<>> /\ (t.sf = <<v.r.fd, v.r.store>> \/ "stale" \in cause')
             /\ bad' = IF v.fio[f].io # "own" THEN "twice" ELSE None
    <3>2. /\ s.fd = r.fd /\ s.peer = p /\ s.store = r.store /\ s.fio = f
          /\ (s.etimer => r.etimer) /\ s.rh = "check" /\ s.wh = "blocked"
      <4>1. PICK y \in Conn_t : y = v.r
        BY <1>7
      <4>2. /\ s.fd = y.fd /\ s.peer = y.peer /\ s.store = y.store /\ s.fio = y.fio
            /\ s.etimer = y.etimer /\ s.rh = y.rh /\ s.wh = "blocked"
        <5>1. s = [y EXCEPT !.wh = "blocked"]
          BY <4>1
        <5> HIDE DEF s
        <5> QED BY <5>1, ConnBlocked
      <4> HIDE DEF s
      <4> QED BY <1>4, <1>7, <1>12, <4>1, <4>2
    <3> HIDE DEF s
    <3>1. peer'[p] = w.peer[p] /\ Headed(c, peer'[p].out)
      BY <1>1, <1>5, <2>3
    <3>3. Kept(c)
      BY <1>2, <2>1, <3>1 DEF Kept
    <3>4. Excuse(c)
      <4>1. bad' = "twice" \/ bad' = None
        BY <2>3
      <4>2. bad' = "twice" => "starved" \in cause
        BY <1>1, <1>4, <1>5, <1>12, <2>3 DEF None
      <4> QED BY <4>1, <4>2 DEF Excuse, None
    <3>5. CASE r.fio # None
      <4>1. bad' = "twice"
        BY <1>1, <1>5, <2>3, <3>5
      <4> QED BY <2>1, <3>1, <3>3, <3>4, <4>1, Ruined DEF None
    <3>6. CASE r.fio = None
      <4>1. bad' = None /\ f \in Fio /\ Opening(r)
        BY <1>3, <1>5, <1>12, <2>3, <3>6 DEF Working
      <4>2. SameConn(c) /\ conn'[c].fio = f
        BY <2>3, <3>2 DEF SameConn
      <4>3. fio'[conn'[c].fio] = t /\ t.sf # <<>> /\ (t.sf = <<r.fd, r.store>> \/ "stale" \in cause')
        BY <1>7, <2>3, <4>2
      <4>5. Reads(c)
        BY <1>1, <1>2, <1>12, <2>1, <2>3, <3>1, <3>2, <4>1, <4>2, <4>3 DEF Reads
      <4> QED BY <2>1, <3>3, <3>4, <4>1, <4>5 DEF Step
    <3> QED BY <3>5, <3>6
  <2> QED BY <2>1, <2>2, <2>3
<1> QED BY <1>6, <1>9, <1>11, <1>12

LEMMA ConnTimers ==
  ASSUME NEW r \in Conn_t
  PROVE  /\ LET s == [r EXCEPT !.wtimer = FALSE]
            IN  /\ s.peer = r.peer /\ s.fd = r.fd /\ s.store = r.store /\ s.rh = r.rh /\ s.wh = r.wh
                /\ s.done = r.done /\ s.etimer = r.etimer /\ s.wtimer = FALSE /\ s.fio = r.fio
                /\ s.sub = r.sub /\ s.wact = r.wact /\ s \in Conn_t
         /\ LET s == [r EXCEPT !.etimer = FALSE]
            IN  /\ s.peer = r.peer /\ s.fd = r.fd /\ s.store = r.store /\ s.rh = r.rh /\ s.wh = r.wh
                /\ s.done = r.done /\ s.etimer = FALSE /\ s.wtimer = r.wtimer /\ s.fio = r.fio
                /\ s.sub = r.sub /\ s.wact = r.wact /\ s \in Conn_t
BY DEF Conn_t

LEMMA NowParts ==
  ASSUME OwnInv, NEW c \in Conn
  PROVE  /\ Now(c) \in Hs /\ Now(c).r = conn[c] /\ Now(c).peer = peer /\ Now(c).fio = fio
         /\ Now(c).freeq = freeq
         /\ conn[c] \in Conn_t /\ peer \in [Peer -> Client_t] /\ fio \in [Fio -> Fio_t]
BY DEF Now, Hs, OwnInv, TypeOK

\* A request with the header handler in its write event, or with ev_timer armed.
LEMMA InUse ==
  ASSUME OwnInv, bad = None, NEW c \in Conn, conn[c] # Unused
  PROVE  /\ conn[c].peer \in Peer /\ conn[c].peer # None
         /\ conn[c].rh = "header" <=> Waiting(conn[c])
         /\ conn[c].wh = "header" <=> Opening(conn[c])
         /\ conn[c].wh \in {"blocked", "again"} <=> Working(conn[c])
         /\ Working(conn[c]) => conn[c].fio \in Fio /\ fio[conn[c].fio].io # "own"
         /\ Waiting(conn[c]) \/ Opening(conn[c]) \/ Working(conn[c])
<1>1. conn[c] \in Conn_t /\ Shape(conn[c]) /\ Busy
  BY DEF OwnInv, TypeOK
<1> QED BY <1>1 DEF Shape, Conn_t, Waiting, Opening, Working, None, Busy

LEMMA HeaderStep ==
  ASSUME OwnInv, OpInv, bad = None, NEW c \in Conn, conn[c].wh = "header",
         dn_request_send_header_response(c)
  PROVE  Step(c)
<1> DEFINE p == conn[c].peer
           r == conn[c]
           w == [Now(c) EXCEPT !.r.wtimer = FALSE]
           o == Append(peer[p].out, <<"header", 0>>)
           sent == [w EXCEPT !.peer[p].out = Append(@, <<"header", 0>>)]
<1>1. p \in Peer /\ p # None /\ Opening(r) /\ r.rh # "header" /\ r.fio = None
  <2>1. r # Unused
    BY DEF Unused, None
  <2> QED BY <2>1, InUse DEF Opening
<1>2. Work(c, Now(c))
  BY <1>1, WorkStarts
<1>3. /\ Now(c) \in Hs /\ Now(c).r = r /\ Now(c).peer = peer /\ Now(c).fio = fio
      /\ Now(c).freeq = freeq /\ r \in Conn_t /\ peer \in [Peer -> Client_t]
  BY NowParts
<1> DEFINE s == [r EXCEPT !.wtimer = FALSE]
<1>4. /\ s.peer = p /\ s.fd = r.fd /\ s.store = r.store /\ s.rh = r.rh /\ s.wh = r.wh
      /\ s.done = r.done /\ s.etimer = r.etimer /\ ~s.wtimer /\ s.fio = r.fio
      /\ s.sub = r.sub /\ s.wact = r.wact /\ s \in Conn_t
  BY <1>3, ConnTimers
<1>5. w = [Now(c) EXCEPT !.r = s]
  BY <1>3
<1>6. IF peer[p].out # <<>> THEN dn_request_process_body(c, w)
      ELSE \E ok \in Sends(p) :
             IF ok THEN dn_request_process_body(c, sent) ELSE Refuse(c, w, {})
  BY DEF dn_request_send_header_response
<1> HIDE DEF s
<1>7. w \in Hs /\ w.r = s /\ w.peer = peer /\ w.fio = fio /\ w.freeq = freeq
  <2> HIDE DEF w
  <2> QED BY <1>3, <1>4, <1>5, HsPut
<1>8. sent = [w EXCEPT !.peer[p].out = Append(@, <<"header", 0>>)]
  OBVIOUS
<1> HIDE DEF w, sent
<1>9. Work(c, w)
  <2>1. Follows(c, Now(c), w)
    BY <1>1, <1>3, <1>4, <1>7 DEF Follows
  <2> QED BY <1>2, <2>1, WorkOn
<1>10. Asked(c)
  BY <1>1 DEF Asked
<1>11. CASE peer[p].out # <<>>
  <2>1. Headed(c, w.peer[p].out)
    BY <1>7, <1>11 DEF Headed
  <2>2. Ready(c, w)
    BY <1>1, <1>4, <1>7, <1>9, <1>10, <2>1 DEF Ready
  <2> QED BY <1>6, <1>11, <2>2, BodyStep
<1>12. CASE peer[p].out = <<>>
  <2>1. PICK ok \in Sends(p) : IF ok THEN dn_request_process_body(c, sent) ELSE Refuse(c, w, {})
    BY <1>6, <1>12
  <2>2. CASE ok
    <3> DEFINE q == [peer[p] EXCEPT !.out = <<<<"header", 0>>>>]
               b == [peer EXCEPT ![p] = q]
    <3>1. sent = [w EXCEPT !.peer = b]
      <4>1. Append(peer[p].out, <<"header", 0>>) = <<<<"header", 0>>>>
        BY <1>12
      <4> QED BY <1>7, <1>8, <4>1
    <3>2. /\ q \in Client_t /\ q.pc = peer[p].pc /\ q.op = peer[p].op /\ q.cut = peer[p].cut
          /\ q.taken = peer[p].taken /\ q.sent = peer[p].sent /\ q.rx = peer[p].rx
          /\ q.out = <<<<"header", 0>>>>
      <4>0. PICK x \in Client_t : x = peer[p]
        BY <1>1, <1>3
      <4>1. q = [x EXCEPT !.out = <<<<"header", 0>>>>]
        BY <4>0
      <4>2. <<<<"header", 0>>>> \in Seq((Block \cup {"header", "done"}) \X Nat)
        OBVIOUS
      <4> HIDE DEF q
      <4>3. /\ q.pc = x.pc /\ q.op = x.op /\ q.cut = x.cut /\ q.taken = x.taken /\ q.sent = x.sent
            /\ q.rx = x.rx /\ q.out = <<<<"header", 0>>>> /\ q \in Client_t
        BY <4>1, <4>2 DEF Client_t
      <4> QED BY <4>0, <4>3
    <3> HIDE DEF q
    <3>3. b \in [Peer -> Client_t] /\ b[p] = q /\ \A x \in Peer \ {p} : b[x] = peer[x]
      BY <1>1, <1>3, <3>2
    <3> HIDE DEF b
    <3>4. /\ sent \in Hs /\ sent.r = s /\ sent.peer = b /\ sent.fio = fio /\ sent.freeq = freeq
      BY <1>7, <3>1, <3>3, HsPut
    <3>5. Fits(peer[p]) => Fits(q)
      <4>1. Len(peer[p].out) = 0 /\ Len(q.out) = 1 /\ peer[p].taken \in Nat /\ TxCap \in Nat \ {0}
        BY <1>1, <1>3, <1>12, <3>2, DnRequestAssumption DEF Client_t
      <4> QED BY <3>2, <4>1 DEF Fits
    <3>6. Work(c, sent)
      <4>1. Follows(c, w, sent)
        BY <1>1, <1>4, <1>7, <3>2, <3>3, <3>4, <3>5 DEF Follows
      <4> QED BY <1>9, <4>1, WorkOn
    <3>7. Headed(c, sent.peer[p].out)
      BY <1>12, <3>2, <3>3, <3>4 DEF Headed
    <3>8. Ready(c, sent)
      BY <1>1, <1>4, <1>10, <3>2, <3>3, <3>4, <3>6, <3>7 DEF Ready
    <3> QED BY <2>1, <2>2, <3>8, BodyStep
  <2>3. CASE ~ok
    <3>1. Refuse(c, w, {}) /\ {} \in SUBSET Causes
      BY <2>1, <2>3
    <3>2. OwnInv' /\ Frame(c) /\ UNCHANGED disk /\ Closed(c, w) /\ cause' = cause
      BY <1>9, <3>1, RefuseStep
    <3>3. (w.r.etimer => "starved" \in cause) /\ w.r.fio = None
      BY <1>1, <1>4, <1>7, <1>10 DEF OpInv
    <3>4. w.peer[p].out = peer[p].out
      BY <1>7
    <3> QED BY <1>9, <3>2, <3>3, <3>4, ClosedEnds
  <2> QED BY <2>2, <2>3
<1> QED BY <1>11, <1>12

LEMMA TimerStep ==
  ASSUME OwnInv, OpInv, bad = None, NEW c \in Conn, fio_task_alloc_timeout(c)
  PROVE  Step(c)
<1> DEFINE p == conn[c].peer
           r == conn[c]
           w == [Now(c) EXCEPT !.r.etimer = FALSE]
           s == [r EXCEPT !.etimer = FALSE]
<1>0. r.etimer /\ dn_request_process_body(c, w)
  BY DEF fio_task_alloc_timeout
<1>1. p \in Peer /\ p # None /\ (Opening(r) \/ Working(r)) /\ r.rh # "header" /\ ~r.wtimer
  <2>1. r # Unused
    BY <1>0 DEF Unused
  <2> QED BY <1>0, <2>1, InUse DEF Waiting, Opening, Working
<1>2. Work(c, Now(c))
  BY <1>1, WorkStarts
<1>3. /\ Now(c) \in Hs /\ Now(c).r = r /\ Now(c).peer = peer /\ Now(c).fio = fio
      /\ Now(c).freeq = freeq /\ r \in Conn_t /\ peer \in [Peer -> Client_t]
  BY NowParts
<1>4. /\ s.peer = p /\ s.fd = r.fd /\ s.store = r.store /\ s.rh = r.rh /\ s.wh = r.wh
      /\ s.done = r.done /\ ~s.etimer /\ ~s.wtimer /\ s.fio = r.fio
      /\ s.sub = r.sub /\ s.wact = r.wact /\ s \in Conn_t
  BY <1>1, <1>3, ConnTimers
<1>5. w = [Now(c) EXCEPT !.r = s]
  BY <1>3
<1> HIDE DEF s, w
<1>7. w \in Hs /\ w.r = s /\ w.peer = peer /\ w.fio = fio /\ w.freeq = freeq
  BY <1>3, <1>4, <1>5, HsPut
<1>8. fio[r.fio].io # "own" \/ r.fio = None
  BY DEF OwnInv, Busy
<1>9. Work(c, w)
  <2>1. Follows(c, Now(c), w)
    BY <1>1, <1>3, <1>4, <1>7 DEF Follows
  <2> QED BY <1>2, <2>1, WorkOn
<1>10. Headed(c, w.peer[p].out)
  BY <1>0, <1>7 DEF Headed
<1>11. Ready(c, w)
  BY <1>0, <1>1, <1>4, <1>7, <1>8, <1>9, <1>10 DEF Ready, Asked
<1> QED BY <1>0, <1>11, BodyStep DEF w

LEMMA CheckStep ==
  ASSUME OwnInv, OpInv, bad = None, NEW c \in Conn, conn[c].rh = "check", "in" \in posted[c],
         dn_request_check_connection(c)
  PROVE  Step(c)
<1> DEFINE p == conn[c].peer
           r == conn[c]
<1>1. p \in Peer /\ p # None /\ (Opening(r) \/ Working(r))
  <2>1. r # Unused
    BY DEF Unused, None
  <2> QED BY <2>1, InUse DEF Waiting
<1>2. Work(c, Now(c))
  BY <1>1, WorkStarts
<1>3. /\ Now(c).r = r /\ Now(c).peer = peer /\ Now(c).fio = fio /\ Now(c).freeq = freeq
  BY NowParts
<1>4. /\ r.etimer => "starved" \in cause
      /\ r.fio # None => peer[p].op = "read"
  BY <1>1 DEF OpInv, Asked
<1>5. CASE peer[p].rx = 0 /\ Gone(p)
  <2>1. Refuse(c, Now(c), {}) /\ {} \in SUBSET Causes
    BY <1>5 DEF dn_request_check_connection
  <2>2. OwnInv' /\ Frame(c) /\ UNCHANGED disk /\ Closed(c, Now(c)) /\ cause' = cause
    BY <1>2, <2>1, RefuseStep
  <2> QED BY <1>2, <1>3, <1>4, <1>5, <2>2, ClosedEnds
<1>6. CASE ~(peer[p].rx = 0 /\ Gone(p))
  <2>1. Keep(c, Now(c)) /\ UNCHANGED <<fdt, disk, bad, cause>>
    BY <1>6 DEF dn_request_check_connection
  <2>2. DiskType' /\ bad' = None /\ bad' \in Bads
    BY <2>1 DEF OwnInv, TypeOK, DiskType, disk, Bads
  <2>3. Shape(r) /\ (r.fio # None => fio[r.fio].io # "own")
    BY DEF OwnInv, Busy
  <2>4. OwnInv' /\ Frame(c)
    BY <1>2, <1>3, <2>1, <2>2, <2>3, KeepOwn
  <2>5. conn'[c] = r /\ peer' = peer /\ fio' = fio /\ posted'[c] = posted[c] \ {"in"}
    <3>1. TypeOK /\ conn \in [Conn -> Conn_t]
      BY DEF OwnInv, TypeOK
    <3> QED BY <1>3, <2>1, <3>1, HandledType DEF Keep
  <2>6. Sames(c)
    BY <2>1, <2>5 DEF Sames, SameConn
  <2>7. Kept(c) /\ Excuse(c)
    BY <2>1, <2>2, <2>5 DEF Kept, Excuse, None
  <2> QED BY <2>2, <2>4, <2>6, <2>7 DEF Step
<1> QED BY <1>5, <1>6

LEMMA ConnEvents ==
  ASSUME NEW r \in Conn_t, NEW e \in {"in", "out"}, NEW a \in BOOLEAN
  PROVE  LET s == [epoll_del_event(r, e, a) EXCEPT !.ract = FALSE]
         IN  /\ s.peer = r.peer /\ s.fd = r.fd /\ s.store = r.store /\ s.rh = r.rh /\ s.wh = r.wh
             /\ s.done = r.done /\ s.etimer = r.etimer /\ s.wtimer = r.wtimer /\ s.fio = r.fio
             /\ s \in Conn_t
<1> DEFINE x == [r EXCEPT !.sub = IF a THEN {e} ELSE {}, !.edge = a]
           s == [x EXCEPT !.ract = FALSE]
<1>1. /\ x.peer = r.peer /\ x.fd = r.fd /\ x.store = r.store /\ x.rh = r.rh /\ x.wh = r.wh
      /\ x.done = r.done /\ x.etimer = r.etimer /\ x.wtimer = r.wtimer /\ x.fio = r.fio
  BY DEF Conn_t
<1>2. x \in Conn_t
  BY DEF Conn_t
<1> HIDE DEF x
<1>3. /\ s.peer = x.peer /\ s.fd = x.fd /\ s.store = x.store /\ s.rh = x.rh /\ s.wh = x.wh
      /\ s.done = x.done /\ s.etimer = x.etimer /\ s.wtimer = x.wtimer /\ s.fio = x.fio
      /\ s \in Conn_t
  BY <1>2, ZenonT(60) DEF Conn_t
<1> QED BY <1>1, <1>3 DEF x, epoll_del_event

LEMMA BlockStep ==
  ASSUME OwnInv, OpInv, bad = None, NEW c \in Conn,
         \/ conn[c].rh = "blocked" /\ dn_request_block_reading(c)
         \/ conn[c].wh = "blocked" /\ dn_request_block_writing(c)
  PROVE  Step(c)
<1> DEFINE p == conn[c].peer
           r == conn[c]
<1>1. p \in Peer /\ p # None /\ Working(r)
  <2>1. r # Unused
    BY DEF Unused, None
  <2> QED BY <2>1, InUse DEF Waiting, Opening
<1>2. Work(c, Now(c))
  BY <1>1, WorkStarts
<1>3. /\ Now(c) \in Hs /\ Now(c).r = r /\ Now(c).peer = peer /\ Now(c).fio = fio
      /\ Now(c).freeq = freeq /\ r \in Conn_t
  BY NowParts
<1>4. PICK e \in {"in", "out"}, a \in BOOLEAN :
        /\ Keep(c, [Now(c) EXCEPT !.r = [epoll_del_event(r, e, a) EXCEPT !.ract = FALSE]])
        /\ UNCHANGED <<fdt, disk, bad, cause>>
  <2>1. r.ract \in BOOLEAN /\ r.wact \in BOOLEAN
    BY <1>3 DEF Conn_t
  <2> QED BY <1>3, <2>1 DEF dn_request_block_reading, dn_request_block_writing
<1> DEFINE s == [epoll_del_event(r, e, a) EXCEPT !.ract = FALSE]
           w == [Now(c) EXCEPT !.r = s]
<1>5. /\ s.peer = r.peer /\ s.fd = r.fd /\ s.store = r.store /\ s.rh = r.rh /\ s.wh = r.wh
      /\ s.done = r.done /\ s.etimer = r.etimer /\ s.wtimer = r.wtimer /\ s.fio = r.fio
      /\ s \in Conn_t
  <2>1. PICK x \in Conn_t : x = r
    BY <1>3
  <2>2. s = [epoll_del_event(x, e, a) EXCEPT !.ract = FALSE]
    BY <2>1
  <2> HIDE DEF s
  <2> QED BY <2>1, <2>2, ConnEvents
<1>6. w = [Now(c) EXCEPT !.r = s] /\ Keep(c, w)
  BY <1>4
<1> HIDE DEF s, w
<1>7. w \in Hs /\ w.r = s /\ w.peer = peer /\ w.fio = fio /\ w.freeq = freeq
  BY <1>3, <1>5, <1>6, HsPut
<1>8. Work(c, w)
  <2>1. Follows(c, Now(c), w)
    BY <1>1, <1>3, <1>5, <1>7 DEF Follows
  <2> QED BY <1>2, <2>1, WorkOn
<1>9. DiskType' /\ bad' = None /\ bad' \in Bads
  BY <1>4 DEF OwnInv, TypeOK, DiskType, disk, Bads
<1>10. Shape(s) /\ Working(s) /\ (s.fio # None => fio[s.fio].io # "own")
  <2>1. r.fd # 0 /\ (r.fio # None => fio[r.fio].io # "own")
    BY <1>1, UsedConn DEF OwnInv, Busy
  <2> QED BY <1>1, <1>5, <2>1 DEF Shape, Working
<1>11. OwnInv' /\ Frame(c)
  BY <1>4, <1>6, <1>7, <1>8, <1>9, <1>10, KeepOwn
<1>12. conn'[c] = s /\ peer' = peer /\ fio' = fio
  <2>1. conn \in [Conn -> Conn_t]
    BY DEF OwnInv, TypeOK
  <2> QED BY <1>6, <1>7, <2>1 DEF Keep
<1>13. Sames(c)
  BY <1>1, <1>4, <1>5, <1>10, <1>12 DEF Sames, SameConn
<1>14. Kept(c) /\ Excuse(c)
  BY <1>4, <1>9, <1>12 DEF Kept, Excuse, None
<1> QED BY <1>9, <1>11, <1>13, <1>14 DEF Step

LEMMA AgainStep ==
  ASSUME OwnInv, OpInv, bad = None, NEW c \in Conn, conn[c].wh = "again",
         dn_request_send_block_again(c)
  PROVE  Step(c)
<1> DEFINE p == conn[c].peer
           r == conn[c]
<1>1. p \in Peer /\ p # None /\ Working(r) /\ fio[r.fio].io # "own"
  <2>1. r # Unused
    BY DEF Unused, None
  <2> QED BY <2>1, InUse
<1>2. Work(c, Now(c)) /\ Shape(Now(c).r) /\ Now(c).r.fio # None /\ Submit(c, Now(c), {})
  BY <1>1, WorkStarts, NowParts DEF OwnInv, Working, dn_request_send_block_again
<1>3. Now(c).r = r /\ Now(c).peer = peer /\ Now(c).fio = fio
  BY NowParts
<1>4. {} \in SUBSET Causes
  OBVIOUS
<1>5. /\ OwnInv' /\ Frame(c) /\ UNCHANGED disk
      /\ \/ Submitted(c, Now(c), {})
         \/ Now(c).fio[Now(c).r.fio].io = "own"
  BY <1>2, <1>4, SubmitStep
<1>6. Submitted(c, Now(c), {})
  BY <1>1, <1>3, <1>5
<1>7. peer'[p] = peer[p] /\ bad' = "twice" /\ cause' = cause
  BY <1>1, <1>3, <1>6 DEF Submitted
<1>8. "slow" \in cause
  BY <1>1 DEF OpInv, Asked, Working
<1>9. Kept(c) /\ Excuse(c)
  BY <1>7, <1>8 DEF Kept, Excuse, None
<1> QED BY <1>5, <1>7, <1>9, Ruined DEF None

LEMMA WriteTimerStep ==
  ASSUME OwnInv, OpInv, bad = None, NEW c \in Conn, WriteTimeout(c)
  PROVE  Step(c)
<1> DEFINE p == conn[c].peer
           r == conn[c]
<1>1. r.wtimer /\ Refuse(c, Now(c), {"failed"})
  BY DEF WriteTimeout
<1>2. p \in Peer /\ p # None /\ Opening(r)
  <2>1. r # Unused
    BY <1>1 DEF Unused
  <2> QED BY <1>1, <2>1, InUse DEF Waiting, Working
<1>3. Work(c, Now(c))
  BY <1>2, WorkStarts
<1>4. Now(c).r = r /\ Now(c).peer = peer /\ Now(c).fio = fio
  BY NowParts
<1>5. {"failed"} \in SUBSET Causes
  BY DEF Causes
<1>6. OwnInv' /\ Frame(c) /\ UNCHANGED disk /\ Closed(c, Now(c)) /\ cause' = cause \cup {"failed"}
  BY <1>1, <1>3, <1>5, RefuseStep
<1>7. ~r.etimer /\ r.fio = None
  BY <1>1, <1>2 DEF Opening
<1> QED BY <1>3, <1>4, <1>6, <1>7, ClosedEnds

LEMMA FioIo ==
  ASSUME NEW t \in Fio_t, NEW x \in {"own", "pending", "done"}
  PROVE  LET s == [t EXCEPT !.io = x]
         IN  /\ s \in Fio_t /\ s.io = x /\ s.st = t.st /\ s.conn = t.conn /\ s.fd = t.fd
             /\ s.off = t.off /\ s.need = t.need /\ s.ret = t.ret /\ s.sf = t.sf
BY DEF Fio_t

\* The handler of a task that is done has the task back.
Done(f, c, w) ==
  /\ c \in Conn /\ f \in Fio /\ conn[c].fio = f /\ Working(conn[c]) /\ conn[c].peer \in Peer
  /\ Asked(c) /\ fio[f] \in Fio_t /\ fio[f].io = "done"
  /\ Work(c, w) /\ w.r = conn[c] /\ w.peer = peer /\ w.fio[f] = [fio[f] EXCEPT !.io = "own"]

LEMMA DoneWork ==
  ASSUME OwnInv, OpInv, bad = None, NEW f \in Fio, fio[f].io = "done", NEW w,
         w = [Now(fio[f].conn) EXCEPT !.fio[f].io = "own"]
  PROVE  Done(f, fio[f].conn, w)
<1> DEFINE c == fio[f].conn
           r == conn[c]
           t == [fio[f] EXCEPT !.io = "own"]
<1>0. TypeOK /\ Owned(Tasks, fio, freeq) /\ fio \in [Fio -> Fio_t] /\ conn \in [Conn -> Conn_t]
  BY DEF OwnInv, TypeOK
<1>1. c \in Conn /\ r.fio = f /\ f # None
  BY <1>0, TasksType, DnRequestAssumption DEF Owned, None
<1>2. r # Unused
  BY <1>1 DEF Unused
<1>3. Working(r) /\ r.peer \in Peer /\ r.peer # None /\ Asked(c)
  BY <1>1, <1>2, InUse DEF Waiting, Opening, Working, Asked
<1>4. /\ Now(c) \in Hs /\ Now(c).r = r /\ Now(c).peer = peer /\ Now(c).fio = fio
      /\ Now(c).freeq = freeq /\ Work(c, Now(c))
  BY <1>1, <1>3, NowParts, WorkStarts
<1>5. t \in Fio_t /\ t.io = "own" /\ t.st = fio[f].st
  BY <1>0, FioIo
<1>6. w = [Now(c) EXCEPT !.fio = [fio EXCEPT ![f] = t]]
  BY <1>4
<1> HIDE DEF t, c
<1>7. [fio EXCEPT ![f] = t] \in [Fio -> Fio_t]
  BY <1>0, <1>5
<1>8. /\ w \in Hs /\ w.r = r /\ w.peer = peer /\ w.fio = [fio EXCEPT ![f] = t] /\ w.freeq = freeq
  <2>1. PICK x \in [Fio -> Fio_t] : x = [fio EXCEPT ![f] = t]
    BY <1>7
  <2>2. PICK n \in Hs : n = Now(c)
    BY <1>4
  <2>3. w = [n EXCEPT !.fio = x]
    BY <1>6, <2>1, <2>2
  <2>4. LET a == [n EXCEPT !.fio = x]
        IN  a \in Hs /\ a.r = n.r /\ a.peer = n.peer /\ a.fio = x /\ a.freeq = n.freeq
    BY HsPut
  <2> QED BY <1>4, <2>1, <2>2, <2>3, <2>4
<1>9. w.fio[f] = t /\ \A g \in Fio \ {f} : w.fio[g] = fio[g]
  BY <1>0, <1>8
<1>10. Work(c, w)
  <2>1. Follows(c, Now(c), w)
    BY <1>1, <1>4, <1>5, <1>8, <1>9, ZenonT(60) DEF Follows
  <2> QED BY <1>1, <1>4, <2>1, WorkOn
<1> QED BY <1>0, <1>1, <1>3, <1>8, <1>9, <1>10 DEF Done, t, c

LEMMA DoneOwn ==
  ASSUME NEW f, NEW c, NEW w, Done(f, c, w)
  PROVE  /\ w.fio[f].io = "own" /\ w.fio[f].need = fio[f].need /\ w.fio[f].ret = fio[f].ret
         /\ w.r.fio = f /\ fio[f].need \in Nat
<1>1. PICK t \in Fio_t : t = fio[f]
  BY DEF Done
<1>2. w.fio[f] = [t EXCEPT !.io = "own"] /\ w.r.fio = f
  BY <1>1 DEF Done
<1>3. LET s == [t EXCEPT !.io = "own"] IN s.io = "own" /\ s.need = t.need /\ s.ret = t.ret
  BY FioIo
<1> QED BY <1>1, <1>2, <1>3 DEF Fio_t

\* The last answer, and the close after it.
LEMMA LastStep ==
  ASSUME OwnInv, OpInv, bad = None, NEW c \in Conn, NEW w, Work(c, w), Asked(c), w.peer = peer,
         w.r.etimer = conn[c].etimer, w.r.fio = None \/ w.fio[w.r.fio].io = "own",
         Finished(c), cause' = cause, DiskType', DoneResponse(c, w),
         IF peer[conn[c].peer].op = "write" THEN write_block_done(Blk[conn[c].peer]) ELSE UNCHANGED disk
  PROVE  Step(c)
<1> DEFINE p == conn[c].peer
           room == TxCap > Len(peer[p].out) - peer[p].taken
           sent == [w EXCEPT !.peer[p].out = Append(@, <<"done", 0>>)]
           v == IF room THEN sent ELSE w
<1>1. /\ w \in Hs /\ w.r \in Conn_t /\ peer \in [Peer -> Client_t] /\ p \in Peer /\ w.r.peer = p
      /\ p # None
  BY UsedConn DEF Work, Hs
<1>2. \/ dn_request_close(c, v)
      \/ Gone(p) /\ bad' = "double" /\ UNCHANGED <<peer, conn, pool, fdt, tasks, posted>>
  <2>1. w.r.peer = p
    BY <1>1
  <2> HIDE DEF p
  <2> QED BY <2>1 DEF DoneResponse
<1>3. (conn[c].etimer => "starved" \in cause) /\ peer[p].op \in {"read", "write"}
  BY DEF OpInv
<1>4. CASE dn_request_close(c, v)
  <2> DEFINE o == Append(peer[p].out, <<"done", 0>>)
             q == [peer[p] EXCEPT !.out = o]
             b == [peer EXCEPT ![p] = q]
  <2>1. sent = [w EXCEPT !.peer = b]
    OBVIOUS
  <2>2. /\ q \in Client_t /\ q.pc = peer[p].pc /\ q.op = peer[p].op /\ q.cut = peer[p].cut
        /\ q.taken = peer[p].taken /\ q.sent = peer[p].sent /\ q.out = o
        /\ Len(q.out) = Len(peer[p].out) + 1 /\ Len(peer[p].out) \in Nat /\ peer[p].taken \in Nat
    <3>1. PICK x \in Client_t : x = peer[p]
      BY <1>1
    <3> DEFINE y == Append(x.out, <<"done", 0>>)
    <3>2. q = [x EXCEPT !.out = y] /\ y = o
      BY <3>1
    <3>3. /\ y \in Seq((Block \cup {"header", "done"}) \X Nat)
          /\ Len(y) = Len(x.out) + 1 /\ Len(x.out) \in Nat /\ x.taken \in Nat
      BY DEF Client_t
    <3> HIDE DEF q, y, o
    <3>4. /\ q.pc = x.pc /\ q.op = x.op /\ q.cut = x.cut /\ q.taken = x.taken /\ q.sent = x.sent
          /\ q.rx = x.rx /\ q.out = y /\ q \in Client_t
      BY <3>2, <3>3 DEF Client_t
    <3> QED BY <3>1, <3>2, <3>3, <3>4
  <2> HIDE DEF q, sent
  <2>3. b \in [Peer -> Client_t] /\ b[p] = q /\ \A x \in Peer \ {p} : b[x] = peer[x]
    BY <1>1, <2>2
  <2> HIDE DEF b
  <2>4. sent \in Hs /\ sent.r = w.r /\ sent.peer = b /\ sent.fio = w.fio /\ sent.freeq = w.freeq
    BY <1>1, <2>1, <2>3, HsPut
  <2>5. ASSUME room PROVE Work(c, sent)
    <3>1. Fits(peer[p]) => Fits(q)
      <4>1. TxCap \in Nat
        BY DnRequestAssumption
      <4> QED BY <2>2, <2>5, <4>1, SMTT(60) DEF Fits
    <3>2. Follows(c, w, sent)
      BY <1>1, <2>2, <2>3, <2>4, <3>1 DEF Follows
    <3> QED BY <3>2, WorkOn
  <2>6. /\ Work(c, v) /\ v.r = w.r /\ v.fio = w.fio
        /\ v.peer[p].out \in {peer[p].out, Append(peer[p].out, <<"done", 0>>)}
    <3>1. CASE room
      BY <2>2, <2>3, <2>4, <2>5, <3>1
    <3>2. CASE ~room
      BY <3>2
    <3> QED BY <3>1, <3>2
  <2> HIDE DEF v
  <2>7. /\ OwnInv' /\ Frame(c) /\ conn'[c] = Unused /\ posted'[c] = {} /\ bad' = Broken(v)
        /\ peer'[p] = [v.peer[p] EXCEPT !.cut = TRUE, !.rx = 0]
    BY <1>4, <2>6, CloseOwn
  <2>8. v.peer[p] \in Client_t /\ v.peer[p].pc = peer[p].pc /\ v.peer[p].op = peer[p].op
        /\ v.peer[p].taken = peer[p].taken /\ v.peer[p].sent = peer[p].sent
    BY <1>1, <2>6 DEF Work, Hs
  <2>9. /\ peer'[p].pc = peer[p].pc /\ peer'[p].op = peer[p].op /\ peer'[p].sent = peer[p].sent
        /\ peer'[p].taken = peer[p].taken /\ peer'[p].cut /\ peer'[p].out = v.peer[p].out
    BY <2>7, <2>8 DEF Client_t
  <2>10. Kept(c)
    BY <2>9 DEF Kept
  <2>11. Excuse(c)
    BY <1>3, <2>6, <2>7 DEF Excuse, Broken, None
  <2>12. Ends(c)
    BY <2>6, <2>7, <2>9 DEF Ends
  <2> QED BY <2>7, <2>10, <2>11, <2>12 DEF Step
<1>5. CASE Gone(p) /\ bad' = "double" /\ UNCHANGED <<peer, conn, pool, fdt, tasks, posted>>
  <2>1. OwnInv'
    <3>1. TypeOK'
      BY <1>5 DEF OwnInv, TypeOK, DiskType, tasks
    <3>2. RoomInv'
      BY <1>5 DEF OwnInv, RoomInv
    <3> QED BY <1>5, <3>1, <3>2 DEF OwnInv, None
  <2>2. Frame(c) /\ Kept(c) /\ Excuse(c)
    BY <1>3, <1>5 DEF Frame, Kept, Excuse, tasks
  <2>3. Ends(c)
    BY <1>5 DEF Ends, None
  <2> QED BY <2>1, <2>2, <2>3 DEF Step
<1> QED BY <1>2, <1>4, <1>5

LEMMA DoneDisk ==
  ASSUME OwnInv, NEW b \in Block, write_block_done(b), cause' = cause
  PROVE  DiskType'
<1>1. DiskType
  BY DEF OwnInv, TypeOK, DiskType
<1> QED BY <1>1 DEF DiskType, write_block_done, disk

LEMMA WrittenStep ==
  ASSUME OwnInv, OpInv, bad = None, NEW f, NEW c, NEW w, Done(f, c, w),
         peer[conn[c].peer].op = "write", block_write_complete(c, w)
  PROVE  Step(c)
<1> DEFINE p == conn[c].peer
           r == conn[c]
           u == fio[f]
           b == Blk[p]
           k == r.done + u.need
           v == [w EXCEPT !.r.done = @ + w.fio[f].need]
           s == [r EXCEPT !.done = k]
<1>1. /\ c \in Conn /\ f \in Fio /\ r.fio = f /\ Working(r) /\ p \in Peer
      /\ Asked(c) /\ u \in Fio_t /\ u.io = "done" /\ Work(c, w) /\ w.r = r /\ w.peer = peer
      /\ w \in Hs /\ r \in Conn_t
  BY DEF Done, Work, Hs
<1>2. w.fio[f].io = "own" /\ w.fio[f].need = u.need /\ w.fio[f].ret = u.ret /\ u.need \in Nat
  BY DoneOwn
<1>3. IF u.ret # u.need THEN Refuse(c, w, {})
      ELSE IF v.r.done < Size[b] THEN recv_block_handler(c, v)
      ELSE write_block_done(b) /\ DoneResponse(c, v) /\ UNCHANGED cause
  <2> HIDE DEF u, p
  <2>1. w.r.fio = f /\ w.r.peer = p
    BY <1>1 DEF p
  <2> QED BY <1>2, <2>1 DEF block_write_complete
<1>4. (r.etimer => "starved" \in cause) /\ f # None
  BY <1>1, DnRequestAssumption DEF OpInv, None
<1>5. k \in Nat /\ r.done \in Nat
  BY <1>1, <1>2 DEF Conn_t
<1>6. /\ s \in Conn_t /\ s.peer = p /\ s.fd = r.fd /\ s.store = r.store /\ s.fio = f
      /\ s.done = k /\ s.etimer = r.etimer /\ s.wtimer = r.wtimer
  <2>1. PICK x \in Conn_t, n \in Nat : x = r /\ n = k
    BY <1>1, <1>5
  <2>2. s = [x EXCEPT !.done = n]
    BY <2>1
  <2> HIDE DEF s, k
  <2>3. /\ s \in Conn_t /\ s.peer = x.peer /\ s.fd = x.fd /\ s.store = x.store /\ s.fio = x.fio
        /\ s.done = n /\ s.etimer = x.etimer /\ s.wtimer = x.wtimer
    BY <2>2 DEF Conn_t
  <2> QED BY <1>1, <2>1, <2>3
<1>7. v = [w EXCEPT !.r = s]
  BY <1>1, <1>2
<1> HIDE DEF v, s, k
<1>8. v \in Hs /\ v.r = s /\ v.peer = peer /\ v.fio = w.fio /\ v.freeq = w.freeq
  <2>1. v \in Hs /\ v.r = s /\ v.peer = w.peer /\ v.fio = w.fio /\ v.freeq = w.freeq
    BY <1>1, <1>6, <1>7, HsPut
  <2> QED BY <1>1, <2>1
<1>9. Work(c, v)
  <2>1. Follows(c, w, v)
    BY <1>1, <1>6, <1>8 DEF Follows
  <2> QED BY <1>1, <2>1, WorkOn
<1>10. CASE u.ret # u.need
  <2>1. Refuse(c, w, {}) /\ {} \in SUBSET Causes
    BY <1>3, <1>10
  <2>2. OwnInv' /\ Frame(c) /\ UNCHANGED disk /\ Closed(c, w) /\ cause' = cause
    BY <1>1, <2>1, RefuseStep
  <2>3. w.fio[w.r.fio].io = "own"
    BY <1>1, <1>2
  <2> QED BY <1>1, <1>4, <2>2, <2>3, ClosedEnds
<1>11. CASE u.ret = u.need /\ k < Size[b]
  <2> DEFINE t == fio'[f]
             y == [s EXCEPT !.rh = "blocked", !.wh = "blocked"]
             q == [peer[p] EXCEPT !.rx = peer[p].rx - t.need]
  <2>0. recv_block_handler(c, v) /\ v.r.fio # None /\ v.r.store # 0 /\ ~v.r.wtimer
    BY <1>1, <1>3, <1>4, <1>6, <1>8, <1>11 DEF Working
  <2>1. /\ OwnInv' /\ Frame(c) /\ UNCHANGED disk
        /\ \/ /\ conn'[c] = y
              /\ t.io = "pending" /\ t.fd = r.store /\ t.off = k
              /\ t.need \in Nat /\ t.need <= peer[p].rx
              /\ peer'[p] = q /\ UNCHANGED <<fdt, cause>>
              /\ bad' = None
           \/ Closed(c, v) /\ cause \subseteq cause'
    <3>1. v.r.fio = f /\ v.r.store = r.store /\ v.r.done = k /\ v.fio[f].io = "own"
      BY <1>2, <1>6, <1>8
    <3>2. /\ OwnInv' /\ Frame(c) /\ UNCHANGED disk
          /\ \/ /\ conn'[c] = [v.r EXCEPT !.rh = "blocked", !.wh = "blocked"]
                /\ fio'[v.r.fio].io = "pending" /\ fio'[v.r.fio].fd = v.r.store
                /\ fio'[v.r.fio].off = v.r.done
                /\ fio'[v.r.fio].need \in Nat /\ fio'[v.r.fio].need <= v.peer[p].rx
                /\ peer'[p] = [v.peer[p] EXCEPT !.rx = v.peer[p].rx - fio'[v.r.fio].need]
                /\ UNCHANGED <<fdt, cause>>
                /\ bad' = IF v.fio[v.r.fio].io # "own" THEN "twice" ELSE None
             \/ Closed(c, v) /\ cause \subseteq cause'
      BY <1>1, <1>9, <2>0, RecvStep
    <3> QED BY <1>8, <3>1, <3>2
  <2>2. CASE Closed(c, v) /\ cause \subseteq cause'
    <3>1. v.fio[v.r.fio].io = "own" /\ v.r.etimer = r.etimer /\ v.peer[p].out = peer[p].out
      BY <1>2, <1>6, <1>8
    <3> QED BY <1>1, <1>4, <1>9, <2>1, <2>2, <3>1, ClosedEnds
  <2>3. CASE /\ conn'[c] = y /\ t.io = "pending" /\ t.fd = r.store /\ t.off = k
             /\ t.need \in Nat /\ t.need <= peer[p].rx
             /\ peer'[p] = q /\ UNCHANGED <<fdt, cause>> /\ bad' = None
    <3>1. /\ q.rx = peer[p].rx - t.need /\ q.pc = peer[p].pc /\ q.op = peer[p].op
          /\ q.cut = peer[p].cut /\ q.taken = peer[p].taken /\ q.sent = peer[p].sent
          /\ q.out = peer[p].out
      <4>1. peer[p] \in Client_t
        BY <1>1 DEF OwnInv, TypeOK
      <4> QED BY <4>1 DEF Client_t
    <3>2. /\ y.fd = r.fd /\ y.peer = p /\ y.store = r.store /\ y.fio = f
          /\ y.etimer = r.etimer /\ y.done = k /\ y.rh = "blocked" /\ y.wh = "blocked"
      <4> HIDE DEF y
      <4>1. y = [s EXCEPT !.rh = "blocked", !.wh = "blocked"]
        BY DEF y
      <4>2. /\ y.fd = s.fd /\ y.peer = s.peer /\ y.store = s.store /\ y.fio = s.fio
            /\ y.etimer = s.etimer /\ y.done = s.done /\ y.rh = "blocked" /\ y.wh = "blocked"
        BY <1>6, <4>1, ConnBlocked
      <4> QED BY <1>6, <4>2
    <3> HIDE DEF y, q
    <3>3. Kept(c) /\ Excuse(c)
      BY <2>3, <3>1 DEF Kept, Excuse, None
    <3>4. SameConn(c) /\ conn'[c].fio = f /\ conn'[c].done = k
      BY <2>3, <3>2 DEF SameConn
    <3>5. fio'[conn'[c].fio] = t /\ fio[r.fio] = u /\ r.fio \in Fio /\ k = r.done + u.need
      BY <1>1, <3>4 DEF k
    <3>6. Writes(c)
      BY <1>1, <1>11, <2>1, <2>3, <3>1, <3>2, <3>4, <3>5 DEF Writes
    <3> QED BY <2>1, <2>3, <3>3, <3>6 DEF Step
  <2> QED BY <2>1, <2>2, <2>3
<1>12. CASE u.ret = u.need /\ ~(k < Size[b])
  <2>1. write_block_done(b) /\ DoneResponse(c, v) /\ cause' = cause
    BY <1>3, <1>6, <1>8, <1>12
  <2>2. b \in Block /\ Size[b] \in Nat
    BY <1>1, DnRequestAssumption DEF Block
  <2>3. DiskType'
    BY <2>1, <2>2, DoneDisk
  <2>4. Finished(c)
    <3>1. r.done + u.need >= Size[b]
      BY <1>5, <1>12, <2>2 DEF k
    <3> QED BY <1>1, <1>12, <3>1 DEF Finished
  <2>5. v.fio[v.r.fio].io = "own" /\ v.r.etimer = r.etimer
    BY <1>2, <1>6, <1>8
  <2> QED BY <1>1, <1>8, <1>9, <2>1, <2>3, <2>4, <2>5, LastStep
<1> QED BY <1>10, <1>11, <1>12

LEMMA ReadStep ==
  ASSUME OwnInv, OpInv, bad = None, NEW f, NEW c, NEW w, Done(f, c, w),
         peer[conn[c].peer].op # "write", block_read_complete(c, w)
  PROVE  Step(c)
<1> DEFINE p == conn[c].peer
           r == conn[c]
           u == fio[f]
<1>1. /\ c \in Conn /\ f \in Fio /\ r.fio = f /\ Working(r) /\ p \in Peer
      /\ Asked(c) /\ u \in Fio_t /\ u.io = "done" /\ Work(c, w) /\ w.r = r /\ w.peer = peer
      /\ w \in Hs /\ r \in Conn_t /\ w.fio \in [Fio -> Fio_t] /\ w.fio[f] = [u EXCEPT !.io = "own"]
  BY DEF Done, Work, Hs
<1>2. w.fio[f].io = "own" /\ w.fio[f].need = u.need /\ w.fio[f].ret = u.ret
  BY DoneOwn
<1>3. IF u.ret = EAGAIN
      THEN \/ /\ Keep(c, [w EXCEPT !.r.wh = "again", !.fio[f].io = "pending"])
              /\ cause' = cause \cup {"slow"} /\ UNCHANGED <<fdt, disk, bad>>
           \/ Failing /\ Refuse(c, w, {"failed"})
      ELSE IF u.ret = ERROR THEN Refuse(c, w, {})
      ELSE DoneResponse(c, w) /\ UNCHANGED <<disk, cause>>
  <2> HIDE DEF u
  <2> QED BY <1>1, <1>2 DEF block_read_complete
<1>4. (r.etimer => "starved" \in cause) /\ f # None /\ peer[p].op = "read"
  BY <1>1, DnRequestAssumption DEF OpInv, None
<1>5. ASSUME NEW why \in SUBSET Causes, Refuse(c, w, why) PROVE Step(c)
  <2>1. OwnInv' /\ Frame(c) /\ UNCHANGED disk /\ Closed(c, w) /\ cause' = cause \cup why
    BY <1>1, <1>5, RefuseStep
  <2>2. w.fio[w.r.fio].io = "own"
    BY <1>1, <1>2
  <2> QED BY <1>1, <1>4, <2>1, <2>2, ClosedEnds
<1>6. {} \in SUBSET Causes /\ {"failed"} \in SUBSET Causes
  BY DEF Causes
<1>7. CASE u.ret \notin {EAGAIN, ERROR}
  <2>1. DoneResponse(c, w) /\ UNCHANGED <<disk, cause>>
    BY <1>3, <1>7
  <2>2. DiskType'
    BY <2>1 DEF OwnInv, TypeOK, DiskType, disk
  <2>3. Finished(c)
    BY <1>1, <1>7 DEF Finished
  <2>4. w.fio[w.r.fio].io = "own" /\ w.r.etimer = r.etimer
    BY <1>1, <1>2
  <2> QED BY <1>1, <1>4, <2>1, <2>2, <2>3, <2>4, LastStep
<1>8. CASE /\ Keep(c, [w EXCEPT !.r.wh = "again", !.fio[f].io = "pending"])
           /\ cause' = cause \cup {"slow"} /\ UNCHANGED <<fdt, disk, bad>>
  <2> DEFINE s == [r EXCEPT !.wh = "again"]
             y == [w.fio[f] EXCEPT !.io = "pending"]
             v == [w EXCEPT !.r.wh = "again", !.fio[f].io = "pending"]
             w2 == [w EXCEPT !.r.wh = "again"]
  <2>1. /\ s \in Conn_t /\ s.peer = p /\ s.fd = r.fd /\ s.store = r.store /\ s.fio = f
        /\ s.rh = r.rh /\ s.etimer = r.etimer /\ s.wtimer = r.wtimer /\ s.wh = "again"
    BY <1>1 DEF Conn_t
  <2>2. /\ y \in Fio_t /\ y.io = "pending" /\ y.st = w.fio[f].st /\ y.conn = w.fio[f].conn
        /\ y.off = u.off /\ y.need = u.need /\ y.sf = u.sf
    <3>1. PICK x \in Fio_t : x = u
      BY <1>1
    <3> DEFINE z == [x EXCEPT !.io = "own"]
    <3>2. z \in Fio_t /\ z = w.fio[f] /\ z.off = x.off /\ z.need = x.need /\ z.sf = x.sf
      BY <1>1, <3>1, FioIo
    <3> HIDE DEF z
    <3>3. LET a == [z EXCEPT !.io = "pending"]
          IN  /\ a \in Fio_t /\ a.io = "pending" /\ a.st = z.st /\ a.conn = z.conn
              /\ a.off = z.off /\ a.need = z.need /\ a.sf = z.sf
      BY <3>2, FioIo
    <3> QED BY <3>1, <3>2, <3>3
  <2>3. w2 = [w EXCEPT !.r = s] /\ v = [w2 EXCEPT !.fio[f].io = "pending"]
    BY <1>1
  <2> HIDE DEF s, y, v, w2
  <2>4. w2 \in Hs /\ w2.r = s /\ w2.peer = peer /\ w2.fio = w.fio /\ w2.freeq = w.freeq
    <3>1. w2 \in Hs /\ w2.r = s /\ w2.peer = w.peer /\ w2.fio = w.fio /\ w2.freeq = w.freeq
      BY <1>1, <2>1, <2>3, HsPut
    <3> QED BY <1>1, <3>1
  <2> DEFINE x == [w.fio EXCEPT ![f] = y]
  <2>5. x \in [Fio -> Fio_t] /\ x[f] = y /\ \A g \in Fio \ {f} : x[g] = w.fio[g]
    BY <1>1, <2>2
  <2>6. v = [w2 EXCEPT !.fio = x]
    BY <2>3, <2>4 DEF y
  <2> HIDE DEF x
  <2>7. v \in Hs /\ v.r = s /\ v.peer = peer /\ v.fio = x /\ v.freeq = w.freeq
    <3>1. v \in Hs /\ v.r = w2.r /\ v.peer = w2.peer /\ v.fio = x /\ v.freeq = w2.freeq
      BY <2>4, <2>5, <2>6, HsPut
    <3> QED BY <2>4, <3>1
  <2>8. Work(c, v)
    <3>0. w.fio[f].conn = c
      <4>1. Owned(Tasks, fio, freeq) /\ TypeOK
        BY DEF OwnInv
      <4>2. u.conn \in Conn /\ conn[u.conn].fio = f
        BY <1>1, <4>1, TasksType DEF Owned
      <4>3. u.conn = c
        BY <1>1, <1>4, <4>1, <4>2, TasksType DEF Owned
      <4>4. w.fio[f].conn = u.conn
        BY <1>1 DEF Fio_t
      <4> QED BY <4>3, <4>4
    <3>1. Follows(c, w, v)
      <4>1. /\ v.r.peer = w.r.peer /\ v.r.fd = w.r.fd /\ v.r.store = w.r.store /\ v.r.fio = w.r.fio
            /\ v.freeq = w.freeq /\ v.peer = w.peer
        BY <1>1, <2>1, <2>7
      <4>2. \A g \in Fio : g # w.r.fio => v.fio[g] = w.fio[g]
        BY <1>1, <2>5, <2>7
      <4>3. v.fio[w.r.fio].st = w.fio[w.r.fio].st /\ v.fio[w.r.fio].conn = c
        BY <1>1, <2>2, <2>5, <2>7, <3>0
      <4> QED BY <2>7, <4>1, <4>2, <4>3 DEF Follows
    <3> QED BY <1>1, <3>1, WorkOn
  <2>9. DiskType' /\ bad' = None /\ bad' \in Bads /\ fdt' = fdt /\ Keep(c, v)
    BY <1>8 DEF OwnInv, TypeOK, DiskType, disk, Bads, v
  <2>10. Shape(v.r) /\ v.fio[v.r.fio].io # "own"
    <3>1. r.fd # 0 /\ p # None
      BY <1>1, UsedConn DEF Work
    <3> QED BY <1>1, <2>1, <2>2, <2>5, <2>7, <3>1 DEF Shape, Working
  <2>11. OwnInv' /\ Frame(c)
    BY <1>1, <2>8, <2>9, <2>10, KeepOwn
  <2>12. conn'[c] = s /\ peer' = peer /\ fio'[f] = y
    <3>1. conn \in [Conn -> Conn_t]
      BY DEF OwnInv, TypeOK
    <3> QED BY <1>1, <2>5, <2>7, <2>9, <3>1 DEF Keep
  <2>13. Kept(c) /\ Excuse(c)
    BY <1>8, <2>9, <2>12 DEF Kept, Excuse, None
  <2>14. Retries(c)
    BY <1>1, <1>4, <1>8, <2>1, <2>2, <2>12 DEF Retries, SameConn
  <2> QED BY <2>9, <2>11, <2>13, <2>14 DEF Step
<1> QED BY <1>3, <1>5, <1>6, <1>7, <1>8

LEMMA PostedStep ==
  ASSUME OwnInv, OpInv, bad = None, NEW f \in Fio, ioevents_process_posted(f)
  PROVE  fio[f].conn \in Conn /\ Step(fio[f].conn)
<1> DEFINE c == fio[f].conn
           w == [Now(c) EXCEPT !.fio[f].io = "own"]
<1>1. /\ fio[f].io = "done"
      /\ IF peer[conn[c].peer].op = "write" THEN block_write_complete(c, w)
                                            ELSE block_read_complete(c, w)
  BY DEF ioevents_process_posted
<1>2. Done(f, c, w)
  <2> HIDE DEF c
  <2>1. w = [Now(fio[f].conn) EXCEPT !.fio[f].io = "own"]
    BY DEF c
  <2> HIDE DEF w
  <2> QED BY <1>1, <2>1, DoneWork DEF c
<1>3. c \in Conn
  BY <1>2 DEF Done
<1> HIDE DEF c, w
<1>4. Step(c)
  BY <1>1, <1>2, WrittenStep, ReadStep
<1> QED BY <1>3, <1>4 DEF c

----------------------------------------------------------------------------
(* Opening a file *)

\* A descriptor is free as long as some connection has no file open.
LEMMA FreshFd ==
  ASSUME OwnInv, bad = None, NEW c \in Conn, conn[c].store = 0
  PROVE  NewFd \in Fd /\ fdt[NewFd] = <<>> /\ 0 \notin Fd
<1> DEFINE n == Cardinality(Conn)
           A == {conn[d].fd : d \in Conn}
           C == Conn \ {c}
           B == {conn[d].store : d \in C}
           free == {x \in Fd : fdt[x] = <<>>}
<1>1. n \in Nat /\ IsFiniteSet(Conn) /\ n >= 1
  <2>1. IsFiniteSet(Conn) /\ n \in Nat
    BY DnRequestAssumption, ConnCount
  <2>2. Conn # {}
    OBVIOUS
  <2> QED BY <2>1, <2>2, FS_EmptySet
<1>2. IsFiniteSet(A) /\ Cardinality(A) \in Nat /\ Cardinality(A) <= n
  <2> DEFINE g == [d \in Conn |-> conn[d].fd]
  <2>1. g \in Surjection(Conn, A)
    BY DEF Surjection
  <2> HIDE DEF g, A
  <2> QED BY <1>1, <2>1, FS_Surjection, FS_CardinalityType
<1>3. IsFiniteSet(C) /\ Cardinality(C) = n - 1
  BY <1>1, FS_RemoveElement
<1>4. IsFiniteSet(B) /\ Cardinality(B) \in Nat /\ Cardinality(B) <= n - 1
  <2> DEFINE g == [d \in C |-> conn[d].store]
  <2>1. g \in Surjection(C, B)
    BY DEF Surjection
  <2> HIDE DEF g, B, C
  <2> QED BY <1>3, <2>1, FS_Surjection, FS_CardinalityType
<1>5. IsFiniteSet(A \cup B) /\ Cardinality(A \cup B) <= n + (n - 1)
  <2> HIDE DEF A, B, n
  <2>1. /\ IsFiniteSet(A \cup B)
        /\ Cardinality(A \cup B) = Cardinality(A) + Cardinality(B) - Cardinality(A \cap B)
    BY <1>2, <1>4, FS_Union
  <2>2. Cardinality(A \cap B) \in Nat
    <3>1. A \cap B \in SUBSET A
      OBVIOUS
    <3>2. IsFiniteSet(A \cap B)
      BY <1>2, <3>1, FS_Subset
    <3> QED BY <3>2, FS_CardinalityType
  <2> QED BY <1>1, <1>2, <1>4, <2>1, <2>2
<1>6. Fd = 1 .. 2 * n /\ IsFiniteSet(Fd) /\ Cardinality(Fd) = 2 * n
  <2>1. Fd = 1 .. 2 * n
    BY DEF Fd
  <2> HIDE DEF n
  <2>2. 2 * n \in Int /\ 1 \in Int /\ ~(1 > 2 * n)
    BY <1>1
  <2> QED BY <1>1, <2>1, <2>2, FS_Interval
<1>7. free # {}
  <2> SUFFICES ASSUME free = {} PROVE FALSE
    OBVIOUS
  <2>1. ASSUME NEW x \in Fd PROVE x \in A \cup B
    <3>1. PICK d \in Conn : conn[d].fd = x \/ conn[d].store = x
      BY DEF OwnInv, FdInv
    <3>2. x # 0
      BY <1>1, <1>6
    <3> QED BY <3>1, <3>2
  <2>2. Fd \in SUBSET (A \cup B)
    BY <2>1
  <2> HIDE DEF A, B, n
  <2>3. Cardinality(Fd) <= Cardinality(A \cup B)
    BY <1>5, <2>2, FS_Subset
  <2>4. Cardinality(A \cup B) \in Nat
    BY <1>5, FS_CardinalityType
  <2> QED BY <1>1, <1>5, <1>6, <2>3, <2>4
<1>8. free \in SUBSET Nat
  BY <1>1, <1>6
<1>9. NewFd \in free
  BY <1>7, <1>8, MinLeast DEF NewFd
<1> HIDE DEF n
<1> QED BY <1>1, <1>6, <1>9

\* The file is open and the request waits for its socket to be reported writable.
Opens(c) ==
  LET r == conn[c]  s == conn'[c]  p == conn[c].peer  b == Blk[p]
      i == IF tmp[b] = None THEN p ELSE tmp[b]
  IN  /\ Waiting(r) /\ Opening(s) /\ s.peer = p /\ s.fd = r.fd /\ s.store = NewFd /\ s.edge
      /\ ~s.etimer /\ peer'[p] = [peer[p] EXCEPT !.rx = 0] /\ UNCHANGED <<fio, bad, index, file, cause>>
      /\ posted'[c] = posted[c] \ {"in"}
      /\ \/ /\ peer[p].op = "write" /\ fdt'[s.store] = <<"file", i>>
            /\ tmp' = [tmp EXCEPT ![b] = i] /\ data' = [data EXCEPT ![i] = {}]
         \/ /\ peer[p].op = "read" /\ b \in index /\ fdt'[s.store] = <<"file", file[b]>>
            /\ UNCHANGED <<tmp, data>>

LEMMA ConnOpened ==
  ASSUME NEW r \in Conn_t, NEW d \in Fd
  PROVE  LET s == [r EXCEPT !.store = d, !.rh = "check", !.wh = "header",
                       !.wact = TRUE, !.sub = {"in", "out"}, !.edge = TRUE, !.wtimer = TRUE]
         IN  /\ s \in Conn_t /\ s.peer = r.peer /\ s.fd = r.fd /\ s.store = d /\ s.rh = "check"
             /\ s.wh = "header" /\ s.fio = r.fio /\ s.done = r.done /\ s.sub = {"in", "out"}
             /\ s.wact /\ s.wtimer /\ s.etimer = r.etimer /\ s.edge
BY DEF Conn_t

LEMMA OpenOwn ==
  ASSUME OwnInv, bad = None, NEW c \in Conn, Waiting(conn[c]), "in" \in posted[c],
         NEW i \in Peer \cup Block, DiskType', NEW w, w = [Now(c) EXCEPT !.peer[conn[c].peer].rx = 0],
         Opened(c, w, i)
  PROVE  LET s == conn'[c]  p == conn[c].peer
         IN  /\ OwnInv' /\ Frame(c) /\ Opening(s) /\ s.peer = p /\ s.fd = conn[c].fd
             /\ s.store = NewFd /\ s.edge /\ ~s.etimer /\ peer'[p] = [peer[p] EXCEPT !.rx = 0]
             /\ fio' = fio /\ posted'[c] = posted[c] \ {"in"} /\ fdt'[NewFd] = <<"file", i>>
<1> DEFINE p == conn[c].peer
           r == conn[c]
           d == NewFd
           s == [r EXCEPT !.store = d, !.rh = "check", !.wh = "header",
                       !.wact = TRUE, !.sub = {"in", "out"}, !.edge = TRUE, !.wtimer = TRUE]
           q == [peer[p] EXCEPT !.rx = 0]
           b == [peer EXCEPT ![p] = q]
<1>1. TypeOK /\ RoomInv /\ PoolInv /\ Owned(Tasks, fio, freeq) /\ Busy /\ FdInv /\ PeerInv
  BY DEF OwnInv
<1>2. r # Unused /\ p \in Peer /\ p # None /\ r.fd # 0 /\ r.fd \in Fd
  <2>1. r # Unused
    BY DEF Waiting, Unused, None
  <2> QED BY <2>1, InUse, UsedConn
<1>3. d \in Fd /\ fdt[d] = <<>> /\ 0 \notin Fd
  BY FreshFd DEF Waiting
<1>4. /\ Now(c) \in Hs /\ Now(c).r = r /\ Now(c).peer = peer /\ Now(c).fio = fio
      /\ Now(c).freeq = freeq /\ r \in Conn_t /\ peer \in [Peer -> Client_t]
  BY NowParts
<1> HIDE DEF d
<1>5. /\ s \in Conn_t /\ s.peer = p /\ s.fd = r.fd /\ s.store = d /\ s.rh = "check"
      /\ s.wh = "header" /\ s.fio = r.fio /\ s.done = r.done /\ s.sub = {"in", "out"}
      /\ s.wact /\ s.wtimer /\ s.etimer = r.etimer /\ s.edge
  <2>1. PICK x \in Conn_t, e \in Fd : x = r /\ e = d
    BY <1>3, <1>4
  <2> DEFINE a == [x EXCEPT !.store = e, !.rh = "check", !.wh = "header",
                       !.wact = TRUE, !.sub = {"in", "out"}, !.edge = TRUE, !.wtimer = TRUE]
  <2>2. s = a
    BY <2>1
  <2>3. /\ a \in Conn_t /\ a.peer = x.peer /\ a.fd = x.fd /\ a.store = e /\ a.rh = "check"
        /\ a.wh = "header" /\ a.fio = x.fio /\ a.done = x.done /\ a.sub = {"in", "out"}
        /\ a.wact /\ a.wtimer /\ a.etimer = x.etimer /\ a.edge
    BY ConnOpened
  <2> HIDE DEF s, a
  <2> QED BY <2>1, <2>2, <2>3
<1>6. /\ q \in Client_t /\ q.pc = peer[p].pc /\ q.op = peer[p].op /\ q.cut = peer[p].cut
      /\ q.taken = peer[p].taken /\ q.sent = peer[p].sent /\ q.out = peer[p].out
  <2>1. PICK x \in Client_t : x = peer[p]
    BY <1>2, <1>4
  <2> DEFINE a == [x EXCEPT !.rx = 0]
  <2>2. /\ a \in Client_t /\ a.pc = x.pc /\ a.op = x.op /\ a.cut = x.cut
        /\ a.taken = x.taken /\ a.sent = x.sent /\ a.out = x.out
    BY DEF Client_t
  <2>3. q = a
    BY <2>1
  <2> HIDE DEF a, q
  <2> QED BY <2>1, <2>2, <2>3
<1>7. w.r = r /\ w.peer = b /\ w.fio = fio /\ w.freeq = freeq /\ w \in Hs
  <2>1. w = [Now(c) EXCEPT !.peer = b]
    BY <1>4
  <2> HIDE DEF q
  <2>2. b \in [Peer -> Client_t]
    BY <1>2, <1>4, <1>6
  <2>3. PICK n \in Hs, e \in [Peer -> Client_t] : n = Now(c) /\ e = b
    BY <1>4, <2>2
  <2>4. LET a == [n EXCEPT !.peer = e]
        IN  a \in Hs /\ a.r = n.r /\ a.peer = e /\ a.fio = n.fio /\ a.freeq = n.freeq
    BY HsPut
  <2> QED BY <1>4, <2>1, <2>3, <2>4
<1> DEFINE v == [w EXCEPT !.r.store = d, !.r.rh = "check", !.r.wh = "header",
                       !.r.wact = TRUE, !.r.sub = {"in", "out"}, !.r.edge = TRUE, !.r.wtimer = TRUE]
<1>8. v.r = s /\ v.peer = b /\ v.fio = fio /\ v.freeq = freeq
  <2> HIDE DEF b
  <2>1. PICK n \in Hs : n = w
    BY <1>7
  <2>2. v.r = [n.r EXCEPT !.store = d, !.rh = "check", !.wh = "header",
                       !.wact = TRUE, !.sub = {"in", "out"}, !.edge = TRUE, !.wtimer = TRUE]
    BY <2>1 DEF Hs
  <2>3. v.peer = n.peer /\ v.fio = n.fio /\ v.freeq = n.freeq
    BY <2>1 DEF Hs
  <2> QED BY <1>7, <2>1, <2>2, <2>3
<1>9. Keep(c, v) /\ fdt' = [fdt EXCEPT ![d] = <<"file", i>>] /\ bad' = bad
  BY DEF Opened, d
<1> HIDE DEF v, s, q
<1>10. /\ conn' = [conn EXCEPT ![c] = s] /\ peer' = b /\ fio' = fio /\ freeq' = freeq
       /\ Handled(c) /\ pool' = pool
  BY <1>8, <1>9 DEF Keep
<1>11. /\ conn'[c] = s /\ \A e \in Conn \ {c} : conn'[e] = conn[e]
       /\ peer'[p] = q /\ \A e \in Peer \ {p} : peer'[e] = peer[e]
       /\ fdt'[d] = <<"file", i>> /\ \A x \in Fd \ {d} : fdt'[x] = fdt[x]
  <2>1. conn \in [Conn -> Conn_t] /\ fdt \in [Fd -> {<<>>} \cup ({"sock"} \X Peer) \cup ({"file"} \X (Peer \cup Block))]
    BY <1>1 DEF TypeOK
  <2> QED BY <1>2, <1>3, <1>4, <1>9, <1>10, <2>1
<1>12. /\ posted' \in [Conn -> SUBSET {"in", "out"}] /\ \A e \in Conn \ {c} : posted'[e] = posted[e]
       /\ posted'[c] = posted[c] \ {"in"}
  BY <1>1, <1>10, HandledType
<1>13. TypeOK'
  <2>1. conn' \in [Conn -> Conn_t] /\ peer' \in [Peer -> Client_t]
    BY <1>1, <1>2, <1>4, <1>5, <1>6, <1>10 DEF TypeOK
  <2>2. fdt' \in [Fd -> {<<>>} \cup ({"sock"} \X Peer) \cup ({"file"} \X (Peer \cup Block))]
    BY <1>1, <1>9 DEF TypeOK
  <2> QED BY <1>1, <1>9, <1>10, <1>12, <2>1, <2>2 DEF TypeOK, DiskType
<1>14. Opening(s) /\ ~s.etimer
  BY <1>3, <1>5 DEF Waiting, Opening
<1>15. \A e \in Conn : (conn[e].fd # 0 => conn[e].fd \in Fd /\ conn[e].fd # d)
                    /\ (conn[e].store # 0 => conn[e].store \in Fd /\ conn[e].store # d)
  <2> SUFFICES ASSUME NEW e \in Conn
               PROVE  (conn[e].fd # 0 => conn[e].fd \in Fd /\ conn[e].fd # d)
                    /\ (conn[e].store # 0 => conn[e].store \in Fd /\ conn[e].store # d)
    OBVIOUS
  <2>1. conn[e].fd \in Fd \cup {0} /\ conn[e].store \in Fd \cup {0}
    BY <1>1 DEF TypeOK, Conn_t
  <2>2. conn[e].fd # 0 => fdt[conn[e].fd] # <<>>
    BY <1>1 DEF FdInv
  <2>3. ASSUME conn[e].store # 0 PROVE fdt[conn[e].store] # <<>>
    <3>1. PICK j \in Peer \cup Block : fdt[conn[e].store] = <<"file", j>>
      BY <1>1, <2>3 DEF FdInv
    <3> QED BY <3>1
  <2> QED BY <1>3, <2>1, <2>2, <2>3
<1>16. Frame(c)
  BY <1>10, <1>11, <1>12, <1>15 DEF Frame
<1>17. RoomInv'
  BY <1>1, <1>6, <1>11 DEF RoomInv, Fits
<1>18. \A e \in Conn : Shape(conn'[e])
  BY <1>2, <1>5, <1>11, <1>14 DEF OwnInv, Shape
<1>19. PoolInv'
  <2>1. s # Unused
    BY <1>2, <1>5 DEF Unused
  <2> QED BY <1>1, <1>2, <1>10, <1>11, <2>1 DEF PoolInv
<1>20. Owned(Tasks, fio, freeq)' /\ Busy'
  <2>1. Tasks' = Tasks
    BY <1>5, <1>11 DEF Tasks
  <2> QED BY <1>1, <1>5, <1>10, <1>11, <2>1 DEF Owned, Busy
<1>21. FdInv'
  <2>1. \A e \in Conn : conn'[e].fd # 0 => fdt'[conn'[e].fd] = <<"sock", conn'[e].peer>>
    <3>1. \A e \in Conn : conn'[e].fd = conn[e].fd /\ conn'[e].peer = conn[e].peer
      BY <1>5, <1>11
    <3> QED BY <1>1, <1>11, <1>15, <3>1 DEF FdInv
  <2>2. \A e \in Conn : conn'[e].store # 0 =>
          \E j \in Peer \cup Block : fdt'[conn'[e].store] = <<"file", j>>
    <3> SUFFICES ASSUME NEW e \in Conn, conn'[e].store # 0
                 PROVE  \E j \in Peer \cup Block : fdt'[conn'[e].store] = <<"file", j>>
      OBVIOUS
    <3>1. CASE e = c
      BY <1>5, <1>11, <3>1
    <3>2. CASE e # c
      <4>1. conn'[e] = conn[e] /\ fdt'[conn[e].store] = fdt[conn[e].store]
        BY <1>11, <1>15, <3>2
      <4> QED BY <1>1, <4>1 DEF FdInv
    <3> QED BY <3>1, <3>2
  <2>3. \A e, g \in Conn : conn'[e].store = conn'[g].store /\ conn'[e].store # 0 => e = g
    BY <1>1, <1>5, <1>11, <1>15 DEF FdInv
  <2>4. \A x \in Fd : fdt'[x] # <<>> => \E e \in Conn : conn'[e].fd = x \/ conn'[e].store = x
    <3> SUFFICES ASSUME NEW x \in Fd, fdt'[x] # <<>>
                 PROVE  \E e \in Conn : conn'[e].fd = x \/ conn'[e].store = x
      OBVIOUS
    <3>1. CASE x = d
      BY <1>5, <1>11, <3>1
    <3>2. CASE x # d
      <4>1. PICK e \in Conn : conn[e].fd = x \/ conn[e].store = x
        BY <1>1, <1>11, <3>2 DEF FdInv
      <4>2. x # 0 /\ r.store = 0
        BY <1>3 DEF Waiting
      <4> QED BY <1>5, <1>11, <4>1, <4>2
    <3> QED BY <3>1, <3>2
  <2> QED BY <2>1, <2>2, <2>3, <2>4 DEF FdInv
<1>22. PeerInv'
  <2>0. \A e \in Conn : conn'[e].peer = conn[e].peer
    BY <1>5, <1>11
  <2>1. \A e, g \in Conn : conn'[e].peer = conn'[g].peer /\ conn'[e].peer # None => e = g
    BY <1>1, <2>0 DEF PeerInv
  <2>2. \A e \in Conn : conn'[e].peer # None => ~peer'[conn'[e].peer].cut
    <3> SUFFICES ASSUME NEW e \in Conn, conn[e].peer # None PROVE ~peer'[conn[e].peer].cut
      BY <2>0
    <3>1. conn[e].peer \in Peer
      BY <1>1 DEF TypeOK, Conn_t
    <3> QED BY <1>1, <1>6, <1>11, <3>1 DEF PeerInv
  <2>3. \A e \in Conn : posted'[e] # {} => conn'[e].peer # None
    BY <1>1, <1>2, <1>12, <2>0 DEF PeerInv
  <2> QED BY <2>1, <2>2, <2>3 DEF PeerInv
<1>23. OwnInv'
  BY <1>13, <1>17, <1>18, <1>19, <1>20, <1>21, <1>22 DEF OwnInv
<1> QED BY <1>5, <1>10, <1>11, <1>12, <1>14, <1>16, <1>23 DEF d, q

\* The header is read: the connection is closed, or the file opened.
LEMMA ReadHeaderStep ==
  ASSUME OwnInv, OpInv, bad = None, NEW c \in Conn, conn[c].rh = "header", "in" \in posted[c],
         dn_request_read_header(c)
  PROVE  Step(c) \/ (OwnInv' /\ Frame(c) /\ Opens(c))
<1> DEFINE p == conn[c].peer
           r == conn[c]
           w == [Now(c) EXCEPT !.peer[p].rx = 0]
           q == [peer[p] EXCEPT !.rx = 0]
           b == [peer EXCEPT ![p] = q]
<1>1. p \in Peer /\ p # None /\ Waiting(r)
  <2>1. r # Unused
    BY DEF Unused, None
  <2> QED BY <2>1, InUse
<1>2. Work(c, Now(c))
  BY <1>1, WorkStarts
<1>3. /\ Now(c) \in Hs /\ Now(c).r = r /\ Now(c).peer = peer /\ Now(c).fio = fio
      /\ Now(c).freeq = freeq /\ peer \in [Peer -> Client_t]
  BY NowParts
<1>4. /\ q \in Client_t /\ q.pc = peer[p].pc /\ q.op = peer[p].op /\ q.cut = peer[p].cut
      /\ q.taken = peer[p].taken /\ q.sent = peer[p].sent /\ q.out = peer[p].out
  <2>1. PICK x \in Client_t : x = peer[p]
    BY <1>1, <1>3
  <2> DEFINE a == [x EXCEPT !.rx = 0]
  <2>2. /\ a \in Client_t /\ a.pc = x.pc /\ a.op = x.op /\ a.cut = x.cut
        /\ a.taken = x.taken /\ a.sent = x.sent /\ a.out = x.out
    BY DEF Client_t
  <2>3. q = a
    BY <2>1
  <2> HIDE DEF a, q
  <2> QED BY <2>1, <2>2, <2>3
<1>5. w = [Now(c) EXCEPT !.peer = b]
  BY <1>3
<1>6. \/ \E why \in SUBSET Causes : Refuse(c, w, why)
      \/ peer[p].op = "write" /\ dn_request_write_file(c, w)
      \/ peer[p].op = "read" /\ dn_request_read_file(c, w)
  <2>1. \A why \in {{}, {"failed"}} : why \in SUBSET Causes
    BY DEF Causes
  <2>2. \/ Refuse(c, w, {}) \/ Refuse(c, w, {"failed"})
        \/ peer[p].op = "write" /\ dn_request_write_file(c, w)
        \/ peer[p].op = "read" /\ dn_request_read_file(c, w)
    BY DEF dn_request_read_header
  <2> HIDE DEF w
  <2> QED BY <2>1, <2>2
<1> HIDE DEF w, q
<1>7. w.r = r /\ w.peer = b /\ w.fio = fio /\ w.freeq = freeq /\ w \in Hs
  <2>1. b \in [Peer -> Client_t]
    BY <1>1, <1>3, <1>4
  <2>2. PICK e \in [Peer -> Client_t] : e = b
    BY <2>1
  <2>3. w = [Now(c) EXCEPT !.peer = e]
    BY <1>5, <2>2
  <2>4. w \in Hs /\ w.r = r /\ w.peer = e /\ w.fio = fio /\ w.freeq = freeq
    BY <1>3, <2>3, HsPut
  <2> QED BY <2>2, <2>4
<1>8. b[p] = q /\ \A x \in Peer \ {p} : b[x] = peer[x]
  BY <1>1, <1>3
<1>9. CASE \E why \in SUBSET Causes : Refuse(c, w, why)
  <2>1. PICK why \in SUBSET Causes : Refuse(c, w, why)
    BY <1>9
  <2>2. Work(c, w)
    <3>1. Fits(peer[p]) => Fits(q)
      BY <1>4 DEF Fits
    <3>2. Follows(c, Now(c), w)
      BY <1>1, <1>3, <1>4, <1>7, <1>8, <3>1 DEF Follows, Waiting
    <3> QED BY <1>2, <3>2, WorkOn
  <2>3. OwnInv' /\ Frame(c) /\ UNCHANGED disk /\ Closed(c, w) /\ cause' = cause \cup why
    BY <2>1, <2>2, RefuseStep
  <2>4. w.peer[p].out = peer[p].out /\ ~w.r.etimer /\ w.r.fio = None
    BY <1>1, <1>4, <1>7, <1>8 DEF Waiting
  <2> QED BY <2>2, <2>3, <2>4, ClosedEnds
<1>10. CASE peer[p].op = "write" /\ dn_request_write_file(c, w)
  <2> DEFINE e == Blk[p]
             i == IF tmp[e] = None THEN p ELSE tmp[e]
  <2>1. /\ Opened(c, w, i) /\ tmp' = [tmp EXCEPT ![e] = i] /\ data' = [data EXCEPT ![i] = {}]
        /\ UNCHANGED <<bad, index, file, cause>>
    BY <1>7, <1>10 DEF dn_request_write_file, Opened
  <2>2. e \in Block /\ i \in Peer /\ DiskType
    <3>1. e \in Block /\ DiskType
      BY <1>1, DnRequestAssumption DEF OwnInv, TypeOK, DiskType, Block
    <3> QED BY <1>1, <3>1 DEF DiskType
  <2> HIDE DEF i, e
  <2>3. DiskType'
    BY <2>1, <2>2 DEF DiskType
  <2>4. i \in Peer \cup Block /\ w = [Now(c) EXCEPT !.peer[conn[c].peer].rx = 0]
    BY <2>2 DEF w
  <2>5. /\ OwnInv' /\ Frame(c) /\ Opening(conn'[c]) /\ conn'[c].peer = p /\ conn'[c].fd = conn[c].fd
        /\ conn'[c].store = NewFd /\ conn'[c].edge /\ ~conn'[c].etimer
        /\ peer'[p] = [peer[p] EXCEPT !.rx = 0]
        /\ fio' = fio /\ posted'[c] = posted[c] \ {"in"} /\ fdt'[NewFd] = <<"file", i>>
    BY <1>1, <2>1, <2>3, <2>4, OpenOwn
  <2>6. Opens(c)
    BY <1>1, <1>10, <2>1, <2>5 DEF Opens, i, e
  <2> QED BY <2>5, <2>6
<1>11. CASE peer[p].op = "read" /\ dn_request_read_file(c, w)
  <2> DEFINE e == Blk[p]
             i == file[e]
  <2>1. /\ e \in index /\ Opened(c, w, i) /\ UNCHANGED <<tmp, data>>
        /\ UNCHANGED <<bad, index, file, cause>>
    BY <1>7, <1>11 DEF dn_request_read_file, Opened
  <2>2. DiskType /\ i # None
    BY <2>1 DEF OwnInv, TypeOK, DiskType, OpInv
  <2>3. i \in Peer \cup Block
    BY <2>1, <2>2 DEF DiskType
  <2> HIDE DEF i, e
  <2>4. DiskType'
    BY <2>1, <2>2 DEF DiskType
  <2>5. w = [Now(c) EXCEPT !.peer[conn[c].peer].rx = 0]
    BY DEF w
  <2>6. /\ OwnInv' /\ Frame(c) /\ Opening(conn'[c]) /\ conn'[c].peer = p /\ conn'[c].fd = conn[c].fd
        /\ conn'[c].store = NewFd /\ conn'[c].edge /\ ~conn'[c].etimer
        /\ peer'[p] = [peer[p] EXCEPT !.rx = 0]
        /\ fio' = fio /\ posted'[c] = posted[c] \ {"in"} /\ fdt'[NewFd] = <<"file", i>>
    BY <1>1, <2>1, <2>3, <2>4, <2>5, OpenOwn
  <2>7. Opens(c)
    BY <1>1, <1>11, <2>1, <2>6 DEF Opens, i, e
  <2> QED BY <2>6, <2>7
<1> QED BY <1>6, <1>9, <1>10, <1>11

----------------------------------------------------------------------------
(* What the clients, the event loop and the workers do *)

\* Connection c changes in its edge only.
SameBut(c) ==
  LET r == conn[c]  s == conn'[c]
  IN  /\ s.fd = r.fd /\ s.peer = r.peer /\ s.rh = r.rh /\ s.wh = r.wh /\ s.sub = r.sub
      /\ s.ract = r.ract /\ s.wact = r.wact /\ s.wtimer = r.wtimer /\ s.etimer = r.etimer
      /\ s.store = r.store /\ s.fio = r.fio /\ s.done = r.done
      /\ s = Unused <=> r = Unused

LEMMA EdgeSame ==
  ASSUME NEW c, conn[c] \in Conn_t, conn[c] # Unused, NEW e \in BOOLEAN,
         conn'[c] = [conn[c] EXCEPT !.edge = e]
  PROVE  SameBut(c) \/ conn[c].peer = None
<1>1. PICK r \in Conn_t : r = conn[c]
  OBVIOUS
<1> DEFINE s == [r EXCEPT !.edge = e]
<1>2. /\ s.fd = r.fd /\ s.peer = r.peer /\ s.rh = r.rh /\ s.wh = r.wh /\ s.sub = r.sub
      /\ s.ract = r.ract /\ s.wact = r.wact /\ s.wtimer = r.wtimer /\ s.etimer = r.etimer
      /\ s.store = r.store /\ s.fio = r.fio /\ s.done = r.done
  BY DEF Conn_t
<1>3. conn'[c] = s /\ Unused.peer = None
  BY <1>1 DEF Unused
<1> HIDE DEF s
<1>4. s = Unused => r.peer = None
  BY <1>2, <1>3
<1> QED BY <1>1, <1>2, <1>3, <1>4 DEF SameBut

\* A step that leaves everything where it is.
LEMMA QuietOwn ==
  ASSUME OwnInv, bad = None, TypeOK', RoomInv', \A c \in Conn : SameBut(c),
         pool' = pool, freeq' = freeq, fdt' = fdt, bad' = bad,
         \A f \in Fio : fio'[f].st = fio[f].st /\ fio'[f].conn = fio[f].conn
                        /\ (fio'[f].io = "own" <=> fio[f].io = "own"),
         \A p \in Peer : peer'[p].cut = peer[p].cut,
         \A c \in Conn : posted'[c] # {} => posted[c] # {} \/ conn[c] # Unused
  PROVE  OwnInv'
<1>1. TypeOK /\ PoolInv /\ Owned(Tasks, fio, freeq) /\ Busy /\ FdInv /\ PeerInv
  BY DEF OwnInv
<1>2. \A c \in Conn : Shape(conn'[c])
  <2> SUFFICES ASSUME NEW c \in Conn PROVE Shape(conn'[c])
    OBVIOUS
  <2>1. SameBut(c) /\ Shape(conn[c])
    BY DEF OwnInv
  <2> QED BY <2>1 DEF SameBut, Shape, Waiting, Opening, Working
<1>3. PoolInv'
  <2>1. {c \in Conn : conn'[c] = Unused} = {c \in Conn : conn[c] = Unused}
    BY DEF SameBut
  <2> QED BY <1>1, <2>1 DEF PoolInv
<1>4. \A c \in Conn : /\ conn'[c].fio = conn[c].fio /\ conn'[c].peer = conn[c].peer
                      /\ conn'[c].fd = conn[c].fd /\ conn'[c].store = conn[c].store
  BY DEF SameBut
<1>5. \A c \in Conn : conn[c].fio \in Fio \cup {None} /\ conn[c].peer \in Peer \cup {None}
  BY <1>1 DEF TypeOK, Conn_t
<1>6. Busy'
  BY <1>1, <1>4, <1>5 DEF Busy
<1>7. Owned(Tasks, fio, freeq)'
  <2>1. Tasks' = Tasks /\ \A c \in Conn : Tasks[c] \in Fio \cup {None}
    BY <1>4, <1>5 DEF Tasks
  <2>2. {f \in Fio : fio'[f].st = "free"} = {f \in Fio : fio[f].st = "free"}
    OBVIOUS
  <2>3. /\ IsInjective(freeq) /\ ToSet(freeq) = {f \in Fio : fio[f].st = "free"}
        /\ \A c \in Conn : Tasks[c] # None => fio[Tasks[c]].st = "used"
        /\ \A c, d \in Conn : Tasks[c] = Tasks[d] /\ Tasks[c] # None => c = d
        /\ \A f \in Fio : fio[f].st = "used" => \E c \in Conn : Tasks[c] = f
        /\ \A f \in Fio : fio[f].io # "own" => fio[f].conn \in Conn /\ Tasks[fio[f].conn] = f
    BY <1>1 DEF Owned
  <2>4. \A f \in Fio : fio'[f].st = "used" => \E c \in Conn : Tasks[c] = f
    BY <2>3
  <2>5. /\ \A c \in Conn : Tasks[c] # None => fio'[Tasks[c]].st = "used"
        /\ \A f \in Fio : fio'[f].io # "own" => fio'[f].conn \in Conn /\ Tasks[fio'[f].conn] = f
    BY <2>1, <2>3
  <2> QED BY <2>1, <2>2, <2>3, <2>4, <2>5 DEF Owned
<1>8. FdInv'
  <2>1. \A c \in Conn : conn'[c].store # 0 =>
          \E i \in Peer \cup Block : fdt'[conn'[c].store] = <<"file", i>>
    <3> SUFFICES ASSUME NEW c \in Conn, conn[c].store # 0
                 PROVE  \E i \in Peer \cup Block : fdt[conn[c].store] = <<"file", i>>
      BY <1>4
    <3> QED BY <1>1 DEF FdInv
  <2>2. \A x \in Fd : fdt'[x] # <<>> => \E c \in Conn : conn'[c].fd = x \/ conn'[c].store = x
    <3> SUFFICES ASSUME NEW x \in Fd, fdt[x] # <<>>
                 PROVE  \E c \in Conn : conn'[c].fd = x \/ conn'[c].store = x
      OBVIOUS
    <3>1. PICK c \in Conn : conn[c].fd = x \/ conn[c].store = x
      BY <1>1 DEF FdInv
    <3> QED BY <1>4, <3>1
  <2> QED BY <1>1, <1>4, <2>1, <2>2 DEF FdInv
<1>9. PeerInv'
  <2>1. \A c \in Conn : posted'[c] # {} => conn'[c].peer # None
    <3> SUFFICES ASSUME NEW c \in Conn, posted'[c] # {} PROVE conn[c].peer # None
      BY <1>4
    <3>1. CASE posted[c] # {}
      BY <1>1, <3>1 DEF PeerInv
    <3>2. CASE conn[c] # Unused
      BY <3>2, InUse
    <3> QED BY <3>1, <3>2
  <2> QED BY <1>1, <1>4, <1>5, <2>1 DEF PeerInv
<1> QED BY <1>2, <1>3, <1>6, <1>7, <1>8, <1>9 DEF OwnInv

\* The edges that a move of client p for the event e makes.
Edges(p, e) == \A c \in Conn : conn[c].peer = p /\ e \in conn[c].sub => conn'[c].edge

Moves(p) ==
  LET q == peer[p]  s == peer'[p]
  IN  /\ ~q.cut /\ ~s.cut /\ q.pc # "left" /\ s.out = q.out
      /\ \A x \in Peer \ {p} : peer'[x] = peer[x]
      /\ \A c \in Conn : SameBut(c) /\ (conn[c].edge => conn'[c].edge)
      /\ UNCHANGED <<pool, fdt, tasks, disk, posted, bad, cause>>
      /\ \/ /\ q.pc = "new" /\ s.pc = "open"
            /\ s.op = q.op /\ s.rx = q.rx /\ s.sent = q.sent /\ s.taken = q.taken
         \/ /\ q.pc = "open" /\ s.pc = "asked" /\ s.op \in Ops[p] /\ s.rx = 1 /\ Edges(p, "in")
            /\ s.sent = q.sent /\ s.taken = q.taken
         \/ /\ q.op = "write" /\ q.sent < Size[Blk[p]] /\ q.taken = 1 /\ Edges(p, "in")
            /\ s.sent = q.sent + 1 /\ s.rx = q.rx + 1
            /\ s.pc = q.pc /\ s.op = q.op /\ s.taken = q.taken
         \/ /\ q.taken < Len(q.out) /\ s.taken = q.taken + 1 /\ (Room(p) = 0 => Edges(p, "out"))
            /\ s.pc = q.pc /\ s.op = q.op /\ s.rx = q.rx /\ s.sent = q.sent
         \/ /\ q.pc # "new" /\ s.pc = "left" /\ s.op = q.op /\ s.rx = q.rx /\ s.sent = q.sent

LEMMA MoveOwn ==
  ASSUME OwnInv, bad = None, NEW p \in Peer, NEW new \in Client_t, NEW events, Move(p, new, events),
         new.cut = peer[p].cut, Fits(new)
  PROVE  /\ OwnInv' /\ ~Gone(p) /\ ~peer[p].cut /\ peer'[p] = new
         /\ \A x \in Peer \ {p} : peer'[x] = peer[x]
         /\ \A c \in Conn : SameBut(c) /\ (conn[c].edge => conn'[c].edge)
         /\ \A e \in events : Edges(p, e)
         /\ UNCHANGED <<pool, fdt, tasks, disk, posted, bad, cause>>
<1>1. TypeOK /\ RoomInv /\ conn \in [Conn -> Conn_t] /\ peer \in [Peer -> Client_t]
  BY DEF OwnInv, TypeOK
<1>2. /\ ~Gone(p) /\ ~peer[p].cut /\ peer' = [peer EXCEPT ![p] = new]
      /\ conn' = [c \in Conn |-> IF conn[c].peer = p /\ conn[c].sub \cap events # {}
                                 THEN [conn[c] EXCEPT !.edge = TRUE] ELSE conn[c]]
      /\ UNCHANGED <<pool, fdt, tasks, disk, posted, bad, cause>>
  BY DEF Move
<1>3. peer'[p] = new /\ \A x \in Peer \ {p} : peer'[x] = peer[x]
  BY <1>1, <1>2
<1>4. p # None
  BY DnRequestAssumption DEF None
<1>5. \A c \in Conn : \/ conn'[c] = conn[c] /\ ~(conn[c].peer = p /\ conn[c].sub \cap events # {})
                      \/ conn[c].peer = p /\ conn'[c] = [conn[c] EXCEPT !.edge = TRUE]
  BY <1>2
<1>6. \A c \in Conn : SameBut(c) /\ conn'[c] \in Conn_t /\ (conn[c].edge => conn'[c].edge)
                      /\ (conn[c].peer = p /\ conn[c].sub \cap events # {} => conn'[c].edge)
  <2> SUFFICES ASSUME NEW c \in Conn
               PROVE  SameBut(c) /\ conn'[c] \in Conn_t /\ (conn[c].edge => conn'[c].edge)
                      /\ (conn[c].peer = p /\ conn[c].sub \cap events # {} => conn'[c].edge)
    OBVIOUS
  <2>1. conn[c] \in Conn_t
    BY <1>1
  <2>2. CASE conn'[c] = conn[c] /\ ~(conn[c].peer = p /\ conn[c].sub \cap events # {})
    BY <2>1, <2>2 DEF SameBut
  <2>3. CASE conn[c].peer = p /\ conn'[c] = [conn[c] EXCEPT !.edge = TRUE]
    <3>1. conn[c] # Unused
      BY <1>4, <2>3 DEF Unused
    <3>2. SameBut(c)
      BY <1>4, <2>1, <2>3, <3>1, EdgeSame
    <3>3. conn'[c] \in Conn_t /\ conn'[c].edge
      BY <2>1, <2>3 DEF Conn_t
    <3> QED BY <3>2, <3>3
  <2> QED BY <1>5, <2>2, <2>3
<1>7. TypeOK'
  <2>1. conn' \in [Conn -> Conn_t] /\ peer' \in [Peer -> Client_t]
    BY <1>1, <1>2, <1>6
  <2> QED BY <1>1, <1>2, <2>1 DEF TypeOK, tasks, disk
<1>8. RoomInv'
  BY <1>1, <1>3 DEF RoomInv
<1>9. OwnInv'
  <2>1. /\ pool' = pool /\ freeq' = freeq /\ fdt' = fdt /\ bad' = bad /\ fio' = fio /\ posted' = posted
    BY <1>2 DEF tasks
  <2>2. \A x \in Peer : peer'[x].cut = peer[x].cut
    BY <1>3
  <2> QED BY <1>6, <1>7, <1>8, <2>1, <2>2, QuietOwn
<1> QED BY <1>2, <1>3, <1>6, <1>9 DEF Edges

\* The records that the moves of a client make of q.
LEMMA AskedClient ==
  ASSUME NEW q \in Client_t, NEW op \in {None, "write", "read", "junk"}
  PROVE  LET s == [q EXCEPT !.pc = "asked", !.op = op, !.rx = 1]
         IN  s \in Client_t /\ s.pc = "asked" /\ s.op = op /\ s.rx = 1 /\ s.sent = q.sent
             /\ s.out = q.out /\ s.taken = q.taken /\ s.cut = q.cut
BY DEF Client_t

LEMMA MovedClient ==
  ASSUME NEW q \in Client_t
  PROVE  /\ LET s == [q EXCEPT !.pc = "open"]
            IN  s \in Client_t /\ s.pc = "open" /\ s.op = q.op /\ s.rx = q.rx /\ s.sent = q.sent
                /\ s.out = q.out /\ s.taken = q.taken /\ s.cut = q.cut
         /\ LET s == [q EXCEPT !.sent = @ + 1, !.rx = @ + 1]
            IN  s \in Client_t /\ s.pc = q.pc /\ s.op = q.op /\ s.rx = q.rx + 1 /\ s.sent = q.sent + 1
                /\ s.out = q.out /\ s.taken = q.taken /\ s.cut = q.cut
         /\ LET s == [q EXCEPT !.taken = @ + 1]
            IN  s \in Client_t /\ s.pc = q.pc /\ s.op = q.op /\ s.rx = q.rx /\ s.sent = q.sent
                /\ s.out = q.out /\ s.taken = q.taken + 1 /\ s.cut = q.cut
         /\ LET s == [q EXCEPT !.pc = "left", !.taken = 0]
            IN  s \in Client_t /\ s.pc = "left" /\ s.op = q.op /\ s.rx = q.rx /\ s.sent = q.sent
                /\ s.out = q.out /\ s.cut = q.cut
<1>1. LET s == [q EXCEPT !.pc = "open"]
      IN  s \in Client_t /\ s.pc = "open" /\ s.op = q.op /\ s.rx = q.rx /\ s.sent = q.sent
          /\ s.out = q.out /\ s.taken = q.taken /\ s.cut = q.cut
  BY DEF Client_t
<1>a. q.sent + 1 \in Nat /\ q.rx + 1 \in Nat /\ q.taken + 1 \in Nat
  BY DEF Client_t
<1>2. LET s == [q EXCEPT !.sent = @ + 1, !.rx = @ + 1]
      IN  s \in Client_t /\ s.pc = q.pc /\ s.op = q.op /\ s.rx = q.rx + 1 /\ s.sent = q.sent + 1
          /\ s.out = q.out /\ s.taken = q.taken /\ s.cut = q.cut
  <2>1. PICK n, m \in Nat : n = q.sent + 1 /\ m = q.rx + 1
    BY <1>a
  <2> DEFINE s == [q EXCEPT !.sent = n, !.rx = m]
  <2>2. s \in Client_t /\ s.pc = q.pc /\ s.op = q.op /\ s.rx = m /\ s.sent = n
        /\ s.out = q.out /\ s.taken = q.taken /\ s.cut = q.cut
    BY DEF Client_t
  <2>3. s = [q EXCEPT !.sent = @ + 1, !.rx = @ + 1]
    BY <2>1
  <2> HIDE DEF s
  <2> QED BY <2>1, <2>2, <2>3
<1>3. LET s == [q EXCEPT !.taken = @ + 1]
      IN  s \in Client_t /\ s.pc = q.pc /\ s.op = q.op /\ s.rx = q.rx /\ s.sent = q.sent
          /\ s.out = q.out /\ s.taken = q.taken + 1 /\ s.cut = q.cut
  <2>1. PICK n \in Nat : n = q.taken + 1
    BY <1>a
  <2> DEFINE s == [q EXCEPT !.taken = n]
  <2>2. s \in Client_t /\ s.pc = q.pc /\ s.op = q.op /\ s.rx = q.rx /\ s.sent = q.sent
        /\ s.out = q.out /\ s.taken = n /\ s.cut = q.cut
    BY DEF Client_t
  <2>3. s = [q EXCEPT !.taken = @ + 1]
    BY <2>1
  <2> HIDE DEF s
  <2> QED BY <2>1, <2>2, <2>3
<1>4. LET s == [q EXCEPT !.pc = "left", !.taken = 0]
      IN  s \in Client_t /\ s.pc = "left" /\ s.op = q.op /\ s.rx = q.rx /\ s.sent = q.sent
          /\ s.out = q.out /\ s.cut = q.cut
  BY DEF Client_t
<1> QED BY <1>1, <1>2, <1>3, <1>4

LEMMA ClientStep ==
  ASSUME OwnInv, bad = None, NEW p \in Peer, Client(p) \/ Leave(p)
  PROVE  OwnInv' /\ Moves(p)
<1>1. PICK q \in Client_t : q = peer[p]
  BY DEF OwnInv, TypeOK
<1>2. Fits(q) /\ q.taken \in Nat /\ Len(q.out) \in Nat
  <2>1. q.taken \in Nat /\ Len(q.out) \in Nat
    BY DEF Client_t
  <2> QED BY <1>1, <2>1 DEF OwnInv, RoomInv
<1>3. CASE Connect(p)
  <2> DEFINE s == [q EXCEPT !.pc = "open"]
  <2>1. /\ s \in Client_t /\ s.pc = "open" /\ s.op = q.op /\ s.rx = q.rx /\ s.sent = q.sent
        /\ s.out = q.out /\ s.taken = q.taken /\ s.cut = q.cut
    BY MovedClient
  <2>2. q.pc = "new" /\ Move(p, s, {})
    BY <1>1, <1>3 DEF Connect
  <2> HIDE DEF s
  <2>3. Fits(s)
    BY <1>2, <2>1, <2>2 DEF Fits
  <2>4. /\ OwnInv' /\ ~Gone(p) /\ ~peer[p].cut /\ peer'[p] = s
        /\ \A x \in Peer \ {p} : peer'[x] = peer[x]
        /\ \A c \in Conn : SameBut(c) /\ (conn[c].edge => conn'[c].edge)
        /\ UNCHANGED <<pool, fdt, tasks, disk, posted, bad, cause>>
    BY <1>1, <2>1, <2>2, <2>3, MoveOwn
  <2> QED BY <1>1, <2>1, <2>2, <2>4 DEF Moves, Gone
<1>4. CASE SendHeader(p)
  <2>0. PICK op \in Ops[p] : Move(p, [peer[p] EXCEPT !.pc = "asked", !.op = op, !.rx = 1], {"in"})
    BY <1>4 DEF SendHeader
  <2>a. op \in {None, "write", "read", "junk"}
    BY DnRequestAssumption
  <2> DEFINE s == [q EXCEPT !.pc = "asked", !.op = op, !.rx = 1]
  <2>1. /\ s \in Client_t /\ s.pc = "asked" /\ s.op = op /\ s.rx = 1 /\ s.sent = q.sent
        /\ s.out = q.out /\ s.taken = q.taken /\ s.cut = q.cut
    BY <2>a, AskedClient
  <2>2. q.pc = "open" /\ Move(p, s, {"in"})
    BY <1>1, <1>4, <2>0 DEF SendHeader
  <2> HIDE DEF s
  <2>3. Fits(s)
    BY <1>2, <2>1, <2>2 DEF Fits
  <2>4. /\ OwnInv' /\ ~Gone(p) /\ ~peer[p].cut /\ peer'[p] = s
        /\ \A x \in Peer \ {p} : peer'[x] = peer[x]
        /\ \A c \in Conn : SameBut(c) /\ (conn[c].edge => conn'[c].edge)
        /\ \A e \in {"in"} : Edges(p, e)
        /\ UNCHANGED <<pool, fdt, tasks, disk, posted, bad, cause>>
    BY <1>1, <2>1, <2>2, <2>3, MoveOwn
  <2> QED BY <1>1, <2>1, <2>2, <2>4 DEF Moves, Gone
<1>5. CASE SendPiece(p)
  <2> DEFINE s == [q EXCEPT !.sent = @ + 1, !.rx = @ + 1]
  <2>1. /\ s \in Client_t /\ s.pc = q.pc /\ s.op = q.op /\ s.rx = q.rx + 1 /\ s.sent = q.sent + 1
        /\ s.out = q.out /\ s.taken = q.taken /\ s.cut = q.cut
    BY MovedClient
  <2>2. q.op = "write" /\ q.taken = 1 /\ q.sent < Size[Blk[p]] /\ Move(p, s, {"in"})
    BY <1>1, <1>5 DEF SendPiece
  <2> HIDE DEF s
  <2>3. Fits(s)
    BY <1>2, <2>1, <2>2 DEF Fits
  <2>4. /\ OwnInv' /\ ~Gone(p) /\ ~peer[p].cut /\ peer'[p] = s
        /\ \A x \in Peer \ {p} : peer'[x] = peer[x]
        /\ \A c \in Conn : SameBut(c) /\ (conn[c].edge => conn'[c].edge)
        /\ \A e \in {"in"} : Edges(p, e)
        /\ UNCHANGED <<pool, fdt, tasks, disk, posted, bad, cause>>
    BY <1>1, <2>1, <2>2, <2>3, MoveOwn
  <2> QED BY <1>1, <2>1, <2>2, <2>4 DEF Moves, Gone
<1>6. CASE Receive(p)
  <2> DEFINE s == [q EXCEPT !.taken = @ + 1]
             E == IF Room(p) = 0 THEN {"out"} ELSE {}
  <2>1. /\ s \in Client_t /\ s.pc = q.pc /\ s.op = q.op /\ s.rx = q.rx /\ s.sent = q.sent
        /\ s.out = q.out /\ s.taken = q.taken + 1 /\ s.cut = q.cut
    BY MovedClient
  <2>2. q.taken < Len(q.out) /\ Move(p, s, E)
    BY <1>1, <1>6 DEF Receive
  <2> HIDE DEF s
  <2>3. Fits(s)
    <3> DEFINE n == Len(q.out)
    <3>1. n \in Nat /\ q.taken \in Nat /\ q.taken < n /\ TxCap \in Nat
      BY <1>2, <2>2, DnRequestAssumption
    <3>2. q.pc # "left" => n - q.taken <= TxCap
      BY <1>2 DEF Fits
    <3>3. s.taken = q.taken + 1 /\ Len(s.out) = n /\ s.pc = q.pc
      BY <2>1
    <3> HIDE DEF n
    <3>4. s.pc # "left" => s.taken <= n /\ n - s.taken <= TxCap
      BY <3>1, <3>2, <3>3
    <3> QED BY <3>3, <3>4 DEF Fits
  <2>4. /\ OwnInv' /\ ~Gone(p) /\ ~peer[p].cut /\ peer'[p] = s
        /\ \A x \in Peer \ {p} : peer'[x] = peer[x]
        /\ \A c \in Conn : SameBut(c) /\ (conn[c].edge => conn'[c].edge)
        /\ \A e \in E : Edges(p, e)
        /\ UNCHANGED <<pool, fdt, tasks, disk, posted, bad, cause>>
    <3> HIDE DEF E
    <3> QED BY <1>1, <2>1, <2>2, <2>3, MoveOwn
  <2>5. Room(p) = 0 => Edges(p, "out")
    BY <2>4
  <2> QED BY <1>1, <2>1, <2>2, <2>4, <2>5 DEF Moves, Gone
<1>7. CASE Leave(p)
  <2> DEFINE s == [q EXCEPT !.pc = "left", !.taken = 0]
  <2>1. /\ s \in Client_t /\ s.pc = "left" /\ s.op = q.op /\ s.rx = q.rx /\ s.sent = q.sent
        /\ s.out = q.out /\ s.cut = q.cut
    BY MovedClient
  <2>2. q.pc # "new" /\ Move(p, s, {"in", "out"})
    BY <1>1, <1>7 DEF Leave
  <2> HIDE DEF s
  <2>3. Fits(s)
    BY <2>1 DEF Fits
  <2>4. /\ OwnInv' /\ ~Gone(p) /\ ~peer[p].cut /\ peer'[p] = s
        /\ \A x \in Peer \ {p} : peer'[x] = peer[x]
        /\ \A c \in Conn : SameBut(c) /\ (conn[c].edge => conn'[c].edge)
        /\ UNCHANGED <<pool, fdt, tasks, disk, posted, bad, cause>>
    BY <1>1, <2>1, <2>2, <2>3, MoveOwn
  <2> QED BY <1>1, <2>1, <2>2, <2>4 DEF Moves, Gone
<1> QED BY <1>3, <1>4, <1>5, <1>6, <1>7 DEF Client

\* The events that are reported for connection c.
Reported(c) ==
  LET r == conn[c]  p == r.peer
  IN  /\ p \in Peer /\ Calm /\ r # Unused /\ ~conn'[c].edge
      /\ \A d \in Conn : SameBut(d) /\ (d # c => conn'[d] = conn[d] /\ posted'[d] = posted[d])
      /\ "in" \in r.sub /\ r.ract /\ (peer[p].rx > 0 \/ Gone(p)) => "in" \in posted'[c]
      /\ "out" \in r.sub /\ r.wact /\ (Room(p) > 0 \/ Gone(p)) => "out" \in posted'[c]
      /\ UNCHANGED <<peer, pool, fdt, tasks, disk, bad, cause>>

LEMMA EpollStep ==
  ASSUME OwnInv, bad = None, NEW c \in Conn, epoll_process_events(c)
  PROVE  OwnInv' /\ Reported(c)
<1> DEFINE r == conn[c]
           ready == {e \in r.sub : IF e = "in" THEN peer[r.peer].rx > 0 \/ Gone(r.peer)
                                   ELSE Room(r.peer) > 0 \/ Gone(r.peer)}
           post == {e \in ready : IF e = "in" THEN r.ract ELSE r.wact}
<1>1. /\ Calm /\ r.edge /\ conn' = [conn EXCEPT ![c].edge = FALSE]
      /\ posted' = [posted EXCEPT ![c] = post]
      /\ UNCHANGED <<peer, pool, fdt, tasks, disk, bad, cause>>
  BY DEF epoll_process_events
<1>2. TypeOK /\ RoomInv /\ conn \in [Conn -> Conn_t] /\ posted \in [Conn -> SUBSET {"in", "out"}]
  BY DEF OwnInv, TypeOK
<1>3. r # Unused /\ r.peer \in Peer /\ r.peer # None /\ r.sub \in SUBSET {"in", "out"}
  <2>1. r # Unused
    BY <1>1 DEF Unused
  <2> QED BY <1>2, <2>1, InUse DEF Conn_t
<1>4. /\ conn'[c] = [r EXCEPT !.edge = FALSE] /\ \A d \in Conn \ {c} : conn'[d] = conn[d]
      /\ posted'[c] = post /\ \A d \in Conn \ {c} : posted'[d] = posted[d]
  BY <1>1, <1>2
<1>5. conn'[c] \in Conn_t /\ ~conn'[c].edge
  BY <1>2, <1>4 DEF Conn_t
<1>6. SameBut(c)
  BY <1>2, <1>3, <1>4, EdgeSame
<1>7. \A d \in Conn : SameBut(d)
  BY <1>4, <1>6 DEF SameBut
<1>8. post \in SUBSET {"in", "out"}
  BY <1>3
<1>9. /\ "in" \in r.sub /\ r.ract /\ (peer[r.peer].rx > 0 \/ Gone(r.peer)) => "in" \in post
      /\ "out" \in r.sub /\ r.wact /\ (Room(r.peer) > 0 \/ Gone(r.peer)) => "out" \in post
  OBVIOUS
<1> HIDE DEF post, ready
<1>10. TypeOK'
  <2>1. conn' \in [Conn -> Conn_t] /\ posted' \in [Conn -> SUBSET {"in", "out"}]
    BY <1>1, <1>2, <1>5, <1>8
  <2> QED BY <1>1, <1>2, <2>1 DEF TypeOK, tasks, disk
<1>11. RoomInv'
  BY <1>1, <1>2 DEF RoomInv
<1>12. \A d \in Conn : posted'[d] # {} => posted[d] # {} \/ conn[d] # Unused
  BY <1>3, <1>4
<1>13. OwnInv'
  <2>1. pool' = pool /\ freeq' = freeq /\ fdt' = fdt /\ bad' = bad /\ fio' = fio /\ peer' = peer
    BY <1>1 DEF tasks
  <2> QED BY <1>7, <1>10, <1>11, <1>12, <2>1, QuietOwn
<1> QED BY <1>1, <1>3, <1>4, <1>5, <1>7, <1>9, <1>13 DEF Reported

\* The socket of client p is closed at once, or becomes connection c.
TurnsAway(p) ==
  /\ peer[p].pc # "new" /\ \A c \in Conn : conn[c].peer # p
  /\ peer'[p] = [peer[p] EXCEPT !.cut = TRUE] /\ \A x \in Peer \ {p} : peer'[x] = peer[x]
  /\ UNCHANGED <<conn, pool, fdt, tasks, disk, posted, bad, cause>>
Accepts(p, c) ==
  /\ peer[p].pc # "new" /\ \A d \in Conn : conn[d].peer # p
  /\ conn[c] = Unused /\ Waiting(conn'[c]) /\ conn'[c].peer = p /\ conn'[c].edge
  /\ \A d \in Conn \ {c} : conn'[d] = conn[d]
  /\ \A d \in Conn : conn[d].store # 0 => fdt'[conn[d].store] = fdt[conn[d].store]
  /\ UNCHANGED <<peer, tasks, disk, posted, bad, cause>>

LEMMA NewConn ==
  ASSUME NEW p \in Peer, NewFd \in Fd, 0 \notin Fd
  PROVE  LET s == dn_conn_init(p)
         IN  /\ s \in Conn_t /\ s.fd = NewFd /\ s.peer = p /\ s.store = 0 /\ s.fio = None
             /\ s.edge /\ Waiting(s) /\ s # Unused
<1>1. PICK u \in Conn_t : u = Unused
  BY DEF Conn_t, Unused, None
<1>2. /\ u.wh = None /\ u.wtimer = FALSE /\ u.etimer = FALSE /\ u.store = 0 /\ u.fio = None
      /\ u.done = 0 /\ u.rh = None
  BY <1>1 DEF Unused
<1>3. PICK d \in Fd : d = NewFd
  OBVIOUS
<1> DEFINE s == [u EXCEPT !.fd = d, !.peer = p, !.rh = "header", !.sub = {"in"}, !.edge = TRUE,
                          !.ract = TRUE]
<1>4. /\ s \in Conn_t /\ s.fd = d /\ s.peer = p /\ s.rh = "header" /\ s.sub = {"in"} /\ s.edge /\ s.ract
      /\ s.wh = u.wh /\ s.wtimer = u.wtimer /\ s.etimer = u.etimer /\ s.store = u.store
      /\ s.fio = u.fio /\ s.done = u.done
  BY DEF Conn_t
<1>5. dn_conn_init(p) = s
  BY <1>1, <1>3 DEF dn_conn_init
<1> HIDE DEF s
<1>6. s # Unused
  BY <1>1, <1>2, <1>4 DEF None
<1> QED BY <1>2, <1>3, <1>4, <1>5, <1>6 DEF Waiting

LEMMA TurnedAway ==
  ASSUME OwnInv, bad = None, NEW p \in Peer, listen_rev_handler(p), pool = <<>>
  PROVE  OwnInv' /\ TurnsAway(p)
<1>1. /\ peer[p].pc # "new" /\ ~peer[p].cut /\ \A c \in Conn : conn[c].peer # p
      /\ peer' = [peer EXCEPT ![p].cut = TRUE]
      /\ UNCHANGED <<conn, pool, fdt, tasks, disk, posted, bad, cause>>
  BY DEF listen_rev_handler
<1>2. TypeOK /\ RoomInv /\ peer \in [Peer -> Client_t]
  BY DEF OwnInv, TypeOK
<1>3. peer'[p] = [peer[p] EXCEPT !.cut = TRUE] /\ \A x \in Peer \ {p} : peer'[x] = peer[x]
  BY <1>1, <1>2
<1>4. peer'[p] \in Client_t /\ peer'[p].pc = peer[p].pc /\ peer'[p].out = peer[p].out /\ peer'[p].taken = peer[p].taken
  <2>1. PICK q \in Client_t : q = peer[p]
    BY <1>2
  <2>2. LET a == [q EXCEPT !.cut = TRUE]
        IN  a \in Client_t /\ a.pc = q.pc /\ a.out = q.out /\ a.taken = q.taken
    BY DEF Client_t
  <2> QED BY <1>3, <2>1, <2>2
<1>5. TypeOK'
  <2>1. peer' \in [Peer -> Client_t]
    BY <1>1, <1>2, <1>4
  <2> QED BY <1>1, <1>2, <2>1 DEF TypeOK, tasks, disk
<1>6. RoomInv'
  BY <1>2, <1>3, <1>4 DEF RoomInv, Fits
<1>7. conn' = conn /\ pool' = pool /\ fdt' = fdt /\ fio' = fio /\ freeq' = freeq /\ posted' = posted
  BY <1>1 DEF tasks
<1>8. PoolInv' /\ Busy' /\ FdInv' /\ Owned(Tasks, fio, freeq)' /\ \A c \in Conn : Shape(conn'[c])
  <2>1. PoolInv /\ Busy /\ FdInv /\ Owned(Tasks, fio, freeq) /\ \A c \in Conn : Shape(conn[c])
    BY DEF OwnInv
  <2>2. PoolInv' /\ Busy' /\ FdInv'
    BY <1>7, <2>1 DEF PoolInv, Busy, FdInv
  <2>3. Owned(Tasks, fio, freeq)'
    BY <1>7, <2>1 DEF Owned, Tasks
  <2> QED BY <1>7, <2>1, <2>2, <2>3
<1>9. PeerInv'
  <2>1. PeerInv
    BY DEF OwnInv
  <2>2. ASSUME NEW c \in Conn, conn[c].peer # None PROVE ~peer'[conn[c].peer].cut
    <3>1. conn[c].peer \in Peer \ {p}
      BY <1>1, <1>2, <2>2 DEF TypeOK, Conn_t
    <3> QED BY <1>3, <2>1, <2>2, <3>1 DEF PeerInv
  <2> QED BY <1>7, <2>1, <2>2 DEF PeerInv
<1> QED BY <1>1, <1>3, <1>5, <1>6, <1>8, <1>9 DEF OwnInv, TurnsAway

LEMMA TakenIn ==
  ASSUME OwnInv, bad = None, NEW p \in Peer, listen_rev_handler(p), pool # <<>>
  PROVE  OwnInv' /\ \E c \in Conn : Accepts(p, c)
<1> DEFINE c == Head(pool)
           d == NewFd
           s == dn_conn_init(p)
<1>1. /\ Calm /\ peer[p].pc # "new" /\ ~peer[p].cut /\ \A e \in Conn : conn[e].peer # p
      /\ conn' = [conn EXCEPT ![c] = s] /\ pool' = Tail(pool)
      /\ fdt' = [fdt EXCEPT ![d] = <<"sock", p>>]
      /\ UNCHANGED <<peer, tasks, disk, posted, bad, cause>>
  BY DEF listen_rev_handler
<1>2. TypeOK /\ RoomInv /\ PoolInv /\ Owned(Tasks, fio, freeq) /\ Busy /\ FdInv /\ PeerInv
  BY DEF OwnInv
<1>3. /\ c \in Conn /\ conn[c] = Unused /\ IsInjective(Tail(pool)) /\ Tail(pool) \in Seq(Conn)
      /\ ToSet(Tail(pool)) = ToSet(pool) \ {c}
  <2>1. pool \in Seq(Conn) /\ IsInjective(pool) /\ ToSet(pool) = {e \in Conn : conn[e] = Unused}
    BY <1>2 DEF TypeOK, PoolInv
  <2>2. ToSet(pool) = Range(pool) /\ ToSet(Tail(pool)) = Range(Tail(pool))
    BY ToSetRange
  <2>3. /\ c \in Range(pool) /\ Tail(pool) \in Seq(Conn) /\ Range(Tail(pool)) = Range(pool) \ {c}
        /\ IsInjective(Tail(pool))
    BY <2>1, TailRange
  <2> HIDE DEF c
  <2> QED BY <2>1, <2>2, <2>3
<1> HIDE DEF c
<1>a. Unused.fd = 0 /\ Unused.store = 0 /\ Unused.peer = None /\ Unused.fio = None
  BY DEF Unused
<1>4. d \in Fd /\ fdt[d] = <<>> /\ 0 \notin Fd
  BY <1>3, <1>a, FreshFd
<1>5. /\ s \in Conn_t /\ s.fd = d /\ s.peer = p /\ s.store = 0 /\ s.fio = None
      /\ s.edge /\ Waiting(s) /\ s # Unused
  BY <1>4, NewConn
<1> HIDE DEF d, s
<1>6. /\ conn'[c] = s /\ \A e \in Conn \ {c} : conn'[e] = conn[e]
      /\ fdt'[d] = <<"sock", p>> /\ \A x \in Fd \ {d} : fdt'[x] = fdt[x]
  <2>1. conn \in [Conn -> Conn_t] /\ fdt \in [Fd -> {<<>>} \cup ({"sock"} \X Peer) \cup ({"file"} \X (Peer \cup Block))]
    BY <1>2 DEF TypeOK
  <2> QED BY <1>1, <1>3, <1>4, <2>1
<1>7. \A e \in Conn : (conn[e].fd # 0 => conn[e].fd \in Fd /\ conn[e].fd # d)
                    /\ (conn[e].store # 0 => conn[e].store \in Fd /\ conn[e].store # d)
  <2> SUFFICES ASSUME NEW e \in Conn
               PROVE  (conn[e].fd # 0 => conn[e].fd \in Fd /\ conn[e].fd # d)
                    /\ (conn[e].store # 0 => conn[e].store \in Fd /\ conn[e].store # d)
    OBVIOUS
  <2>1. conn[e].fd \in Fd \cup {0} /\ conn[e].store \in Fd \cup {0}
    BY <1>2 DEF TypeOK, Conn_t
  <2>2. ASSUME conn[e].fd # 0 PROVE fdt[conn[e].fd] # <<>>
    <3>1. fdt[conn[e].fd] = <<"sock", conn[e].peer>>
      BY <1>2, <2>2 DEF FdInv
    <3> QED BY <3>1
  <2>3. ASSUME conn[e].store # 0 PROVE fdt[conn[e].store] # <<>>
    <3>1. PICK j \in Peer \cup Block : fdt[conn[e].store] = <<"file", j>>
      BY <1>2, <2>3 DEF FdInv
    <3> QED BY <3>1
  <2> QED BY <1>4, <2>1, <2>2, <2>3
<1>8. TypeOK'
  <2>1. conn' \in [Conn -> Conn_t]
    BY <1>1, <1>2, <1>3, <1>5 DEF TypeOK
  <2>2. fdt' \in [Fd -> {<<>>} \cup ({"sock"} \X Peer) \cup ({"file"} \X (Peer \cup Block))]
    BY <1>1, <1>2 DEF TypeOK
  <2> QED BY <1>1, <1>2, <1>3, <2>1, <2>2 DEF TypeOK, tasks, disk
<1>9. RoomInv' /\ fio' = fio /\ freeq' = freeq /\ peer' = peer /\ posted' = posted
  BY <1>1, <1>2 DEF RoomInv, tasks
<1>10. p # None
  BY DnRequestAssumption DEF None
<1>11. \A e \in Conn : Shape(conn'[e])
  <2>1. Shape(s)
    BY <1>4, <1>5, <1>10 DEF Shape
  <2>2. \A e \in Conn : Shape(conn[e])
    BY DEF OwnInv
  <2> QED BY <1>6, <2>1, <2>2
<1>12. PoolInv'
  BY <1>1, <1>2, <1>3, <1>5, <1>6 DEF PoolInv
<1>13. Owned(Tasks, fio, freeq)' /\ Busy'
  <2>1. \A e \in Conn : conn'[e].fio = conn[e].fio
    BY <1>3, <1>5, <1>6, <1>a
  <2>2. Tasks' = Tasks
    BY <2>1 DEF Tasks
  <2> QED BY <1>2, <1>9, <2>1, <2>2 DEF Owned, Busy
<1>14. FdInv'
  <2>1. \A e \in Conn : conn'[e].fd # 0 => fdt'[conn'[e].fd] = <<"sock", conn'[e].peer>>
    BY <1>2, <1>5, <1>6, <1>7 DEF FdInv
  <2>2. \A e \in Conn : conn'[e].store = conn[e].store
    BY <1>3, <1>5, <1>6, <1>a
  <2>3. \A e \in Conn : conn'[e].store # 0 =>
          \E j \in Peer \cup Block : fdt'[conn'[e].store] = <<"file", j>>
    <3> SUFFICES ASSUME NEW e \in Conn, conn[e].store # 0
                 PROVE  \E j \in Peer \cup Block : fdt'[conn[e].store] = <<"file", j>>
      BY <2>2
    <3>1. fdt'[conn[e].store] = fdt[conn[e].store]
      BY <1>6, <1>7
    <3> QED BY <1>2, <3>1 DEF FdInv
  <2>4. \A x \in Fd : fdt'[x] # <<>> => \E e \in Conn : conn'[e].fd = x \/ conn'[e].store = x
    <3> SUFFICES ASSUME NEW x \in Fd, fdt'[x] # <<>>
                 PROVE  \E e \in Conn : conn'[e].fd = x \/ conn'[e].store = x
      OBVIOUS
    <3>1. CASE x = d
      BY <1>3, <1>5, <1>6, <3>1
    <3>2. CASE x # d
      <4>1. PICK e \in Conn : conn[e].fd = x \/ conn[e].store = x
        BY <1>2, <1>6, <3>2 DEF FdInv
      <4>2. x # 0
        BY <1>4
      <4> QED BY <1>3, <1>a, <1>6, <4>1, <4>2
    <3> QED BY <3>1, <3>2
  <2>5. \A e, g \in Conn : conn'[e].store = conn'[g].store /\ conn'[e].store # 0 => e = g
    <3>1. \A e, g \in Conn : conn[e].store = conn[g].store /\ conn[e].store # 0 => e = g
      BY <1>2 DEF FdInv
    <3> QED BY <2>2, <3>1
  <2> QED BY <2>1, <2>3, <2>4, <2>5 DEF FdInv
<1>15. PeerInv'
  <2>1. \A e, g \in Conn : conn'[e].peer = conn'[g].peer /\ conn'[e].peer # None => e = g
    BY <1>1, <1>2, <1>5, <1>6 DEF PeerInv
  <2>2. \A e \in Conn : conn'[e].peer # None => ~peer'[conn'[e].peer].cut
    BY <1>1, <1>2, <1>5, <1>6, <1>9 DEF PeerInv
  <2>3. \A e \in Conn : posted'[e] # {} => conn'[e].peer # None
    BY <1>1 DEF Calm
  <2> QED BY <2>1, <2>2, <2>3 DEF PeerInv
<1>16. OwnInv'
  BY <1>8, <1>9, <1>11, <1>12, <1>13, <1>14, <1>15 DEF OwnInv
<1>17. \A e \in Conn : conn[e].store # 0 => fdt'[conn[e].store] = fdt[conn[e].store]
  BY <1>6, <1>7
<1>18. Accepts(p, c)
  BY <1>1, <1>3, <1>5, <1>6, <1>17 DEF Accepts
<1> QED BY <1>3, <1>16, <1>18

\* The connection of a task that a worker has, or has posted.
LEMMA TaskConn ==
  ASSUME OwnInv, bad = None, NEW f \in Fio, fio[f].io # "own"
  PROVE  LET c == fio[f].conn
         IN  c \in Conn /\ conn[c].fio = f /\ Working(conn[c]) /\ conn[c] # Unused /\ conn[c].peer \in Peer
<1> DEFINE c == fio[f].conn
<1>1. c \in Conn /\ Tasks[c] = f
  BY DEF OwnInv, Owned
<1>2. conn[c].fio = f /\ f # None
  BY <1>1, DnRequestAssumption DEF Tasks, None
<1>3. conn[c] # Unused
  BY <1>2 DEF Unused
<1>4. conn[c].peer \in Peer /\ (Waiting(conn[c]) \/ Opening(conn[c]) \/ Working(conn[c]))
  BY <1>1, <1>3, InUse
<1> QED BY <1>1, <1>2, <1>3, <1>4 DEF Waiting, Opening

\* What both workers leave of their task.
SameTask(f) ==
  LET t == fio[f]  s == fio'[f]
  IN  /\ t.io = "pending" /\ s.io \in {"pending", "done"} /\ s.st = t.st /\ s.conn = t.conn /\ s.fd = t.fd
      /\ s.sf = t.sf
      /\ \A g \in Fio \ {f} : fio'[g] = fio[g]
      /\ UNCHANGED <<conn, pool, fdt, freeq, tmp, file, index, posted, bad>>

Wrote(f) ==
  LET t == fio[f]  s == fio'[f]  i == fdt[t.fd][2]
  IN  /\ SameTask(f) /\ peer[conn[t.conn].peer].op = "write" /\ UNCHANGED peer
      /\ s.io = "done" /\ s.off = t.off /\ s.need = t.need /\ cause \subseteq cause'
      /\ \/ s.ret = t.need /\ data' = [data EXCEPT ![i] = @ \cup (t.off + 1 .. t.off + t.need)]
         \/ s.ret = ERROR /\ UNCHANGED data

\* n pieces of file j, from the offset of the task, go to client p.
Sent(f) ==
  LET t == fio[f]  s == fio'[f]
  IN  /\ SameTask(f) /\ peer[conn[t.conn].peer].op = "read" /\ UNCHANGED <<data, cause>>
      /\ \/ /\ UNCHANGED peer /\ s.io = "done" /\ s.off = t.off /\ s.need = t.need
            /\ s.ret \in {EAGAIN, ERROR} \/ t.need = 0
         \/ \E p \in Peer, j \in Peer \cup Block, n \in Nat :
              /\ t.sf[1] # 0 /\ t.sf[2] # 0 /\ fdt[t.sf[1]] = <<"sock", p>> /\ fdt[t.sf[2]] = <<"file", j>>
              /\ peer'[p] = [peer[p] EXCEPT !.out = @ \o [k \in 1 .. n |-> <<BlockOf(j), t.off + k>>]]
              /\ peer[p].pc # "left" /\ n <= Room(p)
              /\ \A x \in Peer \ {p} : peer'[x] = peer[x]
              /\ n > 0 /\ n <= t.need /\ s.off = t.off + n /\ s.need = t.need - n
              /\ s.io = "done" => s.need = 0

\* A task that is posted.
LEMMA FioPost ==
  ASSUME NEW t \in Fio_t, NEW n \in Int
  PROVE  LET s == [t EXCEPT !.io = "done", !.ret = n]
         IN  /\ s \in Fio_t /\ s.io = "done" /\ s.ret = n /\ s.st = t.st /\ s.conn = t.conn
             /\ s.fd = t.fd /\ s.off = t.off /\ s.need = t.need /\ s.sf = t.sf
BY DEF Fio_t

LEMMA PostTask ==
  ASSUME TypeOK, NEW f \in Fio, NEW n \in Int, Post(f, n)
  PROVE  LET s == fio'[f]  t == fio[f]
         IN  /\ s.io = "done" /\ s.ret = n /\ s.st = t.st /\ s.conn = t.conn
             /\ s.fd = t.fd /\ s.off = t.off /\ s.need = t.need /\ s.sf = t.sf
             /\ fio' \in [Fio -> Fio_t] /\ \A g \in Fio \ {f} : fio'[g] = fio[g]
<1>1. fio \in [Fio -> Fio_t] /\ fio' = [fio EXCEPT ![f].io = "done", ![f].ret = n]
  BY DEF TypeOK, Post
<1>2. PICK t \in Fio_t : t = fio[f]
  BY <1>1
<1> DEFINE s == [t EXCEPT !.io = "done", !.ret = n]
<1>3. fio' = [fio EXCEPT ![f] = s]
  BY <1>1, <1>2
<1>4. /\ s \in Fio_t /\ s.io = "done" /\ s.ret = n /\ s.st = t.st /\ s.conn = t.conn
      /\ s.fd = t.fd /\ s.off = t.off /\ s.need = t.need /\ s.sf = t.sf
  BY FioPost
<1> HIDE DEF s
<1>5. fio'[f] = s /\ fio' \in [Fio -> Fio_t] /\ \A g \in Fio \ {f} : fio'[g] = fio[g]
  BY <1>1, <1>3, <1>4
<1> QED BY <1>2, <1>4, <1>5

\* OwnInv after a worker's step.
LEMMA WorkerOwn ==
  ASSUME OwnInv, bad = None, NEW f \in Fio, SameTask(f), fio' \in [Fio -> Fio_t],
         peer' \in [Peer -> Client_t], RoomInv', \A p \in Peer : peer'[p].cut = peer[p].cut,
         data' \in [Peer \cup Block -> SUBSET Nat], cause' \subseteq {"starved", "slow", "failed", "stale"}
  PROVE  OwnInv'
<1>1. TypeOK
  BY DEF OwnInv
<1>2. TypeOK'
  BY <1>1 DEF TypeOK, SameTask
<1>3. \A c \in Conn : SameBut(c)
  BY DEF SameTask, SameBut
<1>4. \A g \in Fio : fio'[g].st = fio[g].st /\ fio'[g].conn = fio[g].conn
                        /\ (fio'[g].io = "own" <=> fio[g].io = "own")
  <2> SUFFICES ASSUME NEW g \in Fio PROVE fio'[g].st = fio[g].st /\ fio'[g].conn = fio[g].conn
                        /\ (fio'[g].io = "own" <=> fio[g].io = "own")
    OBVIOUS
  <2>1. CASE g = f
    BY <2>1 DEF SameTask
  <2>2. CASE g # f
    BY <2>2 DEF SameTask
  <2> QED BY <2>1, <2>2
<1>5. pool' = pool /\ freeq' = freeq /\ fdt' = fdt /\ bad' = bad /\ posted' = posted
  BY DEF SameTask
<1> QED BY <1>2, <1>3, <1>4, <1>5, QuietOwn

LEMMA WriteWorker ==
  ASSUME OwnInv, bad = None, NEW f \in Fio, cfs_faio_io_write(f)
  PROVE  OwnInv' /\ Wrote(f)
<1> DEFINE t == fio[f]
           i == fdt[t.fd][2]
           D == data[i] \cup (t.off + 1 .. t.off + t.need)
<1>1. /\ t.io = "pending" /\ peer[conn[t.conn].peer].op = "write"
      /\ \/ Post(f, t.need) /\ data' = [data EXCEPT ![i] = D] /\ cause' = cause
         \/ Post(f, ERROR) /\ cause' = cause \cup {"failed"} /\ data' = data
      /\ UNCHANGED <<peer, conn, pool, fdt, freeq, tmp, file, index, posted, bad>>
  BY DEF cfs_faio_io_write
<1>2. TypeOK /\ RoomInv /\ t \in Fio_t /\ t.need \in Nat /\ t.off \in Nat /\ ERROR \in Int
      /\ data \in [Peer \cup Block -> SUBSET Nat]
  BY DEF OwnInv, TypeOK, Fio_t, ERROR
<1>3. PICK n \in Int : Post(f, n) /\ (n = t.need \/ n = ERROR)
  BY <1>1, <1>2
<1>4. LET s == fio'[f]
      IN  /\ s.io = "done" /\ s.ret = n /\ s.st = t.st /\ s.conn = t.conn
          /\ s.fd = t.fd /\ s.off = t.off /\ s.need = t.need /\ s.sf = t.sf
          /\ fio' \in [Fio -> Fio_t] /\ \A g \in Fio \ {f} : fio'[g] = fio[g]
  BY <1>2, <1>3, PostTask
<1>5. SameTask(f)
  BY <1>1, <1>4 DEF SameTask
<1>6. data' \in [Peer \cup Block -> SUBSET Nat]
  <2>1. (t.off + 1 .. t.off + t.need) \in SUBSET Nat
    BY <1>2
  <2>2. i \in Peer \cup Block => D \in SUBSET Nat
    BY <1>2, <2>1
  <2> HIDE DEF D, i
  <2> QED BY <1>1, <1>2, <2>2
<1>7. cause' \subseteq {"starved", "slow", "failed", "stale"} /\ cause \subseteq cause'
  BY <1>1, <1>2 DEF TypeOK
<1>8. RoomInv' /\ peer' = peer /\ peer \in [Peer -> Client_t]
  BY <1>1, <1>2 DEF RoomInv, TypeOK
<1>9. OwnInv'
  BY <1>4, <1>5, <1>6, <1>7, <1>8, WorkerOwn
<1>10. \/ fio'[f].ret = t.need /\ data' = [data EXCEPT ![i] = D]
       \/ fio'[f].ret = ERROR /\ data' = data
  <2>1. CASE Post(f, t.need) /\ data' = [data EXCEPT ![i] = D]
    <3>1. fio'[f].ret = t.need
      BY <1>2, <2>1, PostTask
    <3> QED BY <2>1, <3>1
  <2>2. CASE Post(f, ERROR) /\ data' = data
    <3>1. fio'[f].ret = ERROR
      BY <1>2, <2>2, PostTask
    <3> QED BY <2>2, <3>1
  <2> QED BY <1>1, <2>1, <2>2
<1>11. [data EXCEPT ![i] = D] = [data EXCEPT ![i] = @ \cup (t.off + 1 .. t.off + t.need)]
  OBVIOUS
<1> QED BY <1>1, <1>4, <1>5, <1>7, <1>9, <1>10, <1>11 DEF Wrote

\* A task that has sent pieces, up to offset a with b to go.
FioOn(t, a, b) ==
  [t EXCEPT !.off = a, !.need = b, !.ret = 0, !.io = IF b = 0 THEN "done" ELSE "pending"]
LEMMA FioSent ==
  ASSUME NEW t \in Fio_t, NEW a \in Nat, NEW b \in Nat
  PROVE  LET s == FioOn(t, a, b)
         IN  /\ s \in Fio_t /\ s.io = (IF b = 0 THEN "done" ELSE "pending") /\ s.ret = 0
             /\ s.st = t.st /\ s.conn = t.conn /\ s.fd = t.fd /\ s.off = a /\ s.need = b /\ s.sf = t.sf
<1> DEFINE s == FioOn(t, a, b)
           e == IF b = 0 THEN "done" ELSE "pending"
<1>0. s = [t EXCEPT !.off = a, !.need = b, !.ret = 0, !.io = e] /\ e \in {"done", "pending"}
  BY DEF FioOn
<1> HIDE DEF s, e
<1>1. s = [st |-> t.st, io |-> e, conn |-> t.conn, fd |-> t.fd, off |-> a, need |-> b,
           ret |-> 0, sf |-> t.sf]
  BY <1>0 DEF Fio_t
<1>2. /\ s.io = e /\ s.ret = 0 /\ s.st = t.st /\ s.conn = t.conn
      /\ s.fd = t.fd /\ s.off = a /\ s.need = b /\ s.sf = t.sf
  BY <1>1
<1>3. s \in Fio_t
  BY <1>0, <1>1 DEF Fio_t
<1> QED BY <1>2, <1>3 DEF s, e

Pieces == (Block \cup {"header", "done"}) \X Nat

\* A client that is sent the pieces u.
LEMMA ClientSent ==
  ASSUME NEW q \in Client_t, NEW u \in Seq(Pieces)
  PROVE  LET s == [q EXCEPT !.out = @ \o u]
         IN  /\ s \in Client_t /\ s.pc = q.pc /\ s.op = q.op /\ s.rx = q.rx /\ s.sent = q.sent
             /\ s.out = q.out \o u /\ Len(s.out) = Len(q.out) + Len(u) /\ s.taken = q.taken /\ s.cut = q.cut
<1>1. q.out \in Seq(Pieces)
  BY DEF Client_t, Pieces
<1>2. PICK o \in Seq(Pieces) : o = q.out \o u /\ Len(o) = Len(q.out) + Len(u)
  BY <1>1, ConcatRange
<1> DEFINE s == [q EXCEPT !.out = o]
<1>3. /\ s \in Client_t /\ s.pc = q.pc /\ s.op = q.op /\ s.rx = q.rx /\ s.sent = q.sent
      /\ s.out = o /\ s.taken = q.taken /\ s.cut = q.cut
  BY DEF Client_t, Pieces
<1>4. [q EXCEPT !.out = @ \o u] = s
  BY <1>2
<1> HIDE DEF s
<1> QED BY <1>2, <1>3, <1>4

LEMMA SendWorker ==
  ASSUME OwnInv, OpInv, bad = None, NEW f \in Fio, cfs_faio_io_send_file(f)
  PROVE  OwnInv' /\ Sent(f)
<1> DEFINE t == fio[f]
           c == t.conn
           sock == IF t.sf[1] = 0 THEN <<>> ELSE fdt[t.sf[1]]
           src == IF t.sf[2] = 0 THEN <<>> ELSE fdt[t.sf[2]]
           p == sock[2]
           j == src[2]
           n == Min({Room(p), t.need})
           left == t.need - n
           u == [k \in 1 .. n |-> <<BlockOf(j), t.off + k>>]
           Sending == /\ sock # <<>> /\ src # <<>> /\ sock[1] = "sock" /\ src[1] = "file" /\ ~Gone(p)
                      /\ n # 0 /\ t.need # 0
                      /\ peer' = [peer EXCEPT ![p].out = @ \o u]
                      /\ fio' = [fio EXCEPT ![f].off = @ + n, ![f].need = left, ![f].ret = 0,
                                            ![f].io = IF left = 0 THEN "done" ELSE @]
<1>1. /\ t.io = "pending" /\ peer[conn[c].peer].op = "read"
      /\ \/ Post(f, 0) /\ t.need = 0 /\ UNCHANGED peer
         \/ Post(f, ERROR) /\ UNCHANGED peer
         \/ Post(f, EAGAIN) /\ UNCHANGED peer
         \/ Sending
      /\ UNCHANGED <<conn, pool, fdt, freeq, tmp, file, data, index, posted, bad, cause>>
  BY DEF cfs_faio_io_send_file, disk, BlockOf
<1>2. TypeOK /\ RoomInv /\ t \in Fio_t /\ t.need \in Nat /\ t.off \in Nat /\ ERROR \in Int /\ EAGAIN \in Int
      /\ fio \in [Fio -> Fio_t] /\ peer \in [Peer -> Client_t]
      /\ data \in [Peer \cup Block -> SUBSET Nat] /\ cause \subseteq {"starved", "slow", "failed", "stale"}
  BY DEF OwnInv, TypeOK, Fio_t, ERROR, EAGAIN
<1>3. ASSUME NEW m \in Int, Post(f, m), UNCHANGED peer, m \in {ERROR, EAGAIN} \/ t.need = 0
      PROVE  OwnInv' /\ Sent(f)
  <2>1. LET s == fio'[f]
        IN  /\ s.io = "done" /\ s.ret = m /\ s.st = t.st /\ s.conn = t.conn
            /\ s.fd = t.fd /\ s.off = t.off /\ s.need = t.need /\ s.sf = t.sf
            /\ fio' \in [Fio -> Fio_t] /\ \A g \in Fio \ {f} : fio'[g] = fio[g]
    BY <1>2, <1>3, PostTask
  <2>2. SameTask(f)
    BY <1>1, <2>1 DEF SameTask
  <2>3. RoomInv' /\ data' = data /\ cause' = cause
    BY <1>1, <1>2, <1>3 DEF RoomInv
  <2>4. OwnInv'
    BY <1>2, <1>3, <2>1, <2>2, <2>3, WorkerOwn
  <2> QED BY <1>1, <1>3, <2>1, <2>2, <2>3, <2>4 DEF Sent
<1>4. CASE Sending
  <2>1. t.sf \in (Fd \cup {0}) \X (Fd \cup {0})
    <3>1. c \in Conn /\ conn[c].fio = f /\ Working(conn[c]) /\ conn[c] # Unused /\ conn[c].peer \in Peer
      BY <1>1, TaskConn
    <3>2. Asked(c) /\ conn[c].fio # None
      BY <3>1, DnRequestAssumption DEF Asked, Working, None
    <3>3. t.sf # <<>>
      BY <1>1, <3>1, <3>2 DEF OpInv
    <3> QED BY <1>2, <3>3 DEF Fio_t
  <2>2. /\ t.sf[1] \in Fd /\ t.sf[2] \in Fd /\ t.sf[1] # 0 /\ t.sf[2] # 0
        /\ sock = fdt[t.sf[1]] /\ src = fdt[t.sf[2]]
    BY <1>4, <2>1
  <2>3. p \in Peer /\ j \in Peer \cup Block /\ sock = <<"sock", p>> /\ src = <<"file", j>>
    <3>1. /\ sock \in {<<>>} \cup ({"sock"} \X Peer) \cup ({"file"} \X (Peer \cup Block))
          /\ src \in {<<>>} \cup ({"sock"} \X Peer) \cup ({"file"} \X (Peer \cup Block))
      BY <1>2, <2>2 DEF TypeOK
    <3> HIDE DEF sock, src
    <3> QED BY <1>4, <3>1
  <2> HIDE DEF sock, src, p, j
  <2>a. /\ peer[p].pc # "left" /\ n # 0 /\ peer' = [peer EXCEPT ![p].out = @ \o u]
        /\ fio' = [fio EXCEPT ![f].off = @ + n, ![f].need = left, ![f].ret = 0,
                              ![f].io = IF left = 0 THEN "done" ELSE @]
    BY <1>4 DEF Gone
  <2>4. PICK q \in Client_t : q = peer[p]
    BY <1>2, <2>3
  <2> DEFINE o == Len(q.out)
  <2>5. o \in Nat /\ q.taken \in Nat /\ q.taken <= o /\ o - q.taken <= TxCap /\ TxCap \in Nat
        /\ Room(p) = TxCap - (o - q.taken)
    <3>1. o \in Nat /\ q.taken \in Nat
      BY DEF Client_t
    <3>2. Fits(q)
      BY <1>2, <2>3, <2>4 DEF RoomInv
    <3> QED BY <2>a, <2>4, <3>1, <3>2, DnRequestAssumption DEF Fits, Room
  <2> HIDE DEF o
  <2>6. Room(p) \in Nat
    BY <2>5
  <2>7. n = IF Room(p) <= t.need THEN Room(p) ELSE t.need
    BY <1>2, <2>6, MinTwo
  <2> HIDE DEF n
  <2>8. n \in Nat /\ n > 0 /\ n <= t.need /\ n <= Room(p) /\ left \in Nat /\ t.off + n \in Nat
    <3>1. PICK a, b \in Nat : a = Room(p) /\ b = t.need
      BY <1>2, <2>6
    <3>2. n = IF a <= b THEN a ELSE b
      BY <2>7, <3>1
    <3> QED BY <1>2, <2>a, <3>1, <3>2
  <2>9. BlockOf(j) \in Block
    BY <2>3, DnRequestAssumption DEF BlockOf, Block
  <2>10. u \in Seq(Pieces) /\ Len(u) = n
    <3>1. \A k \in 1 .. n : <<BlockOf(j), t.off + k>> \in Pieces
      BY <1>2, <2>8, <2>9 DEF Pieces
    <3> QED BY <2>8, <3>1
  <2> HIDE DEF u
  <2> DEFINE s == [q EXCEPT !.out = @ \o u]
             e == IF left = 0 THEN "done" ELSE "pending"
             x == [t EXCEPT !.off = t.off + n, !.need = left, !.ret = 0, !.io = e]
  <2>11. /\ s \in Client_t /\ s.pc = q.pc /\ s.op = q.op /\ s.rx = q.rx /\ s.sent = q.sent
         /\ s.out = q.out \o u /\ Len(s.out) = o + n /\ s.taken = q.taken /\ s.cut = q.cut
    <3>1. LET y == [q EXCEPT !.out = @ \o u]
          IN  /\ y \in Client_t /\ y.pc = q.pc /\ y.op = q.op /\ y.rx = q.rx /\ y.sent = q.sent
              /\ y.out = q.out \o u /\ Len(y.out) = Len(q.out) + Len(u) /\ y.taken = q.taken /\ y.cut = q.cut
      BY <2>10, ClientSent
    <3> HIDE DEF s
    <3>2. s = [q EXCEPT !.out = @ \o u]
      BY DEF s
    <3> QED BY <2>10, <3>1, <3>2 DEF o
  <2>12. peer' = [peer EXCEPT ![p] = s] /\ fio' = [fio EXCEPT ![f] = x]
    BY <1>1, <1>2, <2>a, <2>4
  <2>13. /\ x \in Fio_t /\ x.io = e /\ x.ret = 0 /\ x.st = t.st /\ x.conn = t.conn
         /\ x.fd = t.fd /\ x.off = t.off + n /\ x.need = left /\ x.sf = t.sf
    <3>1. PICK y \in Fio_t, a \in Nat, b \in Nat : y = t /\ a = t.off + n /\ b = left
      BY <1>2, <2>8
    <3> DEFINE z == FioOn(y, a, b)
    <3>3. /\ z \in Fio_t /\ z.io = (IF b = 0 THEN "done" ELSE "pending") /\ z.ret = 0
          /\ z.st = y.st /\ z.conn = y.conn /\ z.fd = y.fd /\ z.off = a /\ z.need = b /\ z.sf = y.sf
      BY FioSent
    <3>4. x = z
      BY <3>1 DEF FioOn
    <3> HIDE DEF z, x, left
    <3> QED BY <3>1, <3>3, <3>4
  <2>14. s = [peer[p] EXCEPT !.out = @ \o u]
    BY <2>4
  <2>15. e \in {"pending", "done"} /\ (e = "done" => left = 0)
    OBVIOUS
  <2> HIDE DEF s, x, e
  <2>16. /\ peer'[p] = s /\ \A y \in Peer \ {p} : peer'[y] = peer[y]
         /\ fio'[f] = x /\ \A g \in Fio \ {f} : fio'[g] = fio[g]
         /\ peer' \in [Peer -> Client_t] /\ fio' \in [Fio -> Fio_t]
    BY <1>2, <2>3, <2>11, <2>12, <2>13
  <2>17. SameTask(f)
    BY <1>1, <2>13, <2>15, <2>16 DEF SameTask
  <2>18. RoomInv'
    <3>1. (o + n) - q.taken <= TxCap /\ q.taken <= o + n
      BY <2>5, <2>8
    <3>2. Fits(s)
      <4>1. Len(s.out) = o + n /\ s.taken = q.taken
        BY <2>11
      <4> DEFINE a == o + n
                 b == q.taken
      <4>2. a - b <= TxCap /\ b <= a /\ Len(s.out) = a /\ s.taken = b
        BY <3>1, <4>1
      <4> HIDE DEF a, b
      <4> QED BY <4>2 DEF Fits
    <3> QED BY <1>2, <2>16, <3>2 DEF RoomInv
  <2>19. OwnInv'
    <3>1. \A y \in Peer : peer'[y].cut = peer[y].cut
      BY <2>4, <2>11, <2>16
    <3> QED BY <1>1, <1>2, <2>16, <2>17, <2>18, <3>1, WorkerOwn
  <2>20. Sent(f)
    <3> SUFFICES \E pp \in Peer, jj \in Peer \cup Block, nn \in Nat :
              /\ t.sf[1] # 0 /\ t.sf[2] # 0 /\ fdt[t.sf[1]] = <<"sock", pp>> /\ fdt[t.sf[2]] = <<"file", jj>>
              /\ peer'[pp] = [peer[pp] EXCEPT !.out = @ \o [k \in 1 .. nn |-> <<BlockOf(jj), t.off + k>>]]
              /\ peer[pp].pc # "left" /\ nn <= Room(pp)
              /\ \A y \in Peer \ {pp} : peer'[y] = peer[y]
              /\ nn > 0 /\ nn <= t.need /\ fio'[f].off = t.off + nn /\ fio'[f].need = t.need - nn
              /\ fio'[f].io = "done" => fio'[f].need = 0
      BY <1>1, <2>17 DEF Sent
    <3>1. /\ t.sf[1] # 0 /\ t.sf[2] # 0 /\ fdt[t.sf[1]] = <<"sock", p>> /\ fdt[t.sf[2]] = <<"file", j>>
          /\ peer'[p] = [peer[p] EXCEPT !.out = @ \o [k \in 1 .. n |-> <<BlockOf(j), t.off + k>>]]
          /\ peer[p].pc # "left" /\ n <= Room(p)
          /\ \A y \in Peer \ {p} : peer'[y] = peer[y]
          /\ n > 0 /\ n <= t.need /\ fio'[f].off = t.off + n /\ fio'[f].need = t.need - n
          /\ fio'[f].io = "done" => fio'[f].need = 0
      BY <2>a, <2>2, <2>3, <2>8, <2>13, <2>14, <2>15, <2>16 DEF u
    <3> HIDE DEF t
    <3> QED BY <2>3, <2>8, <3>1
  <2> QED BY <2>19, <2>20
<1> HIDE DEF Sending
<1> QED BY <1>1, <1>2, <1>3, <1>4

----------------------------------------------------------------------------
(* The steps of the specification *)

Effect ==
  \/ \E p \in Peer : Moves(p)
  \/ \E p \in Peer : TurnsAway(p)
  \/ \E p \in Peer, c \in Conn : Accepts(p, c)
  \/ \E c \in Conn : Reported(c)
  \/ \E c \in Conn : conn[c] # Unused /\ Step(c)
  \/ \E c \in Conn : conn[c] # Unused /\ Frame(c) /\ Opens(c)
  \/ \E f \in Fio : Wrote(f)
  \/ \E f \in Fio : Sent(f)

LEMMA NextEffect ==
  ASSUME OwnInv, OpInv, Next
  PROVE  bad = None /\ OwnInv' /\ Effect
<1>1. bad = None
  BY DEF Next
<1>2. ASSUME NEW p \in Peer, Client(p) \/ Leave(p) PROVE OwnInv' /\ Effect
  <2>1. OwnInv' /\ Moves(p)
    BY <1>1, <1>2, ClientStep
  <2> QED BY <2>1 DEF Effect
<1>3. ASSUME NEW p \in Peer, listen_rev_handler(p) PROVE OwnInv' /\ Effect
  <2>1. CASE pool = <<>>
    <3>1. OwnInv' /\ TurnsAway(p)
      BY <1>1, <1>3, <2>1, TurnedAway
    <3> QED BY <3>1 DEF Effect
  <2>2. CASE pool # <<>>
    <3>1. OwnInv' /\ \E c \in Conn : Accepts(p, c)
      BY <1>1, <1>3, <2>2, TakenIn
    <3> QED BY <3>1 DEF Effect
  <2> QED BY <2>1, <2>2
<1>4. ASSUME NEW c \in Conn, epoll_process_events(c) PROVE OwnInv' /\ Effect
  <2>1. OwnInv' /\ Reported(c)
    BY <1>1, <1>4, EpollStep
  <2> QED BY <2>1 DEF Effect
<1>5. ASSUME NEW c \in Conn, conn[c] # Unused, Step(c) PROVE OwnInv' /\ Effect
  BY <1>5 DEF Effect, Step
<1>6. ASSUME NEW c \in Conn, ReadEvent(c) PROVE OwnInv' /\ Effect
  <2>1. "in" \in posted[c] /\ conn[c] # Unused
    BY <1>6 DEF ReadEvent, Unused, None
  <2>2. CASE conn[c].rh = "header" /\ dn_request_read_header(c)
    <3>1. Step(c) \/ (OwnInv' /\ Frame(c) /\ Opens(c))
      BY <1>1, <2>1, <2>2, ReadHeaderStep
    <3> QED BY <1>5, <2>1, <3>1 DEF Effect
  <2>3. CASE conn[c].rh = "check" /\ dn_request_check_connection(c)
    BY <1>1, <1>5, <2>1, <2>3, CheckStep
  <2>4. CASE conn[c].rh = "blocked" /\ dn_request_block_reading(c)
    BY <1>1, <1>5, <2>1, <2>4, BlockStep
  <2> QED BY <1>6, <2>2, <2>3, <2>4 DEF ReadEvent
<1>7. ASSUME NEW c \in Conn, WriteEvent(c) PROVE OwnInv' /\ Effect
  <2>1. conn[c] # Unused
    BY <1>7 DEF WriteEvent, Unused, None
  <2>2. CASE conn[c].wh = "header" /\ dn_request_send_header_response(c)
    BY <1>1, <1>5, <2>1, <2>2, HeaderStep
  <2>3. CASE conn[c].wh = "blocked" /\ dn_request_block_writing(c)
    BY <1>1, <1>5, <2>1, <2>3, BlockStep
  <2>4. CASE conn[c].wh = "again" /\ dn_request_send_block_again(c)
    BY <1>1, <1>5, <2>1, <2>4, AgainStep
  <2> QED BY <1>7, <2>2, <2>3, <2>4 DEF WriteEvent
<1>8. ASSUME NEW c \in Conn, fio_task_alloc_timeout(c) \/ WriteTimeout(c) PROVE OwnInv' /\ Effect
  <2>1. conn[c] # Unused
    <3>1. ~Unused.etimer /\ ~Unused.wtimer
      BY DEF Unused
    <3> QED BY <1>8, <3>1 DEF fio_task_alloc_timeout, WriteTimeout
  <2>2. Step(c)
    BY <1>1, <1>8, TimerStep, WriteTimerStep
  <2> QED BY <1>5, <2>1, <2>2
<1>9. ASSUME NEW f \in Fio, ioevents_process_posted(f) PROVE OwnInv' /\ Effect
  <2>1. fio[f].conn \in Conn /\ Step(fio[f].conn)
    BY <1>1, <1>9, PostedStep
  <2>2. conn[fio[f].conn] # Unused
    <3>1. fio[f].io # "own"
      BY <1>9 DEF ioevents_process_posted
    <3> QED BY <1>1, <3>1, TaskConn
  <2> QED BY <1>5, <2>1, <2>2
<1>10. ASSUME NEW f \in Fio, Worker(f) PROVE OwnInv' /\ Effect
  <2>1. OwnInv' /\ (Wrote(f) \/ Sent(f))
    BY <1>1, <1>10, WriteWorker, SendWorker DEF Worker
  <2> QED BY <2>1 DEF Effect
<1>11. \/ \E p \in Peer : Client(p) \/ Leave(p)
       \/ \E p \in Peer : listen_rev_handler(p)
       \/ \E c \in Conn : epoll_process_events(c)
       \/ \E c \in Conn : ReadEvent(c)
       \/ \E c \in Conn : WriteEvent(c)
       \/ \E c \in Conn : fio_task_alloc_timeout(c) \/ WriteTimeout(c)
       \/ \E f \in Fio : ioevents_process_posted(f)
       \/ \E f \in Fio : Worker(f)
  BY DEF Next, NetThread
<1>12. OwnInv' /\ Effect
  BY <1>2, <1>3, <1>4, <1>6, <1>7, <1>8, <1>9, <1>10, <1>11
<1> QED BY <1>1, <1>12

LEMMA InitOwn == Init => OwnInv
<1> SUFFICES ASSUME Init PROVE OwnInv
  OBVIOUS
<1> DEFINE q0 == [pc |-> "new", op |-> None, rx |-> 0, sent |-> 0, out |-> <<>>, taken |-> 0, cut |-> FALSE]
           all == SetToSeq(Fio)
<1>1. /\ \A p \in Peer : peer[p] = q0
      /\ \A c \in Conn : conn[c] = Unused /\ posted[c] = {}
      /\ \A d \in Fd : fdt[d] = <<>>
      /\ \A f \in Fio : fio[f] = IF f \in ToSet(freeq) THEN NewFio ELSE NoFio
      /\ pool = SetToSeq(Conn) /\ freeq = SubSeq(all, 1, FioIdle)
  BY DEF Init
<1>2. q0 \in Client_t /\ q0.taken = 0 /\ Len(q0.out) = 0 /\ q0.cut = FALSE
  BY DEF Client_t
<1>3. Unused \in Conn_t
  BY DEF Conn_t, Unused, None
<1>4. pool \in Seq(Conn) /\ IsInjective(pool) /\ ToSet(pool) = Conn
  BY <1>1, SetToSeqRange, ToSetRange, DnRequestAssumption
<1>5. freeq \in Seq(Fio) /\ IsInjective(freeq) /\ ToSet(freeq) \subseteq Fio
  <2>1. all \in Seq(Fio) /\ IsInjective(all) /\ Range(all) = Fio
    BY SetToSeqRange, DnRequestAssumption
  <2>2. Len(all) = Cardinality(Fio)
    BY <2>1, InjectiveLength
  <2>3. FioIdle \in 0 .. Len(all)
    BY <2>2, ConnCount, DnRequestAssumption
  <2> HIDE DEF all
  <2>4. freeq \in Seq(Fio) /\ IsInjective(freeq)
    BY <1>1, <2>1, <2>3, SplitRange
  <2>5. Range(freeq) \subseteq Fio
    BY <2>4, RangePositions
  <2> QED BY <2>4, <2>5, ToSetRange
<1>6. TypeOK
  <2>1. peer \in [Peer -> Client_t] /\ conn \in [Conn -> Conn_t] /\ fio \in [Fio -> Fio_t]
    BY <1>2, <1>3, NewFioType DEF Init
  <2>2. /\ fdt \in [Fd -> {<<>>} \cup ({"sock"} \X Peer) \cup ({"file"} \X (Peer \cup Block))]
        /\ posted \in [Conn -> SUBSET {"in", "out"}]
    BY DEF Init
  <2>3. tmp \in [Block -> Peer \cup {None}] /\ file \in [Block -> Peer \cup Block \cup {None}]
    BY DEF Init
  <2>4. data \in [Peer \cup Block -> SUBSET Nat]
    <3>1. \A i \in Peer \cup Block : (IF i \in Stored THEN 1 .. Size[i] ELSE {}) \in SUBSET Nat
      BY DnRequestAssumption DEF Block
    <3> QED BY <3>1 DEF Init
  <2>5. index \subseteq Block /\ bad = None /\ cause = {}
    BY DnRequestAssumption DEF Init, Block
  <2> QED BY <1>4, <1>5, <2>1, <2>2, <2>3, <2>4, <2>5 DEF TypeOK
<1>7. RoomInv
  BY <1>1, <1>2, DnRequestAssumption DEF RoomInv, Fits
<1>8. /\ Unused.fio = None /\ Unused.fd = 0 /\ Unused.store = 0 /\ Unused.peer = None
      /\ NewFio.st = "free" /\ NewFio.io = "own" /\ NoFio.st = None /\ NoFio.io = "own" /\ None # "free"
      /\ None # "used"
  BY DEF Unused, NewFio, NoFio, None
<1>9. PoolInv
  BY <1>1, <1>4 DEF PoolInv
<1>10. Owned(Tasks, fio, freeq)
  <2>1. \A c \in Conn : Tasks[c] = None
    BY <1>1, <1>8 DEF Tasks
  <2>2. \A f \in Fio : fio[f].io = "own" /\ fio[f].st # "used" /\ (fio[f].st = "free" <=> f \in ToSet(freeq))
    BY <1>1, <1>8
  <2>3. ToSet(freeq) = {f \in Fio : fio[f].st = "free"}
    BY <1>5, <2>2
  <2> QED BY <1>5, <2>1, <2>2, <2>3 DEF Owned
<1>11. Busy /\ FdInv /\ PeerInv /\ \A c \in Conn : Shape(conn[c])
  BY <1>1, <1>8 DEF Busy, FdInv, PeerInv, Shape
<1> QED BY <1>6, <1>7, <1>9, <1>10, <1>11 DEF OwnInv

\* What a handler of connection c leaves of the others.
LEMMA Others ==
  ASSUME OwnInv, bad = None, NEW c \in Conn, Frame(c), NEW d \in Conn \ {c}
  PROVE  /\ conn'[d] = conn[d] /\ posted'[d] = posted[d]
         /\ conn[d].peer # None => /\ conn[d].peer \in Peer /\ conn[d].peer # conn[c].peer
                                   /\ peer'[conn[d].peer] = peer[conn[d].peer]
         /\ conn[d].fio # None => fio'[conn[d].fio] = fio[conn[d].fio]
         /\ conn[d].store # 0 => fdt'[conn[d].store] = fdt[conn[d].store]
<1>1. conn[d].peer \in Peer \cup {None}
  BY DEF OwnInv, TypeOK, Conn_t
<1>2. conn[d].peer # None => conn[d].peer # conn[c].peer
  BY DEF OwnInv, PeerInv
<1> QED BY <1>1, <1>2 DEF Frame

\* A handler closes the connection, or leaves it in the hands of the client it serves.
LEMMA StepConn ==
  ASSUME OwnInv, bad = None, NEW c \in Conn, conn[c] # Unused, Step(c), bad' = None
  PROVE  \/ Ends(c) /\ conn'[c] = Unused /\ posted'[c] = {} /\ peer'[conn[c].peer].cut
         \/ /\ Starves(c) \/ Writes(c) \/ Reads(c) \/ Retries(c) \/ Sames(c)
            /\ conn'[c].peer = conn[c].peer /\ conn'[c].rh # "header" /\ Asked(c)
            /\ conn'[c].store = conn[c].store /\ conn'[c].fd = conn[c].fd
            /\ peer'[conn[c].peer].cut = peer[conn[c].peer].cut
            /\ UNCHANGED <<fdt, disk>>
<1>1. /\ conn[c].peer \in Peer /\ conn[c].peer # None
      /\ conn[c].rh = "header" <=> Waiting(conn[c])
  BY InUse
<1>2. CASE Ends(c)
  BY <1>2 DEF Ends
<1>3. CASE Starves(c)
  BY <1>1, <1>3 DEF Starves, Opening, Asked
<1>4. CASE Writes(c)
  <2>1. ~Waiting(conn[c])
    BY <1>4, DnRequestAssumption DEF Writes, Waiting, Opening, None
  <2> QED BY <1>1, <1>4, <2>1 DEF Writes, SameConn, Asked
<1>5. CASE Reads(c)
  BY <1>1, <1>5 DEF Reads, SameConn, Opening, Asked
<1>6. CASE Retries(c)
  <2>1. ~Waiting(conn[c])
    BY <1>6, DnRequestAssumption DEF Retries, Waiting, None
  <2> QED BY <1>1, <1>6, <2>1 DEF Retries, SameConn, Asked
<1>7. CASE Sames(c)
  BY <1>1, <1>7 DEF Sames, SameConn, Asked, Working
<1> QED BY <1>2, <1>3, <1>4, <1>5, <1>6, <1>7 DEF Step

\* A client that is still to be answered is not the one the handler served.
LEMMA NewStays ==
  ASSUME OwnInv, bad = None, NEW c \in Conn, conn[c] # Unused, Frame(c),
         \/ peer'[conn[c].peer].cut
         \/ conn'[c].peer = conn[c].peer /\ conn'[c].rh # "header",
         NEW q \in Peer, New(q)'
  PROVE  q # conn[c].peer /\ New(q) /\ peer'[q] = peer[q]
<1>1. q # conn[c].peer
  BY DEF New
<1>2. peer'[q] = peer[q]
  BY <1>1 DEF Frame
<1>3. \A d \in Conn : conn[d].peer = q => conn[d].rh = "header"
  BY <1>1 DEF New, Frame
<1> QED BY <1>1, <1>2, <1>3 DEF New

LEMMA OpHandler ==
  ASSUME OwnInv, OpInv, bad = None, NEW c \in Conn, conn[c] # Unused, Step(c)
  PROVE  OpInv' /\ CorruptedOnlyBy'
<1> DEFINE p == conn[c].peer
<1>1. /\ p \in Peer /\ p # None /\ OwnInv' /\ Frame(c) /\ Kept(c) /\ Excuse(c)
  BY InUse DEF Step
<1>2. \A x \in Peer : peer'[x].pc = peer[x].pc /\ peer'[x].op = peer[x].op
  BY <1>1 DEF Frame, Kept
<1>3. cause \subseteq cause'
  BY <1>1 DEF Kept
<1>4. CorruptedOnlyBy'
  <2>1. Gone(p) => peer'[p].pc = "left"
    BY <1>1, <1>2 DEF Gone
  <2> QED BY <1>1, <1>2, <1>3, <2>1 DEF CorruptedOnlyBy, LeftEarly, Excuse
<1>5. \A b \in index' : file'[b] # None
  <2>1. \A b \in index : file[b] # None
    BY DEF OpInv
  <2>2. CASE UNCHANGED disk
    BY <2>1, <2>2 DEF disk
  <2>3. CASE write_block_done(Blk[p]) /\ ~UNCHANGED disk
    <3>1. /\ tmp[Blk[p]] # None /\ file' = [file EXCEPT ![Blk[p]] = tmp[Blk[p]]]
          /\ index' = index \cup {Blk[p]}
      BY <2>3 DEF write_block_done
    <3>2. Blk[p] \in Block /\ index \subseteq Block
          /\ file \in [Block -> Peer \cup Block \cup {None}]
      BY <1>1, DnRequestAssumption DEF OwnInv, TypeOK, Block
    <3> QED BY <2>1, <3>1, <3>2
  <2>4. UNCHANGED disk \/ write_block_done(Blk[p])
    <3>1. CASE Ends(c)
      BY <3>1 DEF Ends
    <3>2. CASE Starves(c) \/ Writes(c) \/ Reads(c) \/ Retries(c) \/ Sames(c)
      BY <3>2 DEF Starves, Writes, Reads, Retries, Sames
    <3> QED BY <3>1, <3>2 DEF Step
  <2> QED BY <2>2, <2>3, <2>4
<1>6. \A x \in Peer : /\ peer'[x].op \in Ops[x] \cup {None}
                      /\ peer'[x].pc \in {"new", "open"} => peer'[x].op = None
  BY <1>2 DEF OpInv
<1>7. ASSUME bad' = None, NEW d \in Conn, conn'[d].peer # None, conn'[d].rh # "header"
      PROVE  /\ peer'[conn'[d].peer].op \in {"write", "read"}
             /\ conn'[d].etimer => "starved" \in cause'
             /\ conn'[d].wh = "again" => "slow" \in cause'
             /\ peer'[conn'[d].peer].op = "read" => conn'[d].rh = "check"
             /\ peer'[conn'[d].peer].op = "read" /\ conn'[d].fio # None => fio'[conn'[d].fio].sf # <<>>
             /\ peer'[conn'[d].peer].op = "write" => conn'[d].wh # "again" /\ (conn'[d].fio # None => conn'[d].rh = "blocked")
  <2>1. CASE d # c
    <3>1. /\ conn'[d] = conn[d] /\ peer'[conn[d].peer] = peer[conn[d].peer]
          /\ conn[d].fio # None => fio'[conn[d].fio] = fio[conn[d].fio]
      BY <1>1, <1>7, <2>1, Others
    <3>2. Asked(d)
      BY <1>7, <3>1 DEF Asked
    <3> QED BY <1>3, <3>1, <3>2 DEF OpInv
  <2>2. CASE d = c
    <3>1. /\ Starves(c) \/ Writes(c) \/ Reads(c) \/ Retries(c) \/ Sames(c)
          /\ conn'[c].peer = p /\ Asked(c)
      <4>1. Unused.peer = None
        BY DEF Unused
      <4>2. conn'[c] # Unused
        BY <1>7, <2>2, <4>1
      <4> QED BY <1>7, <4>2, StepConn
    <3>2. /\ peer[p].op \in {"write", "read"}
          /\ conn[c].etimer => "starved" \in cause
          /\ conn[c].wh = "again" => "slow" \in cause
          /\ peer[p].op = "read" => conn[c].rh = "check"
          /\ peer[p].op = "read" /\ conn[c].fio # None => fio[conn[c].fio].sf # <<>>
          /\ peer[p].op = "write" => conn[c].wh # "again" /\ (conn[c].fio # None => conn[c].rh = "blocked")
          /\ peer'[p].op = peer[p].op
      BY <1>1, <1>2, <3>1 DEF OpInv
    <3>3. CASE Starves(c)
      BY <2>2, <3>1, <3>2, <3>3 DEF Starves, Opening
    <3>4. CASE Writes(c)
      BY <1>3, <2>2, <3>1, <3>2, <3>4 DEF Writes, SameConn
    <3>5. CASE Reads(c)
      BY <1>3, <2>2, <3>1, <3>2, <3>5 DEF Reads, SameConn
    <3>6. CASE Retries(c)
      BY <1>3, <2>2, <3>1, <3>2, <3>6, DnRequestAssumption DEF Retries, SameConn, None
    <3>7. CASE Sames(c)
      BY <1>3, <2>2, <3>1, <3>2, <3>7 DEF Sames, SameConn
    <3> QED BY <3>1, <3>3, <3>4, <3>5, <3>6, <3>7
  <2> QED BY <2>1, <2>2
<1>8. OpInv'
  BY <1>5, <1>6, <1>7 DEF OpInv, Asked
<1> QED BY <1>4, <1>8

\* A step that leaves the requests as they are.
LEMMA QuietOp ==
  ASSUME TypeOK, OpInv, bad = None, index' = index, file' = file, cause \subseteq cause',
         \A x \in Peer : /\ peer'[x].op \in Ops[x] \cup {None}
                         /\ peer'[x].pc \in {"new", "open"} => peer'[x].op = None,
         \A d \in Conn : conn'[d].peer # None /\ conn'[d].rh # "header" =>
           /\ conn'[d].peer = conn[d].peer /\ conn'[d].rh = conn[d].rh /\ conn'[d].wh = conn[d].wh
           /\ conn'[d].etimer = conn[d].etimer /\ conn'[d].fio = conn[d].fio
           /\ peer'[conn[d].peer].op = peer[conn[d].peer].op,
         \A f \in Fio : fio'[f].sf = fio[f].sf
  PROVE  OpInv'
<1>1. ASSUME NEW d \in Conn, conn'[d].peer # None, conn'[d].rh # "header"
      PROVE  /\ peer'[conn'[d].peer].op \in {"write", "read"}
             /\ conn'[d].etimer => "starved" \in cause'
             /\ conn'[d].wh = "again" => "slow" \in cause'
             /\ peer'[conn'[d].peer].op = "read" => conn'[d].rh = "check"
             /\ peer'[conn'[d].peer].op = "read" /\ conn'[d].fio # None => fio'[conn'[d].fio].sf # <<>>
             /\ peer'[conn'[d].peer].op = "write" => conn'[d].wh # "again" /\ (conn'[d].fio # None => conn'[d].rh = "blocked")
  <2>1. /\ conn'[d].peer = conn[d].peer /\ conn'[d].rh = conn[d].rh /\ conn'[d].wh = conn[d].wh
        /\ conn'[d].etimer = conn[d].etimer /\ conn'[d].fio = conn[d].fio
        /\ peer'[conn[d].peer].op = peer[conn[d].peer].op
    BY <1>1
  <2>2. Asked(d) /\ conn[d].fio \in Fio \cup {None}
    BY <1>1, <2>1 DEF Asked, TypeOK, Conn_t
  <2>3. conn[d].fio # None => fio'[conn[d].fio].sf = fio[conn[d].fio].sf
    BY <2>2
  <2>4. /\ peer[conn[d].peer].op \in {"write", "read"}
        /\ conn[d].etimer => "starved" \in cause
        /\ conn[d].wh = "again" => "slow" \in cause
        /\ peer[conn[d].peer].op = "read" => conn[d].rh = "check"
        /\ peer[conn[d].peer].op = "read" /\ conn[d].fio # None => fio[conn[d].fio].sf # <<>>
        /\ peer[conn[d].peer].op = "write" => conn[d].wh # "again" /\ (conn[d].fio # None => conn[d].rh = "blocked")
    BY <2>2 DEF OpInv
  <2> QED BY <2>1, <2>3, <2>4
<1> QED BY <1>1 DEF OpInv, Asked

LEMMA OpKept ==
  ASSUME OwnInv, OpInv, bad = None, OwnInv', Effect
  PROVE  OpInv' /\ CorruptedOnlyBy'
<1>1. /\ TypeOK
      /\ \A x \in Peer : /\ peer[x].op \in Ops[x] \cup {None}
                         /\ peer[x].pc \in {"new", "open"} => peer[x].op = None
      /\ \A d \in Conn : conn[d].peer \in Peer \cup {None}
      /\ \A d \in Conn : conn[d].peer # None /\ conn[d].rh # "header" =>
           peer[conn[d].peer].op \in {"write", "read"}
  BY DEF OwnInv, OpInv, TypeOK, Conn_t, Asked
<1>2. bad' = None => CorruptedOnlyBy'
  BY DEF CorruptedOnlyBy, None
<1>3. CASE \E c \in Conn : conn[c] # Unused /\ Step(c)
  BY <1>3, OpHandler
<1>4. ASSUME NEW p \in Peer, Moves(p) PROVE OpInv' /\ bad' = None
  <2>1. /\ bad' = None /\ index' = index /\ file' = file /\ cause' = cause /\ fio' = fio
        /\ \A d \in Conn : SameBut(d)
        /\ \A x \in Peer \ {p} : peer'[x] = peer[x]
    BY <1>4 DEF Moves, disk, tasks
  <2>2. \A d \in Conn : /\ conn'[d].peer = conn[d].peer /\ conn'[d].rh = conn[d].rh /\ conn'[d].wh = conn[d].wh
                        /\ conn'[d].etimer = conn[d].etimer /\ conn'[d].fio = conn[d].fio
    BY <2>1 DEF SameBut
  <2>3. /\ peer'[p].op \in Ops[p] \cup {None}
        /\ peer'[p].pc \in {"new", "open"} => peer'[p].op = None
        /\ peer'[p].op = peer[p].op \/ peer[p].pc = "open"
    BY <1>1, <1>4 DEF Moves
  <2>4. peer[p].pc = "open" => \A d \in Conn : conn[d].peer = p => conn[d].rh = "header"
    <3>1. p # None /\ None \notin {"write", "read"}
      BY DnRequestAssumption DEF None
    <3> QED BY <1>1, <3>1
  <2>5. \A d \in Conn : conn[d].peer # None /\ conn[d].rh # "header" =>
          peer'[conn[d].peer].op = peer[conn[d].peer].op
    BY <1>1, <2>1, <2>3, <2>4
  <2>6. \A x \in Peer : /\ peer'[x].op \in Ops[x] \cup {None}
                        /\ peer'[x].pc \in {"new", "open"} => peer'[x].op = None
    <3> SUFFICES ASSUME NEW x \in Peer
                 PROVE  /\ peer'[x].op \in Ops[x] \cup {None}
                        /\ peer'[x].pc \in {"new", "open"} => peer'[x].op = None
      OBVIOUS
    <3>1. CASE x = p
      BY <2>3, <3>1
    <3>2. CASE x # p
      BY <1>1, <2>1, <3>2
    <3> QED BY <3>1, <3>2
  <2> QED BY <1>1, <2>1, <2>2, <2>5, <2>6, QuietOp
<1>5. ASSUME NEW p \in Peer, TurnsAway(p) PROVE OpInv' /\ bad' = None
  <2>1. /\ bad' = None /\ index' = index /\ file' = file /\ cause' = cause /\ fio' = fio /\ conn' = conn
        /\ \A x \in Peer \ {p} : peer'[x] = peer[x] /\ peer'[p] = [peer[p] EXCEPT !.cut = TRUE]
    BY <1>5 DEF TurnsAway, disk, tasks
  <2>2. \A x \in Peer : peer'[x].op = peer[x].op /\ peer'[x].pc = peer[x].pc
    <3>1. peer[p] \in Client_t /\ peer'[p] = [peer[p] EXCEPT !.cut = TRUE]
      BY <1>1, <1>5 DEF TypeOK, TurnsAway
    <3>2. peer'[p].op = peer[p].op /\ peer'[p].pc = peer[p].pc
      BY <3>1 DEF Client_t
    <3> QED BY <2>1, <3>2
  <2> QED BY <1>1, <2>1, <2>2, QuietOp
<1>6. ASSUME NEW p \in Peer, NEW c \in Conn, Accepts(p, c) PROVE OpInv' /\ bad' = None
  <2>1. /\ bad' = None /\ index' = index /\ file' = file /\ cause' = cause /\ fio' = fio /\ peer' = peer
        /\ \A d \in Conn \ {c} : conn'[d] = conn[d]
        /\ conn'[c].rh = "header"
    BY <1>6 DEF Accepts, disk, tasks, Waiting
  <2> QED BY <1>1, <2>1, QuietOp
<1>7. ASSUME NEW c \in Conn, Reported(c) PROVE OpInv' /\ bad' = None
  <2>1. /\ bad' = None /\ index' = index /\ file' = file /\ cause' = cause /\ fio' = fio /\ peer' = peer
        /\ \A d \in Conn : SameBut(d)
    BY <1>7 DEF Reported, disk, tasks
  <2>2. \A d \in Conn : /\ conn'[d].peer = conn[d].peer /\ conn'[d].rh = conn[d].rh /\ conn'[d].wh = conn[d].wh
                        /\ conn'[d].etimer = conn[d].etimer /\ conn'[d].fio = conn[d].fio
    BY <2>1 DEF SameBut
  <2> QED BY <1>1, <2>1, <2>2, QuietOp
<1>8. ASSUME NEW f \in Fio, Wrote(f) \/ Sent(f) PROVE OpInv' /\ bad' = None
  <2>1. /\ SameTask(f) /\ cause \subseteq cause'
    BY <1>8 DEF Wrote, Sent
  <2>2. /\ bad' = None /\ index' = index /\ file' = file /\ conn' = conn
        /\ \A g \in Fio : fio'[g].sf = fio[g].sf
    BY <2>1 DEF SameTask
  <2>3. \A x \in Peer : peer'[x].op = peer[x].op /\ peer'[x].pc = peer[x].pc
    <3>1. CASE peer' = peer
      BY <3>1
    <3>2. ASSUME NEW p \in Peer, NEW o, peer'[p] = [peer[p] EXCEPT !.out = o],
                 \A x \in Peer \ {p} : peer'[x] = peer[x]
          PROVE  \A x \in Peer : peer'[x].op = peer[x].op /\ peer'[x].pc = peer[x].pc
      <4>1. peer[p] \in Client_t
        BY <1>1 DEF TypeOK
      <4>2. peer'[p].op = peer[p].op /\ peer'[p].pc = peer[p].pc
        BY <3>2, <4>1 DEF Client_t
      <4> QED BY <3>2, <4>2
    <3>3. \/ peer' = peer
          \/ \E p \in Peer : \E o : /\ peer'[p] = [peer[p] EXCEPT !.out = o]
                                    /\ \A x \in Peer \ {p} : peer'[x] = peer[x]
      BY <1>8 DEF Wrote, Sent
    <3> QED BY <3>1, <3>2, <3>3
  <2> QED BY <1>1, <2>1, <2>2, <2>3, QuietOp
<1>9. ASSUME NEW c \in Conn, conn[c] # Unused, Frame(c), Opens(c) PROVE OpInv' /\ bad' = None
  <2> DEFINE p == conn[c].peer
  <2>1. /\ bad' = None /\ index' = index /\ file' = file /\ cause' = cause /\ fio' = fio
        /\ Opening(conn'[c]) /\ ~conn'[c].etimer /\ conn'[c].peer = p
        /\ peer'[p] = [peer[p] EXCEPT !.rx = 0] /\ peer[p].op \in {"write", "read"}
    BY <1>9 DEF Opens
  <2>2. p \in Peer /\ p # None
    BY <1>9, InUse
  <2>3. \A x \in Peer : peer'[x].op = peer[x].op /\ peer'[x].pc = peer[x].pc
    <3>1. peer[p] \in Client_t
      BY <1>1, <2>2 DEF TypeOK
    <3>2. peer'[p].op = peer[p].op /\ peer'[p].pc = peer[p].pc
      BY <2>1, <3>1 DEF Client_t
    <3> QED BY <1>9, <3>2 DEF Frame
  <2>4. ASSUME NEW d \in Conn, conn'[d].peer # None, conn'[d].rh # "header"
      PROVE  /\ peer'[conn'[d].peer].op \in {"write", "read"}
             /\ conn'[d].etimer => "starved" \in cause'
             /\ conn'[d].wh = "again" => "slow" \in cause'
             /\ peer'[conn'[d].peer].op = "read" => conn'[d].rh = "check"
             /\ peer'[conn'[d].peer].op = "read" /\ conn'[d].fio # None => fio'[conn'[d].fio].sf # <<>>
             /\ peer'[conn'[d].peer].op = "write" => conn'[d].wh # "again" /\ (conn'[d].fio # None => conn'[d].rh = "blocked")
    <3>1. CASE d = c
      BY <2>1, <2>2, <2>3, <3>1 DEF Opening
    <3>2. CASE d # c
      <4>1. /\ conn'[d] = conn[d] /\ peer'[conn[d].peer] = peer[conn[d].peer]
        BY <1>9, <2>4, <3>2, Others
      <4>2. Asked(d)
        BY <2>4, <4>1 DEF Asked
      <4> QED BY <2>1, <4>1, <4>2 DEF OpInv
    <3> QED BY <3>1, <3>2
  <2>5. \A x \in Peer : /\ peer'[x].op \in Ops[x] \cup {None}
                        /\ peer'[x].pc \in {"new", "open"} => peer'[x].op = None
    BY <1>1, <2>3
  <2>6. \A b \in index' : file'[b] # None
    BY <2>1 DEF OpInv
  <2> QED BY <2>1, <2>4, <2>5, <2>6 DEF OpInv, Asked
<1> QED BY <1>2, <1>3, <1>4, <1>5, <1>6, <1>7, <1>8, <1>9 DEF Effect

----------------------------------------------------------------------------
(* Accounted and CorruptedOnlyBy *)

LEMMA OneOf ==
  ASSUME NEW S, \A x, y \in S : x = y
  PROVE  S # {} <=> Cardinality(S) = 1
<1>1. CASE S = {}
  BY <1>1, FS_EmptySet
<1>2. CASE S # {}
  <2>1. PICK x : S = {x}
    <3>1. PICK x \in S : TRUE
      BY <1>2
    <3>2. S = {x}
      BY <3>1
    <3> QED BY <3>2
  <2> QED BY <2>1, FS_Singleton
<1> QED BY <1>1, <1>2

LEMMA OwnAccounted == OwnInv => Accounted
<1> SUFFICES ASSUME OwnInv PROVE Accounted
  OBVIOUS
<1>1. TypeOK
  BY DEF OwnInv
<1> SUFFICES ASSUME bad = None
             PROVE  /\ IsInjective(pool) /\ ToSet(pool) = {c \in Conn : conn[c] = Unused}
                    /\ IsInjective(freeq) /\ ToSet(freeq) = {f \in Fio : fio[f].st = "free"}
                    /\ \A f \in Fio :
                         /\ fio[f].st = "used" <=> Cardinality({c \in Conn : conn[c].fio = f}) = 1
                         /\ fio[f].io # "own" => fio[f].st = "used" /\ conn[fio[f].conn].fio = f
                    /\ \A d \in Fd : fdt[d] # <<>> <=>
                         Cardinality({c \in Conn : conn[c].fd = d} \cup {c \in Conn : conn[c].store = d}) = 1
  BY <1>1 DEF Accounted
<1>2. PoolInv /\ Owned(Tasks, fio, freeq) /\ FdInv /\ PeerInv /\ \A c \in Conn : Shape(conn[c])
  BY DEF OwnInv
<1>3. \A c \in Conn : Tasks[c] = conn[c].fio
  BY DEF Tasks
<1>4. ASSUME NEW f \in Fio
      PROVE  /\ fio[f].st = "used" <=> Cardinality({c \in Conn : conn[c].fio = f}) = 1
             /\ fio[f].io # "own" => fio[f].st = "used" /\ conn[fio[f].conn].fio = f
  <2> DEFINE S == {c \in Conn : conn[c].fio = f}
  <2>1. f # None
    BY DnRequestAssumption DEF None
  <2>2. \A x, y \in S : x = y
    BY <1>2, <1>3, <2>1 DEF Owned
  <2>3. fio[f].st = "used" <=> S # {}
    BY <1>2, <1>3, <2>1 DEF Owned
  <2>4. fio[f].io # "own" => fio[f].st = "used" /\ conn[fio[f].conn].fio = f
    BY <1>2, <1>3, <2>1 DEF Owned
  <2>5. S # {} <=> Cardinality(S) = 1
    <3> HIDE DEF S
    <3> QED BY <2>2, OneOf
  <2> QED BY <2>3, <2>4, <2>5
<1>5. ASSUME NEW d \in Fd
      PROVE  fdt[d] # <<>> <=>
               Cardinality({c \in Conn : conn[c].fd = d} \cup {c \in Conn : conn[c].store = d}) = 1
  <2> DEFINE S == {c \in Conn : conn[c].fd = d} \cup {c \in Conn : conn[c].store = d}
  <2>1. d # 0
    BY ConnCount DEF Fd
  <2>2. \A c \in Conn : conn[c].fd = d => fdt[d] = <<"sock", conn[c].peer>> /\ conn[c].peer # None
    <3> SUFFICES ASSUME NEW c \in Conn, conn[c].fd = d
                 PROVE  fdt[d] = <<"sock", conn[c].peer>> /\ conn[c].peer # None
      OBVIOUS
    <3>1. Unused.fd = 0
      BY DEF Unused
    <3> QED BY <1>2, <2>1, <3>1 DEF FdInv, Shape
  <2>3. \A c \in Conn : conn[c].store = d => \E i \in Peer \cup Block : fdt[d] = <<"file", i>>
    <3> SUFFICES ASSUME NEW c \in Conn, conn[c].store = d
                 PROVE  \E i \in Peer \cup Block : fdt[d] = <<"file", i>>
      OBVIOUS
    <3> QED BY <1>2, <2>1 DEF FdInv
  <2>4. ASSUME NEW x \in S, NEW y \in S PROVE x = y
    <3>1. CASE conn[x].fd = d /\ conn[y].fd = d
      <4>1. conn[x].peer = conn[y].peer /\ conn[x].peer # None
        BY <2>2, <3>1
      <4> QED BY <1>2, <4>1 DEF PeerInv
    <3>2. CASE conn[x].store = d /\ conn[y].store = d
      BY <1>2, <2>1, <3>2 DEF FdInv
    <3>3. CASE conn[x].fd = d /\ conn[y].store = d
      <4>1. PICK i \in Peer \cup Block : fdt[d] = <<"file", i>>
        BY <2>3, <3>3
      <4>2. fdt[d] = <<"sock", conn[x].peer>>
        BY <2>2, <3>3
      <4> QED BY <4>1, <4>2
    <3>4. CASE conn[x].store = d /\ conn[y].fd = d
      <4>1. PICK i \in Peer \cup Block : fdt[d] = <<"file", i>>
        BY <2>3, <3>4
      <4>2. fdt[d] = <<"sock", conn[y].peer>>
        BY <2>2, <3>4
      <4> QED BY <4>1, <4>2
    <3> QED BY <3>1, <3>2, <3>3, <3>4
  <2>5. fdt[d] # <<>> <=> S # {}
    <3>1. ASSUME fdt[d] # <<>> PROVE S # {}
      <4>1. PICK c \in Conn : conn[c].fd = d \/ conn[c].store = d
        BY <1>2, <3>1 DEF FdInv
      <4> QED BY <4>1
    <3>2. ASSUME S # {} PROVE fdt[d] # <<>>
      <4>1. PICK c \in S : TRUE
        BY <3>2
      <4>2. CASE conn[c].fd = d
        <5>1. fdt[d] = <<"sock", conn[c].peer>>
          BY <2>2, <4>2
        <5> QED BY <5>1
      <4>3. CASE conn[c].store = d
        <5>1. PICK i \in Peer \cup Block : fdt[d] = <<"file", i>>
          BY <2>3, <4>3
        <5> QED BY <5>1
      <4> QED BY <4>2, <4>3
    <3> QED BY <3>1, <3>2
  <2>6. S # {} <=> Cardinality(S) = 1
    <3>1. \A x, y \in S : x = y
      BY <2>4
    <3> HIDE DEF S
    <3> QED BY <3>1, OneOf
  <2> QED BY <2>5, <2>6
<1> QED BY <1>2, <1>4, <1>5 DEF PoolInv, Owned

LEMMA InitOp == Init => OpInv /\ CorruptedOnlyBy
<1> SUFFICES ASSUME Init PROVE OpInv /\ CorruptedOnlyBy
  OBVIOUS
<1>1. /\ \A p \in Peer : peer[p].op = None
      /\ \A c \in Conn : conn[c] = Unused
      /\ bad = None /\ \A b \in index : file[b] = b
  BY DnRequestAssumption DEF Init, Block
<1>2. Unused.peer = None
  BY DEF Unused
<1>3. \A b \in index : file[b] # None
  BY <1>1, DnRequestAssumption DEF Init, None
<1> QED BY <1>1, <1>2, <1>3 DEF OpInv, Asked, CorruptedOnlyBy, None

LEMMA OpStays ==
  ASSUME OwnInv, OpInv, CorruptedOnlyBy, [Next]_vars
  PROVE  OwnInv' /\ OpInv' /\ CorruptedOnlyBy'
<1>1. CASE Next
  BY <1>1, NextEffect, OpKept
<1>2. CASE UNCHANGED vars
  <2>1. /\ peer' = peer /\ conn' = conn /\ pool' = pool /\ fdt' = fdt /\ fio' = fio /\ freeq' = freeq
        /\ tmp' = tmp /\ file' = file /\ data' = data /\ index' = index
        /\ posted' = posted /\ bad' = bad /\ cause' = cause
    BY <1>2 DEF vars, tasks, disk
  <2>2. TypeOK' /\ RoomInv'
    BY <2>1 DEF OwnInv, TypeOK, RoomInv
  <2>3. bad = None => PoolInv' /\ Busy' /\ FdInv' /\ PeerInv' /\ \A c \in Conn : Shape(conn'[c])
    BY <2>1 DEF OwnInv, PoolInv, Busy, FdInv, PeerInv
  <2>4. bad = None => Owned(Tasks, fio, freeq)'
    BY <2>1 DEF OwnInv, Owned, Tasks
  <2>5. OwnInv'
    BY <2>1, <2>2, <2>3, <2>4 DEF OwnInv
  <2>6. OpInv' /\ CorruptedOnlyBy'
    BY <2>1 DEF OpInv, CorruptedOnlyBy, LeftEarly, Asked
  <2> QED BY <2>5, <2>6
<1> QED BY <1>1, <1>2

\* The invariant that the other proofs build on: connections, tasks and descriptors have
\* one owner (OwnInv), and the handlers that dn_request.c installs fit the request (OpInv).
THEOREM OwnInvariant == Spec => [](OwnInv /\ OpInv /\ CorruptedOnlyBy)
BY InitOwn, InitOp, OpStays, PTL DEF Spec

\* However clients, handlers, timers and workers interleave, and whatever fails,
\* dn_request_close and cfs_fio.c lose no connection, task or descriptor and give none
\* away twice, as long as the process is not corrupted.
THEOREM NothingLost == Spec => []Accounted
BY OwnInvariant, OwnAccounted, PTL

\* dn_request_close frees what is still in use only after a client left a download or its
\* last answer behind, after EAGAIN, or after fio_task_alloc_timeout was armed.
THEOREM CorruptionExplained == Spec => []CorruptedOnlyBy
BY OwnInvariant, PTL

----------------------------------------------------------------------------
(* UploadsMove *)

\* What MoveInv says of a connection and of a client.
Heard(c) == conn[c].rh = "header" /\ peer[conn[c].peer].rx > 0 => conn[c].edge \/ "in" \in posted[c]
Answers(c) ==
  conn[c].wh = "header" /\ peer[conn[c].peer].pc # "left" =>
    conn[c].etimer \/ conn[c].edge \/ "out" \in posted[c] \/ Room(conn[c].peer) <= 0
Asks(p) == New(p) /\ peer[p].pc = "asked" => peer[p].rx > 0

\* Nothing happens to connection d and its client.
LEMMA Untouched ==
  ASSUME NEW d \in Conn, conn'[d] = conn[d], posted'[d] = posted[d],
         conn[d].peer # None => peer'[conn[d].peer] = peer[conn[d].peer],
         conn[d].rh = "header" \/ conn[d].wh = "header" => conn[d].peer # None,
         Heard(d), Answers(d)
  PROVE  Heard(d)' /\ Answers(d)'
BY DEF Heard, Answers, Room

LEMMA HasPeer ==
  ASSUME OwnInv, bad = None, NEW c \in Conn
  PROVE  /\ conn[c].peer \in Peer \cup {None}
         /\ conn[c].rh = "header" => conn[c].peer \in Peer /\ conn[c].peer # None /\ Waiting(conn[c])
         /\ conn[c].wh = "header" => conn[c].peer \in Peer /\ conn[c].peer # None /\ Opening(conn[c])
<1>1. conn[c].peer \in Peer \cup {None}
  BY DEF OwnInv, TypeOK, Conn_t
<1>2. Unused.rh = None /\ Unused.wh = None /\ None # "header"
  BY DEF Unused, None
<1>3. CASE conn[c] = Unused
  BY <1>1, <1>2, <1>3
<1>4. CASE conn[c] # Unused
  BY <1>4, InUse
<1> QED BY <1>3, <1>4

\* The room of a client that has not left.
LEMMA HasRoom ==
  ASSUME OwnInv, NEW p \in Peer, peer[p].pc # "left"
  PROVE  /\ Room(p) \in Nat /\ Len(peer[p].out) \in Nat /\ peer[p].taken \in Nat
         /\ Room(p) = TxCap - (Len(peer[p].out) - peer[p].taken)
         /\ peer[p].taken <= Len(peer[p].out)
<1> DEFINE o == Len(peer[p].out)
           n == peer[p].taken
<1>1. o \in Nat /\ n \in Nat
  <2>1. PICK q \in Client_t : q = peer[p]
    BY DEF OwnInv, TypeOK
  <2>2. Len(q.out) \in Nat /\ q.taken \in Nat
    BY DEF Client_t
  <2> QED BY <2>1, <2>2
<1>2. n <= o /\ o - n <= TxCap
  BY DEF OwnInv, RoomInv, Fits
<1>3. Room(p) = TxCap - (o - n)
  BY DEF Room
<1> HIDE DEF o, n
<1>4. Room(p) \in Nat
  BY <1>1, <1>2, <1>3, DnRequestAssumption
<1> QED BY <1>1, <1>2, <1>3, <1>4 DEF o, n

LEMMA MoveClient ==
  ASSUME OwnInv, MoveInv, bad = None, OwnInv', NEW p \in Peer, Moves(p)
  PROVE  MoveInv'
<1>1. /\ \A x \in Peer : Asks(x)
      /\ \A c \in Conn : Heard(c) /\ Answers(c)
  BY DEF MoveInv, Heard, Answers, Asks
<1>2. /\ ~peer[p].cut /\ ~peer'[p].cut /\ peer[p].pc # "left" /\ peer'[p].out = peer[p].out
      /\ \A x \in Peer \ {p} : peer'[x] = peer[x]
      /\ \A c \in Conn : SameBut(c) /\ (conn[c].edge => conn'[c].edge)
      /\ posted' = posted /\ bad' = bad
  BY DEF Moves
<1>3. \A c \in Conn : /\ conn'[c].peer = conn[c].peer /\ conn'[c].rh = conn[c].rh /\ conn'[c].wh = conn[c].wh
                      /\ conn'[c].etimer = conn[c].etimer
  BY <1>2 DEF SameBut
<1>4. \A x \in Peer : New(x)' => New(x)
  BY <1>2, <1>3 DEF New
<1>a. peer[p].rx \in Nat
  BY DEF OwnInv, TypeOK, Client_t
<1>5. ASSUME NEW x \in Peer PROVE Asks(x)'
  <2>1. CASE x # p
    BY <1>1, <1>2, <1>4, <2>1 DEF Asks
  <2>2. CASE x = p
    <3>1. New(p)' => New(p)
      BY <1>4
    <3> QED BY <1>1, <1>a, <2>2, <3>1 DEF Asks, Moves
  <2> QED BY <2>1, <2>2
<1>6. ASSUME NEW c \in Conn PROVE Heard(c)'
  <2> SUFFICES ASSUME conn[c].rh = "header", peer'[conn[c].peer].rx > 0
               PROVE  conn'[c].edge \/ "in" \in posted[c]
    BY <1>2, <1>3 DEF Heard
  <2>1. conn[c].peer \in Peer /\ "in" \in conn[c].sub
    BY HasPeer DEF Waiting
  <2>2. CASE peer'[conn[c].peer].rx = peer[conn[c].peer].rx
    BY <1>1, <1>2, <2>2 DEF Heard
  <2>3. CASE peer'[conn[c].peer].rx # peer[conn[c].peer].rx
    <3>1. conn[c].peer = p
      BY <1>2, <2>1, <2>3
    <3>2. Edges(p, "in")
      BY <2>3, <3>1 DEF Moves
    <3> QED BY <2>1, <3>1, <3>2 DEF Edges
  <2> QED BY <2>2, <2>3
<1>7. ASSUME NEW c \in Conn PROVE Answers(c)'
  <2> DEFINE x == conn[c].peer
  <2> SUFFICES ASSUME conn[c].wh = "header", peer'[x].pc # "left"
               PROVE  conn[c].etimer \/ conn'[c].edge \/ "out" \in posted[c] \/ Room(x)' <= 0
    BY <1>2, <1>3 DEF Answers, Room
  <2>1. x \in Peer /\ "out" \in conn[c].sub
    BY HasPeer DEF Opening
  <2>2. peer[x].pc # "left"
    BY <1>2, <2>1
  <2>3. conn[c].etimer \/ conn[c].edge \/ "out" \in posted[c] \/ Room(x) <= 0
    BY <1>1, <2>2 DEF Answers
  <2>4. CASE peer'[x].taken = peer[x].taken
    <3>2. peer'[x].out = peer[x].out
      BY <1>2, <2>1
    <3>1. Room(x)' = Room(x)
      <4>1. conn'[c].peer = conn[c].peer
        BY <1>3
      <4> QED BY <2>4, <3>2, <4>1 DEF Room
    <3> QED BY <1>2, <2>3, <3>1
  <2>5. CASE peer'[x].taken # peer[x].taken
    <3>1. x = p
      BY <1>2, <2>1, <2>5
    <3>2. Room(p) = 0 => Edges(p, "out")
      BY <2>5, <3>1 DEF Moves
    <3>3. Room(p) \in Nat
      BY <1>2, HasRoom
    <3>4. CASE Room(p) = 0
      BY <2>1, <3>1, <3>2, <3>4 DEF Edges
    <3>5. CASE Room(p) # 0
      BY <1>2, <2>3, <3>1, <3>3, <3>5
    <3> QED BY <3>4, <3>5
  <2> QED BY <2>4, <2>5
<1>8. \A x \in Peer : Asks(x)'
  BY <1>5
<1>9. \A c \in Conn : Heard(c)' /\ Answers(c)'
  BY <1>6, <1>7
<1> QED BY <1>8, <1>9 DEF MoveInv, Heard, Answers, Asks

LEMMA MoveListen ==
  ASSUME OwnInv, MoveInv, bad = None, OwnInv', NEW p \in Peer,
         TurnsAway(p) \/ \E c \in Conn : Accepts(p, c)
  PROVE  MoveInv'
<1>1. /\ \A x \in Peer : Asks(x)
      /\ \A c \in Conn : Heard(c) /\ Answers(c)
  BY DEF MoveInv, Heard, Answers, Asks
<1>2. CASE TurnsAway(p)
  <2>1. /\ \A c \in Conn : conn[c].peer # p
        /\ peer'[p] = [peer[p] EXCEPT !.cut = TRUE] /\ \A x \in Peer \ {p} : peer'[x] = peer[x]
        /\ conn' = conn /\ posted' = posted /\ bad' = bad
    BY <1>2 DEF TurnsAway
  <2>2. peer'[p].cut
    BY <2>1 DEF OwnInv, TypeOK, Client_t
  <2>3. ASSUME NEW x \in Peer PROVE Asks(x)'
    <3>1. CASE x = p
      BY <2>2, <3>1 DEF Asks, New
    <3>2. CASE x # p
      BY <1>1, <2>1, <3>2 DEF Asks, New
    <3> QED BY <3>1, <3>2
  <2>4. ASSUME NEW c \in Conn PROVE Heard(c)' /\ Answers(c)'
    <3>1. conn[c].peer # None => peer'[conn[c].peer] = peer[conn[c].peer]
      BY <2>1, HasPeer
    <3>2. conn[c].rh = "header" \/ conn[c].wh = "header" => conn[c].peer # None
      BY HasPeer
    <3> QED BY <1>1, <2>1, <3>1, <3>2, Untouched
  <2> QED BY <2>3, <2>4 DEF MoveInv, Heard, Answers, Asks
<1>3. ASSUME NEW c \in Conn, Accepts(p, c) PROVE MoveInv'
  <2>1. /\ \A d \in Conn : conn[d].peer # p
        /\ conn[c] = Unused /\ Waiting(conn'[c]) /\ conn'[c].peer = p /\ conn'[c].edge
        /\ \A d \in Conn \ {c} : conn'[d] = conn[d]
        /\ peer' = peer /\ posted' = posted /\ bad' = bad
    BY <1>3 DEF Accepts
  <2>2. ASSUME NEW x \in Peer, New(x)' PROVE New(x)
    <3>1. \A d \in Conn : conn[d].peer = x => conn[d].rh = "header"
      <4> SUFFICES ASSUME NEW d \in Conn, conn[d].peer = x PROVE conn[d].rh = "header"
        OBVIOUS
      <4>1. d # c
        <5>1. Unused.peer = None /\ x # None
          BY DnRequestAssumption DEF Unused, None
        <5> QED BY <2>1, <5>1
      <4> QED BY <2>1, <2>2, <4>1 DEF New
    <3> QED BY <2>1, <2>2, <3>1 DEF New
  <2>3. ASSUME NEW x \in Peer PROVE Asks(x)'
    BY <1>1, <2>1, <2>2 DEF Asks
  <2>4. ASSUME NEW d \in Conn PROVE Heard(d)' /\ Answers(d)'
    <3>1. CASE d = c
      BY <2>1, <3>1 DEF Heard, Answers, Waiting, None
    <3>2. CASE d # c
      <4>1. conn[d].rh = "header" \/ conn[d].wh = "header" => conn[d].peer # None
        BY HasPeer
      <4> QED BY <1>1, <2>1, <3>2, <4>1, Untouched
    <3> QED BY <3>1, <3>2
  <2> QED BY <2>3, <2>4 DEF MoveInv, Heard, Answers, Asks
<1> QED BY <1>2, <1>3

LEMMA MoveReported ==
  ASSUME OwnInv, MoveInv, bad = None, OwnInv', NEW c \in Conn, Reported(c)
  PROVE  MoveInv'
<1>1. /\ \A x \in Peer : Asks(x)
      /\ \A d \in Conn : Heard(d) /\ Answers(d)
  BY DEF MoveInv, Heard, Answers, Asks
<1>2. /\ \A d \in Conn : SameBut(d) /\ (d # c => conn'[d] = conn[d] /\ posted'[d] = posted[d])
      /\ peer' = peer /\ bad' = bad
  BY DEF Reported
<1>3. \A d \in Conn : conn'[d].peer = conn[d].peer /\ conn'[d].rh = conn[d].rh
  BY <1>2 DEF SameBut
<1>4. ASSUME NEW x \in Peer PROVE Asks(x)'
  BY <1>1, <1>2, <1>3 DEF Asks, New
<1>5. ASSUME NEW d \in Conn PROVE Heard(d)' /\ Answers(d)'
  <2>1. CASE d # c
    <3>1. conn[d].rh = "header" \/ conn[d].wh = "header" => conn[d].peer # None
      BY HasPeer
    <3> QED BY <1>1, <1>2, <2>1, <3>1, Untouched
  <2>2. CASE d = c
    <3>1. /\ conn'[c].peer = conn[c].peer /\ conn'[c].rh = conn[c].rh /\ conn'[c].wh = conn[c].wh
      BY <1>2 DEF SameBut
    <3>2. /\ "in" \in conn[c].sub /\ conn[c].ract /\ peer[conn[c].peer].rx > 0 => "in" \in posted'[c]
          /\ "out" \in conn[c].sub /\ conn[c].wact /\ Room(conn[c].peer) > 0 => "out" \in posted'[c]
      BY DEF Reported
    <3>3. conn[c].rh = "header" => "in" \in conn[c].sub /\ conn[c].ract
      BY HasPeer DEF Waiting
    <3>4. Heard(c)'
      BY <1>2, <3>1, <3>2, <3>3 DEF Heard
    <3>5. Answers(c)'
      <4> SUFFICES ASSUME conn[c].wh = "header", peer[conn[c].peer].pc # "left"
                   PROVE  "out" \in posted'[c] \/ Room(conn[c].peer)' <= 0
        BY <1>2, <3>1 DEF Answers, Room
      <4>1. "out" \in conn[c].sub /\ conn[c].wact /\ conn[c].peer \in Peer
        BY HasPeer DEF Opening
      <4>2. Room(conn[c].peer) \in Nat
        BY <4>1, HasRoom
      <4>3. Room(conn[c].peer)' = Room(conn[c].peer)
        BY <1>2, <3>1 DEF Room
      <4> QED BY <3>2, <4>1, <4>2, <4>3
    <3> QED BY <2>2, <3>4, <3>5
  <2> QED BY <2>1, <2>2
<1> QED BY <1>4, <1>5 DEF MoveInv, Heard, Answers, Asks

\* A handler of connection c, once it is known what becomes of c.
LEMMA MoveOthers ==
  ASSUME OwnInv, MoveInv, bad = None, NEW c \in Conn, conn[c] # Unused, Frame(c),
         \/ peer'[conn[c].peer].cut
         \/ conn'[c].peer = conn[c].peer /\ conn'[c].rh # "header",
         Heard(c)', Answers(c)'
  PROVE  MoveInv'
<1>1. /\ \A x \in Peer : Asks(x)
      /\ \A d \in Conn : Heard(d) /\ Answers(d)
  BY DEF MoveInv, Heard, Answers, Asks
<1>2. ASSUME NEW x \in Peer PROVE Asks(x)'
  <2>1. New(x)' => New(x) /\ peer'[x] = peer[x]
    BY NewStays
  <2> QED BY <1>1, <2>1 DEF Asks
<1>3. ASSUME NEW d \in Conn PROVE Heard(d)' /\ Answers(d)'
  <2>1. CASE d # c
    <3>1. conn[d].rh = "header" \/ conn[d].wh = "header" => conn[d].peer # None
      BY HasPeer
    <3>2. /\ conn'[d] = conn[d] /\ posted'[d] = posted[d]
          /\ conn[d].peer # None => peer'[conn[d].peer] = peer[conn[d].peer]
      BY <2>1, Others
    <3> QED BY <1>1, <3>1, <3>2, Untouched
  <2>2. CASE d = c
    BY <2>2
  <2> QED BY <2>1, <2>2
<1> QED BY <1>2, <1>3 DEF MoveInv, Heard, Answers, Asks

LEMMA MoveHandler ==
  ASSUME OwnInv, MoveInv, bad = None, OwnInv', NEW c \in Conn, conn[c] # Unused,
         Step(c) \/ (Frame(c) /\ Opens(c))
  PROVE  MoveInv'
<1>1. CASE Frame(c) /\ Opens(c)
  <2>1. Opening(conn'[c]) /\ conn'[c].edge /\ conn'[c].peer = conn[c].peer
    BY <1>1 DEF Opens
  <2>2. Heard(c)' /\ Answers(c)' /\ conn'[c].rh # "header"
    BY <2>1 DEF Heard, Answers, Opening
  <2> QED BY <1>1, <2>1, <2>2, MoveOthers
<1>2. CASE Step(c)
  <2> SUFFICES ASSUME bad' = None PROVE MoveInv'
    BY DEF MoveInv
  <2>0. Frame(c)
    BY <1>2 DEF Step
  <2>1. CASE conn'[c] = Unused /\ peer'[conn[c].peer].cut
    <3>1. Unused.rh # "header" /\ Unused.wh # "header"
      BY DEF Unused, None
    <3>2. Heard(c)' /\ Answers(c)'
      BY <2>1, <3>1 DEF Heard, Answers
    <3> QED BY <2>0, <2>1, <3>2, MoveOthers
  <2>2. CASE /\ Starves(c) \/ Writes(c) \/ Reads(c) \/ Retries(c) \/ Sames(c)
             /\ conn'[c].peer = conn[c].peer /\ conn'[c].rh # "header"
    <3>1. Heard(c)'
      BY <2>2 DEF Heard
    <3>2. CASE conn'[c].wh # "header"
      <4>1. Answers(c)'
        BY <3>2 DEF Answers
      <4> QED BY <2>0, <2>2, <3>1, <4>1, MoveOthers
    <3>3. CASE conn'[c].etimer
      <4>1. Answers(c)'
        BY <3>3 DEF Answers
      <4> QED BY <2>0, <2>2, <3>1, <4>1, MoveOthers
    <3>4. CASE conn'[c] = conn[c] /\ posted'[c] = posted[c] \ {"in"} /\ peer' = peer
      <4>1. Answers(c)
        BY DEF MoveInv, Answers
      <4>2. Room(conn[c].peer)' = Room(conn[c].peer)
        BY <3>4 DEF Room
      <4>3. Answers(c)'
        BY <3>4, <4>1, <4>2 DEF Answers, Room
      <4> QED BY <2>0, <2>2, <3>1, <4>3, MoveOthers
    <3> QED BY <2>2, <3>2, <3>3, <3>4 DEF Starves, Writes, Reads, Retries, Sames, Working
  <2> QED BY <1>2, <2>1, <2>2, StepConn
<1> QED BY <1>1, <1>2

LEMMA MoveWorker ==
  ASSUME OwnInv, MoveInv, bad = None, OwnInv', NEW f \in Fio, Wrote(f) \/ Sent(f)
  PROVE  MoveInv'
<1>1. /\ \A x \in Peer : Asks(x)
      /\ \A d \in Conn : Heard(d) /\ Answers(d)
  BY DEF MoveInv, Heard, Answers, Asks
<1>2. conn' = conn /\ posted' = posted /\ bad' = bad
  BY DEF Wrote, Sent, SameTask
<1>3. CASE peer' = peer
  BY <1>2, <1>3 DEF MoveInv, New, Room
<1>4. ASSUME NEW p \in Peer, NEW o, NEW n \in Nat, n > 0, n <= Room(p),
             peer'[p] = [peer[p] EXCEPT !.out = o], \A x \in Peer \ {p} : peer'[x] = peer[x]
      PROVE  MoveInv'
  <2>1. peer[p] \in Client_t
    BY DEF OwnInv, TypeOK
  <2>2. \A x \in Peer : peer'[x].rx = peer[x].rx /\ peer'[x].pc = peer[x].pc /\ peer'[x].cut = peer[x].cut
    <3>1. peer'[p].rx = peer[p].rx /\ peer'[p].pc = peer[p].pc /\ peer'[p].cut = peer[p].cut
      BY <1>4, <2>1 DEF Client_t
    <3> QED BY <1>4, <3>1
  <2>3. ASSUME NEW x \in Peer PROVE Asks(x)'
    BY <1>1, <1>2, <2>2 DEF Asks, New
  <2>4. ASSUME NEW d \in Conn PROVE Heard(d)' /\ Answers(d)'
    <3> DEFINE x == conn[d].peer
    <3>1. Heard(d)'
      BY <1>1, <1>2, <2>2, HasPeer DEF Heard
    <3>2. Answers(d)'
      <4> SUFFICES ASSUME conn[d].wh = "header", peer'[x].pc # "left"
                   PROVE  conn[d].etimer \/ conn[d].edge \/ "out" \in posted[d] \/ Room(x)' <= 0
        BY <1>2 DEF Answers, Room
      <4>1. x \in Peer /\ peer[x].pc # "left"
        BY <2>2, HasPeer
      <4>2. conn[d].etimer \/ conn[d].edge \/ "out" \in posted[d] \/ Room(x) <= 0
        BY <1>1, <4>1 DEF Answers
      <4>3. Room(x) \in Nat
        BY <4>1, HasRoom
      <4>4. CASE x = p
        BY <1>4, <4>2, <4>3, <4>4
      <4>5. CASE x # p
        <5>1. peer'[x] = peer[x]
          BY <1>4, <4>1, <4>5
        <5>2. Room(x)' = Room(x)
          BY <1>2, <5>1 DEF Room
        <5> QED BY <4>2, <5>2
      <4> QED BY <4>4, <4>5
    <3> QED BY <3>1, <3>2
  <2> QED BY <2>3, <2>4 DEF MoveInv, Heard, Answers, Asks
<1>5. \/ peer' = peer
      \/ \E p \in Peer, n \in Nat : \E o :
           /\ n > 0 /\ n <= Room(p) /\ peer'[p] = [peer[p] EXCEPT !.out = o]
           /\ \A x \in Peer \ {p} : peer'[x] = peer[x]
  BY DEF Wrote, Sent
<1> QED BY <1>3, <1>4, <1>5

LEMMA MoveKept ==
  ASSUME OwnInv, MoveInv, bad = None, OwnInv', Effect
  PROVE  MoveInv'
BY MoveClient, MoveListen, MoveReported, MoveHandler, MoveWorker DEF Effect

LEMMA InitMove == Init => MoveInv
<1> SUFFICES ASSUME Init PROVE MoveInv
  OBVIOUS
<1>1. /\ \A p \in Peer : peer[p].pc = "new"
      /\ \A c \in Conn : conn[c] = Unused
  BY DEF Init
<1>2. Unused.rh # "header" /\ Unused.wh # "header"
  BY DEF Unused, None
<1> QED BY <1>1, <1>2 DEF MoveInv

LEMMA MovesOn ==
  ASSUME OwnInv, MoveInv
  PROVE  UploadsMove
<1> SUFFICES ASSUME NEW p \in Peer, peer[p].pc = "asked", ~peer[p].cut, bad = None,
                    ~(peer[p].taken < Len(peer[p].out)), NEW c \in Conn, conn[c].peer = p
             PROVE  Told(c)
  BY DEF UploadsMove
<1>1. p # None /\ conn[c] # Unused
  BY DnRequestAssumption DEF Unused, None
<1>2. /\ Waiting(conn[c]) \/ Opening(conn[c]) \/ Working(conn[c])
      /\ Working(conn[c]) => conn[c].fio \in Fio /\ fio[conn[c].fio].io # "own"
  BY <1>1, InUse
<1>3. CASE Waiting(conn[c])
  <2>1. New(p)
    <3>1. \A d \in Conn : conn[d].peer = p => d = c
      BY <1>1 DEF OwnInv, PeerInv
    <3> QED BY <1>3, <3>1 DEF New, Waiting
  <2>2. peer[p].rx > 0
    BY <2>1 DEF MoveInv
  <2>3. conn[c].edge \/ "in" \in posted[c]
    BY <1>3, <2>2 DEF MoveInv, Waiting
  <2> QED BY <1>3, <2>3 DEF Told, Waiting
<1>4. CASE Opening(conn[c])
  <2>1. conn[c].etimer \/ conn[c].edge \/ "out" \in posted[c] \/ Room(p) <= 0
    BY <1>4 DEF MoveInv, Opening
  <2>2. Room(p) > 0
    <3> DEFINE o == Len(peer[p].out)
               n == peer[p].taken
    <3>1. o \in Nat /\ n \in Nat /\ n <= o /\ Room(p) = TxCap - (o - n)
      BY HasRoom
    <3>2. ~(n < o)
      OBVIOUS
    <3> HIDE DEF o, n
    <3> QED BY <3>1, <3>2, DnRequestAssumption
  <2>3. Room(p) \in Nat
    BY HasRoom
  <2>4. conn[c].etimer \/ conn[c].edge \/ "out" \in posted[c]
    BY <2>1, <2>2, <2>3
  <2> QED BY <1>4, <2>4 DEF Told, Opening
<1>5. CASE Working(conn[c])
  BY <1>2, <1>5 DEF Told, Working
<1> QED BY <1>2, <1>3, <1>4, <1>5

LEMMA MoveStays ==
  ASSUME OwnInv, OpInv, MoveInv, [Next]_vars
  PROVE  MoveInv'
<1>1. CASE Next
  BY <1>1, NextEffect, MoveKept
<1>2. CASE UNCHANGED vars
  BY <1>2 DEF vars, MoveInv, New, Room
<1> QED BY <1>1, <1>2

\* Edge-triggered epoll, the handlers that drop events and the deletion of the write timer
\* never leave an upload whose client stays without anything that will wake it up.
THEOREM UploadsProceed == Spec => []UploadsMove
<1>1. Init => OwnInv /\ OpInv /\ CorruptedOnlyBy /\ MoveInv
  BY InitOwn, InitOp, InitMove
<1>2. OwnInv /\ OpInv /\ CorruptedOnlyBy /\ MoveInv /\ [Next]_vars
        => (OwnInv /\ OpInv /\ CorruptedOnlyBy /\ MoveInv)'
  BY OpStays, MoveStays
<1>3. OwnInv /\ OpInv /\ CorruptedOnlyBy /\ MoveInv => UploadsMove
  BY MovesOn
<1> QED BY <1>1, <1>2, <1>3, PTL DEF Spec

----------------------------------------------------------------------------
(* PublishedWhole *)

Uploads(c) == Asked(c) /\ peer[conn[c].peer].op = "write" => Uploading(c)

\* The files on the disk.
Files ==
  /\ PublishedWhole
  /\ \A b \in Block : /\ tmp[b] # None => "write" \in Ops[tmp[b]] /\ Blk[tmp[b]] = b
                      /\ file[b] \in Block => file[b] = b
Unpublished ==
  \A p \in Peer, b \in Block : /\ ~peer[p].cut => file[b] # p
                               /\ New(p) => tmp[b] # p

\* Nothing that an upload is about changes, except that its client may send.
LEMMA UploadSame ==
  ASSUME OwnInv, bad = None, NEW d \in Conn, Uploads(d),
         conn'[d].peer = conn[d].peer, conn'[d].rh = conn[d].rh, conn'[d].fio = conn[d].fio,
         conn'[d].store = conn[d].store, conn'[d].done = conn[d].done,
         Asked(d) => peer'[conn[d].peer].op = peer[conn[d].peer].op,
         Asked(d) /\ peer[conn[d].peer].op = "write" =>
           /\ \E k \in Nat : /\ peer'[conn[d].peer].rx = peer[conn[d].peer].rx + k
                             /\ peer'[conn[d].peer].sent = peer[conn[d].peer].sent + k
           /\ fdt'[conn[d].store] = fdt[conn[d].store]
           /\ tmp'[Blk[conn[d].peer]] = tmp[Blk[conn[d].peer]] /\ data'[conn[d].peer] = data[conn[d].peer]
           /\ conn[d].fio # None => fio'[conn[d].fio] = fio[conn[d].fio]
  PROVE  Uploads(d)'
<1> DEFINE p == conn[d].peer
           t == fio[conn[d].fio]
<1> SUFFICES ASSUME Asked(d), peer[p].op = "write" PROVE Uploading(d)'
  BY DEF Uploads, Asked
<1>1. /\ conn[d].done + peer[p].rx + InFlight(d) <= peer[p].sent
      /\ fdt[conn[d].store] = <<"file", p>> /\ tmp[Blk[p]] = p
      /\ \/ conn[d].fio = None /\ data[p] = 1 .. conn[d].done
         \/ /\ conn[d].fio # None /\ t.fd = conn[d].store /\ t.off = conn[d].done
            /\ \/ t.io = "pending" /\ data[p] = 1 .. conn[d].done
               \/ t.io = "done" /\ t.ret = t.need /\ data[p] = 1 .. conn[d].done + t.need
               \/ t.io = "done" /\ t.ret # t.need
  BY DEF Uploads, Uploading
<1>2. p \in Peer /\ conn[d].done \in Nat /\ peer[p].rx \in Nat /\ peer[p].sent \in Nat /\ InFlight(d) \in Nat
  <2>1. p \in Peer /\ conn[d].done \in Nat /\ conn[d].fio \in Fio \cup {None}
    BY DEF Asked, OwnInv, TypeOK, Conn_t
  <2>2. peer[p].rx \in Nat /\ peer[p].sent \in Nat
    BY <2>1 DEF OwnInv, TypeOK, Client_t
  <2>3. conn[d].fio # None => fio[conn[d].fio].need \in Nat
    BY <2>1 DEF OwnInv, TypeOK, Fio_t
  <2> QED BY <2>1, <2>2, <2>3 DEF InFlight
<1>3. InFlight(d)' = InFlight(d)
  BY DEF InFlight
<1>4. conn[d].done + peer'[p].rx + InFlight(d) <= peer'[p].sent
  <2>1. PICK k \in Nat : peer'[p].rx = peer[p].rx + k /\ peer'[p].sent = peer[p].sent + k
    OBVIOUS
  <2> DEFINE a == conn[d].done
             x == peer[p].rx
             i == InFlight(d)
             s == peer[p].sent
  <2>2. a \in Nat /\ x \in Nat /\ i \in Nat /\ s \in Nat /\ a + x + i <= s
    BY <1>1, <1>2
  <2>3. peer'[p].rx = x + k /\ peer'[p].sent = s + k
    BY <2>1
  <2> HIDE DEF a, x, i, s
  <2>4. a + (x + k) + i <= s + k
    BY <2>2
  <2> QED BY <2>3, <2>4 DEF a, i
<1>5. (conn[d].done + peer[p].rx + InFlight(d) <= peer[p].sent)'
  BY <1>3, <1>4
<1> QED BY <1>1, <1>5 DEF Uploading

\* Of two uploads that have been asked for, each has a block of its own.
LEMMA OwnBlock ==
  ASSUME OneUpload, OwnInv, OpInv, bad = None, NEW p \in Peer, NEW q \in Peer, p # q,
         peer[p].op = "write", peer[q].op = "write"
  PROVE  Blk[p] # Blk[q]
<1>1. "write" \in Ops[p] /\ "write" \in Ops[q]
  BY DEF OpInv, None
<1> QED BY <1>1 DEF OneUpload

LEMMA UploadClient ==
  ASSUME OwnInv, OpInv, UploadInv, bad = None, NEW p \in Peer, Moves(p)
  PROVE  UploadInv'
<1>1. /\ \A x \in Peer : peer[x].sent <= Size[Blk[x]]
      /\ Files /\ Unpublished /\ \A c \in Conn : Uploads(c)
  BY DEF UploadInv, Files, Uploads, Unpublished
<1>2. /\ ~peer[p].cut /\ ~peer'[p].cut
      /\ \A x \in Peer \ {p} : peer'[x] = peer[x]
      /\ \A c \in Conn : SameBut(c)
      /\ fio' = fio /\ tmp' = tmp /\ file' = file /\ data' = data /\ index' = index /\ bad' = bad /\ fdt' = fdt
  BY DEF Moves, tasks, disk
<1>3. \A c \in Conn : /\ conn'[c].peer = conn[c].peer /\ conn'[c].rh = conn[c].rh /\ conn'[c].fio = conn[c].fio
                      /\ conn'[c].store = conn[c].store /\ conn'[c].done = conn[c].done
  BY <1>2 DEF SameBut
<1>4. /\ \/ /\ peer'[p].op = peer[p].op
            /\ \E k \in Nat : peer'[p].rx = peer[p].rx + k /\ peer'[p].sent = peer[p].sent + k
         \/ peer[p].op = None
      /\ peer'[p].sent <= Size[Blk[p]]
  <2>1. peer[p].sent \in Nat /\ peer[p].rx \in Nat
    BY DEF OwnInv, TypeOK, Client_t
  <2>2. Size[Blk[p]] \in Nat /\ peer[p].sent <= Size[Blk[p]]
    BY <1>1, DnRequestAssumption
  <2>3. CASE peer'[p].sent = peer[p].sent /\ peer'[p].rx = peer[p].rx /\ peer'[p].op = peer[p].op
    <3>1. peer'[p].rx = peer[p].rx + 0 /\ peer'[p].sent = peer[p].sent + 0
      BY <2>1, <2>3
    <3> QED BY <2>2, <2>3, <3>1
  <2>4. CASE peer[p].pc = "open" /\ peer'[p].sent = peer[p].sent
    BY <2>2, <2>4 DEF OpInv
  <2>5. CASE /\ peer'[p].sent = peer[p].sent + 1 /\ peer'[p].rx = peer[p].rx + 1 /\ peer'[p].op = peer[p].op
             /\ peer[p].sent < Size[Blk[p]]
    BY <2>1, <2>2, <2>5
  <2> QED BY <2>3, <2>4, <2>5 DEF Moves
<1>5. \A x \in Peer : New(x)' => New(x)
  BY <1>2, <1>3 DEF New
<1>6. ASSUME NEW c \in Conn PROVE Uploads(c)'
  <2> DEFINE x == conn[c].peer
  <2>1. ASSUME Asked(c)
        PROVE  /\ peer'[x].op = peer[x].op
               /\ \E k \in Nat : peer'[x].rx = peer[x].rx + k /\ peer'[x].sent = peer[x].sent + k
    <3>1. x \in Peer /\ peer[x].op \in {"write", "read"}
      BY <2>1, HasPeer DEF OpInv, Asked
    <3>2. CASE x = p
      BY <1>4, <3>1, <3>2 DEF None
    <3>3. CASE x # p
      <4>1. peer'[x] = peer[x] /\ peer[x].rx \in Nat /\ peer[x].sent \in Nat
        BY <1>2, <3>1, <3>3 DEF OwnInv, TypeOK, Client_t
      <4>2. peer'[x].rx = peer[x].rx + 0 /\ peer'[x].sent = peer[x].sent + 0
        BY <4>1
      <4> QED BY <4>1, <4>2
    <3> QED BY <3>2, <3>3
  <2> HIDE DEF x
  <2>2. Uploads(c)
    BY <1>1
  <2> QED BY <1>2, <1>3, <2>1, <2>2, UploadSame DEF x
<1>7. Files'
  BY <1>1, <1>2 DEF Files, PublishedWhole
<1>8. Unpublished'
  <2> SUFFICES ASSUME NEW x \in Peer, NEW b \in Block
               PROVE  (~peer'[x].cut => file[b] # x) /\ (New(x)' => tmp[b] # x)
    BY <1>2 DEF Unpublished
  <2>1. ~peer'[x].cut => ~peer[x].cut
    BY <1>2
  <2> QED BY <1>1, <1>5, <2>1 DEF Unpublished
<1>9. \A x \in Peer : peer'[x].sent <= Size[Blk[x]]
  BY <1>1, <1>2, <1>4
<1>10. \A c \in Conn : Uploads(c)'
  BY <1>6
<1> QED BY <1>7, <1>8, <1>9, <1>10 DEF UploadInv, Files, Uploads, Unpublished

\* A step that changes no file, no task and no client, and nothing of a request.
LEMMA UploadQuiet ==
  ASSUME OwnInv, UploadInv, bad = None, tmp' = tmp, file' = file, data' = data, index' = index,
         \A x \in Peer : /\ peer'[x].op = peer[x].op /\ peer'[x].rx = peer[x].rx /\ peer'[x].sent = peer[x].sent
                         /\ peer[x].cut => peer'[x].cut,
         \A x \in Peer : New(x)' => New(x),
         \A c \in Conn : \/ /\ conn'[c].peer = conn[c].peer /\ conn'[c].rh = conn[c].rh
                            /\ conn'[c].fio = conn[c].fio /\ conn'[c].store = conn[c].store
                            /\ conn'[c].done = conn[c].done
                         \/ conn'[c].rh = "header",
         \A c \in Conn : conn[c].store # 0 => fdt'[conn[c].store] = fdt[conn[c].store],
         \A c \in Conn : conn[c].fio # None /\ peer[conn[c].peer].op = "write" =>
            fio'[conn[c].fio] = fio[conn[c].fio]
  PROVE  UploadInv'
<1>1. /\ \A x \in Peer : peer[x].sent <= Size[Blk[x]]
      /\ Files /\ Unpublished /\ \A c \in Conn : Uploads(c)
  BY DEF UploadInv, Files, Uploads, Unpublished
<1>2. ASSUME NEW c \in Conn PROVE Uploads(c)'
  <2> DEFINE x == conn[c].peer
  <2>1. CASE conn'[c].rh = "header"
    BY <2>1 DEF Uploads, Asked
  <2>2. CASE /\ conn'[c].peer = conn[c].peer /\ conn'[c].rh = conn[c].rh
             /\ conn'[c].fio = conn[c].fio /\ conn'[c].store = conn[c].store
             /\ conn'[c].done = conn[c].done
    <3>1. ASSUME Asked(c)
          PROVE  /\ peer'[x].op = peer[x].op /\ x \in Peer
                 /\ \E k \in Nat : peer'[x].rx = peer[x].rx + k /\ peer'[x].sent = peer[x].sent + k
                 /\ fdt'[conn[c].store] = fdt[conn[c].store]
      <4>1. x \in Peer /\ x # None
        BY <3>1, HasPeer DEF Asked
      <4>2. peer[x].rx \in Nat /\ peer[x].sent \in Nat
        BY <4>1 DEF OwnInv, TypeOK, Client_t
      <4>3. peer'[x].rx = peer[x].rx + 0 /\ peer'[x].sent = peer[x].sent + 0 /\ peer'[x].op = peer[x].op
        BY <4>1, <4>2
      <4>4. conn[c].store # 0
        BY <3>1, <4>1, UsedConn DEF Asked, Waiting, Opening, Working
      <4> QED BY <4>1, <4>3, <4>4
    <3>2. Uploads(c)
      BY <1>1
    <3> HIDE DEF x
    <3> QED BY <2>2, <3>1, <3>2, UploadSame DEF x
  <2> QED BY <2>1, <2>2
<1>3. Files'
  BY <1>1 DEF Files, PublishedWhole
<1>4. Unpublished'
  BY <1>1 DEF Unpublished
<1>5. \A x \in Peer : peer'[x].sent <= Size[Blk[x]]
  BY <1>1
<1>6. \A c \in Conn : Uploads(c)'
  BY <1>2
<1> QED BY <1>3, <1>4, <1>5, <1>6 DEF UploadInv, Files, Uploads, Unpublished

LEMMA UploadRest ==
  ASSUME OwnInv, OpInv, UploadInv, bad = None,
         \/ \E p \in Peer : TurnsAway(p)
         \/ \E p \in Peer, c \in Conn : Accepts(p, c)
         \/ \E c \in Conn : Reported(c)
         \/ \E f \in Fio : Sent(f)
  PROVE  UploadInv'
<1>1. ASSUME NEW p \in Peer, TurnsAway(p) PROVE UploadInv'
  <2>1. /\ \A c \in Conn : conn[c].peer # p
        /\ peer'[p] = [peer[p] EXCEPT !.cut = TRUE] /\ \A x \in Peer \ {p} : peer'[x] = peer[x]
        /\ conn' = conn /\ fio' = fio /\ tmp' = tmp /\ file' = file /\ data' = data /\ index' = index
        /\ fdt' = fdt
    BY <1>1 DEF TurnsAway, tasks, disk
  <2>2. /\ peer'[p].cut /\ peer'[p].op = peer[p].op /\ peer'[p].rx = peer[p].rx /\ peer'[p].sent = peer[p].sent
    <3>1. peer[p] \in Client_t
      BY DEF OwnInv, TypeOK
    <3> QED BY <2>1, <3>1 DEF Client_t
  <2>3. \A x \in Peer : New(x)' => New(x)
    <3> SUFFICES ASSUME NEW x \in Peer, New(x)' PROVE New(x)
      OBVIOUS
    <3>1. x # p
      BY <2>2 DEF New
    <3> QED BY <2>1, <3>1 DEF New
  <2>4. \A x \in Peer : /\ peer'[x].op = peer[x].op /\ peer'[x].rx = peer[x].rx /\ peer'[x].sent = peer[x].sent
                        /\ peer[x].cut => peer'[x].cut
    BY <2>1, <2>2
  <2> QED BY <2>1, <2>3, <2>4, UploadQuiet
<1>2. ASSUME NEW p \in Peer, NEW c \in Conn, Accepts(p, c) PROVE UploadInv'
  <2>1. /\ \A d \in Conn : conn[d].peer # p
        /\ conn[c] = Unused /\ conn'[c].rh = "header" /\ conn'[c].peer = p
        /\ \A d \in Conn \ {c} : conn'[d] = conn[d]
        /\ \A d \in Conn : conn[d].store # 0 => fdt'[conn[d].store] = fdt[conn[d].store]
        /\ peer' = peer /\ fio' = fio /\ tmp' = tmp /\ file' = file /\ data' = data /\ index' = index
    BY <1>2 DEF Accepts, Waiting, tasks, disk
  <2>2. \A x \in Peer : New(x)' => New(x)
    <3> SUFFICES ASSUME NEW x \in Peer, New(x)', NEW d \in Conn, conn[d].peer = x
                 PROVE  conn[d].rh = "header"
      BY <2>1 DEF New
    <3>1. Unused.peer = None /\ x # None
      BY DnRequestAssumption DEF Unused, None
    <3>2. d # c
      BY <2>1, <3>1
    <3> QED BY <2>1, <3>2 DEF New
  <2>3. \A d \in Conn : \/ /\ conn'[d].peer = conn[d].peer /\ conn'[d].rh = conn[d].rh
                            /\ conn'[d].fio = conn[d].fio /\ conn'[d].store = conn[d].store
                            /\ conn'[d].done = conn[d].done
                         \/ conn'[d].rh = "header"
    BY <2>1
  <2> QED BY <2>1, <2>2, <2>3, UploadQuiet
<1>3. ASSUME NEW c \in Conn, Reported(c) PROVE UploadInv'
  <2>1. /\ \A d \in Conn : SameBut(d)
        /\ peer' = peer /\ fio' = fio /\ tmp' = tmp /\ file' = file /\ data' = data /\ index' = index /\ fdt' = fdt
    BY <1>3 DEF Reported, tasks, disk
  <2>2. \A d \in Conn : /\ conn'[d].peer = conn[d].peer /\ conn'[d].rh = conn[d].rh
                        /\ conn'[d].fio = conn[d].fio /\ conn'[d].store = conn[d].store
                        /\ conn'[d].done = conn[d].done
    BY <2>1 DEF SameBut
  <2>3. \A x \in Peer : New(x)' => New(x)
    BY <2>1, <2>2 DEF New
  <2> QED BY <2>1, <2>2, <2>3, UploadQuiet
<1>4. ASSUME NEW f \in Fio, Sent(f) PROVE UploadInv'
  <2>1. /\ SameTask(f) /\ peer[conn[fio[f].conn].peer].op = "read" /\ data' = data
    BY <1>4 DEF Sent
  <2>2. /\ conn' = conn /\ tmp' = tmp /\ file' = file /\ index' = index /\ fdt' = fdt
        /\ \A g \in Fio \ {f} : fio'[g] = fio[g]
    BY <2>1 DEF SameTask
  <2>3. \A x \in Peer : /\ peer'[x].op = peer[x].op /\ peer'[x].rx = peer[x].rx /\ peer'[x].sent = peer[x].sent
                        /\ peer'[x].cut = peer[x].cut
    <3>1. CASE peer' = peer
      BY <3>1
    <3>2. ASSUME NEW p \in Peer, NEW o, peer'[p] = [peer[p] EXCEPT !.out = o],
                 \A x \in Peer \ {p} : peer'[x] = peer[x]
          PROVE  \A x \in Peer : /\ peer'[x].op = peer[x].op /\ peer'[x].rx = peer[x].rx
                                 /\ peer'[x].sent = peer[x].sent /\ peer'[x].cut = peer[x].cut
      <4>1. peer[p] \in Client_t
        BY DEF OwnInv, TypeOK
      <4>2. /\ peer'[p].op = peer[p].op /\ peer'[p].rx = peer[p].rx /\ peer'[p].sent = peer[p].sent
            /\ peer'[p].cut = peer[p].cut
        BY <3>2, <4>1 DEF Client_t
      <4> QED BY <3>2, <4>2
    <3>3. \/ peer' = peer
          \/ \E p \in Peer : \E o : /\ peer'[p] = [peer[p] EXCEPT !.out = o]
                                    /\ \A x \in Peer \ {p} : peer'[x] = peer[x]
      BY <1>4 DEF Sent
    <3> QED BY <3>1, <3>2, <3>3
  <2>4. \A x \in Peer : New(x)' => New(x)
    BY <2>2, <2>3 DEF New
  <2>5. ASSUME NEW d \in Conn, conn[d].fio # None, peer[conn[d].peer].op = "write"
        PROVE  fio'[conn[d].fio] = fio[conn[d].fio]
    <3>1. conn[d].fio \in Fio
      BY <2>5 DEF OwnInv, TypeOK, Conn_t
    <3>2. conn[d].fio # f
      <4>1. fio[f].conn \in Conn /\ conn[fio[f].conn].fio = f
        BY <2>1, TaskConn DEF SameTask
      <4>2. conn[d].fio = f => d = fio[f].conn
        BY <2>5, <4>1 DEF OwnInv, Owned, Tasks
      <4> QED BY <2>1, <2>5, <4>2
    <3> QED BY <2>2, <3>1, <3>2
  <2> QED BY <2>1, <2>2, <2>3, <2>4, <2>5, UploadQuiet
<1> QED BY <1>1, <1>2, <1>3, <1>4

LEMMA UploadWrote ==
  ASSUME OwnInv, OpInv, UploadInv, bad = None, NEW f \in Fio, Wrote(f)
  PROVE  UploadInv'
<1> DEFINE t == fio[f]
           s == fio'[f]
<1>0. t.io # "own"
  BY DEF Wrote, SameTask
<1>a. PICK c \in Conn : c = t.conn
  BY <1>0, TaskConn
<1>b. PICK p \in Peer : p = conn[c].peer
  BY <1>0, <1>a, TaskConn
<1>1. /\ \A x \in Peer : peer[x].sent <= Size[Blk[x]]
      /\ Files /\ Unpublished /\ \A d \in Conn : Uploads(d)
  BY DEF UploadInv, Files, Uploads, Unpublished
<1>2. /\ SameTask(f) /\ peer[p].op = "write" /\ peer' = peer
      /\ s.io = "done" /\ s.off = t.off /\ s.need = t.need
      /\ \/ s.ret = t.need /\ data' = [data EXCEPT ![fdt[t.fd][2]] = @ \cup (t.off + 1 .. t.off + t.need)]
         \/ s.ret = ERROR /\ data' = data
  BY <1>a, <1>b DEF Wrote
<1>3. /\ conn' = conn /\ tmp' = tmp /\ file' = file /\ index' = index /\ fdt' = fdt /\ bad' = bad
      /\ \A g \in Fio \ {f} : fio'[g] = fio[g]
      /\ t.io = "pending" /\ s.fd = t.fd
  BY <1>2 DEF SameTask
<1>4. conn[c].peer = p /\ conn[c].fio = f /\ Working(conn[c]) /\ conn[c] # Unused
  BY <1>0, <1>a, <1>b, TaskConn
<1>5. Asked(c) /\ f # None /\ p # None
  BY <1>4, DnRequestAssumption DEF Asked, Working, None
<1>6. Uploading(c)
  BY <1>1, <1>2, <1>4, <1>5 DEF Uploads
<1>7. /\ conn[c].done + peer[p].rx + InFlight(c) <= peer[p].sent
      /\ fdt[conn[c].store] = <<"file", p>> /\ tmp[Blk[p]] = p
      /\ t.fd = conn[c].store /\ t.off = conn[c].done /\ data[p] = 1 .. conn[c].done
  BY <1>3, <1>4, <1>5, <1>6 DEF Uploading
<1>8. t.need \in Nat /\ conn[c].done \in Nat /\ data \in [Peer \cup Block -> SUBSET Nat]
  BY <1>4 DEF OwnInv, TypeOK, Fio_t, Conn_t
<1>c. fdt[t.fd][2] = p
  BY <1>7
<1>9. \A i \in Peer \cup Block : i # p => data'[i] = data[i]
  BY <1>2, <1>8, <1>c
<1>10. s.ret = t.need => data'[p] = 1 .. conn[c].done + t.need
  <2>1. CASE s.ret = ERROR
    BY <1>8, <2>1 DEF ERROR
  <2>2. CASE data' = [data EXCEPT ![fdt[t.fd][2]] = @ \cup (t.off + 1 .. t.off + t.need)]
    <3>1. data'[p] = (1 .. conn[c].done) \cup (conn[c].done + 1 .. conn[c].done + t.need)
      BY <1>7, <1>8, <1>c, <2>2
    <3> DEFINE a == conn[c].done
               n == t.need
    <3>2. a \in Nat /\ n \in Nat
      BY <1>8
    <3> HIDE DEF a, n
    <3>3. (1 .. a) \cup (a + 1 .. a + n) = 1 .. a + n
      BY <3>2
    <3> QED BY <3>1, <3>3 DEF a, n
  <2> QED BY <1>2, <2>1, <2>2
<1>11. Uploads(c)'
  <2>1. InFlight(c)' = InFlight(c)
    BY <1>2, <1>3, <1>4, <1>5 DEF InFlight
  <2>2. (conn[c].done + peer[p].rx + InFlight(c) <= peer[p].sent)'
    BY <1>2, <1>3, <1>7, <2>1
  <2>3. Uploading(c)'
    <3>1. /\ (conn[c].fio)' = f /\ (fdt[conn[c].store])' = <<"file", p>> /\ (tmp[Blk[conn[c].peer]])' = p
          /\ s.fd = (conn[c].store)' /\ s.off = (conn[c].done)' /\ (conn[c].peer)' = p
      BY <1>2, <1>3, <1>4, <1>7
    <3>2. \/ s.ret = s.need /\ data'[p] = 1 .. (conn[c].done)' + s.need
          \/ s.ret # s.need
      BY <1>2, <1>3, <1>10
    <3> QED BY <1>2, <1>3, <1>4, <1>5, <1>7, <2>2, <3>1, <3>2 DEF Uploading
  <2> QED BY <2>3 DEF Uploads
<1>12. ASSUME NEW d \in Conn, d # c PROVE Uploads(d)'
  <2> DEFINE x == conn[d].peer
  <2>1. x # None => x \in Peer /\ x # p
    BY <1>4, <1>12, HasPeer DEF OwnInv, PeerInv
  <2>2. conn[d].fio # None => fio'[conn[d].fio] = fio[conn[d].fio]
    <3> SUFFICES ASSUME conn[d].fio # None PROVE fio'[conn[d].fio] = fio[conn[d].fio]
      OBVIOUS
    <3>1. conn[d].fio \in Fio
      BY DEF OwnInv, TypeOK, Conn_t
    <3>2. conn[d].fio # f
      BY <1>4, <1>5, <1>12 DEF OwnInv, Owned, Tasks
    <3> QED BY <1>3, <3>1, <3>2
  <2>3. ASSUME Asked(d)
        PROVE  /\ data'[x] = data[x]
               /\ \E k \in Nat : peer'[x].rx = peer[x].rx + k /\ peer'[x].sent = peer[x].sent + k
    <3>1. x \in Peer /\ x # p
      BY <2>1, <2>3 DEF Asked
    <3>2. data'[x] = data[x]
      BY <1>9, <3>1
    <3>3. peer[x].rx \in Nat /\ peer[x].sent \in Nat
      BY <3>1 DEF OwnInv, TypeOK, Client_t
    <3>4. peer'[x].rx = peer[x].rx + 0 /\ peer'[x].sent = peer[x].sent + 0
      BY <1>2, <3>3
    <3> QED BY <3>2, <3>4
  <2>4. Uploads(d)
    BY <1>1
  <2> HIDE DEF x
  <2> QED BY <1>2, <1>3, <2>2, <2>3, <2>4, UploadSame DEF x
<1>13. Files'
  <2>1. ~peer[p].cut
    BY <1>4, <1>5 DEF OwnInv, PeerInv
  <2>2. \A b \in index : file[b] # p /\ file[b] \in Peer \cup Block
    <3> SUFFICES ASSUME NEW b \in index PROVE file[b] # p /\ file[b] \in Peer \cup Block
      OBVIOUS
    <3>1. b \in Block /\ file[b] \in Peer \cup Block \cup {None}
      BY DEF OwnInv, TypeOK
    <3>2. file[b] # None
      BY DEF OpInv
    <3> QED BY <1>1, <1>4, <2>1, <3>1, <3>2 DEF Unpublished
  <2>3. PublishedWhole'
    BY <1>1, <1>3, <1>9, <2>2 DEF Files, PublishedWhole
  <2> QED BY <1>1, <1>3, <2>3 DEF Files
<1>14. Unpublished'
  BY <1>1, <1>2, <1>3 DEF Unpublished, New
<1>15. \A d \in Conn : Uploads(d)'
  BY <1>11, <1>12
<1>16. \A x \in Peer : peer'[x].sent <= Size[Blk[x]]
  BY <1>1, <1>2
<1> QED BY <1>13, <1>14, <1>15, <1>16 DEF UploadInv, Files, Uploads, Unpublished

LEMMA UploadOpens ==
  ASSUME OneUpload, OwnInv, OpInv, UploadInv, bad = None, NEW c \in Conn, conn[c] # Unused,
         Frame(c), Opens(c)
  PROVE  UploadInv'
<1>a. PICK p \in Peer : p = conn[c].peer /\ p # None
  BY InUse
<1>b. PICK b \in Block : b = Blk[p]
  BY DnRequestAssumption DEF Block
<1>1. /\ \A x \in Peer : peer[x].sent <= Size[Blk[x]]
      /\ Files /\ Unpublished /\ \A d \in Conn : Uploads(d)
  BY DEF UploadInv, Files, Uploads, Unpublished
<1>2. /\ Waiting(conn[c]) /\ Opening(conn'[c]) /\ conn'[c].peer = p
      /\ peer'[p] = [peer[p] EXCEPT !.rx = 0]
      /\ fio' = fio /\ bad' = bad /\ index' = index /\ file' = file
  BY <1>a DEF Opens
<1>3. /\ peer'[p].rx = 0 /\ peer'[p].op = peer[p].op /\ peer'[p].sent = peer[p].sent
      /\ peer'[p].cut = peer[p].cut /\ peer[p].sent \in Nat
  <2>1. PICK q \in Client_t : q = peer[p]
    BY DEF OwnInv, TypeOK
  <2>2. LET s == [q EXCEPT !.rx = 0]
        IN  s.rx = 0 /\ s.op = q.op /\ s.sent = q.sent /\ s.cut = q.cut /\ q.sent \in Nat
    BY DEF Client_t
  <2> QED BY <1>2, <2>1, <2>2
<1>4. \A x \in Peer \ {p} : peer'[x] = peer[x]
  BY <1>a DEF Frame
<1>5. New(p)
  <2>1. ~peer[p].cut
    BY <1>a DEF OwnInv, PeerInv
  <2>2. \A d \in Conn : conn[d].peer = p => d = c
    BY <1>a DEF OwnInv, PeerInv
  <2> QED BY <1>2, <2>1, <2>2 DEF New, Waiting
<1>6. CASE /\ peer[p].op = "write" /\ fdt'[conn'[c].store] = <<"file", p>>
           /\ tmp[b] = None /\ tmp' = [tmp EXCEPT ![b] = p] /\ data' = [data EXCEPT ![p] = {}]
  <2>1. /\ tmp'[b] = p /\ \A e \in Block \ {b} : tmp'[e] = tmp[e]
        /\ data'[p] = {} /\ \A i \in (Peer \cup Block) \ {p} : data'[i] = data[i]
    BY <1>6 DEF OwnInv, TypeOK
  <2>2. "write" \in Ops[p]
    BY <1>6 DEF OpInv, None
  <2>3. \A e \in Block : file[e] # p
    BY <1>1, <1>5 DEF Unpublished, New
  <2>4. PublishedWhole'
    <3>1. \A e \in index : file[e] # p /\ file[e] \in Peer \cup Block
      <4> SUFFICES ASSUME NEW e \in index PROVE file[e] # p /\ file[e] \in Peer \cup Block
        OBVIOUS
      <4>1. e \in Block /\ file[e] \in Peer \cup Block \cup {None} /\ file[e] # None
        BY DEF OwnInv, TypeOK, OpInv
      <4> QED BY <2>3, <4>1
    <3> QED BY <1>1, <1>2, <2>1, <3>1 DEF Files, PublishedWhole
  <2>5. Files'
    <3>1. ASSUME NEW e \in Block, tmp'[e] # None PROVE "write" \in Ops[tmp'[e]] /\ Blk[tmp'[e]] = e
      <4>1. CASE e = b
        BY <1>b, <2>1, <2>2, <4>1
      <4>2. CASE e # b
        BY <1>1, <2>1, <3>1, <4>2 DEF Files
      <4> QED BY <4>1, <4>2
    <3> QED BY <1>1, <1>2, <2>4, <3>1 DEF Files
  <2>6. Unpublished'
    <3> SUFFICES ASSUME NEW x \in Peer, NEW e \in Block
                 PROVE  (~peer'[x].cut => file[e] # x) /\ (New(x)' => tmp'[e] # x)
      BY <1>2 DEF Unpublished
    <3>1. ~peer'[x].cut => ~peer[x].cut
      BY <1>3, <1>4
    <3>2. New(x)' => x # p /\ New(x)
      BY <1>2, <1>a, NewStays DEF Opening
    <3> QED BY <1>1, <2>1, <3>1, <3>2 DEF Unpublished
  <2>7. Uploads(c)'
    <3>1. (conn[c].done)' = 0 /\ (conn[c].fio)' = None /\ (conn[c].peer)' = p
      BY <1>2 DEF Opening
    <3>2. InFlight(c)' = 0
      BY <3>1 DEF InFlight
    <3>3. (conn[c].done + peer[conn[c].peer].rx + InFlight(c) <= peer[conn[c].peer].sent)'
      BY <1>3, <3>1, <3>2
    <3>4. 1 .. 0 = {}
      OBVIOUS
    <3>5. (data[conn[c].peer] = 1 .. conn[c].done)'
      BY <2>1, <3>1, <3>4
    <3>6. Uploading(c)'
      BY <1>6, <1>b, <2>1, <3>1, <3>3, <3>5 DEF Uploading
    <3> QED BY <3>6 DEF Uploads
  <2>8. ASSUME NEW d \in Conn, d # c PROVE Uploads(d)'
    <3> DEFINE x == conn[d].peer
    <3>1. /\ conn'[d] = conn[d]
          /\ x # None => x \in Peer /\ x # p /\ peer'[x] = peer[x]
          /\ conn[d].store # 0 => fdt'[conn[d].store] = fdt[conn[d].store]
      BY <1>a, <2>8, Others
    <3>2. ASSUME Asked(d), peer[x].op = "write"
          PROVE  /\ \E k \in Nat : peer'[x].rx = peer[x].rx + k /\ peer'[x].sent = peer[x].sent + k
                 /\ fdt'[conn[d].store] = fdt[conn[d].store]
                 /\ tmp'[Blk[x]] = tmp[Blk[x]] /\ data'[x] = data[x]
      <4>1. x \in Peer /\ x # p /\ peer'[x] = peer[x] /\ x # None
        BY <3>1, <3>2 DEF Asked
      <4>2. peer[x].rx \in Nat /\ peer[x].sent \in Nat
        BY <4>1 DEF OwnInv, TypeOK, Client_t
      <4>3. peer'[x].rx = peer[x].rx + 0 /\ peer'[x].sent = peer[x].sent + 0
        BY <4>1, <4>2
      <4>4. conn[d].store # 0
        BY <3>2, <4>1, UsedConn DEF Asked, Waiting, Opening, Working
      <4>5. Blk[x] # b /\ Blk[x] \in Block
        BY <1>b, <1>6, <3>2, <4>1, OwnBlock, DnRequestAssumption DEF Block
      <4> QED BY <2>1, <3>1, <4>1, <4>3, <4>4, <4>5
    <3>3. Asked(d) => peer'[x].op = peer[x].op
      BY <3>1 DEF Asked
    <3>4. Uploads(d)
      BY <1>1
    <3> HIDE DEF x
    <3> QED BY <1>2, <3>1, <3>2, <3>3, <3>4, UploadSame DEF x
  <2>9. \A d \in Conn : Uploads(d)'
    BY <2>7, <2>8
  <2>10. \A x \in Peer : peer'[x].sent <= Size[Blk[x]]
    BY <1>1, <1>3, <1>4
  <2> QED BY <2>5, <2>6, <2>9, <2>10 DEF UploadInv, Files, Uploads, Unpublished
<1>7. CASE peer[p].op = "read" /\ tmp' = tmp /\ data' = data
  <2>1. Files'
    BY <1>1, <1>2, <1>7 DEF Files, PublishedWhole
  <2>2. Unpublished'
    <3> SUFFICES ASSUME NEW x \in Peer, NEW e \in Block
                 PROVE  (~peer'[x].cut => file[e] # x) /\ (New(x)' => tmp[e] # x)
      BY <1>2, <1>7 DEF Unpublished
    <3>1. ~peer'[x].cut => ~peer[x].cut
      BY <1>3, <1>4
    <3>2. New(x)' => x # p /\ New(x)
      BY <1>2, <1>a, NewStays DEF Opening
    <3> QED BY <1>1, <3>1, <3>2 DEF Unpublished
  <2>3. Uploads(c)'
    BY <1>2, <1>3, <1>7 DEF Uploads
  <2>4. ASSUME NEW d \in Conn, d # c PROVE Uploads(d)'
    <3> DEFINE x == conn[d].peer
    <3>1. /\ conn'[d] = conn[d]
          /\ x # None => x \in Peer /\ x # p /\ peer'[x] = peer[x]
          /\ conn[d].store # 0 => fdt'[conn[d].store] = fdt[conn[d].store]
      BY <1>a, <2>4, Others
    <3>2. ASSUME Asked(d)
          PROVE  /\ \E k \in Nat : peer'[x].rx = peer[x].rx + k /\ peer'[x].sent = peer[x].sent + k
                 /\ fdt'[conn[d].store] = fdt[conn[d].store] /\ peer'[x].op = peer[x].op
      <4>1. x \in Peer /\ x # p /\ peer'[x] = peer[x] /\ x # None
        BY <3>1, <3>2 DEF Asked
      <4>2. peer[x].rx \in Nat /\ peer[x].sent \in Nat
        BY <4>1 DEF OwnInv, TypeOK, Client_t
      <4>3. peer'[x].rx = peer[x].rx + 0 /\ peer'[x].sent = peer[x].sent + 0
        BY <4>1, <4>2
      <4>4. conn[d].store # 0
        BY <3>2, <4>1, UsedConn DEF Asked, Waiting, Opening, Working
      <4> QED BY <3>1, <4>1, <4>3, <4>4
    <3>4. Uploads(d)
      BY <1>1
    <3> HIDE DEF x
    <3> QED BY <1>2, <1>7, <3>1, <3>2, <3>4, UploadSame DEF x
  <2>5. \A d \in Conn : Uploads(d)'
    BY <2>3, <2>4
  <2>6. \A x \in Peer : peer'[x].sent <= Size[Blk[x]]
    BY <1>1, <1>3, <1>4
  <2> QED BY <2>1, <2>2, <2>5, <2>6 DEF UploadInv, Files, Uploads, Unpublished
<1>8. peer[p].op = "write" => tmp[b] = None
  <2> SUFFICES ASSUME peer[p].op = "write", tmp[b] # None PROVE FALSE
    OBVIOUS
  <2>1. "write" \in Ops[p] /\ tmp[b] \in Peer
    BY DEF OpInv, OwnInv, TypeOK, None
  <2>2. "write" \in Ops[tmp[b]] /\ Blk[tmp[b]] = b
    BY <1>1 DEF Files
  <2>3. tmp[b] = p
    BY <1>b, <2>1, <2>2 DEF OneUpload
  <2> QED BY <1>1, <1>5, <2>3 DEF Unpublished
<1>9. \/ peer[p].op = "write" /\ fdt'[conn'[c].store] = <<"file", p>>
         /\ tmp[b] = None /\ tmp' = [tmp EXCEPT ![b] = p] /\ data' = [data EXCEPT ![p] = {}]
      \/ peer[p].op = "read" /\ tmp' = tmp /\ data' = data
  BY <1>a, <1>b, <1>8 DEF Opens
<1> QED BY <1>6, <1>7, <1>9

\* The disk after an upload that came to its end, and after any other step.
LEMMA UploadFiles ==
  ASSUME OwnInv, OpInv, UploadInv, bad = None, NEW c \in Conn, conn[c] # Unused, Ends(c),
         NEW p \in Peer, p = conn[c].peer, NEW b \in Block, b = Blk[p]
  PROVE  /\ Files'
         /\ \/ UNCHANGED disk
            \/ /\ peer[p].op = "write" /\ data' = data
               /\ tmp'[b] = None /\ \A e \in Block \ {b} : tmp'[e] = tmp[e]
               /\ file'[b] = p /\ \A e \in Block \ {b} : file'[e] = file[e]
<1>1. /\ \A x \in Peer : peer[x].sent <= Size[Blk[x]]
      /\ Files /\ Unpublished /\ \A d \in Conn : Uploads(d)
  BY DEF UploadInv, Files, Uploads, Unpublished
<1>2. CASE UNCHANGED disk
  BY <1>1, <1>2 DEF disk, Files, PublishedWhole
<1>3. CASE Finished(c) /\ peer[p].op = "write" /\ write_block_done(b)
  <2> DEFINE u == fio[conn[c].fio]
             n == conn[c].done + u.need
  <2>1. conn[c].fio \in Fio /\ u.io = "done" /\ u.ret = u.need /\ n >= Size[b]
    BY <1>3 DEF Finished
  <2>2. conn[c].fio # None /\ p # None
    BY <2>1, DnRequestAssumption DEF None
  <2>3. Asked(c)
    <3>1. ~Waiting(conn[c])
      BY <2>2 DEF Waiting
    <3> QED BY <2>2, <3>1, InUse DEF Asked
  <2>4. Uploading(c)
    BY <1>1, <1>3, <2>3 DEF Uploads
  <2>5. /\ conn[c].done + peer[p].rx + u.need <= peer[p].sent
        /\ tmp[b] = p /\ data[p] = 1 .. n
    BY <2>1, <2>2, <2>4 DEF Uploading, InFlight
  <2>6. conn[c].done \in Nat /\ u.need \in Nat /\ peer[p].rx \in Nat /\ peer[p].sent \in Nat
    BY <2>1 DEF OwnInv, TypeOK, Conn_t, Client_t, Fio_t
  <2>7. n = Size[b]
    <3> DEFINE x == conn[c].done
               y == u.need
               z == peer[p].rx
               s == peer[p].sent
               m == Size[b]
    <3>1. /\ x \in Nat /\ y \in Nat /\ z \in Nat /\ s \in Nat /\ m \in Nat
          /\ x + z + y <= s /\ s <= m /\ x + y >= m
      BY <1>1, <2>1, <2>5, <2>6, DnRequestAssumption DEF Block
    <3> HIDE DEF x, y, z, s, m
    <3>2. x + y = m
      BY <3>1
    <3> QED BY <3>2 DEF x, y, m
  <2>8. /\ file' = [file EXCEPT ![b] = p] /\ tmp' = [tmp EXCEPT ![b] = None]
        /\ index' = index \cup {b} /\ data' = data
    BY <1>3, <2>2, <2>5 DEF write_block_done
  <2>9. /\ tmp'[b] = None /\ \A e \in Block \ {b} : tmp'[e] = tmp[e]
        /\ file'[b] = p /\ \A e \in Block \ {b} : file'[e] = file[e]
    BY <2>8 DEF OwnInv, TypeOK
  <2>10. PublishedWhole'
    <3> SUFFICES ASSUME NEW e \in index' PROVE data[file'[e]] = 1 .. Size[e]
      BY <2>8 DEF PublishedWhole
    <3>1. CASE e = b
      BY <2>5, <2>7, <2>9, <3>1
    <3>2. CASE e # b
      <4>1. e \in index /\ e \in Block
        BY <2>8, <3>2 DEF OwnInv, TypeOK
      <4> QED BY <1>1, <2>9, <3>2, <4>1 DEF Files, PublishedWhole
    <3> QED BY <3>1, <3>2
  <2>11. ASSUME NEW e \in Block
         PROVE  /\ tmp'[e] # None => "write" \in Ops[tmp'[e]] /\ Blk[tmp'[e]] = e
                /\ file'[e] \in Block => file'[e] = e
    <3>1. CASE e = b
      BY <2>9, <3>1, DnRequestAssumption DEF Block
    <3>2. CASE e # b
      BY <1>1, <2>9, <3>2 DEF Files
    <3> QED BY <3>1, <3>2
  <2> QED BY <1>3, <2>8, <2>9, <2>10, <2>11 DEF Files
<1> QED BY <1>2, <1>3 DEF Ends

\* The request that a handler served goes on.
LEMMA UploadGoesOn ==
  ASSUME OwnInv, OpInv, UploadInv, bad = None, NEW c \in Conn, conn[c] # Unused, OwnInv', Kept(c),
         bad' = None, Starves(c) \/ Writes(c) \/ Reads(c) \/ Retries(c) \/ Sames(c), Asked(c),
         NEW p \in Peer, p = conn[c].peer, conn'[c].peer = p, conn'[c].store = conn[c].store,
         UNCHANGED <<fdt, disk>>
  PROVE  Uploads(c)'
<1> DEFINE r == conn[c]
           s == conn'[c]
<1> SUFFICES ASSUME peer[p].op = "write" PROVE Uploading(c)'
  BY DEF Uploads, Asked, Kept
<1>1. Uploading(c)
  BY DEF UploadInv
<1>2. /\ r.done + peer[p].rx + InFlight(c) <= peer[p].sent
      /\ fdt[r.store] = <<"file", p>> /\ tmp[Blk[p]] = p
      /\ r.fio = None => data[p] = 1 .. r.done
  BY <1>1 DEF Uploading
<1>3. fdt'[s.store] = <<"file", p>> /\ tmp'[Blk[p]] = p /\ data' = data
  BY <1>2 DEF disk
<1>4. peer'[p].sent = peer[p].sent
  BY DEF Kept
<1>5. r.done \in Nat /\ peer[p].rx \in Nat /\ peer[p].sent \in Nat /\ s.done \in Nat
  BY DEF OwnInv, TypeOK, Conn_t, Client_t
<1>6. CASE Starves(c)
  <2>1. s.done = 0 /\ s.fio = None /\ r.done = 0 /\ r.fio = None /\ peer'[p].rx = peer[p].rx
    BY <1>6 DEF Starves, Opening
  <2>2. InFlight(c) = 0 /\ InFlight(c)' = 0
    BY <2>1 DEF InFlight
  <2>3. (conn[c].done + peer[p].rx + InFlight(c) <= peer[p].sent)'
    BY <1>2, <1>4, <2>1, <2>2
  <2> QED BY <1>2, <1>3, <2>1, <2>3 DEF Uploading
<1>7. CASE Writes(c)
  <2> DEFINE t == fio'[s.fio]
             u == fio[r.fio]
  <2>1. /\ s.fio \in Fio /\ t.io = "pending" /\ t.fd = r.store /\ t.off = s.done
        /\ t.need <= peer[p].rx /\ peer'[p].rx = peer[p].rx - t.need
        /\ \/ Opening(r) /\ s.done = r.done
           \/ /\ r.fio \in Fio /\ u.io = "done" /\ u.ret = u.need /\ s.done = r.done + u.need
    BY <1>7 DEF Writes
  <2>2. s.fio # None /\ t.need \in Nat
    BY <2>1, DnRequestAssumption DEF None, OwnInv, TypeOK, Fio_t
  <2>3. InFlight(c)' = t.need
    BY <2>2 DEF InFlight
  <2>4. s.done = r.done + InFlight(c) /\ InFlight(c) \in Nat /\ data[p] = 1 .. s.done
    <3>1. CASE Opening(r) /\ s.done = r.done
      <4>1. r.fio = None /\ r.done = 0
        BY <3>1 DEF Opening
      <4>2. InFlight(c) = 0
        BY <4>1 DEF InFlight
      <4> QED BY <1>2, <1>5, <3>1, <4>1, <4>2
    <3>2. CASE r.fio \in Fio /\ u.io = "done" /\ u.ret = u.need /\ s.done = r.done + u.need
      <4>1. r.fio # None /\ u.need \in Nat
        BY <3>2, DnRequestAssumption DEF None, OwnInv, TypeOK, Fio_t
      <4>2. InFlight(c) = u.need
        BY <4>1 DEF InFlight
      <4>3. data[p] = 1 .. r.done + u.need
        BY <1>1, <3>2, <4>1 DEF Uploading
      <4> QED BY <3>2, <4>1, <4>2, <4>3
    <3> QED BY <2>1, <3>1, <3>2
  <2>5. (conn[c].done + peer[p].rx + InFlight(c) <= peer[p].sent)'
    <3> DEFINE a == r.done
               x == peer[p].rx
               i == InFlight(c)
               k == peer[p].sent
               n == t.need
    <3>1. a \in Nat /\ x \in Nat /\ i \in Nat /\ k \in Nat /\ n \in Nat /\ n <= x /\ a + x + i <= k
      BY <1>2, <1>5, <2>1, <2>2, <2>4
    <3>2. s.done = a + i /\ peer'[p].rx = x - n /\ peer'[p].sent = k /\ InFlight(c)' = n
      BY <1>4, <2>1, <2>3, <2>4
    <3> HIDE DEF a, x, i, k, n
    <3>3. (a + i) + (x - n) + n <= k
      BY <3>1
    <3> QED BY <3>2, <3>3
  <2> QED BY <1>3, <2>1, <2>2, <2>4, <2>5 DEF Uploading
<1>8. CASE Sames(c)
  <2>1. /\ s.fio = r.fio /\ s.done = r.done /\ peer' = peer /\ fio' = fio
    BY <1>8 DEF Sames
  <2>2. InFlight(c)' = InFlight(c)
    BY <2>1 DEF InFlight
  <2> QED BY <1>1, <1>3, <2>1, <2>2 DEF Uploading
<1> QED BY <1>6, <1>7, <1>8 DEF Reads, Retries

LEMMA UploadHandler ==
  ASSUME OneUpload, OwnInv, OpInv, UploadInv, bad = None, NEW c \in Conn, conn[c] # Unused, Step(c)
  PROVE  UploadInv'
<1>a. PICK p \in Peer : p = conn[c].peer /\ p # None
  BY InUse
<1>b. PICK b \in Block : b = Blk[p]
  BY DnRequestAssumption DEF Block
<1>1. /\ \A x \in Peer : peer[x].sent <= Size[Blk[x]]
      /\ Files /\ Unpublished /\ \A d \in Conn : Uploads(d)
  BY DEF UploadInv, Files, Uploads, Unpublished
<1>2. OwnInv' /\ Frame(c) /\ Kept(c)
  BY DEF Step
<1>3. \A x \in Peer : peer'[x].sent <= Size[Blk[x]]
  BY <1>1, <1>2, <1>a DEF Frame, Kept
<1>4. /\ Files'
      /\ \/ tmp' = tmp /\ file' = file /\ data' = data
         \/ /\ peer[p].op = "write" /\ data' = data /\ Ends(c)
            /\ tmp'[b] = None /\ \A e \in Block \ {b} : tmp'[e] = tmp[e]
            /\ file'[b] = p /\ \A e \in Block \ {b} : file'[e] = file[e]
  <2>1. CASE Ends(c)
    BY <1>a, <1>b, <2>1, UploadFiles DEF disk
  <2>2. CASE UNCHANGED disk
    BY <1>1, <2>2 DEF disk, Files, PublishedWhole
  <2>3. Ends(c) \/ UNCHANGED disk
    BY DEF Step, Starves, Writes, Reads, Retries, Sames
  <2> QED BY <2>1, <2>2, <2>3
<1>5. ASSUME bad' = None PROVE Unpublished'
  <2>1. \/ Ends(c) /\ peer'[p].cut
        \/ tmp' = tmp /\ file' = file /\ conn'[c].peer = p /\ conn'[c].rh # "header" /\ peer'[p].cut = peer[p].cut
    BY <1>5, <1>a, StepConn DEF disk
  <2> SUFFICES ASSUME NEW x \in Peer, NEW e \in Block
               PROVE  (~peer'[x].cut => file'[e] # x) /\ (New(x)' => tmp'[e] # x)
    BY DEF Unpublished
  <2>2. x # p => peer'[x] = peer[x]
    BY <1>2, <1>a DEF Frame
  <2>3. New(x)' => New(x) /\ x # p
    BY <1>2, <1>a, <2>1, NewStays
  <2>4. x # None
    BY DnRequestAssumption DEF None
  <2>5. tmp'[e] = tmp[e] \/ tmp'[e] = None
    BY <1>4
  <2>6. file'[e] = file[e] \/ (file'[e] = p /\ peer'[p].cut)
    BY <1>4, <1>5, <1>a DEF Ends
  <2>7. ~peer'[x].cut => ~peer[x].cut \/ x = p
    BY <2>2
  <2>8. ~peer[p].cut
    BY <1>a DEF OwnInv, PeerInv
  <2> QED BY <1>1, <2>3, <2>4, <2>5, <2>6, <2>7, <2>8 DEF Unpublished
<1>6. ASSUME bad' = None PROVE Uploads(c)'
  <2>1. CASE conn'[c] = Unused
    <3>1. Unused.peer = None
      BY DEF Unused
    <3> QED BY <2>1, <3>1 DEF Uploads, Asked
  <2>2. CASE /\ Starves(c) \/ Writes(c) \/ Reads(c) \/ Retries(c) \/ Sames(c)
             /\ conn'[c].peer = p /\ Asked(c) /\ conn'[c].store = conn[c].store
             /\ UNCHANGED <<fdt, disk>>
    BY <1>2, <1>6, <1>a, <2>2, UploadGoesOn
  <2> QED BY <1>6, <1>a, <2>1, <2>2, StepConn
<1>7. ASSUME NEW d \in Conn, d # c PROVE Uploads(d)'
  <2> DEFINE x == conn[d].peer
  <2>1. /\ conn'[d] = conn[d]
        /\ x # None => x \in Peer /\ x # p /\ peer'[x] = peer[x]
        /\ conn[d].fio # None => fio'[conn[d].fio] = fio[conn[d].fio]
        /\ conn[d].store # 0 => fdt'[conn[d].store] = fdt[conn[d].store]
    BY <1>2, <1>a, <1>7, Others
  <2>2. ASSUME Asked(d), peer[x].op = "write"
        PROVE  /\ \E k \in Nat : peer'[x].rx = peer[x].rx + k /\ peer'[x].sent = peer[x].sent + k
               /\ fdt'[conn[d].store] = fdt[conn[d].store]
               /\ tmp'[Blk[x]] = tmp[Blk[x]] /\ data'[x] = data[x]
    <3>1. x \in Peer /\ x # p /\ peer'[x] = peer[x] /\ x # None
      BY <2>1, <2>2 DEF Asked
    <3>2. peer[x].rx \in Nat /\ peer[x].sent \in Nat
      BY <3>1 DEF OwnInv, TypeOK, Client_t
    <3>3. peer'[x].rx = peer[x].rx + 0 /\ peer'[x].sent = peer[x].sent + 0
      BY <3>1, <3>2
    <3>4. conn[d].store # 0
      BY <2>2, <3>1, UsedConn DEF Asked, Waiting, Opening, Working
    <3>5. peer[p].op = "write" => Blk[x] # b
      BY <1>b, <2>2, <3>1, OwnBlock
    <3>6. Blk[x] \in Block
      BY <3>1, DnRequestAssumption DEF Block
    <3>7. tmp'[Blk[x]] = tmp[Blk[x]] /\ data' = data
      BY <1>4, <3>5, <3>6
    <3> QED BY <2>1, <3>3, <3>4, <3>7
  <2>3. Asked(d) => peer'[x].op = peer[x].op
    BY <2>1 DEF Asked
  <2>4. Uploads(d)
    BY <1>1
  <2> HIDE DEF x
  <2> QED BY <2>1, <2>2, <2>3, <2>4, UploadSame DEF x
<1>8. bad' = None => (\A d \in Conn : Uploads(d)') /\ Unpublished'
  BY <1>5, <1>6, <1>7
<1> QED BY <1>3, <1>4, <1>8 DEF UploadInv, Files, Uploads, Unpublished

LEMMA UploadKept ==
  ASSUME OneUpload, OwnInv, OpInv, UploadInv, bad = None, Effect
  PROVE  UploadInv'
BY UploadClient, UploadRest, UploadHandler, UploadOpens, UploadWrote DEF Effect

LEMMA InitUpload == Init => UploadInv
<1> SUFFICES ASSUME Init PROVE UploadInv
  OBVIOUS
<1>1. /\ \A p \in Peer : peer[p].sent = 0
      /\ \A c \in Conn : conn[c] = Unused
      /\ \A b \in Block : tmp[b] = None
      /\ \A b \in Block : file[b] = IF b \in Stored THEN b ELSE None
      /\ \A i \in Peer \cup Block : data[i] = IF i \in Stored THEN 1 .. Size[i] ELSE {}
      /\ index = Stored
  BY DEF Init
<1>2. Unused.peer = None
  BY DEF Unused
<1>3. PublishedWhole
  <2> SUFFICES ASSUME NEW b \in Stored PROVE data[file[b]] = 1 .. Size[b]
    BY <1>1 DEF PublishedWhole
  <2>1. b \in Block
    BY DnRequestAssumption DEF Block
  <2> QED BY <1>1, <2>1
<1>4. \A p \in Peer : peer[p].sent <= Size[Blk[p]]
  BY <1>1, DnRequestAssumption
<1>5. \A p \in Peer : p # None /\ p \notin Block
  BY DnRequestAssumption DEF None, Block
<1>6. \A b \in Block : file[b] \in Block => file[b] = b
  BY <1>1, DnRequestAssumption DEF None, Block
<1>7. \A p \in Peer, b \in Block : file[b] # p /\ tmp[b] # p
  BY <1>1, <1>5
<1>8. \A c \in Conn : ~Asked(c)
  BY <1>1, <1>2 DEF Asked
<1> QED BY <1>1, <1>3, <1>4, <1>6, <1>7, <1>8 DEF UploadInv

LEMMA UploadStays ==
  ASSUME OneUpload, OwnInv, OpInv, UploadInv, [Next]_vars
  PROVE  UploadInv'
<1>1. CASE Next
  BY <1>1, NextEffect, UploadKept
<1>2. CASE UNCHANGED vars
  BY <1>2 DEF vars, disk, tasks, UploadInv, PublishedWhole, Asked, Uploading, InFlight, New
<1> QED BY <1>1, <1>2

\* If no two clients upload the same block, write_block_done only ever publishes a file
\* that has every piece of its block, and no later step takes one away.
THEOREM BlocksWhole ==
  ASSUME OneUpload
  PROVE  Spec => []PublishedWhole
<1>1. Init => OwnInv /\ OpInv /\ CorruptedOnlyBy /\ UploadInv
  BY InitOwn, InitOp, InitUpload
<1>2. OwnInv /\ OpInv /\ CorruptedOnlyBy /\ UploadInv /\ [Next]_vars
        => (OwnInv /\ OpInv /\ CorruptedOnlyBy /\ UploadInv)'
  BY OpStays, UploadStays
<1>3. OwnInv /\ OpInv /\ CorruptedOnlyBy /\ UploadInv => PublishedWhole
  BY DEF UploadInv
<1> QED BY <1>1, <1>2, <1>3, PTL DEF Spec

----------------------------------------------------------------------------
(* OwnStream *)

StreamOf(op, b) ==
  <<<<"header", 0>>>> \o (IF op = "read" THEN [k \in 1 .. Size[b] |-> <<b, k>>] ELSE <<>>)
    \o <<<<"done", 0>>>>
InOrder(o, op, b) == \A k \in DOMAIN o : k <= Len(StreamOf(op, b)) /\ o[k] = StreamOf(op, b)[k]

LEMMA OwnOrder ==
  OwnStream <=> ("stale" \notin cause => \A p \in Peer : InOrder(peer[p].out, peer[p].op, Blk[p]))
BY DEF OwnStream, Stream, StreamOf, InOrder

LEMMA Joined ==
  ASSUME NEW S, NEW x \in Seq(S), NEW y \in Seq(S)
  PROVE  /\ x \o y \in Seq(S) /\ Len(x \o y) = Len(x) + Len(y)
         /\ \A k \in 1 .. Len(x) : (x \o y)[k] = x[k]
         /\ \A k \in 1 .. Len(y) : (x \o y)[Len(x) + k] = y[k]
OBVIOUS

LEMMA StreamItems ==
  ASSUME NEW op, NEW b \in Block
  PROVE  LET s == StreamOf(op, b)
         IN  /\ s[1] = <<"header", 0>>
             /\ op # "read" => Len(s) = 2 /\ s[2] = <<"done", 0>>
             /\ op = "read" => /\ Len(s) = Size[b] + 2 /\ s[Size[b] + 2] = <<"done", 0>>
                               /\ \A k \in 1 .. Size[b] : s[k + 1] = <<b, k>>
<1> DEFINE m == [k \in 1 .. Size[b] |-> <<b, k>>]
           h == <<<<"header", 0>>>>
           e == <<<<"done", 0>>>>
<1>0. Size[b] \in Nat
  BY DnRequestAssumption DEF Block
<1>1. CASE op # "read"
  <2>1. StreamOf(op, b) = (h \o <<>>) \o e
    BY <1>1 DEF StreamOf
  <2>2. h \o <<>> = h
    OBVIOUS
  <2> DEFINE S == {<<"header", 0>>} \cup {<<"done", 0>>}
  <2>3. h \in Seq(S) /\ e \in Seq(S) /\ Len(h) = 1 /\ Len(e) = 1
        /\ h[1] = <<"header", 0>> /\ e[1] = <<"done", 0>>
    OBVIOUS
  <2>4. StreamOf(op, b) = h \o e
    BY <2>1, <2>2
  <2> HIDE DEF h, e, S
  <2>5. /\ Len(h \o e) = Len(h) + Len(e)
        /\ \A k \in 1 .. Len(h) : (h \o e)[k] = h[k]
        /\ \A k \in 1 .. Len(e) : (h \o e)[Len(h) + k] = e[k]
    BY <2>3, Joined
  <2>6. Len(h \o e) = 2 /\ (h \o e)[1] = <<"header", 0>> /\ (h \o e)[2] = <<"done", 0>>
    BY <2>3, <2>5
  <2> QED BY <1>1, <2>4, <2>6
<1>2. CASE op = "read"
  <2>1. StreamOf(op, b) = (h \o m) \o e
    BY <1>2 DEF StreamOf
  <2>2. m \in Seq({b} \X Nat) /\ Len(m) = Size[b] /\ \A k \in 1 .. Size[b] : m[k] = <<b, k>>
    BY <1>0
  <2> DEFINE S == {<<"header", 0>>} \cup {<<"done", 0>>} \cup ({b} \X Nat)
  <2>3. m \in Seq(S) /\ h \in Seq(S) /\ e \in Seq(S) /\ Len(h) = 1 /\ Len(e) = 1
        /\ h[1] = <<"header", 0>> /\ e[1] = <<"done", 0>>
    BY <1>0, <2>2
  <2> HIDE DEF m, h, e, S
  <2>4. h \o m \in Seq(S) /\ Len(h \o m) = Size[b] + 1 /\ (h \o m)[1] = <<"header", 0>>
        /\ \A k \in 1 .. Size[b] : (h \o m)[k + 1] = <<b, k>>
    <3>1. /\ h \o m \in Seq(S) /\ Len(h \o m) = Len(h) + Len(m)
          /\ \A k \in 1 .. Len(h) : (h \o m)[k] = h[k]
          /\ \A k \in 1 .. Len(m) : (h \o m)[Len(h) + k] = m[k]
      BY <2>3, Joined
    <3>2. \A k \in 1 .. Size[b] : (h \o m)[1 + k] = <<b, k>>
      BY <2>2, <2>3, <3>1
    <3>3. \A k \in 1 .. Size[b] : 1 + k = k + 1
      BY <1>0
    <3> QED BY <1>0, <2>2, <2>3, <3>1, <3>2, <3>3
  <2> DEFINE g == h \o m
  <2>5. g \in Seq(S) /\ Len(g) = Size[b] + 1 /\ g[1] = <<"header", 0>>
        /\ \A k \in 1 .. Size[b] : g[k + 1] = <<b, k>>
    BY <2>4
  <2> HIDE DEF g
  <2>6. Len(g \o e) = Size[b] + 2 /\ (g \o e)[Size[b] + 2] = <<"done", 0>>
        /\ (g \o e)[1] = <<"header", 0>> /\ \A k \in 1 .. Size[b] : (g \o e)[k + 1] = <<b, k>>
    <3> DEFINE n == Size[b] + 1
    <3>1. n \in Nat /\ Len(g) = n /\ n + 1 = Size[b] + 2 /\ 1 \in 1 .. n
          /\ \A k \in 1 .. Size[b] : k + 1 \in 1 .. n
      BY <1>0, <2>5
    <3> HIDE DEF n
    <3>2. /\ Len(g \o e) = n + 1
          /\ \A k \in 1 .. n : (g \o e)[k] = g[k]
          /\ (g \o e)[n + 1] = e[1]
      <4>1. /\ Len(g \o e) = Len(g) + Len(e)
            /\ \A k \in 1 .. Len(g) : (g \o e)[k] = g[k]
            /\ \A k \in 1 .. Len(e) : (g \o e)[Len(g) + k] = e[k]
        BY <2>3, <2>5, Joined, SMTT(60)
      <4>2. 1 \in 1 .. 1
        OBVIOUS
      <4> QED BY <2>3, <3>1, <4>1, <4>2
    <3>3. (g \o e)[n + 1] = <<"done", 0>> /\ (g \o e)[1] = <<"header", 0>>
      BY <2>3, <2>5, <3>1, <3>2
    <3>4. \A k \in 1 .. Size[b] : (g \o e)[k + 1] = <<b, k>>
      BY <2>5, <3>1, <3>2
    <3> QED BY <3>1, <3>2, <3>3, <3>4
  <2>7. StreamOf(op, b) = g \o e
    BY <2>1 DEF g
  <2> QED BY <1>2, <2>6, <2>7
<1> QED BY <1>1, <1>2

\* The first answer, the pieces that follow in their turn, and the last answer.
LEMMA HeaderInOrder ==
  ASSUME NEW op, NEW b \in Block
  PROVE  InOrder(<<>>, op, b) /\ InOrder(<<<<"header", 0>>>>, op, b)
<1>1. InOrder(<<>>, op, b)
  BY DEF InOrder
<1> DEFINE s == StreamOf(op, b)
           h == <<<<"header", 0>>>>
<1>2. DOMAIN h = {1} /\ h[1] = <<"header", 0>>
  OBVIOUS
<1>3. s[1] = <<"header", 0>> /\ (Len(s) = 2 \/ Len(s) = Size[b] + 2) /\ Size[b] \in Nat
  BY StreamItems, DnRequestAssumption DEF Block
<1> HIDE DEF h
<1>4. InOrder(h, op, b)
  BY <1>2, <1>3 DEF InOrder
<1> QED BY <1>1, <1>4 DEF h

LEMMA DoneInOrder ==
  ASSUME NEW op, NEW b \in Block, NEW S, NEW o \in Seq(S), InOrder(o, op, b),
         Len(o) = IF op = "read" THEN 1 + Size[b] ELSE 1
  PROVE  InOrder(Append(o, <<"done", 0>>), op, b)
<1> DEFINE s == StreamOf(op, b)
           n == Len(o)
           d == <<"done", 0>>
<1>1. n \in Nat /\ DOMAIN o = 1 .. n
  <2>1. o \in Seq(S)
    OBVIOUS
  <2> QED BY ONLY <2>1
<1>2. Size[b] \in Nat
  BY DnRequestAssumption DEF Block
<1>3. Len(s) = n + 1 /\ s[n + 1] = d
  BY <1>2, StreamItems
<1>4. \A k \in 1 .. n : k <= Len(s) /\ o[k] = s[k]
  BY <1>1 DEF InOrder
<1> HIDE DEF s, d
<1>5. DOMAIN Append(o, d) = 1 .. n + 1 /\ \A k \in 1 .. n + 1 : Append(o, d)[k] = IF k = n + 1 THEN d ELSE o[k]
  OBVIOUS
<1> HIDE DEF n
<1>6. \A k \in 1 .. n + 1 : k <= Len(s) /\ Append(o, d)[k] = s[k]
  BY <1>1, <1>3, <1>4, <1>5
<1> QED BY <1>5, <1>6 DEF InOrder, s, d

\* What sendfile sends of a block.
Run(b, off, n) == [k \in 1 .. n |-> <<b, off + k>>]

LEMMA PiecesInOrder ==
  ASSUME NEW b \in Block, NEW S, NEW o \in Seq(S), InOrder(o, "read", b),
         NEW off \in Nat, NEW n \in Nat, Len(o) = 1 + off, off + n <= Size[b]
  PROVE  InOrder(o \o Run(b, off, n), "read", b) /\ Len(o \o Run(b, off, n)) = 1 + off + n
<1> DEFINE s == StreamOf("read", b)
           q == [k \in 1 .. n |-> <<b, off + k>>]
           x == o \o q
<1>1. Size[b] \in Nat
  BY DnRequestAssumption DEF Block
<1>2. Len(s) = Size[b] + 2 /\ \A k \in 1 .. Size[b] : s[k + 1] = <<b, k>>
  BY StreamItems
<1>3. \A k \in 1 .. Len(o) : k <= Len(s) /\ o[k] = s[k]
  BY DEF InOrder
<1>4. q \in Seq({b} \X Nat) /\ Len(q) = n /\ \A k \in 1 .. n : q[k] = <<b, off + k>>
  OBVIOUS
<1>5. q \in Seq(S \cup ({b} \X Nat)) /\ o \in Seq(S \cup ({b} \X Nat))
  BY <1>4
<1> HIDE DEF q, s
<1>6. Len(x) = 1 + off + n /\ DOMAIN x = 1 .. 1 + off + n
      /\ \A k \in 1 .. 1 + off + n : x[k] = IF k <= 1 + off THEN o[k] ELSE q[k - (1 + off)]
  BY <1>4, <1>5
<1>7. ASSUME NEW k \in 1 .. 1 + off + n PROVE k <= Len(s) /\ x[k] = s[k]
  <2>1. k <= Len(s)
    BY <1>1, <1>2
  <2>2. CASE k <= 1 + off
    BY <1>3, <1>6, <2>1, <2>2
  <2>3. CASE k > 1 + off
    <3>1. x[k] = q[k - (1 + off)] /\ k - (1 + off) \in 1 .. n
      BY <1>6, <2>3
    <3>2. q[k - (1 + off)] = <<b, off + (k - (1 + off))>>
      BY <1>4, <3>1
    <3>3. off + (k - (1 + off)) = k - 1 /\ k - 1 \in 1 .. Size[b] /\ (k - 1) + 1 = k
      BY <1>1, <2>3
    <3>4. s[(k - 1) + 1] = <<b, k - 1>>
      BY <1>2, <3>3
    <3> QED BY <2>1, <3>1, <3>2, <3>3, <3>4
  <2>4. k <= 1 + off \/ k > 1 + off
    OBVIOUS
  <2> QED BY <2>2, <2>3, <2>4
<1> HIDE DEF x
<1>8. InOrder(x, "read", b)
  BY <1>6, <1>7 DEF InOrder, s
<1> QED BY <1>6, <1>8 DEF x, q, Run

\* The parts of StreamInv: the files, the file of a connection, a client that is still
\* to be answered and one that is being served.
Ordered == "stale" \notin cause => \A p \in Peer : InOrder(peer[p].out, peer[p].op, Blk[p])
Named ==
  \A b \in Block : /\ tmp[b] # None => BlockOf(tmp[b]) = b
                   /\ file[b] # None => BlockOf(file[b]) = b
Holds(c) == conn[c].store # 0 => BlockOf(fdt[conn[c].store][2]) = Blk[conn[c].peer]
Unanswered(p) == New(p) => peer[p].out = <<>>
Served(c) ==
  Asked(c) =>
    /\ conn[c].fio = None => IF conn[c].etimer THEN Len(peer[conn[c].peer].out) = 1
                             ELSE peer[conn[c].peer].out = <<>>
    /\ conn[c].fio # None /\ peer[conn[c].peer].op = "write" => Len(peer[conn[c].peer].out) = 1
    /\ conn[c].fio # None /\ peer[conn[c].peer].op = "read" => Downloading(c)

LEMMA StreamParts ==
  StreamInv <=> /\ Ordered /\ Named
                /\ bad = None => \A c \in Conn : Holds(c)
                /\ bad = None /\ "stale" \notin cause =>
                     (\A p \in Peer : Unanswered(p)) /\ (\A c \in Conn : Served(c))
BY OwnOrder DEF StreamInv, Ordered, Named, Holds, Unanswered, Served

LEMMA ServedSame ==
  ASSUME NEW d \in Conn, Served(d),
         conn'[d].peer = conn[d].peer, conn'[d].rh = conn[d].rh, conn'[d].fio = conn[d].fio,
         conn'[d].fd = conn[d].fd, conn'[d].store = conn[d].store,
         conn[d].fio = None => conn'[d].etimer = conn[d].etimer,
         Asked(d) => /\ peer'[conn[d].peer].op = peer[conn[d].peer].op
                     /\ peer'[conn[d].peer].out = peer[conn[d].peer].out,
         Asked(d) /\ conn[d].fio # None /\ peer[conn[d].peer].op = "read" =>
           fio'[conn[d].fio] = fio[conn[d].fio]
  PROVE  Served(d)'
<1> SUFFICES ASSUME Asked(d)
             PROVE  ( /\ conn[d].fio = None => IF conn[d].etimer THEN Len(peer[conn[d].peer].out) = 1
                                               ELSE peer[conn[d].peer].out = <<>>
                      /\ conn[d].fio # None /\ peer[conn[d].peer].op = "write" =>
                           Len(peer[conn[d].peer].out) = 1
                      /\ conn[d].fio # None /\ peer[conn[d].peer].op = "read" => Downloading(d))'
  BY DEF Served, Asked
<1>1. conn[d].fio # None /\ peer[conn[d].peer].op = "read" => Downloading(d)'
  BY DEF Served, Downloading
<1> QED BY <1>1 DEF Served

\* A step that changes no file and sends nothing.
LEMMA StreamQuiet ==
  ASSUME OwnInv, StreamInv, bad = None, tmp' = tmp, file' = file, cause \subseteq cause',
         \A x \in Peer : peer'[x].out = peer[x].out,
         \A x \in Peer : peer'[x].op = peer[x].op \/ peer[x].out = <<>> \/ "stale" \in cause,
         \A x \in Peer : New(x)' => New(x),
         \A c \in Conn : Asked(c) => peer'[conn[c].peer].op = peer[conn[c].peer].op,
         \A c \in Conn : \/ /\ conn'[c].peer = conn[c].peer /\ conn'[c].rh = conn[c].rh
                            /\ conn'[c].fio = conn[c].fio /\ conn'[c].store = conn[c].store
                            /\ conn'[c].fd = conn[c].fd /\ conn'[c].etimer = conn[c].etimer
                         \/ conn'[c].rh = "header" /\ conn'[c].store = 0,
         \A c \in Conn : conn[c].store # 0 => fdt'[conn[c].store] = fdt[conn[c].store],
         \A c \in Conn : conn[c].fio # None /\ peer[conn[c].peer].op = "read" =>
            fio'[conn[c].fio] = fio[conn[c].fio]
  PROVE  StreamInv'
<1>1. /\ Ordered /\ Named /\ \A c \in Conn : Holds(c)
      /\ "stale" \notin cause => (\A p \in Peer : Unanswered(p)) /\ (\A c \in Conn : Served(c))
  BY StreamParts
<1>2. "stale" \notin cause' => "stale" \notin cause
  OBVIOUS
<1>3. Ordered'
  <2> SUFFICES ASSUME "stale" \notin cause', NEW p \in Peer
               PROVE  InOrder(peer'[p].out, peer'[p].op, Blk[p])
    BY DEF Ordered
  <2>1. CASE peer'[p].op = peer[p].op
    BY <1>1, <1>2, <2>1 DEF Ordered
  <2>2. CASE peer[p].out = <<>>
    <3>1. Blk[p] \in Block
      BY DnRequestAssumption DEF Block
    <3> QED BY <2>2, <3>1, HeaderInOrder
  <2> QED BY <1>2, <2>1, <2>2
<1>4. Named'
  BY <1>1 DEF Named
<1>5. ASSUME NEW c \in Conn PROVE Holds(c)'
  BY <1>1 DEF Holds
<1>6. ASSUME "stale" \notin cause', NEW p \in Peer PROVE Unanswered(p)'
  BY <1>1, <1>2, <1>6 DEF Unanswered
<1>7. ASSUME "stale" \notin cause', NEW c \in Conn PROVE Served(c)'
  <2>1. CASE conn'[c].rh = "header"
    BY <2>1 DEF Served, Asked
  <2>2. CASE /\ conn'[c].peer = conn[c].peer /\ conn'[c].rh = conn[c].rh
             /\ conn'[c].fio = conn[c].fio /\ conn'[c].store = conn[c].store
             /\ conn'[c].fd = conn[c].fd /\ conn'[c].etimer = conn[c].etimer
    <3>1. Asked(c) => peer'[conn[c].peer].out = peer[conn[c].peer].out
      BY HasPeer DEF Asked
    <3>2. Served(c)
      BY <1>1, <1>2, <1>7
    <3> QED BY <2>2, <3>1, <3>2, ServedSame
  <2> QED BY <2>1, <2>2
<1>8. \A c \in Conn : Holds(c)'
  BY <1>5
<1>9. "stale" \notin cause' => (\A p \in Peer : Unanswered(p)') /\ (\A c \in Conn : Served(c)')
  BY <1>6, <1>7
<1>10. OwnStream'
  BY <1>3 DEF Ordered, OwnStream, Stream, StreamOf, InOrder
<1> QED BY <1>4, <1>8, <1>9, <1>10 DEF StreamInv, Named, Holds, Unanswered, Served

LEMMA StreamClient ==
  ASSUME OwnInv, OpInv, StreamInv, bad = None, NEW p \in Peer, Moves(p)
  PROVE  StreamInv'
<1>1. /\ ~peer[p].cut /\ ~peer'[p].cut /\ peer'[p].out = peer[p].out
      /\ \A x \in Peer \ {p} : peer'[x] = peer[x]
      /\ \A c \in Conn : SameBut(c)
      /\ fio' = fio /\ tmp' = tmp /\ file' = file /\ bad' = bad /\ fdt' = fdt /\ cause' = cause
  BY DEF Moves, tasks, disk
<1>2. \A c \in Conn : /\ conn'[c].peer = conn[c].peer /\ conn'[c].rh = conn[c].rh /\ conn'[c].fio = conn[c].fio
                      /\ conn'[c].store = conn[c].store /\ conn'[c].fd = conn[c].fd
                      /\ conn'[c].etimer = conn[c].etimer
  BY <1>1 DEF SameBut
<1>3. \A x \in Peer : New(x)' => New(x)
  BY <1>1, <1>2 DEF New
<1>4. peer'[p].op = peer[p].op \/ peer[p].pc = "open"
  BY DEF Moves
<1>5. ASSUME NEW c \in Conn, Asked(c)
      PROVE  /\ conn[c].peer \in Peer /\ peer'[conn[c].peer].op = peer[conn[c].peer].op
             /\ peer[conn[c].peer].pc # "open"
  <2>1. conn[c].peer \in Peer /\ peer[conn[c].peer].op \in {"write", "read"}
    BY <1>5, HasPeer DEF OpInv, Asked
  <2>2. peer[conn[c].peer].pc # "open"
    BY <2>1 DEF OpInv, None
  <2> QED BY <1>1, <1>4, <2>1, <2>2
<1>6. peer'[p].op = peer[p].op \/ peer[p].out = <<>> \/ "stale" \in cause
  <2> SUFFICES ASSUME peer[p].pc = "open", "stale" \notin cause PROVE peer[p].out = <<>>
    BY <1>4
  <2>1. p # None
    BY DnRequestAssumption DEF None
  <2>2. New(p)
    BY <1>1, <1>5, <2>1 DEF New, Asked
  <2> QED BY <2>2, StreamParts DEF Unanswered
<1>7. \A x \in Peer : peer'[x].out = peer[x].out /\ (peer'[x].op = peer[x].op \/ peer[x].out = <<>> \/ "stale" \in cause)
  BY <1>1, <1>6
<1> QED BY <1>1, <1>2, <1>3, <1>5, <1>7, StreamQuiet

LEMMA StreamRest ==
  ASSUME OwnInv, OpInv, StreamInv, bad = None,
         \/ \E p \in Peer : TurnsAway(p)
         \/ \E p \in Peer, c \in Conn : Accepts(p, c)
         \/ \E c \in Conn : Reported(c)
         \/ \E f \in Fio : Wrote(f)
  PROVE  StreamInv'
<1>1. ASSUME NEW p \in Peer, TurnsAway(p) PROVE StreamInv'
  <2>1. /\ \A c \in Conn : conn[c].peer # p
        /\ peer'[p] = [peer[p] EXCEPT !.cut = TRUE] /\ \A x \in Peer \ {p} : peer'[x] = peer[x]
        /\ conn' = conn /\ fio' = fio /\ tmp' = tmp /\ file' = file /\ fdt' = fdt /\ cause' = cause
    BY <1>1 DEF TurnsAway, tasks, disk
  <2>2. /\ peer'[p].cut /\ peer'[p].op = peer[p].op /\ peer'[p].out = peer[p].out
    <3>1. peer[p] \in Client_t
      BY DEF OwnInv, TypeOK
    <3> QED BY <2>1, <3>1 DEF Client_t
  <2>3. \A x \in Peer : New(x)' => New(x)
    <3> SUFFICES ASSUME NEW x \in Peer, New(x)' PROVE New(x)
      OBVIOUS
    <3>1. x # p
      BY <2>2 DEF New
    <3> QED BY <2>1, <3>1 DEF New
  <2>4. \A x \in Peer : peer'[x].op = peer[x].op /\ peer'[x].out = peer[x].out
    BY <2>1, <2>2
  <2>5. \A c \in Conn : Asked(c) => peer'[conn[c].peer].op = peer[conn[c].peer].op
    BY <2>4, HasPeer DEF Asked
  <2> QED BY <2>1, <2>3, <2>4, <2>5, StreamQuiet
<1>2. ASSUME NEW p \in Peer, NEW c \in Conn, Accepts(p, c) PROVE StreamInv'
  <2>1. /\ \A d \in Conn : conn[d].peer # p
        /\ conn[c] = Unused /\ conn'[c].rh = "header" /\ conn'[c].peer = p /\ conn'[c].store = 0
        /\ \A d \in Conn \ {c} : conn'[d] = conn[d]
        /\ \A d \in Conn : conn[d].store # 0 => fdt'[conn[d].store] = fdt[conn[d].store]
        /\ peer' = peer /\ fio' = fio /\ tmp' = tmp /\ file' = file /\ cause' = cause
    BY <1>2 DEF Accepts, Waiting, tasks, disk
  <2>2. \A x \in Peer : New(x)' => New(x)
    <3> SUFFICES ASSUME NEW x \in Peer, New(x)', NEW d \in Conn, conn[d].peer = x
                 PROVE  conn[d].rh = "header"
      BY <2>1 DEF New
    <3>1. Unused.peer = None /\ x # None
      BY DnRequestAssumption DEF Unused, None
    <3>2. d # c
      BY <2>1, <3>1
    <3> QED BY <2>1, <3>2 DEF New
  <2>3. \A d \in Conn : \/ /\ conn'[d].peer = conn[d].peer /\ conn'[d].rh = conn[d].rh
                           /\ conn'[d].fio = conn[d].fio /\ conn'[d].store = conn[d].store
                           /\ conn'[d].fd = conn[d].fd /\ conn'[d].etimer = conn[d].etimer
                        \/ conn'[d].rh = "header" /\ conn'[d].store = 0
    BY <2>1
  <2> QED BY <2>1, <2>2, <2>3, StreamQuiet
<1>3. ASSUME NEW c \in Conn, Reported(c) PROVE StreamInv'
  <2>1. /\ \A d \in Conn : SameBut(d)
        /\ peer' = peer /\ fio' = fio /\ tmp' = tmp /\ file' = file /\ fdt' = fdt /\ cause' = cause
    BY <1>3 DEF Reported, tasks, disk
  <2>2. \A d \in Conn : /\ conn'[d].peer = conn[d].peer /\ conn'[d].rh = conn[d].rh
                        /\ conn'[d].fio = conn[d].fio /\ conn'[d].store = conn[d].store
                        /\ conn'[d].fd = conn[d].fd /\ conn'[d].etimer = conn[d].etimer
    BY <2>1 DEF SameBut
  <2>3. \A x \in Peer : New(x)' => New(x)
    BY <2>1, <2>2 DEF New
  <2> QED BY <2>1, <2>2, <2>3, StreamQuiet
<1>4. ASSUME NEW f \in Fio, Wrote(f) PROVE StreamInv'
  <2>1. SameTask(f) /\ peer[conn[fio[f].conn].peer].op = "write" /\ peer' = peer /\ cause \subseteq cause'
    BY <1>4 DEF Wrote
  <2>2. /\ conn' = conn /\ tmp' = tmp /\ file' = file /\ fdt' = fdt
        /\ \A g \in Fio \ {f} : fio'[g] = fio[g]
    BY <2>1 DEF SameTask
  <2>3. \A x \in Peer : New(x)' => New(x)
    BY <2>1, <2>2 DEF New
  <2>4. ASSUME NEW d \in Conn, conn[d].fio # None, peer[conn[d].peer].op = "read"
        PROVE  fio'[conn[d].fio] = fio[conn[d].fio]
    <3>1. conn[d].fio \in Fio
      BY <2>4 DEF OwnInv, TypeOK, Conn_t
    <3>2. conn[d].fio # f
      <4>1. fio[f].conn \in Conn /\ conn[fio[f].conn].fio = f
        BY <2>1, TaskConn DEF SameTask
      <4>2. conn[d].fio = f => d = fio[f].conn
        BY <2>4, <4>1 DEF OwnInv, Owned, Tasks
      <4> QED BY <2>1, <2>4, <4>2
    <3> QED BY <2>2, <3>1, <3>2
  <2> QED BY <2>1, <2>2, <2>3, <2>4, StreamQuiet
<1> QED BY <1>1, <1>2, <1>3, <1>4

LEMMA StreamSent ==
  ASSUME OwnInv, OpInv, StreamInv, bad = None, NEW f \in Fio, Sent(f)
  PROVE  StreamInv'
<1> DEFINE t == fio[f]
           s == fio'[f]
<1>0. t.io # "own"
  BY DEF Sent, SameTask
<1>a. PICK c \in Conn : c = t.conn
  BY <1>0, TaskConn
<1>b. PICK p \in Peer : p = conn[c].peer
  BY <1>0, <1>a, TaskConn
<1>1. /\ Ordered /\ Named /\ \A d \in Conn : Holds(d)
      /\ "stale" \notin cause => (\A x \in Peer : Unanswered(x)) /\ (\A d \in Conn : Served(d))
  BY StreamParts
<1>2. /\ SameTask(f) /\ peer[p].op = "read" /\ cause' = cause
  BY <1>a, <1>b DEF Sent
<1>3. /\ conn' = conn /\ tmp' = tmp /\ file' = file /\ fdt' = fdt /\ bad' = bad /\ s.sf = t.sf
      /\ \A g \in Fio \ {f} : fio'[g] = fio[g]
  BY <1>2 DEF SameTask
<1>4. conn[c].peer = p /\ conn[c].fio = f /\ Working(conn[c]) /\ conn[c] # Unused
  BY <1>0, <1>a, <1>b, TaskConn
<1>5. Asked(c) /\ f # None /\ p # None
  BY <1>4, DnRequestAssumption DEF Asked, Working, None
<1>6. "stale" \notin cause => Downloading(c)
  BY <1>1, <1>2, <1>4, <1>5 DEF Served
<1>7. ASSUME "stale" \notin cause
      PROVE  /\ Downloading(c)'
             /\ \A x \in Peer \ {p} : peer'[x] = peer[x]
             /\ peer'[p].op = peer[p].op /\ peer'[p].cut = peer[p].cut
             /\ InOrder(peer'[p].out, "read", Blk[p])
  <2>1. /\ t.sf = <<conn[c].fd, conn[c].store>>
        /\ t.off + t.need = Size[Blk[p]] /\ Len(peer[p].out) = 1 + t.off
    BY <1>4, <1>6, <1>7 DEF Downloading
  <2>2. InOrder(peer[p].out, "read", Blk[p])
    BY <1>1, <1>2, <1>7 DEF Ordered
  <2>3. CASE /\ peer' = peer /\ s.io = "done" /\ s.off = t.off /\ s.need = t.need
             /\ s.ret \in {EAGAIN, ERROR} \/ t.need = 0
    <3>1. Downloading(c)'
      BY <1>3, <1>4, <2>1, <2>3 DEF Downloading
    <3> QED BY <2>2, <2>3, <3>1
  <2>4. ASSUME NEW q \in Peer, NEW j \in Peer \cup Block, NEW n \in Nat,
               t.sf[1] # 0, t.sf[2] # 0, fdt[t.sf[1]] = <<"sock", q>>, fdt[t.sf[2]] = <<"file", j>>,
               peer'[q] = [peer[q] EXCEPT !.out = @ \o [k \in 1 .. n |-> <<BlockOf(j), t.off + k>>]],
               \A x \in Peer \ {q} : peer'[x] = peer[x],
               n <= t.need, s.off = t.off + n, s.need = t.need - n, s.io = "done" => s.need = 0
        PROVE  /\ Downloading(c)'
               /\ \A x \in Peer \ {p} : peer'[x] = peer[x]
               /\ peer'[p].op = peer[p].op /\ peer'[p].cut = peer[p].cut
               /\ InOrder(peer'[p].out, "read", Blk[p])
    <3>1. t.sf[1] = conn[c].fd /\ t.sf[2] = conn[c].store
      BY <2>1
    <3>2. q = p
      <4>1. fdt[conn[c].fd] = <<"sock", p>>
        BY <1>4, <2>4, <3>1 DEF OwnInv, FdInv
      <4>2. <<"sock", q>> = <<"sock", p>>
        BY <2>4, <3>1, <4>1
      <4> QED BY <4>2
    <3>3. BlockOf(j) = Blk[p]
      <4>1. Holds(c) /\ conn[c].store # 0
        BY <1>1, <2>4, <3>1
      <4>2. fdt[conn[c].store][2] = j
        BY <2>4, <3>1
      <4> QED BY <1>4, <4>1, <4>2 DEF Holds
    <3> DEFINE o == peer[p].out
               x == o \o [k \in 1 .. n |-> <<Blk[p], t.off + k>>]
    <3>4. o \in Seq(Pieces) /\ t.off \in Nat /\ t.need \in Nat /\ peer[p] \in Client_t /\ Blk[p] \in Block
          /\ Size[Blk[p]] \in Nat
      BY DnRequestAssumption DEF OwnInv, TypeOK, Client_t, Fio_t, Pieces, Block
    <3>5. peer'[p] = [peer[p] EXCEPT !.out = x]
      BY <2>4, <3>2, <3>3
    <3>6. peer'[p].out = x /\ peer'[p].op = peer[p].op /\ peer'[p].cut = peer[p].cut
      BY <3>4, <3>5 DEF Client_t
    <3>7. InOrder(x, "read", Blk[p]) /\ Len(x) = 1 + t.off + n
      <4> HIDE DEF o
      <4>1. t.off + n <= Size[Blk[p]]
        BY <2>1, <2>4, <3>4
      <4>2. PICK off \in Nat : off = t.off
        BY <3>4
      <4>3. PICK b \in Block : b = Blk[p]
        BY <3>4
      <4>4. InOrder(o, "read", b) /\ Len(o) = 1 + off /\ off + n <= Size[b] /\ o \in Seq(Pieces)
        BY <2>1, <2>2, <3>4, <4>1, <4>2, <4>3 DEF o
      <4>5. InOrder(o \o Run(b, off, n), "read", b) /\ Len(o \o Run(b, off, n)) = 1 + off + n
        BY <4>4, PiecesInOrder
      <4> QED BY <4>2, <4>3, <4>5 DEF Run
    <3> HIDE DEF o, x
    <3>8. s.off + s.need = Size[Blk[p]]
      BY <2>1, <2>4, <3>4
    <3>9. Len(peer'[p].out) = 1 + s.off
      BY <2>4, <3>4, <3>6, <3>7
    <3>10. Downloading(c)'
      BY <1>3, <1>4, <2>1, <2>4, <3>8, <3>9 DEF Downloading
    <3> QED BY <2>4, <3>2, <3>6, <3>7, <3>10
  <2> QED BY <2>3, <2>4 DEF Sent
<1>8. Ordered'
  <2> SUFFICES ASSUME "stale" \notin cause, NEW x \in Peer
               PROVE  InOrder(peer'[x].out, peer'[x].op, Blk[x])
    BY <1>2 DEF Ordered
  <2> QED BY <1>1, <1>2, <1>7 DEF Ordered
<1>9. Named'
  BY <1>1, <1>3 DEF Named
<1>10. \A d \in Conn : Holds(d)'
  BY <1>1, <1>3 DEF Holds
<1>11. ASSUME "stale" \notin cause, NEW x \in Peer PROVE Unanswered(x)'
  <2> SUFFICES ASSUME New(x)' PROVE peer'[x].out = <<>>
    BY DEF Unanswered
  <2>1. x # p
    BY <1>3, <1>4, <1>5 DEF New, Asked
  <2>2. peer'[x] = peer[x]
    BY <1>7, <1>11, <2>1
  <2>3. New(x)
    BY <1>3, <2>2 DEF New
  <2> QED BY <1>1, <1>11, <2>2, <2>3 DEF Unanswered
<1>12. ASSUME "stale" \notin cause, NEW d \in Conn PROVE Served(d)'
  <2>1. CASE d = c
    BY <1>2, <1>3, <1>4, <1>5, <1>7, <1>12, <2>1 DEF Served
  <2>2. CASE d # c
    <3>1. Served(d)
      BY <1>1, <1>12
    <3>2. Asked(d) => conn[d].peer \in Peer /\ conn[d].peer # p
      BY <1>4, <1>5, <2>2, HasPeer DEF OwnInv, PeerInv, Asked
    <3>3. Asked(d) => peer'[conn[d].peer] = peer[conn[d].peer]
      BY <1>7, <1>12, <3>2
    <3>4. conn[d].fio # None => fio'[conn[d].fio] = fio[conn[d].fio]
      <4> SUFFICES ASSUME conn[d].fio # None PROVE fio'[conn[d].fio] = fio[conn[d].fio]
        OBVIOUS
      <4>1. conn[d].fio \in Fio
        BY DEF OwnInv, TypeOK, Conn_t
      <4>2. conn[d].fio # f
        BY <1>4, <1>5, <2>2 DEF OwnInv, Owned, Tasks
      <4> QED BY <1>3, <4>1, <4>2
    <3> QED BY <1>3, <3>1, <3>3, <3>4, ServedSame
  <2> QED BY <2>1, <2>2
<1>13. "stale" \notin cause' => (\A x \in Peer : Unanswered(x)') /\ (\A d \in Conn : Served(d)')
  BY <1>2, <1>11, <1>12
<1>14. OwnStream'
  BY <1>8 DEF Ordered, OwnStream, Stream, StreamOf, InOrder
<1> QED BY <1>9, <1>10, <1>13, <1>14 DEF StreamInv, Named, Holds, Unanswered, Served

LEMMA StreamOpens ==
  ASSUME OwnInv, OpInv, StreamInv, bad = None, NEW c \in Conn, conn[c] # Unused, Frame(c), Opens(c)
  PROVE  StreamInv'
<1>a. PICK p \in Peer : p = conn[c].peer /\ p # None
  BY InUse
<1>b. PICK b \in Block : b = Blk[p]
  BY DnRequestAssumption DEF Block
<1>1. /\ Ordered /\ Named /\ \A d \in Conn : Holds(d)
      /\ "stale" \notin cause => (\A x \in Peer : Unanswered(x)) /\ (\A d \in Conn : Served(d))
  BY StreamParts
<1>2. /\ Waiting(conn[c]) /\ Opening(conn'[c]) /\ conn'[c].peer = p /\ ~conn'[c].etimer
      /\ peer'[p] = [peer[p] EXCEPT !.rx = 0]
      /\ fio' = fio /\ bad' = bad /\ file' = file /\ cause' = cause
  BY <1>a DEF Opens
<1>3. /\ peer'[p].op = peer[p].op /\ peer'[p].out = peer[p].out /\ peer'[p].cut = peer[p].cut
  <2>1. PICK q \in Client_t : q = peer[p]
    BY DEF OwnInv, TypeOK
  <2>2. LET s == [q EXCEPT !.rx = 0] IN  s.op = q.op /\ s.out = q.out /\ s.cut = q.cut
    BY DEF Client_t
  <2> QED BY <1>2, <2>1, <2>2
<1>4. \A x \in Peer \ {p} : peer'[x] = peer[x]
  BY <1>a DEF Frame
<1>5. New(p)
  <2>1. ~peer[p].cut
    BY <1>a DEF OwnInv, PeerInv
  <2>2. \A d \in Conn : conn[d].peer = p => d = c
    BY <1>a DEF OwnInv, PeerInv
  <2> QED BY <1>2, <2>1, <2>2 DEF New, Waiting
<1>6. \E i : /\ fdt'[conn'[c].store] = <<"file", i>> /\ BlockOf(i) = b
             /\ tmp' = tmp \/ tmp' = [tmp EXCEPT ![b] = i]
  <2>1. BlockOf(p) = b
    BY <1>b, DnRequestAssumption DEF BlockOf, Block
  <2>2. tmp[b] # None => BlockOf(tmp[b]) = b
    BY <1>1 DEF Named
  <2>3. b \in index => BlockOf(file[b]) = b
    BY <1>1 DEF Named, OpInv
  <2>4. CASE /\ peer[p].op = "write"
             /\ fdt'[conn'[c].store] = <<"file", IF tmp[b] = None THEN p ELSE tmp[b]>>
             /\ tmp' = [tmp EXCEPT ![b] = IF tmp[b] = None THEN p ELSE tmp[b]]
    <3>1. BlockOf(IF tmp[b] = None THEN p ELSE tmp[b]) = b
      BY <2>1, <2>2
    <3> QED BY <2>4, <3>1
  <2>5. CASE b \in index /\ fdt'[conn'[c].store] = <<"file", file[b]>> /\ tmp' = tmp
    BY <2>3, <2>5
  <2> QED BY <1>a, <1>b, <2>4, <2>5 DEF Opens
<1>7. PICK i : /\ fdt'[conn'[c].store] = <<"file", i>> /\ BlockOf(i) = b
               /\ tmp' = tmp \/ tmp' = [tmp EXCEPT ![b] = i]
  BY <1>6
<1>8. Ordered'
  BY <1>1, <1>2, <1>3, <1>4 DEF Ordered
<1>9. Named'
  <2>1. \A e \in Block : tmp'[e] = tmp[e] \/ (e = b /\ tmp'[e] = i)
    BY <1>7 DEF OwnInv, TypeOK
  <2> QED BY <1>1, <1>2, <1>7, <2>1 DEF Named
<1>10. ASSUME NEW d \in Conn PROVE Holds(d)'
  <2>1. CASE d = c
    <3>1. fdt'[conn'[c].store][2] = i
      BY <1>7
    <3> QED BY <1>2, <1>7, <1>b, <2>1, <3>1 DEF Holds
  <2>2. CASE d # c
    <3>1. conn'[d] = conn[d] /\ (conn[d].store # 0 => fdt'[conn[d].store] = fdt[conn[d].store])
      BY <2>2, Others
    <3> QED BY <1>1, <3>1 DEF Holds
  <2> QED BY <2>1, <2>2
<1>11. ASSUME "stale" \notin cause, NEW x \in Peer PROVE Unanswered(x)'
  <2>1. New(x)' => New(x) /\ peer'[x] = peer[x]
    BY <1>2, <1>a, NewStays DEF Opening
  <2> QED BY <1>1, <1>11, <2>1 DEF Unanswered
<1>12. ASSUME "stale" \notin cause, NEW d \in Conn PROVE Served(d)'
  <2>1. CASE d = c
    <3>1. (conn[c].fio)' = None /\ ~(conn[c].etimer)' /\ (conn[c].peer)' = p
      BY <1>2 DEF Opening
    <3>2. peer'[p].out = <<>>
      BY <1>1, <1>3, <1>5, <1>12 DEF Unanswered
    <3> QED BY <2>1, <3>1, <3>2 DEF Served
  <2>2. CASE d # c
    <3>1. /\ conn'[d] = conn[d]
          /\ conn[d].peer # None => peer'[conn[d].peer] = peer[conn[d].peer]
      BY <2>2, Others
    <3>2. Served(d)
      BY <1>1, <1>12
    <3> QED BY <1>2, <3>1, <3>2, ServedSame DEF Asked
  <2> QED BY <2>1, <2>2
<1>13. \A d \in Conn : Holds(d)'
  BY <1>10
<1>14. "stale" \notin cause' => (\A x \in Peer : Unanswered(x)') /\ (\A d \in Conn : Served(d)')
  BY <1>2, <1>11, <1>12
<1>15. OwnStream'
  BY <1>8 DEF Ordered, OwnStream, Stream, StreamOf, InOrder
<1> QED BY <1>9, <1>13, <1>14, <1>15 DEF StreamInv, Named, Holds, Unanswered, Served

\* The answer to the header is the first thing sent.
LEMMA HeadedOut ==
  ASSUME OwnInv, NEW c \in Conn, conn[c].peer \in Peer, NEW o, Headed(c, o),
         Served(c), Asked(c), conn[c].fio = None
  PROVE  Len(o) = 1
<1> DEFINE q == peer[conn[c].peer]
<1>1. CASE q.out = <<>> /\ o = <<<<"header", 0>>>>
  <2>1. Len(<<<<"header", 0>>>>) = 1
    OBVIOUS
  <2> QED BY <1>1, <2>1
<1>2. CASE o = q.out /\ (o # <<>> \/ conn[c].etimer)
  BY <1>2 DEF Served
<1> QED BY <1>1, <1>2 DEF Headed

\* What the client of connection c has been sent after a handler.
LEMMA StreamGrows ==
  ASSUME OwnInv, OpInv, StreamInv, bad = None, NEW c \in Conn, conn[c] # Unused, Step(c),
         "stale" \notin cause, NEW p \in Peer, p = conn[c].peer
  PROVE  InOrder(peer'[p].out, peer'[p].op, Blk[p])
<1>1. Ordered /\ \A d \in Conn : Served(d)
  BY StreamParts
<1>2. PICK b \in Block : b = Blk[p]
  BY DnRequestAssumption DEF Block
<1>3. InOrder(peer[p].out, peer[p].op, b)
  BY <1>1, <1>2 DEF Ordered
<1>4. peer'[p].op = peer[p].op
  BY DEF Step, Kept
<1>5. CASE Headed(c, peer'[p].out) \/ peer'[p].out = peer[p].out
  <2>1. peer'[p].out = peer[p].out \/ peer'[p].out = <<<<"header", 0>>>>
    BY <1>5 DEF Headed
  <2> QED BY <1>2, <1>3, <1>4, <2>1, HeaderInOrder
<1>6. CASE Finished(c) /\ peer'[p].out = Append(peer[p].out, <<"done", 0>>)
  <2> DEFINE u == fio[conn[c].fio]
  <2>1. /\ conn[c].fio \in Fio /\ u.io = "done"
        /\ peer[p].op # "write" => u.ret \notin {EAGAIN, ERROR}
    BY <1>6 DEF Finished
  <2>2. conn[c].fio # None /\ p # None
    BY <2>1, DnRequestAssumption DEF None
  <2>3. Asked(c)
    <3>1. ~Waiting(conn[c])
      BY <2>2 DEF Waiting
    <3> QED BY <2>2, <3>1, InUse DEF Asked
  <2>4. peer[p].op \in {"write", "read"}
    BY <2>3 DEF OpInv
  <2>5. Len(peer[p].out) = IF peer[p].op = "read" THEN 1 + Size[b] ELSE 1
    <3>1. CASE peer[p].op = "write"
      BY <1>1, <2>2, <2>3, <3>1 DEF Served
    <3>2. CASE peer[p].op = "read"
      <4>1. Downloading(c)
        BY <1>1, <2>2, <2>3, <3>2 DEF Served
      <4>2. /\ u.off + u.need = Size[b] /\ Len(peer[p].out) = 1 + u.off
            /\ u.io = "done" /\ u.ret \notin {EAGAIN, ERROR} => u.need = 0
        BY <1>2, <4>1 DEF Downloading
      <4>3. u.need = 0
        BY <2>1, <3>2, <4>2
      <4>4. u.off \in Nat
        BY <2>1 DEF OwnInv, TypeOK, Fio_t
      <4> HIDE DEF u
      <4> QED BY <3>2, <4>2, <4>3, <4>4
    <3> QED BY <2>4, <3>1, <3>2
  <2>6. PICK o \in Seq(Pieces) : o = peer[p].out
    BY DEF OwnInv, TypeOK, Client_t, Pieces
  <2> QED BY <1>2, <1>3, <1>4, <1>6, <2>5, <2>6, DoneInOrder
<1>7. CASE Ends(c)
  BY <1>5, <1>6, <1>7 DEF Ends
<1>8. CASE Starves(c) \/ Writes(c) \/ Reads(c)
  BY <1>5, <1>8 DEF Starves, Writes, Reads
<1>9. CASE Retries(c) \/ Sames(c)
  BY <1>5, <1>9 DEF Retries, Sames
<1> QED BY <1>7, <1>8, <1>9 DEF Step

\* The request that a handler served goes on.
LEMMA ServedOn ==
  ASSUME OwnInv, OpInv, bad = None, NEW c \in Conn, conn[c] # Unused, OwnInv', Kept(c), Served(c),
         "stale" \notin cause', Starves(c) \/ Writes(c) \/ Reads(c) \/ Retries(c) \/ Sames(c), Asked(c),
         NEW p \in Peer, p = conn[c].peer, conn'[c].peer = p, conn'[c].store = conn[c].store,
         conn'[c].fd = conn[c].fd, conn'[c].rh # "header"
  PROVE  Served(c)'
<1> DEFINE r == conn[c]
           s == conn'[c]
<1>1. peer'[p].op = peer[p].op /\ peer[p].op \in {"write", "read"}
  BY DEF Kept, OpInv
<1>2. CASE Starves(c)
  <2>1. Opening(r) /\ Opening(s) /\ s.etimer /\ Headed(c, peer'[p].out)
    BY <1>2 DEF Starves
  <2>2. s.fio = None /\ r.fio = None
    BY <2>1 DEF Opening
  <2>3. Len(peer'[p].out) = 1
    BY <2>1, <2>2, HeadedOut
  <2> QED BY <2>1, <2>2, <2>3 DEF Served
<1>3. CASE Writes(c)
  <2>1. s.fio \in Fio /\ peer[p].op = "write"
    BY <1>3 DEF Writes
  <2>2. s.fio # None
    BY <2>1, DnRequestAssumption DEF None
  <2>3. Len(peer'[p].out) = 1
    <3>1. CASE Opening(r) /\ Headed(c, peer'[p].out)
      <4>1. r.fio = None
        BY <3>1 DEF Opening
      <4> QED BY <3>1, <4>1, HeadedOut
    <3>2. CASE r.fio \in Fio /\ peer'[p].out = peer[p].out
      <4>1. r.fio # None
        BY <3>2, DnRequestAssumption DEF None
      <4> QED BY <2>1, <3>2, <4>1 DEF Served
    <3> QED BY <1>3, <3>1, <3>2 DEF Writes
  <2> QED BY <1>1, <2>1, <2>2, <2>3 DEF Served
<1>4. CASE Reads(c)
  <2> DEFINE t == fio'[s.fio]
  <2>1. /\ s.fio \in Fio /\ peer[p].op = "read" /\ Opening(r) /\ Headed(c, peer'[p].out)
        /\ t.io = "pending" /\ t.off = 0 /\ t.need = Size[Blk[p]]
        /\ t.sf = <<r.fd, r.store>>
    BY <1>4 DEF Reads
  <2>2. s.fio # None
    BY <2>1, DnRequestAssumption DEF None
  <2>3. r.fio = None
    BY <2>1 DEF Opening
  <2>4. Len(peer'[p].out) = 1
    BY <2>1, <2>3, HeadedOut
  <2>5. t.off + t.need = Size[Blk[p]] /\ 1 + t.off = 1
    BY <2>1, DnRequestAssumption
  <2>6. Downloading(c)'
    BY <2>1, <2>4, <2>5 DEF Downloading
  <2> QED BY <1>1, <2>1, <2>2, <2>6 DEF Served
<1>5. CASE Retries(c)
  <2> DEFINE t == fio'[r.fio]
             u == fio[r.fio]
  <2>1. /\ r.fio \in Fio /\ s.fio = r.fio /\ t.io = "pending" /\ t.off = u.off /\ t.need = u.need
        /\ t.sf = u.sf /\ peer' = peer /\ peer[p].op = "read"
    BY <1>5 DEF Retries
  <2>2. r.fio # None
    BY <2>1, DnRequestAssumption DEF None
  <2>3. Downloading(c)
    BY <2>1, <2>2 DEF Served
  <2>4. Downloading(c)'
    BY <2>1, <2>3 DEF Downloading
  <2> QED BY <1>1, <2>1, <2>2, <2>4 DEF Served
<1>6. CASE Sames(c)
  <2>1. /\ s.rh = r.rh /\ s.fio = r.fio /\ peer' = peer /\ fio' = fio
        /\ s = r \/ Working(r)
    BY <1>6 DEF Sames
  <2>2. r.fio = None => s.etimer = r.etimer
    BY <2>1 DEF Working
  <2> QED BY <2>1, <2>2, ServedSame
<1> QED BY <1>2, <1>3, <1>4, <1>5, <1>6

LEMMA StreamHandler ==
  ASSUME OwnInv, OpInv, StreamInv, bad = None, NEW c \in Conn, conn[c] # Unused, Step(c)
  PROVE  StreamInv'
<1>a. PICK p \in Peer : p = conn[c].peer /\ p # None
  BY InUse
<1>b. PICK b \in Block : b = Blk[p]
  BY DnRequestAssumption DEF Block
<1>1. /\ Ordered /\ Named /\ \A d \in Conn : Holds(d)
      /\ "stale" \notin cause => (\A x \in Peer : Unanswered(x)) /\ (\A d \in Conn : Served(d))
  BY StreamParts
<1>2. OwnInv' /\ Frame(c) /\ Kept(c) /\ ("stale" \notin cause' => "stale" \notin cause)
  BY DEF Step, Kept
<1>3. Ordered'
  <2> SUFFICES ASSUME "stale" \notin cause', NEW x \in Peer
               PROVE  InOrder(peer'[x].out, peer'[x].op, Blk[x])
    BY DEF Ordered
  <2>1. CASE x = p
    BY <1>2, <1>a, <2>1, StreamGrows
  <2>2. CASE x # p
    BY <1>1, <1>2, <1>a, <2>2 DEF Ordered, Frame
  <2> QED BY <2>1, <2>2
<1>4. Named'
  <2>1. CASE UNCHANGED disk
    BY <1>1, <2>1 DEF Named, disk
  <2>2. CASE write_block_done(b) /\ tmp[b] # None
    <3>1. file' = [file EXCEPT ![b] = tmp[b]] /\ tmp' = [tmp EXCEPT ![b] = None]
      BY <2>2 DEF write_block_done
    <3>2. \A e \in Block : /\ tmp'[e] = tmp[e] \/ tmp'[e] = None
                           /\ file'[e] = file[e] \/ (e = b /\ file'[e] = tmp[b])
      BY <3>1 DEF OwnInv, TypeOK
    <3> QED BY <1>1, <2>2, <3>2 DEF Named
  <2>3. UNCHANGED disk \/ write_block_done(b)
    <3>1. CASE Ends(c)
      BY <1>a, <1>b, <3>1 DEF Ends
    <3>2. CASE Starves(c) \/ Writes(c) \/ Reads(c) \/ Retries(c) \/ Sames(c)
      BY <3>2 DEF Starves, Writes, Reads, Retries, Sames
    <3> QED BY <3>1, <3>2 DEF Step
  <2>4. write_block_done(b) /\ tmp[b] = None => UNCHANGED disk
    BY DEF write_block_done
  <2> QED BY <2>1, <2>2, <2>3, <2>4
<1>c. Unused.peer = None /\ Unused.store = 0
  BY DEF Unused
<1>5. ASSUME bad' = None, NEW d \in Conn PROVE Holds(d)'
  <2>1. CASE d = c
    <3>1. conn'[c] = Unused \/ (conn'[c].peer = p /\ conn'[c].store = conn[c].store /\ fdt' = fdt)
      BY <1>5, <1>a, StepConn
    <3> QED BY <1>1, <1>a, <1>c, <2>1, <3>1 DEF Holds
  <2>2. CASE d # c
    <3>1. conn'[d] = conn[d] /\ (conn[d].store # 0 => fdt'[conn[d].store] = fdt[conn[d].store])
      BY <1>2, <2>2, Others
    <3> QED BY <1>1, <3>1 DEF Holds
  <2> QED BY <2>1, <2>2
<1>6. ASSUME bad' = None, "stale" \notin cause', NEW x \in Peer PROVE Unanswered(x)'
  <2>1. peer'[p].cut \/ (conn'[c].peer = p /\ conn'[c].rh # "header")
    BY <1>6, <1>a, StepConn
  <2>2. New(x)' => New(x) /\ peer'[x] = peer[x]
    BY <1>2, <1>a, <2>1, NewStays
  <2> QED BY <1>1, <1>2, <1>6, <2>2 DEF Unanswered
<1>7. ASSUME bad' = None, "stale" \notin cause', NEW d \in Conn PROVE Served(d)'
  <2>1. CASE d = c
    <3>1. CASE conn'[c] = Unused
      BY <1>c, <2>1, <3>1 DEF Served, Asked
    <3>2. CASE /\ Starves(c) \/ Writes(c) \/ Reads(c) \/ Retries(c) \/ Sames(c)
               /\ conn'[c].peer = p /\ conn'[c].rh # "header" /\ Asked(c)
               /\ conn'[c].store = conn[c].store /\ conn'[c].fd = conn[c].fd
      BY <1>1, <1>2, <1>7, <1>a, <2>1, <3>2, ServedOn
    <3> QED BY <1>7, <1>a, <3>1, <3>2, StepConn
  <2>2. CASE d # c
    <3>1. /\ conn'[d] = conn[d]
          /\ conn[d].peer # None => peer'[conn[d].peer] = peer[conn[d].peer]
          /\ conn[d].fio # None => fio'[conn[d].fio] = fio[conn[d].fio]
      BY <1>2, <2>2, Others
    <3>2. Served(d)
      BY <1>1, <1>2, <1>7
    <3> QED BY <3>1, <3>2, ServedSame DEF Asked
  <2> QED BY <2>1, <2>2
<1>8. bad' = None => \A d \in Conn : Holds(d)'
  BY <1>5
<1>9. bad' = None /\ "stale" \notin cause' =>
        (\A x \in Peer : Unanswered(x)') /\ (\A d \in Conn : Served(d)')
  BY <1>6, <1>7
<1>10. OwnStream'
  BY <1>3 DEF Ordered, OwnStream, Stream, StreamOf, InOrder
<1> QED BY <1>4, <1>8, <1>9, <1>10 DEF StreamInv, Named, Holds, Unanswered, Served

LEMMA StreamKept ==
  ASSUME OwnInv, OpInv, StreamInv, bad = None, Effect
  PROVE  StreamInv'
BY StreamClient, StreamRest, StreamHandler, StreamOpens, StreamSent DEF Effect

LEMMA InitStream == Init => StreamInv
<1> SUFFICES ASSUME Init PROVE StreamInv
  OBVIOUS
<1>1. /\ \A p \in Peer : peer[p].out = <<>>
      /\ \A c \in Conn : conn[c] = Unused
      /\ \A b \in Block : tmp[b] = None
      /\ \A b \in Block : file[b] = IF b \in Stored THEN b ELSE None
  BY DEF Init
<1>2. Unused.peer = None /\ Unused.store = 0
  BY DEF Unused
<1>3. Ordered
  <2> SUFFICES ASSUME NEW p \in Peer PROVE InOrder(peer[p].out, peer[p].op, Blk[p])
    BY DEF Ordered
  <2>1. Blk[p] \in Block
    BY DnRequestAssumption DEF Block
  <2> QED BY <1>1, <2>1, HeaderInOrder
<1>4. Named
  BY <1>1 DEF Named, BlockOf
<1>5. \A c \in Conn : Holds(c) /\ Served(c)
  BY <1>1, <1>2 DEF Holds, Served, Asked
<1>6. \A p \in Peer : Unanswered(p)
  BY <1>1 DEF Unanswered
<1> QED BY <1>3, <1>4, <1>5, <1>6, StreamParts

LEMMA StreamStays ==
  ASSUME OwnInv, OpInv, StreamInv, [Next]_vars
  PROVE  StreamInv'
<1>1. CASE Next
  BY <1>1, NextEffect, StreamKept
<1>2. CASE UNCHANGED vars
  BY <1>2 DEF vars, disk, tasks, StreamInv, OwnStream, Stream, Asked, Downloading, New
<1> QED BY <1>1, <1>2

\* Unless a task kept the sf_chain_task of an earlier read, what sendfile and the answers
\* put into a client's socket is the header's answer, the pieces of its own block in order
\* and the last answer, although the descriptors of closed requests are used again.
THEOREM StreamsKept == Spec => []OwnStream
<1>1. Init => OwnInv /\ OpInv /\ CorruptedOnlyBy /\ StreamInv
  BY InitOwn, InitOp, InitStream
<1>2. OwnInv /\ OpInv /\ CorruptedOnlyBy /\ StreamInv /\ [Next]_vars
        => (OwnInv /\ OpInv /\ CorruptedOnlyBy /\ StreamInv)'
  BY OpStays, StreamStays
<1>3. OwnInv /\ OpInv /\ CorruptedOnlyBy /\ StreamInv => OwnStream
  BY DEF StreamInv
<1> QED BY <1>1, <1>2, <1>3, PTL DEF Spec
=============================================================================
