---------------------------- MODULE NnConnProofs ----------------------------
(***************************************************************************)
(* Proofs for one connection of the namenode and any number of task        *)
(* threads, answer queues and requests: the nodes are accounted for        *)
(* (CountRight), the pool goes last (PoolLast), no request is answered     *)
(* twice (AnsweredOnce), no wakeup is lost but by the race for last_task   *)
(* (WakeupsKept) and an open connection waits for something that will      *)
(* come (ConnectionMoves).                                                 *)
(*                                                                         *)
(* count counts nodes, and the nodes are spread over queues of several     *)
(* threads.  OnceInv, the heart of the argument, says that a request is in *)
(* one place at one position; a step then moves requests between two       *)
(* places (PlaceMove), frees the nodes of some (PlaceLeave) or moves some  *)
(* that have no node (OutsideMove), and CountInv follows.  GoneInv and     *)
(* OutInv say what the network thread can be doing when nn_conn_finalize   *)
(* is called and what it leaves behind.                                    *)
(***************************************************************************)
EXTENDS NnConn, SequenceLemmas, FunctionTheorems

(***************************************************************************)
(* Where a request is: in the places of NnConn, which hold its node, or    *)
(* before it was decoded or after its node was freed.                      *)
(***************************************************************************)
Spot == Place \cup ({"sock", "inb", "out", "sent"} \X {0})

Line(p) == CASE p[1] = "sock" -> sock
             [] p[1] = "inb"  -> inb
             [] p[1] = "out"  -> out
             [] p[1] = "sent" -> sent
             [] OTHER         -> At(p)

\* The requests whose node is in use, and not leaked.
Held == {r \in Request : \E p \in Place : r \in Range(At(p))}

\* A request is in one spot, at one position.
OnceInv == /\ \A p \in Spot : IsInjective(Line(p))
           /\ \A p, q \in Spot : p # q => Range(Line(p)) \cap Range(Line(q)) = {}
           /\ \A p \in Spot : Range(Line(p)) \cap (unsent \cup leaked) = {}
           /\ unsent \cap leaked = {}

CountInv == /\ IsFiniteSet(Held) /\ IsFiniteSet(leaked)
            /\ count = Cardinality(Held) + Cardinality(leaked)
            /\ count + free = MaxTask /\ free \in Nat

\* After nn_conn_finalize nothing but the answer queues is served.
GoneInv == state = "disconnected" =>
             /\ outTask = <<>> /\ ~ev.slow /\ ~ev.timer /\ ~ev.wr
             /\ net.pc \in {"loop", "pop", "batch"}
DestroyInv == destroyed <=> (state = "disconnected" /\ count = 0)

\* Outside nn_conn_output, answers in the buffer wait for EPOLLOUT or for a write
\* event that is already posted, and answers in out_task for room.
Stuck == out = <<>> /\ outTask # <<>> => Head(outTask) \in Big
OutInv == /\ state = "connected" => ev.rd # ev.slow
          /\ (state = "connected" /\ net.pc \notin {"pack", "send"}) =>
               /\ out # <<>> => ev.wr /\ (ev.ready => "write" \in Range(posted))
               /\ Stuck
          /\ (net.pc \in {"pack", "send"} /\ net.then = "recv") =>
               net.pc = "pack" /\ out = <<>> /\ Stuck

\* The network thread answers a batch, a worker runs one, or the batch is empty.
BatchInv == /\ ~ (net.pc = "batch" \/ (net.pc \in {"pack", "send"} /\ net.then = "batch"))
                 => batch["net"] = <<>>
            /\ \A w \in Worker : wpc[w] \in {"idle", "pop"} => batch[w] = <<>>

(***************************************************************************)
(* Types, with the limits of the buffers; count and free are typed by      *)
(* CountInv.                                                               *)
(***************************************************************************)
PeerT  == /\ open \in BOOLEAN /\ unsent \subseteq Request
          /\ sock \in Seq(Request) /\ inb \in Seq(Request) /\ Len(inb) <= InCap
ConnT  == /\ state \in {"connected", "disconnected"} /\ destroyed \in BOOLEAN
          /\ leaked \subseteq Request
OutsT  == /\ outTask \in Seq(Request) /\ out \in Seq(Request) /\ sent \in Seq(Request)
          /\ Len(out) <= OutCap
EvT    == ev \in [rd : BOOLEAN, slow : BOOLEAN, wr : BOOLEAN, ready : BOOLEAN,
                  timer : BOOLEAN]
PostT  == posted \in Seq({"read", "write", "notice"})
NetT   == /\ net \in [pc : NetPc, i : 0..QueueSize, then : {"loop", "batch", "recv"},
                      to : Worker]
          /\ net.pc = "dispatched" => net.to \in TaskThread
BatchT == batch \in [Thread -> Seq(Request)]
QueT   == tq \in [Worker -> Seq(Request)] /\ bque \in [0..QueueSize - 1 -> Seq(Request)]
WorkT  == /\ wpc \in [Worker -> {"idle", "pop", "run", "toPaxos", "toNet"}]
          /\ wake \in [Thread -> BOOLEAN] /\ astray \subseteq TaskThread

Types == PeerT /\ ConnT /\ OutsT /\ EvT /\ PostT /\ NetT /\ BatchT /\ QueT /\ WorkT

----------------------------------------------------------------------------
(* The places and what they hold. *)

LEMMA PlaceForms ==
  /\ Place \subseteq Spot
  /\ \A w \in Worker : <<"tq", w>> \in Place
  /\ \A t \in Thread : <<"batch", t>> \in Place
  /\ \A i \in 0..QueueSize - 1 : <<"bque", i>> \in Place
  /\ <<"out_task", 0>> \in Place
  /\ \A x \in {"sock", "inb", "out", "sent"} : <<x, 0>> \in Spot \ Place
  /\ \A p \in Place : \/ \E w \in Worker : p = <<"tq", w>>
                      \/ \E t \in Thread : p = <<"batch", t>>
                      \/ \E i \in 0..QueueSize - 1 : p = <<"bque", i>>
                      \/ p = <<"out_task", 0>>
  /\ \A p \in Spot \ Place : \E x \in {"sock", "inb", "out", "sent"} : p = <<x, 0>>
BY DEF Place, Spot

LEMMA LineForms ==
  /\ \A w : Line(<<"tq", w>>) = tq[w] /\ At(<<"tq", w>>) = tq[w]
  /\ \A t : Line(<<"batch", t>>) = batch[t] /\ At(<<"batch", t>>) = batch[t]
  /\ \A i : Line(<<"bque", i>>) = bque[i] /\ At(<<"bque", i>>) = bque[i]
  /\ Line(<<"out_task", 0>>) = outTask /\ At(<<"out_task", 0>>) = outTask
  /\ Line(<<"sock", 0>>) = sock /\ Line(<<"inb", 0>>) = inb
  /\ Line(<<"out", 0>>) = out /\ Line(<<"sent", 0>>) = sent
  /\ \A p \in Place : Line(p) = At(p)
<1>1. /\ \A w : Line(<<"tq", w>>) = tq[w] /\ At(<<"tq", w>>) = tq[w]
      /\ \A t : Line(<<"batch", t>>) = batch[t] /\ At(<<"batch", t>>) = batch[t]
      /\ \A i : Line(<<"bque", i>>) = bque[i] /\ At(<<"bque", i>>) = bque[i]
      /\ Line(<<"out_task", 0>>) = outTask /\ At(<<"out_task", 0>>) = outTask
  BY DEF Line, At
<1>2. /\ Line(<<"sock", 0>>) = sock /\ Line(<<"inb", 0>>) = inb
      /\ Line(<<"out", 0>>) = out /\ Line(<<"sent", 0>>) = sent
  BY DEF Line
<1>3. \A p \in Place : Line(p) = At(p)
  BY <1>1, PlaceForms
<1> QED BY <1>1, <1>2, <1>3

LEMMA LineFormsNext ==
  /\ \A w : Line(<<"tq", w>>)' = tq'[w] /\ At(<<"tq", w>>)' = tq'[w]
  /\ \A t : Line(<<"batch", t>>)' = batch'[t] /\ At(<<"batch", t>>)' = batch'[t]
  /\ \A i : Line(<<"bque", i>>)' = bque'[i] /\ At(<<"bque", i>>)' = bque'[i]
  /\ Line(<<"out_task", 0>>)' = outTask' /\ At(<<"out_task", 0>>)' = outTask'
  /\ Line(<<"sock", 0>>)' = sock' /\ Line(<<"inb", 0>>)' = inb'
  /\ Line(<<"out", 0>>)' = out' /\ Line(<<"sent", 0>>)' = sent'
  /\ \A p \in Place : Line(p)' = At(p)'
<1>1. /\ \A w : Line(<<"tq", w>>)' = tq'[w] /\ At(<<"tq", w>>)' = tq'[w]
      /\ \A t : Line(<<"batch", t>>)' = batch'[t] /\ At(<<"batch", t>>)' = batch'[t]
      /\ \A i : Line(<<"bque", i>>)' = bque'[i] /\ At(<<"bque", i>>)' = bque'[i]
      /\ Line(<<"out_task", 0>>)' = outTask' /\ At(<<"out_task", 0>>)' = outTask'
  BY DEF Line, At
<1>2. /\ Line(<<"sock", 0>>)' = sock' /\ Line(<<"inb", 0>>)' = inb'
      /\ Line(<<"out", 0>>)' = out' /\ Line(<<"sent", 0>>)' = sent'
  BY DEF Line
<1>3. \A p \in Place : Line(p)' = At(p)'
  BY <1>1, PlaceForms
<1> QED BY <1>1, <1>2, <1>3

LEMMA LineType ==
  ASSUME Types
  PROVE  \A p \in Spot : Line(p) \in Seq(Request)
<1>1. ASSUME NEW p \in Place PROVE Line(p) \in Seq(Request)
  <2>1. CASE \E w \in Worker : p = <<"tq", w>>
    BY <2>1, LineForms DEF Types, QueT
  <2>2. CASE \E t \in Thread : p = <<"batch", t>>
    BY <2>2, LineForms DEF Types, BatchT
  <2>3. CASE \E i \in 0..QueueSize - 1 : p = <<"bque", i>>
    BY <2>3, LineForms DEF Types, QueT
  <2>4. CASE p = <<"out_task", 0>>
    BY <2>4, LineForms DEF Types, OutsT
  <2> QED BY <2>1, <2>2, <2>3, <2>4, PlaceForms
<1>2. \A p \in Spot \ Place : Line(p) \in Seq(Request)
  BY PlaceForms, LineForms DEF Types, PeerT, OutsT
<1> QED BY <1>1, <1>2

\* The lines outside A stay.
Others(A) == \A p \in Spot \ A : Line(p)' = Line(p)

LEMMA OthersStay ==
  ASSUME NEW A,
         <<"sock", 0>> \in A \/ sock' = sock, <<"inb", 0>> \in A \/ inb' = inb,
         <<"out", 0>> \in A \/ out' = out, <<"sent", 0>> \in A \/ sent' = sent,
         <<"out_task", 0>> \in A \/ outTask' = outTask,
         \A w \in Worker : <<"tq", w>> \in A \/ tq'[w] = tq[w],
         \A t \in Thread : <<"batch", t>> \in A \/ batch'[t] = batch[t],
         \A i \in 0..QueueSize - 1 : <<"bque", i>> \in A \/ bque'[i] = bque[i]
  PROVE  Others(A)
<1>1. \A p \in Place \ A : Line(p)' = Line(p)
  BY PlaceForms, LineForms, LineFormsNext
<1>2. \A p \in (Spot \ Place) \ A : Line(p)' = Line(p)
  BY PlaceForms, LineForms, LineFormsNext
<1> QED BY <1>1, <1>2 DEF Others

\* Request r is in a line of A, not sent yet, or leaked.
From(A, r) == r \in unsent \/ r \in leaked \/ \E p \in A : r \in Range(Line(p))

LEMMA OnceStep ==
  ASSUME OnceInv, NEW A \in SUBSET Spot, Others(A),
         \A p \in A : IsInjective(Line(p)'),
         \A p \in A : \A r \in Range(Line(p)') : From(A, r),
         \A p, q \in A : p # q => Range(Line(p)') \cap Range(Line(q)') = {},
         \A p \in A : Range(Line(p)') \cap (unsent' \cup leaked') = {},
         unsent' \cap leaked' = {}, \A r \in unsent' \cup leaked' : From(A, r)
  PROVE  OnceInv'
<1>1. \A p \in Spot \ A : Line(p)' = Line(p)
  BY DEF Others
<1>2. ASSUME NEW p \in Spot \ A, NEW r \in Range(Line(p)), From(A, r) PROVE FALSE
  BY <1>2 DEF OnceInv, From
<1>3. \A p \in Spot : IsInjective(Line(p)')
  BY <1>1 DEF OnceInv
<1>4. ASSUME NEW p \in Spot, NEW q \in Spot, p # q
      PROVE  Range(Line(p)') \cap Range(Line(q)') = {}
  <2>1. CASE p \in A /\ q \in A
    BY <2>1, <1>4
  <2>2. CASE p \in A /\ q \notin A
    BY <2>2, <1>1, <1>2
  <2>3. CASE p \notin A /\ q \in A
    BY <2>3, <1>1, <1>2
  <2>4. CASE p \notin A /\ q \notin A
    BY <2>4, <1>1, <1>4 DEF OnceInv
  <2> QED BY <2>1, <2>2, <2>3, <2>4
<1>5. \A p \in Spot : Range(Line(p)') \cap (unsent' \cup leaked') = {}
  BY <1>1, <1>2
<1> QED BY <1>3, <1>4, <1>5 DEF OnceInv

\* Requests that go from line a to line b, some of them perhaps out of both.
LEMMA OnceMove ==
  ASSUME OnceInv, NEW a \in Spot, NEW b \in Spot, Others({a, b}), UNCHANGED <<unsent, leaked>>,
         IsInjective(Line(a)'), IsInjective(Line(b)'),
         a # b => Range(Line(a)') \cap Range(Line(b)') = {},
         Range(Line(a)') \cup Range(Line(b)') \subseteq Range(Line(a)) \cup Range(Line(b))
  PROVE  OnceInv'
<1> DEFINE A == {a, b}
<1>1. \A r : From(A, r) <=> \/ r \in unsent \/ r \in leaked
                            \/ r \in Range(Line(a)) \/ r \in Range(Line(b))
  BY DEF From
<1>2. (Range(Line(a)) \cup Range(Line(b))) \cap (unsent \cup leaked) = {}
  BY DEF OnceInv
<1>3. /\ \A p \in A : IsInjective(Line(p)')
      /\ \A p \in A : \A r \in Range(Line(p)') : From(A, r)
  BY <1>1
<1>4. \A p, q \in A : p # q => Range(Line(p)') \cap Range(Line(q)') = {}
  OBVIOUS
<1>5. \A p \in A : Range(Line(p)') \cap (unsent' \cup leaked') = {}
  BY <1>2
<1>6. unsent' \cap leaked' = {} /\ \A r \in unsent' \cup leaked' : From(A, r)
  BY <1>1 DEF OnceInv
<1>7. A \in SUBSET Spot /\ Others(A)
  OBVIOUS
<1> HIDE DEF A
<1> QED BY <1>3, <1>4, <1>5, <1>6, <1>7, OnceStep

----------------------------------------------------------------------------
(* Types. *)

LEMMA TypesSame ==
  /\ PeerT /\ UNCHANGED <<open, unsent, sock, inb>> => PeerT'
  /\ ConnT /\ UNCHANGED <<state, destroyed, leaked>> => ConnT'
  /\ OutsT /\ UNCHANGED outs => OutsT'
  /\ EvT /\ UNCHANGED ev => EvT'
  /\ PostT /\ UNCHANGED posted => PostT'
  /\ NetT /\ UNCHANGED net => NetT'
  /\ BatchT /\ UNCHANGED batch => BatchT'
  /\ QueT /\ UNCHANGED <<tq, bque>> => QueT'
  /\ WorkT /\ UNCHANGED <<wpc, wake, astray>> => WorkT'
<1>1. PeerT /\ UNCHANGED <<open, unsent, sock, inb>> => PeerT'
  BY DEF PeerT
<1>2. ConnT /\ UNCHANGED <<state, destroyed, leaked>> => ConnT'
  BY DEF ConnT
<1>3. OutsT /\ UNCHANGED outs => OutsT'
  BY DEF OutsT, outs
<1>4. (EvT /\ UNCHANGED ev => EvT') /\ (PostT /\ UNCHANGED posted => PostT')
  BY DEF EvT, PostT
<1>5. (NetT /\ UNCHANGED net => NetT') /\ (BatchT /\ UNCHANGED batch => BatchT')
  BY DEF NetT, BatchT
<1>6. QueT /\ UNCHANGED <<tq, bque>> => QueT'
  BY DEF QueT
<1>7. WorkT /\ UNCHANGED <<wpc, wake, astray>> => WorkT'
  BY DEF WorkT
<1> QED BY <1>1, <1>2, <1>3, <1>4, <1>5, <1>6, <1>7

LEMMA TypesInit == Init => Types
<1> SUFFICES ASSUME Init PROVE Types
  OBVIOUS
<1>0. Len(<<>>) = 0 /\ InCap \in Nat /\ OutCap \in Nat
  BY NnConnAssumption
<1>1. PeerT
  BY <1>0 DEF Init, PeerT
<1>5. OutsT
  BY <1>0 DEF Init, OutsT
<1>4. ConnT /\ PostT
  <2>1. state = "connected" /\ destroyed = FALSE /\ leaked = {} /\ posted = <<>>
    BY DEF Init
  <2>2. destroyed \in BOOLEAN
    BY <2>1, Zenon
  <2> QED BY <2>1, <2>2 DEF ConnT, PostT
<1>2. EvT /\ BatchT /\ QueT /\ WorkT
  BY DEF Init, EvT, BatchT, QueT, WorkT
<1>3. NetT
  BY NnConnAssumption DEF Init, NetT, NetPc, Worker
<1> QED BY <1>1, <1>2, <1>3, <1>4, <1>5 DEF Types

LEMMA FinalizeTypes ==
  ASSUME ConnT, nn_conn_finalize
  PROVE  ConnT' /\ EvT' /\ outTask' = <<>>
<1>1. destroyed' \in BOOLEAN
  BY Zenon DEF nn_conn_finalize
<1>2. ConnT'
  BY <1>1 DEF ConnT, nn_conn_finalize
<1>3. EvT'
  BY DEF EvT, nn_conn_finalize
<1> QED BY <1>2, <1>3 DEF nn_conn_finalize

\* Where nn_conn_output starts and where it returns to.
LEMMA OutputTypes ==
  ASSUME NetT
  PROVE  /\ \A then \in {"loop", "batch", "recv"} :
              StartOutput(then) => /\ NetT' /\ net'.then = then /\ net'.i = net.i
                                   /\ net'.pc = "pack" \/ net'.pc = then
         /\ Return => NetT' /\ net'.pc = net.then /\ net'.then = net.then /\ net'.i = net.i
BY DEF NetT, NetPc, StartOutput, Return

LEMMA AwaitTypes ==
  ASSUME EvT, AwaitWritable
  PROVE  /\ EvT' /\ ev'.ready = FALSE /\ ev'.wr = TRUE
         /\ ev'.rd = ev.rd /\ ev'.slow = ev.slow
BY DEF EvT, AwaitWritable

\* What recv takes from the socket.
LEMMA RecvEffect ==
  ASSUME PeerT, nn_conn_recv
  PROVE  \E k \in 0..Len(sock) : /\ inb' = inb \o SubSeq(sock, 1, k)
                                 /\ sock' = SubSeq(sock, k + 1, Len(sock))
                                 /\ Len(inb) + k <= InCap
<1> DEFINE room == InCap - Len(inb)
           k == IF Len(sock) < room THEN Len(sock) ELSE room
<1>1. Len(sock) \in Nat /\ Len(inb) \in Nat /\ Len(inb) <= InCap /\ InCap \in Nat
  BY NnConnAssumption DEF PeerT
<1>2. k \in 0..Len(sock) /\ Len(inb) + k <= InCap
  BY <1>1
<1>3. inb' = inb \o SubSeq(sock, 1, k) /\ sock' = SubSeq(sock, k + 1, Len(sock))
  BY DEF nn_conn_recv
<1> HIDE DEF k
<1> QED BY <1>2, <1>3

\* The answers of out_task that fit: some number of them does, and the next does not.
LEMMA FitsProperties ==
  ASSUME OutsT
  PROVE  /\ Fits \in 0..Len(outTask) /\ Len(out) + Fits <= OutCap
         /\ \A j \in 1..Fits : outTask[j] \notin Big
         /\ Fits = Len(outTask) \/ Len(out) + Fits = OutCap \/ outTask[Fits + 1] \in Big
<1> DEFINE Ends(k) == k = Len(outTask) \/ Len(out) + k = OutCap \/ outTask[k + 1] \in Big
           S == {k \in 0..Len(outTask) : Ends(k)}
           Good(k) == /\ Len(out) + k <= OutCap
                      /\ \A j \in 1..k : outTask[j] \notin Big
                      /\ k = Len(outTask) \/ Len(out) + k = OutCap \/ outTask[k + 1] \in Big
<1>1. /\ Len(outTask) \in Nat /\ Len(out) \in Nat /\ OutCap \in Nat /\ Len(out) <= OutCap
  BY NnConnAssumption DEF OutsT
<1>2. S \in SUBSET Nat /\ Len(outTask) \in S
  BY <1>1
<1>3. PICK m \in S : \A n \in S : m <= n
  <2> HIDE DEF S
  <2> QED BY <1>2, LeastIndex
<1>4. m \in 0..Len(outTask) /\ Ends(m)
  OBVIOUS
<1>5. \A n \in 0..Len(outTask) : n < m => ~ Ends(n)
  BY <1>3, <1>4, <1>1
<1>6. Len(out) + m <= OutCap
  <2> SUFFICES ASSUME Len(out) + m > OutCap PROVE FALSE
    BY <1>1, <1>4
  <2>1. OutCap - Len(out) \in 0..Len(outTask) /\ OutCap - Len(out) < m
    BY <1>1, <1>4
  <2>2. Len(out) + (OutCap - Len(out)) = OutCap
    BY <1>1
  <2> QED BY <2>1, <2>2, <1>5
<1>7. \A j \in 1..m : outTask[j] \notin Big
  <2> SUFFICES ASSUME NEW j \in 1..m, outTask[j] \in Big PROVE FALSE
    OBVIOUS
  <2>1. j - 1 \in 0..Len(outTask) /\ j - 1 < m /\ (j - 1) + 1 = j
    BY <1>1, <1>4
  <2> QED BY <2>1, <1>5
<1>8. Good(m)
  BY <1>4, <1>6, <1>7
<1>9. \E k \in 0..Len(outTask) : Good(k)
  BY <1>4, <1>8
<1>10. Fits = CHOOSE k \in 0..Len(outTask) : Good(k)
  BY Zenon DEF Fits
<1> HIDE DEF Good
<1>11. Fits \in 0..Len(outTask) /\ Good(Fits)
  BY <1>9, <1>10
<1> QED BY <1>11 DEF Good

\* Some messages leave the socket, and nn_conn_finalize may follow.
LEMMA ReadTypes ==
  ASSUME Types, nn_conn_read_handler
  PROVE  Types'
<1>1. PostT' /\ BatchT' /\ QueT' /\ WorkT' /\ UNCHANGED <<open, unsent, out, sent>>
  BY TypesSame DEF Types, nn_conn_read_handler, work, outs
<1>2. NetT'
  BY DEF Types, NetT, NetPc, nn_conn_read_handler
<1>3. PeerT /\ ConnT /\ OutsT /\ EvT
  BY DEF Types
<1>4. PeerT'
  <2>1. CASE UNCHANGED <<sock, inb>>
    BY <1>1, <1>3, <2>1, TypesSame
  <2>2. CASE nn_conn_recv
    <3>1. PICK k \in 0..Len(sock) : /\ inb' = inb \o SubSeq(sock, 1, k)
                                    /\ sock' = SubSeq(sock, k + 1, Len(sock))
                                    /\ Len(inb) + k <= InCap
      BY <1>3, <2>2, RecvEffect
    <3>2. /\ sock \in Seq(Request) /\ inb \in Seq(Request)
      BY <1>3 DEF PeerT
    <3>3. /\ SubSeq(sock, 1, k) \in Seq(Request) /\ Len(SubSeq(sock, 1, k)) = k
          /\ sock' \in Seq(Request)
      BY <3>1, <3>2
    <3>4. inb' \in Seq(Request) /\ Len(inb') = Len(inb) + k
      BY <3>1, <3>2, <3>3, ConcatRange
    <3> QED BY <1>1, <1>3, <3>1, <3>3, <3>4 DEF PeerT
  <2> QED BY <2>1, <2>2 DEF nn_conn_read_handler
<1>5. ConnT' /\ OutsT' /\ EvT'
  <2>1. CASE nn_conn_finalize
    BY <1>1, <1>3, <2>1, FinalizeTypes DEF OutsT
  <2>2. CASE UNCHANGED <<conn, outs, ev>>
    BY <1>3, <2>2, TypesSame DEF conn
  <2> QED BY <2>1, <2>2 DEF nn_conn_read_handler
<1> QED BY <1>1, <1>2, <1>4, <1>5 DEF Types

LEMMA DecodeTypes ==
  ASSUME Types, DecodeBusy \/ DecodeAgain \/ DecodeError \/ DecodeTask \/ Dispatched
  PROVE  Types'
<1>0. PeerT /\ ConnT /\ OutsT /\ EvT /\ NetT /\ QueT /\ WorkT
  BY DEF Types
<1>1. CASE DecodeBusy
  <2>1. EvT' /\ NetT'
    BY <1>0, <1>1 DEF EvT, NetT, NetPc, DecodeBusy
  <2> QED BY <1>1, <2>1, TypesSame DEF Types, DecodeBusy, peer, conn, work
<1>2. CASE DecodeAgain
  <2>1. NetT'
    BY <1>0, <1>2 DEF NetT, NetPc, DecodeAgain
  <2> QED BY <1>2, <2>1, TypesSame DEF Types, DecodeAgain, peer, conn, work
<1>3. CASE DecodeError
  <2>1. NetT'
    BY <1>0, <1>3 DEF NetT, NetPc, DecodeError
  <2>2. ConnT' /\ EvT' /\ OutsT'
    BY <1>0, <1>3, FinalizeTypes DEF DecodeError, OutsT
  <2>3. PeerT'
    BY <1>0, <1>3, NnConnAssumption DEF DecodeError, PeerT, peer
  <2> QED BY <1>3, <2>1, <2>2, <2>3, TypesSame DEF Types, DecodeError, work
<1>4. CASE DecodeTask
  <2>1. inb \in Seq(Request) /\ inb # <<>> /\ Len(inb) <= InCap /\ InCap \in Nat
    BY <1>0, <1>4, NnConnAssumption DEF PeerT, DecodeTask
  <2>2. /\ Head(inb) \in Request /\ Tail(inb) \in Seq(Request) /\ Len(Tail(inb)) <= InCap
    BY <2>1
  <2>3. TaskThread \subseteq Worker
    BY DEF Worker
  <2>4. PeerT'
    BY <1>0, <1>4, <2>2 DEF DecodeTask, PeerT, peer
  <2>5. NetT'
    BY <1>0, <1>4, <2>3 DEF DecodeTask, NetT, NetPc
  <2>6. QueT'
    <3>1. \A w \in Worker : push_task(tq[w], Head(inb)) \in Seq(Request)
      BY <1>0, <2>2, ConcatRange DEF QueT, push_task
    <3>2. PICK w \in Worker : tq' = [tq EXCEPT ![w] = push_task(@, Head(inb))]
      BY <1>4, <2>3 DEF DecodeTask
    <3>3. bque' = bque
      BY <1>4 DEF DecodeTask
    <3> QED BY <1>0, <3>1, <3>2, <3>3 DEF QueT
  <2> QED BY <1>4, <2>4, <2>5, <2>6, TypesSame DEF Types, DecodeTask
<1>5. CASE Dispatched
  <2>1. NetT'
    BY <1>0, <1>5 DEF Dispatched, NetT, NetPc
  <2>2. WorkT'
    <3>1. PICK v \in TaskThread \cup {Elsewhere} :
            /\ wake' = [wake EXCEPT ![v] = TRUE]
            /\ astray' = (astray \cup {w \in {net.to} : Untold(w)}) \ {v}
      BY <1>5 DEF Dispatched
    <3>2. net.to \in TaskThread
      BY <1>0, <1>5 DEF Dispatched, NetT
    <3>3. astray' \subseteq TaskThread
      BY <1>0, <3>1, <3>2 DEF WorkT
    <3>4. wpc' = wpc /\ wake' \in [Thread -> BOOLEAN]
      BY <1>0, <1>5, <3>1 DEF Dispatched, WorkT
    <3> QED BY <1>0, <3>3, <3>4 DEF WorkT
  <2> QED BY <1>5, <2>1, <2>2, TypesSame DEF Types, Dispatched, peer, conn
<1> QED BY <1>1, <1>2, <1>3, <1>4, <1>5

LEMMA EventTypes ==
  ASSUME Types, \/ (\E b \in BOOLEAN : epoll_process_events(b)) \/ Skip \/ ReadEvent \/ NoticeEvent
                \/ WriteEvent \/ WriteTimeout \/ nn_conn_timer_handler
  PROVE  Types'
<1>0. ConnT /\ OutsT /\ EvT /\ NetT /\ WorkT /\ PostT
  BY DEF Types
<1>1. CASE \E b \in BOOLEAN : epoll_process_events(b)
  <2>1. PICK b \in BOOLEAN : epoll_process_events(b)
    BY <1>1
  <2>2. /\ ConnEvents(b) \in Seq({"read", "write", "notice"})
        /\ NoticeEvents \in Seq({"read", "write", "notice"})
    <3> DEFINE E == {"read", "write", "notice"}
    <3>1. <<>> \in Seq(E) /\ <<"read">> \in Seq(E) /\ <<"write">> \in Seq(E) /\ <<"notice">> \in Seq(E)
      OBVIOUS
    <3>2. PICK x \in Seq(E), y \in Seq(E) : ConnEvents(b) = x \o y
      BY <3>1 DEF ConnEvents
    <3> HIDE DEF E
    <3>3. ConnEvents(b) \in Seq(E) /\ NoticeEvents \in Seq(E)
      BY <3>1, <3>2, ConcatRange DEF NoticeEvents
    <3> QED BY <3>3 DEF E
  <2>3. PostT'
    <3>1. /\ ConnEvents(b) \o NoticeEvents \in Seq({"read", "write", "notice"})
          /\ NoticeEvents \o ConnEvents(b) \in Seq({"read", "write", "notice"})
      BY <2>2, ConcatRange
    <3> QED BY <2>1, <3>1 DEF PostT, epoll_process_events
  <2>4. (ev.ready \/ (ev.wr /\ b)) \in BOOLEAN
    BY Zenon
  <2>5. EvT'
    BY <1>0, <2>1, <2>4 DEF EvT, epoll_process_events
  <2> QED BY <2>1, <2>3, <2>5, TypesSame DEF Types, epoll_process_events, peer, conn, work
<1>2. CASE Skip
  <2>1. PostT'
    BY <1>0, <1>2 DEF PostT, Skip
  <2> QED BY <1>2, <2>1, TypesSame DEF Types, Skip, peer, conn, work
<1>3. CASE ReadEvent \/ NoticeEvent \/ WriteEvent
  <2>1. PostT'
    <3>1. posted' = Tail(posted) /\ posted # <<>>
      BY <1>3 DEF ReadEvent, NoticeEvent, WriteEvent, OnEvent
    <3> QED BY <1>0, <3>1 DEF PostT
  <2>2. CASE ReadEvent
    <3>1. NetT'
      BY <1>0, <2>2 DEF ReadEvent, NetT, NetPc
    <3> QED BY <2>1, <2>2, <3>1, TypesSame DEF Types, ReadEvent, peer, conn, work
  <2>3. CASE NoticeEvent
    <3>1. NetT'
      <4>1. 0 \in 0..QueueSize /\ net' = [net EXCEPT !.pc = "pop", !.i = 0]
        BY <2>3, NnConnAssumption DEF NoticeEvent
      <4> QED BY <1>0, <4>1 DEF NetT, NetPc
    <3>2. WorkT'
      BY <1>0, <2>3 DEF NoticeEvent, WorkT
    <3> QED BY <2>1, <2>3, <3>1, <3>2, TypesSame DEF Types, NoticeEvent, peer, conn
  <2>4. CASE WriteEvent
    <3>1. EvT'
      BY <1>0, <2>4 DEF WriteEvent, EvT
    <3>2. NetT'
      BY <1>0, <2>4, OutputTypes DEF WriteEvent
    <3> QED BY <2>1, <2>4, <3>1, <3>2, TypesSame DEF Types, WriteEvent, peer, conn, work
  <2> QED BY <1>3, <2>2, <2>3, <2>4
<1>4. CASE WriteTimeout
  <2>1. ConnT' /\ EvT' /\ OutsT'
    BY <1>0, <1>4, FinalizeTypes DEF WriteTimeout, OutsT
  <2> QED BY <1>4, <2>1, TypesSame DEF Types, WriteTimeout, peer, work
<1>5. CASE nn_conn_timer_handler
  <2>1. CASE nn_conn_finalize /\ UNCHANGED net
    <3>1. ConnT' /\ EvT' /\ OutsT'
      BY <1>0, <1>5, <2>1, FinalizeTypes DEF nn_conn_timer_handler, OutsT
    <3> QED BY <1>5, <2>1, <3>1, TypesSame DEF Types, nn_conn_timer_handler, peer, work
  <2>2. CASE /\ ev' = [ev EXCEPT !.slow = FALSE, !.rd = TRUE, !.timer = FALSE]
             /\ StartOutput("recv") /\ UNCHANGED <<conn, outTask>>
    <3>1. EvT'
      BY <1>0, <2>2 DEF EvT
    <3>2. NetT'
      BY <1>0, <2>2, OutputTypes
    <3> QED BY <1>5, <2>2, <3>1, <3>2, TypesSame DEF Types, nn_conn_timer_handler, peer, conn, work, outs
  <2> QED BY <1>5, <2>1, <2>2 DEF nn_conn_timer_handler
<1> QED BY <1>1, <1>2, <1>3, <1>4, <1>5

LEMMA AnswerTypes ==
  ASSUME Types, PopAnswers \/ BatchDone \/ nn_conn_outtask
  PROVE  Types'
<1>0. ConnT /\ OutsT /\ EvT /\ NetT /\ BatchT /\ QueT /\ "net" \in Thread
  BY DEF Types, Thread
<1>1. CASE PopAnswers
  <2>1. CASE net.i = QueueSize
    <3>1. NetT'
      BY <1>0, <1>1, <2>1 DEF PopAnswers, NetT, NetPc
    <3> QED BY <1>1, <2>1, <3>1, TypesSame DEF Types, PopAnswers, peer, conn
  <2>2. CASE net.i # QueueSize
    <3>1. net.i \in 0..QueueSize - 1 /\ QueueSize \in Nat
      BY <1>0, <2>2, NnConnAssumption DEF NetT
    <3>2. NetT'
      <4>1. net.i + 1 \in 0..QueueSize /\ net' = [net EXCEPT !.pc = "batch", !.i = @ + 1]
        BY <1>1, <2>2, <3>1 DEF PopAnswers
      <4> QED BY <1>0, <4>1 DEF NetT, NetPc
    <3>3. BatchT'
      BY <1>0, <1>1, <2>2, <3>1 DEF PopAnswers, BatchT, QueT
    <3>4. QueT'
      <4>1. tq' = tq /\ bque' = [bque EXCEPT ![net.i] = <<>>] /\ <<>> \in Seq(Request)
        BY <1>1, <2>2 DEF PopAnswers
      <4> QED BY <1>0, <4>1 DEF QueT
    <3> QED BY <1>1, <3>2, <3>3, <3>4, TypesSame DEF Types, PopAnswers, peer, conn
  <2> QED BY <2>1, <2>2
<1>2. CASE BatchDone
  <2>1. NetT'
    BY <1>0, <1>2 DEF BatchDone, NetT, NetPc
  <2> QED BY <1>2, <2>1, TypesSame DEF Types, BatchDone, peer, conn, work
<1>3. CASE nn_conn_outtask
  <2>1. batch["net"] \in Seq(Request) /\ batch["net"] # <<>>
    BY <1>0, <1>3 DEF BatchT, nn_conn_outtask
  <2>2. Head(batch["net"]) \in Request /\ Tail(batch["net"]) \in Seq(Request)
    BY <2>1
  <2>3. BatchT'
    BY <1>0, <1>3, <2>2 DEF BatchT, nn_conn_outtask
  <2>4. CASE state = "connected"
    <3>1. OutsT'
      <4>1. Append(outTask, Head(batch["net"])) \in Seq(Request)
        BY <1>0, <2>2 DEF OutsT
      <4> QED BY <1>0, <1>3, <2>4, <4>1 DEF OutsT, nn_conn_outtask
    <3>2. NetT'
      BY <1>0, <1>3, <2>4, OutputTypes DEF nn_conn_outtask
    <3> QED BY <1>3, <2>3, <2>4, <3>1, <3>2, TypesSame DEF Types, nn_conn_outtask, peer, conn, work
  <2>5. CASE state # "connected"
    <3>1. destroyed' \in BOOLEAN
      BY <1>3, <2>5, Zenon DEF nn_conn_outtask
    <3>2. ConnT'
      BY <1>0, <1>3, <2>5, <3>1 DEF ConnT, nn_conn_outtask
    <3> QED BY <1>3, <2>3, <2>5, <3>2, TypesSame DEF Types, nn_conn_outtask, peer, work, outs
  <2> QED BY <2>4, <2>5
<1> QED BY <1>1, <1>2, <1>3

LEMMA SendTypes ==
  ASSUME Types, Pack \/ SendAll \/ (\E k \in 0..OutCap : SendSome(k)) \/ SendError
  PROVE  Types'
<1>0. ConnT /\ OutsT /\ EvT /\ NetT
  BY DEF Types
<1>00. outTask \in Seq(Request) /\ out \in Seq(Request) /\ sent \in Seq(Request) /\ OutCap \in Nat
       /\ Len(out) <= OutCap
  BY <1>0, NnConnAssumption DEF OutsT
<1>1. CASE Pack
  <2>1. PICK k \in 0..Len(outTask) : k = Fits /\ Len(out) + k <= OutCap
    BY <1>0, FitsProperties
  <2>2. /\ SubSeq(outTask, 1, k) \in Seq(Request) /\ Len(SubSeq(outTask, 1, k)) = k
        /\ SubSeq(outTask, k + 1, Len(outTask)) \in Seq(Request)
    BY <1>00
  <2>3. out' = out \o SubSeq(outTask, 1, k) /\ outTask' = SubSeq(outTask, k + 1, Len(outTask))
        /\ sent' = sent
    BY <1>1, <2>1 DEF Pack
  <2>4. OutsT'
    BY <1>00, <2>1, <2>2, <2>3, ConcatRange DEF OutsT
  <2>5. NetT'
    BY <1>0, <1>1, OutputTypes DEF Pack, NetT, NetPc
  <2>6. EvT'
    BY <1>0, <1>1, AwaitTypes, TypesSame DEF Pack
  <2> QED BY <1>1, <2>4, <2>5, <2>6, TypesSame DEF Types, Pack, peer, work
<1>2. CASE SendAll
  <2>1. sent \o out \in Seq(Request)
    BY <1>00, ConcatRange
  <2>2. OutsT'
    BY <1>0, <1>2, <2>1, NnConnAssumption DEF OutsT, SendAll
  <2>3. NetT'
    BY <1>0, <1>2 DEF SendAll, NetT, NetPc
  <2> QED BY <1>2, <2>2, <2>3, TypesSame DEF Types, SendAll, peer, conn, work
<1>3. CASE \E k \in 0..OutCap : SendSome(k)
  <2>1. PICK k \in 0..OutCap : SendSome(k)
    BY <1>3
  <2>2. k < Len(out) /\ sent' = sent \o SubSeq(out, 1, k) /\ out' = SubSeq(out, k + 1, Len(out))
        /\ outTask' = outTask
    BY <2>1 DEF SendSome
  <2>3. /\ SubSeq(out, 1, k) \in Seq(Request)
        /\ SubSeq(out, k + 1, Len(out)) \in Seq(Request)
        /\ Len(SubSeq(out, k + 1, Len(out))) <= OutCap
    BY <1>00, <2>2
  <2>4. OutsT'
    BY <1>00, <2>2, <2>3, ConcatRange DEF OutsT
  <2>5. NetT' /\ EvT'
    BY <1>0, <2>1, OutputTypes, AwaitTypes DEF SendSome
  <2> QED BY <2>1, <2>4, <2>5, TypesSame DEF Types, SendSome, peer, conn, work
<1>4. CASE SendError
  <2>1. ConnT' /\ EvT' /\ OutsT'
    BY <1>0, <1>4, FinalizeTypes DEF SendError, OutsT
  <2>2. NetT'
    BY <1>0, <1>4, OutputTypes DEF SendError
  <2> QED BY <1>4, <2>1, <2>2, TypesSame DEF Types, SendError, peer, work
<1> QED BY <1>1, <1>2, <1>3, <1>4

LEMMA WorkerTypes ==
  ASSUME Types, NEW w \in Worker, WorkerStep(w)
  PROVE  Types'
<1>0. WorkT /\ BatchT /\ QueT /\ ConnT /\ w \in Thread /\ Paxos \in Worker /\ Paxos \in Thread
      /\ "net" \in Thread
  BY DEF Types, Thread, Worker
<1>1. CASE Woken(w) \/ RunDone(w)
  <2>1. WorkT'
    BY <1>0, <1>1 DEF WorkT, Woken, RunDone
  <2> QED BY <1>1, <2>1, TypesSame DEF Types, Woken, RunDone, peer, conn
<1>2. CASE pop_all(w)
  <2>1. WorkT' /\ BatchT' /\ QueT'
    BY <1>0, <1>2 DEF WorkT, BatchT, QueT, pop_all
  <2> QED BY <1>2, <2>1, TypesSame DEF Types, pop_all, peer, conn
<1>3. CASE do_task(w)
  <2>1. batch[w] \in Seq(Request) /\ batch[w] # <<>>
    BY <1>0, <1>3 DEF BatchT, do_task
  <2>2. PICK r \in Request : r = Head(batch[w])
    BY <2>1
  <2>3. Tail(batch[w]) \in Seq(Request)
    BY <2>1
  <2>4. BatchT'
    BY <1>0, <1>3, <2>3 DEF BatchT, do_task
  <2>5. PassToPaxos(w, r) \/ Drop(w, r) \/ write_back(w, r)
    BY <1>3, <2>2 DEF do_task
  <2>6. WorkT'
    BY <1>0, <1>3, <2>5 DEF WorkT, do_task, PassToPaxos, Drop, write_back
  <2>7. ConnT'
    BY <1>0, <1>3, <2>5 DEF ConnT, do_task, PassToPaxos, Drop, write_back
  <2>8. QueT'
    <3>1. Slot[w] \in 0..QueueSize - 1
      BY NnConnAssumption
    <3>2. push_task(tq[Paxos], r) \in Seq(Request) /\ push_task(bque[Slot[w]], r) \in Seq(Request)
      BY <1>0, <3>1, ConcatRange DEF QueT, push_task
    <3> QED BY <1>0, <2>5, <3>1, <3>2 DEF QueT, PassToPaxos, Drop, write_back
  <2> QED BY <1>3, <2>4, <2>6, <2>7, <2>8, TypesSame DEF Types, do_task, peer
<1>4. CASE notice_wake_up(w)
  <2>1. WorkT'
    BY <1>0, <1>4 DEF WorkT, notice_wake_up
  <2> QED BY <1>4, <2>1, TypesSame DEF Types, notice_wake_up, peer, conn
<1> QED BY <1>1, <1>2, <1>3, <1>4 DEF WorkerStep

LEMMA TypesStep ==
  ASSUME Types, [Next]_vars
  PROVE  Types'
<1>1. CASE \E r \in Request : PeerSend(r)
  <2>1. PICK r \in Request : PeerSend(r)
    BY <1>1
  <2>2. PeerT'
    BY <2>1 DEF Types, PeerT, PeerSend
  <2> QED BY <2>1, <2>2, TypesSame DEF Types, PeerSend, conn, work
<1>2. CASE PeerClose
  <2>1. PeerT'
    BY <1>2 DEF Types, PeerT, PeerClose
  <2> QED BY <1>2, <2>1, TypesSame DEF Types, PeerClose, conn, work
<1>3. CASE (\E b \in BOOLEAN : epoll_process_events(b)) \/ NetStep \/ WriteTimeout \/ nn_conn_timer_handler
  BY <1>3, EventTypes, ReadTypes, DecodeTypes, AnswerTypes, SendTypes DEF NetStep
<1>4. CASE \E w \in Worker : WorkerStep(w)
  BY <1>4, WorkerTypes
<1>6. ASSUME NEW t \in TaskThread, OtherWakes(t) PROVE Types'
  <2>1. WorkT'
    BY <1>6 DEF Types, WorkT, OtherWakes
  <2> QED BY <1>6, <2>1, TypesSame DEF Types, OtherWakes, peer, conn
<1>5. CASE UNCHANGED vars
  BY <1>5, TypesSame DEF Types, vars, outs
<1> QED BY <1>1, <1>2, <1>3, <1>4, <1>5, <1>6 DEF Next

----------------------------------------------------------------------------
(* One spot for every request, and count. *)

\* The requests with a node after the lines of A have changed.
LEMMA HeldStep ==
  ASSUME OnceInv, NEW A \in SUBSET Spot, Others(A)
  PROVE  Held' = {r \in Request :
                    \/ r \in Held /\ \A p \in A \cap Place : r \notin Range(Line(p))
                    \/ \E p \in A \cap Place : r \in Range(Line(p)')}
<1>1. Held' = {r \in Request : \E p \in Place : r \in Range(Line(p)')}
  BY LineFormsNext DEF Held
<1>2. Held = {r \in Request : \E p \in Place : r \in Range(Line(p))}
  BY LineForms DEF Held
<1>3. /\ \A p \in Place : p \in Spot
      /\ \A p \in Spot \ A : Line(p)' = Line(p)
      /\ \A p, q \in Spot : p # q => Range(Line(p)) \cap Range(Line(q)) = {}
  BY PlaceForms DEF Others, OnceInv
<1>4. ASSUME NEW r \in Request, NEW p \in Place, r \in Range(Line(p)')
      PROVE  \/ r \in Held /\ \A q \in A \cap Place : r \notin Range(Line(q))
             \/ \E q \in A \cap Place : r \in Range(Line(q)')
  <2>1. CASE p \in A
    BY <2>1, <1>4
  <2>2. CASE p \notin A
    <3>1. r \in Range(Line(p))
      BY <2>2, <1>3, <1>4
    <3>2. r \in Held
      BY <3>1, <1>2
    <3>3. \A q \in A \cap Place : r \notin Range(Line(q))
      BY <2>2, <3>1, <1>3
    <3> QED BY <3>2, <3>3
  <2> QED BY <2>1, <2>2
<1>5. ASSUME NEW r \in Held, \A p \in A \cap Place : r \notin Range(Line(p))
      PROVE  \E p \in Place : r \in Range(Line(p)')
  <2>1. PICK p \in Place : r \in Range(Line(p))
    BY <1>2
  <2>2. p \notin A
    BY <2>1, <1>5
  <2> QED BY <2>1, <2>2, <1>3
<1> QED BY <1>1, <1>4, <1>5

\* Nothing that holds a request changes.
Quiet == UNCHANGED <<unsent, sock, inb, outTask, out, sent, leaked, batch, tq, bque>>

LEMMA QuietStep ==
  ASSUME OnceInv, Quiet
  PROVE  OnceInv' /\ Held' = Held
<1>1. Others({})
  BY OthersStay DEF Quiet
<1>2. \A r \in unsent' \cup leaked' : From({}, r)
  BY DEF Quiet, From
<1>3. OnceInv'
  BY <1>1, <1>2, OnceStep DEF OnceInv, Quiet
<1>4. Held' = Held
  BY <1>1, HeldStep DEF Held
<1> QED BY <1>3, <1>4

LEMMA CountSame ==
  ASSUME CountInv, Held' = Held, UNCHANGED <<leaked, count, free>>
  PROVE  CountInv'
BY DEF CountInv

LEMMA CountLess ==
  ASSUME CountInv, NEW X \in SUBSET Held, Held' = Held \ X, leaked' = leaked,
         FreeNodes(Cardinality(X))
  PROVE  CountInv'
<1>1. /\ IsFiniteSet(X) /\ IsFiniteSet(Held \ X)
      /\ Cardinality(Held \ X) = Cardinality(Held) - Cardinality(X)
  <2>1. Held \cap X = X /\ IsFiniteSet(Held)
    BY DEF CountInv
  <2>2. IsFiniteSet(X)
    BY <2>1, FS_Subset
  <2>3. IsFiniteSet(Held \ X) /\ Cardinality(Held \ X) = Cardinality(Held) - Cardinality(Held \cap X)
    BY <2>1, FS_Difference
  <2> QED BY <2>1, <2>2, <2>3
<1>2. /\ Cardinality(X) \in Nat /\ Cardinality(Held) \in Nat /\ Cardinality(leaked) \in Nat
      /\ Cardinality(Held \ X) \in Nat /\ MaxTask \in Nat
  BY <1>1, FS_CardinalityType, NnConnAssumption DEF CountInv
<1>3. /\ count' = Cardinality(Held') + Cardinality(leaked') /\ count' + free' = MaxTask
      /\ free' \in Nat
  BY <1>1, <1>2 DEF CountInv, FreeNodes
<1> QED BY <1>1, <1>3 DEF CountInv

LEMMA CountMore ==
  ASSUME CountInv, count < MaxTask, NEW r, r \notin Held, Held' = Held \cup {r}, leaked' = leaked,
         count' = count + 1, free' = free - 1
  PROVE  CountInv'
<1>1. /\ IsFiniteSet(Held \cup {r}) /\ Cardinality(Held \cup {r}) = Cardinality(Held) + 1
  BY FS_AddElement DEF CountInv
<1>2. /\ Cardinality(Held) \in Nat /\ Cardinality(leaked) \in Nat /\ MaxTask \in Nat
  BY FS_CardinalityType, NnConnAssumption DEF CountInv
<1>3. /\ count' = Cardinality(Held') + Cardinality(leaked') /\ count' + free' = MaxTask
      /\ free' \in Nat
  BY <1>1, <1>2 DEF CountInv
<1> QED BY <1>1, <1>3 DEF CountInv

LEMMA CountLeak ==
  ASSUME CountInv, NEW r \in Held, r \notin leaked, Held' = Held \ {r}, leaked' = leaked \cup {r},
         UNCHANGED <<count, free>>
  PROVE  CountInv'
<1>1. /\ IsFiniteSet(Held \ {r}) /\ Cardinality(Held \ {r}) = Cardinality(Held) - 1
  BY FS_RemoveElement DEF CountInv
<1>2. /\ IsFiniteSet(leaked \cup {r}) /\ Cardinality(leaked \cup {r}) = Cardinality(leaked) + 1
  BY FS_AddElement DEF CountInv
<1>3. Cardinality(Held) \in Nat /\ Cardinality(leaked) \in Nat
  BY FS_CardinalityType DEF CountInv
<1>4. count' = Cardinality(Held') + Cardinality(leaked')
  BY <1>1, <1>2, <1>3 DEF CountInv
<1> QED BY <1>1, <1>2, <1>4 DEF CountInv

\* Requests go from one place to another, and keep their nodes.
LEMMA PlaceMove ==
  ASSUME Types, OnceInv, CountInv, NEW a \in Place, NEW b \in Place, a # b, Others({a, b}),
         UNCHANGED <<unsent, leaked, count, free>>,
         IsInjective(Line(a)'), IsInjective(Line(b)'),
         Range(Line(a)') \cap Range(Line(b)') = {},
         Range(Line(a)') \cup Range(Line(b)') = Range(Line(a)) \cup Range(Line(b))
  PROVE  OnceInv' /\ CountInv'
<1>1. a \in Spot /\ b \in Spot
  BY PlaceForms
<1>2. OnceInv'
  BY <1>1, OnceMove
<1>3. Held' = {r \in Request : \/ r \in Held /\ \A p \in {a, b} \cap Place : r \notin Range(Line(p))
                               \/ \E p \in {a, b} \cap Place : r \in Range(Line(p)')}
  BY <1>1, HeldStep
<1>4. Range(Line(a)) \cup Range(Line(b)) \subseteq Held
  <2>1. Range(Line(a)) \subseteq Request /\ Range(Line(b)) \subseteq Request
    BY <1>1, LineType, RangePositions
  <2>2. Line(a) = At(a) /\ Line(b) = At(b)
    BY LineForms
  <2> QED BY <2>1, <2>2 DEF Held
<1>5. Held' = Held
  <2>1. Held \subseteq Request
    BY DEF Held
  <2> QED BY <1>3, <1>4, <2>1
<1> QED BY <1>2, <1>5, CountSame

\* The requests of X leave place a and free their nodes; b, outside, may take them.
LEMMA PlaceLeave ==
  ASSUME Types, OnceInv, CountInv, NEW a \in Place, NEW b \in Spot \ Place, Others({a, b}),
         UNCHANGED <<unsent, leaked>>,
         IsInjective(Line(a)'), IsInjective(Line(b)'),
         Range(Line(a)') \cap Range(Line(b)') = {},
         Range(Line(a)') \cup Range(Line(b)') \subseteq Range(Line(a)) \cup Range(Line(b)),
         NEW X, X \subseteq Range(Line(a)), Range(Line(a)') = Range(Line(a)) \ X,
         FreeNodes(Cardinality(X))
  PROVE  OnceInv' /\ CountInv'
<1>1. a \in Spot /\ b \in Spot /\ a # b
  BY PlaceForms
<1>2. OnceInv'
  BY <1>1, OnceMove
<1>3. Held' = {r \in Request : \/ r \in Held /\ \A p \in {a, b} \cap Place : r \notin Range(Line(p))
                               \/ \E p \in {a, b} \cap Place : r \in Range(Line(p)')}
  BY <1>1, HeldStep
<1>4. Range(Line(a)) \subseteq Held /\ Held \subseteq Request
  <2>1. Range(Line(a)) \subseteq Request
    BY <1>1, LineType, RangePositions
  <2>2. Line(a) = At(a)
    BY LineForms
  <2> QED BY <2>1, <2>2 DEF Held
<1>5. {a, b} \cap Place = {a}
  OBVIOUS
<1>6. Held' = Held \ X
  BY <1>3, <1>4, <1>5
<1> QED BY <1>2, <1>4, <1>6, CountLess

\* Requests move between lines that hold no nodes.
LEMMA OutsideMove ==
  ASSUME OnceInv, CountInv, NEW a \in Spot \ Place, NEW b \in Spot \ Place, a # b, Others({a, b}),
         UNCHANGED <<unsent, leaked, count, free>>,
         IsInjective(Line(a)'), IsInjective(Line(b)'),
         Range(Line(a)') \cap Range(Line(b)') = {},
         Range(Line(a)') \cup Range(Line(b)') \subseteq Range(Line(a)) \cup Range(Line(b))
  PROVE  OnceInv' /\ CountInv'
<1>1. OnceInv'
  BY OnceMove
<1>2. Held' = {r \in Request : \/ r \in Held /\ \A p \in {a, b} \cap Place : r \notin Range(Line(p))
                               \/ \E p \in {a, b} \cap Place : r \in Range(Line(p)')}
  BY HeldStep
<1>3. {a, b} \cap Place = {} /\ Held \subseteq Request
  BY DEF Held
<1>4. Held' = Held
  BY <1>2, <1>3
<1> QED BY <1>1, <1>4, CountSame

LEMMA SendOnce ==
  ASSUME Types, OnceInv, CountInv, NEW r \in Request, PeerSend(r)
  PROVE  OnceInv' /\ CountInv'
<1> DEFINE s == <<"sock", 0>>
<1>1. /\ r \in unsent /\ unsent' = unsent \ {r} /\ sock' = Append(sock, r)
      /\ UNCHANGED <<inb, outTask, out, sent, leaked, batch, tq, bque, count, free>>
  BY DEF PeerSend, outs, work, conn
<1>2. s \in Spot \ Place /\ Line(s) = sock /\ Line(s)' = sock' /\ sock \in Seq(Request)
  BY PlaceForms, LineForms, LineFormsNext DEF Types, PeerT
<1>3. Others({s})
  BY <1>1, OthersStay
<1>4. IsInjective(sock) /\ r \notin Range(sock) /\ r \notin leaked /\ unsent \cap leaked = {}
      /\ Range(sock) \cap (unsent \cup leaked) = {}
  BY <1>1, <1>2 DEF OnceInv
<1>5. IsInjective(sock') /\ Range(sock') = Range(sock) \cup {r}
  BY <1>1, <1>2, <1>4, AppendRange
<1>6. \A x \in Range(sock') \cup unsent' \cup leaked' : From({s}, x)
  BY <1>1, <1>2, <1>5 DEF From
<1>7. OnceInv'
  <2> HIDE DEF s
  <2>1. Range(Line(s)') \cap (unsent' \cup leaked') = {} /\ unsent' \cap leaked' = {}
    BY <1>1, <1>2, <1>4, <1>5
  <2> QED BY <1>2, <1>3, <1>5, <1>6, <2>1, OnceStep
<1>8. Held' = Held
  <2>1. Held' = {x \in Request : \/ x \in Held /\ \A p \in {s} \cap Place : x \notin Range(Line(p))
                                 \/ \E p \in {s} \cap Place : x \in Range(Line(p)')}
    BY <1>2, <1>3, HeldStep
  <2>2. {s} \cap Place = {} /\ Held \subseteq Request
    BY <1>2 DEF Held
  <2> HIDE DEF s
  <2> QED BY <2>1, <2>2
<1> QED BY <1>1, <1>7, <1>8, CountSame

\* recv keeps every request in the socket or in the buffer.
LEMMA RecvMoves ==
  ASSUME Types, OnceInv, nn_conn_recv
  PROVE  /\ IsInjective(sock') /\ IsInjective(inb') /\ Range(sock') \cap Range(inb') = {}
         /\ Range(sock') \cup Range(inb') = Range(sock) \cup Range(inb)
<1>1. PICK k \in 0..Len(sock) : /\ inb' = inb \o SubSeq(sock, 1, k)
                                /\ sock' = SubSeq(sock, k + 1, Len(sock))
  BY RecvEffect DEF Types
<1>2. sock \in Seq(Request) /\ inb \in Seq(Request)
  BY DEF Types, PeerT
<1>3. IsInjective(sock) /\ IsInjective(inb) /\ Range(sock) \cap Range(inb) = {}
  <2>1. /\ <<"sock", 0>> \in Spot /\ <<"inb", 0>> \in Spot /\ <<"sock", 0>> # <<"inb", 0>>
        /\ Line(<<"sock", 0>>) = sock /\ Line(<<"inb", 0>>) = inb
    BY PlaceForms, LineForms
  <2> QED BY <2>1 DEF OnceInv
<1> DEFINE s == SubSeq(sock, 1, k)
           t == SubSeq(sock, k + 1, Len(sock))
<1>4. /\ s \in Seq(Request) /\ t \in Seq(Request) /\ IsInjective(s) /\ IsInjective(t)
      /\ Range(s) \cup Range(t) = Range(sock) /\ Range(s) \cap Range(t) = {}
  BY <1>2, <1>3, SplitRange
<1> HIDE DEF s, t
<1>5. /\ Range(inb \o s) = Range(inb) \cup Range(s) /\ IsInjective(inb \o s)
  <2>1. Range(inb) \cap Range(s) = {}
    BY <1>3, <1>4
  <2> QED BY <1>2, <1>3, <1>4, <2>1, ConcatRange
<1>6. inb' = inb \o s /\ sock' = t
  BY <1>1 DEF s, t
<1> QED BY <1>3, <1>4, <1>5, <1>6

\* nn_conn_finalize frees the nodes of out_task; the buffers before it may move on or
\* be reset at the same time.
LEMMA FinalizeOnce ==
  ASSUME Types, OnceInv, CountInv, GoneInv, nn_conn_finalize,
         UNCHANGED <<unsent, out, sent, batch, tq, bque>>,
         IsInjective(sock'), IsInjective(inb'), Range(sock') \cap Range(inb') = {},
         Range(sock') \cup Range(inb') \subseteq Range(sock) \cup Range(inb)
  PROVE  OnceInv' /\ CountInv'
<1> DEFINE s == <<"sock", 0>>
           i == <<"inb", 0>>
           o == <<"out_task", 0>>
           A == {s, i, o}
<1>1. /\ s \in Spot \ Place /\ i \in Spot \ Place /\ o \in Place /\ o \in Spot
      /\ s # i /\ s # o /\ i # o
  BY PlaceForms
<1>2. /\ Line(s) = sock /\ Line(i) = inb /\ Line(o) = outTask /\ At(o) = outTask
      /\ Line(s)' = sock' /\ Line(i)' = inb' /\ Line(o)' = <<>>
  BY LineForms, LineFormsNext DEF nn_conn_finalize
<1>3. Others(A) /\ leaked' = leaked
  BY OthersStay DEF nn_conn_finalize
<1>4. Range(<<>>) = {} /\ IsInjective(<<>>)
  BY DEF Range, IsInjective
<1> HIDE DEF s, i, o
<1>5. \A x : From(A, x) <=> \/ x \in unsent \/ x \in leaked
                            \/ x \in Range(sock) \/ x \in Range(inb) \/ x \in Range(outTask)
  BY <1>2 DEF From
<1>6. (Range(sock) \cup Range(inb)) \cap (unsent \cup leaked) = {} /\ unsent \cap leaked = {}
  BY <1>1, <1>2 DEF OnceInv
<1>7. OnceInv'
  <2>1. \A p \in A : IsInjective(Line(p)')
    BY <1>2, <1>4
  <2>2. \A p \in A : \A x \in Range(Line(p)') : From(A, x)
    BY <1>2, <1>4, <1>5
  <2>3. \A p, q \in A : p # q => Range(Line(p)') \cap Range(Line(q)') = {}
    BY <1>2, <1>4
  <2>4. \A p \in A : Range(Line(p)') \cap (unsent' \cup leaked') = {}
    BY <1>2, <1>3, <1>4, <1>6
  <2>5. unsent' \cap leaked' = {} /\ \A x \in unsent' \cup leaked' : From(A, x)
    BY <1>3, <1>5, <1>6
  <2>6. A \in SUBSET Spot
    BY <1>1
  <2> HIDE DEF A
  <2> QED BY <1>3, <2>1, <2>2, <2>3, <2>4, <2>5, <2>6, OnceStep
<1>8. outTask \in Seq(Request) /\ IsInjective(outTask)
  BY <1>1, <1>2 DEF Types, OutsT, OnceInv
<1>9. Range(outTask) \subseteq Held /\ Held \subseteq Request
  <2>1. Range(outTask) \subseteq Request
    BY <1>8, RangePositions
  <2> QED BY <2>1, <1>1, <1>2 DEF Held
<1>10. Held' = Held \ Range(outTask)
  <2>1. Held' = {x \in Request : \/ x \in Held /\ \A p \in A \cap Place : x \notin Range(Line(p))
                                 \/ \E p \in A \cap Place : x \in Range(Line(p)')}
    <3>1. A \in SUBSET Spot
      BY <1>1
    <3> HIDE DEF A
    <3> QED BY <1>3, <3>1, HeldStep
  <2>2. A \cap Place = {o}
    BY <1>1
  <2> HIDE DEF A
  <2> QED BY <2>1, <2>2, <1>2, <1>4, <1>9
<1>11. Cardinality(Range(outTask)) = Len(outTask)
  BY <1>8, InjectiveLength
<1>12. FreeNodes(Len(outTask))
  <2>1. CASE state = "connected"
    BY <2>1 DEF nn_conn_finalize
  <2>2. CASE state # "connected"
    <3>1. outTask = <<>> /\ count' = count /\ free' = free
      BY <2>2 DEF GoneInv, nn_conn_finalize, Types, ConnT
    <3>2. Len(outTask) = 0 /\ free \in Nat /\ count \in Nat
      <4>1. count + free = MaxTask /\ free \in Nat /\ MaxTask \in Nat
        BY NnConnAssumption DEF CountInv
      <4>2. count \in Nat
        BY FS_CardinalityType DEF CountInv
      <4> QED BY <3>1, <4>1, <4>2
    <3> QED BY <3>1, <3>2 DEF FreeNodes
  <2> QED BY <2>1, <2>2
<1> QED BY <1>3, <1>7, <1>9, <1>10, <1>11, <1>12, CountLess

LEMMA FinalizeQuiet ==
  ASSUME Types, OnceInv, CountInv, GoneInv, nn_conn_finalize,
         UNCHANGED <<unsent, sock, inb, out, sent, batch, tq, bque>>
  PROVE  OnceInv' /\ CountInv'
<1>1. /\ <<"sock", 0>> \in Spot /\ <<"inb", 0>> \in Spot /\ <<"sock", 0>> # <<"inb", 0>>
      /\ Line(<<"sock", 0>>) = sock /\ Line(<<"inb", 0>>) = inb
  BY PlaceForms, LineForms
<1>2. IsInjective(sock) /\ IsInjective(inb) /\ Range(sock) \cap Range(inb) = {}
  BY <1>1 DEF OnceInv
<1> QED BY <1>2, FinalizeOnce

LEMMA ReadOnce ==
  ASSUME Types, OnceInv, CountInv, GoneInv, nn_conn_read_handler
  PROVE  OnceInv' /\ CountInv'
<1>1. UNCHANGED <<unsent, out, sent, batch, tq, bque>>
  BY DEF nn_conn_read_handler, work, outs
<1>2. CASE UNCHANGED <<sock, inb, conn, outs, ev>>
  BY <1>1, <1>2, QuietStep, CountSame DEF Quiet, conn, outs
<1>3. CASE nn_conn_recv /\ nn_conn_finalize
  BY <1>1, <1>3, RecvMoves, FinalizeOnce
<1>4. CASE nn_conn_recv /\ UNCHANGED <<conn, outs, ev>>
  <2> DEFINE s == <<"sock", 0>>
             i == <<"inb", 0>>
  <2>1. /\ s \in Spot \ Place /\ i \in Spot \ Place /\ s # i
        /\ Line(s) = sock /\ Line(i) = inb /\ Line(s)' = sock' /\ Line(i)' = inb'
    BY PlaceForms, LineForms, LineFormsNext
  <2>2. Others({s, i}) /\ UNCHANGED <<unsent, leaked, count, free>>
    BY <1>1, <1>4, OthersStay DEF conn, outs
  <2> HIDE DEF s, i
  <2> QED BY <1>4, <2>1, <2>2, RecvMoves, OutsideMove
<1> QED BY <1>2, <1>3, <1>4 DEF nn_conn_read_handler

LEMMA DecodeOnce ==
  ASSUME Types, OnceInv, CountInv, GoneInv, DecodeError \/ DecodeTask
  PROVE  OnceInv' /\ CountInv'
<1>1. CASE DecodeError
  <2>1. /\ inb' = <<>> /\ sock' = sock /\ nn_conn_finalize
        /\ UNCHANGED <<unsent, out, sent, batch, tq, bque>>
    BY <1>1 DEF DecodeError, work, peer
  <2>2. Range(<<>>) = {} /\ IsInjective(<<>>)
    BY DEF Range, IsInjective
  <2>3. IsInjective(sock)
    BY PlaceForms, LineForms DEF OnceInv
  <2> QED BY <2>1, <2>2, <2>3, FinalizeOnce
<1>2. CASE DecodeTask
  <2>1. inb \in Seq(Request) /\ inb # <<>>
    BY <1>2 DEF Types, PeerT, DecodeTask
  <2>2. PICK r \in Request : r = Head(inb)
    BY <2>1
  <2>3. PICK w \in Worker : tq' = [tq EXCEPT ![w] = push_task(@, r)]
    BY <1>2, <2>2 DEF DecodeTask, Worker
  <2> DEFINE i == <<"inb", 0>>
             q == <<"tq", w>>
  <2>4. /\ tq' = [tq EXCEPT ![w] = push_task(@, r)] /\ inb' = Tail(inb)
        /\ count < MaxTask /\ count' = count + 1 /\ free' = free - 1
        /\ UNCHANGED <<sock, unsent, outTask, out, sent, leaked, batch, bque>>
    BY <1>2, <2>2, <2>3 DEF DecodeTask, peer, outs
  <2>5. /\ i \in Spot \ Place /\ q \in Place /\ q \in Spot /\ i # q
        /\ Line(i) = inb /\ Line(q) = tq[w] /\ Line(i)' = inb' /\ Line(q)' = tq'[w]
    BY PlaceForms, LineForms, LineFormsNext
  <2>6. tq[w] \in Seq(Request) /\ tq'[w] = push_task(tq[w], r)
        /\ \A v \in Worker : v # w => tq'[v] = tq[v]
    BY <2>4 DEF Types, QueT
  <2>7. Others({i, q})
    BY <2>4, <2>6, OthersStay
  <2> HIDE DEF i, q
  <2>8. /\ IsInjective(inb) /\ IsInjective(tq[w]) /\ Range(inb) \cap Range(tq[w]) = {}
    BY <2>5 DEF OnceInv
  <2>9. /\ Range(inb') = Range(inb) \ {r} /\ IsInjective(inb') /\ r \in Range(inb)
    BY <2>1, <2>2, <2>4, <2>8, TailRange
  <2>10. /\ Range(tq'[w]) = Range(tq[w]) \cup {r} /\ IsInjective(tq'[w])
    BY <2>6, <2>8, <2>9, ConsRange DEF push_task
  <2>11. OnceInv'
    <3>1. /\ Range(Line(i)') \cap Range(Line(q)') = {}
          /\ Range(Line(i)') \cup Range(Line(q)') \subseteq Range(Line(i)) \cup Range(Line(q))
          /\ IsInjective(Line(i)') /\ IsInjective(Line(q)')
      BY <2>5, <2>8, <2>9, <2>10
    <3> QED BY <2>4, <2>5, <2>7, <3>1, OnceMove
  <2>12. r \notin Held
    <3>1. \A p \in Place : p \in Spot /\ p # i /\ Line(p) = At(p)
      BY <2>5, PlaceForms, LineForms
    <3> QED BY <2>5, <2>9, <3>1 DEF Held, OnceInv
  <2>13. Range(tq[w]) \subseteq Held /\ Held \subseteq Request
    <3>1. Range(tq[w]) \subseteq Request /\ Line(q) = At(q)
      BY <2>5, <2>6, RangePositions, LineForms
    <3> QED BY <2>5, <3>1 DEF Held
  <2>14. Held' = Held \cup {r}
    <3>1. Held' = {x \in Request : \/ x \in Held /\ \A p \in {i, q} \cap Place : x \notin Range(Line(p))
                                   \/ \E p \in {i, q} \cap Place : x \in Range(Line(p)')}
      BY <2>5, <2>7, HeldStep
    <3>2. {i, q} \cap Place = {q}
      BY <2>5
    <3> QED BY <2>5, <2>10, <2>13, <3>1, <3>2
  <2> QED BY <2>4, <2>11, <2>12, <2>14, CountMore
<1> QED BY <1>1, <1>2

LEMMA AnswerOnce ==
  ASSUME Types, OnceInv, CountInv, GoneInv, BatchInv, PopAnswers \/ nn_conn_outtask
  PROVE  OnceInv' /\ CountInv'
<1> DEFINE b == <<"batch", "net">>
<1>0. /\ "net" \in Thread /\ b \in Place /\ b \in Spot /\ Line(b) = batch["net"] /\ Line(b)' = batch'["net"]
      /\ batch["net"] \in Seq(Request) /\ IsInjective(batch["net"])
  BY PlaceForms, LineForms, LineFormsNext DEF Thread, Types, BatchT, OnceInv
<1>1. CASE PopAnswers
  <2>1. CASE net.i = QueueSize
    BY <1>1, <2>1, QuietStep, CountSame DEF PopAnswers, Quiet, peer, conn, outs
  <2>2. CASE net.i # QueueSize
    <3>1. PICK k \in 0..QueueSize - 1 : k = net.i
      BY <2>2, NnConnAssumption DEF Types, NetT
    <3> DEFINE q == <<"bque", k>>
    <3>2. /\ batch' = [batch EXCEPT !["net"] = bque[k]] /\ bque' = [bque EXCEPT ![k] = <<>>]
          /\ net.pc = "pop"
          /\ UNCHANGED <<sock, inb, unsent, outTask, out, sent, leaked, tq, count, free>>
      BY <1>1, <2>2, <3>1 DEF PopAnswers, peer, outs, conn
    <3>3. /\ q \in Place /\ q \in Spot /\ q # b /\ Line(q) = bque[k] /\ Line(q)' = bque'[k]
      BY PlaceForms, LineForms, LineFormsNext
    <3>4. /\ batch'["net"] = bque[k] /\ \A t \in Thread : t # "net" => batch'[t] = batch[t]
          /\ bque'[k] = <<>> /\ \A j \in 0..QueueSize - 1 : j # k => bque'[j] = bque[j]
      BY <1>0, <3>2 DEF Types, BatchT, QueT
    <3>5. Others({q, b})
      BY <3>2, <3>4, OthersStay
    <3> HIDE DEF q, b
    <3>6. batch["net"] = <<>> /\ Range(<<>>) = {} /\ IsInjective(<<>>)
      BY <3>2 DEF BatchInv, Range, IsInjective
    <3>7. IsInjective(Line(q)') /\ IsInjective(Line(b)') /\ Range(Line(q)') \cap Range(Line(b)') = {}
          /\ Range(Line(q)') \cup Range(Line(b)') = Range(Line(q)) \cup Range(Line(b))
      BY <1>0, <3>3, <3>4, <3>6 DEF OnceInv
    <3> QED BY <1>0, <3>2, <3>3, <3>5, <3>7, PlaceMove
  <2> QED BY <2>1, <2>2
<1>2. CASE nn_conn_outtask
  <2>1. batch["net"] # <<>> /\ batch' = [batch EXCEPT !["net"] = Tail(@)]
        /\ UNCHANGED <<sock, inb, unsent, out, sent, leaked, tq, bque>>
    BY <1>2 DEF nn_conn_outtask, peer, work, conn
  <2>2. PICK r \in Request : r = Head(batch["net"])
    BY <1>0, <2>1
  <2>3. /\ batch'["net"] = Tail(batch["net"]) /\ \A t \in Thread : t # "net" => batch'[t] = batch[t]
    BY <1>0, <2>1 DEF Types, BatchT
  <2>4. /\ Range(batch'["net"]) = Range(batch["net"]) \ {r} /\ IsInjective(batch'["net"])
        /\ r \in Range(batch["net"])
    BY <1>0, <2>1, <2>2, <2>3, TailRange
  <2>5. CASE state = "connected"
    <3> DEFINE o == <<"out_task", 0>>
    <3>1. outTask' = Append(outTask, r) /\ UNCHANGED <<count, free>>
      BY <1>2, <2>2, <2>5 DEF nn_conn_outtask, conn
    <3>2. /\ o \in Place /\ o \in Spot /\ o # b /\ Line(o) = outTask /\ Line(o)' = outTask'
          /\ outTask \in Seq(Request)
      BY PlaceForms, LineForms, LineFormsNext DEF Types, OutsT
    <3>3. Others({b, o})
      BY <2>1, <2>3, OthersStay
    <3> HIDE DEF o, b
    <3>4. IsInjective(outTask) /\ Range(outTask) \cap Range(batch["net"]) = {}
      BY <1>0, <3>2 DEF OnceInv
    <3>5. Range(outTask') = Range(outTask) \cup {r} /\ IsInjective(outTask')
      BY <2>4, <3>1, <3>2, <3>4, AppendRange
    <3>6. IsInjective(Line(b)') /\ IsInjective(Line(o)') /\ Range(Line(b)') \cap Range(Line(o)') = {}
          /\ Range(Line(b)') \cup Range(Line(o)') = Range(Line(b)) \cup Range(Line(o))
      BY <1>0, <2>4, <3>2, <3>4, <3>5
    <3> QED BY <1>0, <2>1, <3>1, <3>2, <3>3, <3>6, PlaceMove
  <2>6. CASE state # "connected"
    <3> DEFINE s == <<"sock", 0>>
    <3>1. FreeNodes(1) /\ outTask' = outTask
      BY <1>2, <2>6 DEF nn_conn_outtask
    <3>2. s \in Spot \ Place /\ s \in Spot /\ Line(s) = sock /\ Line(s)' = sock /\ s # b
      BY <2>1, PlaceForms, LineForms, LineFormsNext
    <3>3. Others({b, s})
      BY <2>1, <2>3, <3>1, OthersStay
    <3> HIDE DEF s, b
    <3>4. IsInjective(sock) /\ Range(batch["net"]) \cap Range(sock) = {}
      BY <1>0, <3>2 DEF OnceInv
    <3>5. IsInjective(Line(b)') /\ IsInjective(Line(s)') /\ Range(Line(b)') \cap Range(Line(s)') = {}
          /\ Range(Line(b)') \cup Range(Line(s)') \subseteq Range(Line(b)) \cup Range(Line(s))
      BY <1>0, <2>4, <3>2, <3>4
    <3>6. {r} \subseteq Range(Line(b)) /\ Range(Line(b)') = Range(Line(b)) \ {r}
      BY <1>0, <2>4
    <3>7. Cardinality({r}) = 1
      BY FS_Singleton
    <3> QED BY <1>0, <2>1, <3>1, <3>2, <3>3, <3>5, <3>6, <3>7, PlaceLeave
  <2> QED BY <2>5, <2>6
<1> QED BY <1>1, <1>2

LEMMA OutputOnce ==
  ASSUME Types, OnceInv, CountInv, GoneInv,
         Pack \/ SendAll \/ (\E k \in 0..OutCap : SendSome(k)) \/ SendError
  PROVE  OnceInv' /\ CountInv'
<1> DEFINE o == <<"out_task", 0>>
           b == <<"out", 0>>
           s == <<"sent", 0>>
<1>0. /\ o \in Place /\ o \in Spot /\ b \in Spot \ Place /\ b \in Spot /\ s \in Spot \ Place /\ s \in Spot
      /\ o # b /\ b # s
      /\ Line(o) = outTask /\ Line(o)' = outTask' /\ Line(b) = out /\ Line(b)' = out'
      /\ Line(s) = sent /\ Line(s)' = sent'
  BY PlaceForms, LineForms, LineFormsNext
<1>00. /\ outTask \in Seq(Request) /\ out \in Seq(Request) /\ sent \in Seq(Request)
       /\ IsInjective(outTask) /\ IsInjective(out) /\ IsInjective(sent)
       /\ Range(outTask) \cap Range(out) = {} /\ Range(out) \cap Range(sent) = {}
  <2> HIDE DEF o, b, s
  <2> QED BY <1>0 DEF Types, OutsT, OnceInv
<1>1. CASE Pack
  <2>1. PICK k \in 0..Len(outTask) : k = Fits
    BY FitsProperties DEF Types
  <2> DEFINE x == SubSeq(outTask, 1, k)
             y == SubSeq(outTask, k + 1, Len(outTask))
  <2>2. /\ out' = out \o x /\ outTask' = y /\ FreeNodes(k)
        /\ UNCHANGED <<sock, inb, unsent, sent, leaked, batch, tq, bque>>
    BY <1>1, <2>1 DEF Pack, peer, work
  <2>3. Others({o, b})
    BY <2>2, OthersStay
  <2>4. /\ x \in Seq(Request) /\ Len(x) = k /\ y \in Seq(Request) /\ IsInjective(x) /\ IsInjective(y)
        /\ Range(x) \cup Range(y) = Range(outTask) /\ Range(x) \cap Range(y) = {}
    BY <1>00, SplitRange
  <2> HIDE DEF x, y, o, b, s
  <2>5. Range(out \o x) = Range(out) \cup Range(x) /\ IsInjective(out \o x)
    <3>1. Range(out) \cap Range(x) = {}
      BY <1>00, <2>4
    <3> QED BY <1>00, <2>4, <3>1, ConcatRange
  <2>6. Cardinality(Range(x)) = k
    BY <2>4, InjectiveLength
  <2>7. /\ IsInjective(Line(o)') /\ IsInjective(Line(b)') /\ Range(Line(o)') \cap Range(Line(b)') = {}
        /\ Range(Line(o)') \cup Range(Line(b)') \subseteq Range(Line(o)) \cup Range(Line(b))
        /\ Range(x) \subseteq Range(Line(o)) /\ Range(Line(o)') = Range(Line(o)) \ Range(x)
    BY <1>0, <1>00, <2>2, <2>4, <2>5
  <2>8. UNCHANGED <<unsent, leaked>> /\ FreeNodes(Cardinality(Range(x)))
    BY <2>2, <2>6
  <2> QED BY <1>0, <2>3, <2>7, <2>8, PlaceLeave
<1>2. ASSUME NEW k \in 0..Len(out), sent' = sent \o SubSeq(out, 1, k),
             out' = SubSeq(out, k + 1, Len(out)),
             UNCHANGED <<sock, inb, unsent, outTask, leaked, batch, tq, bque, count, free>>
      PROVE  OnceInv' /\ CountInv'
  <2> DEFINE x == SubSeq(out, 1, k)
             y == SubSeq(out, k + 1, Len(out))
  <2>1. Others({b, s})
    BY <1>2, OthersStay
  <2>2. /\ x \in Seq(Request) /\ y \in Seq(Request) /\ IsInjective(x) /\ IsInjective(y)
        /\ Range(x) \cup Range(y) = Range(out) /\ Range(x) \cap Range(y) = {}
    BY <1>00, SplitRange
  <2>3. sent' = sent \o x /\ out' = y
    BY <1>2
  <2> HIDE DEF x, y, o, b, s
  <2>4. Range(sent \o x) = Range(sent) \cup Range(x) /\ IsInjective(sent \o x)
    <3>1. Range(sent) \cap Range(x) = {}
      BY <1>00, <2>2
    <3> QED BY <1>00, <2>2, <3>1, ConcatRange
  <2>5. /\ IsInjective(Line(b)') /\ IsInjective(Line(s)') /\ Range(Line(b)') \cap Range(Line(s)') = {}
        /\ Range(Line(b)') \cup Range(Line(s)') \subseteq Range(Line(b)) \cup Range(Line(s))
    BY <1>0, <1>00, <2>2, <2>3, <2>4
  <2>6. UNCHANGED <<unsent, leaked, count, free>>
    BY <1>2
  <2> QED BY <1>0, <2>1, <2>5, <2>6, OutsideMove
<1>3. CASE SendAll
  <2>1. /\ Len(out) \in 0..Len(out) /\ SubSeq(out, 1, Len(out)) = out
        /\ SubSeq(out, Len(out) + 1, Len(out)) = <<>>
    BY <1>00
  <2>2. /\ sent' = sent \o out /\ out' = <<>>
        /\ UNCHANGED <<sock, inb, unsent, outTask, leaked, batch, tq, bque, count, free>>
    BY <1>3 DEF SendAll, peer, conn, work
  <2> QED BY <1>2, <2>1, <2>2
<1>4. CASE \E k \in 0..OutCap : SendSome(k)
  <2>1. PICK k \in 0..OutCap : SendSome(k)
    BY <1>4
  <2>2. k \in 0..Len(out)
    BY <1>00, <2>1, NnConnAssumption DEF SendSome
  <2> QED BY <1>2, <2>1, <2>2 DEF SendSome, peer, conn, work
<1>5. CASE SendError
  BY <1>5, FinalizeQuiet DEF SendError, peer, work
<1> QED BY <1>1, <1>3, <1>4, <1>5

LEMMA TaskOnce ==
  ASSUME Types, OnceInv, CountInv, BatchInv, NEW w \in Worker, pop_all(w) \/ do_task(w)
  PROVE  OnceInv' /\ CountInv'
<1> DEFINE b == <<"batch", w>>
<1>0. /\ w \in Thread /\ b \in Place /\ b \in Spot /\ Line(b) = batch[w] /\ Line(b)' = batch'[w]
      /\ batch[w] \in Seq(Request) /\ IsInjective(batch[w])
  BY PlaceForms, LineForms, LineFormsNext DEF Thread, Types, BatchT, OnceInv
<1>1. CASE pop_all(w)
  <2> DEFINE q == <<"tq", w>>
  <2>1. /\ batch' = [batch EXCEPT ![w] = tq[w]] /\ tq' = [tq EXCEPT ![w] = <<>>] /\ wpc[w] = "pop"
        /\ UNCHANGED <<sock, inb, unsent, outTask, out, sent, leaked, bque, count, free>>
    BY <1>1 DEF pop_all, peer, outs, conn
  <2>2. /\ q \in Place /\ q \in Spot /\ q # b /\ Line(q) = tq[w] /\ Line(q)' = tq'[w]
    BY PlaceForms, LineForms, LineFormsNext
  <2>3. /\ batch'[w] = tq[w] /\ \A t \in Thread : t # w => batch'[t] = batch[t]
        /\ tq'[w] = <<>> /\ \A v \in Worker : v # w => tq'[v] = tq[v]
    BY <1>0, <2>1 DEF Types, BatchT, QueT
  <2>4. Others({q, b})
    BY <2>1, <2>3, OthersStay
  <2> HIDE DEF q, b
  <2>5. batch[w] = <<>> /\ Range(<<>>) = {} /\ IsInjective(<<>>)
    BY <2>1 DEF BatchInv, Range, IsInjective
  <2>6. IsInjective(Line(q)') /\ IsInjective(Line(b)') /\ Range(Line(q)') \cap Range(Line(b)') = {}
        /\ Range(Line(q)') \cup Range(Line(b)') = Range(Line(q)) \cup Range(Line(b))
    BY <1>0, <2>2, <2>3, <2>5 DEF OnceInv
  <2> QED BY <1>0, <2>1, <2>2, <2>4, <2>6, PlaceMove
<1>2. CASE do_task(w)
  <2>1. batch[w] # <<>> /\ batch' = [batch EXCEPT ![w] = Tail(@)]
        /\ UNCHANGED <<sock, inb, unsent, outTask, out, sent, count, free>>
    BY <1>2 DEF do_task, peer, outs
  <2>2. PICK r \in Request : r = Head(batch[w])
    BY <1>0, <2>1
  <2>3. /\ batch'[w] = Tail(batch[w]) /\ \A t \in Thread : t # w => batch'[t] = batch[t]
    BY <1>0, <2>1 DEF Types, BatchT
  <2>4. /\ Range(batch'[w]) = Range(batch[w]) \ {r} /\ IsInjective(batch'[w])
        /\ r \in Range(batch[w])
    BY <1>0, <2>1, <2>2, <2>3, TailRange
  \* push_task on another queue: of the paxos thread or of the network thread
  <2>5. ASSUME NEW q \in Place, q # b, Line(q)' = push_task(Line(q), r), Others({b, q}), leaked' = leaked
        PROVE  OnceInv' /\ CountInv'
    <3> HIDE DEF b
    <3>1. /\ q \in Spot /\ Line(q) \in Seq(Request) /\ IsInjective(Line(q))
          /\ Range(Line(q)) \cap Range(batch[w]) = {}
      BY <1>0, <2>5, PlaceForms, LineType DEF OnceInv
    <3>2. Range(Line(q)') = Range(Line(q)) \cup {r} /\ IsInjective(Line(q)')
      BY <2>4, <2>5, <3>1, ConsRange DEF push_task
    <3>3. IsInjective(Line(b)') /\ IsInjective(Line(q)') /\ Range(Line(b)') \cap Range(Line(q)') = {}
          /\ Range(Line(b)') \cup Range(Line(q)') = Range(Line(b)) \cup Range(Line(q))
      BY <1>0, <2>4, <3>1, <3>2
    <3> QED BY <1>0, <2>1, <2>5, <3>3, PlaceMove
  <2>6. CASE PassToPaxos(w, r)
    <3> DEFINE q == <<"tq", Paxos>>
    <3>1. /\ tq' = [tq EXCEPT ![Paxos] = push_task(@, r)] /\ UNCHANGED <<bque, leaked>> /\ Paxos \in Worker
      BY <2>6 DEF PassToPaxos, Worker
    <3>2. tq'[Paxos] = push_task(tq[Paxos], r) /\ \A v \in Worker : v # Paxos => tq'[v] = tq[v]
      BY <3>1 DEF Types, QueT
    <3>3. q \in Place /\ q # b /\ Line(q) = tq[Paxos] /\ Line(q)' = tq'[Paxos]
      BY <3>1, PlaceForms, LineForms, LineFormsNext
    <3>4. Others({b, q})
      BY <2>1, <2>3, <3>1, <3>2, OthersStay
    <3> HIDE DEF q, b
    <3> QED BY <2>5, <3>1, <3>2, <3>3, <3>4
  <2>7. CASE write_back(w, r)
    <3>0. PICK k \in 0..QueueSize - 1 : k = Slot[w]
      BY NnConnAssumption
    <3> DEFINE q == <<"bque", k>>
    <3>1. /\ bque' = [bque EXCEPT ![k] = push_task(@, r)] /\ UNCHANGED <<tq, leaked>>
      BY <2>7, <3>0 DEF write_back
    <3>2. bque'[k] = push_task(bque[k], r) /\ \A j \in 0..QueueSize - 1 : j # k => bque'[j] = bque[j]
      BY <3>1 DEF Types, QueT
    <3>3. q \in Place /\ q # b /\ Line(q) = bque[k] /\ Line(q)' = bque'[k]
      BY <3>1, PlaceForms, LineForms, LineFormsNext
    <3>4. Others({b, q})
      BY <2>1, <2>3, <3>1, <3>2, OthersStay
    <3> HIDE DEF q, b
    <3> QED BY <2>5, <3>1, <3>2, <3>3, <3>4
  <2>8. CASE Drop(w, r)
    <3>1. leaked' = leaked \cup {r} /\ UNCHANGED <<tq, bque>>
      BY <2>8 DEF Drop
    <3>2. Others({b})
      BY <2>1, <2>3, <3>1, OthersStay
    <3> HIDE DEF b
    <3>3. /\ Range(batch[w]) \cap (unsent \cup leaked) = {} /\ unsent \cap leaked = {}
      BY <1>0 DEF OnceInv
    <3>4. OnceInv'
      <4>1. Range(Line(b)') \cap (unsent' \cup leaked') = {} /\ unsent' \cap leaked' = {}
        BY <1>0, <2>1, <2>4, <3>1, <3>3
      <4>2. \A x \in Range(Line(b)') \cup unsent' \cup leaked' : From({b}, x)
        BY <1>0, <2>1, <2>4, <3>1 DEF From
      <4> QED BY <1>0, <2>4, <3>2, <4>1, <4>2, OnceStep
    <3>5. Held' = Held \ {r} /\ r \in Held /\ r \notin leaked
      <4>1. Held' = {x \in Request : \/ x \in Held /\ \A p \in {b} \cap Place : x \notin Range(Line(p))
                                     \/ \E p \in {b} \cap Place : x \in Range(Line(p)')}
        BY <1>0, <3>2, HeldStep
      <4>2. {b} \cap Place = {b}
        BY <1>0
      <4>3. Range(batch[w]) \subseteq Held /\ Held \subseteq Request
        <5>1. Range(batch[w]) \subseteq Request /\ Line(b) = At(b)
          BY <1>0, RangePositions, LineForms
        <5> QED BY <1>0, <5>1 DEF Held
      <4> QED BY <1>0, <2>4, <3>3, <4>1, <4>2, <4>3
    <3> QED BY <2>1, <3>1, <3>4, <3>5, CountLeak
  <2> QED BY <1>2, <2>2, <2>6, <2>7, <2>8 DEF do_task
<1> QED BY <1>1, <1>2

\* Everything else leaves the requests where they are.
LEMMA QuietOnce ==
  ASSUME OnceInv, CountInv, Quiet, UNCHANGED <<count, free>>
  PROVE  OnceInv' /\ CountInv'
BY QuietStep, CountSame DEF Quiet

LEMMA AccountStep ==
  ASSUME Types, OnceInv, CountInv, GoneInv, BatchInv, [Next]_vars
  PROVE  OnceInv' /\ CountInv'
<1>1. CASE \E r \in Request : PeerSend(r)
  BY <1>1, SendOnce
<1>2. CASE \/ PeerClose \/ DecodeBusy \/ DecodeAgain \/ Dispatched \/ BatchDone
           \/ (\E t \in TaskThread : OtherWakes(t)) \/ UNCHANGED vars
  <2>1. Quiet /\ UNCHANGED <<count, free>>
    BY <1>2 DEF Quiet, PeerClose, DecodeBusy, DecodeAgain, Dispatched, BatchDone, OtherWakes,
                vars, peer, conn, outs, work
  <2> QED BY <2>1, QuietOnce
<1>3. CASE (\E e \in BOOLEAN : epoll_process_events(e)) \/ Skip \/ ReadEvent \/ NoticeEvent \/ WriteEvent
  <2>1. Quiet /\ UNCHANGED <<count, free>>
    BY <1>3 DEF Quiet, epoll_process_events, Skip, ReadEvent, NoticeEvent, WriteEvent,
                peer, conn, outs, work
  <2> QED BY <2>1, QuietOnce
<1>4. CASE nn_conn_read_handler \/ DecodeError \/ DecodeTask \/ PopAnswers \/ nn_conn_outtask
  BY <1>4, ReadOnce, DecodeOnce, AnswerOnce
<1>5. CASE Pack \/ SendAll \/ (\E k \in 0..OutCap : SendSome(k)) \/ SendError
  BY <1>5, OutputOnce
<1>6. CASE WriteTimeout
  BY <1>6, FinalizeQuiet DEF WriteTimeout, peer, work
<1>7. CASE nn_conn_timer_handler
  <2>1. CASE nn_conn_finalize
    BY <1>7, <2>1, FinalizeQuiet DEF nn_conn_timer_handler, peer, work
  <2>2. CASE UNCHANGED <<conn, outTask>>
    <3>1. Quiet /\ UNCHANGED <<count, free>>
      BY <1>7, <2>2 DEF Quiet, nn_conn_timer_handler, peer, conn, work
    <3> QED BY <3>1, QuietOnce
  <2> QED BY <1>7, <2>1, <2>2 DEF nn_conn_timer_handler
<1>8. ASSUME NEW w \in Worker, WorkerStep(w) PROVE OnceInv' /\ CountInv'
  <2>1. CASE pop_all(w) \/ do_task(w)
    BY <2>1, TaskOnce
  <2>2. CASE Woken(w) \/ RunDone(w) \/ notice_wake_up(w)
    <3>1. Quiet /\ UNCHANGED <<count, free>>
      BY <2>2 DEF Quiet, Woken, RunDone, notice_wake_up, peer, conn, outs
    <3> QED BY <3>1, QuietOnce
  <2> QED BY <1>8, <2>1, <2>2 DEF WorkerStep
<1> QED BY <1>1, <1>2, <1>3, <1>4, <1>5, <1>6, <1>7, <1>8 DEF Next, NetStep

----------------------------------------------------------------------------
(* Who has a batch. *)

LEMMA BatchSame ==
  ASSUME BatchInv, UNCHANGED <<net, batch, wpc>>
  PROVE  BatchInv'
BY DEF BatchInv

LEMMA BatchNet ==
  ASSUME Types, BatchInv, \/ (\E e \in BOOLEAN : epoll_process_events(e))
                          \/ NetStep \/ WriteTimeout \/ nn_conn_timer_handler
  PROVE  BatchInv'
<1>0. NetT /\ BatchT /\ EvT /\ "net" \in Thread /\ "net" \notin Worker
  BY NnConnAssumption DEF Types, Thread
<1>w. ASSUME wpc' = wpc, \A w \in Worker : batch'[w] = batch[w],
             ~ (net'.pc = "batch" \/ (net'.pc \in {"pack", "send"} /\ net'.then = "batch"))
               => batch'["net"] = <<>>
      PROVE  BatchInv'
  BY <1>w DEF BatchInv
<1>1. CASE (\E e \in BOOLEAN : epoll_process_events(e)) \/ Skip \/ WriteTimeout
  BY <1>1, BatchSame DEF epoll_process_events, Skip, WriteTimeout, work
<1>2. CASE ReadEvent \/ NoticeEvent
  BY <1>0, <1>2, <1>w DEF ReadEvent, NoticeEvent, OnEvent, NetT, BatchInv, work
<1>3. CASE WriteEvent
  <2>1. net.pc = "loop" /\ net'.pc \in {"pack", "loop"} /\ UNCHANGED <<batch, wpc>>
    BY <1>0, <1>3, OutputTypes DEF WriteEvent, OnEvent, work
  <2> QED BY <2>1, <1>w DEF BatchInv
<1>4. CASE nn_conn_read_handler \/ DecodeBusy \/ DecodeAgain \/ DecodeError \/ DecodeTask \/ Dispatched
  <2>1. net.pc \in {"recv", "decode", "dispatched"} /\ UNCHANGED <<batch, wpc>>
    BY <1>4 DEF nn_conn_read_handler, DecodeBusy, DecodeAgain, DecodeError, DecodeTask, Dispatched, work
  <2> QED BY <2>1, <1>w DEF BatchInv
<1>5. CASE PopAnswers
  <2>1. CASE net.i = QueueSize
    <3>1. net.pc = "pop" /\ UNCHANGED <<batch, wpc>>
      BY <1>5, <2>1 DEF PopAnswers
    <3> QED BY <3>1, <1>w DEF BatchInv
  <2>2. CASE net.i # QueueSize
    <3>1. net'.pc = "batch" /\ wpc' = wpc /\ batch' = [batch EXCEPT !["net"] = bque[net.i]]
      BY <1>0, <1>5, <2>2 DEF PopAnswers, NetT
    <3>2. \A w \in Worker : batch'[w] = batch[w]
      BY <1>0, <3>1 DEF BatchT, Thread
    <3> QED BY <3>1, <3>2, <1>w
  <2> QED BY <2>1, <2>2
<1>6. CASE BatchDone
  BY <1>6, <1>w DEF BatchDone, work
<1>7. CASE nn_conn_outtask
  <2>1. batch' = [batch EXCEPT !["net"] = Tail(@)] /\ wpc' = wpc /\ net.pc = "batch"
    BY <1>7 DEF nn_conn_outtask, work
  <2>2. \A w \in Worker : batch'[w] = batch[w]
    BY <1>0, <2>1 DEF BatchT, Thread
  <2>3. net'.pc = "batch" \/ (net'.pc = "pack" /\ net'.then = "batch")
    <3>1. CASE StartOutput("batch")
      BY <1>0, <3>1, OutputTypes
    <3>2. CASE UNCHANGED net
      BY <2>1, <3>2
    <3> QED BY <1>7, <3>1, <3>2 DEF nn_conn_outtask
  <2> QED BY <2>1, <2>2, <2>3, <1>w
<1>8. CASE Pack \/ SendAll \/ (\E k \in 0..OutCap : SendSome(k)) \/ SendError
  <2>1. /\ net.pc \in {"pack", "send"} /\ UNCHANGED <<batch, wpc>>
        /\ \/ net'.pc = net.then
           \/ net'.pc \in {"pack", "send"} /\ net'.then = net.then
    BY <1>0, <1>8, OutputTypes DEF Pack, SendAll, SendSome, SendError, NetT, work
  <2> QED BY <2>1, <1>w DEF BatchInv
<1>9. CASE nn_conn_timer_handler
  <2>1. CASE UNCHANGED net
    BY <1>9, <2>1, BatchSame DEF nn_conn_timer_handler, work
  <2>2. CASE StartOutput("recv")
    <3>1. net.pc = "loop" /\ UNCHANGED <<batch, wpc>>
      BY <1>9 DEF nn_conn_timer_handler, work
    <3> QED BY <3>1, <1>w DEF BatchInv
  <2> QED BY <1>9, <2>1, <2>2 DEF nn_conn_timer_handler
<1> QED BY <1>1, <1>2, <1>3, <1>4, <1>5, <1>6, <1>7, <1>8, <1>9 DEF NetStep

LEMMA BatchStep ==
  ASSUME Types, BatchInv, [Next]_vars
  PROVE  BatchInv'
<1>1. CASE \/ (\E r \in Request : PeerSend(r)) \/ PeerClose
           \/ (\E t \in TaskThread : OtherWakes(t)) \/ UNCHANGED vars
  BY <1>1, BatchSame DEF PeerSend, PeerClose, OtherWakes, vars, work
<1>2. CASE \/ (\E e \in BOOLEAN : epoll_process_events(e))
           \/ NetStep \/ WriteTimeout \/ nn_conn_timer_handler
  BY <1>2, BatchNet
<1>3. ASSUME NEW w \in Worker, WorkerStep(w) PROVE BatchInv'
  <2>0. WorkT /\ BatchT /\ w \in Thread /\ "net" \in Thread /\ w # "net"
    BY NnConnAssumption DEF Types, Thread
  <2>1. net' = net /\ batch'["net"] = batch["net"]
    BY <1>3, <2>0 DEF WorkerStep, Woken, pop_all, RunDone, do_task, notice_wake_up, BatchT
  <2>2. \A v \in Worker : v # w => batch'[v] = batch[v] /\ wpc'[v] = wpc[v]
    BY <1>3, <2>0 DEF WorkerStep, Woken, pop_all, RunDone, do_task, notice_wake_up, BatchT, WorkT,
       PassToPaxos, Drop, write_back, Thread
  <2>3. wpc'[w] \in {"idle", "pop"} => batch'[w] = <<>>
    <3>1. CASE Woken(w) \/ RunDone(w)
      BY <3>1, <2>0 DEF Woken, RunDone, WorkT, BatchInv
    <3>2. CASE pop_all(w) \/ notice_wake_up(w)
      BY <3>2, <2>0 DEF pop_all, notice_wake_up, WorkT
    <3>3. CASE do_task(w)
      BY <3>3, <2>0 DEF do_task, WorkT, PassToPaxos, Drop, write_back
    <3> QED BY <1>3, <3>1, <3>2, <3>3 DEF WorkerStep
  <2> QED BY <2>1, <2>2, <2>3 DEF BatchInv
<1> QED BY <1>1, <1>2, <1>3 DEF Next

----------------------------------------------------------------------------
(* The end of the connection. *)

\* nn_conn_finalize leaves no event behind, and decides about the pool.
LEMMA FinalizeEnds ==
  ASSUME nn_conn_finalize
  PROVE  /\ state' = "disconnected" /\ outTask' = <<>>
         /\ ~ev'.slow /\ ~ev'.timer /\ ~ev'.wr /\ (destroyed' <=> count' = 0)
<1>1. ev' = [rd |-> FALSE, slow |-> FALSE, wr |-> FALSE, ready |-> FALSE, timer |-> FALSE]
      /\ state' = "disconnected" /\ outTask' = <<>> /\ destroyed' = (count' = 0)
  BY Zenon DEF nn_conn_finalize
<1>2. ~ev'.slow /\ ~ev'.timer /\ ~ev'.wr
  BY <1>1
<1>3. destroyed' <=> count' = 0
  BY <1>1, Zenon
<1> QED BY <1>1, <1>2, <1>3

\* A step that does not finalize the connection leaves it connected, and frees nodes of
\* a closed one only in nn_conn_outtask.
LEMMA StateEffect ==
  ASSUME Types, GoneInv, [Next]_vars
  PROVE  \/ nn_conn_finalize
         \/ UNCHANGED <<state, destroyed, count>>
         \/ state' = "connected" /\ state = "connected" /\ destroyed' = destroyed
         \/ /\ state = "disconnected" /\ state' = "disconnected"
            /\ destroyed' = (count' = 0) /\ UNCHANGED <<outTask, ev, net>>
<1>1. CASE \/ (\E r \in Request : PeerSend(r)) \/ PeerClose
           \/ (\E t \in TaskThread : OtherWakes(t)) \/ UNCHANGED vars
  BY <1>1 DEF PeerSend, PeerClose, OtherWakes, vars, conn
<1>2. CASE \/ (\E e \in BOOLEAN : epoll_process_events(e)) \/ Skip \/ ReadEvent \/ NoticeEvent
           \/ WriteEvent \/ WriteTimeout \/ nn_conn_timer_handler
  BY <1>2 DEF epoll_process_events, Skip, ReadEvent, NoticeEvent, WriteEvent, WriteTimeout,
     nn_conn_timer_handler, conn
<1>3. CASE nn_conn_read_handler \/ DecodeBusy \/ DecodeAgain \/ DecodeError \/ Dispatched
  BY <1>3 DEF nn_conn_read_handler, DecodeBusy, DecodeAgain, DecodeError, Dispatched, conn
<1>4. CASE DecodeTask \/ Pack
  <2>1. net.pc \in {"decode", "pack"} /\ UNCHANGED <<state, destroyed>>
    BY <1>4 DEF DecodeTask, Pack
  <2>2. state = "connected"
    BY <2>1 DEF GoneInv, Types, ConnT
  <2> QED BY <2>1, <2>2
<1>5. CASE PopAnswers \/ BatchDone \/ SendAll \/ (\E k \in 0..OutCap : SendSome(k)) \/ SendError
  BY <1>5 DEF PopAnswers, BatchDone, SendAll, SendSome, SendError, conn
<1>6. CASE nn_conn_outtask
  <2>1. CASE state = "connected"
    BY <1>6, <2>1 DEF nn_conn_outtask, conn
  <2>2. CASE state # "connected"
    <3>1. state = "disconnected"
      BY <2>2 DEF Types, ConnT
    <3>2. destroyed' = (count' = 0) /\ UNCHANGED <<state, outTask, ev, net>>
      BY <1>6, <2>2, Zenon DEF nn_conn_outtask
    <3> QED BY <3>1, <3>2
  <2> QED BY <2>1, <2>2
<1>7. CASE \E w \in Worker : WorkerStep(w)
  BY <1>7 DEF WorkerStep, Woken, pop_all, RunDone, do_task, notice_wake_up, conn
<1> QED BY <1>1, <1>2, <1>3, <1>4, <1>5, <1>6, <1>7 DEF Next, NetStep

LEMMA DestroyStep ==
  ASSUME Types, GoneInv, DestroyInv, [Next]_vars
  PROVE  DestroyInv'
<1>1. CASE nn_conn_finalize
  BY <1>1, FinalizeEnds DEF DestroyInv
<1>2. CASE UNCHANGED <<state, destroyed, count>>
  BY <1>2 DEF DestroyInv
<1>3. CASE state' = "connected" /\ state = "connected" /\ destroyed' = destroyed
  BY <1>3 DEF DestroyInv
<1>4. CASE state' = "disconnected" /\ destroyed' = (count' = 0)
  <2>1. destroyed' <=> count' = 0
    BY <1>4, Zenon
  <2> QED BY <1>4, <2>1 DEF DestroyInv
<1> QED BY <1>1, <1>2, <1>3, <1>4, StateEffect

LEMMA GoneStep ==
  ASSUME Types, GoneInv, OutInv, [Next]_vars
  PROVE  GoneInv'
<1>0. NetT /\ EvT /\ (state = "connected" <=> state # "disconnected")
  BY DEF Types, ConnT
<1> DEFINE End == {"loop", "pop", "batch"}
<1>e. ASSUME nn_conn_finalize, net'.pc \in {"loop", "pop", "batch"}
      PROVE  GoneInv'
  BY <1>e, FinalizeEnds DEF GoneInv
<1>s. ASSUME state' = state, outTask' = outTask, state = "disconnected" => ev' = ev /\ net'.pc \in End
      PROVE  GoneInv'
  BY <1>s DEF GoneInv
<1>1. CASE \/ (\E r \in Request : PeerSend(r)) \/ PeerClose
           \/ (\E t \in TaskThread : OtherWakes(t)) \/ UNCHANGED vars
  BY <1>1 DEF GoneInv, PeerSend, PeerClose, OtherWakes, vars, conn, outs
<1>2. CASE \/ (\E e \in BOOLEAN : epoll_process_events(e)) \/ Skip \/ ReadEvent \/ NoticeEvent
           \/ WriteEvent
  <2>1. CASE \E e \in BOOLEAN : epoll_process_events(e)
    <3>1. /\ UNCHANGED <<state, outTask, net>> /\ ev'.slow = ev.slow /\ ev'.timer = ev.timer
          /\ ev'.wr = ev.wr
      BY <1>0, <2>1 DEF epoll_process_events, conn, outs, EvT
    <3> QED BY <3>1 DEF GoneInv
  <2>2. CASE Skip
    BY <2>2 DEF Skip, conn, outs, GoneInv
  <2>3. CASE ReadEvent \/ WriteEvent
    BY <1>0, <2>3, <1>s DEF ReadEvent, WriteEvent, OnEvent, conn, outs
  <2>4. CASE NoticeEvent
    <3>1. net'.pc = "pop" /\ UNCHANGED <<state, outTask, ev>>
      BY <1>0, <2>4 DEF NoticeEvent, conn, outs, NetT
    <3> QED BY <3>1, <1>s
  <2> QED BY <1>2, <2>1, <2>2, <2>3, <2>4
<1>3. CASE nn_conn_read_handler \/ DecodeBusy \/ DecodeAgain \/ DecodeError \/ DecodeTask \/ Dispatched
  <2>1. state = "connected"
    BY <1>3 DEF GoneInv, Types, ConnT, nn_conn_read_handler, DecodeBusy, DecodeAgain, DecodeError,
       DecodeTask, Dispatched
  <2>2. \/ state' = state
        \/ nn_conn_finalize /\ net'.pc = "loop"
    BY <1>0, <1>3 DEF nn_conn_read_handler, DecodeBusy, DecodeAgain, DecodeError, DecodeTask,
       Dispatched, conn, NetT
  <2> QED BY <2>1, <2>2, <1>e DEF GoneInv
<1>4. CASE PopAnswers \/ BatchDone
  <2>1. UNCHANGED <<state, outTask, ev>> /\ net'.pc \in End
    BY <1>0, <1>4 DEF PopAnswers, BatchDone, conn, outs, NetT
  <2> QED BY <2>1, <1>s
<1>5. CASE nn_conn_outtask
  <2>1. CASE state = "connected"
    <3>1. state' = state
      BY <1>5, <2>1 DEF nn_conn_outtask, conn
    <3> QED BY <2>1, <3>1 DEF GoneInv
  <2>2. CASE state # "connected"
    BY <1>5, <2>2 DEF nn_conn_outtask, GoneInv
  <2> QED BY <2>1, <2>2
<1>6. CASE Pack \/ SendAll \/ (\E k \in 0..OutCap : SendSome(k))
  <2>1. state = "connected" /\ state' = state
    BY <1>6 DEF GoneInv, Types, ConnT, Pack, SendAll, SendSome, conn
  <2> QED BY <2>1 DEF GoneInv
<1>7. CASE SendError
  <2>1. net.then \in {"loop", "batch"}
    BY <1>0, <1>7 DEF SendError, OutInv, NetT
  <2>2. nn_conn_finalize /\ net'.pc = net.then
    BY <1>0, <1>7, OutputTypes DEF SendError
  <2> QED BY <2>1, <2>2, <1>e
<1>8. CASE WriteTimeout
  BY <1>8, <1>e DEF WriteTimeout
<1>9. CASE nn_conn_timer_handler
  <2>1. CASE nn_conn_finalize /\ UNCHANGED net
    BY <1>9, <2>1, <1>e DEF nn_conn_timer_handler
  <2>2. CASE UNCHANGED <<conn, outTask>>
    <3>1. state = "connected" /\ state' = state
      BY <1>0, <1>9, <2>2 DEF nn_conn_timer_handler, GoneInv, conn
    <3> QED BY <3>1 DEF GoneInv
  <2> QED BY <1>9, <2>1, <2>2 DEF nn_conn_timer_handler
<1>10. CASE \E w \in Worker : WorkerStep(w)
  <2>1. UNCHANGED <<state, outTask, ev, net>>
    BY <1>10 DEF WorkerStep, Woken, pop_all, RunDone, do_task, notice_wake_up, conn, outs
  <2> QED BY <2>1 DEF GoneInv
<1> QED BY <1>1, <1>2, <1>3, <1>4, <1>5, <1>6, <1>7, <1>8, <1>9, <1>10 DEF Next, NetStep

----------------------------------------------------------------------------
(* Answers that wait. *)

LEMMA PostedTail ==
  ASSUME PostT, posted # <<>>, posted' = Tail(posted), Head(posted) # "write",
         "write" \in Range(posted)
  PROVE  "write" \in Range(posted')
<1>1. PICK i \in 1..Len(posted) : posted[i] = "write"
  BY RangePositions DEF PostT
<1>2. posted \in Seq({"read", "write", "notice"}) /\ i # 1
  BY <1>1 DEF PostT
<1>3. i - 1 \in 1..Len(Tail(posted)) /\ Tail(posted)[i - 1] = "write"
        /\ Tail(posted) \in Seq({"read", "write", "notice"})
  BY <1>1, <1>2
<1>4. Tail(posted)[i - 1] \in Range(Tail(posted))
  BY <1>3, RangePositions
<1> QED BY <1>3, <1>4

\* A write event that epoll reports is posted.
LEMMA PostedWrite ==
  ASSUME EvT, NEW e \in BOOLEAN, epoll_process_events(e), ev'.ready, ~ev.ready
  PROVE  "write" \in Range(posted')
<1> DEFINE E == {"read", "write", "notice"}
<1>1. ev.wr /\ e
  BY DEF EvT, epoll_process_events
<1>2. <<>> \in Seq(E) /\ <<"read">> \in Seq(E) /\ <<"write">> \in Seq(E) /\ <<"notice">> \in Seq(E)
  OBVIOUS
<1>3. "write" \in Range(<<"write">>)
  BY DEF Range
<1>4. PICK x \in Seq(E) : ConnEvents(e) = x \o <<"write">>
  BY <1>1, <1>2 DEF ConnEvents
<1>5. NoticeEvents \in Seq(E)
  BY <1>2 DEF NoticeEvents
<1> HIDE DEF E
<1>6. /\ Range(x \o <<"write">>) = Range(x) \cup Range(<<"write">>)
      /\ x \o <<"write">> \in Seq(E)
  BY <1>2, ConcatRange, ZenonT(40)
<1>7. "write" \in Range(ConnEvents(e)) /\ ConnEvents(e) \in Seq(E)
  BY <1>3, <1>4, <1>6
<1>8. /\ Range(ConnEvents(e) \o NoticeEvents) = Range(ConnEvents(e)) \cup Range(NoticeEvents)
      /\ Range(NoticeEvents \o ConnEvents(e)) = Range(NoticeEvents) \cup Range(ConnEvents(e))
  BY <1>5, <1>7, ConcatRange
<1>9. posted' \in {ConnEvents(e) \o NoticeEvents, NoticeEvents \o ConnEvents(e)}
  BY DEF epoll_process_events
<1> QED BY <1>7, <1>8, <1>9

\* Outside nn_conn_output, with the answers and what they wait for untouched.
LEMMA OutSame ==
  ASSUME OutInv, UNCHANGED <<state, out, outTask>>,
         net.pc \notin {"pack", "send"}, net'.pc \notin {"pack", "send"},
         ev'.wr = ev.wr, ev'.ready = ev.ready, ev'.rd = ev.rd, ev'.slow = ev.slow,
         "write" \in Range(posted) => "write" \in Range(posted')
  PROVE  OutInv'
BY DEF OutInv, Stuck

LEMMA OutEvents ==
  ASSUME Types, GoneInv, OutInv,
         \/ (\E e \in BOOLEAN : epoll_process_events(e)) \/ Skip \/ ReadEvent \/ NoticeEvent
         \/ WriteEvent \/ nn_conn_timer_handler
  PROVE  OutInv'
<1>0. NetT /\ EvT /\ PostT /\ (state = "connected" <=> state # "disconnected")
  BY DEF Types, ConnT
<1>1. CASE \E e \in BOOLEAN : epoll_process_events(e)
  <2>1. PICK e \in BOOLEAN : epoll_process_events(e)
    BY <1>1
  <2>2. /\ UNCHANGED <<state, out, outTask, net>> /\ ev'.rd = ev.rd /\ ev'.slow = ev.slow /\ ev'.wr = ev.wr
        /\ net.pc = "loop" /\ posted = <<>>
    BY <1>0, <2>1 DEF epoll_process_events, conn, outs, EvT
  <2>3. "write" \notin Range(posted)
    BY <2>2 DEF Range
  <2>4. ev'.ready /\ ~ev.ready => "write" \in Range(posted')
    BY <1>0, <2>1, PostedWrite
  <2> QED BY <2>2, <2>3, <2>4 DEF OutInv, Stuck
<1>2. CASE Skip
  <2>1. state = "disconnected" /\ state' = state /\ net' = net /\ net.pc = "loop"
    BY <1>2 DEF Skip, conn
  <2> QED BY <2>1 DEF OutInv
<1>3. CASE ReadEvent \/ NoticeEvent
  <2>1. /\ UNCHANGED <<state, out, outTask, ev>> /\ net.pc = "loop" /\ net'.pc \in {"recv", "pop"}
        /\ posted # <<>> /\ posted' = Tail(posted) /\ Head(posted) # "write"
    BY <1>0, <1>3 DEF ReadEvent, NoticeEvent, OnEvent, conn, outs, NetT
  <2> QED BY <1>0, <2>1, PostedTail, OutSame
<1>4. CASE WriteEvent
  <2>1. /\ UNCHANGED <<state, out, outTask>> /\ net.pc = "loop" /\ StartOutput("loop")
        /\ state = "connected" /\ ev' = [ev EXCEPT !.timer = FALSE]
    BY <1>4 DEF WriteEvent, OnEvent, conn, outs
  <2>2. ev'.rd = ev.rd /\ ev'.slow = ev.slow /\ ev'.wr = ev.wr /\ ev'.ready = ev.ready
    BY <1>0, <2>1 DEF EvT
  <2>3. net'.then = "loop" /\ net'.pc = IF ~ev'.ready /\ out # <<>> THEN "loop" ELSE "pack"
    BY <1>0, <2>1 DEF StartOutput, NetT
  <2> QED BY <2>1, <2>2, <2>3 DEF OutInv, Stuck
<1>5. CASE nn_conn_timer_handler
  <2>1. CASE nn_conn_finalize /\ UNCHANGED net
    <3>1. state' = "disconnected" /\ net'.pc = "loop"
      BY <1>5, <2>1, FinalizeEnds DEF nn_conn_timer_handler
    <3> QED BY <3>1 DEF OutInv
  <2>2. CASE ev' = [ev EXCEPT !.slow = FALSE, !.rd = TRUE, !.timer = FALSE] /\ StartOutput("recv")
             /\ UNCHANGED <<conn, outTask>>
    <3>1. /\ UNCHANGED <<state, out, outTask, posted>> /\ net.pc = "loop" /\ posted = <<>>
          /\ state = "connected"
      BY <1>0, <1>5, <2>2 DEF nn_conn_timer_handler, conn, GoneInv
    <3>2. ev'.rd = TRUE /\ ev'.slow = FALSE /\ ev'.wr = ev.wr /\ ev'.ready = ev.ready
      BY <1>0, <2>2 DEF EvT
    <3>3. net'.then = "recv" /\ net'.pc = IF ~ev'.ready /\ out # <<>> THEN "recv" ELSE "pack"
      BY <1>0, <2>2 DEF StartOutput, NetT
    <3>4. Stuck /\ (out # <<>> => ev.wr /\ ~ev.ready)
      <4>1. "write" \notin Range(posted)
        BY <3>1 DEF Range
      <4> QED BY <3>1, <4>1 DEF OutInv
    <3>5. Stuck'
      BY <3>1, <3>4 DEF Stuck
    <3>6. ev'.rd # ev'.slow
      BY <3>2, Zenon
    <3> QED BY <3>1, <3>2, <3>3, <3>4, <3>5, <3>6 DEF OutInv
  <2> QED BY <1>5, <2>1, <2>2 DEF nn_conn_timer_handler
<1> QED BY <1>1, <1>2, <1>3, <1>4, <1>5

LEMMA OutReading ==
  ASSUME Types, OutInv,
         nn_conn_read_handler \/ DecodeBusy \/ DecodeAgain \/ DecodeError \/ DecodeTask \/ Dispatched
  PROVE  OutInv'
<1>0. NetT /\ EvT
  BY DEF Types
<1>1. CASE nn_conn_finalize /\ net'.pc = "loop"
  <2>1. state' = "disconnected"
    BY <1>1, FinalizeEnds
  <2> QED BY <1>1, <2>1 DEF OutInv
<1>2. CASE UNCHANGED <<state, out, outTask, ev, posted>> /\ net.pc \notin {"pack", "send"}
           /\ net'.pc \notin {"pack", "send"}
  BY <1>2, OutSame
<1>3. CASE DecodeBusy
  <2>1. /\ UNCHANGED <<state, out, outTask, posted>> /\ net.pc = "decode" /\ net'.pc = "loop"
        /\ ev'.wr = ev.wr /\ ev'.ready = ev.ready /\ ev'.rd = FALSE /\ ev'.slow = TRUE
    BY <1>0, <1>3 DEF DecodeBusy, conn, outs, EvT, NetT
  <2>2. ev'.rd # ev'.slow
    BY <2>1, Zenon
  <2> QED BY <2>1, <2>2 DEF OutInv, Stuck
<1>4. CASE nn_conn_read_handler
  <2>1. \/ nn_conn_finalize /\ net'.pc = "loop"
        \/ UNCHANGED <<state, out, outTask, ev, posted>> /\ net.pc = "recv" /\ net'.pc \in {"loop", "decode"}
    BY <1>0, <1>4 DEF nn_conn_read_handler, conn, outs, NetT
  <2> QED BY <2>1, <1>1, <1>2
<1>5. CASE DecodeAgain \/ DecodeError \/ DecodeTask \/ Dispatched
  <2>1. \/ nn_conn_finalize /\ net'.pc = "loop"
        \/ UNCHANGED <<state, out, outTask, ev, posted>> /\ net.pc \in {"decode", "dispatched"}
           /\ net'.pc \in {"loop", "decode", "dispatched"}
    BY <1>0, <1>5 DEF DecodeAgain, DecodeError, DecodeTask, Dispatched, conn, outs, NetT
  <2> QED BY <2>1, <1>1, <1>2
<1> QED BY <1>3, <1>4, <1>5

LEMMA OutAnswers ==
  ASSUME Types, OutInv, PopAnswers \/ BatchDone \/ nn_conn_outtask
  PROVE  OutInv'
<1>0. NetT /\ EvT
  BY DEF Types
<1>1. CASE PopAnswers \/ BatchDone
  <2>1. UNCHANGED <<state, out, outTask, ev, posted>> /\ net.pc \in {"pop", "batch"}
        /\ net'.pc \in {"loop", "pop", "batch"}
    BY <1>0, <1>1 DEF PopAnswers, BatchDone, conn, outs, NetT
  <2> QED BY <2>1, OutSame
<1>2. CASE nn_conn_outtask /\ state # "connected"
  <2>1. state' = state /\ net' = net /\ net.pc = "batch"
    BY <1>2 DEF nn_conn_outtask
  <2> QED BY <1>2, <2>1 DEF OutInv
<1>3. CASE nn_conn_outtask /\ state = "connected"
  <2>1. UNCHANGED <<state, out, ev, posted>> /\ StartOutput("batch") /\ net.pc = "batch"
    BY <1>3 DEF nn_conn_outtask, conn
  <2>2. net'.then = "batch" /\ net'.pc = IF ~ev.ready /\ out # <<>> THEN "batch" ELSE "pack"
    BY <1>0, <2>1 DEF StartOutput, NetT
  <2> QED BY <1>3, <2>1, <2>2 DEF OutInv, Stuck
<1> QED BY <1>1, <1>2, <1>3

LEMMA OutSending ==
  ASSUME Types, GoneInv, OutInv,
         Pack \/ SendAll \/ (\E k \in 0..OutCap : SendSome(k)) \/ SendError
  PROVE  OutInv'
<1>0. NetT /\ EvT /\ OutsT /\ OutCap \in Nat \ {0}
  BY NnConnAssumption DEF Types
<1>1. CASE Pack
  <2>1. /\ net.pc = "pack" /\ out' = out \o SubSeq(outTask, 1, Fits)
        /\ outTask' = SubSeq(outTask, Fits + 1, Len(outTask)) /\ UNCHANGED <<state, posted>>
    BY <1>1 DEF Pack
  <2>2. state = "connected"
    BY <2>1 DEF GoneInv, Types, ConnT
  <2>3. PICK k \in 0..Len(outTask) :
          /\ k = Fits /\ \A j \in 1..k : outTask[j] \notin Big
          /\ k = Len(outTask) \/ Len(out) + k = OutCap \/ outTask[k + 1] \in Big
    BY <1>0, FitsProperties
  <2>4. outTask \in Seq(Request) /\ out \in Seq(Request)
    BY <1>0 DEF OutsT
  <2>5. Len(out') = Len(out) + k
    BY <2>1, <2>3, <2>4
  \* an answer that is left over, with an empty buffer, does not fit
  <2>6. out' = <<>> => out = <<>> /\ k = 0 /\ outTask' = outTask /\ Stuck
    <3> SUFFICES ASSUME out' = <<>> PROVE out = <<>> /\ k = 0 /\ outTask' = outTask /\ Stuck
      OBVIOUS
    <3>1. Len(out) = 0 /\ k = 0
      BY <2>3, <2>4, <2>5
    <3>2. out = <<>>
      BY <2>4, <3>1
    <3>3. outTask' = outTask
      BY <2>1, <2>3, <2>4, <3>1
    <3>4. outTask # <<>> => Head(outTask) \in Big
      BY <1>0, <2>3, <2>4, <3>1
    <3> QED BY <3>1, <3>2, <3>3, <3>4 DEF Stuck
  <2>7. ASSUME net.then = "recv" PROVE out' = <<>>
    <3>1. out = <<>> /\ Stuck
      BY <2>1, <2>7 DEF OutInv
    <3>2. k = 0
      <4>1. CASE outTask = <<>>
        BY <2>3, <2>4, <4>1
      <4>2. CASE outTask # <<>>
        <5>1. outTask[1] \in Big
          BY <2>4, <3>1, <4>2 DEF Stuck
        <5> QED BY <2>3, <2>4, <5>1
      <4> QED BY <4>1, <4>2
    <3> QED BY <2>1, <2>3, <2>4, <3>1, <3>2
  <2>8. CASE out' = <<>> /\ Return /\ UNCHANGED ev
    <3>1. net'.pc \in {"loop", "batch", "recv"} /\ Stuck'
      BY <1>0, <2>6, <2>8, OutputTypes DEF NetT, Stuck
    <3> QED BY <2>1, <2>2, <2>8, <3>1 DEF OutInv
  <2>9. CASE out' # <<>> /\ AwaitWritable /\ Return
    <3>1. net'.pc \in {"loop", "batch", "recv"} /\ Stuck'
      BY <1>0, <2>9, OutputTypes DEF NetT, Stuck
    <3>2. ev'.ready = FALSE /\ ev'.wr = TRUE /\ ev'.rd = ev.rd /\ ev'.slow = ev.slow
      BY <1>0, <2>9, AwaitTypes
    <3> QED BY <2>1, <2>2, <3>1, <3>2 DEF OutInv
  <2>10. CASE out' # <<>> /\ net' = [net EXCEPT !.pc = "send"] /\ UNCHANGED ev
    <3>1. net'.pc = "send" /\ net'.then = net.then
      BY <1>0, <2>10 DEF NetT
    <3> QED BY <2>1, <2>2, <2>7, <2>10, <3>1 DEF OutInv
  <2> QED BY <1>1, <2>8, <2>9, <2>10 DEF Pack
<1>2. CASE SendAll
  <2>1. /\ net.pc = "send" /\ UNCHANGED <<state, ev>> /\ net'.pc = "pack" /\ net'.then = net.then
    BY <1>0, <1>2 DEF SendAll, conn, NetT
  <2> QED BY <2>1 DEF OutInv
<1>3. CASE \E k \in 0..OutCap : SendSome(k)
  <2>1. PICK k \in 0..OutCap : SendSome(k)
    BY <1>3
  <2>2. /\ net.pc = "send" /\ k < Len(out) /\ out' = SubSeq(out, k + 1, Len(out)) /\ state' = state
        /\ AwaitWritable /\ Return
    BY <2>1 DEF SendSome, conn
  <2>3. out' # <<>>
    <3>1. out \in Seq(Request) /\ Len(out) \in Nat
      BY <1>0 DEF OutsT
    <3>2. Len(SubSeq(out, k + 1, Len(out))) = Len(out) - k
      BY <2>2, <3>1
    <3>3. Len(out) - k # 0 /\ Len(<<>>) = 0
      BY <1>0, <2>2, <3>1
    <3> QED BY <2>2, <3>2, <3>3
  <2>4. net'.pc \in {"loop", "batch", "recv"}
    BY <1>0, <2>2, OutputTypes DEF NetT
  <2>5. ev'.ready = FALSE /\ ev'.wr = TRUE /\ ev'.rd = ev.rd /\ ev'.slow = ev.slow
    BY <1>0, <2>2, AwaitTypes
  <2> QED BY <2>2, <2>3, <2>4, <2>5 DEF OutInv, Stuck
<1>4. CASE SendError
  <2>1. state' = "disconnected" /\ net'.pc = net.then
    BY <1>0, <1>4, FinalizeEnds, OutputTypes DEF SendError
  <2> QED BY <1>0, <2>1 DEF OutInv, NetT
<1> QED BY <1>1, <1>2, <1>3, <1>4

LEMMA OutStep ==
  ASSUME Types, GoneInv, OutInv, [Next]_vars
  PROVE  OutInv'
<1>1. CASE \/ (\E r \in Request : PeerSend(r)) \/ PeerClose \/ UNCHANGED vars
           \/ (\E w \in Worker : WorkerStep(w)) \/ (\E t \in TaskThread : OtherWakes(t))
  <2>1. UNCHANGED <<state, out, outTask, ev, posted, net>>
    BY <1>1 DEF PeerSend, OtherWakes, PeerClose, vars, WorkerStep, Woken, pop_all, RunDone, do_task,
       notice_wake_up, conn, outs
  <2> QED BY <2>1 DEF OutInv, Stuck
<1>2. CASE WriteTimeout
  <2>1. state' = "disconnected" /\ net'.pc = "loop"
    BY <1>2, FinalizeEnds DEF WriteTimeout
  <2> QED BY <2>1 DEF OutInv
<1>3. CASE (\E e \in BOOLEAN : epoll_process_events(e)) \/ NetStep \/ nn_conn_timer_handler
  BY <1>3, OutEvents, OutReading, OutAnswers, OutSending DEF NetStep
<1> QED BY <1>1, <1>2, <1>3 DEF Next

----------------------------------------------------------------------------
(* Wakeups. *)

LEMMA WakeupsInit == Init => NoLostWakeup
BY DEF Init, NoLostWakeup

\* The network thread: it may leave net_response_handler only after the last queue.
LEMMA WakeupsNet ==
  ASSUME Types, NoLostWakeup, \/ (\E e \in BOOLEAN : epoll_process_events(e))
                              \/ NetStep \/ WriteTimeout \/ nn_conn_timer_handler
  PROVE  NoLostWakeup'
<1>0. NetT /\ WorkT /\ QueT /\ "net" \in Thread /\ "net" \notin Worker /\ Worker \subseteq Thread
      /\ QueueSize \in Nat
  BY NnConnAssumption DEF Types, Thread
\* nothing but the position of the network thread changes
<1>n. ASSUME UNCHANGED work, net.pc # "dispatched",
             Answering => Answering' /\ net'.i = net.i
      PROVE  NoLostWakeup'
  BY <1>n DEF NoLostWakeup, Untold, work
<1>1. CASE (\E e \in BOOLEAN : epoll_process_events(e)) \/ Skip \/ WriteTimeout
  <2>1. UNCHANGED <<tq, bque, wpc, wake, astray, net>>
    BY <1>1 DEF epoll_process_events, Skip, WriteTimeout, work
  <2> QED BY <2>1 DEF NoLostWakeup, Untold, Answering
<1>2. CASE ReadEvent \/ WriteEvent \/ nn_conn_timer_handler
  <2>1. UNCHANGED work /\ net.pc = "loop"
    BY <1>2 DEF ReadEvent, WriteEvent, OnEvent, nn_conn_timer_handler
  <2> QED BY <2>1, <1>n DEF Answering
<1>3. CASE NoticeEvent
  <2>1. /\ UNCHANGED <<tq, bque, wpc, astray>> /\ net.pc = "loop" /\ net'.pc = "pop" /\ net'.i = 0
        /\ wake' = [wake EXCEPT !["net"] = FALSE]
    BY <1>0, <1>3 DEF NoticeEvent, OnEvent, NetT
  <2>2. \A w \in Worker : wake'[w] = wake[w]
    BY <1>0, <2>1 DEF WorkT
  <2>3. \A i \in 0..QueueSize - 1 : Answering' /\ net'.i <= i
    BY <1>0, <2>1 DEF Answering
  <2>4. \A w \in astray : w \in Worker
    BY <1>0 DEF WorkT, Worker
  <2> QED BY <2>1, <2>2, <2>3, <2>4 DEF NoLostWakeup, Untold
<1>4. CASE nn_conn_read_handler \/ DecodeBusy \/ DecodeAgain \/ DecodeError
  <2>1. UNCHANGED work /\ net.pc \in {"recv", "decode"}
    BY <1>4 DEF nn_conn_read_handler, DecodeBusy, DecodeAgain, DecodeError
  <2> QED BY <2>1, <1>n DEF Answering
<1>5. CASE DecodeTask
  <2>1. PICK w \in TaskThread : /\ tq' = [tq EXCEPT ![w] = push_task(@, Head(inb))]
                                /\ net' = [net EXCEPT !.pc = "dispatched", !.to = w]
    BY <1>5 DEF DecodeTask
  <2>2. /\ net.pc = "decode" /\ net'.pc = "dispatched" /\ net'.to = w
        /\ UNCHANGED <<bque, wpc, wake, astray>>
    BY <1>0, <1>5, <2>1 DEF DecodeTask, NetT
  <2>3. \A v \in Worker : v # w => tq'[v] = tq[v]
    BY <1>0, <2>1 DEF QueT
  <2>4. tq'[w] # <<>>
    <3>1. Head(inb) \in Request /\ tq[w] \in Seq(Request)
      BY <1>0, <1>5 DEF DecodeTask, Types, PeerT, QueT, Worker
    <3>2. tq'[w] = <<Head(inb)>> \o tq[w]
      BY <1>0, <2>1 DEF QueT, Worker, push_task
    <3> QED BY <3>1, <3>2
  <2>5. \A v \in astray : v \in Worker
    BY <1>0 DEF WorkT, Worker
  <2>6. \A v \in astray' : Untold(v)'
    BY <2>2, <2>3, <2>4, <2>5 DEF NoLostWakeup, Untold
  <2>7. \A v \in Worker : tq'[v] # <<>> =>
          \/ wake'[v] \/ wpc'[v] = "pop"
          \/ net'.pc = "dispatched" /\ net'.to = v
          \/ v = Paxos /\ \E u \in Worker : wpc'[u] = "toPaxos"
          \/ v \in astray'
    BY <2>2, <2>3 DEF NoLostWakeup
  <2> QED BY <2>2, <2>6, <2>7 DEF NoLostWakeup, Answering
<1>6. CASE Dispatched
  <2>1. PICK v \in TaskThread \cup {Elsewhere} :
          /\ wake' = [wake EXCEPT ![v] = TRUE]
          /\ astray' = (astray \cup {w \in {net.to} : Untold(w)}) \ {v}
    BY <1>6 DEF Dispatched
  <2>2. /\ UNCHANGED <<tq, bque, wpc>> /\ net.pc = "dispatched" /\ net'.pc = "decode"
        /\ net.to \in TaskThread /\ net.to \in Worker
    BY <1>0, <1>6 DEF Dispatched, NetT
  <2>3. \A t \in Thread : (t = v => wake'[t] = TRUE) /\ (t # v => wake'[t] = wake[t])
    BY <1>0, <2>1 DEF WorkT
  <2>4. \A w \in astray \cup {net.to} : w \in Worker
    BY <1>0, <2>2 DEF WorkT, Worker
  <2>5. \A w \in astray' : Untold(w)'
    BY <1>0, <2>1, <2>2, <2>3, <2>4 DEF NoLostWakeup, Untold
  <2>6. \A w \in Worker : tq'[w] # <<>> =>
          \/ wake'[w] \/ wpc'[w] = "pop"
          \/ w = Paxos /\ \E u \in Worker : wpc'[u] = "toPaxos"
          \/ w \in astray'
    BY <1>0, <2>1, <2>2, <2>3 DEF NoLostWakeup, Untold
  <2>7. wake["net"] => wake'["net"]
    BY <1>0, <2>3
  <2> QED BY <2>2, <2>5, <2>6, <2>7 DEF NoLostWakeup, Answering
<1>7. CASE PopAnswers
  <2>1. net.pc = "pop" /\ UNCHANGED <<tq, wpc, wake, astray>> /\ net.i \in 0..QueueSize
    BY <1>0, <1>7 DEF PopAnswers, NetT
  <2>2. CASE net.i = QueueSize
    <3>1. bque' = bque /\ \A i \in 0..QueueSize - 1 : ~ (net.i <= i)
      BY <1>0, <1>7, <2>2 DEF PopAnswers
    <3> QED BY <2>1, <3>1 DEF NoLostWakeup, Untold
  <2>3. CASE net.i # QueueSize
    <3>1. /\ net'.pc = "batch" /\ net'.i = net.i + 1 /\ bque' = [bque EXCEPT ![net.i] = <<>>]
      BY <1>0, <1>7, <2>3 DEF PopAnswers, NetT
    <3>2. bque'[net.i] = <<>> /\ \A i \in 0..QueueSize - 1 : i # net.i => bque'[i] = bque[i]
      BY <1>0, <2>1, <2>3, <3>1 DEF QueT
    <3>3. \A i \in 0..QueueSize - 1 : net.i <= i /\ i # net.i => net'.i <= i
      BY <1>0, <2>1, <3>1
    <3> QED BY <2>1, <3>1, <3>2, <3>3 DEF NoLostWakeup, Untold, Answering
  <2> QED BY <2>2, <2>3
<1>8. CASE BatchDone
  <2>1. UNCHANGED work /\ net.pc = "batch" /\ net'.pc = "pop" /\ net'.i = net.i
    BY <1>0, <1>8 DEF BatchDone, NetT
  <2> QED BY <2>1, <1>n DEF Answering
<1>9. CASE nn_conn_outtask
  <2>1. UNCHANGED work /\ net.pc = "batch"
    BY <1>9 DEF nn_conn_outtask
  <2>2. CASE StartOutput("batch")
    <3>1. Answering' /\ net'.i = net.i
      BY <1>0, <2>2, OutputTypes DEF Answering
    <3> QED BY <2>1, <3>1, <1>n
  <2>3. CASE UNCHANGED net
    BY <2>1, <2>3, <1>n DEF Answering
  <2> QED BY <1>9, <2>2, <2>3 DEF nn_conn_outtask
<1>10. CASE Pack \/ SendAll \/ (\E k \in 0..OutCap : SendSome(k)) \/ SendError
  <2>1. /\ net.pc \in {"pack", "send"} /\ UNCHANGED work /\ net'.i = net.i
        /\ \/ net'.pc = net.then
           \/ net'.pc \in {"pack", "send"} /\ net'.then = net.then
    BY <1>0, <1>10, OutputTypes DEF Pack, SendAll, SendSome, SendError, NetT
  <2> QED BY <2>1, <1>n DEF Answering
<1> QED BY <1>1, <1>2, <1>3, <1>4, <1>5, <1>6, <1>7, <1>8, <1>9, <1>10 DEF NetStep

\* A worker: the pipe is drained before the queue is taken, and a push is followed by a byte.
LEMMA WakeupsWorker ==
  ASSUME Types, NoLostWakeup, NEW w \in Worker, WorkerStep(w)
  PROVE  NoLostWakeup'
<1>0. WorkT /\ QueT /\ w \in Thread /\ w # "net" /\ "net" \in Thread /\ Worker \subseteq Thread
      /\ Paxos \in Worker /\ Paxos # "net"
  BY NnConnAssumption DEF Types, Thread, Worker
<1>n. net' = net /\ astray' = astray /\ \A v \in astray : v \in Worker /\ v # Paxos
  BY <1>0, NnConnAssumption DEF WorkT, Worker, WorkerStep, Woken, pop_all, RunDone, do_task, notice_wake_up
<1>1. CASE Woken(w)
  <2>1. /\ UNCHANGED <<tq, bque>> /\ wpc[w] = "idle" /\ wpc'[w] = "pop"
        /\ wake'["net"] = wake["net"] /\ wake[w]
        /\ \A v \in Worker : v # w => wake'[v] = wake[v] /\ wpc'[v] = wpc[v]
    BY <1>0, <1>1 DEF Woken, WorkT
  <2> QED BY <1>n, <2>1 DEF NoLostWakeup, Untold, Answering
<1>2. CASE pop_all(w)
  <2>1. /\ UNCHANGED <<bque, wake>> /\ wpc[w] = "pop" /\ tq'[w] = <<>>
        /\ \A v \in Worker : v # w => tq'[v] = tq[v] /\ wpc'[v] = wpc[v]
    BY <1>0, <1>2 DEF pop_all, WorkT, QueT
  <2> QED BY <1>n, <2>1 DEF NoLostWakeup, Untold, Answering
<1>3. CASE RunDone(w)
  <2>1. /\ UNCHANGED <<tq, bque, wake>> /\ wpc[w] = "run"
        /\ wpc'[w] = "idle" /\ \A v \in Worker : v # w => wpc'[v] = wpc[v]
    BY <1>0, <1>3 DEF RunDone, WorkT
  <2> QED BY <1>n, <2>1 DEF NoLostWakeup, Untold, Answering
<1>4. CASE notice_wake_up(w)
  <2>3. \A v \in Worker : v # Paxos => wake'[v] = wake[v]
    <3>1. PICK t \in {"net", Paxos} : wake' = [wake EXCEPT ![t] = TRUE]
      BY <1>4 DEF notice_wake_up
    <3>2. "net" \notin Worker
      BY NnConnAssumption
    <3> QED BY <1>0, <3>1, <3>2 DEF WorkT
  <2>1. /\ UNCHANGED <<tq, bque>> /\ wpc[w] \in {"toPaxos", "toNet"}
        /\ \A t \in Thread : wake[t] => wake'[t]
        /\ wpc[w] = "toNet" => wake'["net"] /\ wpc[w] # "toPaxos"
        /\ wpc[w] = "toPaxos" => wake'[Paxos] /\ wpc[w] # "toNet"
        /\ \A v \in Worker : v # w => wpc'[v] = wpc[v]
    BY <1>0, <1>4 DEF notice_wake_up, WorkT
  <2>2. wpc[w] # "pop" /\ wpc'[w] # "pop"
    BY <1>0, <1>4 DEF notice_wake_up, WorkT
  <2> QED BY <1>0, <1>n, <2>1, <2>2, <2>3 DEF NoLostWakeup, Untold, Answering
<1>5. CASE do_task(w)
  <2>1. PICK r : PassToPaxos(w, r) \/ Drop(w, r) \/ write_back(w, r)
    BY <1>5 DEF do_task
  <2>2. wake' = wake /\ wpc[w] = "run"
    BY <1>5 DEF do_task
  <2>3. CASE PassToPaxos(w, r)
    <3>1. /\ bque' = bque /\ wpc'[w] = "toPaxos"
          /\ \A v \in Worker : (v # Paxos => tq'[v] = tq[v]) /\ (v # w => wpc'[v] = wpc[v])
      BY <1>0, <2>3 DEF PassToPaxos, WorkT, QueT
    <3> QED BY <1>0, <1>n, <2>2, <3>1 DEF NoLostWakeup, Untold, Answering
  <2>4. CASE Drop(w, r)
    <3>1. UNCHANGED <<tq, bque, wpc>>
      BY <2>4 DEF Drop
    <3> QED BY <1>n, <2>2, <3>1 DEF NoLostWakeup, Untold, Answering
  <2>5. CASE write_back(w, r)
    <3>1. /\ tq' = tq /\ wpc'[w] = "toNet" /\ \A v \in Worker : v # w => wpc'[v] = wpc[v]
      BY <1>0, <2>5 DEF write_back, WorkT
    <3> QED BY <1>n, <2>2, <3>1 DEF NoLostWakeup, Untold, Answering
  <2> QED BY <2>1, <2>3, <2>4, <2>5
<1> QED BY <1>1, <1>2, <1>3, <1>4, <1>5 DEF WorkerStep

LEMMA WakeupsStep ==
  ASSUME Types, NoLostWakeup, [Next]_vars
  PROVE  NoLostWakeup'
<1>1. CASE (\E r \in Request : PeerSend(r)) \/ PeerClose \/ UNCHANGED vars
  <2>1. UNCHANGED <<tq, bque, wpc, wake, astray, net>>
    BY <1>1 DEF PeerSend, PeerClose, vars, work
  <2> QED BY <2>1 DEF NoLostWakeup, Untold, Answering
<1>2. CASE \E w \in Worker : WorkerStep(w)
  BY <1>2, WakeupsWorker
<1>3. ASSUME NEW t \in TaskThread, OtherWakes(t) PROVE NoLostWakeup'
  <2>1. /\ UNCHANGED <<tq, bque, wpc, net>> /\ astray' = astray \ {t}
        /\ WorkT /\ Worker \subseteq Thread /\ t \in Thread /\ "net" \in Thread /\ t # "net"
    BY <1>3, NnConnAssumption DEF OtherWakes, Types, Thread, Worker
  <2>2. wake'[t] = TRUE /\ \A u \in Thread : u # t => wake'[u] = wake[u]
    BY <1>3, <2>1 DEF OtherWakes, WorkT
  <2>3. \A w \in astray : w \in Thread
    BY <2>1 DEF WorkT, Worker
  <2> QED BY <2>1, <2>2, <2>3 DEF NoLostWakeup, Untold, Answering
<1> QED BY <1>1, <1>2, <1>3, WakeupsNet DEF Next

----------------------------------------------------------------------------
(* The nodes in use, counted by place and position, are those of Held. *)

LEMMA UseCount ==
  ASSUME Types, OnceInv, CountInv
  PROVE  /\ Waiting = Held
         /\ IsFiniteSet(InUse) /\ Cardinality(InUse) = Cardinality(Held)
         /\ InUse = {} <=> Held = {}
<1>1. ASSUME NEW p \in Place
      PROVE  /\ At(p) \in Seq(Request) /\ IsInjective(At(p)) /\ Range(At(p)) \subseteq Held
             /\ DOMAIN At(p) = 1..Len(At(p)) /\ Len(At(p)) \in Nat /\ Len(At(p)) <= MaxTask
  <2>1. At(p) \in Seq(Request) /\ IsInjective(At(p))
    BY LineType, LineForms, PlaceForms DEF OnceInv
  <2>2. Range(At(p)) \subseteq Held
    BY <2>1, RangePositions DEF Held
  <2>3. Cardinality(Range(At(p))) = Len(At(p)) /\ Cardinality(Range(At(p))) <= Cardinality(Held)
    BY <2>1, <2>2, InjectiveLength, FS_Subset DEF CountInv
  <2>4. /\ Cardinality(Held) \in Nat /\ Cardinality(leaked) \in Nat /\ MaxTask \in Nat
        /\ Len(At(p)) \in Nat /\ DOMAIN At(p) = 1..Len(At(p))
    BY <2>1, FS_CardinalityType, NnConnAssumption DEF CountInv
  <2>5. Cardinality(Held) <= MaxTask
    BY <2>4 DEF CountInv
  <2> QED BY <2>1, <2>2, <2>3, <2>4, <2>5
<1>2. ASSUME NEW p \in Place, NEW q \in Place, p # q
      PROVE  Range(At(p)) \cap Range(At(q)) = {}
  BY <1>2, LineForms, PlaceForms DEF OnceInv
<1> DEFINE f == [u \in InUse |-> At(u[1])[u[2]]]
<1>3. ASSUME NEW u \in InUse
      PROVE  /\ u[1] \in Place /\ u[2] \in 1..Len(At(u[1])) /\ u = <<u[1], u[2]>>
             /\ f[u] \in Range(At(u[1])) /\ f[u] \in Held
  <2>1. u[1] \in Place /\ u[2] \in DOMAIN At(u[1]) /\ u = <<u[1], u[2]>>
    BY DEF InUse
  <2>2. f[u] = At(u[1])[u[2]]
    OBVIOUS
  <2> HIDE DEF f
  <2> QED BY <1>1, <2>1, <2>2, RangePositions
<1>4. ASSUME NEW r \in Held
      PROVE  \E u \in InUse : f[u] = r
  <2>1. PICK p \in Place : r \in Range(At(p))
    BY DEF Held
  <2>2. PICK i \in 1..Len(At(p)) : r = At(p)[i]
    BY <1>1, <2>1, RangePositions
  <2>3. i \in 1..MaxTask /\ i \in DOMAIN At(p)
    BY <1>1, <2>2, NnConnAssumption
  <2>4. <<p, i>> \in InUse
    BY <2>3 DEF InUse
  <2> QED BY <2>2, <2>4
<1>5. ASSUME NEW u \in InUse, NEW v \in InUse, f[u] = f[v]
      PROVE  u = v
  <2>0. f[u] = At(u[1])[u[2]] /\ f[v] = At(v[1])[v[2]]
    OBVIOUS
  <2> HIDE DEF f
  <2>1. u[1] = v[1]
    BY <1>2, <1>3, <1>5
  <2>2. u[2] = v[2]
    <3> DEFINE q == At(u[1])
    <3>1. /\ IsInjective(q) /\ u[2] \in DOMAIN q /\ v[2] \in DOMAIN q
          /\ q[u[2]] = q[v[2]]
      BY <1>1, <1>3, <1>5, <2>0, <2>1
    <3> HIDE DEF q
    <3> QED BY <3>1 DEF IsInjective
  <2> QED BY <1>3, <2>1, <2>2
<1>6. Waiting = Held
  <2>1. Waiting = {f[u] : u \in InUse}
    BY DEF Waiting
  <2> HIDE DEF f
  <2> QED BY <2>1, <1>3, <1>4
<1>7. f \in Bijection(InUse, Held)
  <2>1. f \in [InUse -> Held]
    BY <1>3
  <2> HIDE DEF f
  <2>2. f \in Injection(InUse, Held)
    BY <2>1, <1>5 DEF Injection, IsInjective
  <2>3. f \in Surjection(InUse, Held)
    BY <2>1, <1>4 DEF Surjection
  <2> QED BY <2>2, <2>3 DEF Bijection
<1>8. ExistsBijection(Held, InUse)
  <2>1. ExistsBijection(InUse, Held)
    BY <1>7 DEF ExistsBijection
  <2> QED BY <2>1, Fun_ExistsBijSymmetric
<1>9. IsFiniteSet(InUse) /\ Cardinality(InUse) = Cardinality(Held)
  BY <1>8, FS_Bijection DEF CountInv
<1>10. InUse = {} <=> Held = {}
  <2> HIDE DEF f
  <2> QED BY <1>3, <1>4
<1> QED BY <1>6, <1>9, <1>10

----------------------------------------------------------------------------
(* The invariant of the connection, and what follows from it. *)

ConnInv == /\ Types /\ OnceInv /\ CountInv /\ GoneInv /\ DestroyInv /\ OutInv /\ BatchInv
           /\ NoLostWakeup

LEMMA ConnInit == Init => ConnInv
<1> SUFFICES ASSUME Init PROVE ConnInv
  OBVIOUS
<1>1. Types
  BY TypesInit
<1>2. Range(<<>>) = {} /\ IsInjective(<<>>)
  BY DEF Range, IsInjective
<1>3. \A p \in Spot : Line(p) = <<>>
  <2>1. ASSUME NEW p \in Place PROVE Line(p) = <<>>
    <3>1. /\ \A w \in Worker : tq[w] = <<>>
          /\ \A t \in Thread : batch[t] = <<>>
          /\ \A i \in 0..QueueSize - 1 : bque[i] = <<>>
          /\ outTask = <<>>
      BY DEF Init
    <3> QED BY <3>1, PlaceForms, LineForms
  <2>2. \A p \in Spot \ Place : Line(p) = <<>>
    BY PlaceForms, LineForms DEF Init
  <2> QED BY <2>1, <2>2
<1>4. OnceInv
  BY <1>2, <1>3 DEF OnceInv, Init
<1>5. Held = {}
  BY <1>2, <1>3, PlaceForms, LineForms DEF Held
<1>6. CountInv
  <2>1. leaked = {} /\ count = 0 /\ free = MaxTask /\ MaxTask \in Nat
    BY NnConnAssumption DEF Init
  <2> QED BY <1>5, <2>1, FS_EmptySet DEF CountInv
<1>7. GoneInv /\ BatchInv
  BY DEF Init, GoneInv, BatchInv, Thread
<1>8. DestroyInv
  BY DEF Init, DestroyInv
<1>9. OutInv
  <2>1. ev.rd = TRUE /\ ev.slow = FALSE
    BY DEF Init
  <2>2. ev.rd # ev.slow
    BY <2>1, Zenon
  <2> QED BY <2>2 DEF Init, OutInv, Stuck
<1> QED BY <1>1, <1>4, <1>6, <1>7, <1>8, <1>9, WakeupsInit DEF ConnInv

LEMMA ConnStep == ConnInv /\ [Next]_vars => ConnInv'
BY TypesStep, AccountStep, GoneStep, DestroyStep, OutStep, BatchStep, WakeupsStep DEF ConnInv

LEMMA ConnAlways == Spec => []ConnInv
BY ConnInit, ConnStep, PTL DEF Spec

\* count is the number of task nodes that are not free, whichever way the nodes
\* took through the task queues, the answer queues and out_task, for any number of
\* threads, queues, requests and any buffer sizes (nn_conn_get_task,
\* nn_conn_free_task, nn_conn_outtask, nn_conn_finalize).
THEOREM CountRight == Spec => []NodesAccounted
<1>1. ConnInv => NodesAccounted
  <2> SUFFICES ASSUME ConnInv PROVE NodesAccounted
    OBVIOUS
  <2>0. Types /\ OnceInv /\ CountInv
    BY DEF ConnInv
  <2>1. count \in Nat /\ free \in Nat /\ count + free = MaxTask
    BY <2>0, FS_CardinalityType DEF CountInv
  <2>2. TypeOK
    BY <2>0, <2>1 DEF TypeOK, Types, PeerT, ConnT, OutsT, EvT, PostT, NetT, BatchT, QueT, WorkT
  <2>3. count = Cardinality(InUse) + Cardinality(leaked)
    BY <2>0, UseCount DEF CountInv
  <2> QED BY <2>1, <2>2, <2>3 DEF NodesAccounted
<1> QED BY <1>1, ConnAlways, PTL

\* The pool of a connection is destroyed when it is closed and its last node has come
\* back, neither earlier nor later, and no handler that needs the connection is under way
\* then (nn_conn_finalize, nn_conn_outtask, nn_conn_timer_handler).
THEOREM PoolLast == Spec => []PoolDestroyedLast
<1>1. ConnInv => PoolDestroyedLast
  <2> SUFFICES ASSUME ConnInv PROVE PoolDestroyedLast
    OBVIOUS
  <2>0. Types /\ OnceInv /\ CountInv /\ GoneInv /\ DestroyInv
    BY DEF ConnInv
  <2>1. Cardinality(Held) \in Nat /\ Cardinality(leaked) \in Nat
    BY <2>0, FS_CardinalityType DEF CountInv
  <2>2. (Cardinality(Held) = 0 <=> Held = {}) /\ (Cardinality(leaked) = 0 <=> leaked = {})
    BY <2>0, FS_EmptySet DEF CountInv
  <2>3. count = 0 <=> Held = {} /\ leaked = {}
    BY <2>0, <2>1, <2>2 DEF CountInv
  <2>4. InUse = {} <=> Held = {}
    BY <2>0, UseCount
  <2> QED BY <2>0, <2>3, <2>4 DEF PoolDestroyedLast, DestroyInv, GoneInv
<1> QED BY <1>1, ConnAlways, PTL

\* No request has two nodes and none is answered twice, nor while its node is still in
\* use (nn_conn_decode, nn_conn_outtask, nn_conn_output, nn_conn_out_buffer).
THEOREM AnsweredOnce == Spec => []OneAnswer
<1>1. ConnInv => OneAnswer
  <2> SUFFICES ASSUME ConnInv PROVE OneAnswer
    OBVIOUS
  <2>0. Types /\ OnceInv /\ CountInv
    BY DEF ConnInv
  <2>1. Elems(sent) = Range(sent) /\ Elems(out) = Range(out)
    BY DEF Elems, Range
  <2>2. /\ <<"sent", 0>> \in Spot \ Place /\ <<"out", 0>> \in Spot \ Place
        /\ Line(<<"sent", 0>>) = sent /\ Line(<<"out", 0>>) = out
    BY PlaceForms, LineForms
  <2>3. sent \in Seq(Request) /\ IsInjective(sent)
    BY <2>0, <2>2 DEF Types, OutsT, OnceInv
  <2>4. Cardinality(Range(sent)) = Len(sent)
    BY <2>3, InjectiveLength
  <2>5. Held \cap (Range(sent) \cup Range(out)) = {}
    <3>1. \A p \in Place : p \in Spot /\ Line(p) = At(p)
      BY PlaceForms, LineForms
    <3>2. ASSUME NEW p \in Place
          PROVE  Range(At(p)) \cap Range(sent) = {} /\ Range(At(p)) \cap Range(out) = {}
      BY <2>0, <2>2, <3>1 DEF OnceInv
    <3> QED BY <3>2 DEF Held
  <2> QED BY <2>0, <2>1, <2>4, <2>5, UseCount DEF OneAnswer
<1> QED BY <1>1, ConnAlways, PTL

\* A task in a queue has a thread that is about to look at it, in any interleaving of any
\* number of threads, unless dispatch_task woke another thread than the one it had given
\* the task to, which it does when the other network thread writes last_task in between:
\* the queues and the notice pipes lose no wakeup by themselves (dispatch_task, push_task,
\* notice_wake_up, noice_read_event_handler, pop_all).
THEOREM WakeupsKept == Spec => []NoLostWakeup
<1>1. ConnInv => NoLostWakeup
  BY DEF ConnInv
<1> QED BY <1>1, ConnAlways, PTL

\* Between two events an open connection waits for something that will come: EPOLLOUT
\* for answers in the buffer, room for an answer that does not fit, EPOLLIN or the
\* one-second timer for requests (nn_conn_output, nn_conn_out_buffer, nn_conn_decode,
\* nn_conn_timer_handler).
THEOREM ConnectionMoves == Spec => []NeverStalls
<1>1. ConnInv => NeverStalls
  <2> SUFFICES ASSUME ConnInv, net.pc = "loop", posted = <<>>, state = "connected"
               PROVE  /\ out # <<>> => ev.wr /\ ~ev.ready
                      /\ (out = <<>> /\ outTask # <<>>) => Head(outTask) \in Big
                      /\ ev.rd # ev.slow
    BY DEF NeverStalls
  <2>1. "write" \notin Range(posted)
    BY DEF Range
  <2> QED BY <2>1 DEF ConnInv, OutInv, Stuck
<1> QED BY <1>1, ConnAlways, PTL
=============================================================================
