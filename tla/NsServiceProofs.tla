--------------------------- MODULE NsServiceProofs ---------------------------
(***************************************************************************)
(* The datanode's name service, for every set of namenodes, blocks and     *)
(* objects, every heartbeat interval and any number of faults.             *)
(*                                                                         *)
(* That a block a namenode lists is stored follows the block's id on its   *)
(* way: from the rename or from readdir into an object, through the queue  *)
(* to the thread that reports it. At each place the block has a file, or a *)
(* namenode has ordered its deletion (StoredInv).                          *)
(*                                                                         *)
(* That no report is taken from an empty queue and no object is freed      *)
(* twice needs a single service thread: then an object on its way to the   *)
(* pool is still in the cache, and a queue found non-empty stays so        *)
(* (PoolInv, TakeInv).                                                     *)
(***************************************************************************)
EXTENDS NsService, SequenceLemmas

(***************************************************************************)
(* Types, with what a thread holds where its place in the code says so.    *)
(***************************************************************************)
ClockT == /\ since \in [NameNode -> 0..HeartbeatInterval]
          /\ diff \in [NameNode -> 0..HeartbeatInterval]
          /\ left \in [NameNode -> 0..HeartbeatInterval]
          /\ age \in 0..HeartbeatInterval
HoldT  == /\ pc \in [NameNode -> Pc] /\ hold \in [NameNode -> Object \cup {None}]
          /\ \A n \in NameNode :
               pc[n] \in {"deleting", "recv_send", "blk_send"} => hold[n] \in Object
OrderT == todo \in [NameNode -> Seq(Block)] /\ dels \in [NameNode -> Seq(Block)]
QueT   == que \in [{"recv", "blk"} -> Seq(Object)]
CacheT == /\ cell \in [Object -> Block \cup {None}]
          /\ free \in Seq(Object) /\ table \in Seq(Object)
WriteT == /\ write \in [Block -> {"open", "renamed", "joined", "done"}]
          /\ wobj \in [Block -> Object \cup {None}]
          /\ \A b \in Block : write[b] = "joined" => wobj[b] \in Object
ScanT  == /\ scan \in [pc : {"readdir", "add", "notify"}, blk : Block \cup {None},
                       obj : Object \cup {None}]
          /\ scan.pc = "add" => scan.blk \in Block
          /\ scan.pc = "notify" => scan.obj \in Object
          /\ left2scan \subseteq Block
FileT  == file \subseteq Block
BadT   == bad \in {None, "empty", "reinit", "double"}
NnT    == /\ link \in [NameNode -> {"up", "fin", "rst"}]
          /\ registered \in [NameNode -> BOOLEAN]
          /\ removed \in [NameNode -> SUBSET Block]
FaultT == faults \in [n : 0..MaxFaults, cut : BOOLEAN]

Types == /\ ClockT /\ HoldT /\ OrderT /\ QueT /\ CacheT /\ WriteT /\ ScanT /\ FileT /\ BadT
         /\ NnT /\ FaultT

(***************************************************************************)
(* Where the ids of blocks are, the block is stored or its deletion was    *)
(* ordered.                                                                *)
(***************************************************************************)
Ordered(b) == \E m \in NameNode : b \in removed[m]
Kept(b) == b \in file \/ Ordered(b)

CellInv  == \A o \in Object : cell[o] \in Block => Kept(cell[o])
WriteInv == \A b \in Block : write[b] = "renamed" => Kept(b)
ScanInv  == /\ \A b \in left2scan : Kept(b)
            /\ scan.pc = "add" => Kept(scan.blk)
OrderInv == \A n \in NameNode : \A b \in Range(todo[n]) \cup Range(dels[n]) : Ordered(b)
KnownInv == /\ known \in [NameNode -> SUBSET Block]
            /\ \A n \in NameNode : \A b \in known[n] : Kept(b)

\* An object whose id will be read has one.
Reported(o) == \/ o \in Range(que["recv"]) \/ o \in Range(que["blk"])
               \/ \E n \in NameNode : pc[n] \in {"recv_send", "blk_send"} /\ hold[n] = o
               \/ \E b \in Block : write[b] = "joined" /\ wobj[b] = o
               \/ scan.pc = "notify" /\ scan.obj = o
NamedInv == \A o \in Object : Reported(o) => cell[o] \in Block

StoredInv == CellInv /\ WriteInv /\ ScanInv /\ OrderInv /\ KnownInv /\ NamedInv

(***************************************************************************)
(* One service thread.                                                     *)
(***************************************************************************)
OneNameNode == \A m, n \in NameNode : m = n

PoolInv == /\ IsInjective(free) /\ IsInjective(table)
           /\ Range(free) \cap Range(table) = {}
           /\ \A n \in NameNode : pc[n] = "deleting" => hold[n] \in Range(table)
TakeInv == /\ \A n \in NameNode, q \in {"recv", "blk"} : pc[n] = Take(q) => que[q] # <<>>
           /\ bad \notin {"empty", "double"}

----------------------------------------------------------------------------
LEMMA TypesSame ==
  /\ ClockT /\ UNCHANGED <<since, diff, left, age>> => ClockT'
  /\ HoldT /\ UNCHANGED <<pc, hold>> => HoldT'
  /\ OrderT /\ UNCHANGED <<todo, dels>> => OrderT'
  /\ QueT /\ UNCHANGED que => QueT'
  /\ CacheT /\ UNCHANGED <<cell, free, table>> => CacheT'
  /\ WriteT /\ UNCHANGED writer => WriteT'
  /\ ScanT /\ UNCHANGED <<scan, left2scan>> => ScanT'
  /\ FileT /\ UNCHANGED file => FileT'
  /\ BadT /\ UNCHANGED bad => BadT'
  /\ NnT /\ UNCHANGED <<link, registered, removed>> => NnT'
  /\ FaultT /\ UNCHANGED faults => FaultT'
<1>1. ClockT /\ UNCHANGED <<since, diff, left, age>> => ClockT'
  BY DEF ClockT
<1>2. HoldT /\ UNCHANGED <<pc, hold>> => HoldT'
  BY DEF HoldT
<1>3. OrderT /\ UNCHANGED <<todo, dels>> => OrderT'
  BY DEF OrderT
<1>4. QueT /\ UNCHANGED que => QueT'
  BY DEF QueT
<1>5. CacheT /\ UNCHANGED <<cell, free, table>> => CacheT'
  BY DEF CacheT
<1>6. WriteT /\ UNCHANGED writer => WriteT'
  BY DEF WriteT, writer
<1>7. ScanT /\ UNCHANGED <<scan, left2scan>> => ScanT'
  BY DEF ScanT
<1>8. FileT /\ UNCHANGED file => FileT'
  BY DEF FileT
<1>9. BadT /\ UNCHANGED bad => BadT'
  BY DEF BadT
<1>10. NnT /\ UNCHANGED <<link, registered, removed>> => NnT'
  BY DEF NnT
<1>11. FaultT /\ UNCHANGED faults => FaultT'
  BY DEF FaultT
<1> QED BY <1>1, <1>2, <1>3, <1>4, <1>5, <1>6, <1>7, <1>8, <1>9, <1>10, <1>11

LEMMA TypesInit == Init => Types
<1> SUFFICES ASSUME Init PROVE Types
  OBVIOUS
<1>1. ClockT
  BY NsServiceAssumption DEF Init, ClockT
<1>2. HoldT
  BY DEF Init, HoldT, Pc
<1>3. OrderT /\ QueT
  BY DEF Init, OrderT, QueT
<1>4. CacheT
  BY NsServiceAssumption, SetToSeqRange DEF Init, CacheT
<1>5. WriteT /\ ScanT /\ FileT
  BY DEF Init, WriteT, ScanT, FileT
<1>6. BadT /\ NnT
  BY DEF Init, BadT, NnT
<1>7. FaultT
  BY NsServiceAssumption DEF Init, FaultT
<1> QED BY <1>1, <1>2, <1>3, <1>4, <1>5, <1>6, <1>7 DEF Types

\* A thread that goes on to where it holds nothing.
LEMMA GotoType ==
  ASSUME HoldT, NEW n \in NameNode, NEW to \in Pc \ {"deleting", "recv_send", "blk_send"},
         Goto(n, to), UNCHANGED hold \/ hold' = [hold EXCEPT ![n] = None]
  PROVE  HoldT'
<1>1. pc' \in [NameNode -> Pc] /\ pc'[n] = to /\ \A m \in NameNode : m # n => pc'[m] = pc[m]
  BY DEF Goto, HoldT
<1>2. hold' \in [NameNode -> Object \cup {None}] /\ \A m \in NameNode : m # n => hold'[m] = hold[m]
  BY DEF HoldT
<1> QED BY <1>1, <1>2 DEF HoldT

\* A thread that goes on with object o.
LEMMA HoldType ==
  ASSUME HoldT, NEW n \in NameNode, NEW to \in Pc, Goto(n, to), NEW o \in Object,
         hold' = [hold EXCEPT ![n] = o]
  PROVE  HoldT'
<1>1. pc' \in [NameNode -> Pc] /\ \A m \in NameNode : m # n => pc'[m] = pc[m]
  BY DEF Goto, HoldT
<1>2. /\ hold' \in [NameNode -> Object \cup {None}] /\ hold'[n] = o
      /\ \A m \in NameNode : m # n => hold'[m] = hold[m]
  BY DEF HoldT
<1> QED BY <1>1, <1>2 DEF HoldT

LEMMA FaultType ==
  ASSUME FaultT, NEW cut \in BOOLEAN, NEW kind, CanFail(kind), faults' = Failed(cut)
  PROVE  FaultT'
<1>1. /\ faults \in [n : 0..MaxFaults, cut : BOOLEAN] /\ faults.n < MaxFaults /\ MaxFaults \in Nat
      /\ faults' = [n |-> faults.n + 1, cut |-> faults.cut \/ cut]
  BY NsServiceAssumption DEF FaultT, CanFail, Failed
<1>2. faults.n + 1 \in 0..MaxFaults
  BY <1>1
<1>3. (faults.cut \/ cut) \in BOOLEAN
  BY Zenon
<1> QED BY <1>1, <1>2, <1>3 DEF FaultT

\* The connection and the faults after a request.
LEMMA RequestType ==
  ASSUME NnT, FaultT, NEW n \in NameNode, NEW outcome \in Outcomes(n), AfterRequest(n, outcome),
         UNCHANGED <<registered, removed>>
  PROVE  NnT' /\ FaultT'
<1>1. NnT'
  BY DEF NnT, AfterRequest
<1>2. outcome = "lost" => CanFail("lost")
  BY DEF Outcomes
<1>3. FaultT'
  <2>1. CASE outcome = "lost"
    BY <1>2, <2>1, FaultType DEF AfterRequest
  <2>2. CASE outcome # "lost"
    BY <2>2, TypesSame DEF AfterRequest
  <2> QED BY <2>1, <2>2
<1> QED BY <1>1, <1>3

\* A new object for block b, which is the first of the free ones.
LEMMA JoinType ==
  ASSUME CacheT, BadT, NEW b \in Block, Join(b)
  PROVE  CacheT' /\ BadT' /\ Head(free) \in Object
<1>1. free \in Seq(Object) /\ free # <<>> /\ table \in Seq(Object)
  BY DEF CacheT, Join
<1>2. Head(free) \in Object /\ Tail(free) \in Seq(Object)
  BY <1>1
<1>3. <<Head(free)>> \o table \in Seq(Object)
  BY <1>1, <1>2, ConsRange
<1>4. CacheT'
  BY <1>2, <1>3 DEF CacheT, Join
<1>5. BadT'
  BY DEF BadT, Join
<1> QED BY <1>2, <1>4, <1>5

LEMMA EnqueueType ==
  ASSUME QueT, NEW q \in {"recv", "blk"}, NEW o \in Object, Enqueue(q, o)
  PROVE  QueT'
<1>1. Append(que[q], o) \in Seq(Object)
  BY DEF QueT
<1> QED BY <1>1 DEF QueT, Enqueue

LEMMA LookupType ==
  ASSUME CacheT, NEW b, lookup(b) # None
  PROVE  /\ lookup(b) \in Range(table) /\ lookup(b) \in Object /\ cell[lookup(b)] = b
<1> DEFINE at == {i \in DOMAIN table : cell[table[i]] = b}
           k == CHOOSE i \in at : \A j \in at : i <= j
<1>1. at # {} /\ lookup(b) = table[k]
  BY DEF lookup
<1>2. at \subseteq Nat
  BY DEF CacheT
<1>3. \E i \in at : \A j \in at : i <= j
  BY <1>1, <1>2, LeastIndex
<1>4. k \in at
  BY <1>3
<1> HIDE DEF k
<1> QED BY <1>1, <1>4 DEF CacheT, Range

----------------------------------------------------------------------------
(* Types are kept: the parts each step changes, the others by TypesSame. *)

LEMMA RegisterTypes ==
  ASSUME Types, NEW n \in NameNode, dn_register(n)
  PROVE  Types'
<1>1. /\ OrderT' /\ QueT' /\ CacheT' /\ WriteT' /\ ScanT' /\ FileT' /\ BadT'
  BY TypesSame DEF Types, dn_register, cache, writer
<1>2. /\ HoldT /\ UNCHANGED hold /\ "heartbeat" \in Pc \ {"deleting", "recv_send", "blk_send"}
      /\ "sleep" \in Pc \ {"deleting", "recv_send", "blk_send"}
      /\ ClockT /\ NnT /\ FaultT /\ HeartbeatInterval \in Nat \ {0} /\ UNCHANGED <<age, removed>>
      /\ TRUE \in BOOLEAN
  BY NsServiceAssumption DEF Types, dn_register, Pc
<1>3. \/ /\ Goto(n, "heartbeat")
         /\ diff' = [diff EXCEPT ![n] = 0] /\ since' = [since EXCEPT ![n] = 0] /\ UNCHANGED left
      \/ /\ Goto(n, "sleep")
         /\ left' = [left EXCEPT ![n] = 1] /\ UNCHANGED <<diff, since>>
  BY DEF dn_register
<1>4. HoldT'
  BY <1>2, <1>3, GotoType
<1>5. ClockT'
  BY <1>2, <1>3 DEF ClockT
<1>6. NnT'
  BY <1>2 DEF dn_register, NnT
<1>7. faults' = faults \/ (CanFail("break") /\ faults' = Failed(TRUE))
  BY DEF dn_register
<1>8. FaultT'
  BY <1>2, <1>7, FaultType, TypesSame
<1> QED BY <1>1, <1>4, <1>5, <1>6, <1>8 DEF Types

LEMMA SleepTypes ==
  ASSUME Types, NEW n \in NameNode, ns_sleep(n)
  PROVE  Types'
<1>1. HoldT'
  BY GotoType DEF Types, ns_sleep, Pc
<1> QED BY <1>1, TypesSame DEF Types, ns_sleep, cache, writer, nn

LEMMA HeartbeatTypes ==
  ASSUME Types, NEW n \in NameNode, send_heartbeat(n)
  PROVE  /\ Types'
         /\ \A m \in NameNode : /\ Range(dels'[m]) \subseteq Range(dels[m])
                              /\ Range(todo'[m]) \subseteq Range(todo[m]) \cup Range(dels[m])
<1> DEFINE given == SubSeq(dels[n], 1, Least(DeleteOnce, Len(dels[n])))
           kept  == SubSeq(dels[n], Len(given) + 1, Len(dels[n]))
<1>1. /\ QueT' /\ CacheT' /\ WriteT' /\ ScanT' /\ FileT' /\ BadT'
  BY TypesSame DEF Types, send_heartbeat, cache, writer
<1>2. /\ ClockT /\ HoldT /\ OrderT /\ NnT /\ FaultT
      /\ UNCHANGED <<since, diff, left, hold, registered, removed>>
  BY DEF Types, send_heartbeat
<1>3. {"recv", "delete", "register"} \subseteq Pc \ {"deleting", "recv_send", "blk_send"}
  BY DEF Pc
<1>4. /\ dels[n] \in Seq(Block) /\ todo[n] \in Seq(Block) /\ DeleteOnce \in Nat
  BY <1>2, NsServiceAssumption DEF OrderT
<1>5. /\ given \in Seq(Block) /\ Range(given) \subseteq Range(dels[n])
      /\ kept \in Seq(Block) /\ Range(kept) \subseteq Range(dels[n])
  <2>1. /\ Least(DeleteOnce, Len(dels[n])) \in 0 .. Len(dels[n])
    BY <1>4 DEF Least
  <2>2. given \in Seq(Block) /\ Range(given) \subseteq Range(dels[n]) /\ Len(given) \in Nat
    BY <1>4, <2>1 DEF Range
  <2> HIDE DEF given
  <2>3. kept \in Seq(Block) /\ Range(kept) \subseteq Range(dels[n])
    BY <1>4, <2>2 DEF Range
  <2> QED BY <2>2, <2>3
<1>6. \/ /\ UNCHANGED <<age, link, faults, dels, todo>> /\ Goto(n, "recv")
      \/ /\ age' = since[n]
         /\ \E outcome \in Outcomes(n) :
              /\ AfterRequest(n, outcome)
              /\ dels' = IF Carried(outcome) THEN [dels EXCEPT ![n] = kept] ELSE dels
              /\ todo' = IF outcome = "ok" THEN [todo EXCEPT ![n] = given] ELSE todo
              /\ Goto(n, IF Accepted(outcome) THEN "delete" ELSE "register")
  BY DEF send_heartbeat
<1> HIDE DEF given, kept
<1>7. ClockT'
  BY <1>2, <1>6 DEF ClockT
<1>8. HoldT'
  BY <1>2, <1>3, <1>6, GotoType
<1>9. NnT' /\ FaultT'
  BY <1>2, <1>6, RequestType, TypesSame
<1>10. /\ dels' = dels \/ dels' = [dels EXCEPT ![n] = kept]
       /\ todo' = todo \/ todo' = [todo EXCEPT ![n] = given]
  BY <1>6
<1>11. OrderT'
  BY <1>2, <1>5, <1>10 DEF OrderT
<1>12. \A m \in NameNode : /\ Range(dels'[m]) \subseteq Range(dels[m])
                           /\ Range(todo'[m]) \subseteq Range(todo[m]) \cup Range(dels[m])
  BY <1>2, <1>5, <1>10 DEF OrderT
<1> QED BY <1>1, <1>7, <1>8, <1>9, <1>11, <1>12 DEF Types

LEMMA UnlinkTypes ==
  ASSUME Types, NEW n \in NameNode, block_object_del_unlink(n)
  PROVE  Types'
<1>1. /\ ClockT' /\ QueT' /\ CacheT' /\ WriteT' /\ ScanT' /\ BadT' /\ NnT' /\ FaultT'
  BY TypesSame DEF Types, block_object_del_unlink, writer, nn
<1>2. /\ HoldT /\ OrderT /\ FileT /\ CacheT /\ UNCHANGED dels /\ todo[n] \in Seq(Block)
  BY DEF Types, block_object_del_unlink, nn, OrderT
<1>3. {"recv", "deleting"} \subseteq Pc /\ "recv" \notin {"deleting", "recv_send", "blk_send"}
  BY DEF Pc
<1>4. \/ Goto(n, "recv") /\ UNCHANGED <<todo, hold, file>>
      \/ /\ todo[n] # <<>> /\ todo' = [todo EXCEPT ![n] = Tail(@)]
         /\ \/ UNCHANGED <<pc, hold, file>>
            \/ /\ lookup(Head(todo[n])) # None
               /\ hold' = [hold EXCEPT ![n] = lookup(Head(todo[n]))]
               /\ file' = file \ {Head(todo[n])}
               /\ Goto(n, "deleting")
  BY DEF block_object_del_unlink
<1>5. HoldT'
  <2>1. CASE Goto(n, "recv") /\ UNCHANGED hold
    BY <2>1, <1>2, <1>3, GotoType
  <2>2. CASE UNCHANGED <<pc, hold>>
    BY <2>2, <1>2, TypesSame
  <2>3. CASE /\ lookup(Head(todo[n])) # None /\ Goto(n, "deleting")
             /\ hold' = [hold EXCEPT ![n] = lookup(Head(todo[n]))]
    <3>1. lookup(Head(todo[n])) \in Object
      BY <2>3, <1>2, LookupType
    <3> QED BY <2>3, <3>1, <1>2, <1>3, HoldType
  <2> QED BY <2>1, <2>2, <2>3, <1>4
<1>6. OrderT'
  <2>1. todo[n] # <<>> => Tail(todo[n]) \in Seq(Block)
    BY <1>2
  <2> QED BY <2>1, <1>2, <1>4 DEF OrderT
<1>7. FileT'
  BY <1>2, <1>4 DEF FileT
<1> QED BY <1>1, <1>5, <1>6, <1>7 DEF Types

\* Unlink is Without for a link of the chain.
LEMMA UnlinkProperties ==
  ASSUME NEW q \in Seq(Object), NEW o
  PROVE  /\ Unlink(q, o) \in Seq(Object) /\ Range(Unlink(q, o)) \subseteq Range(q)
         /\ o \in Range(q) => Unlink(q, o) = Without(q, o)
<1>1. o \in Range(q) => Unlink(q, o) = Without(q, o)
  BY Zenon DEF Unlink, Without
<1>2. CASE o \in Range(q)
  <2> DEFINE k == CHOOSE i \in DOMAIN q : q[i] = o
  <2>1. k \in 1 .. Len(q)
    BY <1>2 DEF Range
  <2>2. Unlink(q, o) = RemoveAt(q, k)
    BY <1>2, Zenon DEF Unlink
  <2> HIDE DEF k
  <2>3. /\ RemoveAt(q, k) \in Seq(Object) /\ Len(RemoveAt(q, k)) = Len(q) - 1
        /\ \A i \in 1 .. Len(q) - 1 : RemoveAt(q, k)[i] = IF i < k THEN q[i] ELSE q[i + 1]
    BY <2>1, RemoveAtProperties
  <2>4. Range(RemoveAt(q, k)) \subseteq Range(q)
    BY <2>1, <2>3 DEF Range
  <2> QED BY <1>1, <2>2, <2>3, <2>4
<1>3. CASE o \notin Range(q)
  BY <1>3 DEF Unlink
<1> QED BY <1>2, <1>3

LEMMA DelTypes ==
  ASSUME Types, NEW n \in NameNode, block_object_del(n)
  PROVE  Types'
<1>1. /\ ClockT' /\ OrderT' /\ QueT' /\ WriteT' /\ ScanT' /\ FileT' /\ NnT' /\ FaultT'
  BY TypesSame DEF Types, block_object_del, writer, nn
<1>2. HoldT'
  BY GotoType DEF Types, block_object_del, Pc
<1>3. hold[n] \in Object /\ CacheT /\ BadT
  BY DEF Types, HoldT, block_object_del
<1>4. CacheT'
  <2>1. free \in Seq(Object) /\ table \in Seq(Object)
    BY <1>3 DEF CacheT
  <2>2. <<hold[n]>> \o free \in Seq(Object) /\ Unlink(table, hold[n]) \in Seq(Object)
    BY <1>3, <2>1, ConsRange, UnlinkProperties
  <2> QED BY <1>3, <2>2 DEF CacheT, block_object_del
<1>5. BadT'
  BY <1>3 DEF BadT, block_object_del
<1> QED BY <1>1, <1>2, <1>4, <1>5 DEF Types

LEMMA CheckTypes ==
  ASSUME Types, NEW n \in NameNode, NEW q \in {"recv", "blk"}, check_report(n, q)
  PROVE  Types'
<1>1. {Take(q), Then(q)} \subseteq Pc \ {"deleting", "recv_send", "blk_send"}
  BY DEF Take, Then, Pc
<1>2. HoldT'
  BY <1>1, GotoType DEF Types, check_report
<1> QED BY <1>2, TypesSame DEF Types, check_report, cache, writer, nn

LEMMA TakeTypes ==
  ASSUME Types, NEW n \in NameNode, NEW q \in {"recv", "blk"}, take_report(n, q)
  PROVE  Types'
<1>1. /\ ClockT' /\ OrderT' /\ CacheT' /\ WriteT' /\ ScanT' /\ FileT' /\ NnT' /\ FaultT'
  BY TypesSame DEF Types, take_report, cache, writer, nn
<1>2. CASE que[q] = <<>>
  BY <1>1, <1>2, TypesSame DEF Types, take_report, BadT
<1>3. CASE que[q] # <<>>
  <2>1. que[q] \in Seq(Object)
    BY DEF Types, QueT
  <2>2. Head(que[q]) \in Object /\ Tail(que[q]) \in Seq(Object)
    BY <1>3, <2>1
  <2>3. Send(q) \in Pc
    BY DEF Send, Pc
  <2>4. HoldT'
    BY <1>3, <2>2, <2>3, HoldType DEF Types, take_report
  <2>5. QueT'
    BY <1>3, <2>2 DEF Types, take_report, QueT
  <2> QED BY <1>1, <1>3, <2>4, <2>5, TypesSame DEF Types, take_report
<1> QED BY <1>2, <1>3

LEMMA SendTypes ==
  ASSUME Types, NEW n \in NameNode, NEW q \in {"recv", "blk"}, send_report(n, q)
  PROVE  Types'
<1>1. /\ ClockT' /\ OrderT' /\ QueT' /\ CacheT' /\ WriteT' /\ ScanT' /\ FileT' /\ BadT'
  BY TypesSame DEF Types, send_report, cache, writer
<1>2. {Then(q), "register"} \subseteq Pc \ {"deleting", "recv_send", "blk_send"}
  BY DEF Then, Pc
<1>3. PICK outcome \in Outcomes(n) :
        /\ AfterRequest(n, outcome)
        /\ Goto(n, IF Accepted(outcome) THEN Then(q) ELSE "register")
  BY DEF send_report
<1>4. HoldT'
  BY <1>2, <1>3, GotoType DEF Types, send_report
<1>5. NnT' /\ FaultT'
  BY <1>3, RequestType DEF Types, send_report
<1> QED BY <1>1, <1>4, <1>5 DEF Types

LEMMA WaitTypes ==
  ASSUME Types, NEW n \in NameNode, start_wait(n) \/ end_wait(n)
  PROVE  Types'
<1>1. /\ OrderT' /\ QueT' /\ CacheT' /\ WriteT' /\ ScanT' /\ FileT' /\ BadT' /\ NnT' /\ FaultT'
  BY TypesSame DEF Types, start_wait, end_wait, cache, writer, nn
<1>2. {"waiting", "heartbeat"} \subseteq Pc \ {"deleting", "recv_send", "blk_send"}
  BY DEF Pc
<1>3. /\ UNCHANGED hold
      /\ Goto(n, "waiting") \/ Goto(n, "heartbeat")
  BY DEF start_wait, end_wait, ReadClock
<1>4. HoldT'
  BY <1>2, <1>3, GotoType DEF Types
<1>5. ClockT /\ HeartbeatInterval \in Nat \ {0}
  BY NsServiceAssumption DEF Types
<1>6. WaitTime(n) \in 0..HeartbeatInterval
  <2>1. diff[n] \in 0..HeartbeatInterval
    BY <1>5 DEF ClockT
  <2> QED BY <1>5, <2>1 DEF WaitTime
<1>7. /\ since' = since \/ since' = [since EXCEPT ![n] = 0]
      /\ diff' = diff \/ diff' = [diff EXCEPT ![n] = age]
      /\ left' = left \/ left' = [left EXCEPT ![n] = WaitTime(n)] \/ left' = [left EXCEPT ![n] = 0]
      /\ age' = age \/ age' = since[n]
  BY DEF start_wait, end_wait, ReadClock
<1>8. ClockT'
  BY <1>5, <1>6, <1>7 DEF ClockT
<1> QED BY <1>1, <1>4, <1>8 DEF Types

LEMMA TickTypes ==
  ASSUME Types, Tick
  PROVE  Types'
<1>1. ClockT /\ HeartbeatInterval \in Nat \ {0}
  BY NsServiceAssumption DEF Types
<1>2. \A x \in 0..HeartbeatInterval : /\ Least(x + 1, HeartbeatInterval) \in 0..HeartbeatInterval
                                      /\ (IF x > 0 THEN x - 1 ELSE 0) \in 0..HeartbeatInterval
  BY <1>1 DEF Least
<1>3. ClockT'
  BY <1>1, <1>2 DEF ClockT, Tick
<1> QED BY <1>3, TypesSame DEF Types, Tick, cache, writer, nn

LEMMA WriteTypes ==
  ASSUME Types, NEW b \in Block, Write(b)
  PROVE  Types'
<1>1. CASE write_block_done(b)
  <2>1. WriteT' /\ FileT'
    BY <1>1 DEF Types, write_block_done, WriteT, FileT
  <2> QED BY <1>1, <2>1, TypesSame DEF Types, write_block_done, thread, nn
<1>2. CASE recv_blk_report(b)
  <2>1. CacheT' /\ BadT' /\ Head(free) \in Object
    BY <1>2, JoinType DEF Types, recv_blk_report
  <2>2. WriteT /\ wobj' = [wobj EXCEPT ![b] = Head(free)] /\ write' = [write EXCEPT ![b] = "joined"]
    BY <1>2 DEF Types, recv_blk_report
  <2>3. WriteT'
    BY <2>1, <2>2 DEF WriteT
  <2> QED BY <1>2, <2>1, <2>3, TypesSame DEF Types, recv_blk_report, thread, nn
<1>3. CASE notify_nn_receivedblock(b)
  <2>1. wobj[b] \in Object
    BY <1>3 DEF Types, WriteT, notify_nn_receivedblock
  <2>2. QueT'
    BY <1>3, <2>1, EnqueueType DEF Types, notify_nn_receivedblock
  <2>3. WriteT /\ wobj' = [wobj EXCEPT ![b] = None] /\ write' = [write EXCEPT ![b] = "done"]
    BY <1>3 DEF Types, notify_nn_receivedblock
  <2>4. WriteT'
    BY <2>3 DEF WriteT
  <2> QED BY <1>3, <2>2, <2>4, TypesSame DEF Types, notify_nn_receivedblock, thread, cache, nn
<1> QED BY <1>1, <1>2, <1>3 DEF Write

LEMMA ScannerTypes ==
  ASSUME Types, Scanner
  PROVE  Types'
<1>1. CASE scan_dirs
  <2>1. ScanT'
    BY <1>1 DEF Types, ScanT, FileT, scan_dirs
  <2> QED BY <1>1, <2>1, TypesSame DEF Types, scan_dirs, thread, cache, writer, nn
<1>2. CASE \E b \in Block : scan_entry(b)
  <2>1. PICK b \in Block : scan_entry(b)
    BY <1>2
  <2>2. ScanT'
    BY <2>1 DEF Types, ScanT, scan_entry
  <2> QED BY <2>1, <2>2, TypesSame DEF Types, scan_entry, thread, cache, writer, nn
<1>3. CASE block_object_add
  <2>1. scan.blk \in Block /\ Join(scan.blk)
    BY <1>3 DEF Types, ScanT, block_object_add
  <2>2. CacheT' /\ BadT' /\ Head(free) \in Object
    BY <2>1, JoinType DEF Types
  <2>3. ScanT'
    BY <1>3, <2>2 DEF Types, ScanT, block_object_add
  <2> QED BY <1>3, <2>2, <2>3, TypesSame DEF Types, block_object_add, thread, writer, nn
<1>4. CASE notify_blk_report
  <2>1. scan.obj \in Object /\ Enqueue("blk", scan.obj)
    BY <1>4 DEF Types, ScanT, notify_blk_report
  <2>2. QueT'
    BY <2>1, EnqueueType DEF Types
  <2>3. ScanT'
    BY <1>4 DEF Types, ScanT, notify_blk_report
  <2> QED BY <1>4, <2>2, <2>3, TypesSame DEF Types, notify_blk_report, thread, cache, writer, nn
<1> QED BY <1>1, <1>2, <1>3, <1>4 DEF Scanner

LEMMA RemoveTypes ==
  ASSUME Types, NEW n \in NameNode, NEW b \in Block, NnRemove(n, b)
  PROVE  Types'
<1>1. OrderT'
  <2>1. OrderT /\ todo' = todo
    BY DEF Types, NnRemove, thread
  <2>2. Append(dels[n], b) \in Seq(Block)
    BY <2>1 DEF OrderT
  <2> QED BY <2>1, <2>2 DEF OrderT, NnRemove
<1>2. NnT'
  BY DEF Types, NnT, NnRemove
<1> QED BY <1>1, <1>2, TypesSame DEF Types, NnRemove, thread, cache, writer

LEMMA FaultTypes ==
  ASSUME Types, Fault
  PROVE  Types'
<1>1. CASE \E n \in NameNode : NnClose(n)
  <2>1. PICK n \in NameNode : NnClose(n)
    BY <1>1
  <2>2. NnT'
    BY <2>1 DEF Types, NnT, NnClose
  <2>3. FaultT'
    BY <2>1, FaultType DEF Types, NnClose
  <2> QED BY <2>1, <2>2, <2>3, TypesSame DEF Types, NnClose, thread, cache, writer
<1>2. CASE \E n \in NameNode : NnExpire(n)
  <2>1. PICK n \in NameNode : NnExpire(n)
    BY <1>2
  <2>2. NnT' /\ OrderT'
    BY <2>1 DEF Types, NnT, OrderT, NnExpire, thread
  <2>3. FaultT'
    BY <2>1, FaultType DEF Types, NnExpire
  <2> QED BY <2>1, <2>2, <2>3, TypesSame DEF Types, NnExpire, thread, cache, writer
<1>3. CASE \E n \in NameNode : NnRestart(n)
  <2>1. PICK n \in NameNode : NnRestart(n)
    BY <1>3
  <2>2. OrderT'
    BY <2>1 DEF Types, OrderT, NnRestart, thread
  <2>3. NnT'
    BY <2>1 DEF Types, NnT, NnRestart
  <2>4. FaultT'
    BY <2>1, FaultType DEF Types, NnRestart
  <2> QED BY <2>1, <2>2, <2>3, <2>4, TypesSame DEF Types, NnRestart, thread, cache, writer
<1>4. CASE DnCrash
  <2>1. ClockT' /\ HoldT' /\ OrderT' /\ QueT'
    BY <1>4, NsServiceAssumption DEF Types, ClockT, HoldT, OrderT, QueT, Pc, DnCrash
  <2>2. CacheT'
    BY <1>4, NsServiceAssumption, SetToSeqRange DEF DnCrash, CacheT
  <2>3. WriteT' /\ ScanT'
    BY <1>4 DEF Types, WriteT, ScanT, DnCrash
  <2>4. NnT'
    BY <1>4 DEF Types, NnT, DnCrash
  <2>5. FaultT'
    BY <1>4, FaultType DEF Types, DnCrash
  <2> QED BY <1>4, <2>1, <2>2, <2>3, <2>4, <2>5, TypesSame DEF Types, DnCrash
<1> QED BY <1>1, <1>2, <1>3, <1>4 DEF Fault

\* Every step keeps the types.
LEMMA TypesStep ==
  ASSUME Types, [Next]_vars
  PROVE  Types'
<1>1. CASE \E n \in NameNode : Service(n)
  <2>1. PICK n \in NameNode : Service(n)
    BY <1>1
  <2> QED BY <2>1, RegisterTypes, SleepTypes, HeartbeatTypes, UnlinkTypes, DelTypes, CheckTypes,
             TakeTypes, SendTypes, WaitTypes DEF Service
<1>2. CASE Scanner \/ Fault \/ Tick
  BY <1>2, ScannerTypes, FaultTypes, TickTypes
<1>3. CASE \E b \in Block : Write(b)
  BY <1>3, WriteTypes
<1>4. CASE \E n \in NameNode, b \in Block : NnRemove(n, b)
  BY <1>4, RemoveTypes
<1>5. CASE UNCHANGED vars
  BY <1>5, TypesSame DEF Types, vars, writer
<1> QED BY <1>1, <1>2, <1>3, <1>4, <1>5 DEF Next

----------------------------------------------------------------------------
(* What a step may do to each place a block id is kept in. *)

FileMoves  == /\ \A n \in NameNode : removed[n] \subseteq removed'[n]
              /\ \A b \in file : b \in file' \/ \E n \in NameNode : b \in Range(todo[n])
CellMoves  == \A o \in Object :
                \/ cell'[o] = cell[o] \/ cell'[o] \notin Block
                \/ write[cell'[o]] = "renamed" \/ (scan.pc = "add" /\ scan.blk = cell'[o])
WriteMoves == \A b \in Block : write'[b] = "renamed" => write[b] = "renamed" \/ b \in file'
ScanMoves  == /\ left2scan' \subseteq left2scan \cup file
              /\ scan'.pc = "add" => scan' = scan \/ scan'.blk \in left2scan
OrderMoves == \A n \in NameNode : \A b \in Range(todo'[n]) \cup Range(dels'[n]) :
                b \in Range(todo[n]) \cup Range(dels[n]) \/ b \in removed'[n]
KnownMoves == /\ known' \in [NameNode -> SUBSET Block]
              /\ \A n \in NameNode : \A b \in known'[n] :
                   b \in known[n] \/ \E o \in Object : cell[o] \in Block /\ b = cell[o]
NamedMoves == \A o \in Object :
                Reported(o)' => cell'[o] \in Block \/ (Reported(o) /\ cell'[o] = cell[o])

Moves == /\ FileMoves /\ CellMoves /\ WriteMoves /\ ScanMoves /\ OrderMoves /\ KnownMoves
         /\ NamedMoves

\* A step that makes these moves keeps a file, or an order to delete it, behind
\* every id.
LEMMA MovesKeepStored ==
  ASSUME Types, Types', StoredInv, Moves
  PROVE  StoredInv'
<1>1. ASSUME NEW b, Ordered(b) PROVE Ordered(b)'
  BY <1>1 DEF Ordered, Moves, FileMoves
<1>2. ASSUME NEW b, Kept(b) PROVE Kept(b)'
  <2>1. CASE b \in file'
    BY <2>1 DEF Kept
  <2>2. CASE b \notin file' /\ b \in file
    <3>1. PICK n \in NameNode : b \in Range(todo[n])
      BY <2>2 DEF Moves, FileMoves
    <3>2. Ordered(b)
      BY <3>1 DEF StoredInv, OrderInv
    <3> QED BY <3>2, <1>1 DEF Kept
  <2>3. CASE b \notin file
    BY <2>3, <1>2, <1>1 DEF Kept
  <2> QED BY <2>1, <2>2, <2>3
<1>3. CellInv'
  <2> SUFFICES ASSUME NEW o \in Object, cell'[o] \in Block PROVE Kept(cell[o])'
    BY DEF CellInv
  <2> DEFINE b == cell'[o]
  <2>1. Kept(b)
    <3>1. CASE cell'[o] = cell[o]
      BY <3>1 DEF StoredInv, CellInv
    <3>2. CASE write[b] = "renamed"
      BY <3>2 DEF StoredInv, WriteInv
    <3>3. CASE scan.pc = "add" /\ scan.blk = b
      BY <3>3 DEF StoredInv, ScanInv
    <3> QED BY <3>1, <3>2, <3>3 DEF Moves, CellMoves
  <2>2. PICK c \in Block : c = cell'[o]
    OBVIOUS
  <2>3. Kept(c)'
    BY <2>1, <2>2, <1>2
  <2> QED BY <2>2, <2>3 DEF Kept, Ordered
<1>4. WriteInv'
  <2> SUFFICES ASSUME NEW b \in Block, write'[b] = "renamed" PROVE Kept(b)'
    BY DEF WriteInv
  <2>1. CASE write[b] = "renamed"
    BY <2>1, <1>2 DEF StoredInv, WriteInv
  <2>2. CASE b \in file'
    BY <2>2 DEF Kept
  <2> QED BY <2>1, <2>2 DEF Moves, WriteMoves
<1>5. ScanInv'
  <2>1. \A b \in left2scan' : Kept(b)'
    <3> SUFFICES ASSUME NEW b \in left2scan' PROVE Kept(b)'
      OBVIOUS
    <3>1. b \in left2scan \/ b \in file
      BY DEF Moves, ScanMoves
    <3>2. Kept(b)
      BY <3>1 DEF StoredInv, ScanInv, Kept
    <3> QED BY <3>2, <1>2
  <2>2. scan'.pc = "add" => Kept(scan.blk)'
    <3> SUFFICES ASSUME scan'.pc = "add" PROVE Kept(scan.blk)'
      OBVIOUS
    <3>1. PICK c : c = scan'.blk
      OBVIOUS
    <3>2. Kept(c)
      BY <3>1 DEF Moves, ScanMoves, StoredInv, ScanInv
    <3>3. Kept(c)'
      BY <3>2, <1>2
    <3> QED BY <3>1, <3>3 DEF Kept, Ordered
  <2> QED BY <2>1, <2>2 DEF ScanInv
<1>6. OrderInv'
  <2> SUFFICES ASSUME NEW n \in NameNode, NEW b \in Range(todo'[n]) \cup Range(dels'[n])
               PROVE  Ordered(b)'
    BY DEF OrderInv
  <2>1. CASE b \in Range(todo[n]) \cup Range(dels[n])
    BY <2>1, <1>1 DEF StoredInv, OrderInv
  <2>2. CASE b \in removed'[n]
    BY <2>2 DEF Ordered
  <2> QED BY <2>1, <2>2 DEF Moves, OrderMoves
<1>7. KnownInv'
  <2>1. known' \in [NameNode -> SUBSET Block]
    BY DEF Moves, KnownMoves
  <2>2. ASSUME NEW n \in NameNode, NEW b \in known'[n] PROVE Kept(b)'
    <3>1. Kept(b)
      <4>1. CASE b \in known[n]
        BY <4>1 DEF StoredInv, KnownInv
      <4>2. CASE \E o \in Object : cell[o] \in Block /\ b = cell[o]
        BY <4>2 DEF StoredInv, CellInv
      <4> QED BY <4>1, <4>2 DEF Moves, KnownMoves
    <3> QED BY <3>1, <1>2
  <2> QED BY <2>1, <2>2 DEF KnownInv
<1>8. NamedInv'
  BY DEF NamedInv, Moves, NamedMoves, StoredInv
<1> QED BY <1>3, <1>4, <1>5, <1>6, <1>7, <1>8 DEF StoredInv

\* Where the variables stay, so does what is said of them.
LEMMA MovesSame ==
  ASSUME Types, StoredInv
  PROVE  /\ UNCHANGED <<file, removed>> => FileMoves
         /\ UNCHANGED cell => CellMoves
         /\ UNCHANGED write => WriteMoves
         /\ UNCHANGED <<scan, left2scan>> => ScanMoves
         /\ UNCHANGED <<todo, dels>> => OrderMoves
         /\ UNCHANGED known => KnownMoves
         /\ UNCHANGED <<cell, que, pc, hold, write, wobj, scan>> => NamedMoves
<1>1. UNCHANGED <<file, removed>> => FileMoves
  BY DEF FileMoves
<1>2. UNCHANGED cell => CellMoves
  BY DEF CellMoves
<1>3. UNCHANGED write => WriteMoves
  BY DEF WriteMoves
<1>4. UNCHANGED <<scan, left2scan>> => ScanMoves
  BY DEF ScanMoves
<1>5. UNCHANGED <<todo, dels>> => OrderMoves
  BY DEF OrderMoves
<1>6. UNCHANGED known => KnownMoves
  BY DEF KnownMoves, StoredInv, KnownInv
<1>7. UNCHANGED <<cell, que, pc, hold, write, wobj, scan>> => NamedMoves
  BY DEF NamedMoves, Reported
<1> QED BY <1>1, <1>2, <1>3, <1>4, <1>5, <1>6, <1>7

\* A thread that goes where it reports nothing.
LEMMA GotoNamed ==
  ASSUME HoldT, NEW n \in NameNode, NEW to, to \notin {"recv_send", "blk_send"}, Goto(n, to),
         UNCHANGED <<cell, que, write, wobj, scan>>,
         \A m \in NameNode : m # n => hold'[m] = hold[m]
  PROVE  NamedMoves
<1>1. pc'[n] = to /\ \A m \in NameNode : m # n => pc'[m] = pc[m]
  BY DEF Goto, HoldT
<1> QED BY <1>1 DEF NamedMoves, Reported

LEMMA ServiceMoves ==
  ASSUME Types, StoredInv, NEW n \in NameNode, Service(n)
  PROVE  Moves
<1>0. HoldT /\ OrderT /\ QueT /\ CacheT
  BY DEF Types
<1>1. CASE dn_register(n) \/ ns_sleep(n) \/ start_wait(n) \/ end_wait(n)
  <2>1. /\ UNCHANGED <<file, removed, cell, write, wobj, scan, left2scan, todo, dels, known,
                       que, hold>>
        /\ Goto(n, "heartbeat") \/ Goto(n, "sleep") \/ Goto(n, "register") \/ Goto(n, "waiting")
    BY <1>1 DEF dn_register, ns_sleep, start_wait, end_wait, ReadClock, cache, writer, nn
  <2>2. NamedMoves
    BY <1>0, <2>1, GotoNamed
  <2> QED BY <2>1, <2>2, MovesSame DEF Moves
<1>2. CASE send_heartbeat(n)
  <2>1. /\ UNCHANGED <<file, removed, cell, write, wobj, scan, left2scan, known, que, hold>>
        /\ Goto(n, "delete") \/ Goto(n, "register") \/ Goto(n, "recv")
    BY <1>2 DEF send_heartbeat, cache, writer
  <2>2. NamedMoves
    BY <1>0, <2>1, GotoNamed
  <2>3. OrderMoves
    BY <1>2, HeartbeatTypes DEF OrderMoves
  <2> QED BY <2>1, <2>2, <2>3, MovesSame DEF Moves
<1>3. CASE block_object_del_unlink(n)
  <2>1. UNCHANGED <<removed, cell, write, wobj, scan, left2scan, dels, known, que>>
    BY <1>3 DEF block_object_del_unlink, writer, nn
  <2>2. \/ Goto(n, "recv") /\ UNCHANGED <<todo, hold, file>>
        \/ /\ todo[n] # <<>> /\ todo' = [todo EXCEPT ![n] = Tail(@)]
           /\ \/ UNCHANGED <<pc, hold, file>>
              \/ /\ file' = file \ {Head(todo[n])}
                 /\ hold' = [hold EXCEPT ![n] = lookup(Head(todo[n]))]
                 /\ Goto(n, "deleting")
    BY <1>3 DEF block_object_del_unlink
  <2>3. todo[n] \in Seq(Block)
    BY <1>0 DEF OrderT
  <2>4. \A m \in NameNode : m # n => hold'[m] = hold[m]
    BY <1>0, <2>2 DEF HoldT
  <2>5. NamedMoves
    BY <1>0, <2>1, <2>2, <2>4, GotoNamed, MovesSame
  <2>6. todo[n] # <<>> => /\ Head(todo[n]) \in Range(todo[n])
                          /\ Range(Tail(todo[n])) \subseteq Range(todo[n])
    BY <2>3 DEF Range
  <2>7. FileMoves
    BY <2>1, <2>2, <2>6 DEF FileMoves
  <2>8. OrderMoves
    BY <1>0, <2>1, <2>2, <2>6 DEF OrderMoves, OrderT
  <2> QED BY <2>1, <2>5, <2>7, <2>8, MovesSame DEF Moves
<1>4. CASE block_object_del(n)
  <2>1. /\ UNCHANGED <<file, removed, cell, write, wobj, scan, left2scan, todo, dels, known, que>>
        /\ Goto(n, "delete") /\ hold' = [hold EXCEPT ![n] = None]
    BY <1>4 DEF block_object_del, writer, nn
  <2>2. \A m \in NameNode : m # n => hold'[m] = hold[m]
    BY <1>0, <2>1 DEF HoldT
  <2>3. NamedMoves
    BY <1>0, <2>1, <2>2, GotoNamed
  <2> QED BY <2>1, <2>3, MovesSame DEF Moves
<1>5. CASE \E q \in {"recv", "blk"} : check_report(n, q)
  <2>1. PICK q \in {"recv", "blk"} : check_report(n, q)
    BY <1>5
  <2>2. /\ UNCHANGED <<file, removed, cell, write, wobj, scan, left2scan, todo, dels, known,
                       que, hold>>
        /\ Goto(n, Take(q)) \/ Goto(n, Then(q))
    BY <2>1 DEF check_report, cache, writer, nn
  <2>3. Take(q) \notin {"recv_send", "blk_send"} /\ Then(q) \notin {"recv_send", "blk_send"}
    BY DEF Take, Then
  <2>4. NamedMoves
    BY <1>0, <2>2, <2>3, GotoNamed
  <2> QED BY <2>2, <2>4, MovesSame DEF Moves
<1>6. CASE \E q \in {"recv", "blk"} : take_report(n, q)
  <2>1. PICK q \in {"recv", "blk"} : take_report(n, q)
    BY <1>6
  <2>2. UNCHANGED <<file, removed, cell, write, wobj, scan, left2scan, todo, dels, known>>
    BY <2>1 DEF take_report, cache, writer, nn
  <2>3. NamedMoves
    <3>1. CASE que[q] = <<>>
      BY <2>1, <2>2, <3>1, MovesSame DEF take_report
    <3>2. CASE que[q] # <<>>
      <4>1. /\ hold' = [hold EXCEPT ![n] = Head(que[q])] /\ que' = [que EXCEPT ![q] = Tail(@)]
            /\ pc' = [pc EXCEPT ![n] = Send(q)]
        BY <2>1, <3>2 DEF take_report, Goto
      <4>2. que[q] \in Seq(Object)
        BY <1>0 DEF QueT
      <4>3. Head(que[q]) \in Range(que[q]) /\ Range(Tail(que[q])) \subseteq Range(que[q])
        BY <3>2, <4>2 DEF Range
      <4>4. \A p \in {"recv", "blk"} : Range(que'[p]) \subseteq Range(que[p])
        BY <1>0, <4>1, <4>3 DEF QueT
      <4>5. /\ hold'[n] = Head(que[q])
            /\ \A m \in NameNode : m # n => hold'[m] = hold[m] /\ pc'[m] = pc[m]
        BY <1>0, <4>1 DEF HoldT
      <4>6. ASSUME NEW o \in Object, Reported(o)' PROVE Reported(o)
        <5>1. CASE \E m \in NameNode : pc'[m] \in {"recv_send", "blk_send"} /\ hold'[m] = o
          <6>1. PICK m \in NameNode : pc'[m] \in {"recv_send", "blk_send"} /\ hold'[m] = o
            BY <5>1
          <6>2. CASE m = n
            BY <6>1, <6>2, <4>3, <4>5 DEF Reported
          <6>3. CASE m # n
            BY <6>1, <6>3, <4>5 DEF Reported
          <6> QED BY <6>2, <6>3
        <5>2. CASE o \in Range(que'["recv"]) \/ o \in Range(que'["blk"])
          BY <5>2, <4>4 DEF Reported
        <5>3. CASE (\E b \in Block : write[b] = "joined" /\ wobj[b] = o)
                   \/ (scan.pc = "notify" /\ scan.obj = o)
          BY <5>3 DEF Reported
        <5> QED BY <4>6, <5>1, <5>2, <5>3, <2>2 DEF Reported
      <4> QED BY <2>2, <4>6 DEF NamedMoves
    <3> QED BY <3>1, <3>2
  <2> QED BY <2>2, <2>3, MovesSame DEF Moves
<1>7. CASE \E q \in {"recv", "blk"} : send_report(n, q)
  <2>1. PICK q \in {"recv", "blk"} : send_report(n, q)
    BY <1>7
  <2>2. /\ UNCHANGED <<file, removed, cell, write, wobj, scan, left2scan, todo, dels, que>>
        /\ (Goto(n, "register") \/ Goto(n, Then(q))) /\ hold' = [hold EXCEPT ![n] = None]
        /\ known' = known \/ known' = [known EXCEPT ![n] = @ \cup {cell[hold[n]]}]
    BY <2>1 DEF send_report, cache, writer
  <2>3. Then(q) \notin {"recv_send", "blk_send"} /\ \A m \in NameNode : m # n => hold'[m] = hold[m]
    BY <1>0, <2>1 DEF Then, send_report, HoldT
  <2>4. NamedMoves
    BY <1>0, <2>2, <2>3, GotoNamed
  <2>5. hold[n] \in Object /\ pc[n] \in {"recv_send", "blk_send"}
    BY <1>0, <2>1 DEF send_report, Send, HoldT
  <2>6. cell[hold[n]] \in Block
    BY <2>5 DEF StoredInv, NamedInv, Reported
  <2>7. KnownMoves
    BY <2>2, <2>5, <2>6 DEF StoredInv, KnownInv, KnownMoves
  <2> QED BY <2>2, <2>4, <2>7, MovesSame DEF Moves
<1> QED BY <1>1, <1>2, <1>3, <1>4, <1>5, <1>6, <1>7 DEF Service

\* The id a new object gets is that of a renamed file or of a directory entry.
LEMMA JoinMoves ==
  ASSUME CacheT, NEW b \in Block, Join(b), write[b] = "renamed" \/ (scan.pc = "add" /\ scan.blk = b)
  PROVE  /\ CellMoves
         /\ Head(free) \in Object /\ cell'[Head(free)] = b
         /\ \A o \in Object : o # Head(free) => cell'[o] = cell[o]
<1>1. free \in Seq(Object) /\ free # <<>>
  BY DEF CacheT, Join
<1>2. Head(free) \in Object
  BY <1>1
<1>3. cell'[Head(free)] = b /\ \A o \in Object : o # Head(free) => cell'[o] = cell[o]
  BY <1>2 DEF CacheT, Join
<1>4. CellMoves
  BY <1>2, <1>3 DEF CellMoves
<1> QED BY <1>2, <1>3, <1>4

\* An object that goes into a queue was reported before: it has its id.
LEMMA EnqueueRange ==
  ASSUME QueT, NEW q \in {"recv", "blk"}, NEW o \in Object, Enqueue(q, o)
  PROVE  \A p \in {"recv", "blk"} : Range(que'[p]) \subseteq Range(que[p]) \cup {o}
<1>1. que[q] \in Seq(Object)
  BY DEF QueT
<1>2. Range(Append(que[q], o)) = Range(que[q]) \cup {o}
  BY <1>1, AppendRange
<1> QED BY <1>2 DEF Enqueue, QueT

LEMMA WriteStepMoves ==
  ASSUME Types, StoredInv, NEW b \in Block, Write(b)
  PROVE  Moves
<1>0. QueT /\ CacheT /\ WriteT
  BY DEF Types
<1>1. CASE write_block_done(b)
  <2>1. /\ UNCHANGED <<removed, cell, wobj, scan, left2scan, todo, dels, known, que, pc, hold>>
        /\ file' = file \cup {b} /\ write' = [write EXCEPT ![b] = "renamed"] /\ write[b] = "open"
    BY <1>1 DEF write_block_done, thread, nn
  <2>2. \A c \in Block : c # b => write'[c] = write[c]
    BY <1>0, <2>1 DEF WriteT
  <2>3. write'[b] = "renamed"
    BY <1>0, <2>1 DEF WriteT
  <2>4. FileMoves /\ WriteMoves
    BY <2>1, <2>2 DEF FileMoves, WriteMoves
  <2>5. NamedMoves
    BY <2>1, <2>2, <2>3 DEF NamedMoves, Reported
  <2> QED BY <2>1, <2>4, <2>5, MovesSame DEF Moves
<1>2. CASE recv_blk_report(b)
  <2>1. /\ UNCHANGED <<file, removed, scan, left2scan, todo, dels, known, que, pc, hold>>
        /\ Join(b) /\ write[b] = "renamed"
        /\ wobj' = [wobj EXCEPT ![b] = Head(free)] /\ write' = [write EXCEPT ![b] = "joined"]
    BY <1>2 DEF recv_blk_report, thread, nn
  <2>2. /\ CellMoves /\ Head(free) \in Object /\ cell'[Head(free)] = b
        /\ \A o \in Object : o # Head(free) => cell'[o] = cell[o]
    BY <1>0, <2>1, JoinMoves
  <2>3. /\ wobj'[b] = Head(free) /\ write'[b] = "joined"
        /\ \A c \in Block : c # b => wobj'[c] = wobj[c] /\ write'[c] = write[c]
    BY <1>0, <2>1 DEF WriteT
  <2>4. WriteMoves
    BY <2>3 DEF WriteMoves
  <2>5. NamedMoves
    BY <2>1, <2>2, <2>3 DEF NamedMoves, Reported
  <2> QED BY <2>1, <2>2, <2>4, <2>5, MovesSame DEF Moves
<1>3. CASE notify_nn_receivedblock(b)
  <2>1. /\ UNCHANGED <<file, removed, cell, scan, left2scan, todo, dels, known, pc, hold>>
        /\ Enqueue("recv", wobj[b]) /\ write[b] = "joined"
        /\ wobj' = [wobj EXCEPT ![b] = None] /\ write' = [write EXCEPT ![b] = "done"]
    BY <1>3 DEF notify_nn_receivedblock, thread, cache, nn
  <2>2. wobj[b] \in Object
    BY <1>0, <2>1 DEF WriteT
  <2>3. \A p \in {"recv", "blk"} : Range(que'[p]) \subseteq Range(que[p]) \cup {wobj[b]}
    BY <1>0, <2>1, <2>2, EnqueueRange
  <2>4. /\ write'[b] = "done"
        /\ \A c \in Block : c # b => wobj'[c] = wobj[c] /\ write'[c] = write[c]
    BY <1>0, <2>1 DEF WriteT
  <2>5. WriteMoves
    BY <2>4 DEF WriteMoves
  <2>6. NamedMoves
    BY <2>1, <2>3, <2>4 DEF NamedMoves, Reported
  <2> QED BY <2>1, <2>5, <2>6, MovesSame DEF Moves
<1> QED BY <1>1, <1>2, <1>3 DEF Write

LEMMA ScannerMoves ==
  ASSUME Types, StoredInv, Scanner
  PROVE  Moves
<1>0. QueT /\ CacheT /\ ScanT
  BY DEF Types
<1>1. CASE scan_dirs
  <2>1. /\ UNCHANGED <<file, removed, cell, write, wobj, scan, todo, dels, known, que, pc, hold>>
        /\ left2scan' = file
    BY <1>1 DEF scan_dirs, thread, cache, writer, nn
  <2>2. ScanMoves
    BY <2>1 DEF ScanMoves
  <2> QED BY <2>1, <2>2, MovesSame DEF Moves
<1>2. CASE \E b \in Block : scan_entry(b)
  <2>1. PICK b \in Block : scan_entry(b)
    BY <1>2
  <2>2. /\ UNCHANGED <<file, removed, cell, write, wobj, todo, dels, known, que, pc, hold>>
        /\ left2scan' = left2scan \ {b} /\ b \in left2scan
        /\ scan' = scan \/ scan' = [scan EXCEPT !.pc = "add", !.blk = b]
    BY <2>1 DEF scan_entry, thread, cache, writer, nn
  <2>3. scan' = scan \/ (scan'.pc = "add" /\ scan'.blk = b)
    BY <1>0, <2>2 DEF ScanT
  <2>4. ScanMoves
    BY <2>2, <2>3 DEF ScanMoves
  <2>5. NamedMoves
    BY <2>2, <2>3 DEF NamedMoves, Reported
  <2> QED BY <2>2, <2>4, <2>5, MovesSame DEF Moves
<1>3. CASE block_object_add
  <2>1. /\ UNCHANGED <<file, removed, write, wobj, left2scan, todo, dels, known, que, pc, hold>>
        /\ Join(scan.blk) /\ scan.pc = "add" /\ scan.blk \in Block
        /\ scan'.pc = "notify" /\ scan'.obj = Head(free)
    BY <1>0, <1>3 DEF block_object_add, thread, writer, nn, ScanT
  <2>2. PICK b \in Block : b = scan.blk
    BY <2>1
  <2>3. /\ CellMoves /\ Head(free) \in Object /\ cell'[Head(free)] = b
        /\ \A o \in Object : o # Head(free) => cell'[o] = cell[o]
    BY <1>0, <2>1, <2>2, JoinMoves
  <2>4. ScanMoves
    BY <2>1 DEF ScanMoves
  <2>5. NamedMoves
    BY <2>1, <2>3 DEF NamedMoves, Reported
  <2> QED BY <2>1, <2>3, <2>4, <2>5, MovesSame DEF Moves
<1>4. CASE notify_blk_report
  <2>1. /\ UNCHANGED <<file, removed, cell, write, wobj, left2scan, todo, dels, known, pc, hold>>
        /\ Enqueue("blk", scan.obj) /\ scan.pc = "notify" /\ scan'.pc = "readdir"
        /\ scan.obj \in Object
    BY <1>0, <1>4 DEF notify_blk_report, thread, cache, writer, nn, ScanT
  <2>2. \A p \in {"recv", "blk"} : Range(que'[p]) \subseteq Range(que[p]) \cup {scan.obj}
    BY <1>0, <2>1, EnqueueRange
  <2>3. ScanMoves
    BY <2>1 DEF ScanMoves
  <2>4. NamedMoves
    BY <2>1, <2>2 DEF NamedMoves, Reported
  <2> QED BY <2>1, <2>3, <2>4, MovesSame DEF Moves
<1> QED BY <1>1, <1>2, <1>3, <1>4 DEF Scanner

LEMMA NnMoves ==
  ASSUME Types, StoredInv, NEW n \in NameNode,
         (\E b \in Block : NnRemove(n, b)) \/ NnClose(n) \/ NnExpire(n) \/ NnRestart(n)
  PROVE  Moves
<1>0. OrderT /\ NnT /\ known \in [NameNode -> SUBSET Block]
  BY DEF Types, StoredInv, KnownInv
<1>1. UNCHANGED <<file, cell, write, wobj, scan, left2scan, todo, que, pc, hold>>
  BY DEF NnRemove, NnClose, NnExpire, NnRestart, thread, cache, writer
<1>2. CASE \E b \in Block : NnRemove(n, b)
  <2>1. PICK b \in Block : NnRemove(n, b)
    BY <1>2
  <2>2. /\ removed' = [removed EXCEPT ![n] = @ \cup {b}]
        /\ known' = [known EXCEPT ![n] = @ \ {b}]
        /\ dels' = dels \/ dels' = [dels EXCEPT ![n] = Append(@, b)]
    BY <2>1 DEF NnRemove
  <2>3. removed'[n] = removed[n] \cup {b} /\ \A m \in NameNode : removed[m] \subseteq removed'[m]
    BY <1>0, <2>2 DEF NnT
  <2>4. FileMoves
    BY <1>1, <2>3 DEF FileMoves
  <2>5. Range(Append(dels[n], b)) = Range(dels[n]) \cup {b}
    BY <1>0, AppendRange DEF OrderT
  <2>6. OrderMoves
    BY <1>0, <1>1, <2>2, <2>3, <2>5 DEF OrderMoves, OrderT
  <2>7. KnownMoves
    BY <1>0, <2>2 DEF KnownMoves
  <2> QED BY <1>1, <2>4, <2>6, <2>7, MovesSame DEF Moves
<1>3. CASE NnClose(n)
  BY <1>1, <1>3, MovesSame DEF NnClose, Moves
<1>4. CASE NnExpire(n) \/ NnRestart(n)
  <2>1. /\ UNCHANGED removed /\ dels' = [dels EXCEPT ![n] = <<>>]
        /\ known' = known \/ known' = [known EXCEPT ![n] = {}]
    BY <1>4 DEF NnExpire, NnRestart
  <2>2. Range(<<>>) = {}
    BY DEF Range
  <2>3. OrderMoves
    BY <1>0, <1>1, <2>1, <2>2 DEF OrderMoves, OrderT
  <2>4. KnownMoves
    BY <1>0, <2>1 DEF KnownMoves
  <2> QED BY <1>1, <2>1, <2>3, <2>4, MovesSame DEF Moves
<1> QED BY <1>2, <1>3, <1>4

LEMMA CrashMoves ==
  ASSUME Types, StoredInv, DnCrash
  PROVE  Moves
<1>1. UNCHANGED <<file, removed, known, dels>>
  BY DEF DnCrash
<1>2. \A n \in NameNode : todo'[n] = <<>> /\ hold'[n] = None /\ pc'[n] = "register"
  BY DEF DnCrash
<1>3. Range(<<>>) = {} /\ None \notin Block
  BY NsServiceAssumption DEF Range
<1>4. \A o \in Object : cell'[o] = None
  BY DEF DnCrash
<1>5. CellMoves
  BY <1>3, <1>4 DEF CellMoves
<1>6. \A b \in Block : write'[b] \in {"open", "done"}
  BY DEF DnCrash
<1>7. WriteMoves
  BY <1>6 DEF WriteMoves
<1>8. left2scan' = {} /\ scan'.pc = "readdir"
  BY DEF DnCrash
<1>9. ScanMoves
  BY <1>8 DEF ScanMoves
<1>10. OrderMoves
  BY <1>1, <1>2, <1>3 DEF OrderMoves
<1>11. que'["recv"] = <<>> /\ que'["blk"] = <<>>
  BY DEF DnCrash
<1>12. NamedMoves
  BY <1>2, <1>3, <1>6, <1>8, <1>11 DEF NamedMoves, Reported
<1> QED BY <1>1, <1>5, <1>7, <1>9, <1>10, <1>12, MovesSame DEF Moves

LEMMA StoredStep ==
  ASSUME Types, StoredInv, [Next]_vars
  PROVE  StoredInv'
<1>1. Types'
  BY TypesStep
<1>2. CASE \E n \in NameNode : Service(n)
  BY <1>2, ServiceMoves, MovesKeepStored, <1>1
<1>3. CASE Scanner
  BY <1>3, ScannerMoves, MovesKeepStored, <1>1
<1>4. CASE \E b \in Block : Write(b)
  BY <1>4, WriteStepMoves, MovesKeepStored, <1>1
<1>5. CASE \E n \in NameNode, b \in Block : NnRemove(n, b)
  BY <1>5, NnMoves, MovesKeepStored, <1>1
<1>6. CASE Fault
  BY <1>6, NnMoves, CrashMoves, MovesKeepStored, <1>1 DEF Fault
<1>7. CASE Tick \/ UNCHANGED vars
  <2>1. UNCHANGED <<file, removed, cell, write, wobj, scan, left2scan, todo, dels, known, que,
                    pc, hold>>
    BY <1>7 DEF Tick, vars, cache, writer, nn
  <2>2. Moves
    BY <2>1, MovesSame DEF Moves
  <2> QED BY <2>2, MovesKeepStored, <1>1
<1> QED BY <1>2, <1>3, <1>4, <1>5, <1>6, <1>7 DEF Next

LEMMA StoredInit == Init => StoredInv
<1> SUFFICES ASSUME Init PROVE StoredInv
  OBVIOUS
<1>1. Range(<<>>) = {} /\ None \notin Block
  BY NsServiceAssumption DEF Range
<1>2. CellInv
  BY <1>1 DEF Init, CellInv
<1>3. WriteInv /\ ScanInv /\ KnownInv
  BY DEF Init, WriteInv, ScanInv, KnownInv
<1>4. OrderInv
  BY <1>1 DEF Init, OrderInv
<1>5. NamedInv
  <2>1. /\ que["recv"] = <<>> /\ que["blk"] = <<>> /\ scan.pc = "readdir"
        /\ \A n \in NameNode : pc[n] = "register"
        /\ \A b \in Block : write[b] = "open"
    BY DEF Init
  <2> QED BY <1>1, <2>1 DEF NamedInv, Reported
<1> QED BY <1>2, <1>3, <1>4, <1>5 DEF StoredInv

(***************************************************************************)
(* A block that a namenode lists on this datanode has its file under       *)
(* current/, or its deletion was ordered, with any number of namenodes and *)
(* through every fault: write_block_done renames before recv_blk_report    *)
(* makes the object, the scanner reports what readdir returned, an object  *)
(* keeps a reported id until its next block, and delete_blks only acts on  *)
(* an answer.                                                              *)
(***************************************************************************)
THEOREM ListedIsStored == Spec => []KnownBlocksStored
<1>1. StoredInv => KnownBlocksStored
  BY DEF StoredInv, KnownInv, KnownBlocksStored, Kept, Ordered
<1>2. Types /\ StoredInv /\ [Next]_vars => Types' /\ StoredInv'
  BY TypesStep, StoredStep
<1> QED BY <1>1, <1>2, TypesInit, StoredInit, PTL DEF Spec

----------------------------------------------------------------------------
(* One service thread: the pool and the queues. *)

\* A step that leaves pool and cache alone: a thread goes on to free only what it
\* was about to free or found in the cache.
LEMMA PoolSame ==
  ASSUME PoolInv, UNCHANGED <<free, table>>,
         \A n \in NameNode : pc'[n] = "deleting" =>
           (pc[n] = "deleting" /\ hold'[n] = hold[n]) \/ hold'[n] \in Range(table)
  PROVE  PoolInv'
BY DEF PoolInv

\* A new object moves from the pool to the cache.
LEMMA JoinPool ==
  ASSUME CacheT, PoolInv, NEW b \in Block, Join(b), UNCHANGED <<pc, hold>>
  PROVE  PoolInv'
<1>1. /\ free \in Seq(Object) /\ free # <<>> /\ table \in Seq(Object)
      /\ free' = Tail(free) /\ table' = <<Head(free)>> \o table
      /\ IsInjective(free) /\ IsInjective(table) /\ Range(free) \cap Range(table) = {}
  BY DEF CacheT, PoolInv, Join
<1>2. /\ Head(free) \in Range(free) /\ Head(free) \in Object
      /\ Range(free') = Range(free) \ {Head(free)} /\ IsInjective(free')
  BY <1>1, TailRange
<1>3. Range(table') = Range(table) \cup {Head(free)} /\ IsInjective(table')
  <2>1. Head(free) \notin Range(table)
    BY <1>1, <1>2
  <2> QED BY <1>1, <1>2, <2>1, ConsRange
<1>4. Range(free') \cap Range(table') = {}
  BY <1>1, <1>2, <1>3
<1>5. \A n \in NameNode : pc'[n] = "deleting" => hold'[n] \in Range(table')
  BY <1>3 DEF PoolInv
<1> QED BY <1>2, <1>3, <1>4, <1>5 DEF PoolInv

\* A deleted object moves from the cache to the pool.
LEMMA DelPool ==
  ASSUME OneNameNode, Types, PoolInv, NEW n \in NameNode, block_object_del(n)
  PROVE  PoolInv' /\ bad' = bad
<1>1. /\ free \in Seq(Object) /\ table \in Seq(Object) /\ hold[n] \in Object
      /\ IsInjective(free) /\ IsInjective(table) /\ Range(free) \cap Range(table) = {}
      /\ hold[n] \in Range(table)
      /\ free' = <<hold[n]>> \o free /\ table' = Unlink(table, hold[n])
  BY DEF Types, CacheT, HoldT, PoolInv, block_object_del
<1>2. hold[n] \notin Range(free)
  BY <1>1
<1>3. Range(free') = Range(free) \cup {hold[n]} /\ IsInjective(free')
  BY <1>1, <1>2, ConsRange
<1>4. table' = Without(table, hold[n])
  BY <1>1, UnlinkProperties
<1>5. Range(table') = Range(table) \ {hold[n]} /\ IsInjective(table')
  BY <1>1, <1>4, WithoutRange
<1>6. \A m \in NameNode : pc'[m] # "deleting"
  BY DEF OneNameNode, Types, HoldT, block_object_del, Goto
<1>7. Range(free') \cap Range(table') = {}
  BY <1>1, <1>3, <1>5
<1>8. bad' = bad
  BY <1>2 DEF block_object_del
<1> QED BY <1>3, <1>5, <1>6, <1>7, <1>8 DEF PoolInv

\* A step after which no queue is empty that was not, and no thread is newly at the
\* dequeue.
LEMMA TakeSame ==
  ASSUME TakeInv,
         \A q \in {"recv", "blk"} : que[q] # <<>> => que'[q] # <<>>,
         \A n \in NameNode, q \in {"recv", "blk"} : pc'[n] = Take(q) => pc[n] = Take(q),
         bad' = bad \/ bad' = "reinit"
  PROVE  TakeInv'
BY DEF TakeInv

LEMMA EnqueueKeeps ==
  ASSUME QueT, NEW q \in {"recv", "blk"}, NEW o \in Object, Enqueue(q, o)
  PROVE  \A p \in {"recv", "blk"} : que[p] # <<>> => que'[p] # <<>>
<1>1. que[q] \in Seq(Object)
  BY DEF QueT
<1>2. Append(que[q], o) # <<>>
  BY <1>1
<1> QED BY <1>2 DEF Enqueue, QueT

\* A thread that goes where it neither frees nor takes.
LEMMA GotoAlone ==
  ASSUME HoldT, PoolInv, TakeInv, NEW n \in NameNode, NEW to,
         to \notin {"deleting", "recv_take", "blk_take"}, Goto(n, to),
         \A m \in NameNode : m # n => hold'[m] = hold[m], UNCHANGED <<free, table, que, bad>>
  PROVE  PoolInv' /\ TakeInv'
<1>1. pc'[n] = to /\ \A m \in NameNode : m # n => pc'[m] = pc[m]
  BY DEF Goto, HoldT
<1>2. PoolInv'
  BY <1>1, PoolSame
<1>3. \A q \in {"recv", "blk"} : Take(q) \in {"recv_take", "blk_take"}
  BY DEF Take
<1>4. TakeInv'
  BY <1>1, <1>3, TakeSame
<1> QED BY <1>2, <1>4

LEMMA ServiceAlone ==
  ASSUME OneNameNode, Types, PoolInv, TakeInv, NEW n \in NameNode, Service(n)
  PROVE  PoolInv' /\ TakeInv'
<1>0. HoldT /\ OrderT /\ QueT /\ CacheT /\ \A m \in NameNode : m = n
  BY DEF Types, OneNameNode
<1>1. CASE dn_register(n) \/ ns_sleep(n) \/ start_wait(n) \/ end_wait(n) \/ send_heartbeat(n)
  <2>1. /\ UNCHANGED <<free, table, que, bad>>
        /\ \/ Goto(n, "heartbeat") \/ Goto(n, "sleep") \/ Goto(n, "register") \/ Goto(n, "waiting")
           \/ Goto(n, "delete") \/ Goto(n, "recv")
    BY <1>1 DEF dn_register, ns_sleep, start_wait, end_wait, ReadClock, send_heartbeat, cache
  <2> QED BY <1>0, <2>1, GotoAlone
<1>2. CASE block_object_del_unlink(n)
  <2>1. UNCHANGED <<free, table, que, bad>>
    BY <1>2 DEF block_object_del_unlink
  <2>2. CASE Goto(n, "recv")
    BY <1>0, <2>1, <2>2, GotoAlone
  <2>3. CASE UNCHANGED <<pc, hold>>
    BY <2>1, <2>3, PoolSame, TakeSame
  <2>4. CASE /\ lookup(Head(todo[n])) # None /\ Goto(n, "deleting")
             /\ hold' = [hold EXCEPT ![n] = lookup(Head(todo[n]))]
    <3>1. lookup(Head(todo[n])) \in Range(table)
      BY <1>0, <2>4, LookupType
    <3>2. hold'[n] \in Range(table) /\ pc'[n] = "deleting"
      BY <1>0, <2>4, <3>1 DEF HoldT, Goto
    <3>3. PoolInv'
      BY <1>0, <2>1, <3>2, PoolSame
    <3>4. TakeInv'
      <4>1. \A q \in {"recv", "blk"} : Take(q) # "deleting"
        BY DEF Take
      <4> QED BY <1>0, <2>1, <3>2, <4>1, TakeSame
    <3> QED BY <3>3, <3>4
  <2> QED BY <1>2, <2>2, <2>3, <2>4 DEF block_object_del_unlink
<1>3. CASE block_object_del(n)
  <2>1. PoolInv' /\ bad' = bad
    BY <1>3, DelPool
  <2>2. que' = que /\ pc'[n] = "delete"
    BY <1>0, <1>3 DEF block_object_del, Goto, HoldT
  <2>3. \A q \in {"recv", "blk"} : Take(q) # "delete"
    BY DEF Take
  <2> QED BY <1>0, <2>1, <2>2, <2>3, TakeSame
<1>4. CASE \E q \in {"recv", "blk"} : check_report(n, q)
  <2>1. PICK q \in {"recv", "blk"} : check_report(n, q)
    BY <1>4
  <2>2. UNCHANGED <<free, table, que, bad, hold>>
    BY <2>1 DEF check_report, cache
  <2>3. CASE Len(que[q]) > 0 /\ Goto(n, Take(q))
    <3>1. que[q] # <<>>
      BY <1>0, <2>3 DEF QueT
    <3>2. pc'[n] = Take(q) /\ \A p \in {"recv", "blk"} : Take(p) = Take(q) => p = q
      BY <1>0, <2>3 DEF Goto, HoldT, Take
    <3>3. TakeInv'
      BY <1>0, <2>2, <3>1, <3>2 DEF TakeInv
    <3>4. pc'[n] # "deleting"
      BY <3>2 DEF Take
    <3> QED BY <1>0, <2>2, <3>3, <3>4, PoolSame
  <2>4. CASE Goto(n, Then(q))
    <3>1. Then(q) \notin {"deleting", "recv_take", "blk_take"}
      BY DEF Then
    <3> QED BY <1>0, <2>2, <2>4, <3>1, GotoAlone
  <2> QED BY <2>1, <2>3, <2>4 DEF check_report
<1>5. CASE \E q \in {"recv", "blk"} : take_report(n, q)
  <2>1. PICK q \in {"recv", "blk"} : take_report(n, q)
    BY <1>5
  <2>2. que[q] # <<>>
    BY <2>1 DEF TakeInv, take_report
  <2>3. /\ UNCHANGED <<free, table, bad>> /\ pc'[n] = Send(q)
    BY <1>0, <2>1, <2>2 DEF take_report, cache, Goto, HoldT
  <2>4. /\ Send(q) # "deleting"
        /\ \A p \in {"recv", "blk"} : Take(p) # Send(q)
    BY DEF Send, Take
  <2>5. TakeInv'
    BY <1>0, <2>3, <2>4 DEF TakeInv
  <2> QED BY <1>0, <2>3, <2>4, <2>5, PoolSame
<1>6. CASE \E q \in {"recv", "blk"} : send_report(n, q)
  <2>1. PICK q \in {"recv", "blk"} : send_report(n, q)
    BY <1>6
  <2>2. /\ UNCHANGED <<free, table, que, bad>>
        /\ Goto(n, Then(q)) \/ Goto(n, "register")
    BY <2>1 DEF send_report, cache
  <2>3. Then(q) \notin {"deleting", "recv_take", "blk_take"}
    BY DEF Then
  <2> QED BY <1>0, <2>2, <2>3, GotoAlone
<1> QED BY <1>1, <1>2, <1>3, <1>4, <1>5, <1>6 DEF Service

\* The other steps take no report and free no object.
LEMMA OthersAlone ==
  ASSUME Types, PoolInv, TakeInv,
         \/ Scanner \/ Fault \/ Tick \/ UNCHANGED vars \/ \E b \in Block : Write(b)
         \/ \E n \in NameNode, b \in Block : NnRemove(n, b)
  PROVE  PoolInv' /\ TakeInv'
<1>0. QueT /\ CacheT /\ ScanT /\ WriteT
  BY DEF Types
<1>1. CASE UNCHANGED <<pc, hold, free, table, que, bad>>
  BY <1>1, PoolSame, TakeSame
<1>2. CASE \E b \in Block : UNCHANGED <<pc, hold, que>> /\ Join(b)
  <2>1. PICK b \in Block : UNCHANGED <<pc, hold, que>> /\ Join(b)
    BY <1>2
  <2>2. bad' = bad \/ bad' = "reinit"
    BY <2>1 DEF Join
  <2> QED BY <1>0, <2>1, <2>2, JoinPool, TakeSame
<1>3. CASE \E q \in {"recv", "blk"}, o \in Object :
             UNCHANGED <<pc, hold, free, table, bad>> /\ Enqueue(q, o)
  BY <1>0, <1>3, EnqueueKeeps, PoolSame, TakeSame
<1>4. CASE DnCrash
  <2>1. /\ free' = SetToSeq(Object) /\ table' = <<>> /\ \A n \in NameNode : pc'[n] = "register"
        /\ bad' = bad
    BY <1>4 DEF DnCrash
  <2>2. IsInjective(free') /\ IsInjective(table') /\ Range(table') = {}
    <3>1. IsInjective(SetToSeq(Object))
      BY SetToSeqRange, NsServiceAssumption
    <3>2. IsInjective(<<>>) /\ Range(<<>>) = {}
      BY DEF IsInjective, Range
    <3> QED BY <2>1, <3>1, <3>2
  <2>3. PoolInv'
    BY <2>1, <2>2 DEF PoolInv
  <2>4. \A q \in {"recv", "blk"} : Take(q) # "register"
    BY DEF Take
  <2> QED BY <2>1, <2>3, <2>4 DEF TakeInv
<1>5. \/ UNCHANGED <<pc, hold, free, table, que, bad>>
      \/ \E b \in Block : UNCHANGED <<pc, hold, que>> /\ Join(b)
      \/ \E q \in {"recv", "blk"}, o \in Object :
           UNCHANGED <<pc, hold, free, table, bad>> /\ Enqueue(q, o)
      \/ DnCrash
  <2>1. CASE Scanner
    <3>1. CASE scan_dirs \/ \E b \in Block : scan_entry(b)
      BY <3>1 DEF scan_dirs, scan_entry, thread, cache
    <3>2. CASE block_object_add
      BY <1>0, <3>2 DEF ScanT, block_object_add, thread
    <3>3. CASE notify_blk_report
      BY <1>0, <3>3 DEF ScanT, notify_blk_report, thread, cache
    <3> QED BY <2>1, <3>1, <3>2, <3>3 DEF Scanner
  <2>2. CASE \E b \in Block : Write(b)
    <3>1. PICK b \in Block : Write(b)
      BY <2>2
    <3>2. CASE write_block_done(b)
      BY <3>2 DEF write_block_done, thread
    <3>3. CASE recv_blk_report(b)
      BY <3>3 DEF recv_blk_report, thread
    <3>4. CASE notify_nn_receivedblock(b)
      BY <1>0, <3>4 DEF WriteT, notify_nn_receivedblock, thread, cache
    <3> QED BY <3>1, <3>2, <3>3, <3>4 DEF Write
  <2>3. CASE Fault \/ Tick
    BY <2>3 DEF Fault, NnClose, NnExpire, NnRestart, Tick, thread, cache
  <2>4. CASE (\E n \in NameNode, b \in Block : NnRemove(n, b)) \/ UNCHANGED vars
    BY <2>4 DEF NnRemove, vars, thread, cache
  <2> QED BY <2>1, <2>2, <2>3, <2>4
<1> QED BY <1>1, <1>2, <1>3, <1>4, <1>5

LEMMA AloneInit == Init => PoolInv /\ TakeInv
<1> SUFFICES ASSUME Init PROVE PoolInv /\ TakeInv
  OBVIOUS
<1>1. IsInjective(free)
  BY SetToSeqRange, NsServiceAssumption DEF Init
<1>2. IsInjective(table) /\ Range(table) = {}
  <2>1. IsInjective(<<>>) /\ Range(<<>>) = {}
    BY DEF IsInjective, Range
  <2> QED BY <2>1 DEF Init
<1>3. /\ \A n \in NameNode : pc[n] = "register"
      /\ bad = None /\ \A q \in {"recv", "blk"} : Take(q) # "register"
  BY DEF Init, Take
<1> QED BY <1>1, <1>2, <1>3 DEF PoolInv, TakeInv, None

(***************************************************************************)
(* With one namenode configured, offer_service's unlocked look at num is   *)
(* enough: receivedblock_report and block_report never take the head of an *)
(* empty queue, and delete_blks never frees an object twice, whatever      *)
(* network threads, scanner, crashes and restarts do in between.           *)
(***************************************************************************)
THEOREM OneThreadSound ==
  ASSUME OneNameNode
  PROVE  Spec => []QueuesSound
<1>1. Types /\ StoredInv /\ PoolInv /\ TakeInv => QueuesSound
  <2> SUFFICES ASSUME Types, StoredInv, PoolInv, TakeInv PROVE QueuesSound
    OBVIOUS
  <2>1. TypeOK
    BY DEF Types, ClockT, HoldT, OrderT, QueT, CacheT, WriteT, ScanT, FileT, BadT, NnT, FaultT,
           StoredInv, KnownInv, TypeOK
  <2> QED BY <2>1 DEF TakeInv, QueuesSound
<1>2. Types /\ PoolInv /\ TakeInv /\ [Next]_vars => PoolInv' /\ TakeInv'
  BY OneNameNode, ServiceAlone, OthersAlone DEF Next
<1>3. Types /\ StoredInv /\ [Next]_vars => Types' /\ StoredInv'
  BY TypesStep, StoredStep
<1> QED BY <1>1, <1>2, <1>3, TypesInit, StoredInit, AloneInit, PTL DEF Spec

=============================================================================
