---------------------------- MODULE DnIndexProofs ----------------------------
(***************************************************************************)
(* Proofs about the namenode's index of datanodes (DnIndex.tla), for any   *)
(* number of datanodes, blocks and stores, any timeout and any             *)
(* DELETING_BLK_FOR_ONCE.  They assume that no datanode's key begins with  *)
(* the key of another one in its hash bucket (NoAlias): without it         *)
(* get_dn_store_obj may return the store of another datanode.              *)
(***************************************************************************)
EXTENDS DnIndex, SequenceLemmas

NoAlias == \A d \in DataNode : Alias[d] = {}

LEMMA UnlinkRange ==
  ASSUME NEW S, NEW q \in Seq(S), IsInjective(q), NEW x \in Range(q)
  PROVE  /\ Unlink(q, x) \in Seq(S)
         /\ Range(Unlink(q, x)) = Range(q) \ {x}
         /\ IsInjective(Unlink(q, x))
<1>1. Unlink(q, x) = Without(q, x)
  BY Zenon DEF Unlink, Without
<1> QED BY <1>1, WithoutRange

-----------------------------------------------------------------------------
(* The inductive invariant. *)

\* Every store is in exactly one place: the pool, the index, or the hands of the
\* task thread that destroys it.
Places ==
  /\ IsInjective(table) /\ IsInjective(dnq) /\ IsInjective(free)
  /\ Range(table) = Range(dnq)
  /\ Range(dnq) \cap Range(free) = {}
  /\ \A s \in Store : \/ s \in Range(dnq) \/ s \in Range(free)
                       \/ \E d \in DataNode : task[d].pc = "dead" /\ task[d].st = s

\* Stores in the index have an owner, each its own.
Owned ==
  /\ \A s \in Range(dnq) : owner[s] \in DataNode
  /\ \A s, t \in Range(dnq) : owner[s] = owner[t] => s = t

\* What the task thread of a datanode does, it does with a store of that datanode:
\* one that has left the index, or one still in it.
Tasks ==
  /\ \A d \in DataNode : task[d].pc = "dead" =>
       /\ task[d].st \in Store /\ owner[task[d].st] = d
       /\ task[d].st \notin Range(dnq) /\ task[d].st \notin Range(free)
       /\ \A s \in Range(dnq) : owner[s] # d
  /\ \A d \in DataNode : task[d].pc = "beat" =>
       /\ task[d].st \in Range(dnq) /\ owner[task[d].st] = d
       /\ task[d].n <= Len(delBlk[task[d].st])

\* The entry that a removal is about to take is still there, at the same distance
\* from the oldest.
Removing ==
  /\ px.pc # "idle" => px.blk \in Block /\ px.nth \in 1 .. Len(index[px.blk])
  /\ px.pc = "insert" => px.st \in Store

StoreInv == TypeOK /\ Places /\ Owned /\ Tasks /\ Removing

-----------------------------------------------------------------------------
(* get_dn_store_obj. *)

\* Without aliases the store found is the one of the datanode that was asked for,
\* and none is found only if the index has none.
LEMMA StoreFound ==
  ASSUME NoAlias, StoreInv, NEW d \in DataNode
  PROVE  LET s == get_dn_store_obj(d) IN
         \/ s = None /\ \A t \in Range(dnq) : owner[t] # d
         \/ s # None /\ s \in Range(dnq) /\ s \in Store /\ owner[s] = d
<1> DEFINE at == {i \in DOMAIN table : owner[table[i]] \in {d} \cup Alias[d]}
<1>1. at = {i \in 1 .. Len(table) : owner[table[i]] = d}
  BY SMTT(60) DEF NoAlias, StoreInv, TypeOK
<1>2. /\ table \in Seq(Store) /\ Range(table) = Range(dnq) /\ Range(table) \subseteq Store
      /\ \A i \in 1 .. Len(table) : table[i] \in Range(table)
      /\ \A x \in Range(table) : \E i \in 1 .. Len(table) : x = table[i]
  BY RangePositions DEF StoreInv, TypeOK, Places
<1>3. CASE at = {}
  <2>1. get_dn_store_obj(d) = None
    BY <1>3 DEF get_dn_store_obj
  <2>2. \A t \in Range(dnq) : owner[t] # d
    BY <1>1, <1>2, <1>3
  <2> QED BY <2>1, <2>2
<1>4. CASE at # {}
  <2>1. PICK i \in at : TRUE
    BY <1>4
  <2>2. ASSUME NEW j \in at PROVE j = i
    <3>1. owner[table[i]] = owner[table[j]] /\ table[i] \in Range(dnq) /\ table[j] \in Range(dnq)
      BY <1>1, <1>2, <2>1, <2>2
    <3>2. table[i] = table[j]
      BY <3>1 DEF StoreInv, Owned
    <3> QED BY <3>2, <1>1, <1>2, <2>1 DEF StoreInv, Places, IsInjective
  <2>3. i = CHOOSE k \in at : \A j \in at : k <= j
    <3>1. \A j \in at : i <= j
      BY <2>2, <2>1, <1>1
    <3> QED BY <3>1, <2>1, <2>2
  <2>4. get_dn_store_obj(d) = table[i]
    BY <1>4, <2>3 DEF get_dn_store_obj
  <2>5. table[i] \in Range(dnq) /\ table[i] \in Store /\ owner[table[i]] = d
    BY <1>1, <1>2, <2>1
  <2>6. table[i] # None
    BY <2>5, DnIndexAssumption
  <2> QED BY <2>4, <2>5, <2>6
<1> QED BY <1>3, <1>4

-----------------------------------------------------------------------------
(* The steps. *)

\* The namenode starts with every store in the pool.
LEMMA StoreInvInit == Init => StoreInv
<1> SUFFICES ASSUME Init PROVE StoreInv
  OBVIOUS
<1>1. free \in Seq(Store) /\ IsInjective(free) /\ Range(free) = Store
  BY DnIndexAssumption, SetToSeqRange DEF Init
<1>2. Range(table) = {} /\ Range(dnq) = {} /\ IsInjective(table) /\ IsInjective(dnq)
  BY DEF Init, Range, IsInjective
<1>3. TypeOK
  BY <1>1, DnIndexAssumption DEF Init, TypeOK, Idle, Done, Never
<1>4. Places
  BY <1>1, <1>2 DEF Places
<1>5. Owned /\ Tasks /\ Removing
  BY <1>2 DEF Init, Owned, Tasks, Removing, Idle, Done
<1> QED BY <1>3, <1>4, <1>5 DEF StoreInv

\* A queue of ids of one store, or the list of ids sent to one datanode, is replaced.
LEMMA ReplaceIds ==
  ASSUME NEW D, NEW f \in [D -> Seq(Block)], NEW x, NEW q \in Seq(Block)
  PROVE  /\ [f EXCEPT ![x] = q] \in [D -> Seq(Block)]
         /\ \A y \in D : [f EXCEPT ![x] = q][y] = IF y = x THEN q ELSE f[y]
<1> DEFINE T == Seq(Block)
<1>1. f \in [D -> T] /\ q \in T
  OBVIOUS
<1> HIDE DEF T
<1>2. /\ [f EXCEPT ![x] = q] \in [D -> T]
      /\ \A y \in D : [f EXCEPT ![x] = q][y] = IF y = x THEN q ELSE f[y]
  BY <1>1
<1> QED BY <1>2 DEF T

\* Clocks stay in their range when they are set.
LEMMA ClockTypes ==
  /\ DnTimeout \in 0 .. DnTimeout /\ 0 \in 0 .. Never /\ Never \in Nat
  /\ \A f \in [Store -> 0 .. DnTimeout] : \A s :
       [f EXCEPT ![s] = DnTimeout] \in [Store -> 0 .. DnTimeout]
  /\ \A f \in [DataNode -> 0 .. Never] : \A d :
       [f EXCEPT ![d] = 0] \in [DataNode -> 0 .. Never]
<1>1. DnTimeout \in 0 .. DnTimeout /\ 0 \in 0 .. Never /\ Never \in Nat
  BY DnIndexAssumption DEF Never
<1> QED BY <1>1

\* A registration takes a store from the pool only for a datanode that has none.
LEMMA RegisterStep ==
  ASSUME NoAlias, StoreInv, NEW d \in DataNode, nn_dn_register(d)
  PROVE  StoreInv'
<1> USE DEF StoreInv
<1>1. task[d].pc = "idle" /\ UNCHANGED <<task, index, placed, rmd, px, given, sent>>
      /\ heard' = [heard EXCEPT ![d] = 0]
  BY DEF nn_dn_register, Answered
<1>2. CASE get_dn_store_obj(d) # None
  <2>1. UNCHANGED stores /\ timer' = [timer EXCEPT ![get_dn_store_obj(d)] = DnTimeout]
    BY <1>2 DEF nn_dn_register, dn_timer_update
  <2>2. timer' \in [Store -> 0 .. DnTimeout] /\ heard' \in [DataNode -> 0 .. Never]
    BY <1>1, <2>1, ClockTypes DEF TypeOK
  <2>3. TypeOK'
    BY <1>1, <2>1, <2>2 DEF TypeOK, stores
  <2> QED BY <1>1, <2>1, <2>3 DEF stores, Places, Owned, Tasks, Removing
<1>3. CASE get_dn_store_obj(d) = None
  <2> DEFINE new == Head(free)
  <2>1. /\ free # <<>> /\ free' = Tail(free)
        /\ owner' = [owner EXCEPT ![new] = d]
        /\ delBlk' = [delBlk EXCEPT ![new] = <<>>]
        /\ table' = <<new>> \o table /\ dnq' = Append(dnq, new)
        /\ timer' = [timer EXCEPT ![new] = DnTimeout]
    BY <1>3 DEF nn_dn_register, dn_timer_update
  <2>2. /\ new \in Range(free) /\ Tail(free) \in Seq(Store)
        /\ Range(Tail(free)) = Range(free) \ {new} /\ IsInjective(Tail(free))
    BY <2>1, TailRange DEF TypeOK, Places
  <2>3. Range(free) \subseteq Store /\ Range(dnq) \subseteq Store
    BY RangePositions DEF TypeOK
  <2>4. new \in Store /\ new \notin Range(dnq) /\ new \notin Range(table)
    BY <2>2, <2>3 DEF Places
  <2>5. \A t \in Range(dnq) : owner[t] # d
    BY <1>3, StoreFound
  <2> HIDE DEF new
  <2>6. /\ dnq' \in Seq(Store) /\ Range(dnq') = Range(dnq) \cup {new} /\ IsInjective(dnq')
    BY <2>1, <2>4, AppendRange DEF TypeOK, Places
  <2>7. /\ table' \in Seq(Store) /\ Range(table') = Range(table) \cup {new}
        /\ IsInjective(table')
    BY <2>1, <2>4, ConsRange, SMTT(60) DEF TypeOK, Places
  <2>8. TypeOK'
    <3>1. timer' \in [Store -> 0 .. DnTimeout] /\ heard' \in [DataNode -> 0 .. Never]
      BY <1>1, <2>1, ClockTypes DEF TypeOK
    <3>2. owner' \in [Store -> DataNode \cup {None}]
      BY <2>1 DEF TypeOK
    <3>3. delBlk' \in [Store -> Seq(Block)]
      BY <2>1, EmptySeq, ReplaceIds DEF TypeOK
    <3> QED BY <1>1, <2>1, <2>2, <2>6, <2>7, <3>1, <3>2, <3>3 DEF TypeOK
  <2>9. Places'
    BY <1>1, <2>1, <2>2, <2>3, <2>6, <2>7 DEF Places
  <2> DEFINE At(x) == owner'[x] = (IF x = new THEN d ELSE owner[x]) /\
                      delBlk'[x] = (IF x = new THEN <<>> ELSE delBlk[x])
  <2>13. \A x \in Store : At(x)
    BY <2>1 DEF TypeOK
  <2>10. Owned'
    BY <2>13, <2>3, <2>4, <2>5, <2>6 DEF Owned
  <2>11. Tasks'
    <3>1. ASSUME NEW e \in DataNode, task[e].pc = "dead"
          PROVE  /\ task[e].st \in Store /\ owner'[task[e].st] = e
                 /\ task[e].st \notin Range(dnq') /\ task[e].st \notin Range(free')
                 /\ \A s \in Range(dnq') : owner'[s] # e
      <4>1. e # d /\ task[e].st # new
        BY <1>1, <2>2, <3>1 DEF Tasks
      <4> QED BY <4>1, <2>1, <2>13, <2>2, <2>3, <2>6, <3>1 DEF Tasks
    <3>2. ASSUME NEW e \in DataNode, task[e].pc = "beat"
          PROVE  /\ task[e].st \in Range(dnq') /\ owner'[task[e].st] = e
                 /\ task[e].n <= Len(delBlk'[task[e].st])
      BY <2>13, <2>3, <2>4, <2>6, <3>2 DEF Tasks
    <3> QED BY <1>1, <3>1, <3>2 DEF Tasks
  <2>12. Removing'
    BY <1>1 DEF Removing
  <2> QED BY <2>8, <2>9, <2>10, <2>11, <2>12
<1> QED BY <1>2, <1>3

\* A heartbeat counts the ids of the datanode's own store.
LEMMA HeartbeatStep ==
  ASSUME NoAlias, StoreInv, NEW d \in DataNode, nn_dn_heartbeat(d)
  PROVE  StoreInv'
<1> USE DEF StoreInv
<1> DEFINE s == get_dn_store_obj(d)
           m == IF Len(delBlk[s]) > DeleteOnce THEN DeleteOnce ELSE Len(delBlk[s])
<1>1. s \in Range(dnq) /\ s \in Store /\ owner[s] = d
  BY StoreFound DEF nn_dn_heartbeat
<1>2. /\ task[d].pc = "idle"
      /\ task' = [task EXCEPT ![d] = [pc |-> "beat", st |-> s, n |-> m]]
      /\ timer' = [timer EXCEPT ![s] = DnTimeout] /\ heard' = [heard EXCEPT ![d] = 0]
      /\ UNCHANGED <<stores, index, placed, rmd, px, given, sent>>
  BY DEF nn_dn_heartbeat, dn_timer_update, Answered
<1> HIDE DEF s
<1>3. m \in 0 .. DeleteOnce /\ m <= Len(delBlk[s])
  BY <1>1, DnIndexAssumption DEF TypeOK
<1> HIDE DEF m
<1>4. TypeOK'
  <2>1. timer' \in [Store -> 0 .. DnTimeout] /\ heard' \in [DataNode -> 0 .. Never]
    BY <1>2, ClockTypes DEF TypeOK
  <2>2. task' \in [DataNode -> [pc : {"idle", "beat", "dead"}, st : Store \cup {None},
                              n : 0 .. DeleteOnce]]
    BY <1>1, <1>2, <1>3 DEF TypeOK
  <2> QED BY <1>2, <2>1, <2>2 DEF TypeOK, stores
<1>5. /\ task'[d].pc = "beat" /\ task'[d].st = s /\ task'[d].n = m
      /\ \A e \in DataNode : e # d => task'[e] = task[e]
  BY <1>2 DEF TypeOK
<1>6. Places'
  <2>1. \A x \in Store : (\E e \in DataNode : task[e].pc = "dead" /\ task[e].st = x)
                     => (\E e \in DataNode : task'[e].pc = "dead" /\ task'[e].st = x)
    BY <1>2, <1>5
  <2> QED BY <1>2, <2>1 DEF Places, stores
<1>7. Tasks'
  BY <1>1, <1>2, <1>3, <1>5 DEF Tasks, stores
<1>8. Owned' /\ Removing'
  BY <1>2 DEF Owned, Removing, stores
<1> QED BY <1>4, <1>6, <1>7, <1>8

\* The answer takes the ids counted, which are still there: only the datanode's own
\* task thread takes ids from its store.
LEMMA AnswerStep ==
  ASSUME StoreInv, NEW d \in DataNode, heartbeat_answer(d)
  PROVE  StoreInv'
<1> USE DEF StoreInv
<1> DEFINE s == task[d].st
           n == task[d].n
<1>1. /\ task[d].pc = "beat"
      /\ delBlk' = [delBlk EXCEPT ![s] = SubSeq(@, n + 1, Len(@))]
      /\ given' = [given EXCEPT ![d] = @ \o SubSeq(delBlk[s], 1, n)]
      /\ task' = [task EXCEPT ![d] = Idle]
      /\ UNCHANGED <<owner, free, table, dnq, timer, index, placed, rmd, px, sent, heard>>
  BY DEF heartbeat_answer
<1>2. s \in Store /\ s \in Range(dnq) /\ owner[s] = d /\ n \in 0 .. Len(delBlk[s])
  BY <1>1, RangePositions, DnIndexAssumption DEF Tasks, TypeOK
<1> HIDE DEF s, n
<1>3. SubSeq(delBlk[s], n + 1, Len(delBlk[s])) \in Seq(Block) /\ SubSeq(delBlk[s], 1, n) \in Seq(Block)
  <2>1. delBlk[s] \in Seq(Block)
    BY <1>2 DEF TypeOK
  <2>2. \A i \in n + 1 .. Len(delBlk[s]) : delBlk[s][i] \in Block
    BY <2>1, <1>2
  <2>3. \A i \in 1 .. n : delBlk[s][i] \in Block
    BY <2>1, <1>2
  <2> QED BY <2>1, <2>2, <2>3, <1>2, SubSeqProperties
<1>4. TypeOK'
  <2>1. given[d] \o SubSeq(delBlk[s], 1, n) \in Seq(Block)
    BY <1>3, ConcatProperties DEF TypeOK
  <2>3. delBlk' \in [Store -> Seq(Block)] /\ given' \in [DataNode -> Seq(Block)]
    BY <1>1, <1>3, <2>1, ReplaceIds DEF TypeOK
  <2>2. task' \in [DataNode -> [pc : {"idle", "beat", "dead"}, st : Store \cup {None},
                              n : 0 .. DeleteOnce]]
    BY <1>1, DnIndexAssumption DEF TypeOK, Idle
  <2> QED BY <1>1, <2>2, <2>3 DEF TypeOK
<1>5. task'[d].pc = "idle" /\ \A e \in DataNode : e # d => task'[e] = task[e]
  BY <1>1 DEF TypeOK, Idle
<1>6. Places'
  <2>1. \A x \in Store : (\E e \in DataNode : task[e].pc = "dead" /\ task[e].st = x)
                     => (\E e \in DataNode : task'[e].pc = "dead" /\ task'[e].st = x)
    BY <1>1, <1>5
  <2> QED BY <1>1, <2>1 DEF Places
<1>7. Tasks'
  <2>1. ASSUME NEW e \in DataNode, e # d, task[e].pc = "beat"
        PROVE  delBlk'[task[e].st] = delBlk[task[e].st]
    BY <1>1, <1>2, <2>1 DEF Tasks, TypeOK
  <2>2. ASSUME NEW e \in DataNode, task'[e].pc = "beat"
        PROVE  /\ task'[e].st \in Range(dnq) /\ owner[task'[e].st] = e
               /\ task'[e].n <= Len(delBlk'[task'[e].st])
    BY <1>5, <2>1, <2>2 DEF Tasks
  <2>3. ASSUME NEW e \in DataNode, task'[e].pc = "dead"
        PROVE  /\ task'[e].st \in Store /\ owner[task'[e].st] = e
               /\ task'[e].st \notin Range(dnq) /\ task'[e].st \notin Range(free)
               /\ \A t \in Range(dnq) : owner[t] # e
    <3>1. task'[e] = task[e]
      BY <2>3, <1>5
    <3> QED BY <2>3, <3>1 DEF Tasks
  <2>4. UNCHANGED <<owner, dnq, free>>
    BY <1>1
  <2> QED BY <2>2, <2>3, <2>4 DEF Tasks
<1>8. Owned' /\ Removing'
  BY <1>1 DEF Owned, Removing
<1> QED BY <1>4, <1>6, <1>7, <1>8

\* The timer takes the store of an idle datanode out of both lists.
LEMMA TimeoutStep ==
  ASSUME StoreInv, NEW s \in Store, dn_timeout_handler(s)
  PROVE  StoreInv'
<1> USE DEF StoreInv
<1> DEFINE d == owner[s]
<1>1. /\ s \in Range(dnq) /\ task[d].pc = "idle"
      /\ table' = Unlink(table, s) /\ dnq' = Unlink(dnq, s)
      /\ task' = [task EXCEPT ![d] = [pc |-> "dead", st |-> s, n |-> 0]]
      /\ UNCHANGED <<owner, delBlk, free, timer, index, placed, rmd, px, given, sent, heard>>
  BY DEF dn_timeout_handler
<1>2. d \in DataNode /\ \A t \in Range(dnq) : owner[t] = d => t = s
  BY <1>1 DEF Owned
<1>3. /\ dnq' \in Seq(Store) /\ Range(dnq') = Range(dnq) \ {s} /\ IsInjective(dnq')
  BY <1>1, UnlinkRange DEF TypeOK, Places
<1>4. /\ table' \in Seq(Store) /\ Range(table') = Range(table) \ {s} /\ IsInjective(table')
  BY <1>1, UnlinkRange DEF TypeOK, Places
<1>5. /\ task'[d].pc = "dead" /\ task'[d].st = s
      /\ \A e \in DataNode : e # d => task'[e] = task[e]
  BY <1>1, <1>2 DEF TypeOK
<1>6. TypeOK'
  <2> HIDE DEF d
  <2>2. 0 \in 0 .. DeleteOnce
    BY DnIndexAssumption
  <2>1. task' \in [DataNode -> [pc : {"idle", "beat", "dead"}, st : Store \cup {None},
                              n : 0 .. DeleteOnce]]
    BY <1>1, <1>2, <2>2 DEF TypeOK
  <2> QED BY <1>1, <1>3, <1>4, <2>1 DEF TypeOK
<1>7. Places'
  <2>1. \A x \in Store : (\E e \in DataNode : task[e].pc = "dead" /\ task[e].st = x)
                     => (\E e \in DataNode : task'[e].pc = "dead" /\ task'[e].st = x)
    BY <1>1, <1>5
  <2>2. \E e \in DataNode : task'[e].pc = "dead" /\ task'[e].st = s
    BY <1>2, <1>5
  <2> QED BY <1>1, <1>3, <1>4, <2>1, <2>2 DEF Places
<1> HIDE DEF d
<1>8. Tasks'
  <2>1. s \notin Range(free) /\ owner[s] = d
    BY <1>1 DEF Places, d
  <2>2. ASSUME NEW e \in DataNode, task'[e].pc = "dead"
        PROVE  /\ task'[e].st \in Store /\ owner[task'[e].st] = e
               /\ task'[e].st \notin Range(dnq') /\ task'[e].st \notin Range(free)
               /\ \A t \in Range(dnq') : owner[t] # e
    <3>1. CASE e = d
      BY <3>1, <1>2, <1>3, <1>5, <2>1
    <3>2. CASE e # d
      BY <3>2, <2>2, <1>3, <1>5 DEF Tasks
    <3> QED BY <3>1, <3>2
  <2>3. ASSUME NEW e \in DataNode, task'[e].pc = "beat"
        PROVE  /\ task'[e].st \in Range(dnq') /\ owner[task'[e].st] = e
               /\ task'[e].n <= Len(delBlk[task'[e].st])
    <3>1. e # d /\ task'[e] = task[e]
      BY <2>3, <1>5
    <3> QED BY <3>1, <2>1, <2>3, <1>3 DEF Tasks
  <2> QED BY <1>1, <2>2, <2>3 DEF Tasks
<1>9. Owned' /\ Removing'
  BY <1>1, <1>3 DEF Owned, Removing
<1> QED BY <1>6, <1>7, <1>8, <1>9

\* dn_store_destroy gives the store back once.
LEMMA DestroyStep ==
  ASSUME StoreInv, NEW d \in DataNode, dn_store_destroy(d)
  PROVE  StoreInv'
<1> USE DEF StoreInv
<1> DEFINE s == task[d].st
<1>1. /\ task[d].pc = "dead" /\ free' = <<s>> \o free /\ task' = [task EXCEPT ![d] = Idle]
      /\ UNCHANGED <<owner, delBlk, table, dnq, timer, index, placed, rmd, px, given, sent,
                     heard>>
  BY DEF dn_store_destroy
<1>2. s \in Store /\ owner[s] = d /\ s \notin Range(dnq) /\ s \notin Range(free)
  BY <1>1 DEF Tasks
<1>3. /\ free' \in Seq(Store) /\ Range(free') = Range(free) \cup {s} /\ IsInjective(free')
  BY <1>1, <1>2, ConsRange DEF TypeOK, Places
<1>4. task'[d].pc = "idle" /\ \A e \in DataNode : e # d => task'[e] = task[e]
  BY <1>1 DEF TypeOK, Idle
<1>5. TypeOK'
  <2>1. task' \in [DataNode -> [pc : {"idle", "beat", "dead"}, st : Store \cup {None},
                              n : 0 .. DeleteOnce]]
    BY <1>1, DnIndexAssumption DEF TypeOK, Idle
  <2> QED BY <1>1, <1>3, <2>1 DEF TypeOK
<1>6. Places'
  <2>1. \A x \in Store : (\E e \in DataNode : task[e].pc = "dead" /\ task[e].st = x)
           => x = s \/ (\E e \in DataNode : task'[e].pc = "dead" /\ task'[e].st = x)
    BY <1>4
  <2> QED BY <1>1, <1>2, <1>3, <2>1 DEF Places
<1>7. Tasks'
  <2>1. ASSUME NEW e \in DataNode, task'[e].pc = "dead"
        PROVE  task'[e] = task[e] /\ task[e].st # s
    BY <2>1, <1>2, <1>4 DEF Tasks
  <2>2. \A e \in DataNode : task'[e].pc = "beat" => task'[e] = task[e]
    BY <1>4
  <2> QED BY <1>1, <1>3, <2>1, <2>2 DEF Tasks
<1>8. Owned' /\ Removing'
  BY <1>1 DEF Owned, Removing
<1> QED BY <1>5, <1>6, <1>7, <1>8

\* Block reports add an entry in front, the newest first.
LEMMA ReportStep ==
  ASSUME StoreInv, NEW d \in DataNode, NEW b \in Block,
         nn_dn_recv_blk_report(d, b) \/ nn_dn_blk_report(d, b)
  PROVE  StoreInv'
<1> USE DEF StoreInv
<1>1. /\ index' = [index EXCEPT ![b] = <<d>> \o @]
      /\ sent' \subseteq DataNode \X Block
      /\ UNCHANGED <<owner, delBlk, free, table, dnq, timer, task, placed, rmd, px, given, heard>>
  <2>1. CASE nn_dn_recv_blk_report(d, b)
    BY <2>1 DEF nn_dn_recv_blk_report, stores, TypeOK
  <2>2. CASE nn_dn_blk_report(d, b)
    <3>1. index[b] = <<>> /\ index' = [index EXCEPT ![b] = <<d>>] /\ <<d>> = <<d>> \o <<>>
      BY <2>2 DEF nn_dn_blk_report
    <3> QED BY <3>1, <2>2 DEF nn_dn_blk_report, stores, TypeOK
  <2> QED BY <2>1, <2>2
<1>2. index[b] \in Seq(DataNode)
  BY DEF TypeOK
<1>3. <<d>> \o index[b] \in Seq(DataNode) /\ Len(<<d>> \o index[b]) = Len(index[b]) + 1
  BY <1>2
<1> DEFINE T == Seq(DataNode)
<1>4. index' \in [Block -> T] /\ \A c \in Block : index'[c] = IF c = b THEN <<d>> \o index[b] ELSE index[c]
  <2>1. index \in [Block -> T] /\ <<d>> \o index[b] \in T
    BY <1>3 DEF TypeOK
  <2> HIDE DEF T
  <2> QED BY <1>1, <2>1
<1>5. TypeOK'
  BY <1>1, <1>4 DEF TypeOK
<1>6. Places' /\ Owned' /\ Tasks'
  BY <1>1 DEF Places, Owned, Tasks
<1>7. Removing'
  <2>1. ASSUME NEW c \in Block
        PROVE  Len(index[c]) \in Nat /\ Len(index'[c]) \in Nat /\ Len(index[c]) <= Len(index'[c])
    <3>1. index[c] \in Seq(DataNode)
      BY DEF TypeOK
    <3>2. Len(index[c]) \in Nat
      BY <3>1, LenProperties
    <3> QED BY <3>2, <1>3, <1>4
  <2> QED BY <1>1, <2>1 DEF Removing
<1> QED BY <1>5, <1>6, <1>7

\* Creates choose a datanode of the index, and a removal goes through its steps on
\* the thread that applies the edit log.
LEMMA BlockStep ==
  ASSUME NoAlias, StoreInv,
         (\E b \in Block : generate_dns(b) \/ block_object_del(b)) \/ Removal
  PROVE  StoreInv'
<1> USE DEF StoreInv
<1>1. ASSUME NEW b \in Block, generate_dns(b) PROVE StoreInv'
  <2>1. /\ dnq # <<>> /\ placed' = [placed EXCEPT ![b] = {owner[Head(dnq)]}]
        /\ UNCHANGED <<owner, delBlk, free, table, dnq, timer, task, index, rmd, px, given,
                       sent, heard>>
    BY <1>1 DEF generate_dns, stores
  <2>2. owner[Head(dnq)] \in DataNode
    BY <2>1, TailRange DEF TypeOK, Places, Owned
  <2>3. TypeOK'
    BY <2>1, <2>2 DEF TypeOK
  <2> QED BY <2>1, <2>3 DEF Places, Owned, Tasks, Removing
<1>2. ASSUME NEW b \in Block, block_object_del(b) PROVE StoreInv'
  <2> DEFINE s == get_dn_store_obj(Head(index[b]))
  <2>1. /\ rmd' = rmd \cup {b}
        /\ px' = IF index[b] = <<>> THEN Done
                 ELSE [pc |-> IF s = None THEN "remove" ELSE "insert", blk |-> b, st |-> s,
                       nth |-> Len(index[b])]
        /\ UNCHANGED <<owner, delBlk, free, table, dnq, timer, task, index, placed, given,
                       sent, heard>>
    BY <1>2 DEF block_object_del, stores
  <2>2. index[b] # <<>> => /\ s = None \/ s \in Store
                           /\ Len(index[b]) \in Nat /\ Len(index[b]) > 0
    <3>1. ASSUME index[b] # <<>> PROVE Head(index[b]) \in DataNode /\ Len(index[b]) \in Nat \ {0}
      BY <3>1 DEF TypeOK
    <3> QED BY <3>1, StoreFound
  <2> HIDE DEF s
  <2>3. px' \in [pc : {"idle", "insert", "remove"}, blk : Block \cup {None},
                 st : Store \cup {None}, nth : Nat]
    BY <2>1, <2>2 DEF Done
  <2>4. TypeOK'
    BY <2>1, <2>3 DEF TypeOK
  <2>5. Removing'
    BY <2>1, <2>2 DEF Removing, Done
  <2> QED BY <2>1, <2>4, <2>5 DEF Places, Owned, Tasks
<1>3. CASE notify_dn_2_delete_blk
  <2>1. /\ px.pc = "insert" /\ delBlk' = [delBlk EXCEPT ![px.st] = Append(@, px.blk)]
        /\ px' = [px EXCEPT !.pc = "remove"]
        /\ UNCHANGED <<owner, free, table, dnq, timer, task, index, placed, rmd, given, sent,
                       heard>>
    BY <1>3 DEF notify_dn_2_delete_blk
  <2>2. px.st \in Store /\ px.blk \in Block
    BY <2>1 DEF Removing
  <2>3. /\ delBlk[px.st] \in Seq(Block) /\ Append(delBlk[px.st], px.blk) \in Seq(Block)
        /\ Len(Append(delBlk[px.st], px.blk)) = Len(delBlk[px.st]) + 1
    BY <2>2 DEF TypeOK
  <2>4. /\ delBlk' \in [Store -> Seq(Block)]
        /\ \A s \in Store : delBlk'[s] = IF s = px.st THEN Append(delBlk[px.st], px.blk)
                                                       ELSE delBlk[s]
    BY <2>1, <2>3, ReplaceIds DEF TypeOK
  <2>5. px' \in [pc : {"idle", "insert", "remove"}, blk : Block \cup {None},
                 st : Store \cup {None}, nth : Nat]
    BY <2>1 DEF TypeOK
  <2>6. TypeOK'
    BY <2>1, <2>4, <2>5 DEF TypeOK
  <2>7. Removing'
    BY <2>1 DEF Removing, TypeOK
  <2>8. Tasks'
    <3>1. ASSUME NEW s \in Store
          PROVE  /\ Len(delBlk[s]) \in Nat /\ Len(delBlk'[s]) \in Nat
                 /\ Len(delBlk[s]) <= Len(delBlk'[s])
      <4>1. delBlk[s] \in Seq(Block)
        BY DEF TypeOK
      <4>2. Len(delBlk[s]) \in Nat
        BY <4>1, LenProperties
      <4> QED BY <4>2, <2>3, <2>4
    <3>2. Range(dnq) \subseteq Store /\ \A d \in DataNode : task[d].n \in Nat
      BY RangePositions, DnIndexAssumption DEF TypeOK
    <3>3. ASSUME NEW d \in DataNode, task[d].pc = "beat"
          PROVE  task[d].n <= Len(delBlk'[task[d].st])
      BY <3>1, <3>2, <3>3 DEF Tasks
    <3> QED BY <2>1, <3>3 DEF Tasks
  <2> QED BY <2>1, <2>6, <2>7, <2>8 DEF Places, Owned
<1>4. CASE remove_entry
  <2> DEFINE b == px.blk
             k == Len(index[b]) - px.nth + 1
             q == RemoveAt(index[b], k)
  <2>1. /\ px.pc = "remove" /\ index' = [index EXCEPT ![b] = q] /\ px' = Done
        /\ UNCHANGED <<owner, delBlk, free, table, dnq, timer, task, placed, rmd, given, sent,
                       heard>>
    BY <1>4 DEF remove_entry, stores
  <2>2. b \in Block /\ index[b] \in Seq(DataNode) /\ k \in 1 .. Len(index[b])
    <3>1. b \in Block /\ px.nth \in 1 .. Len(index[b])
      BY <2>1 DEF Removing
    <3>2. index[b] \in Seq(DataNode)
      BY <3>1 DEF TypeOK
    <3>3. Len(index[b]) \in Nat
      BY <3>2, LenProperties
    <3> QED BY <3>1, <3>2, <3>3
  <2>3. q \in Seq(DataNode)
    BY <2>2, RemoveAtProperties
  <2> HIDE DEF b, k, q
  <2> DEFINE T == Seq(DataNode)
  <2>4. index' \in [Block -> T]
    <3>1. index \in [Block -> T] /\ q \in T
      BY <2>3 DEF TypeOK
    <3> HIDE DEF T
    <3> QED BY <2>1, <3>1
  <2>5. TypeOK'
    BY <2>1, <2>4 DEF TypeOK, Done
  <2>6. Removing'
    BY <2>1 DEF Removing, Done
  <2> QED BY <2>1, <2>5, <2>6 DEF Places, Owned, Tasks
<1> QED BY <1>1, <1>2, <1>3, <1>4 DEF Removal

\* Time passes.
LEMMA TickStep == ASSUME StoreInv, Tick PROVE StoreInv'
<1> USE DEF StoreInv
<1>1. UNCHANGED <<owner, delBlk, free, table, dnq, task, index, placed, rmd, px, given, sent>>
  BY DEF Tick, stores
<1>2. timer' \in [Store -> 0 .. DnTimeout] /\ heard' \in [DataNode -> 0 .. Never]
  <2>1. DnTimeout \in Nat /\ Never \in Nat
    BY DnIndexAssumption DEF Never
  <2>2. /\ \A s \in Store : (IF timer[s] > 0 THEN timer[s] - 1 ELSE 0) \in 0 .. DnTimeout
        /\ \A d \in DataNode :
             (IF heard[d] < Never THEN heard[d] + 1 ELSE Never) \in 0 .. Never
    BY <2>1 DEF TypeOK
  <2> QED BY <2>2 DEF Tick
<1>3. TypeOK'
  BY <1>1, <1>2 DEF TypeOK
<1> QED BY <1>1, <1>3 DEF Places, Owned, Tasks, Removing

\* Every step keeps the inductive invariant.
LEMMA StoreInvNext == NoAlias /\ StoreInv /\ [Next]_vars => StoreInv'
<1> SUFFICES ASSUME NoAlias, StoreInv, [Next]_vars PROVE StoreInv'
  OBVIOUS
<1>1. CASE UNCHANGED vars
  <2>1. TypeOK'
    BY <1>1 DEF vars, StoreInv, TypeOK
  <2> QED BY <1>1, <2>1 DEF vars, StoreInv, Places, Owned, Tasks, Removing
<1> QED
  BY <1>1, RegisterStep, HeartbeatStep, AnswerStep, TimeoutStep, DestroyStep, ReportStep,
     BlockStep, TickStep DEF Next, TaskThread

-----------------------------------------------------------------------------
(* Stores. *)

\* The inductive invariant holds in every reachable state.
LEMMA StoreInvHolds == ASSUME NoAlias PROVE Spec => []StoreInv
BY StoreInvInit, StoreInvNext, PTL DEF Spec

\* Counting: three disjoint sets that make up Store.
LEMMA StoreInvAccounts == StoreInv => StoresAccounted
<1> SUFFICES ASSUME StoreInv PROVE StoresAccounted
  OBVIOUS
<1> USE DEF StoreInv
<1> DEFINE dying == {task[d].st : d \in {e \in DataNode : task[e].pc = "dead"}}
           A == Range(dnq)
           B == Range(free)
<1>1. /\ IsFiniteSet(A) /\ Cardinality(A) = Len(dnq)
      /\ IsFiniteSet(B) /\ Cardinality(B) = Len(free)
      /\ Cardinality(Range(table)) = Len(table)
  BY InjectiveLength DEF TypeOK, Places
<1>2. A \subseteq Store /\ B \subseteq Store /\ dying \subseteq Store
  BY RangePositions DEF TypeOK, Tasks
<1>3. A \cap B = {} /\ (A \cup B) \cap dying = {} /\ A \cup B \cup dying = Store
  <2>1. A \cap B = {}
    BY DEF Places
  <2>2. (A \cup B) \cap dying = {}
    BY DEF Tasks
  <2>3. Store \subseteq A \cup B \cup dying
    BY DEF Places
  <2> QED BY <1>2, <2>1, <2>2, <2>3
<1>4. IsFiniteSet(dying) /\ Cardinality(dying) \in Nat
  BY <1>2, DnIndexAssumption, FS_Subset, FS_CardinalityType
<1> HIDE DEF A, B, dying
<1>5. IsFiniteSet(A \cup B) /\ Cardinality(A \cup B) = Cardinality(A) + Cardinality(B)
  <2>1. Cardinality(A \cap B) = 0
    BY <1>3, FS_EmptySet
  <2>2. Cardinality(A) \in Nat /\ Cardinality(B) \in Nat
    BY <1>1, FS_CardinalityType
  <2>3. /\ IsFiniteSet(A \cup B)
        /\ Cardinality(A \cup B) = Cardinality(A) + Cardinality(B) - Cardinality(A \cap B)
    BY <1>1, FS_Union
  <2> QED BY <2>1, <2>2, <2>3
<1>6. Cardinality(Store) = Cardinality(A \cup B) + Cardinality(dying)
  <2>1. Cardinality((A \cup B) \cap dying) = 0
    BY <1>3, FS_EmptySet
  <2>2. Cardinality(A \cup B) \in Nat
    BY <1>5, FS_CardinalityType
  <2>3. Cardinality((A \cup B) \cup dying) =
          Cardinality(A \cup B) + Cardinality(dying) - Cardinality((A \cup B) \cap dying)
    BY <1>4, <1>5, FS_Union
  <2>4. Cardinality((A \cup B) \cup dying) = Cardinality(A \cup B) + Cardinality(dying)
    BY <1>4, <2>1, <2>2, <2>3
  <2> QED BY <1>3, <2>4
<1>7. Len(dnq) + Len(free) + Cardinality(dying) = Cardinality(Store)
  BY <1>1, <1>5, <1>6
<1>8. \A s, t \in A : owner[s] = owner[t] => s = t
  BY DEF Owned, A
<1>9. TypeOK /\ Range(table) = A
  BY DEF Places, A
<1> QED BY <1>1, <1>3, <1>7, <1>8, <1>9 DEF StoresAccounted, A, B, dying

\* Through any sequence of registrations, timeouts and removals the hash table,
\* g_dn_q and the pool agree, and no datanode has two stores.
THEOREM StoresNeverLost == ASSUME NoAlias PROVE Spec => []StoresAccounted
BY StoreInvHolds, StoreInvAccounts, PTL

-----------------------------------------------------------------------------
(* Liveness of datanodes as the namenode sees it. *)

\* The timer of a datanode's store has at least as long to go as the datanode has
\* been silent for less than DnTimeout.
TimersCover ==
  \A d \in DataNode : heard[d] < DnTimeout =>
    \E s \in Range(dnq) : owner[s] = d /\ timer[s] + heard[d] >= DnTimeout

\* The duplicate-free lists of ids: every id queued in a store or sent to a datanode
\* is one of a removed block and stands in one place, and a removal on its way to a
\* queue has put its id nowhere yet.
Once(f, D, g, E) ==
  \A x \in D, y \in E : \A i \in DOMAIN f[x], j \in DOMAIN g[y] : f[x][i] # g[y][j]

Unique(f, D) ==
  \A x, y \in D : \A i \in DOMAIN f[x], j \in DOMAIN f[y] :
    f[x][i] = f[y][j] => x = y /\ i = j

OrderInv ==
  /\ Unique(given, DataNode) /\ Unique(delBlk, Store)
  /\ Once(given, DataNode, delBlk, Store)
  /\ \A d \in DataNode : \A i \in DOMAIN given[d] :
       given[d][i] \in rmd /\ (px.pc = "insert" => given[d][i] # px.blk)
  /\ \A s \in Store : \A i \in DOMAIN delBlk[s] :
       delBlk[s][i] \in rmd /\ (px.pc = "insert" => delBlk[s][i] # px.blk)
  /\ px.pc = "insert" => px.blk \in rmd

\* Steps that leave the index, its timers and the answers alone.
LEMMA ClockFrame ==
  ASSUME [Next]_vars
  PROVE  \/ \E d \in DataNode : nn_dn_register(d) \/ nn_dn_heartbeat(d)
         \/ \E s \in Store : dn_timeout_handler(s)
         \/ Tick
         \/ UNCHANGED <<dnq, owner, timer, heard>>
BY DEF Next, TaskThread, Removal, vars, stores, heartbeat_answer, dn_store_destroy,
       nn_dn_recv_blk_report, nn_dn_blk_report, generate_dns, block_object_del,
       notify_dn_2_delete_blk, remove_entry

\* A registration or heartbeat restarts the timer together with the silence it
\* measures; a timer that fires measures DnTimeout of silence.
LEMMA TimersCoverNext ==
  NoAlias /\ StoreInv /\ TimersCover /\ [Next]_vars => TimersCover'
<1> SUFFICES ASSUME NoAlias, StoreInv, TimersCover, [Next]_vars PROVE TimersCover'
  OBVIOUS
<1>1. /\ Range(dnq) \subseteq Store /\ Range(free) \subseteq Store
      /\ timer \in [Store -> 0 .. DnTimeout] /\ heard \in [DataNode -> 0 .. Never]
      /\ owner \in [Store -> DataNode \cup {None}]
      /\ DnTimeout \in Nat \ {0} /\ Never = DnTimeout + 1
  BY RangePositions, DnIndexAssumption DEF StoreInv, TypeOK, Never
<1>2. \A s, t \in Range(dnq) : owner[s] = owner[t] => s = t
  BY DEF StoreInv, Owned
<1>3. ASSUME NEW d \in DataNode, NEW s \in Store, s \in Range(dnq'), owner'[s] = d,
             \A t \in Range(dnq) : t \in Range(dnq') /\ owner'[t] = owner[t],
             s \in Range(dnq) => owner[s] = d,
             timer' = [timer EXCEPT ![s] = DnTimeout], heard' = [heard EXCEPT ![d] = 0]
      PROVE  TimersCover'
  <2>1. timer'[s] = DnTimeout /\ heard'[d] = 0
    BY <1>1, <1>3
  <2>2. ASSUME NEW e \in DataNode, e # d, heard'[e] < DnTimeout
        PROVE  \E t \in Range(dnq') : owner'[t] = e /\ timer'[t] + heard'[e] >= DnTimeout
    <3>1. heard'[e] = heard[e]
      BY <1>1, <1>3, <2>2
    <3>2. PICK t \in Range(dnq) : owner[t] = e /\ timer[t] + heard[e] >= DnTimeout
      BY <2>2, <3>1 DEF TimersCover
    <3>3. t # s /\ t \in Store
      BY <3>2, <1>1, <1>3, <2>2
    <3>4. timer'[t] = timer[t]
      BY <3>3, <1>1, <1>3
    <3> QED BY <1>3, <3>1, <3>2, <3>4
  <2> QED BY <1>1, <1>3, <2>1, <2>2 DEF TimersCover
<1>4. ASSUME NEW d \in DataNode, nn_dn_register(d) PROVE TimersCover'
  <2>1. CASE get_dn_store_obj(d) # None
    <3>1. UNCHANGED <<dnq, owner>> /\ timer' = [timer EXCEPT ![get_dn_store_obj(d)] = DnTimeout]
          /\ heard' = [heard EXCEPT ![d] = 0]
      BY <1>4, <2>1 DEF nn_dn_register, dn_timer_update, Answered, stores
    <3>2. /\ get_dn_store_obj(d) \in Range(dnq) /\ get_dn_store_obj(d) \in Store
          /\ owner[get_dn_store_obj(d)] = d
      BY <2>1, StoreFound
    <3> QED BY <1>3, <3>1, <3>2
  <2>2. CASE get_dn_store_obj(d) = None
    <3> DEFINE new == Head(free)
    <3>1. /\ free # <<>> /\ owner' = [owner EXCEPT ![new] = d] /\ dnq' = Append(dnq, new)
          /\ timer' = [timer EXCEPT ![new] = DnTimeout] /\ heard' = [heard EXCEPT ![d] = 0]
      BY <1>4, <2>2 DEF nn_dn_register, dn_timer_update, Answered
    <3>2. new \in Range(free)
      BY <3>1, TailRange DEF StoreInv, TypeOK, Places
    <3>3. new \in Store /\ new \notin Range(dnq)
      BY <3>2, <1>1 DEF StoreInv, Places
    <3> HIDE DEF new
    <3>4. Range(dnq') = Range(dnq) \cup {new}
      BY <3>1, <3>3, AppendRange DEF StoreInv, TypeOK
    <3>5. owner'[new] = d /\ \A t \in Range(dnq) : owner'[t] = owner[t]
      BY <1>1, <3>1, <3>3
    <3> QED BY <1>3, <3>1, <3>3, <3>4, <3>5
  <2> QED BY <2>1, <2>2
<1>5. ASSUME NEW d \in DataNode, nn_dn_heartbeat(d) PROVE TimersCover'
  <2>1. /\ get_dn_store_obj(d) # None /\ UNCHANGED <<dnq, owner>>
        /\ timer' = [timer EXCEPT ![get_dn_store_obj(d)] = DnTimeout]
        /\ heard' = [heard EXCEPT ![d] = 0]
    BY <1>5 DEF nn_dn_heartbeat, dn_timer_update, Answered, stores
  <2>2. /\ get_dn_store_obj(d) \in Range(dnq) /\ get_dn_store_obj(d) \in Store
        /\ owner[get_dn_store_obj(d)] = d
    BY <2>1, StoreFound
  <2> QED BY <1>3, <2>1, <2>2
<1>6. ASSUME NEW s \in Store, dn_timeout_handler(s) PROVE TimersCover'
  <2>1. /\ s \in Range(dnq) /\ timer[s] = 0 /\ dnq' = Unlink(dnq, s)
        /\ UNCHANGED <<owner, timer, heard>>
    BY <1>6 DEF dn_timeout_handler
  <2>2. Range(dnq') = Range(dnq) \ {s}
    BY <2>1, UnlinkRange DEF StoreInv, TypeOK, Places
  <2>3. ASSUME NEW d \in DataNode, heard[d] < DnTimeout
        PROVE  \E t \in Range(dnq) \ {s} : owner[t] = d /\ timer[t] + heard[d] >= DnTimeout
    <3>1. PICK t \in Range(dnq) : owner[t] = d /\ timer[t] + heard[d] >= DnTimeout
      BY <2>3 DEF TimersCover
    <3>2. t # s
      BY <3>1, <2>1, <2>3, <1>1
    <3> QED BY <3>1, <3>2
  <2> QED BY <2>1, <2>2, <2>3 DEF TimersCover
<1>7. CASE Tick
  <2>1. /\ timer' = [s \in Store |-> IF timer[s] > 0 THEN timer[s] - 1 ELSE 0]
        /\ heard' = [d \in DataNode |-> IF heard[d] < Never THEN heard[d] + 1 ELSE Never]
        /\ UNCHANGED <<dnq, owner>>
    BY <1>7 DEF Tick, stores
  <2>2. ASSUME NEW d \in DataNode, heard'[d] < DnTimeout
        PROVE  \E t \in Range(dnq) : owner[t] = d /\ timer'[t] + heard'[d] >= DnTimeout
    <3>1. heard'[d] = heard[d] + 1 /\ heard[d] < DnTimeout /\ heard[d] \in Nat
      BY <1>1, <2>1, <2>2
    <3>2. PICK t \in Range(dnq) : owner[t] = d /\ timer[t] + heard[d] >= DnTimeout
      BY <3>1 DEF TimersCover
    <3>3. timer[t] > 0 /\ timer[t] \in Nat /\ timer'[t] = timer[t] - 1
      BY <1>1, <2>1, <2>2, <3>1, <3>2
    <3> QED BY <3>1, <3>2, <3>3, <1>1
  <2> QED BY <2>1, <2>2 DEF TimersCover
<1>8. CASE UNCHANGED <<dnq, owner, timer, heard>>
  BY <1>8 DEF TimersCover
<1> QED BY <1>4, <1>5, <1>6, <1>7, <1>8, ClockFrame

\* No datanode has been answered when the namenode starts.
LEMMA TimersCoverInit == Init => TimersCover
BY DnIndexAssumption DEF Init, TimersCover, Never

\* A datanode whose registration or heartbeat was answered within dn_timeout is in
\* the index: dn_timeout_handler never takes out one that is heard of.
THEOREM AliveStaysListed == ASSUME NoAlias PROVE Spec => []AliveIsListed
<1>1. Spec => []TimersCover
  BY StoreInvHolds, TimersCoverInit, TimersCoverNext, PTL DEF Spec
<1>2. StoreInv /\ TimersCover => AliveIsListed
  BY DEF StoreInv, Places, TimersCover, AliveIsListed
<1> QED BY <1>1, <1>2, StoreInvHolds, PTL

-----------------------------------------------------------------------------
(* Orders to delete blocks. *)

\* Steps that leave the ids, the removed blocks and the removal under way alone.
LEMMA OrderFrame ==
  ASSUME [Next]_vars
  PROVE  \/ \E d \in DataNode : nn_dn_register(d) \/ heartbeat_answer(d)
         \/ \E b \in Block : block_object_del(b)
         \/ Removal
         \/ UNCHANGED <<given, delBlk, rmd, px>>
BY DEF Next, TaskThread, vars, stores, nn_dn_heartbeat, dn_timeout_handler, dn_store_destroy,
       nn_dn_recv_blk_report, nn_dn_blk_report, generate_dns, Tick

\* What a heartbeat answer does to the two lists, position by position: the first n
\* ids of the store go to the end of what the datanode was sent.
LEMMA AnswerMoves ==
  ASSUME StoreInv, NEW d \in DataNode, heartbeat_answer(d)
  PROVE  LET s == task[d].st
             n == task[d].n
             g == Len(given[d])
         IN /\ s \in Range(dnq) /\ s \in Store /\ owner[s] = d
            /\ n \in 0 .. Len(delBlk[s]) /\ n <= DeleteOnce /\ g \in Nat
            /\ given'[d] = given[d] \o SubSeq(delBlk[s], 1, n)
            /\ delBlk'[s] = SubSeq(delBlk[s], n + 1, Len(delBlk[s]))
            /\ \A e \in DataNode : e # d => given'[e] = given[e]
            /\ \A t \in Store : t # s => delBlk'[t] = delBlk[t]
            /\ DOMAIN given[d] = 1 .. g /\ DOMAIN given'[d] = 1 .. g + n
            /\ \A i \in 1 .. g : given'[d][i] = given[d][i]
            /\ \A i \in g + 1 .. g + n : given'[d][i] = delBlk[s][i - g]
            /\ DOMAIN delBlk[s] = 1 .. Len(delBlk[s])
            /\ DOMAIN delBlk'[s] = 1 .. Len(delBlk[s]) - n
            /\ \A j \in 1 .. Len(delBlk[s]) - n : delBlk'[s][j] = delBlk[s][n + j]
            /\ rmd' = rmd /\ px' = px
<1> DEFINE s == task[d].st
           n == task[d].n
           g == Len(given[d])
           q == delBlk[s]
           a == SubSeq(q, 1, n)
           b == SubSeq(q, n + 1, Len(q))
<1>1. /\ task[d].pc = "beat"
      /\ delBlk' = [delBlk EXCEPT ![s] = b] /\ given' = [given EXCEPT ![d] = given[d] \o a]
      /\ rmd' = rmd /\ px' = px
  BY DEF heartbeat_answer
<1>2. s \in Range(dnq) /\ s \in Store /\ owner[s] = d
  BY <1>1, RangePositions DEF StoreInv, Tasks, TypeOK
<1>3. q \in Seq(Block) /\ given[d] \in Seq(Block)
  BY <1>2 DEF StoreInv, TypeOK
<1>4. Len(q) \in Nat /\ g \in Nat /\ DOMAIN q = 1 .. Len(q) /\ DOMAIN given[d] = 1 .. g
  BY <1>3, LenProperties
<1>5. n \in 0 .. Len(q) /\ n <= DeleteOnce
  <2>1. n \in 0 .. DeleteOnce /\ n <= Len(q) /\ DeleteOnce \in Nat
    BY <1>1, DnIndexAssumption DEF StoreInv, Tasks, TypeOK
  <2> QED BY <2>1, <1>4
<1>6. /\ delBlk \in [Store -> Seq(Block)] /\ given \in [DataNode -> Seq(Block)]
  BY DEF StoreInv, TypeOK
<1> HIDE DEF s, n, g, q
<1>7. /\ a \in Seq(Block) /\ Len(a) = n /\ \A i \in 1 .. n : a[i] = q[i]
  <2>1. \A i \in 1 .. n : q[i] \in Block
    BY <1>3, <1>4, <1>5
  <2>2. /\ a \in Seq(Block) /\ Len(a) = IF 1 <= n THEN n - 1 + 1 ELSE 0
        /\ \A i \in 1 .. n - 1 + 1 : a[i] = q[1 + i - 1]
    BY <2>1, <1>5, <1>4, SubSeqProperties
  <2> HIDE DEF a
  <2> QED BY <2>2, <1>5, <1>4
<1>8. /\ b \in Seq(Block) /\ Len(b) = Len(q) - n
      /\ \A j \in 1 .. Len(q) - n : b[j] = q[n + j]
  <2>1. \A i \in n + 1 .. Len(q) : q[i] \in Block
    BY <1>3, <1>4, <1>5
  <2>2. /\ b \in Seq(Block) /\ Len(b) = IF n + 1 <= Len(q) THEN Len(q) - (n + 1) + 1 ELSE 0
        /\ \A i \in 1 .. Len(q) - (n + 1) + 1 : b[i] = q[(n + 1) + i - 1]
    BY <2>1, <1>5, <1>4, SubSeqProperties
  <2> HIDE DEF b
  <2>3. ASSUME NEW j \in 1 .. Len(q) - n PROVE b[j] = q[n + j]
    <3>1. j \in 1 .. Len(q) - (n + 1) + 1 /\ (n + 1) + j - 1 = n + j
      BY <1>4, <1>5
    <3> QED BY <2>2, <3>1
  <2>4. Len(b) = Len(q) - n
    <3>1. Len(b) = IF n + 1 <= Len(q) THEN Len(q) - (n + 1) + 1 ELSE 0
      BY <2>2
    <3>2. Len(q) \in Nat /\ n \in Nat /\ n <= Len(q)
      BY <1>4, <1>5
    <3> QED BY <3>1, <3>2
  <2> QED BY <2>2, <2>3, <2>4
<1> HIDE DEF a, b
<1>9. /\ given[d] \o a \in Seq(Block) /\ Len(given[d] \o a) = g + n
      /\ \A i \in 1 .. g + n : (given[d] \o a)[i] = IF i <= g THEN given[d][i] ELSE a[i - g]
  <2>1. Len(given[d]) = g
    BY DEF g
  <2> QED BY <1>3, <1>7, <2>1, ConcatProperties, ZenonT(60)
<1>10. DOMAIN (given[d] \o a) = 1 .. g + n /\ DOMAIN b = 1 .. Len(q) - n
  BY <1>8, <1>9, LenProperties
<1>11. /\ given'[d] = given[d] \o a /\ \A e \in DataNode : e # d => given'[e] = given[e]
       /\ delBlk'[s] = b /\ \A t \in Store : t # s => delBlk'[t] = delBlk[t]
  BY <1>1, <1>2, <1>6, <1>8, <1>9, ReplaceIds
<1>12. /\ \A i \in 1 .. g : given'[d][i] = given[d][i]
       /\ \A i \in g + 1 .. g + n : given'[d][i] = q[i - g]
  <2>1. ASSUME NEW i \in 1 .. g PROVE given'[d][i] = given[d][i]
    BY <1>4, <1>5, <1>9, <1>11
  <2>2. ASSUME NEW i \in g + 1 .. g + n PROVE given'[d][i] = q[i - g]
    <3>1. i \in 1 .. g + n /\ ~(i <= g) /\ i - g \in 1 .. n
      BY <1>4, <1>5
    <3> QED BY <3>1, <1>7, <1>9, <1>11
  <2> QED BY <2>1, <2>2
<1> QED
  BY <1>1, <1>2, <1>4, <1>5, <1>8, <1>10, <1>11, <1>12 DEF s, n, g, q, a, b

\* The same id at two positions: the positions are the same.
LEMMA UniqueAt ==
  ASSUME NEW f, NEW D, Unique(f, D), NEW x \in D, NEW y \in D,
         NEW i \in DOMAIN f[x], NEW j \in DOMAIN f[y], f[x][i] = f[y][j]
  PROVE  x = y /\ i = j
BY Zenon DEF Unique

\* The same id in two lists that have none in common.
LEMMA OnceAt ==
  ASSUME NEW f, NEW D, NEW g, NEW E, Once(f, D, g, E), NEW x \in D, NEW y \in E,
         NEW i \in DOMAIN f[x], NEW j \in DOMAIN g[y], f[x][i] = g[y][j]
  PROVE  FALSE
BY Zenon DEF Once

\* An id is queued once, by the removal of its block, and each step moves it or
\* leaves it: register only forgets the ids of the store it reuses.
LEMMA OrderInvNext ==
  StoreInv /\ OrderInv /\ [Next]_vars => OrderInv'
<1> SUFFICES ASSUME StoreInv, OrderInv, [Next]_vars PROVE OrderInv'
  OBVIOUS
<1>11. Unique(given, DataNode)
  BY DEF OrderInv
<1>12. Unique(delBlk, Store)
  BY DEF OrderInv
<1>13. Once(given, DataNode, delBlk, Store)
  BY DEF OrderInv
<1>14. \A d \in DataNode : \A i \in DOMAIN given[d] :
         given[d][i] \in rmd /\ (px.pc = "insert" => given[d][i] # px.blk)
  BY DEF OrderInv
<1>15. \A s \in Store : \A i \in DOMAIN delBlk[s] :
         delBlk[s][i] \in rmd /\ (px.pc = "insert" => delBlk[s][i] # px.blk)
  BY DEF OrderInv
<1>1. ASSUME NEW d \in DataNode, nn_dn_register(d) PROVE OrderInv'
  <2>1. /\ UNCHANGED <<given, rmd, px>>
        /\ delBlk' = delBlk \/ delBlk' = [delBlk EXCEPT ![Head(free)] = <<>>]
    BY <1>1 DEF nn_dn_register, stores
  <2>2. \A s \in Store : delBlk'[s] = delBlk[s] \/ delBlk'[s] = <<>>
    BY <2>1, EmptySeq, ReplaceIds DEF StoreInv, TypeOK
  <2>3. \A s \in Store : \A i \in DOMAIN delBlk'[s] : i \in DOMAIN delBlk[s] /\ delBlk'[s][i] = delBlk[s][i]
    BY <2>2
  <2> QED BY <2>1, <2>3 DEF OrderInv, Unique, Once
<1>2. ASSUME NEW d \in DataNode, heartbeat_answer(d) PROVE OrderInv'
  <2> DEFINE s == task[d].st
             n == task[d].n
             g == Len(given[d])
             m == Len(delBlk[s])
  <2>1. /\ s \in Store /\ n \in 0 .. m /\ g \in Nat /\ m \in Nat
        /\ \A e \in DataNode : e # d => given'[e] = given[e]
        /\ \A t \in Store : t # s => delBlk'[t] = delBlk[t]
        /\ DOMAIN given[d] = 1 .. g /\ DOMAIN given'[d] = 1 .. g + n
        /\ \A i \in 1 .. g : given'[d][i] = given[d][i]
        /\ \A i \in g + 1 .. g + n : given'[d][i] = delBlk[s][i - g]
        /\ DOMAIN delBlk[s] = 1 .. m /\ DOMAIN delBlk'[s] = 1 .. m - n
        /\ \A j \in 1 .. m - n : delBlk'[s][j] = delBlk[s][n + j]
        /\ rmd' = rmd /\ px' = px
    <3>1. m \in Nat
      BY <1>2, AnswerMoves, LenProperties DEF StoreInv, TypeOK
    <3> QED BY <3>1, <1>2, AnswerMoves
  <2> HIDE DEF s, n, g, m
  <2>2. ASSUME NEW e \in DataNode, NEW i \in DOMAIN given'[e]
        PROVE  \/ i \in DOMAIN given[e] /\ given'[e][i] = given[e][i]
               \/ /\ e = d /\ i \in g + 1 .. g + n /\ i - g \in DOMAIN delBlk[s]
                  /\ i - g <= n /\ given'[e][i] = delBlk[s][i - g]
    <3>1. CASE e # d
      BY <3>1, <2>1
    <3>2. CASE e = d /\ i <= g
      BY <3>2, <2>1
    <3>3. CASE e = d /\ ~(i <= g)
      <4>1. i \in g + 1 .. g + n /\ i - g \in 1 .. m /\ i - g <= n
        BY <3>3, <2>1
      <4> QED BY <4>1, <3>3, <2>1
    <3> QED BY <3>1, <3>2, <3>3
  <2>3. ASSUME NEW t \in Store, NEW j \in DOMAIN delBlk'[t]
        PROVE  \/ t # s /\ j \in DOMAIN delBlk[t] /\ delBlk'[t][j] = delBlk[t][j]
               \/ /\ t = s /\ j \in 1 .. m - n /\ n + j \in DOMAIN delBlk[s]
                  /\ delBlk'[t][j] = delBlk[s][n + j]
    BY <2>1
  <2>4. Unique(given, DataNode)'
    <3> SUFFICES ASSUME NEW x \in DataNode, NEW y \in DataNode, NEW i \in DOMAIN given'[x],
                        NEW j \in DOMAIN given'[y], given'[x][i] = given'[y][j]
                 PROVE  x = y /\ i = j
      BY DEF Unique
    <3>1. CASE /\ i \in DOMAIN given[x] /\ given'[x][i] = given[x][i]
               /\ j \in DOMAIN given[y] /\ given'[y][j] = given[y][j]
      <4>1. given[x][i] = given[y][j]
        BY <3>1
      <4>2. x = y
        BY <4>1, <3>1, <1>11, UniqueAt, SMT
      <4>3. i = j
        BY <4>1, <3>1, <1>11, UniqueAt, SMT
      <4> QED BY <4>2, <4>3
    <3>2. CASE /\ i \in DOMAIN given[x] /\ given'[x][i] = given[x][i]
               /\ j - g \in DOMAIN delBlk[s] /\ given'[y][j] = delBlk[s][j - g]
      <4>1. given[x][i] = delBlk[s][j - g] /\ s \in Store
        BY <3>2, <2>1
      <4>2. FALSE
        BY <4>1, <3>2, <1>13, OnceAt, SMT
      <4> QED BY <4>2
    <3>3. CASE /\ j \in DOMAIN given[y] /\ given'[y][j] = given[y][j]
               /\ i - g \in DOMAIN delBlk[s] /\ given'[x][i] = delBlk[s][i - g]
      BY <3>3, <2>1, <1>13, OnceAt
    <3>4. CASE /\ x = d /\ i \in g + 1 .. g + n /\ i - g \in DOMAIN delBlk[s]
               /\ given'[x][i] = delBlk[s][i - g]
               /\ y = d /\ j \in g + 1 .. g + n /\ j - g \in DOMAIN delBlk[s]
               /\ given'[y][j] = delBlk[s][j - g]
      <4>1. i - g = j - g
        BY <3>4, <2>1, <1>12 DEF Unique
      <4> QED BY <4>1, <3>4, <2>1
    <3> QED BY <2>2, <3>1, <3>2, <3>3, <3>4
  <2>5. Unique(delBlk, Store)'
    <3> SUFFICES ASSUME NEW x \in Store, NEW y \in Store, NEW i \in DOMAIN delBlk'[x],
                        NEW j \in DOMAIN delBlk'[y], delBlk'[x][i] = delBlk'[y][j]
                 PROVE  x = y /\ i = j
      BY DEF Unique
    <3>1. x = y
      <4>1. PICK k \in DOMAIN delBlk[x] : delBlk'[x][i] = delBlk[x][k]
        BY <2>3
      <4>2. PICK l \in DOMAIN delBlk[y] : delBlk'[y][j] = delBlk[y][l]
        BY <2>3
      <4> QED BY <4>1, <4>2, <1>12 DEF Unique
    <3>2. CASE x # s
      BY <3>1, <3>2, <2>3, <1>12 DEF Unique
    <3>3. CASE x = s
      <4>1. /\ i \in 1 .. m - n /\ n + i \in DOMAIN delBlk[s] /\ delBlk'[x][i] = delBlk[s][n + i]
            /\ j \in 1 .. m - n /\ n + j \in DOMAIN delBlk[s] /\ delBlk'[y][j] = delBlk[s][n + j]
        BY <3>1, <3>3, <2>3
      <4>2. n + i = n + j
        <5>1. delBlk[s][n + i] = delBlk[s][n + j] /\ s \in Store
          BY <4>1, <2>1
        <5> DEFINE a == n + i
                   b == n + j
        <5>2. a \in DOMAIN delBlk[s] /\ b \in DOMAIN delBlk[s] /\ delBlk[s][a] = delBlk[s][b]
          BY <4>1, <5>1
        <5> HIDE DEF a, b
        <5>3. a = b
          BY <5>1, <5>2, <1>12, UniqueAt, SMT
        <5> QED BY <5>3 DEF a, b
      <4> QED BY <3>1, <4>1, <4>2, <2>1
    <3> QED BY <3>1, <3>2, <3>3
  <2>6. Once(given, DataNode, delBlk, Store)'
    <3> SUFFICES ASSUME NEW x \in DataNode, NEW y \in Store, NEW i \in DOMAIN given'[x],
                        NEW j \in DOMAIN delBlk'[y], given'[x][i] = delBlk'[y][j]
                 PROVE  FALSE
      BY DEF Once
    <3>1. PICK k \in DOMAIN delBlk[y] : /\ delBlk'[y][j] = delBlk[y][k]
                                        /\ y = s => k = n + j /\ j \in 1 .. m - n
      BY <2>3
    <3>2. CASE i \in DOMAIN given[x] /\ given'[x][i] = given[x][i]
      BY <3>1, <3>2, <1>13 DEF Once
    <3>3. CASE i - g \in DOMAIN delBlk[s] /\ i - g <= n /\ given'[x][i] = delBlk[s][i - g]
      <4>1. y = s /\ i - g = k
        BY <3>1, <3>3, <2>1, <1>12 DEF Unique
      <4> QED BY <4>1, <3>1, <3>3, <2>1
    <3> QED BY <2>2, <3>2, <3>3
  <2>7. \A e \in DataNode : \A i \in DOMAIN given'[e] :
          given'[e][i] \in rmd /\ (px.pc = "insert" => given'[e][i] # px.blk)
    BY <2>2, <2>1, <1>14, <1>15, SMTT(60)
  <2>8. \A t \in Store : \A j \in DOMAIN delBlk'[t] :
          delBlk'[t][j] \in rmd /\ (px.pc = "insert" => delBlk'[t][j] # px.blk)
    <3>1. ASSUME NEW t \in Store, NEW j \in DOMAIN delBlk'[t]
          PROVE  \E k \in DOMAIN delBlk[t] : delBlk'[t][j] = delBlk[t][k]
      BY <2>3
    <3> QED BY <3>1, <1>15
  <2> QED BY <2>1, <2>4, <2>5, <2>6, <2>7, <2>8 DEF OrderInv
<1>3. ASSUME NEW b \in Block, block_object_del(b) PROVE OrderInv'
  <2>1. /\ b \notin rmd /\ rmd' = rmd \cup {b} /\ UNCHANGED <<given, delBlk>>
        /\ px'.pc = "insert" => px'.blk = b
    BY <1>3 DEF block_object_del, stores, Done
  <2> QED BY <2>1 DEF OrderInv, Unique, Once
<1>4. CASE notify_dn_2_delete_blk
  <2>1. /\ px.pc = "insert" /\ delBlk' = [delBlk EXCEPT ![px.st] = Append(@, px.blk)]
        /\ px' = [px EXCEPT !.pc = "remove"] /\ UNCHANGED <<rmd, given>>
    BY <1>4 DEF notify_dn_2_delete_blk
  <2> DEFINE q == delBlk[px.st]
  <2>2. px.st \in Store /\ px.blk \in Block /\ px'.pc = "remove" /\ q \in Seq(Block)
    BY <2>1 DEF StoreInv, Removing, TypeOK
  <2>3. /\ Append(q, px.blk) \in Seq(Block) /\ DOMAIN Append(q, px.blk) = 1 .. Len(q) + 1
        /\ \A i \in 1 .. Len(q) : Append(q, px.blk)[i] = q[i]
        /\ Append(q, px.blk)[Len(q) + 1] = px.blk /\ Len(q) \in Nat /\ DOMAIN q = 1 .. Len(q)
    BY <2>2
  <2>4. \A s \in Store : delBlk'[s] = IF s = px.st THEN Append(q, px.blk) ELSE delBlk[s]
    BY <2>1, <2>2, <2>3, ReplaceIds DEF StoreInv, TypeOK
  <2> DEFINE l == Len(q) + 1
  <2>5. ASSUME NEW s \in Store, NEW i \in DOMAIN delBlk'[s]
        PROVE  \/ i \in DOMAIN delBlk[s] /\ delBlk'[s][i] = delBlk[s][i]
               \/ s = px.st /\ i = l /\ delBlk'[s][i] = px.blk
    <3>1. CASE s # px.st
      BY <3>1, <2>4
    <3>2. CASE s = px.st
      <4>1. delBlk'[s] = Append(q, px.blk) /\ delBlk[s] = q
        BY <3>2, <2>4
      <4>2. i \in 1 .. Len(q) \/ i = Len(q) + 1
        BY <4>1, <2>3
      <4> QED BY <3>2, <4>1, <4>2, <2>3
    <3> QED BY <3>1, <3>2
  <2> HIDE DEF q, l
  <2>6. Unique(delBlk, Store)'
    <3> SUFFICES ASSUME NEW x \in Store, NEW y \in Store, NEW i \in DOMAIN delBlk'[x],
                        NEW j \in DOMAIN delBlk'[y], delBlk'[x][i] = delBlk'[y][j]
                 PROVE  x = y /\ i = j
      BY DEF Unique
    <3>1. CASE /\ i \in DOMAIN delBlk[x] /\ delBlk'[x][i] = delBlk[x][i]
               /\ j \in DOMAIN delBlk[y] /\ delBlk'[y][j] = delBlk[y][j]
      <4>1. delBlk[x][i] = delBlk[y][j]
        BY <3>1
      <4>2. x = y
        BY <4>1, <3>1, <1>12, UniqueAt, SMT
      <4>3. i = j
        BY <4>1, <3>1, <1>12, UniqueAt, SMT
      <4> QED BY <4>2, <4>3
    <3>2. CASE x = px.st /\ i = l /\ delBlk'[x][i] = px.blk
      BY <3>2, <2>1, <2>5, <1>15
    <3>3. CASE y = px.st /\ j = l /\ delBlk'[y][j] = px.blk
      BY <3>3, <2>1, <2>5, <1>15
    <3> QED BY <2>5, <3>1, <3>2, <3>3
  <2>7. Once(given, DataNode, delBlk, Store)'
    BY <2>1, <2>5, <1>13, <1>14 DEF Once
  <2> QED BY <2>1, <2>2, <2>5, <2>6, <2>7 DEF OrderInv, Unique
<1>5. CASE remove_entry
  <2>1. UNCHANGED <<given, delBlk, rmd>> /\ px'.pc = "idle"
    BY <1>5 DEF remove_entry, stores, Done
  <2> QED BY <2>1 DEF OrderInv, Unique, Once
<1>6. CASE UNCHANGED <<given, delBlk, rmd, px>>
  BY <1>6 DEF OrderInv, Unique, Once
<1> QED BY <1>1, <1>2, <1>3, <1>4, <1>5, <1>6, OrderFrame DEF Removal

\* No id is anywhere at the start.
LEMMA OrderInvInit == Init => OrderInv
BY DEF Init, OrderInv, Unique, Once, Done

\* An order to delete a block goes out at most once, to one datanode, after the file
\* was removed, whatever heartbeats, timeouts and removals interleave.
THEOREM OrdersSentOnce == ASSUME NoAlias PROVE Spec => []OrdersOnce
<1>1. Spec => []OrderInv
  BY StoreInvHolds, OrderInvInit, OrderInvNext, PTL DEF Spec
<1>2. OrderInv => OrdersOnce
  BY DEF OrderInv, Unique, OrdersOnce
<1> QED BY <1>1, <1>2, PTL

\* A sequence is a prefix of itself, and of itself with something behind it.
LEMMA PrefixOfConcat ==
  ASSUME NEW S, NEW q \in Seq(S), NEW r \in Seq(S)
  PROVE  IsPrefix(q, q \o r) /\ IsPrefix(q, q)
<1>1. q \o r \in Seq(S) /\ Len(q \o r) = Len(q) + Len(r) /\ Len(q) \in Nat /\ Len(r) \in Nat
      /\ \A i \in 1 .. Len(q) : (q \o r)[i] = q[i]
  BY ConcatProperties, LenProperties
<1>2. SubSeq(q, 1, Len(q)) = q
  BY SubSeqFull
<1> DEFINE p == SubSeq(q \o r, 1, Len(q))
<1>3. p = q
  <2>1. \A i \in 1 .. Len(q) : (q \o r)[i] \in S
    BY <1>1
  <2>2. /\ p \in Seq(S) /\ Len(p) = IF 1 <= Len(q) THEN Len(q) - 1 + 1 ELSE 0
        /\ \A i \in 1 .. Len(q) - 1 + 1 : p[i] = (q \o r)[1 + i - 1]
    BY <1>1, <2>1, SubSeqProperties
  <2> HIDE DEF p
  <2>3. Len(p) = Len(q)
    BY <1>1, <2>2
  <2>4. \A i \in 1 .. Len(q) : p[i] = q[i]
    BY <1>1, <2>2
  <2> QED BY <2>2, <2>3, <2>4, SeqEqual
<1> QED BY <1>1, <1>2, <1>3 DEF IsPrefix

\* What OrdersKept says of one store in one step.
Kept(s) ==
  LET d == owner[s]
  IN d = owner'[s] => /\ IsPrefix(given[d] \o delBlk[s], given'[d] \o delBlk'[s])
                      /\ Len(given'[d]) <= Len(given[d]) + DeleteOnce

\* A step that leaves the queue of a store and what its owner was sent alone.
LEMMA KeptUnchanged ==
  ASSUME StoreInv, NEW s \in Store, owner[s] \in DataNode,
         given'[owner[s]] = given[owner[s]], delBlk'[s] = delBlk[s]
  PROVE  Kept(s)
<1> DEFINE d == owner[s]
<1>1. given[d] \in Seq(Block) /\ delBlk[s] \in Seq(Block)
  BY DEF StoreInv, TypeOK
<1>2. given[d] \o delBlk[s] \in Seq(Block) /\ Len(given[d]) \in Nat
  BY <1>1, ConcatProperties, LenProperties
<1>3. IsPrefix(given[d] \o delBlk[s], given[d] \o delBlk[s])
  BY <1>2, PrefixOfConcat
<1> QED BY <1>2, <1>3, DnIndexAssumption DEF Kept

\* An answer moves ids from the front of the queue to the end of what was sent: the
\* two together stay as they are.
LEMMA KeptByAnswer ==
  ASSUME StoreInv, NEW d \in DataNode, heartbeat_answer(d)
  PROVE  Kept(task[d].st)
<1> DEFINE s == task[d].st
           n == task[d].n
           q == delBlk[s]
           a == SubSeq(q, 1, n)
           b == SubSeq(q, n + 1, Len(q))
<1>1. /\ s \in Store /\ owner[s] = d /\ n \in 0 .. Len(q) /\ n <= DeleteOnce
      /\ given'[d] = given[d] \o a /\ delBlk'[s] = b
  BY AnswerMoves
<1>2. q \in Seq(Block) /\ given[d] \in Seq(Block)
  BY <1>1 DEF StoreInv, TypeOK
<1>3. Len(q) \in Nat /\ Len(given[d]) \in Nat
  BY <1>2, LenProperties
<1> HIDE DEF s, n, q
<1>4. a \in Seq(Block) /\ Len(a) = n /\ b \in Seq(Block)
  <2>1. \A i \in 1 .. n : q[i] \in Block
    BY <1>1, <1>2, <1>3
  <2>2. \A i \in n + 1 .. Len(q) : q[i] \in Block
    BY <1>1, <1>2, <1>3
  <2>3. a \in Seq(Block) /\ Len(a) = IF 1 <= n THEN n - 1 + 1 ELSE 0
    BY <2>1, <1>1, <1>3, SubSeqProperties
  <2>4. b \in Seq(Block)
    BY <2>2, <1>1, <1>3, SubSeqProperties
  <2> HIDE DEF a, b
  <2> QED BY <2>3, <2>4, <1>1, <1>3
<1>5. a \o b = q
  <2>1. 1 \in 1 .. Len(q) + 1 /\ n \in 1 - 1 .. Len(q) /\ Len(q) \in n .. Len(q)
    BY <1>1, <1>3
  <2>2. a \o b = SubSeq(q, 1, Len(q))
    BY <2>1, <1>2, ConcatAdjacentSubSeq
  <2> QED BY <2>2, <1>2, SubSeqFull
<1> HIDE DEF a, b
<1>6. (given[d] \o a) \o b = given[d] \o q
  <2> DEFINE g == given[d]
  <2>1. g \in Seq(Block)
    BY <1>2
  <2> HIDE DEF g
  <2>2. (g \o a) \o b = g \o (a \o b)
    BY <1>4, <2>1, ConcatAssociative
  <2> QED BY <1>5, <2>2 DEF g
<1>7. IsPrefix(given[d] \o q, given'[d] \o delBlk'[s])
  <2>1. given[d] \o q \in Seq(Block)
    BY <1>2, ConcatProperties
  <2> QED BY <2>1, <1>1, <1>6, PrefixOfConcat
<1>8. Len(given'[d]) <= Len(given[d]) + DeleteOnce
  <2>1. Len(given[d] \o a) = Len(given[d]) + n
    BY <1>2, <1>4, ConcatProperties
  <2> QED BY <2>1, <1>1, <1>3, DnIndexAssumption
<1>9. delBlk[s] = q
  BY DEF q
<1>10. Kept(s)
  BY <1>1, <1>7, <1>8, <1>9 DEF Kept
<1> QED BY <1>10 DEF s

\* A removal appends its id at the end.
LEMMA KeptByNotify ==
  ASSUME StoreInv, notify_dn_2_delete_blk, owner[px.st] \in DataNode
  PROVE  Kept(px.st)
<1> DEFINE s == px.st
           d == owner[s]
           q == delBlk[s]
<1>1. /\ s \in Store /\ px.blk \in Block /\ given' = given
      /\ delBlk' = [delBlk EXCEPT ![s] = Append(q, px.blk)]
  BY DEF notify_dn_2_delete_blk, StoreInv, Removing
<1>2. q \in Seq(Block) /\ given[d] \in Seq(Block)
  BY <1>1 DEF StoreInv, TypeOK
<1>3. delBlk'[s] = Append(q, px.blk)
  <2>1. Append(q, px.blk) \in Seq(Block)
    BY <1>1, <1>2, AppendProperties
  <2> QED BY <1>1, <2>1, ReplaceIds DEF StoreInv, TypeOK
<1>4. Append(q, px.blk) = q \o <<px.blk>> /\ <<px.blk>> \in Seq(Block)
  BY <1>1, <1>2, AppendIsConcat
<1> HIDE DEF q, s
<1>5. given[d] \o (q \o <<px.blk>>) = (given[d] \o q) \o <<px.blk>>
  <2> DEFINE g == given[d]
             r == <<px.blk>>
  <2>1. g \in Seq(Block) /\ r \in Seq(Block)
    BY <1>2, <1>4
  <2> HIDE DEF g, r
  <2>2. (g \o q) \o r = g \o (q \o r)
    BY <1>2, <2>1, ConcatAssociative
  <2> QED BY <2>2 DEF g, r
<1>6. IsPrefix(given[d] \o q, given'[d] \o delBlk'[s])
  <2>1. given[d] \o q \in Seq(Block)
    BY <1>2, ConcatProperties
  <2> QED BY <2>1, <1>1, <1>3, <1>4, <1>5, PrefixOfConcat
<1>7. Len(given'[d]) <= Len(given[d]) + DeleteOnce
  <2>1. Len(given[d]) \in Nat
    BY <1>2, LenProperties
  <2> QED BY <2>1, <1>1, DnIndexAssumption
<1> QED BY <1>6, <1>7 DEF Kept, q, s

\* Every step keeps the orders of every store that stays in the index.
LEMMA KeptNext ==
  ASSUME StoreInv, [Next]_vars, NEW s \in Range(table) \cap Range(table')
  PROVE  Kept(s)
<1>1. s \in Store /\ owner[s] \in DataNode /\ s \in Range(dnq)
  BY RangePositions DEF StoreInv, TypeOK, Places, Owned
<1>2. ASSUME NEW d \in DataNode, nn_dn_register(d) PROVE Kept(s)
  <2>1. /\ given' = given
        /\ delBlk' = delBlk \/ (free # <<>> /\ delBlk' = [delBlk EXCEPT ![Head(free)] = <<>>])
    <3>1. CASE get_dn_store_obj(d) # None
      BY <1>2, <3>1 DEF nn_dn_register, stores
    <3>2. CASE get_dn_store_obj(d) = None
      BY <1>2, <3>2 DEF nn_dn_register
    <3> QED BY <3>1, <3>2
  <2>2. CASE delBlk' = delBlk
    BY <1>1, <2>1, <2>2, KeptUnchanged
  <2>3. CASE free # <<>> /\ delBlk' = [delBlk EXCEPT ![Head(free)] = <<>>]
    <3>1. Head(free) \in Range(free)
      BY <2>3, TailRange DEF StoreInv, TypeOK, Places
    <3>2. Head(free) # s
      BY <1>1, <3>1 DEF StoreInv, Places
    <3>3. delBlk'[s] = delBlk[s]
      BY <1>1, <2>3, <3>2, EmptySeq, ReplaceIds DEF StoreInv, TypeOK
    <3> QED BY <1>1, <2>1, <3>3, KeptUnchanged
  <2> QED BY <2>1, <2>2, <2>3
<1>3. ASSUME NEW d \in DataNode, heartbeat_answer(d) PROVE Kept(s)
  <2>1. CASE s = task[d].st
    BY <1>3, <2>1, KeptByAnswer
  <2>2. CASE s # task[d].st
    <3>1. task[d].st \in Range(dnq) /\ owner[task[d].st] = d
      BY <1>3, AnswerMoves
    <3>2. owner[s] # d
      BY <1>1, <2>2, <3>1 DEF StoreInv, Owned
    <3>3. given'[owner[s]] = given[owner[s]] /\ delBlk'[s] = delBlk[s]
      BY <1>1, <1>3, <2>2, <3>2, AnswerMoves
    <3> QED BY <1>1, <3>3, KeptUnchanged
  <2> QED BY <2>1, <2>2
<1>4. CASE notify_dn_2_delete_blk
  <2>1. CASE s = px.st
    BY <1>1, <1>4, <2>1, KeptByNotify
  <2>2. CASE s # px.st
    <3>1. given' = given /\ delBlk'[s] = delBlk[s]
      BY <1>1, <1>4, <2>2 DEF notify_dn_2_delete_blk, StoreInv, TypeOK
    <3> QED BY <1>1, <3>1, KeptUnchanged
  <2> QED BY <2>1, <2>2
<1>5. CASE remove_entry \/ \E b \in Block : block_object_del(b)
  <2>1. UNCHANGED <<given, delBlk>>
    BY <1>5 DEF remove_entry, block_object_del, stores
  <2> QED BY <1>1, <2>1, KeptUnchanged
<1>6. CASE UNCHANGED <<given, delBlk, rmd, px>>
  BY <1>1, <1>6, KeptUnchanged
<1> QED BY <1>2, <1>3, <1>4, <1>5, <1>6, OrderFrame DEF Removal

\* No order for a registered datanode is lost or overtaken, although a heartbeat
\* counts its ids under one lock and dequeues them under another.
THEOREM OrdersNeverLost == ASSUME NoAlias PROVE Spec => OrdersKept
<1>1. StoreInv /\ [Next]_vars =>
        [\A s \in Range(table) \cap Range(table') :
           LET d == owner[s]
           IN d = owner'[s] => /\ IsPrefix(given[d] \o delBlk[s], given'[d] \o delBlk'[s])
                               /\ Len(given'[d]) <= Len(given[d]) + DeleteOnce]_vars
  BY KeptNext DEF Kept
<1> QED BY <1>1, StoreInvHolds, PTL DEF Spec, OrdersKept
=============================================================================
