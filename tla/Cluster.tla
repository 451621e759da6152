------------------------------ MODULE Cluster ------------------------------
(***************************************************************************)
(* Clients that put, get and remove one file (client/dfscli_put.c,         *)
(* dfscli_get.c, dfscli_main.c), the namenodes that replicate its metadata *)
(* through the editlog (namenode/nn_paxos.c, paxos/FSEditlog.cpp,          *)
(* paxos/EditlogSM.cpp) and the datanodes that store its blocks.           *)
(*                                                                         *)
(* A handler of the paxos thread looks at the tree first and proposes      *)
(* afterwards; it waits for Propose, while other proposals are chosen and  *)
(* executed, and ignores its result.  The choice of log entries is         *)
(* phxpaxos's: one sequence for all, executed by each replica in order;    *)
(* namenodes outside Nn complete the quorum.  The parts that FileIndex,    *)
(* DnIndex, NsService and DnRequest describe in detail are single steps    *)
(* here: the tree is the stores of the one file, the last created first,   *)
(* and a block is on a datanode as a whole or not at all.  A put has one   *)
(* block, which bears the name of its client: generate_uid is taken to     *)
(* give every create its own id.                                           *)
(***************************************************************************)
EXTENDS Naturals, Sequences, FiniteSets, SequencesExt

CONSTANTS
  Client,       \* runs of dfscli, each of one command
  Cmds,         \* Cmds[c]: what it may be: "put", "get", "rm"
  Homes,        \* Homes[c]: what may be the first namenode of its configuration
  Nn, Dn,
  MaxFaults     \* crashes, failed calls and changes of the master

ASSUME ClusterAssumption ==
  /\ Cmds \in [Client -> SUBSET {"put", "get", "rm"}] /\ Homes \in [Client -> SUBSET Nn]
  /\ MaxFaults \in Nat

VARIABLES
  log,      \* the entries chosen so far
  late,     \* proposals given up by their proposer; they may still be chosen
  nn,       \* nn[n]: a namenode
  master,   \* the namenode whose IsIMMaster is true
  dn,       \* dn[d]: a datanode; gone: the blocks it has deleted
  cli,      \* cli[c]: a client
  expired,  \* blocks whose store fi_create_timeout removed somewhere
  faults    \* how many there were

vars == <<log, late, nn, master, dn, cli, expired, faults>>

None == "none"
Entry == [op : {"create", "close", "rm"}, cli : Client]
Store == [blk : Client, st : {"creating", "ok"}, timer : BOOLEAN]

\* A namenode that has just been started: everything is to be learned again.
Fresh == [up |-> TRUE, at |-> 0, stores |-> <<>>, pax |-> <<>>, blks |-> {}, reg |-> {},
          orders |-> {}, why |-> None]

\* A client before its command, and one that was refused.
Idle == [home |-> None, dn |-> None, pc |-> "start", link |-> TRUE, blk |-> None]
Refused == [Idle EXCEPT !.pc = "failed"]

TypeOK ==
  /\ log \in Seq(Entry) /\ late \subseteq Entry
  /\ nn \in [Nn -> [up : BOOLEAN, at : 0 .. Len(log), stores : Seq(Store),
                    pax : {<<>>} \cup Seq(Entry), blks : SUBSET (Client \X Dn),
                    reg : SUBSET Dn, orders : SUBSET (Client \X Dn),
                    why : {None, "crash", "open", "missing", "twice", "dangling"}]]
  /\ master \in Nn \cup {None}
  /\ dn \in [Dn -> [up : BOOLEAN, disk : SUBSET Client, cache : SUBSET Client,
                    queue : Seq(Client), gone : SUBSET Client]]
  /\ cli \in [Client -> [home : Nn \cup {None}, dn : Dn \cup {None},
                         pc : {"start", "wait", "write", "close", "read", "done", "failed"},
                         link : BOOLEAN, blk : Client \cup {None}]]
  /\ expired \subseteq Client /\ faults \in 0 .. MaxFaults

Init ==
  /\ log = <<>> /\ late = {}
  /\ nn = [n \in Nn |-> [Fresh EXCEPT !.reg = Dn]]
  /\ master \in Nn
  /\ dn = [d \in Dn |-> [up |-> TRUE, disk |-> {}, cache |-> {}, queue |-> <<>>,
                       gone |-> {}]]
  /\ cli = [c \in Client |-> Idle]
  /\ expired = {} /\ faults = 0

Fault == faults < MaxFaults /\ faults' = faults + 1

----------------------------------------------------------------------------
(* The replicas. *)

\* get_store_obj finds the file and it is not being created.
Closed(n) == IF nn[n].stores = <<>> THEN FALSE ELSE nn[n].stores[1].st = "ok"

\* The process follows a NULL or freed pointer, or is killed.
Down(r, why) == [r EXCEPT !.up = FALSE, !.pax = <<>>, !.why = why]

\* Mutant: a replica that did not propose the create leaves it out.
update_fi_create_ProposerOnly(r, e, mine) ==
  IF mine THEN [r EXCEPT !.stores = <<[blk |-> e.cli, st |-> "creating", timer |-> TRUE]>> \o @]
  ELSE r

\* A second store of the same name hides the first.  Only the proposer hands over
\* the thread whose timers are to watch the store.
update_fi_create(r, e, mine) ==
  [r EXCEPT !.stores = <<[blk |-> e.cli, st |-> "creating", timer |-> mine]>> \o @]

\* The store is linked into its directory and the checkpoint queue; if it is there
\* already the lists are broken.
update_fi_close(r) ==
  IF r.stores = <<>> THEN Down(r, "missing")
  ELSE IF r.stores[1].st = "ok" THEN Down(r, "twice")
  ELSE [r EXCEPT !.stores[1].st = "ok", !.stores[1].timer = FALSE]

\* Mutant: the datanode is told to delete all the blocks it has reported.
block_object_del_All(r, b) ==
  [r EXCEPT !.blks = {x \in @ : x[1] # b}, !.orders = @ \cup {x \in r.blks : x[2] \in r.reg}]

\* The block's entry goes and, if its datanode is registered, an order to delete it.
block_object_del(r, b) ==
  [r EXCEPT !.blks = {x \in @ : x[1] # b},
            !.orders = @ \cup {x \in r.blks : x[1] = b /\ x[2] \in r.reg}]

\* An armed timer stays behind on the freed store.
update_fi_rm(r) ==
  IF r.stores = <<>> THEN Down(r, "missing")
  ELSE IF r.stores[1].timer THEN Down(r, "dangling")
  ELSE [block_object_del(r, r.stores[1].blk) EXCEPT !.stores = Tail(@)]

\* PhxEditlogSM::Execute through update_fi_cache_mgmt; mine: with the context of a
\* Propose that is still waiting.
Execute(r, e, mine) ==
  LET s == [r EXCEPT !.at = @ + 1]
  IN  CASE e.op = "create" -> update_fi_create(s, e, mine)
        [] e.op = "close" -> update_fi_close(s)
        [] OTHER -> update_fi_rm(s)

\* A replica executes the next entry, chosen by another's proposal or replayed.
Learn(n) ==
  /\ nn[n].up /\ nn[n].at < Len(log)
  /\ nn' = [nn EXCEPT ![n] = Execute(@, log[@.at + 1], FALSE)]
  /\ UNCHANGED <<log, late, master, dn, cli, expired, faults>>

\* A proposal its proposer has given up is chosen after all.
ChosenLate(e) ==
  /\ e \notin ToSet(log)
  /\ log' = Append(log, e)
  /\ UNCHANGED <<late, nn, master, dn, cli, expired, faults>>

\* The timers run in the paxos thread.
fi_create_timeout(n) ==
  /\ nn[n].up /\ nn[n].pax = <<>>
  /\ \E i \in DOMAIN nn[n].stores :
       /\ nn[n].stores[i].timer
       /\ nn' = [nn EXCEPT ![n].stores = RemoveAt(@, i)]
       /\ expired' = expired \cup {nn[n].stores[i].blk}
  /\ UNCHANGED <<log, late, master, dn, cli, faults>>

NnCrash(n) ==
  /\ Fault /\ nn[n].up
  /\ nn' = [nn EXCEPT ![n] = Down(@, "crash")]
  /\ UNCHANGED <<log, late, master, dn, cli, expired>>

NnRestart(n) ==
  /\ ~nn[n].up
  /\ nn' = [nn EXCEPT ![n] = Fresh]
  /\ cli' = [c \in Client |-> [cli[c] EXCEPT !.link = @ /\ cli[c].home # n]]
  /\ master' = IF master = n THEN None ELSE master
  /\ UNCHANGED <<log, late, dn, expired, faults>>

\* A namenode that has executed the whole log takes over.
ElectMaster(n) ==
  /\ master # n /\ nn[n].up /\ nn[n].at = Len(log)
  /\ IF master = None \/ ~nn[master].up THEN UNCHANGED faults ELSE Fault
  /\ master' = n
  /\ UNCHANGED <<log, late, nn, dn, cli, expired>>

----------------------------------------------------------------------------
(* Requests in the paxos thread of the client's namenode. *)

End(c, pc) == cli' = [cli EXCEPT ![c] = [Idle EXCEPT !.home = cli[c].home, !.pc = pc]]

\* dfs_connect and the first request reach the namenode, whose thread is free.
Begins(c, cmd, n) == cli[c].pc = "start" /\ cmd \in Cmds[c] /\ n \in Homes[c] /\ nn[n].up
Free(n) == nn[n].up /\ nn[n].pax = <<>>

\* The handler refuses,
Refuse(c, end) ==
  /\ cli' = [cli EXCEPT ![c] = end]
  /\ UNCHANGED <<log, late, nn, master, dn, expired, faults>>

\* or goes on to Propose while the client waits.
GoOn(n, c, op, d) ==
  /\ nn' = [nn EXCEPT ![n].pax = <<[op |-> op, cli |-> c]>>]
  /\ cli' = [cli EXCEPT ![c] = [Idle EXCEPT !.home = n, !.pc = "wait", !.dn = d]]
  /\ UNCHANGED <<log, late, master, dn, expired, faults>>

\* generate_dns names the first datanode registered.
log_create(c, n) ==
  /\ Begins(c, "put", n) /\ Free(n)
  /\ IF master # n \/ nn[n].stores # <<>> \/ nn[n].reg = {}
     THEN Refuse(c, Refused)
     ELSE \E d \in nn[n].reg : GoOn(n, c, "create", d)

\* The test for the master is commented out.  A store that is missing is no
\* reason to refuse.  The client ends well in either case.
log_close(c, n) ==
  /\ cli[c].pc = "close" /\ cli[c].home = n /\ cli[c].link /\ Free(n)
  /\ IF Closed(n) THEN Refuse(c, [Idle EXCEPT !.home = n, !.pc = "done"])
     ELSE GoOn(n, c, "close", None)

\* Mutant: the file is not looked up.
log_rm_Unchecked(c, n) ==
  /\ Begins(c, "rm", n) /\ Free(n)
  /\ IF master # n THEN Refuse(c, Refused) ELSE GoOn(n, c, "rm", None)

log_rm(c, n) ==
  /\ Begins(c, "rm", n) /\ Free(n)
  /\ IF master # n \/ nn[n].stores = <<>> THEN Refuse(c, Refused)
     ELSE GoOn(n, c, "rm", None)

\* The answer says SUCC, whether the entry was chosen or not.
Answer(n) ==
  LET e == nn[n].pax[1]
  IN  IF e.op = "create" THEN cli' = [cli EXCEPT ![e.cli].pc = "write"]
      ELSE End(e.cli, "done")

\* The entry is chosen, as the next one after all the replica has executed,
Propose(n) ==
  /\ nn[n].up /\ nn[n].pax # <<>> /\ nn[n].at = Len(log)
  /\ LET e == nn[n].pax[1]
     IN  /\ log' = Append(log, e)
         /\ nn' = [nn EXCEPT ![n] = Execute([@ EXCEPT !.pax = <<>>], e, e.op = "create")]
  /\ Answer(n)
  /\ UNCHANGED <<late, master, dn, expired, faults>>

\* or Propose fails, and paxos may go on with the entry.
ProposeFails(n) ==
  /\ Fault /\ nn[n].up /\ nn[n].pax # <<>>
  /\ late' = late \cup ToSet(nn[n].pax)
  /\ nn' = [nn EXCEPT ![n].pax = <<>>]
  /\ Answer(n)
  /\ UNCHANGED <<log, master, dn, expired>>

\* A task thread looks the file and its block up; the block's entry is not checked.
nn_open(c, n) ==
  LET b == nn[n].stores[1].blk
  IN  /\ Begins(c, "get", n)
      /\ IF ~Closed(n)
         THEN cli' = [cli EXCEPT ![c] = Refused] /\ UNCHANGED nn
         ELSE IF \A d \in Dn : <<b, d>> \notin nn[n].blks
         THEN /\ nn' = [nn EXCEPT ![n] = Down(@, "open")]
              /\ cli' = [cli EXCEPT ![c] = Refused]
         ELSE /\ \E d \in Dn :
                   /\ <<b, d>> \in nn[n].blks
                   /\ cli' = [cli EXCEPT ![c] = [Idle EXCEPT !.pc = "read", !.dn = d,
                                                             !.blk = b]]
              /\ UNCHANGED nn
      /\ UNCHANGED <<log, late, master, dn, expired, faults>>

----------------------------------------------------------------------------
(* The clients. *)

NoNamenode(c) ==
  /\ cli[c].pc = "start" /\ \E n \in Homes[c] : ~nn[n].up
  /\ End(c, "failed")
  /\ UNCHANGED <<log, late, nn, master, dn, expired, faults>>

\* The namenode has gone.  A connection that ends counts as an answer, and
\* dfs_create goes on with a context nobody has filled in: whatever it does then
\* reaches no datanode of this name and no namenode.
CutOff(c) ==
  /\ cli[c].pc \in {"wait", "close"}
  /\ ~nn[cli[c].home].up \/ ~cli[c].link
  /\ End(c, "failed")
  /\ UNCHANGED <<log, late, nn, master, dn, expired, faults>>

\* dfs_write_blk: whatever becomes of the block, dfs_close follows.  The block is
\* not stored, or stored although no answer arrives, only by a fault.
dfs_write_blk(c) ==
  LET d == cli[c].dn
  IN  /\ cli[c].pc = "write"
      /\ \/ /\ dn[d].up
            /\ dn' = [dn EXCEPT ![d].disk = @ \cup {c}, ![d].cache = @ \cup {c},
                                ![d].queue = Append(@, c)]
            /\ UNCHANGED faults
         \/ /\ IF dn[d].up THEN Fault ELSE UNCHANGED faults
            /\ UNCHANGED dn
      /\ cli' = [cli EXCEPT ![c].pc = "close", ![c].dn = None]
      /\ UNCHANGED <<log, late, nn, master, expired>>

\* The client is killed, as by SIGPIPE, and closes nothing.
ClientDies(c) ==
  /\ Fault /\ cli[c].pc \in {"write", "close"}
  /\ End(c, "failed")
  /\ UNCHANGED <<log, late, nn, master, dn, expired>>

dfs_read_blk(c) ==
  LET d == cli[c].dn
  IN  /\ cli[c].pc = "read"
      /\ End(c, IF dn[d].up /\ cli[c].blk \in dn[d].cache THEN "done" ELSE "failed")
      /\ UNCHANGED <<log, late, nn, master, dn, expired, faults>>

----------------------------------------------------------------------------
(* The datanodes, each with a thread for every namenode. *)

dn_register(d, n) ==
  /\ dn[d].up /\ nn[n].up /\ d \notin nn[n].reg
  /\ nn' = [nn EXCEPT ![n].reg = @ \cup {d}]
  /\ UNCHANGED <<log, late, master, dn, cli, expired, faults>>

\* The entries of its blocks stay.
dn_timeout_handler(n, d) ==
  /\ nn[n].up /\ ~dn[d].up /\ d \in nn[n].reg
  /\ nn' = [nn EXCEPT ![n].reg = @ \ {d}, ![n].orders = {x \in @ : x[2] # d}]
  /\ UNCHANGED <<log, late, master, dn, cli, expired, faults>>

\* The thread that takes a report out of the queue tells its own namenode only; a
\* report that cannot be sent is lost.
receivedblock_report(d, n) ==
  /\ dn[d].up /\ dn[d].queue # <<>>
  /\ dn' = [dn EXCEPT ![d].queue = Tail(@)]
  /\ \/ /\ nn[n].up /\ d \in nn[n].reg
        /\ nn' = [nn EXCEPT ![n].blks = @ \cup {<<Head(dn[d].queue), d>>}]
        /\ UNCHANGED faults
     \/ Fault /\ UNCHANGED nn
  /\ UNCHANGED <<log, late, master, cli, expired>>

\* The answer to a heartbeat carries the orders; a block that is not in the cache
\* stays on the disk.
heartbeat(d, n) ==
  LET gone == {b \in dn[d].cache : <<b, d>> \in nn[n].orders}
  IN  /\ dn[d].up /\ nn[n].up /\ d \in nn[n].reg
      /\ \E b \in Client : <<b, d>> \in nn[n].orders
      /\ nn' = [nn EXCEPT ![n].orders = {x \in @ : x[2] # d}]
      /\ dn' = [dn EXCEPT ![d].cache = @ \ gone, ![d].disk = @ \ gone,
                          ![d].gone = @ \cup gone]
      /\ UNCHANGED <<log, late, master, cli, expired, faults>>

DnCrash(d) ==
  /\ Fault /\ dn[d].up
  /\ dn' = [dn EXCEPT ![d].up = FALSE, ![d].cache = {}, ![d].queue = <<>>]
  /\ UNCHANGED <<log, late, nn, master, cli, expired>>

DnRestart(d) ==
  /\ ~dn[d].up /\ dn' = [dn EXCEPT ![d].up = TRUE]
  /\ UNCHANGED <<log, late, nn, master, cli, expired, faults>>

\* The scanner adds and reports what it finds on the disk only.
scan_current_dir(d) ==
  /\ dn[d].up
  /\ \E b \in dn[d].disk \ dn[d].cache :
       dn' = [dn EXCEPT ![d].cache = @ \cup {b}, ![d].queue = Append(@, b)]
  /\ UNCHANGED <<log, late, nn, master, cli, expired, faults>>

----------------------------------------------------------------------------

NamenodeStep(n) ==
  \/ Learn(n) \/ fi_create_timeout(n) \/ Propose(n) \/ ProposeFails(n)
  \/ NnCrash(n) \/ NnRestart(n) \/ ElectMaster(n)
  \/ \E d \in Dn : dn_timeout_handler(n, d)

ClientStep(c) ==
  \/ \E n \in Nn : log_create(c, n) \/ log_close(c, n) \/ log_rm(c, n) \/ nn_open(c, n)
  \/ NoNamenode(c) \/ CutOff(c)
  \/ dfs_write_blk(c) \/ dfs_read_blk(c) \/ ClientDies(c)

DatanodeStep(d) ==
  \/ \E n \in Nn : dn_register(d, n) \/ receivedblock_report(d, n) \/ heartbeat(d, n)
  \/ DnCrash(d) \/ DnRestart(d) \/ scan_current_dir(d)

Next ==
  \/ \E e \in late : ChosenLate(e)
  \/ \E n \in Nn : NamenodeStep(n)
  \/ \E c \in Client : ClientStep(c)
  \/ \E d \in Dn : DatanodeStep(d)

Spec == Init /\ [][Next]_vars

----------------------------------------------------------------------------
(* Properties. *)

\* The tree the first k entries of the log stand for.
Tree(k) == FoldLeft(LAMBDA r, e : IF r.up THEN Execute(r, e, FALSE) ELSE r, Fresh,
                    SubSeq(log, 1, k)).stores

\* A tree without the files whose create timed out somewhere.
Settled(s) == LET t == SelectSeq(s, LAMBDA x : x.blk \notin expired)
              IN  [i \in DOMAIN t |-> <<t[i].blk, t[i].st>>]

\* Such a file had hidden another one of its name.
Uncovered == expired # {} /\ \E k \in DOMAIN log : LET t == Tree(k) IN
  \E i, j \in DOMAIN t : i < j /\ t[i].blk \in expired /\ t[j].blk \notin expired

(***************************************************************************)
(* Replication: a namenode that is up holds the tree that the entries it   *)
(* has executed stand for, whatever was proposed twice over, given up or   *)
(* chosen late, and whether it proposed them, learned them or replayed     *)
(* them after a restart.  The one exception is a file whose create timer   *)
(* went off: only the proposer's goes off (EditlogSM.cpp,                  *)
(* update_fi_create).  Where that file had hidden another one of the same  *)
(* name, created by a proposal chosen late or by a second master, later    *)
(* entries hit different files and nothing is claimed.                     *)
(***************************************************************************)
SameAsLog ==
  /\ TypeOK
  /\ \A n \in Nn :
       nn[n].up /\ Settled(nn[n].stores) # Settled(Tree(nn[n].at)) => Uncovered

(***************************************************************************)
(* What the handlers have checked before Propose still holds when the      *)
(* entry is executed, so that no replica follows the pointer of a store    *)
(* that is missing, closed or watched by a timer: as long as one namenode  *)
(* is everyone's first, no create timer went off, no Propose failed and no *)
(* rm hit a file that was being created.                                   *)
(***************************************************************************)
OneHome == \A c, e \in Client : cli[c].home = cli[e].home \/ None \in {cli[c].home, cli[e].home}
RmUnclosed == \E k \in DOMAIN log :
  log[k].op = "rm" /\ Tree(k - 1) # <<>> /\ Tree(k - 1)[1].st = "creating"
ChecksHold ==
  (\E n \in Nn : nn[n].why \notin {None, "crash", "open"}) =>
    ~OneHome \/ expired # {} \/ late # {} \/ RmUnclosed

(***************************************************************************)
(* A datanode deletes a block only after an rm in the log has removed its  *)
(* file: no order is given for a block that some entry of the tree still   *)
(* names, whichever namenodes know the block and however late they learn   *)
(* or replay the rm, with the exception SameAsLog makes (update_fi_rm,     *)
(* block_object_del).                                                      *)
(***************************************************************************)
BlocksKept ==
  \A d \in Dn : \A b \in dn[d].gone \ expired :
    Uncovered \/ \A x \in ToSet(Tree(Len(log))) : x.blk # b
=============================================================================
