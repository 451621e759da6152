----------------------------- MODULE FaioProofs -----------------------------
(***************************************************************************)
(* Proofs about asynchronous file I/O (Faio.tla), for any number of        *)
(* network threads, tasks and workers and any size of the request queue    *)
(* and of the pool.  The inductive invariant FaioInv has one part for each *)
(* of the four things that are shared: where a task is (PlaceInv), what    *)
(* the notifier's flag stands for (NoticeInv), what the counters of the    *)
(* pool count (CountPart), and what start-up leaves for later (QuietInv,   *)
(* StayInv).                                                               *)
(***************************************************************************)
EXTENDS Faio, SequenceLemmas

WorkerPc == {"none", "pop", "exec", "send", "write", "lock", "wait", "timed", "woken", "end"}
NetPc == {"loop", "check", "push", "maybe", "create", "list", "reset", "bad", "ok"}
MainPc == {"create", "list", "register", "up", "quit", "join", "qwait", "released"}
Queues == {"ok", "bad"}

WorkerRec == [pc : WorkerPc, task : Task \cup Net \cup {None}, quit : BOOLEAN]
NetRec == [pc : NetPc, task : Task \cup Worker \cup {None}, back : {"loop", "ok"}]

\* What a thread holds is what its place in the code says it is.
Shape ==
  /\ main \in [pc : MainPc, n : Int, w : Worker \cup {None}]
  /\ main.pc = "list" => main.w \in Worker
  /\ reqq \in Seq(Task)
  /\ wk \in [Worker -> WorkerRec]
  /\ \A w \in Worker : /\ wk[w].pc = "exec" => wk[w].task \in Task
                       /\ wk[w].pc \in {"send", "write"} => wk[w].task \in Net
  /\ idle \in Int /\ started \in Int /\ wantQuit \in BOOLEAN /\ listed \subseteq Worker
  /\ net \in [Net -> NetRec]
  /\ \A n \in Net : /\ net[n].pc \in {"check", "push"} => net[n].task \in Task
                    /\ net[n].pc = "list" => net[n].task \in Worker
  /\ posted \in [Net -> [Queues -> Seq(Task)]]
  /\ noticed \in [Net -> BOOLEAN] /\ evfd \in [Net -> Nat]

LEMMA ShapeInit == Init => Shape
<1> SUFFICES ASSUME Init PROVE Shape
  OBVIOUS
<1>1. wk \in [Worker -> WorkerRec] /\ \A w \in Worker : wk[w].pc = "none"
  BY DEF Init, NoWorker, WorkerRec, WorkerPc
<1>2. net \in [Net -> NetRec] /\ \A n \in Net : net[n].pc = "loop"
  BY DEF Init, AtLoop, NetRec, NetPc
<1>3. posted \in [Net -> [Queues -> Seq(Task)]]
  BY DEF Init, Queues
<1>4. main \in [pc : MainPc, n : Int, w : Worker \cup {None}] /\ main.pc # "list"
  BY DEF Init, MainPc
<1>5. noticed \in [Net -> BOOLEAN] /\ evfd \in [Net -> Nat] /\ wantQuit \in BOOLEAN
  BY DEF Init
<1>6. reqq \in Seq(Task) /\ idle \in Int /\ started \in Int /\ listed \subseteq Worker
  BY DEF Init
<1> QED BY <1>1, <1>2, <1>3, <1>4, <1>5, <1>6 DEF Shape

-----------------------------------------------------------------------------
(* The type of a step, by the part of the state it writes *)

WkShape == /\ wk \in [Worker -> WorkerRec]
           /\ \A w \in Worker : /\ wk[w].pc = "exec" => wk[w].task \in Task
                                /\ wk[w].pc \in {"send", "write"} => wk[w].task \in Net
NetShape == /\ net \in [Net -> NetRec]
            /\ \A n \in Net : /\ net[n].pc \in {"check", "push"} => net[n].task \in Task
                              /\ net[n].pc = "list" => net[n].task \in Worker
MainShape == /\ main \in [pc : MainPc, n : Int, w : Worker \cup {None}]
             /\ main.pc = "list" => main.w \in Worker
PoolShape == /\ idle \in Int /\ started \in Int /\ wantQuit \in BOOLEAN /\ listed \subseteq Worker
NoteShape == /\ posted \in [Net -> [Queues -> Seq(Task)]]
             /\ noticed \in [Net -> BOOLEAN] /\ evfd \in [Net -> Nat]

LEMMA ShapeParts ==
  /\ Shape <=> WkShape /\ NetShape /\ MainShape /\ PoolShape /\ NoteShape /\ reqq \in Seq(Task)
  BY DEF Shape, WkShape, NetShape, MainShape, PoolShape, NoteShape

LEMMA ShapeSame ==
  /\ WkShape /\ wk' = wk => WkShape'
  /\ NetShape /\ net' = net => NetShape'
  /\ MainShape /\ main' = main => MainShape'
  /\ PoolShape /\ UNCHANGED pool => PoolShape'
  /\ NoteShape /\ UNCHANGED notes => NoteShape'
<1>1. WkShape /\ wk' = wk => WkShape'
  BY DEF WkShape
<1>2. NetShape /\ net' = net => NetShape'
  BY DEF NetShape
<1>3. MainShape /\ main' = main => MainShape'
  BY DEF MainShape
<1>4. PoolShape /\ UNCHANGED pool => PoolShape'
  <2>1. SUFFICES ASSUME PoolShape, UNCHANGED pool PROVE PoolShape'
    OBVIOUS
  <2>2. idle' = idle /\ started' = started /\ wantQuit' = wantQuit /\ listed' = listed
    BY <2>1 DEF pool
  <2>3. wantQuit' \in BOOLEAN
    BY <2>1, <2>2, Zenon DEF PoolShape
  <2> QED BY <2>1, <2>2, <2>3 DEF PoolShape
<1>5. NoteShape /\ UNCHANGED notes => NoteShape'
  BY DEF NoteShape, notes
<1> QED BY <1>1, <1>2, <1>3, <1>4, <1>5

\* A worker moves on; what it holds fits where it goes.
LEMMA WkMoves ==
  ASSUME WkShape, NEW w \in Worker, NEW to \in WorkerPc, wk' = [wk EXCEPT ![w].pc = to],
         to \notin {"exec", "send", "write"} \/ (to = "write" /\ wk[w].pc = "send")
  PROVE  WkShape'
<1>1. wk' \in [Worker -> WorkerRec]
  BY DEF WkShape, WorkerRec
<1>2. wk'[w].pc = to /\ wk'[w].task = wk[w].task /\ \A v \in Worker \ {w} : wk'[v] = wk[v]
  BY DEF WkShape, WorkerRec
<1> QED BY <1>1, <1>2 DEF WkShape

LEMMA SignalShape ==
  ASSUME WkShape, faio_cond_signal
  PROVE  WkShape'
<1>1. CASE Asleep = {}
  BY <1>1, ShapeSame DEF faio_cond_signal
<1>2. CASE Asleep # {}
  <2>1. PICK w \in Asleep : wk' = [wk EXCEPT ![w].pc = "woken"]
    BY <1>2 DEF faio_cond_signal
  <2>2. w \in Worker /\ "woken" \in WorkerPc
    BY DEF Asleep, WorkerPc
  <2> QED BY <2>1, <2>2, WkMoves
<1> QED BY <1>1, <1>2

LEMMA CreateShape ==
  ASSUME WkShape, NEW w \in Unused, faio_worker_create_thread(w)
  PROVE  WkShape'
<1>1. [pc |-> "pop", task |-> None, quit |-> FALSE] \in WorkerRec /\ w \in Worker
  BY DEF WorkerRec, WorkerPc, Unused
<1>2. wk' = [wk EXCEPT ![w] = [pc |-> "pop", task |-> None, quit |-> FALSE]]
  BY DEF faio_worker_create_thread
<1> QED BY <1>1, <1>2 DEF WkShape

LEMMA NetMoves ==
  ASSUME NetShape, NEW n \in Net, NEW to \in NetPc, net' = [net EXCEPT ![n].pc = to],
         to \notin {"check", "push", "list"} \/ (to = "push" /\ net[n].pc = "check")
  PROVE  NetShape'
<1>1. net' \in [Net -> NetRec]
  BY DEF NetShape, NetRec
<1>2. net'[n].pc = to /\ net'[n].task = net[n].task /\ \A m \in Net \ {n} : net'[m] = net[m]
  BY DEF NetShape, NetRec
<1> QED BY <1>1, <1>2 DEF NetShape

LEMMA ReturnShape ==
  ASSUME NetShape, NEW n \in Net, Return(n)
  PROVE  NetShape'
<1>1. /\ net' = [net EXCEPT ![n] = [pc |-> net[n].back, task |-> None, back |-> "loop"]]
      /\ net[n].back \in {"loop", "ok"}
  BY DEF Return, NetShape, NetRec
<1>2. [pc |-> net[n].back, task |-> None, back |-> "loop"] \in NetRec
  BY <1>1 DEF NetRec, NetPc
<1> QED BY <1>1, <1>2 DEF NetShape

LEMMA ShapeStep ==
  ASSUME Shape, Next
  PROVE  Shape'
<1>0. WkShape /\ NetShape /\ MainShape /\ PoolShape /\ NoteShape /\ reqq \in Seq(Task)
  BY ShapeParts
<1>s. SUFFICES WkShape' /\ NetShape' /\ MainShape' /\ PoolShape' /\ NoteShape' /\ reqq' \in Seq(Task)
  BY DEF Shape, WkShape, NetShape, MainShape, PoolShape, NoteShape
<1> USE DEF WorkerPc, NetPc, MainPc
<1>1. CASE faio_worker_manager_init
  <2>1. UNCHANGED <<reqq, pool, net, notes>>
    BY <1>1 DEF faio_worker_manager_init
  <2>2. WkShape' /\ MainShape'
    <3>1. CASE \E w \in Unused :
               faio_worker_create_thread(w) /\ main' = [main EXCEPT !.pc = "list", !.w = w]
      <4>1. PICK w \in Unused :
               faio_worker_create_thread(w) /\ main' = [main EXCEPT !.pc = "list", !.w = w]
        BY <3>1
      <4>2. w \in Worker
        BY DEF Unused
      <4> QED BY <1>0, <4>1, <4>2, CreateShape DEF MainShape
    <3>2. CASE UNCHANGED wk /\ \E to \in {"quit", "register"} : main' = [main EXCEPT !.pc = to]
      BY <1>0, <3>2, ShapeSame DEF MainShape
    <3> QED BY <1>1, <3>1, <3>2 DEF faio_worker_manager_init
  <2> QED BY <1>0, <2>1, <2>2, ShapeSame
<1>2. CASE main_list
  <2>1. /\ UNCHANGED <<reqq, wk, net, notes>>
        /\ main.pc = "list" /\ main' = [pc |-> "create", n |-> main.n + 1, w |-> None]
        /\ listed' = listed \cup {main.w} /\ started' = started + 1
        /\ idle' = idle /\ wantQuit' = wantQuit
    BY <1>2 DEF main_list, ListWorker
  <2>2. MainShape'
    BY <1>0, <2>1 DEF MainShape
  <2>3. wantQuit' \in BOOLEAN
    BY <1>0, <2>1, Zenon DEF PoolShape
  <2>4. PoolShape'
    BY <1>0, <2>1, <2>3 DEF PoolShape, MainShape
  <2> QED BY <1>0, <2>1, <2>2, <2>4, ShapeSame
<1>3. CASE cfs_faio_ioinit
  <2>1. MainShape'
    BY <1>0, <1>3 DEF MainShape, cfs_faio_ioinit
  <2> QED BY <1>0, <1>3, <2>1, ShapeSame DEF cfs_faio_ioinit
<1>4. CASE faio_worker_quit_thread
  <2>1. MainShape'
    BY <1>0, <1>4 DEF MainShape, PoolShape, faio_worker_quit_thread
  <2>2. PoolShape'
    <3>1. CASE UNCHANGED pool
      BY <1>0, <3>1, ShapeSame
    <3>2. CASE wantQuit' = TRUE /\ UNCHANGED <<idle, started, listed>>
      BY <1>0, <3>2 DEF PoolShape
    <3> QED BY <1>4, <3>1, <3>2 DEF faio_worker_quit_thread
  <2>3. WkShape'
    BY <1>0, <1>4, SignalShape, ShapeSame DEF faio_worker_quit_thread
  <2> QED BY <1>0, <1>4, <2>1, <2>2, <2>3, ShapeSame DEF faio_worker_quit_thread
<1>5. CASE faio_worker_manager_release
  <2>1. MainShape'
    BY <1>0, <1>5 DEF MainShape, faio_worker_manager_release
  <2> QED BY <1>0, <1>5, <2>1, ShapeSame DEF faio_worker_manager_release
<1>6. ASSUME NEW w \in Worker, faio_data_pop_req(w)
      PROVE  WkShape' /\ NetShape' /\ MainShape' /\ PoolShape' /\ NoteShape' /\ reqq' \in Seq(Task)
  <2>1. UNCHANGED <<main, pool, net, notes>>
    BY <1>6 DEF faio_data_pop_req
  <2>2. CASE /\ reqq # <<>> /\ reqq' = Tail(reqq)
             /\ wk' = [wk EXCEPT ![w] = [pc |-> "exec", task |-> Head(reqq), quit |-> FALSE]]
    <3>1. reqq' \in Seq(Task) /\ Head(reqq) \in Task
      BY <1>0, <2>2
    <3>2. [pc |-> "exec", task |-> Head(reqq), quit |-> FALSE] \in WorkerRec
      BY <3>1 DEF WorkerRec
    <3>3. WkShape'
      BY <1>0, <2>2, <3>1, <3>2 DEF WkShape
    <3> QED BY <1>0, <2>1, <3>1, <3>3, ShapeSame
  <2>3. CASE wk' = [wk EXCEPT ![w].pc = "lock"] /\ UNCHANGED reqq
    BY <1>0, <2>1, <2>3, ShapeSame, WkMoves
  <2> QED BY <1>6, <2>2, <2>3 DEF faio_data_pop_req, WorkerAt
<1>7. ASSUME NEW w \in Worker, faio_handler_exec(w)
      PROVE  WkShape' /\ NetShape' /\ MainShape' /\ PoolShape' /\ NoteShape' /\ reqq' \in Seq(Task)
  <2>1. /\ UNCHANGED <<main, reqq, pool, net, noticed, evfd>> /\ wk[w].pc = "exec"
        /\ wk' = [wk EXCEPT ![w].pc = "send", ![w].task = Owner[@]]
    BY <1>7 DEF faio_handler_exec
  <2>2. wk[w].task \in Task /\ Owner[wk[w].task] \in Net
    BY <1>0, <2>1, FaioAssumption DEF WkShape
  <2>3. WkShape'
    <3>1. wk' \in [Worker -> WorkerRec]
      BY <1>0, <2>1, <2>2, ZenonT(60) DEF WkShape, WorkerRec
    <3>2. wk'[w].pc = "send" /\ wk'[w].task = Owner[wk[w].task]
          /\ \A v \in Worker \ {w} : wk'[v] = wk[v]
      BY <1>0, <2>1 DEF WkShape, WorkerRec
    <3> QED BY <1>0, <2>2, <3>1, <3>2 DEF WkShape
  <2>4. PICK q \in {"ok", "bad"} :
          posted' = [posted EXCEPT ![Owner[wk[w].task]][q] = Append(@, wk[w].task)]
    BY <1>7 DEF faio_handler_exec
  <2>5. posted' \in [Net -> [Queues -> Seq(Task)]]
    <3>1. posted[Owner[wk[w].task]] \in [Queues -> Seq(Task)]
      BY <1>0, <2>2 DEF NoteShape
    <3>2. q \in Queues
      BY DEF Queues
    <3>3. Append(posted[Owner[wk[w].task]][q], wk[w].task) \in Seq(Task)
      BY <2>2, <3>1, <3>2
    <3>4. [posted[Owner[wk[w].task]] EXCEPT ![q] = Append(@, wk[w].task)] \in [Queues -> Seq(Task)]
      BY <3>1, <3>2, <3>3
    <3> QED BY <1>0, <2>2, <2>4, <3>4 DEF NoteShape
  <2>6. NoteShape'
    BY <1>0, <2>1, <2>5 DEF NoteShape
  <2> QED BY <1>0, <2>1, <2>3, <2>6, ShapeSame
<1>8. ASSUME NEW w \in Worker, faio_notifier_send(w)
      PROVE  WkShape' /\ NetShape' /\ MainShape' /\ PoolShape' /\ NoteShape' /\ reqq' \in Seq(Task)
  <2>1. UNCHANGED <<main, reqq, pool, net, posted>> /\ wk[w].pc \in {"send", "write"}
    BY <1>8 DEF faio_notifier_send
  <2>2. wk[w].task \in Net
    BY <1>0, <2>1 DEF WkShape
  <2>3. WkShape'
    <3>1. CASE wk[w].pc = "send" /\ wk' = [wk EXCEPT ![w].pc = "write"]
      BY <1>0, <3>1, WkMoves
    <3>2. CASE wk' = [wk EXCEPT ![w].pc = "pop", ![w].task = None]
      <4>0. wk[w] \in WorkerRec /\ None \in Task \cup Net \cup {None}
        BY <1>0 DEF WkShape
      <4>3. [wk[w] EXCEPT !.pc = "pop", !.task = None] \in WorkerRec
        BY <4>0 DEF WorkerRec
      <4>4. wk' = [wk EXCEPT ![w] = [wk[w] EXCEPT !.pc = "pop", !.task = None]]
        BY <1>0, <3>2 DEF WkShape
      <4>1. wk' \in [Worker -> WorkerRec]
        BY <1>0, <4>3, <4>4 DEF WkShape
      <4>2. wk'[w].pc = "pop" /\ \A v \in Worker \ {w} : wk'[v] = wk[v]
        BY <1>0, <3>2 DEF WkShape, WorkerRec
      <4> QED BY <1>0, <4>1, <4>2 DEF WkShape
    <3> QED BY <1>8, <3>1, <3>2 DEF faio_notifier_send, WorkerAt
  <2>4. noticed' \in [Net -> BOOLEAN]
    BY <1>0, <1>8 DEF faio_notifier_send, NoteShape
  <2>5. evfd' \in [Net -> Nat]
    BY <1>0, <1>8, <2>2 DEF faio_notifier_send, NoteShape
  <2>6. NoteShape'
    BY <1>0, <2>1, <2>4, <2>5 DEF NoteShape
  <2> QED BY <1>0, <2>1, <2>3, <2>6, ShapeSame
<1>9. ASSUME NEW w \in Worker, worker_idle(w) \/ worker_resume(w)
      PROVE  WkShape' /\ NetShape' /\ MainShape' /\ PoolShape' /\ NoteShape' /\ reqq' \in Seq(Task)
  <2>1. /\ UNCHANGED <<main, reqq, wantQuit, listed, net, notes>>
        /\ \E to \in {"end", "pop", "wait", "timed"} : wk' = [wk EXCEPT ![w].pc = to]
        /\ idle' \in {idle, idle + 1, idle - 1} /\ started' \in {started, started - 1}
    BY <1>9 DEF worker_idle, worker_resume, WorkerAt
  <2>2. WkShape'
    BY <1>0, <2>1, WkMoves
  <2>3. wantQuit' \in BOOLEAN
    BY <1>0, <2>1, Zenon DEF PoolShape
  <2>4. PoolShape'
    BY <1>0, <2>1, <2>3 DEF PoolShape
  <2> QED BY <1>0, <2>1, <2>2, <2>4, ShapeSame
<1>10. ASSUME NEW w \in Worker, idle_timeout(w)
      PROVE  WkShape' /\ NetShape' /\ MainShape' /\ PoolShape' /\ NoteShape' /\ reqq' \in Seq(Task)
  <2>1. /\ UNCHANGED <<main, reqq, pool, net, notes>>
        /\ wk' = [wk EXCEPT ![w].pc = "woken", ![w].quit = TRUE]
    BY <1>10 DEF idle_timeout
  <2>2. WkShape'
    <3>1. wk' \in [Worker -> WorkerRec]
      BY <1>0, <2>1, ZenonT(60) DEF WkShape, WorkerRec
    <3>2. wk'[w].pc = "woken" /\ \A v \in Worker \ {w} : wk'[v] = wk[v]
      BY <1>0, <2>1 DEF WkShape, WorkerRec
    <3> QED BY <1>0, <3>1, <3>2 DEF WkShape
  <2> QED BY <1>0, <2>1, <2>2, ShapeSame
<1>11. ASSUME NEW w \in Worker, faio_worker_end_thread(w)
      PROVE  WkShape' /\ NetShape' /\ MainShape' /\ PoolShape' /\ NoteShape' /\ reqq' \in Seq(Task)
  <2>1. /\ UNCHANGED <<reqq, idle, started, wantQuit, net, notes>>
        /\ wk' = [wk EXCEPT ![w] = NoWorker] /\ listed' = listed \ {w}
        /\ main' = main \/ main' = [main EXCEPT !.pc = "join"]
    BY <1>11 DEF faio_worker_end_thread
  <2>2. WkShape'
    <3>1. NoWorker \in WorkerRec /\ NoWorker.pc = "none"
      BY DEF NoWorker, WorkerRec
    <3> QED BY <1>0, <2>1, <3>1 DEF WkShape
  <2>3. wantQuit' \in BOOLEAN
    BY <1>0, <2>1, Zenon DEF PoolShape
  <2>4. PoolShape' /\ MainShape'
    BY <1>0, <2>1, <2>3 DEF PoolShape, MainShape
  <2> QED BY <1>0, <2>1, <2>2, <2>4, ShapeSame
<1>12. ASSUME NEW n \in Net, NEW t \in Task, cfs_write(n, t)
      PROVE  WkShape' /\ NetShape' /\ MainShape' /\ PoolShape' /\ NoteShape' /\ reqq' \in Seq(Task)
  <2>1. [pc |-> "check", task |-> t, back |-> "loop"] \in NetRec
    BY DEF NetRec
  <2>2. NetShape'
    BY <1>0, <1>12, <2>1 DEF cfs_write, NetShape
  <2> QED BY <1>0, <1>12, <2>2, ShapeSame DEF cfs_write
<1>13. ASSUME NEW n \in Net, faio_data_push_task(n)
      PROVE  WkShape' /\ NetShape' /\ MainShape' /\ PoolShape' /\ NoteShape' /\ reqq' \in Seq(Task)
  <2>1. NetShape'
    BY <1>0, <1>13, ReturnShape, NetMoves DEF faio_data_push_task, NetAt
  <2> QED BY <1>0, <1>13, <2>1, ShapeSame DEF faio_data_push_task
<1>14. ASSUME NEW n \in Net, faio_data_push_req(n)
      PROVE  WkShape' /\ NetShape' /\ MainShape' /\ PoolShape' /\ NoteShape' /\ reqq' \in Seq(Task)
  <2>1. NetShape'
    BY <1>0, <1>14, NetMoves DEF faio_data_push_req, NetAt
  <2>2. net[n].task \in Task /\ reqq' = Append(reqq, net[n].task)
    BY <1>0, <1>14 DEF faio_data_push_req, NetAt, NetShape
  <2>3. reqq' \in Seq(Task)
    BY <1>0, <2>2
  <2> QED BY <1>0, <1>14, <2>1, <2>3, ShapeSame DEF faio_data_push_req
<1>15. ASSUME NEW n \in Net, faio_worker_maybe_start_thread(n)
      PROVE  WkShape' /\ NetShape' /\ MainShape' /\ PoolShape' /\ NoteShape' /\ reqq' \in Seq(Task)
  <2>1. NetShape'
    <3>1. CASE net' = [net EXCEPT ![n].pc = "create"]
      BY <1>0, <3>1, NetMoves
    <3>2. CASE Return(n)
      BY <1>0, <3>2, ReturnShape
    <3> QED BY <1>15, <3>1, <3>2 DEF faio_worker_maybe_start_thread, NetAt
  <2>2. WkShape'
    BY <1>0, <1>15, SignalShape, ShapeSame DEF faio_worker_maybe_start_thread
  <2> QED BY <1>0, <1>15, <2>1, <2>2, ShapeSame DEF faio_worker_maybe_start_thread
<1>16. ASSUME NEW n \in Net, faio_worker_start_thread(n)
      PROVE  WkShape' /\ NetShape' /\ MainShape' /\ PoolShape' /\ NoteShape' /\ reqq' \in Seq(Task)
  <2>1. CASE net[n].pc = "create" /\ UNCHANGED <<main, reqq, pool, notes>>
             /\ \E w \in Unused : /\ faio_worker_create_thread(w)
                                 /\ net' = [net EXCEPT ![n].pc = "list", ![n].task = w]
    <3>1. PICK w \in Unused : /\ faio_worker_create_thread(w)
                              /\ net' = [net EXCEPT ![n].pc = "list", ![n].task = w]
      BY <2>1
    <3>2. w \in Worker
      BY DEF Unused
    <3>3. net' \in [Net -> NetRec]
      BY <1>0, <3>1, <3>2, ZenonT(60) DEF NetShape, NetRec
    <3>4. net'[n].pc = "list" /\ net'[n].task = w /\ \A m \in Net \ {n} : net'[m] = net[m]
      BY <1>0, <3>1 DEF NetShape, NetRec
    <3>5. NetShape'
      BY <1>0, <3>2, <3>3, <3>4 DEF NetShape
    <3> QED BY <1>0, <2>1, <3>1, <3>5, CreateShape, ShapeSame
  <2>2. CASE Return(n) /\ UNCHANGED <<main, reqq, pool, notes, wk>>
    BY <1>0, <2>2, ReturnShape, ShapeSame
  <2>3. CASE net[n].pc = "list" /\ ListWorker(net[n].task) /\ Return(n)
             /\ UNCHANGED <<main, reqq, wk, notes>>
    <3>1. net[n].task \in Worker
      BY <1>0, <2>3 DEF NetShape
    <3>2. listed' \subseteq Worker /\ started' \in Int /\ idle' = idle /\ wantQuit' = wantQuit
      BY <1>0, <2>3, <3>1 DEF PoolShape, ListWorker
    <3>3. wantQuit' \in BOOLEAN
      BY <1>0, <3>2, Zenon DEF PoolShape
    <3>4. PoolShape'
      BY <1>0, <3>2, <3>3 DEF PoolShape
    <3> QED BY <1>0, <2>3, <3>4, ReturnShape, ShapeSame
  <2> QED BY <1>16, <2>1, <2>2, <2>3 DEF faio_worker_start_thread
<1>17. ASSUME NEW n \in Net, faio_notifier_receive(n)
      PROVE  WkShape' /\ NetShape' /\ MainShape' /\ PoolShape' /\ NoteShape' /\ reqq' \in Seq(Task)
  <2>1. NetShape'
    BY <1>0, <1>17, NetMoves DEF faio_notifier_receive, NetAt
  <2>2. NoteShape'
    <3>0. evfd' = evfd \/ evfd' = [evfd EXCEPT ![n] = 0]
      BY <1>17 DEF faio_notifier_receive
    <3>1. evfd' \in [Net -> Nat]
      <4>1. evfd \in [Net -> Nat] /\ 0 \in Nat
        BY <1>0 DEF NoteShape
      <4> QED BY <3>0, <4>1
    <3>2. noticed' \in [Net -> BOOLEAN]
      BY <1>0, <1>17 DEF faio_notifier_receive, NoteShape
    <3> QED BY <1>0, <1>17, <3>1, <3>2 DEF faio_notifier_receive, NoteShape
  <2> QED BY <1>0, <1>17, <2>1, <2>2, ShapeSame DEF faio_notifier_receive
<1>18. ASSUME NEW n \in Net, cfs_ioevents_process_posted(n)
      PROVE  WkShape' /\ NetShape' /\ MainShape' /\ PoolShape' /\ NoteShape' /\ reqq' \in Seq(Task)
  <2>1. NetShape'
    BY <1>0, <1>18, NetMoves DEF cfs_ioevents_process_posted, NetAt
  <2> QED BY <1>0, <1>18, <2>1, ShapeSame DEF cfs_ioevents_process_posted
<1>t. ASSUME NEW n \in Net, NEW q \in {"ok", "bad"}, Take(n, q)
      PROVE  /\ WkShape' /\ MainShape' /\ PoolShape' /\ NoteShape' /\ reqq' \in Seq(Task)
             /\ Head(posted[n][q]) \in Task
  <2>1. q \in Queues /\ posted[n] \in [Queues -> Seq(Task)]
    BY <1>0 DEF Queues, NoteShape
  <2>2. posted[n][q] \in Seq(Task) /\ posted[n][q] # <<>>
    BY <1>t, <2>1 DEF Take
  <2>3. Tail(posted[n][q]) \in Seq(Task) /\ Head(posted[n][q]) \in Task
    BY <2>2
  <2>4. [posted[n] EXCEPT ![q] = Tail(@)] \in [Queues -> Seq(Task)]
    BY <2>1, <2>3
  <2>5. posted' \in [Net -> [Queues -> Seq(Task)]]
    BY <1>0, <1>t, <2>4 DEF Take, NoteShape
  <2>6. NoteShape'
    BY <1>0, <1>t, <2>5 DEF Take, NoteShape
  <2> QED BY <1>0, <1>t, <2>3, <2>6, ShapeSame DEF Take
<1>19. ASSUME NEW n \in Net, ioevents_process_posted(n)
      PROVE  WkShape' /\ NetShape' /\ MainShape' /\ PoolShape' /\ NoteShape' /\ reqq' \in Seq(Task)
  <2>1. CASE HandlerDone(n)
    BY <1>0, <1>t, <2>1, ShapeSame DEF HandlerDone
  <2>2. CASE HandlerAgain(n)
    <3>1. Take(n, "ok")
      BY <2>2 DEF HandlerAgain
    <3>2. Head(posted[n]["ok"]) \in Task
      BY <1>t, <3>1
    <3>3. [pc |-> "check", task |-> Head(posted[n]["ok"]), back |-> "ok"] \in NetRec
      BY <3>2 DEF NetRec
    <3>4. NetShape'
      BY <1>0, <2>2, <3>2, <3>3 DEF HandlerAgain, NetShape
    <3> QED BY <1>t, <3>1, <3>4
  <2>3. CASE /\ \E to \in {"ok", "loop"} : net' = [net EXCEPT ![n].pc = to]
             /\ UNCHANGED <<main, reqq, wk, pool, notes>>
    <3>1. NetShape'
      BY <1>0, <2>3, NetMoves
    <3> QED BY <1>0, <2>3, <3>1, ShapeSame
  <2> QED BY <1>19, <2>1, <2>2, <2>3 DEF ioevents_process_posted, NetAt
<1> QED BY <1>1, <1>2, <1>3, <1>4, <1>5, <1>6, <1>7, <1>8, <1>9, <1>10, <1>11, <1>12, <1>13,
           <1>14, <1>15, <1>16, <1>17, <1>18, <1>19
        DEF Next, MainStep, Run, NetStep

-----------------------------------------------------------------------------
(* Where tasks are *)

\* The request queue and the posted queues hold a task once, the latter only
\* tasks of their thread.
QueuedOnce ==
  /\ IsInjective(reqq)
  /\ \A n \in Net, q \in Queues :
       /\ IsInjective(posted[n][q])
       /\ \A t \in Range(posted[n][q]) : Owner[t] = n /\ t \notin Range(reqq)
  /\ \A n \in Net : Range(posted[n]["ok"]) \cap Range(posted[n]["bad"]) = {}

\* A task that a worker carries out is in no queue and in no other worker's hands.
HeldOnce ==
  /\ \A v, w \in Holding : wk[v].task = wk[w].task => v = w
  /\ \A w \in Holding :
       /\ wk[w].task \notin Range(reqq)
       /\ \A n \in Net, q \in Queues : wk[w].task \notin Range(posted[n][q])

\* A task that its network thread is about to push is nowhere else.
PushedOnce ==
  \A n \in Net : net[n].pc \in {"check", "push"} =>
       /\ Owner[net[n].task] = n
       /\ net[n].task \notin Range(reqq)
       /\ \A w \in Holding : wk[w].task # net[n].task
       /\ \A m \in Net, q \in Queues : net[n].task \notin Range(posted[m][q])

PlaceInv == QueuedOnce /\ HeldOnce /\ PushedOnce

\* Steps that move no task.
LEMMA PlaceFrame ==
  ASSUME PlaceInv, reqq' = reqq, posted' = posted,
         \A w \in Worker : wk'[w].pc = "exec" => wk[w].pc = "exec" /\ wk'[w].task = wk[w].task,
         \A n \in Net : net'[n].pc \in {"check", "push"} =>
                          net[n].pc \in {"check", "push"} /\ net'[n].task = net[n].task
  PROVE  PlaceInv'
<1>1. \A w \in Holding' : w \in Holding /\ wk'[w].task = wk[w].task
  BY DEF Holding
<1> QED BY <1>1 DEF PlaceInv, QueuedOnce, HeldOnce, PushedOnce

LEMMA PopPlace ==
  ASSUME Shape, PlaceInv, NEW w \in Worker, reqq # <<>>, reqq' = Tail(reqq),
         wk[w].pc = "pop",
         wk' = [wk EXCEPT ![w] = [pc |-> "exec", task |-> Head(reqq), quit |-> FALSE]],
         posted' = posted, net' = net
  PROVE  PlaceInv'
<1>1. /\ IsInjective(reqq') /\ Head(reqq) \in Range(reqq)
      /\ Range(reqq') = Range(reqq) \ {Head(reqq)}
  <2>1. reqq \in Seq(Task) /\ IsInjective(reqq)
    BY DEF Shape, PlaceInv, QueuedOnce, HeldOnce, PushedOnce
  <2> QED BY <2>1, TailRange
<1>2. /\ Holding' = Holding \cup {w} /\ w \notin Holding /\ wk'[w].task = Head(reqq)
      /\ \A v \in Holding : wk'[v].task = wk[v].task
  BY DEF Holding, Shape
<1>3. /\ \A v \in Holding : wk[v].task # Head(reqq)
      /\ \A n \in Net, q \in Queues : Head(reqq) \notin Range(posted[n][q])
      /\ \A n \in Net : net[n].pc \in {"check", "push"} => net[n].task # Head(reqq)
  BY <1>1 DEF PlaceInv, QueuedOnce, HeldOnce, PushedOnce
<1>q. QueuedOnce'
  <2>1. IsInjective(reqq')
    BY <1>1, <1>2, <1>3 DEF PlaceInv, QueuedOnce
  <2>2. \A m \in Net, r \in Queues : IsInjective(posted'[m][r])
    BY <1>1, <1>2, <1>3 DEF PlaceInv, QueuedOnce
  <2>3. \A m \in Net, r \in Queues : \A x \in Range(posted'[m][r]) :
           Owner[x] = m /\ x \notin Range(reqq')
    BY <1>1, <1>2, <1>3 DEF PlaceInv, QueuedOnce
  <2>4. \A m \in Net : Range(posted'[m]["ok"]) \cap Range(posted'[m]["bad"]) = {}
    BY <1>1, <1>2, <1>3 DEF PlaceInv, QueuedOnce
  <2> QED BY <2>1, <2>2, <2>3, <2>4 DEF QueuedOnce
<1>h. HeldOnce'
  BY <1>1, <1>2, <1>3 DEF PlaceInv, QueuedOnce, HeldOnce, PushedOnce
<1>p. PushedOnce'
  BY <1>1, <1>2, <1>3 DEF PlaceInv, QueuedOnce, HeldOnce, PushedOnce
<1> QED BY <1>q, <1>h, <1>p DEF PlaceInv

LEMMA PushPlace ==
  ASSUME Shape, PlaceInv, NEW n \in Net, net[n].pc = "push",
         reqq' = Append(reqq, net[n].task), net' = [net EXCEPT ![n].pc = "maybe"],
         wk' = wk, posted' = posted
  PROVE  PlaceInv'
<1>1. /\ net[n].task \in Task /\ Owner[net[n].task] = n /\ net[n].task \notin Range(reqq)
      /\ \A w \in Holding : wk[w].task # net[n].task
      /\ \A m \in Net, q \in Queues : net[n].task \notin Range(posted[m][q])
  BY DEF Shape, PlaceInv, QueuedOnce, HeldOnce, PushedOnce
<1>2. IsInjective(reqq') /\ Range(reqq') = Range(reqq) \cup {net[n].task}
  <2>1. reqq \in Seq(Task) /\ IsInjective(reqq)
    BY DEF Shape, PlaceInv, QueuedOnce, HeldOnce, PushedOnce
  <2> QED BY <1>1, <2>1, AppendRange
<1>3. net'[n].pc = "maybe" /\ \A m \in Net \ {n} : net'[m] = net[m]
  BY DEF Shape, NetRec
<1>4. Holding' = Holding
  BY DEF Holding
<1>5. \A m \in Net \ {n} : net[m].pc \in {"check", "push"} => net[m].task # net[n].task
  BY <1>1 DEF PlaceInv, QueuedOnce, HeldOnce, PushedOnce
<1>q. QueuedOnce'
  BY <1>1, <1>2, <1>3, <1>4, <1>5 DEF PlaceInv, QueuedOnce, HeldOnce, PushedOnce
<1>h. HeldOnce'
  BY <1>1, <1>2, <1>3, <1>4, <1>5 DEF PlaceInv, QueuedOnce, HeldOnce, PushedOnce
<1>p. PushedOnce'
  BY <1>1, <1>2, <1>3, <1>4, <1>5 DEF PlaceInv, QueuedOnce, HeldOnce, PushedOnce
<1> QED BY <1>q, <1>h, <1>p DEF PlaceInv

LEMMA ExecPlace ==
  ASSUME Shape, PlaceInv, NEW w \in Worker, faio_handler_exec(w)
  PROVE  PlaceInv'
<1> DEFINE t == wk[w].task
<1>1. wk[w].pc = "exec" /\ w \in Holding /\ t \in Task /\ Owner[t] \in Net /\ reqq' = reqq /\ net' = net
  BY FaioAssumption DEF faio_handler_exec, Holding, Shape
<1>2. PICK q \in Queues : posted' = [posted EXCEPT ![Owner[t]][q] = Append(@, t)]
  BY DEF faio_handler_exec, Queues
<1>3. /\ Holding' = Holding \ {w}
      /\ \A v \in Holding' : wk'[v].task = wk[v].task
  BY <1>1 DEF faio_handler_exec, Holding, Shape, WorkerRec
<1>4. /\ t \notin Range(reqq)
      /\ \A m \in Net, p \in Queues : t \notin Range(posted[m][p])
      /\ \A v \in Holding \ {w} : wk[v].task # t
      /\ \A m \in Net : net[m].pc \in {"check", "push"} => net[m].task # t
  BY <1>1 DEF PlaceInv, QueuedOnce, HeldOnce, PushedOnce
<1> HIDE DEF t
<1>5. posted'[Owner[t]][q] = Append(posted[Owner[t]][q], t)
  BY <1>1, <1>2 DEF Shape
<1>6. \A m \in Net, p \in Queues : m # Owner[t] \/ p # q => posted'[m][p] = posted[m][p]
  BY <1>1, <1>2 DEF Shape
<1>7. /\ IsInjective(posted'[Owner[t]][q])
      /\ Range(posted'[Owner[t]][q]) = Range(posted[Owner[t]][q]) \cup {t}
  <2>1. posted[Owner[t]][q] \in Seq(Task) /\ IsInjective(posted[Owner[t]][q])
    BY <1>1 DEF Shape, PlaceInv, QueuedOnce, HeldOnce, PushedOnce
  <2> QED BY <1>1, <1>4, <1>5, <2>1, AppendRange
<1>8. \A m \in Net, p \in Queues :
        /\ IsInjective(posted'[m][p])
        /\ \A x \in Range(posted'[m][p]) : x \in Range(posted[m][p]) \/ (x = t /\ m = Owner[t] /\ p = q)
  BY <1>6, <1>7 DEF PlaceInv, QueuedOnce, HeldOnce, PushedOnce
<1>9. \A m \in Net : Range(posted'[m]["ok"]) \cap Range(posted'[m]["bad"]) = {}
  BY <1>4, <1>8 DEF PlaceInv, QueuedOnce, HeldOnce, PushedOnce, Queues
<1>q. QueuedOnce'
  <2>1. IsInjective(reqq')
    BY <1>1, <1>3, <1>4, <1>8, <1>9 DEF PlaceInv, QueuedOnce
  <2>2. \A m \in Net, r \in Queues : IsInjective(posted'[m][r])
    BY <1>1, <1>3, <1>4, <1>8, <1>9 DEF PlaceInv, QueuedOnce
  <2>3. \A m \in Net, r \in Queues : \A x \in Range(posted'[m][r]) :
           Owner[x] = m /\ x \notin Range(reqq')
    BY <1>1, <1>3, <1>4, <1>8, <1>9 DEF PlaceInv, QueuedOnce
  <2>4. \A m \in Net : Range(posted'[m]["ok"]) \cap Range(posted'[m]["bad"]) = {}
    BY <1>1, <1>3, <1>4, <1>8, <1>9 DEF PlaceInv, QueuedOnce
  <2> QED BY <2>1, <2>2, <2>3, <2>4 DEF QueuedOnce
<1>h. HeldOnce'
  BY <1>1, <1>3, <1>4, <1>8, <1>9, SMTT(60) DEF PlaceInv, QueuedOnce, HeldOnce, PushedOnce
<1>p. PushedOnce'
  BY <1>1, <1>3, <1>4, <1>8, <1>9, SMTT(60) DEF PlaceInv, QueuedOnce, HeldOnce, PushedOnce
<1> QED BY <1>q, <1>h, <1>p DEF PlaceInv

LEMMA TakePlace ==
  ASSUME Shape, PlaceInv, NEW n \in Net, NEW q \in Queues, Take(n, q)
  PROVE  LET h == Head(posted[n][q]) IN
         /\ h \in Task /\ Owner[h] = n /\ h \in Range(posted[n][q])
         /\ h \notin Range(reqq) /\ \A w \in Holding : wk[w].task # h
         /\ \A m \in Net, p \in Queues :
              /\ IsInjective(posted'[m][p])
              /\ Range(posted'[m][p]) = Range(posted[m][p]) \ {h}
<1> DEFINE h == Head(posted[n][q])
<1>1. posted[n][q] # <<>> /\ posted' = [posted EXCEPT ![n][q] = Tail(@)]
  BY DEF Take
<1>2. posted[n][q] \in Seq(Task) /\ IsInjective(posted[n][q])
  BY DEF Shape, PlaceInv, QueuedOnce, HeldOnce, PushedOnce
<1>3. /\ IsInjective(Tail(posted[n][q])) /\ h \in Range(posted[n][q])
      /\ Range(Tail(posted[n][q])) = Range(posted[n][q]) \ {h}
  BY <1>1, <1>2, TailRange
<1>4. h \in Task
  BY <1>1, <1>2
<1> HIDE DEF h
<1>5. Owner[h] = n /\ h \notin Range(reqq) /\ \A w \in Holding : wk[w].task # h
  BY <1>3 DEF PlaceInv, QueuedOnce, HeldOnce, PushedOnce
<1>6. posted'[n][q] = Tail(posted[n][q])
  BY <1>1 DEF Shape
<1>7. \A m \in Net, p \in Queues : m # n \/ p # q =>
         posted'[m][p] = posted[m][p] /\ h \notin Range(posted[m][p])
  <2>1. \A m \in Net, p \in Queues : m # n \/ p # q => posted'[m][p] = posted[m][p]
    BY <1>1 DEF Shape
  <2>2. \A m \in Net, p \in Queues : m # n => h \notin Range(posted[m][p])
    BY <1>5 DEF PlaceInv, QueuedOnce, HeldOnce, PushedOnce
  <2>3. \A p \in Queues : p # q => h \notin Range(posted[n][p])
    BY <1>3 DEF PlaceInv, QueuedOnce, HeldOnce, PushedOnce, Queues
  <2> QED BY <2>1, <2>2, <2>3
<1>8. \A m \in Net, p \in Queues :
              /\ IsInjective(posted'[m][p])
              /\ Range(posted'[m][p]) = Range(posted[m][p]) \ {h}
  <2>1. ASSUME NEW m \in Net, NEW p \in Queues
        PROVE  /\ IsInjective(posted'[m][p])
               /\ Range(posted'[m][p]) = Range(posted[m][p]) \ {h}
    <3>1. CASE m = n /\ p = q
      BY <1>3, <1>6, <3>1
    <3>2. CASE m # n \/ p # q
      BY <1>7, <3>2 DEF PlaceInv, QueuedOnce, HeldOnce, PushedOnce
    <3> QED BY <3>1, <3>2
  <2> QED BY <2>1
<1> QED BY <1>3, <1>4, <1>5, <1>8 DEF h

LEMMA HandlerPlace ==
  ASSUME Shape, PlaceInv, NEW n \in Net, HandlerDone(n) \/ HandlerAgain(n)
  PROVE  PlaceInv'
<1>1. PICK q \in Queues :
        /\ Take(n, q)
        /\ \/ net' = net
           \/ net' = [net EXCEPT ![n] = [pc |-> "check", task |-> Head(posted[n][q]), back |-> "ok"]]
  BY DEF HandlerDone, HandlerAgain, Queues
<1> DEFINE h == Head(posted[n][q])
<1>2. /\ h \in Task /\ Owner[h] = n /\ h \in Range(posted[n][q])
      /\ h \notin Range(reqq) /\ \A w \in Holding : wk[w].task # h
      /\ \A m \in Net, p \in Queues :
              /\ IsInjective(posted'[m][p])
              /\ Range(posted'[m][p]) = Range(posted[m][p]) \ {h}
  BY <1>1, TakePlace
<1>3. reqq' = reqq /\ wk' = wk /\ Holding' = Holding
  BY <1>1 DEF Take, Holding
<1>4. \A m \in Net : net'[m] = net[m] \/ (m = n /\ net'[m].task = h)
  BY <1>1 DEF Shape
<1> HIDE DEF h
<1>5. \A m \in Net : Range(posted'[m]["ok"]) \cap Range(posted'[m]["bad"]) = {}
  <2>1. \A m \in Net : Range(posted'[m]["ok"]) \subseteq Range(posted[m]["ok"])
                       /\ Range(posted'[m]["bad"]) \subseteq Range(posted[m]["bad"])
    BY <1>2 DEF Queues
  <2> QED BY <2>1 DEF PlaceInv, QueuedOnce, HeldOnce, PushedOnce
<1>6. ASSUME NEW m \in Net, net'[m].pc \in {"check", "push"}
      PROVE  /\ Owner[net'[m].task] = m
             /\ net'[m].task \notin Range(reqq)
             /\ \A w \in Holding : wk[w].task # net'[m].task
             /\ \A p \in Net, r \in Queues : net'[m].task \notin Range(posted'[p][r])
  <2>1. CASE net'[m] = net[m]
    BY <1>2, <1>6, <2>1, SMTT(60) DEF PlaceInv, QueuedOnce, HeldOnce, PushedOnce
  <2>2. CASE m = n /\ net'[m].task = h
    BY <1>2, <2>2
  <2> QED BY <1>4, <2>1, <2>2
<1>q. QueuedOnce'
  <2>1. IsInjective(reqq')
    BY <1>2, <1>3, <1>5, <1>6 DEF PlaceInv, QueuedOnce
  <2>2. \A m \in Net, r \in Queues : IsInjective(posted'[m][r])
    BY <1>2, <1>3, <1>5, <1>6 DEF PlaceInv, QueuedOnce
  <2>3. \A m \in Net, r \in Queues : \A x \in Range(posted'[m][r]) :
           Owner[x] = m /\ x \notin Range(reqq')
    BY <1>2, <1>3, <1>5, <1>6 DEF PlaceInv, QueuedOnce
  <2>4. \A m \in Net : Range(posted'[m]["ok"]) \cap Range(posted'[m]["bad"]) = {}
    BY <1>2, <1>3, <1>5, <1>6 DEF PlaceInv, QueuedOnce
  <2> QED BY <2>1, <2>2, <2>3, <2>4 DEF QueuedOnce
<1>h. HeldOnce'
  BY <1>2, <1>3, <1>5, <1>6 DEF PlaceInv, QueuedOnce, HeldOnce, PushedOnce
<1>p. PushedOnce'
  BY <1>2, <1>3, <1>5, <1>6 DEF PlaceInv, QueuedOnce, HeldOnce, PushedOnce
<1> QED BY <1>q, <1>h, <1>p DEF PlaceInv

LEMMA WritePlace ==
  ASSUME Shape, PlaceInv, NEW n \in Net, NEW t \in Task, cfs_write(n, t)
  PROVE  PlaceInv'
<1>1. /\ net' = [net EXCEPT ![n] = [pc |-> "check", task |-> t, back |-> "loop"]]
      /\ reqq' = reqq /\ wk' = wk /\ posted' = posted /\ Holding' = Holding
  BY DEF cfs_write, notes, Holding
<1>2. Owner[t] = n /\ t \notin Busy
  BY DEF cfs_write, Own
<1>3. /\ t \notin Range(reqq) /\ \A w \in Holding : wk[w].task # t
      /\ \A m \in Net, q \in Queues : t \notin Range(posted[m][q])
  BY <1>2 DEF Busy, Holding, Queues
<1>4. net'[n].task = t /\ \A m \in Net \ {n} : net'[m] = net[m]
  BY <1>1 DEF Shape
<1>q. QueuedOnce'
  BY <1>1, <1>2, <1>3, <1>4, SMTT(60) DEF PlaceInv, QueuedOnce, HeldOnce, PushedOnce
<1>h. HeldOnce'
  BY <1>1, <1>2, <1>3, <1>4, SMTT(60) DEF PlaceInv, QueuedOnce, HeldOnce, PushedOnce
<1>p. PushedOnce'
  BY <1>1, <1>2, <1>3, <1>4 DEF PlaceInv, QueuedOnce, HeldOnce, PushedOnce
<1> QED BY <1>q, <1>h, <1>p DEF PlaceInv

-----------------------------------------------------------------------------
(* What a step does to tasks and wake-ups *)

Working == {"exec", "send", "write"}

\* The pool is managed, or a network thread decides what to do with a task: no
\* task and no wake-up moves.
Neutral ==
  /\ reqq' = reqq /\ posted' = posted /\ noticed' = noticed /\ evfd' = evfd
  /\ \A w \in Worker : \/ wk'[w].pc = wk[w].pc /\ wk'[w].task = wk[w].task
                       \/ wk[w].pc \notin Working /\ wk'[w].pc \notin Working
  /\ \A n \in Net :
       \/ net'[n] = net[n]
       \/ /\ net[n].pc \in {"check", "maybe", "create", "list"}
          /\ \/ net'[n].pc \in {"maybe", "create", "list"} /\ net'[n].back = net[n].back
             \/ net'[n].pc = net[n].back /\ net'[n].back = "loop"
             \/ /\ net[n].pc = "check" /\ net'[n].pc = "push"
                /\ net'[n].task = net[n].task /\ net'[n].back = net[n].back

Pops ==
  \E w \in Worker :
    /\ reqq # <<>> /\ wk[w].pc = "pop" /\ reqq' = Tail(reqq)
    /\ wk' = [wk EXCEPT ![w] = [pc |-> "exec", task |-> Head(reqq), quit |-> FALSE]]
    /\ UNCHANGED <<net, posted, noticed, evfd>>

Pushes ==
  \E n \in Net :
    /\ net[n].pc = "push" /\ net' = [net EXCEPT ![n].pc = "maybe"]
    /\ reqq' = Append(reqq, net[n].task)
    /\ UNCHANGED <<wk, posted, noticed, evfd>>

Looks ==
  \E n \in Net :
    /\ UNCHANGED <<reqq, wk, posted, noticed, evfd>>
    /\ \/ /\ \E q \in Queues : posted[n][q] # <<>>
          /\ net[n].pc = "loop" /\ net' = [net EXCEPT ![n].pc = "bad"]
       \/ net[n].pc = "bad" /\ posted[n]["bad"] = <<>> /\ net' = [net EXCEPT ![n].pc = "ok"]
       \/ net[n].pc = "ok" /\ posted[n]["ok"] = <<>> /\ net' = [net EXCEPT ![n].pc = "loop"]

TaskEffect ==
  \/ Neutral \/ Pops \/ Pushes \/ Looks
  \/ \E w \in Worker : faio_handler_exec(w) \/ faio_notifier_send(w)
  \/ \E n \in Net : \/ faio_notifier_receive(n) \/ HandlerDone(n) \/ HandlerAgain(n)
                    \/ \E t \in Task : cfs_write(n, t)

\* Worker w, which is not working, moves on and does not start working.
LEMMA WkNeutral ==
  ASSUME Shape, NEW w \in Worker, wk[w].pc \notin Working, wk'[w].pc \notin Working,
         \A v \in Worker \ {w} : wk'[v] = wk[v]
  PROVE  \A v \in Worker : \/ wk'[v].pc = wk[v].pc /\ wk'[v].task = wk[v].task
                           \/ wk[v].pc \notin Working /\ wk'[v].pc \notin Working
<1>1. ASSUME NEW v \in Worker
      PROVE  \/ wk'[v].pc = wk[v].pc /\ wk'[v].task = wk[v].task
             \/ wk[v].pc \notin Working /\ wk'[v].pc \notin Working
  <2>1. CASE v = w
    BY <2>1
  <2>2. CASE v # w
    BY <2>2
  <2> QED BY <2>1, <2>2
<1> QED BY <1>1

LEMMA WkGoes ==
  ASSUME Shape, NEW w \in Worker, NEW to, wk' = [wk EXCEPT ![w].pc = to]
  PROVE  wk'[w].pc = to /\ wk'[w].task = wk[w].task /\ \A v \in Worker \ {w} : wk'[v] = wk[v]
  BY DEF Shape, WorkerRec

LEMMA SignalNeutral ==
  ASSUME Shape, faio_cond_signal
  PROVE  \A v \in Worker : \/ wk'[v].pc = wk[v].pc /\ wk'[v].task = wk[v].task
                           \/ wk[v].pc \notin Working /\ wk'[v].pc \notin Working
<1>1. CASE UNCHANGED wk
  BY <1>1
<1>2. CASE \E w \in Asleep : wk' = [wk EXCEPT ![w].pc = "woken"]
  <2>1. PICK w \in Asleep : wk' = [wk EXCEPT ![w].pc = "woken"]
    BY <1>2
  <2>2. w \in Worker /\ wk[w].pc \notin Working /\ "woken" \in WorkerPc \ Working
    BY DEF Asleep, Working, WorkerPc
  <2> QED BY <2>1, <2>2, WkGoes, WkNeutral
<1> QED BY <1>1, <1>2 DEF faio_cond_signal

LEMMA CreateNeutral ==
  ASSUME Shape, NEW w \in Unused, faio_worker_create_thread(w)
  PROVE  \A v \in Worker : \/ wk'[v].pc = wk[v].pc /\ wk'[v].task = wk[v].task
                           \/ wk[v].pc \notin Working /\ wk'[v].pc \notin Working
<1>1. w \in Worker /\ wk[w].pc = "none" /\ "none" \notin Working /\ "pop" \notin Working
  BY DEF Unused, Working
<1>2. wk'[w].pc = "pop" /\ \A v \in Worker \ {w} : wk'[v] = wk[v]
  BY <1>1 DEF faio_worker_create_thread, Shape
<1> QED BY <1>1, <1>2, WkNeutral

LEMMA ReturnNeutral ==
  ASSUME Shape, NEW n \in Net, Return(n)
  PROVE  /\ net'[n].pc = net[n].back /\ net'[n].back = "loop"
         /\ \A m \in Net \ {n} : net'[m] = net[m]
  BY DEF Return, Shape, NetRec

LEMMA NetAtNeutral ==
  ASSUME Shape, NEW n \in Net, NEW to, net' = [net EXCEPT ![n].pc = to]
  PROVE  /\ net'[n].pc = to /\ net'[n].task = net[n].task /\ net'[n].back = net[n].back
         /\ \A m \in Net \ {n} : net'[m] = net[m]
  BY DEF Shape, NetRec

LEMMA TaskEffects ==
  ASSUME Shape, Next
  PROVE  TaskEffect
<1> USE DEF TaskEffect
<1>m. ASSUME MainStep PROVE TaskEffect
  <2>1. UNCHANGED <<reqq, net, posted, noticed, evfd>>
    BY <1>m DEF MainStep, faio_worker_manager_init, main_list, cfs_faio_ioinit,
                faio_worker_quit_thread, faio_worker_manager_release, notes
  <2>2. \/ UNCHANGED wk \/ faio_cond_signal
        \/ \E w \in Unused : faio_worker_create_thread(w)
    BY <1>m DEF MainStep, faio_worker_manager_init, main_list, cfs_faio_ioinit,
                faio_worker_quit_thread, faio_worker_manager_release
  <2>3. \A v \in Worker : \/ wk'[v].pc = wk[v].pc /\ wk'[v].task = wk[v].task
                          \/ wk[v].pc \notin Working /\ wk'[v].pc \notin Working
    BY <2>2, SignalNeutral, CreateNeutral
  <2> QED BY <2>1, <2>3 DEF Neutral
<1>1. ASSUME NEW w \in Worker, faio_data_pop_req(w) PROVE TaskEffect
  <2>1. CASE reqq # <<>>
    BY <1>1, <2>1 DEF faio_data_pop_req, WorkerAt, Pops, notes
  <2>2. CASE reqq = <<>>
    <3>1. wk[w].pc = "pop" /\ wk' = [wk EXCEPT ![w].pc = "lock"]
          /\ UNCHANGED <<reqq, net, posted, noticed, evfd>>
      BY <1>1, <2>2 DEF faio_data_pop_req, WorkerAt, notes
    <3>2. wk[w].pc \notin Working /\ "lock" \in WorkerPc \ Working
      BY <3>1 DEF Working, WorkerPc
    <3> QED BY <3>1, <3>2, WkGoes, WkNeutral DEF Neutral
  <2> QED BY <2>1, <2>2
<1>2. ASSUME NEW w \in Worker, worker_idle(w) \/ worker_resume(w) PROVE TaskEffect
  <2>1. /\ UNCHANGED <<reqq, net, posted, noticed, evfd>>
        /\ wk[w].pc \in {"lock", "woken"}
        /\ \E to \in {"end", "pop", "wait", "timed"} : wk' = [wk EXCEPT ![w].pc = to]
    BY <1>2 DEF worker_idle, worker_resume, WorkerAt, notes
  <2>2. wk[w].pc \notin Working /\ {"end", "pop", "wait", "timed"} \subseteq WorkerPc \ Working
    BY <2>1 DEF Working, WorkerPc
  <2> QED BY <2>1, <2>2, WkGoes, WkNeutral DEF Neutral
<1>3. ASSUME NEW w \in Worker, idle_timeout(w) PROVE TaskEffect
  <2>1. /\ UNCHANGED <<reqq, net, posted, noticed, evfd>> /\ wk[w].pc = "timed"
        /\ wk' = [wk EXCEPT ![w].pc = "woken", ![w].quit = TRUE]
    BY <1>3 DEF idle_timeout, notes
  <2>2. wk[w].pc \notin Working /\ "woken" \notin Working
    BY <2>1 DEF Working
  <2>3. wk'[w].pc = "woken" /\ \A v \in Worker \ {w} : wk'[v] = wk[v]
    BY <2>1 DEF Shape, WorkerRec
  <2> QED BY <2>1, <2>2, <2>3, WkNeutral DEF Neutral
<1>4. ASSUME NEW w \in Worker, faio_worker_end_thread(w) PROVE TaskEffect
  <2>1. /\ UNCHANGED <<reqq, net, posted, noticed, evfd>> /\ wk[w].pc = "end"
        /\ wk' = [wk EXCEPT ![w] = NoWorker]
    BY <1>4 DEF faio_worker_end_thread, notes
  <2>2. wk[w].pc \notin Working /\ NoWorker.pc \notin Working
    BY <2>1 DEF Working, NoWorker
  <2>3. wk'[w] = NoWorker /\ \A v \in Worker \ {w} : wk'[v] = wk[v]
    BY <2>1 DEF Shape
  <2> QED BY <2>1, <2>2, <2>3, WkNeutral DEF Neutral
<1>5. ASSUME NEW n \in Net, faio_data_push_task(n) PROVE TaskEffect
  <2>1. /\ UNCHANGED <<reqq, wk, posted, noticed, evfd>> /\ net[n].pc = "check"
        /\ Return(n) \/ net' = [net EXCEPT ![n].pc = "push"]
    BY <1>5 DEF faio_data_push_task, NetAt, notes
  <2>2. CASE Return(n)
    BY <2>1, <2>2, ReturnNeutral DEF Neutral
  <2>3. CASE net' = [net EXCEPT ![n].pc = "push"]
    BY <2>1, <2>3, NetAtNeutral DEF Neutral
  <2> QED BY <2>1, <2>2, <2>3
<1>6. ASSUME NEW n \in Net, faio_data_push_req(n) PROVE TaskEffect
  BY <1>6 DEF faio_data_push_req, NetAt, Pushes, notes
<1>7. ASSUME NEW n \in Net, faio_worker_maybe_start_thread(n) PROVE TaskEffect
  <2>1. /\ UNCHANGED <<reqq, posted, noticed, evfd>> /\ net[n].pc = "maybe"
        /\ Return(n) \/ net' = [net EXCEPT ![n].pc = "create"]
        /\ faio_cond_signal \/ UNCHANGED wk
    BY <1>7 DEF faio_worker_maybe_start_thread, NetAt, notes
  <2>2. \A v \in Worker : \/ wk'[v].pc = wk[v].pc /\ wk'[v].task = wk[v].task
                          \/ wk[v].pc \notin Working /\ wk'[v].pc \notin Working
    BY <2>1, SignalNeutral
  <2>3. CASE Return(n)
    BY <2>1, <2>2, <2>3, ReturnNeutral DEF Neutral
  <2>4. CASE net' = [net EXCEPT ![n].pc = "create"]
    BY <2>1, <2>2, <2>4, NetAtNeutral DEF Neutral
  <2> QED BY <2>1, <2>3, <2>4
<1>8. ASSUME NEW n \in Net, faio_worker_start_thread(n) PROVE TaskEffect
  <2>1. CASE /\ net[n].pc = "create" /\ UNCHANGED <<reqq, notes>>
             /\ \E w \in Unused : /\ faio_worker_create_thread(w)
                                  /\ net' = [net EXCEPT ![n].pc = "list", ![n].task = w]
    <3>1. PICK w \in Unused : /\ faio_worker_create_thread(w)
                              /\ net' = [net EXCEPT ![n].pc = "list", ![n].task = w]
      BY <2>1
    <3>2. /\ net'[n].pc = "list" /\ net'[n].back = net[n].back
          /\ \A m \in Net \ {n} : net'[m] = net[m]
      BY <3>1 DEF Shape, NetRec
    <3> QED BY <2>1, <3>1, <3>2, CreateNeutral DEF Neutral, notes
  <2>2. CASE /\ net[n].pc \in {"create", "list"} /\ Return(n) /\ UNCHANGED <<reqq, wk, notes>>
    BY <2>2, ReturnNeutral DEF Neutral, notes
  <2> QED BY <1>8, <2>1, <2>2 DEF faio_worker_start_thread
<1>9. ASSUME NEW n \in Net, cfs_ioevents_process_posted(n) PROVE TaskEffect
  BY <1>9 DEF cfs_ioevents_process_posted, NetAt, Looks, Queues, notes
<1>10. ASSUME NEW n \in Net, ioevents_process_posted(n) PROVE TaskEffect
  <2>1. CASE /\ \E q \in {"bad", "ok"} :
                  posted[n][q] = <<>> /\ NetAt(n, q, IF q = "bad" THEN "ok" ELSE "loop")
             /\ UNCHANGED <<main, reqq, wk, pool, notes>>
    BY <2>1 DEF NetAt, Looks, notes
  <2> QED BY <1>10, <2>1 DEF ioevents_process_posted
<1> QED BY <1>m, <1>1, <1>2, <1>3, <1>4, <1>5, <1>6, <1>7, <1>8, <1>9, <1>10
        DEF Next, Run, NetStep

LEMMA PlaceStep ==
  ASSUME Shape, PlaceInv, TaskEffect
  PROVE  PlaceInv'
<1>1. CASE Neutral
  <2>1. \A w \in Worker : wk'[w].pc = "exec" => wk[w].pc = "exec" /\ wk'[w].task = wk[w].task
    BY <1>1 DEF Neutral, Working
  <2>2. \A n \in Net : net[n].back \in {"loop", "ok"}
    BY DEF Shape, NetRec
  <2>3. \A n \in Net : net'[n].pc \in {"check", "push"} =>
                          net[n].pc \in {"check", "push"} /\ net'[n].task = net[n].task
    BY <1>1, <2>2 DEF Neutral
  <2> QED BY <1>1, <2>1, <2>3, PlaceFrame DEF Neutral
<1>2. CASE Pops
  BY <1>2, PopPlace DEF Pops
<1>3. CASE Pushes
  BY <1>3, PushPlace DEF Pushes
<1>4. CASE Looks
  <2>1. PICK n \in Net : /\ UNCHANGED <<reqq, wk, posted>>
                         /\ \E to \in {"bad", "ok", "loop"} : net' = [net EXCEPT ![n].pc = to]
    BY <1>4 DEF Looks
  <2>2. \A m \in Net : net'[m].pc \in {"check", "push"} => net'[m] = net[m]
    BY <2>1, NetAtNeutral
  <2> QED BY <2>1, <2>2, PlaceFrame
<1>5. ASSUME NEW w \in Worker, faio_handler_exec(w) PROVE PlaceInv'
  BY <1>5, ExecPlace
<1>6. ASSUME NEW w \in Worker, faio_notifier_send(w) PROVE PlaceInv'
  <2>1. UNCHANGED <<reqq, net, posted>>
    BY <1>6 DEF faio_notifier_send
  <2>2. \A v \in Worker : wk'[v].pc = "exec" => wk'[v] = wk[v]
    BY <1>6 DEF faio_notifier_send, WorkerAt, Shape, WorkerRec
  <2> QED BY <2>1, <2>2, PlaceFrame
<1>7. ASSUME NEW n \in Net, faio_notifier_receive(n) PROVE PlaceInv'
  <2>1. UNCHANGED <<reqq, wk, posted>> /\ \E to \in {"reset", "bad"} : net' = [net EXCEPT ![n].pc = to]
    BY <1>7 DEF faio_notifier_receive, NetAt
  <2>2. \A m \in Net : net'[m].pc \in {"check", "push"} => net'[m] = net[m]
    BY <2>1, NetAtNeutral
  <2> QED BY <2>1, <2>2, PlaceFrame
<1>8. ASSUME NEW n \in Net, HandlerDone(n) \/ HandlerAgain(n) PROVE PlaceInv'
  BY <1>8, HandlerPlace
<1>9. ASSUME NEW n \in Net, NEW t \in Task, cfs_write(n, t) PROVE PlaceInv'
  BY <1>9, WritePlace
<1> QED BY <1>1, <1>2, <1>3, <1>4, <1>5, <1>6, <1>7, <1>8, <1>9 DEF TaskEffect

-----------------------------------------------------------------------------
(* Wake-ups *)

\* The workers that are about to tell network thread n of a task they posted, and
\* those of them that will write to its eventfd.
Tellers(n) == {w \in Worker : wk[w].pc \in {"send", "write"} /\ wk[w].task = n}
Writers(n) == {w \in Worker : wk[w].pc = "write" /\ wk[w].task = n}

\* noticed is set from the test-and-set until the owner resets it: it stands for
\* one write that is due, one that was done, or one that was read.
NoteInv ==
  \A n \in Net :
    /\ evfd[n] \in {0, 1}
    /\ evfd[n] = 1 => noticed[n] /\ net[n].pc # "reset" /\ Writers(n) = {}
    /\ net[n].pc = "reset" => noticed[n] /\ evfd[n] = 0 /\ Writers(n) = {}
    /\ Writers(n) # {} => noticed[n]
    /\ \A v, w \in Writers(n) : v = w
    /\ noticed[n] => evfd[n] = 1 \/ net[n].pc = "reset" \/ Writers(n) # {}

\* A queue that its owner will not come to on its way through both is empty, or the
\* owner is going to be told.
ComesTo(n, q) ==
  \/ net[n].pc \in {"reset", "bad"}
  \/ q = "ok" /\ (net[n].pc = "ok" \/ net[n].back = "ok")
CoverInv ==
  \A n \in Net :
    /\ net[n].pc \in {"loop", "reset", "bad", "ok"} => net[n].back = "loop"
    /\ \A q \in Queues : \/ posted[n][q] = <<>> \/ ComesTo(n, q)
                         \/ evfd[n] = 1 \/ Tellers(n) # {}

NoticeInv == NoteInv /\ CoverInv

LEMMA TellersSame ==
  ASSUME \A w \in Worker : \/ wk'[w].pc = wk[w].pc /\ wk'[w].task = wk[w].task
                           \/ wk[w].pc \notin {"send", "write"} /\ wk'[w].pc \notin {"send", "write"}
  PROVE  \A n \in Net : Tellers(n)' = Tellers(n) /\ Writers(n)' = Writers(n)
  BY DEF Tellers, Writers

\* Steps that tell nobody: a queue that is empty or that its owner will come to
\* stays so.
LEMMA NoticeFrame ==
  ASSUME NoticeInv, evfd' = evfd, noticed' = noticed,
         \A n \in Net : Tellers(n)' = Tellers(n) /\ Writers(n)' = Writers(n),
         \A n \in Net : net'[n].pc = "reset" <=> net[n].pc = "reset",
         \A n \in Net : net'[n].pc \in {"loop", "reset", "bad", "ok"} => net'[n].back = "loop",
         \A n \in Net, q \in Queues :
            posted[n][q] = <<>> \/ ComesTo(n, q) => posted'[n][q] = <<>> \/ ComesTo(n, q)'
  PROVE  NoticeInv'
<1>1. NoteInv'
  BY DEF NoticeInv, NoteInv
<1>2. CoverInv'
  BY DEF NoticeInv, CoverInv
<1> QED BY <1>1, <1>2 DEF NoticeInv

LEMMA ExecNotice ==
  ASSUME Shape, NoticeInv, NEW w \in Worker, faio_handler_exec(w)
  PROVE  NoticeInv'
<1>0. PICK t \in Task : t = wk[w].task
  BY DEF faio_handler_exec, Shape
<1>1. /\ UNCHANGED <<net, noticed, evfd>> /\ wk[w].pc = "exec" /\ Owner[t] \in Net
      /\ wk' = [wk EXCEPT ![w].pc = "send", ![w].task = Owner[@]]
  BY <1>0, FaioAssumption DEF faio_handler_exec
<1>2. wk'[w].pc = "send" /\ wk'[w].task = Owner[t] /\ \A v \in Worker \ {w} : wk'[v] = wk[v]
  BY <1>0, <1>1 DEF Shape, WorkerRec
<1>3. \A n \in Net : Writers(n)' = Writers(n) /\ Tellers(n) \subseteq Tellers(n)'
  BY <1>1, <1>2 DEF Writers, Tellers
<1>4. w \in Tellers(Owner[t])'
  BY <1>2 DEF Tellers
<1>5. \A n \in Net : n # Owner[t] => posted'[n] = posted[n]
  BY <1>0 DEF faio_handler_exec, Shape
<1>6. NoteInv'
  BY <1>1, <1>3 DEF NoticeInv, NoteInv
<1>7. ASSUME NEW n \in Net, NEW q \in Queues
      PROVE \/ posted'[n][q] = <<>> \/ ComesTo(n, q)' \/ evfd'[n] = 1 \/ Tellers(n)' # {}
  <2>1. CASE n = Owner[t]
    BY <1>4, <2>1
  <2>2. CASE n # Owner[t]
    <3>1. \/ posted[n][q] = <<>> \/ ComesTo(n, q) \/ evfd[n] = 1 \/ Tellers(n) # {}
      BY DEF NoticeInv, CoverInv
    <3> QED BY <1>1, <1>3, <1>5, <2>2, <3>1 DEF ComesTo
  <2> QED BY <2>1, <2>2
<1>8. CoverInv'
  <2>1. \A n \in Net : net'[n].pc \in {"loop", "reset", "bad", "ok"} => net'[n].back = "loop"
    BY <1>1 DEF NoticeInv, CoverInv
  <2> QED BY <1>7, <2>1 DEF CoverInv
<1> QED BY <1>6, <1>8 DEF NoticeInv

LEMMA SendNotice ==
  ASSUME Shape, NoticeInv, NEW w \in Worker, faio_notifier_send(w)
  PROVE  NoticeInv'
<1>0. PICK n \in Net : n = wk[w].task
  BY DEF faio_notifier_send, Shape
<1>1. UNCHANGED <<net, posted>> /\ wk[w].pc \in {"send", "write"}
  BY DEF faio_notifier_send
<1>n. NoteInv /\ CoverInv
  BY DEF NoticeInv
<1>c. \A m \in Net : net'[m].pc \in {"loop", "reset", "bad", "ok"} => net'[m].back = "loop"
  BY <1>0, <1>1, <1>n DEF CoverInv
<1>2. CASE /\ ~noticed[n] /\ wk[w].pc = "send" /\ wk' = [wk EXCEPT ![w].pc = "write"]
           /\ noticed' = [noticed EXCEPT ![n] = TRUE] /\ evfd' = evfd
  <2>1. wk'[w].pc = "write" /\ wk'[w].task = n /\ \A v \in Worker \ {w} : wk'[v] = wk[v]
    BY <1>0, <1>2 DEF Shape, WorkerRec
  <2>2. /\ Writers(n)' = Writers(n) \cup {w} /\ Tellers(n)' = Tellers(n)
        /\ \A m \in Net : m # n => Writers(m)' = Writers(m) /\ Tellers(m)' = Tellers(m)
    BY <1>0, <1>1, <1>2, <2>1 DEF Writers, Tellers
  <2>3. Writers(n) = {} /\ evfd[n] = 0 /\ net[n].pc # "reset"
    BY <1>0, <1>1, <1>2, <1>n DEF NoteInv
  <2>4. noticed'[n] /\ \A m \in Net : m # n => noticed'[m] = noticed[m]
    BY <1>0, <1>1, <1>2 DEF Shape
  <2>5. NoteInv'
    BY <1>0, <1>1, <1>2, <1>n, <2>2, <2>3, <2>4 DEF NoteInv
  <2>6. \A m \in Net : Tellers(m)' = Tellers(m)
    BY <2>2
  <2>7. CoverInv'
    BY <1>0, <1>1, <1>2, <1>n, <1>c, <2>6 DEF CoverInv, ComesTo
  <2> QED BY <2>5, <2>7 DEF NoticeInv
<1>3. CASE /\ noticed[n] /\ wk[w].pc = "send" /\ wk' = [wk EXCEPT ![w].pc = "pop", ![w].task = None]
           /\ UNCHANGED <<noticed, evfd>>
  <2>1. wk'[w].pc = "pop" /\ \A v \in Worker \ {w} : wk'[v] = wk[v]
    BY <1>3 DEF Shape, WorkerRec
  <2>2. /\ \A m \in Net : Writers(m)' = Writers(m)
        /\ \A m \in Net : m # n => Tellers(m)' = Tellers(m)
        /\ Writers(n) \subseteq Tellers(n)'
    BY <1>0, <1>1, <1>3, <2>1, ZenonT(60) DEF Writers, Tellers
  <2>3. evfd[n] = 1 \/ net[n].pc = "reset" \/ Writers(n) # {}
    BY <1>0, <1>1, <1>3, <1>n DEF NoteInv
  <2>5. NoteInv'
    BY <1>0, <1>1, <1>3, <1>n, <2>2 DEF NoteInv
  <2>6. ASSUME NEW m \in Net, NEW q \in Queues
        PROVE \/ posted'[m][q] = <<>> \/ ComesTo(m, q)' \/ evfd'[m] = 1 \/ Tellers(m)' # {}
    <3>1. CASE m = n
      BY <1>0, <1>1, <1>3, <2>2, <2>3, <3>1 DEF ComesTo
    <3>2. CASE m # n
      BY <1>0, <1>1, <1>3, <1>n, <2>2, <3>2 DEF CoverInv, ComesTo
    <3> QED BY <3>1, <3>2
  <2>7. CoverInv'
    BY <1>c, <2>6 DEF CoverInv
  <2> QED BY <2>5, <2>7 DEF NoticeInv
<1>4. CASE /\ wk[w].pc = "write" /\ wk' = [wk EXCEPT ![w].pc = "pop", ![w].task = None]
           /\ evfd' = [evfd EXCEPT ![n] = @ + 1] /\ noticed' = noticed
  <2>1. wk'[w].pc = "pop" /\ \A v \in Worker \ {w} : wk'[v] = wk[v]
    BY <1>4 DEF Shape, WorkerRec
  <2>2. w \in Writers(n)
    BY <1>0, <1>4 DEF Writers
  <2>3. noticed[n] /\ evfd[n] = 0 /\ net[n].pc # "reset" /\ Writers(n) = {w}
    BY <1>0, <1>1, <1>n, <2>2 DEF NoteInv
  <2>4. evfd'[n] = 1 /\ \A m \in Net : m # n => evfd'[m] = evfd[m]
    <3>1. evfd'[n] = evfd[n] + 1 /\ \A m \in Net : m # n => evfd'[m] = evfd[m]
      BY <1>0, <1>1, <1>4 DEF Shape
    <3> QED BY <2>3, <3>1
  <2>5. /\ Writers(n)' = Writers(n) \ {w}
        /\ \A m \in Net : m # n => Writers(m)' = Writers(m) /\ Tellers(m)' = Tellers(m)
    BY <1>0, <1>1, <1>4, <2>1 DEF Writers, Tellers
  <2>6. NoteInv'
    BY <1>0, <1>1, <1>4, <1>n, <2>3, <2>4, <2>5 DEF NoteInv
  <2>7. ASSUME NEW m \in Net, NEW q \in Queues
        PROVE \/ posted'[m][q] = <<>> \/ ComesTo(m, q)' \/ evfd'[m] = 1 \/ Tellers(m)' # {}
    <3>1. CASE m = n
      BY <2>4, <3>1
    <3>2. CASE m # n
      BY <1>0, <1>1, <1>n, <2>4, <2>5, <3>2 DEF CoverInv, ComesTo
    <3> QED BY <3>1, <3>2
  <2>8. CoverInv'
    BY <1>c, <2>7 DEF CoverInv
  <2> QED BY <2>6, <2>8 DEF NoticeInv
<1> QED BY <1>0, <1>2, <1>3, <1>4 DEF faio_notifier_send, WorkerAt

LEMMA ReceiveNotice ==
  ASSUME Shape, NoticeInv, NEW n \in Net, faio_notifier_receive(n)
  PROVE  NoticeInv'
<1>1. UNCHANGED <<wk, posted>> /\ \A m \in Net : Tellers(m)' = Tellers(m) /\ Writers(m)' = Writers(m)
  BY DEF faio_notifier_receive, Tellers, Writers
<1>n. NoteInv /\ CoverInv
  BY DEF NoticeInv
<1>2. CASE /\ evfd[n] > 0 /\ net[n].pc = "loop" /\ net' = [net EXCEPT ![n].pc = "reset"]
           /\ evfd' = [evfd EXCEPT ![n] = 0] /\ noticed' = noticed
  <2>1. /\ net'[n].pc = "reset" /\ net'[n].back = net[n].back
        /\ \A m \in Net \ {n} : net'[m] = net[m]
    BY <1>2, NetAtNeutral
  <2>2. evfd'[n] = 0 /\ \A m \in Net \ {n} : evfd'[m] = evfd[m]
    BY <1>2 DEF Shape
  <2>3. noticed[n] /\ Writers(n) = {}
    BY <1>2, <1>n DEF NoteInv
  <2>4. NoteInv'
    BY <1>1, <1>2, <1>n, <2>1, <2>2, <2>3 DEF NoteInv
  <2>5. CoverInv'
    BY <1>1, <1>2, <1>n, <2>1, <2>2 DEF CoverInv, ComesTo
  <2> QED BY <2>4, <2>5 DEF NoticeInv
<1>3. CASE /\ net[n].pc = "reset" /\ net' = [net EXCEPT ![n].pc = "bad"]
           /\ noticed' = [noticed EXCEPT ![n] = FALSE] /\ evfd' = evfd
  <2>1. /\ net'[n].pc = "bad" /\ net'[n].back = net[n].back
        /\ \A m \in Net \ {n} : net'[m] = net[m]
    BY <1>3, NetAtNeutral
  <2>2. ~noticed'[n] /\ \A m \in Net \ {n} : noticed'[m] = noticed[m]
    BY <1>3 DEF Shape
  <2>3. evfd[n] = 0 /\ Writers(n) = {}
    BY <1>3, <1>n DEF NoteInv
  <2>4. NoteInv'
    BY <1>1, <1>3, <1>n, <2>1, <2>2, <2>3 DEF NoteInv
  <2>5. CoverInv'
    BY <1>1, <1>3, <1>n, <2>1 DEF CoverInv, ComesTo
  <2> QED BY <2>4, <2>5 DEF NoticeInv
<1> QED BY <1>2, <1>3 DEF faio_notifier_receive, NetAt

LEMMA NoticeStep ==
  ASSUME Shape, NoticeInv, TaskEffect
  PROVE  NoticeInv'
<1>n. NoteInv /\ CoverInv
  BY DEF NoticeInv
<1>b. \A n \in Net : /\ net[n].pc \in {"loop", "reset", "bad", "ok"} => net[n].back = "loop"
                     /\ net[n].back \in {"loop", "ok"}
  BY <1>n DEF CoverInv, Shape, NetRec
<1>1. CASE Neutral
  <2>1. \A m \in Net : Tellers(m)' = Tellers(m) /\ Writers(m)' = Writers(m)
    <3>1. \A w \in Worker : \/ wk'[w].pc = wk[w].pc /\ wk'[w].task = wk[w].task
                            \/ wk[w].pc \notin {"send", "write"} /\ wk'[w].pc \notin {"send", "write"}
      BY <1>1 DEF Neutral, Working
    <3> QED BY <3>1, TellersSame
  <2>2. ASSUME NEW n \in Net
        PROVE  /\ net'[n].pc = "reset" <=> net[n].pc = "reset"
               /\ net'[n].pc \in {"loop", "reset", "bad", "ok"} => net'[n].back = "loop"
               /\ \A q \in Queues : ComesTo(n, q) => ComesTo(n, q)'
    BY <1>1, <1>b DEF Neutral, ComesTo
  <2> QED BY <1>1, <2>1, <2>2, NoticeFrame DEF Neutral
<1>2. CASE Pops
  <2>1. PICK w \in Worker : /\ wk[w].pc = "pop"
                            /\ wk' = [wk EXCEPT ![w] = [pc |-> "exec", task |-> Head(reqq), quit |-> FALSE]]
                            /\ UNCHANGED <<net, posted, noticed, evfd>>
    BY <1>2 DEF Pops
  <2>2. wk'[w].pc = "exec" /\ \A v \in Worker : v # w => wk'[v] = wk[v]
    BY <2>1 DEF Shape
  <2>3. \A m \in Net : Tellers(m)' = Tellers(m) /\ Writers(m)' = Writers(m)
    BY <2>1, <2>2 DEF Tellers, Writers
  <2>4. \A n \in Net, q \in Queues : ComesTo(n, q)' <=> ComesTo(n, q)
    BY <2>1 DEF ComesTo
  <2> QED BY <1>b, <2>1, <2>3, <2>4, NoticeFrame
<1>3. CASE Pushes
  <2>1. PICK n \in Net : /\ net[n].pc = "push" /\ net' = [net EXCEPT ![n].pc = "maybe"]
                         /\ UNCHANGED <<wk, posted, noticed, evfd>>
    BY <1>3 DEF Pushes
  <2>2. net'[n].pc = "maybe" /\ net'[n].back = net[n].back /\ \A m \in Net \ {n} : net'[m] = net[m]
    BY <2>1, NetAtNeutral
  <2>3. \A m \in Net : Tellers(m)' = Tellers(m) /\ Writers(m)' = Writers(m)
    BY <2>1 DEF Tellers, Writers
  <2>4. ASSUME NEW m \in Net
        PROVE  /\ net'[m].pc = "reset" <=> net[m].pc = "reset"
               /\ net'[m].pc \in {"loop", "reset", "bad", "ok"} => net'[m].back = "loop"
               /\ \A q \in Queues : ComesTo(m, q) => ComesTo(m, q)'
    BY <1>b, <2>1, <2>2 DEF ComesTo
  <2> QED BY <2>1, <2>3, <2>4, NoticeFrame
<1>4. CASE Looks
  <2>1. PICK n \in Net :
          /\ UNCHANGED <<wk, posted, noticed, evfd>>
          /\ \/ net[n].pc = "loop" /\ net' = [net EXCEPT ![n].pc = "bad"]
             \/ net[n].pc = "bad" /\ posted[n]["bad"] = <<>> /\ net' = [net EXCEPT ![n].pc = "ok"]
             \/ net[n].pc = "ok" /\ posted[n]["ok"] = <<>> /\ net' = [net EXCEPT ![n].pc = "loop"]
    BY <1>4 DEF Looks
  <2>2. /\ net'[n].back = net[n].back /\ \A m \in Net \ {n} : net'[m] = net[m]
        /\ \/ net[n].pc = "loop" /\ net'[n].pc = "bad"
           \/ net[n].pc = "bad" /\ posted[n]["bad"] = <<>> /\ net'[n].pc = "ok"
           \/ net[n].pc = "ok" /\ posted[n]["ok"] = <<>> /\ net'[n].pc = "loop"
    BY <2>1, NetAtNeutral
  <2>3. \A m \in Net : Tellers(m)' = Tellers(m) /\ Writers(m)' = Writers(m)
    BY <2>1 DEF Tellers, Writers
  <2>4. ASSUME NEW m \in Net
        PROVE  /\ net'[m].pc = "reset" <=> net[m].pc = "reset"
               /\ net'[m].pc \in {"loop", "reset", "bad", "ok"} => net'[m].back = "loop"
               /\ \A q \in Queues : posted[m][q] = <<>> \/ ComesTo(m, q)
                                    => posted'[m][q] = <<>> \/ ComesTo(m, q)'
    BY <1>b, <2>1, <2>2 DEF ComesTo, Queues
  <2> QED BY <2>1, <2>3, <2>4, NoticeFrame
<1>5. ASSUME NEW w \in Worker, faio_handler_exec(w) PROVE NoticeInv'
  BY <1>5, ExecNotice
<1>6. ASSUME NEW w \in Worker, faio_notifier_send(w) PROVE NoticeInv'
  BY <1>6, SendNotice
<1>7. ASSUME NEW n \in Net, faio_notifier_receive(n) PROVE NoticeInv'
  BY <1>7, ReceiveNotice
<1>8. ASSUME NEW n \in Net, HandlerDone(n) \/ HandlerAgain(n) PROVE NoticeInv'
  <2>1. PICK q \in Queues :
          /\ Take(n, q)
          /\ \/ net' = net
             \/ /\ q = "ok"
                /\ net' = [net EXCEPT ![n] = [pc |-> "check", task |-> Head(posted[n]["ok"]), back |-> "ok"]]
    BY <1>8 DEF HandlerDone, HandlerAgain, Queues
  <2>2. /\ UNCHANGED <<wk, noticed, evfd>> /\ net[n].pc = q
        /\ \A m \in Net, r \in Queues : m # n \/ r # q => posted'[m][r] = posted[m][r]
    BY <2>1 DEF Take, Shape
  <2>3. \A m \in Net : Tellers(m)' = Tellers(m) /\ Writers(m)' = Writers(m)
    BY <2>2 DEF Tellers, Writers
  <2>4. /\ \A m \in Net \ {n} : net'[m] = net[m]
        /\ net'[n] = net[n] \/ (q = "ok" /\ net'[n].pc = "check" /\ net'[n].back = "ok")
    BY <2>1 DEF Shape
  <2>5. ASSUME NEW m \in Net
        PROVE  /\ net'[m].pc = "reset" <=> net[m].pc = "reset"
               /\ net'[m].pc \in {"loop", "reset", "bad", "ok"} => net'[m].back = "loop"
    BY <1>b, <2>2, <2>4
  <2>6. ASSUME NEW m \in Net, NEW r \in Queues, posted[m][r] = <<>> \/ ComesTo(m, r)
        PROVE  posted'[m][r] = <<>> \/ ComesTo(m, r)'
    <3>1. CASE m # n
      BY <2>2, <2>4, <2>6, <3>1 DEF ComesTo
    <3>2. CASE m = n /\ r = q
      BY <1>b, <2>2, <2>4, <3>2 DEF ComesTo, Queues
    <3>3. CASE m = n /\ r # q
      BY <1>b, <2>2, <2>4, <2>6, <3>3 DEF ComesTo, Queues
    <3> QED BY <3>1, <3>2, <3>3
  <2> QED BY <2>2, <2>3, <2>5, <2>6, NoticeFrame
<1>9. ASSUME NEW n \in Net, NEW t \in Task, cfs_write(n, t) PROVE NoticeInv'
  <2>1. /\ net' = [net EXCEPT ![n] = [pc |-> "check", task |-> t, back |-> "loop"]]
        /\ wk' = wk /\ posted' = posted /\ noticed' = noticed /\ evfd' = evfd /\ net[n].pc = "loop"
    BY <1>9 DEF cfs_write, notes
  <2>2. net'[n].pc = "check" /\ net'[n].back = "loop" /\ \A m \in Net \ {n} : net'[m] = net[m]
    BY <2>1 DEF Shape
  <2>3. \A m \in Net : Tellers(m)' = Tellers(m) /\ Writers(m)' = Writers(m)
    BY <2>1 DEF Tellers, Writers
  <2>4. ASSUME NEW m \in Net
        PROVE  /\ net'[m].pc = "reset" <=> net[m].pc = "reset"
               /\ net'[m].pc \in {"loop", "reset", "bad", "ok"} => net'[m].back = "loop"
               /\ \A q \in Queues : ComesTo(m, q) => ComesTo(m, q)'
    BY <1>b, <2>1, <2>2 DEF ComesTo
  <2> QED BY <2>1, <2>3, <2>4, NoticeFrame
<1> QED BY <1>1, <1>2, <1>3, <1>4, <1>5, <1>6, <1>7, <1>8, <1>9 DEF TaskEffect

LEMMA NoticeInit == Init => NoticeInv
<1> SUFFICES ASSUME Init PROVE NoticeInv
  OBVIOUS
<1>1. \A w \in Worker : wk[w].pc = "none"
  BY DEF Init, NoWorker
<1>2. \A n \in Net : Tellers(n) = {} /\ Writers(n) = {}
  BY <1>1 DEF Tellers, Writers
<1>3. \A n \in Net : /\ net[n].pc = "loop" /\ net[n].back = "loop" /\ evfd[n] = 0 /\ ~noticed[n]
                     /\ \A q \in Queues : posted[n][q] = <<>>
  BY DEF Init, AtLoop, Queues
<1> QED BY <1>2, <1>3 DEF NoticeInv, NoteInv, CoverInv

-----------------------------------------------------------------------------
(* The pool *)

IdlePc == {"wait", "timed", "woken"}
Idling == {w \in Worker : wk[w].pc \in IdlePc}
Serving == {w \in listed : wk[w].pc # "end"}

\* A worker whose creator has not listed it yet.
Unlisted(w) == \/ main.pc = "list" /\ main.w = w
               \/ \E n \in Net : net[n].pc = "list" /\ net[n].task = w

\* Only a listed worker times out or quits, and only the thread that created it
\* lists a worker.
ListInv ==
  \A w \in Worker :
    /\ wk[w].pc = "end" \/ wk[w].quit => w \in listed
    /\ wk[w].pc = "none" => w \notin listed
    /\ Unlisted(w) <=> wk[w].pc # "none" /\ w \notin listed

\* Two network threads list different workers.
CreatorInv ==
  \A m, n \in Net : net[m].pc = "list" /\ net[n].pc = "list" /\ net[m].task = net[n].task => m = n

\* No network thread runs, and none has left work, until start-up is over.
QuietInv ==
  main.pc # "up" =>
    /\ reqq = <<>> /\ \A w \in Worker : wk[w].pc \notin Working
    /\ \A n \in Net : /\ net[n].pc = "loop" /\ evfd[n] = 0
                      /\ \A q \in Queues : posted[n][q] = <<>>

\* want_quit is set only in a pool that is released; in any other some worker stays.
StayInv ==
  /\ main.n \in Nat
  /\ wantQuit => main.pc \in {"quit", "join", "qwait", "released"}
  /\ \/ main.pc \in {"list", "register", "up"} \/ (main.pc = "create" /\ main.n > 0)
     => \E w \in Worker : wk[w].pc \notin {"none", "end"}

CountInv == Counted /\ ListInv /\ CreatorInv /\ QuietInv /\ StayInv

LEMMA CountedSets ==
  /\ Counted <=> idle = Cardinality(Idling) /\ started = Cardinality(Serving)
  /\ Shape => IsFiniteSet(Idling) /\ IsFiniteSet(Serving)
<1>1. Counted <=> idle = Cardinality(Idling) /\ started = Cardinality(Serving)
  BY DEF Counted, Idling, IdlePc, Serving
<1>2. IsFiniteSet(Worker)
  BY FaioAssumption
<1>3. Idling \subseteq Worker /\ (Shape => Serving \subseteq Worker)
  BY DEF Idling, Serving, Shape
<1> QED BY <1>1, <1>2, <1>3, FS_Subset

\* Worker w is counted and listed, or not, as before.
Same(w) ==
  /\ wk'[w].pc \in IdlePc <=> wk[w].pc \in IdlePc
  /\ wk'[w].pc = "end" <=> wk[w].pc = "end"
  /\ wk'[w].pc = "none" <=> wk[w].pc = "none"
  /\ wk'[w].quit => wk[w].quit \/ w \in listed

\* No worker is created or listed.
SameCreators ==
  /\ main'.pc = "list" <=> main.pc = "list"
  /\ main.pc = "list" => main'.w = main.w
  /\ \A n \in Net : /\ net'[n].pc = "list" <=> net[n].pc = "list"
                    /\ net[n].pc = "list" => net'[n].task = net[n].task

LEMMA CreatorsSame ==
  ASSUME SameCreators, CreatorInv
  PROVE  CreatorInv' /\ \A w \in Worker : Unlisted(w)' <=> Unlisted(w)
<1>1. CreatorInv'
  BY DEF SameCreators, CreatorInv
<1>2. \A w \in Worker : Unlisted(w)' <=> Unlisted(w)
  BY DEF SameCreators, Unlisted
<1> QED BY <1>1, <1>2

CountPart == Counted /\ ListInv /\ CreatorInv

LEMMA KeptCount ==
  ASSUME Shape, CountPart, UNCHANGED <<idle, started, listed>>, SameCreators,
         \A w \in Worker : Same(w)
  PROVE  CountPart'
<1>0. listed \subseteq Worker /\ IsFiniteSet(Worker)
  BY FaioAssumption DEF Shape
<1>1. Idling' = Idling
  BY DEF Idling, Same
<1>2. Serving' = Serving
  BY <1>0 DEF Serving, Same
<1>3. CreatorInv' /\ \A w \in Worker : Unlisted(w)' <=> Unlisted(w)
  BY CreatorsSame DEF CountPart
<1>4. ListInv'
  BY <1>3 DEF CountPart, ListInv, Same
<1>5. Counted'
  BY <1>1, <1>2 DEF CountPart, Counted, Idling, IdlePc, Serving
<1> QED BY <1>3, <1>4, <1>5 DEF CountPart

\* A new worker is neither idle nor listed.
LEMMA CreateCount ==
  ASSUME Shape, CountPart, NEW w \in Unused, faio_worker_create_thread(w),
         UNCHANGED <<idle, started, listed>>, CreatorInv',
         \A v \in Worker : Unlisted(v)' <=> Unlisted(v) \/ v = w
  PROVE  CountPart'
<1>0. w \in Worker /\ wk[w].pc = "none" /\ w \notin listed /\ listed \subseteq Worker
  BY DEF Unused, Shape
<1>1. /\ wk'[w] = [pc |-> "pop", task |-> None, quit |-> FALSE]
      /\ \A v \in Worker : v # w => wk'[v] = wk[v]
  BY <1>0 DEF faio_worker_create_thread, Shape
<1>2. Idling' = Idling
  BY <1>0, <1>1 DEF Idling, IdlePc
<1>3. Serving' = Serving
  BY <1>0, <1>1 DEF Serving
<1>4. Counted'
  BY <1>2, <1>3 DEF CountPart, Counted, Idling, IdlePc, Serving
<1>5. ListInv'
  <2>1. ASSUME NEW v \in Worker
        PROVE  /\ wk'[v].pc = "end" \/ wk'[v].quit => v \in listed'
               /\ wk'[v].pc = "none" => v \notin listed'
               /\ Unlisted(v)' <=> wk'[v].pc # "none" /\ v \notin listed'
    <3>1. CASE v = w
      BY <1>0, <1>1, <3>1
    <3>2. CASE v # w
      BY <1>0, <1>1, <3>2 DEF CountPart, ListInv
    <3> QED BY <3>1, <3>2
  <2> QED BY <2>1 DEF ListInv
<1> QED BY <1>4, <1>5 DEF CountPart

\* The creator of a worker lists and counts it.
LEMMA ListCount ==
  ASSUME Shape, CountPart, NEW w \in Worker, Unlisted(w), ListWorker(w), wk' = wk, CreatorInv',
         \A v \in Worker : Unlisted(v)' <=> Unlisted(v) /\ v # w
  PROVE  CountPart'
<1>0. w \notin listed /\ wk[w].pc \notin {"none", "end"} /\ listed \subseteq Worker
  BY DEF CountPart, ListInv, Shape
<1>1. listed' = listed \cup {w} /\ started' = started + 1 /\ idle' = idle
  BY DEF ListWorker
<1>2. Serving' = Serving \cup {w} /\ w \notin Serving /\ Idling' = Idling
  BY <1>0, <1>1 DEF Serving, Idling
<1>3. Cardinality(Serving \cup {w}) = Cardinality(Serving) + 1
  BY <1>2, CountedSets, FS_AddElement
<1>4. Counted'
  <2>1. started = Cardinality(Serving) /\ idle = Cardinality(Idling)
    BY CountedSets DEF CountPart
  <2>2. started' = Cardinality(Serving') /\ idle' = Cardinality(Idling')
    BY <1>1, <1>2, <1>3, <2>1
  <2> QED BY <2>2 DEF Counted, Idling, IdlePc, Serving
<1>5. ListInv'
  <2>1. ASSUME NEW v \in Worker
        PROVE  /\ wk'[v].pc = "end" \/ wk'[v].quit => v \in listed'
               /\ wk'[v].pc = "none" => v \notin listed'
               /\ Unlisted(v)' <=> wk'[v].pc # "none" /\ v \notin listed'
    BY <1>0, <1>1 DEF CountPart, ListInv
  <2> QED BY <2>1 DEF ListInv
<1> QED BY <1>4, <1>5 DEF CountPart

\* Worker w moves from one place to another, and the counters with it.
LEMMA MoveCount ==
  ASSUME Shape, CountPart, NEW w \in Worker, NEW to \in WorkerPc \ {"none"},
         wk' = [wk EXCEPT ![w].pc = to], wk[w].pc \notin {"none", "end"},
         listed' = listed, SameCreators, to = "end" => w \in listed,
         idle' = CASE wk[w].pc \in IdlePc /\ to \notin IdlePc -> idle - 1
                   [] wk[w].pc \notin IdlePc /\ to \in IdlePc -> idle + 1
                   [] OTHER -> idle,
         started' = IF to = "end" THEN started - 1 ELSE started
  PROVE  CountPart'
<1>0. listed \subseteq Worker /\ IsFiniteSet(Idling) /\ IsFiniteSet(Serving)
  BY CountedSets DEF Shape
<1>1. /\ wk'[w].pc = to /\ wk'[w].quit = wk[w].quit
      /\ \A v \in Worker : v # w => wk'[v] = wk[v]
  BY DEF Shape, WorkerRec
<1>c. started = Cardinality(Serving) /\ idle = Cardinality(Idling)
  BY CountedSets DEF CountPart
<1>2. idle' = Cardinality(Idling')
  <2>1. CASE wk[w].pc \in IdlePc /\ to \notin IdlePc
    <3>1. Idling' = Idling \ {w} /\ w \in Idling
      BY <1>1, <2>1 DEF Idling
    <3> QED BY <1>0, <1>c, <2>1, <3>1, FS_RemoveElement
  <2>2. CASE wk[w].pc \notin IdlePc /\ to \in IdlePc
    <3>1. Idling' = Idling \cup {w} /\ w \notin Idling
      BY <1>1, <2>2 DEF Idling
    <3> QED BY <1>0, <1>c, <2>2, <3>1, FS_AddElement
  <2>3. CASE wk[w].pc \in IdlePc <=> to \in IdlePc
    <3>1. Idling' = Idling
      BY <1>1, <2>3 DEF Idling
    <3> QED BY <1>c, <2>3, <3>1
  <2> QED BY <2>1, <2>2, <2>3
<1>3. started' = Cardinality(Serving')
  <2>1. CASE to = "end"
    <3>1. Serving' = Serving \ {w} /\ w \in Serving
      BY <1>0, <1>1, <2>1 DEF Serving
    <3> QED BY <1>0, <1>c, <2>1, <3>1, FS_RemoveElement
  <2>2. CASE to # "end"
    <3>1. Serving' = Serving
      BY <1>0, <1>1, <2>2 DEF Serving
    <3> QED BY <1>c, <2>2, <3>1
  <2> QED BY <2>1, <2>2
<1>4. Counted'
  BY <1>2, <1>3 DEF Counted, Idling, IdlePc, Serving
<1>5. CreatorInv' /\ \A v \in Worker : Unlisted(v)' <=> Unlisted(v)
  BY CreatorsSame DEF CountPart
<1>6. ListInv'
  <2>1. ASSUME NEW v \in Worker
        PROVE  /\ wk'[v].pc = "end" \/ wk'[v].quit => v \in listed'
               /\ wk'[v].pc = "none" => v \notin listed'
               /\ Unlisted(v)' <=> wk'[v].pc # "none" /\ v \notin listed'
    <3>1. CASE v = w
      BY <1>1, <1>5, <3>1 DEF CountPart, ListInv
    <3>2. CASE v # w
      BY <1>1, <1>5, <3>2 DEF CountPart, ListInv
    <3> QED BY <3>1, <3>2
  <2> QED BY <2>1 DEF ListInv
<1> QED BY <1>4, <1>5, <1>6 DEF CountPart

LEMMA EndCount ==
  ASSUME Shape, CountPart, NEW w \in Worker, faio_worker_end_thread(w)
  PROVE  CountPart'
<1>0. /\ listed \subseteq Worker /\ listed' = listed \ {w} /\ UNCHANGED <<idle, started, net>>
      /\ wk' = [wk EXCEPT ![w] = NoWorker] /\ wk[w].pc = "end"
      /\ main' = main \/ (main.pc = "qwait" /\ main' = [main EXCEPT !.pc = "join"])
  BY DEF faio_worker_end_thread, Shape
<1>1. wk'[w] = NoWorker /\ \A v \in Worker : v # w => wk'[v] = wk[v]
  BY <1>0 DEF Shape
<1>2. Idling' = Idling /\ Serving' = Serving
  BY <1>0, <1>1 DEF Idling, Serving, IdlePc, NoWorker
<1>3. Counted'
  BY <1>0, <1>2 DEF CountPart, Counted, Idling, IdlePc, Serving
<1>4. SameCreators
  BY <1>0 DEF SameCreators, Shape
<1>5. CreatorInv' /\ \A v \in Worker : Unlisted(v)' <=> Unlisted(v)
  BY <1>4, CreatorsSame DEF CountPart
<1>6. ListInv'
  <2>1. ASSUME NEW v \in Worker
        PROVE  /\ wk'[v].pc = "end" \/ wk'[v].quit => v \in listed'
               /\ wk'[v].pc = "none" => v \notin listed'
               /\ Unlisted(v)' <=> wk'[v].pc # "none" /\ v \notin listed'
    <3>1. CASE v = w
      BY <1>0, <1>1, <1>5, <3>1 DEF CountPart, ListInv, NoWorker
    <3>2. CASE v # w
      BY <1>0, <1>1, <1>5, <3>2 DEF CountPart, ListInv
    <3> QED BY <3>1, <3>2
  <2> QED BY <2>1 DEF ListInv
<1> QED BY <1>3, <1>5, <1>6 DEF CountPart

LEMMA SignalSame ==
  ASSUME Shape, faio_cond_signal
  PROVE  \A v \in Worker : Same(v)
<1>1. CASE UNCHANGED wk
  BY <1>1 DEF Same
<1>2. CASE \E w \in Asleep : wk' = [wk EXCEPT ![w].pc = "woken"]
  <2>1. PICK w \in Asleep : wk' = [wk EXCEPT ![w].pc = "woken"]
    BY <1>2
  <2>2. w \in Worker /\ wk[w].pc \in {"wait", "timed"}
    BY DEF Asleep
  <2>3. /\ wk'[w].pc = "woken" /\ wk'[w].quit = wk[w].quit
        /\ \A v \in Worker : v # w => wk'[v] = wk[v]
    BY <2>1, <2>2 DEF Shape, WorkerRec
  <2> QED BY <2>2, <2>3 DEF Same, IdlePc
<1> QED BY <1>1, <1>2 DEF faio_cond_signal

LEMMA MainCount ==
  ASSUME Shape, CountPart, QuietInv, MainStep
  PROVE  CountPart'
<1>1. CASE main_list
  <2>1. /\ main.pc = "list" /\ ListWorker(main.w) /\ net' = net /\ wk' = wk
        /\ main' = [pc |-> "create", n |-> main.n + 1, w |-> None] /\ main.w \in Worker
    BY <1>1 DEF main_list, Shape
  <2>2. PICK w \in Worker : w = main.w
    BY <2>1
  <2>3. \A n \in Net : net[n].pc = "loop"
    BY <2>1 DEF QuietInv
  <2>4. Unlisted(w) /\ CreatorInv' /\ \A v \in Worker : Unlisted(v)' <=> Unlisted(v) /\ v # w
    BY <2>1, <2>2, <2>3 DEF Unlisted, CreatorInv
  <2>5. ListWorker(w)
    BY <2>1, <2>2 DEF ListWorker
  <2> QED BY <2>1, <2>4, <2>5, ListCount
<1>2. CASE /\ \E w \in Unused : faio_worker_create_thread(w) /\ main' = [main EXCEPT !.pc = "list", !.w = w]
           /\ main.pc = "create" /\ UNCHANGED <<net, pool>>
  <2>1. PICK w \in Unused : faio_worker_create_thread(w) /\ main' = [main EXCEPT !.pc = "list", !.w = w]
    BY <1>2
  <2>2. main'.pc = "list" /\ main'.w = w
    BY <2>1 DEF Shape
  <2>3. CreatorInv' /\ \A v \in Worker : Unlisted(v)' <=> Unlisted(v) \/ v = w
    BY <1>2, <2>2 DEF Unlisted, CreatorInv, CountPart
  <2>4. UNCHANGED <<idle, started, listed>>
    BY <1>2 DEF pool
  <2> QED BY <2>1, <2>3, <2>4, CreateCount
<1>3. CASE /\ main.pc # "list" /\ main'.pc # "list" /\ UNCHANGED <<net, idle, started, listed>>
           /\ faio_cond_signal \/ UNCHANGED wk
  <2>1. SameCreators
    BY <1>3 DEF SameCreators
  <2>2. \A v \in Worker : Same(v)
    BY <1>3, SignalSame DEF Same
  <2> QED BY <1>3, <2>1, <2>2, KeptCount
<1>4. CASE faio_worker_manager_init
  <2>1. CASE /\ \E to \in {"quit", "register"} : main' = [main EXCEPT !.pc = to] 
             /\ UNCHANGED wk
    <3>1. main'.pc # "list"
      BY <2>1 DEF Shape
    <3> QED BY <1>3, <1>4, <2>1, <3>1 DEF faio_worker_manager_init, pool
  <2> QED BY <1>2, <1>4, <2>1 DEF faio_worker_manager_init
<1>5. CASE cfs_faio_ioinit
  <2>1. main'.pc # "list"
    BY <1>5 DEF cfs_faio_ioinit
  <2> QED BY <1>3, <1>5, <2>1 DEF cfs_faio_ioinit, pool
<1>6. CASE faio_worker_quit_thread
  <2>1. main'.pc # "list" /\ main.pc # "list"
    BY <1>6 DEF faio_worker_quit_thread, Shape
  <2>2. UNCHANGED <<net, idle, started, listed>> /\ (faio_cond_signal \/ UNCHANGED wk)
    BY <1>6 DEF faio_worker_quit_thread, pool
  <2> QED BY <1>3, <2>1, <2>2
<1>7. CASE faio_worker_manager_release
  <2>1. main'.pc # "list" /\ main.pc # "list"
    BY <1>7 DEF faio_worker_manager_release, Shape
  <2> QED BY <1>3, <1>7, <2>1 DEF faio_worker_manager_release, pool
<1> QED BY <1>1, <1>4, <1>5, <1>6, <1>7 DEF MainStep

LEMMA RunCount ==
  ASSUME Shape, CountPart, QuietInv, StayInv, NEW w \in Worker, Run(w)
  PROVE  CountPart'
<1>0. UNCHANGED <<main, net>> => SameCreators
  BY DEF SameCreators
<1>1. CASE faio_data_pop_req(w)
  <2>1. /\ UNCHANGED <<main, net, idle, started, listed>> /\ wk[w].pc = "pop"
        /\ \/ wk' = [wk EXCEPT ![w] = [pc |-> "exec", task |-> Head(reqq), quit |-> FALSE]]
           \/ wk' = [wk EXCEPT ![w].pc = "lock"]
    BY <1>1 DEF faio_data_pop_req, WorkerAt, pool
  <2>2. /\ wk'[w].pc \in {"exec", "lock"} /\ (wk'[w].quit => wk[w].quit)
        /\ \A v \in Worker : v # w => wk'[v] = wk[v]
    <3>1. CASE wk' = [wk EXCEPT ![w] = [pc |-> "exec", task |-> Head(reqq), quit |-> FALSE]]
      <4>1. wk'[w] = [pc |-> "exec", task |-> Head(reqq), quit |-> FALSE]
            /\ \A v \in Worker : v # w => wk'[v] = wk[v]
        BY <3>1 DEF Shape
      <4> QED BY <4>1
    <3>2. CASE wk' = [wk EXCEPT ![w].pc = "lock"]
      <4>1. /\ wk'[w].pc = "lock" /\ wk'[w].quit = wk[w].quit
            /\ \A v \in Worker : v # w => wk'[v] = wk[v]
        BY <3>2 DEF Shape, WorkerRec
      <4> QED BY <4>1
    <3> QED BY <2>1, <3>1, <3>2
  <2>3. \A v \in Worker : Same(v)
    BY <2>1, <2>2 DEF Same, IdlePc
  <2> QED BY <1>0, <2>1, <2>3, KeptCount
<1>2. CASE faio_handler_exec(w)
  <2>1. /\ UNCHANGED <<main, net, idle, started, listed>> /\ wk[w].pc = "exec"
        /\ wk' = [wk EXCEPT ![w].pc = "send", ![w].task = Owner[@]]
    BY <1>2 DEF faio_handler_exec, pool
  <2>2. /\ wk'[w].pc = "send" /\ wk'[w].quit = wk[w].quit
        /\ \A v \in Worker : v # w => wk'[v] = wk[v]
    BY <2>1 DEF Shape, WorkerRec
  <2>3. \A v \in Worker : Same(v)
    BY <2>1, <2>2 DEF Same, IdlePc
  <2> QED BY <1>0, <2>1, <2>3, KeptCount
<1>3. CASE faio_notifier_send(w)
  <2>1. /\ UNCHANGED <<main, net, idle, started, listed>> /\ wk[w].pc \in {"send", "write"}
        /\ \/ wk' = [wk EXCEPT ![w].pc = "write"]
           \/ wk' = [wk EXCEPT ![w].pc = "pop", ![w].task = None]
    BY <1>3 DEF faio_notifier_send, WorkerAt, pool
  <2>2. /\ wk'[w].pc \in {"write", "pop"} /\ wk'[w].quit = wk[w].quit
        /\ \A v \in Worker : v # w => wk'[v] = wk[v]
    BY <2>1 DEF Shape, WorkerRec
  <2>3. \A v \in Worker : Same(v)
    BY <2>1, <2>2 DEF Same, IdlePc
  <2> QED BY <1>0, <2>1, <2>3, KeptCount
<1>4. CASE worker_idle(w)
  <2>0. /\ UNCHANGED <<main, net, listed>> /\ wk[w].pc = "lock" /\ wk[w].pc \notin {"none", "end"}
        /\ wk[w].pc \notin IdlePc
    BY <1>4 DEF worker_idle, WorkerAt, IdlePc
  <2>1. CASE /\ wantQuit \/ wk[w].quit
             /\ wk' = [wk EXCEPT ![w].pc = "end"] /\ started' = started - 1 /\ idle' = idle
    <3>1. w \in listed
      <4>1. CASE wk[w].quit
        BY <4>1 DEF CountPart, ListInv
      <4>2. CASE wantQuit
        <5>1. main.pc \in {"quit", "join", "qwait", "released"}
          BY <4>2 DEF StayInv
        <5>2. ~Unlisted(w)
          BY <5>1 DEF QuietInv, Unlisted
        <5> QED BY <2>0, <5>2 DEF CountPart, ListInv
      <4> QED BY <2>1, <4>1, <4>2
    <3>2. "end" \in WorkerPc \ {"none"} /\ "end" \notin IdlePc
      BY DEF WorkerPc, IdlePc
    <3> QED BY <1>0, <2>0, <2>1, <3>1, <3>2, MoveCount
  <2>2. CASE wk' = [wk EXCEPT ![w].pc = "pop"] /\ started' = started /\ idle' = idle
    <3>2. "pop" \in WorkerPc \ {"none"} /\ "pop" \notin IdlePc
      BY DEF WorkerPc, IdlePc
    <3> QED BY <1>0, <2>0, <2>2, <3>2, MoveCount
  <2>3. CASE /\ \E to \in {"wait", "timed"} : wk' = [wk EXCEPT ![w].pc = to]
             /\ started' = started /\ idle' = idle + 1
    <3>1. PICK to \in {"wait", "timed"} : wk' = [wk EXCEPT ![w].pc = to]
      BY <2>3
    <3>2. to \in WorkerPc \ {"none"} /\ to \in IdlePc /\ to # "end"
      BY DEF WorkerPc, IdlePc
    <3> QED BY <1>0, <2>0, <2>3, <3>1, <3>2, MoveCount
  <2> QED BY <1>4, <2>1, <2>2, <2>3 DEF worker_idle, WorkerAt
<1>5. CASE idle_timeout(w)
  <2>1. /\ UNCHANGED <<main, net, idle, started, listed>> /\ wk[w].pc = "timed" /\ w \in listed
        /\ wk' = [wk EXCEPT ![w].pc = "woken", ![w].quit = TRUE]
    BY <1>5 DEF idle_timeout, pool
  <2>2. wk'[w].pc = "woken" /\ \A v \in Worker : v # w => wk'[v] = wk[v]
    BY <2>1 DEF Shape, WorkerRec
  <2>3. \A v \in Worker : Same(v)
    BY <2>1, <2>2 DEF Same, IdlePc
  <2> QED BY <1>0, <2>1, <2>3, KeptCount
<1>6. CASE worker_resume(w)
  <2>1. /\ UNCHANGED <<main, net, started, listed>> /\ wk[w].pc = "woken"
        /\ wk' = [wk EXCEPT ![w].pc = "pop"] /\ idle' = idle - 1
    BY <1>6 DEF worker_resume, WorkerAt
  <2>2. "pop" \in WorkerPc \ {"none"} /\ "pop" \notin IdlePc /\ wk[w].pc \in IdlePc
    BY <2>1 DEF WorkerPc, IdlePc
  <2> QED BY <1>0, <2>1, <2>2, MoveCount
<1>7. CASE faio_worker_end_thread(w)
  BY <1>7, EndCount
<1> QED BY <1>1, <1>2, <1>3, <1>4, <1>5, <1>6, <1>7 DEF Run

LEMMA NetCount ==
  ASSUME Shape, CountPart, QuietInv, NEW n \in Net,
         NetStep(n) \/ \E t \in Task : cfs_write(n, t)
  PROVE  CountPart'
<1>0. ASSUME UNCHANGED <<main, idle, started, listed>>, net[n].pc # "list", net'[n].pc # "list",
             \A m \in Net \ {n} : net'[m] = net[m], \A w \in Worker : Same(w)
      PROVE  CountPart'
  <2>1. SameCreators
    BY <1>0 DEF SameCreators
  <2> QED BY <1>0, <2>1, KeptCount
<1>w. wk' = wk => \A w \in Worker : Same(w)
  BY DEF Same
<1>r. ASSUME Return(n) PROVE net'[n].pc # "list" /\ \A m \in Net \ {n} : net'[m] = net[m]
  <2>1. net[n].back \in {"loop", "ok"}
    BY DEF Shape, NetRec
  <2> QED BY <1>r, <2>1, ReturnNeutral
<1>g. ASSUME NEW to, to # "list", net' = [net EXCEPT ![n].pc = to]
      PROVE  net'[n].pc # "list" /\ \A m \in Net \ {n} : net'[m] = net[m]
  BY <1>g, NetAtNeutral
<1>1. CASE faio_data_push_task(n)
  <2>1. /\ UNCHANGED <<main, wk, idle, started, listed>> /\ net[n].pc # "list"
        /\ Return(n) \/ net' = [net EXCEPT ![n].pc = "push"]
    BY <1>1 DEF faio_data_push_task, NetAt, pool
  <2> QED BY <1>0, <1>w, <1>r, <1>g, <2>1
<1>2. CASE faio_data_push_req(n)
  <2>1. /\ UNCHANGED <<main, wk, idle, started, listed>> /\ net[n].pc # "list"
        /\ net' = [net EXCEPT ![n].pc = "maybe"]
    BY <1>2 DEF faio_data_push_req, NetAt, pool
  <2> QED BY <1>0, <1>w, <1>g, <2>1
<1>3. CASE faio_worker_maybe_start_thread(n)
  <2>1. /\ UNCHANGED <<main, idle, started, listed>> /\ net[n].pc # "list"
        /\ Return(n) \/ net' = [net EXCEPT ![n].pc = "create"]
        /\ faio_cond_signal \/ wk' = wk
    BY <1>3 DEF faio_worker_maybe_start_thread, NetAt, pool
  <2> QED BY <1>0, <1>w, <1>r, <1>g, <2>1, SignalSame
<1>4. CASE faio_worker_start_thread(n)
  <2>m. net[n].pc # "loop" => main.pc # "list"
    BY DEF QuietInv
  <2>1. CASE /\ net[n].pc = "create" /\ Return(n) /\ UNCHANGED <<main, wk, idle, started, listed>>
    BY <1>0, <1>w, <1>r, <2>1
  <2>2. CASE /\ net[n].pc = "create" /\ UNCHANGED <<main, idle, started, listed>>
             /\ \E w \in Unused : /\ faio_worker_create_thread(w)
                                 /\ net' = [net EXCEPT ![n].pc = "list", ![n].task = w]
    <3>1. PICK w \in Unused : /\ faio_worker_create_thread(w)
                              /\ net' = [net EXCEPT ![n].pc = "list", ![n].task = w]
      BY <2>2
    <3>2. /\ net'[n].pc = "list" /\ net'[n].task = w /\ \A m \in Net \ {n} : net'[m] = net[m]
      BY <3>1 DEF Shape, NetRec
    <3>3. w \in Worker /\ ~Unlisted(w)
      BY DEF Unused, CountPart, ListInv
    <3>4. \A v \in Worker : Unlisted(v)' <=> Unlisted(v) \/ v = w
      BY <2>2, <3>2, <3>3 DEF Unlisted
    <3>5. \A m \in Net : net[m].pc = "list" => net[m].task # w
      BY <3>3 DEF Unlisted
    <3>6. CreatorInv'
      BY <3>2, <3>5 DEF CountPart, CreatorInv
    <3> QED BY <2>2, <3>1, <3>4, <3>6, CreateCount
  <2>3. CASE net[n].pc = "list" /\ ListWorker(net[n].task) /\ Return(n) /\ UNCHANGED <<main, wk>>
    <3>1. PICK w \in Worker : w = net[n].task
      BY <2>3 DEF Shape
    <3>2. net'[n].pc # "list" /\ \A m \in Net \ {n} : net'[m] = net[m]
      BY <1>r, <2>3
    <3>3. \A m \in Net \ {n} : net[m].pc = "list" => net[m].task # w
      BY <2>3, <3>1 DEF CountPart, CreatorInv
    <3>4. Unlisted(w) /\ \A v \in Worker : Unlisted(v)' <=> Unlisted(v) /\ v # w
      BY <2>m, <2>3, <3>1, <3>2, <3>3 DEF Unlisted
    <3>5. CreatorInv'
      BY <3>2 DEF CountPart, CreatorInv
    <3>6. ListWorker(w)
      BY <2>3, <3>1 DEF ListWorker
    <3> QED BY <2>3, <3>4, <3>5, <3>6, ListCount
  <2> QED BY <1>4, <2>1, <2>2, <2>3 DEF faio_worker_start_thread, pool
<1>5. CASE faio_notifier_receive(n)
  <2>1. /\ UNCHANGED <<main, wk, idle, started, listed>> /\ net[n].pc # "list"
        /\ \E to \in {"reset", "bad"} : net' = [net EXCEPT ![n].pc = to]
    BY <1>5 DEF faio_notifier_receive, NetAt, pool
  <2> QED BY <1>0, <1>w, <1>g, <2>1
<1>6. CASE cfs_ioevents_process_posted(n)
  <2>1. /\ UNCHANGED <<main, wk, idle, started, listed>> /\ net[n].pc # "list"
        /\ net' = [net EXCEPT ![n].pc = "bad"]
    BY <1>6 DEF cfs_ioevents_process_posted, NetAt, pool
  <2> QED BY <1>0, <1>w, <1>g, <2>1
<1>7. CASE ioevents_process_posted(n)
  <2>1. /\ UNCHANGED <<main, wk, idle, started, listed>> /\ net[n].pc \in {"bad", "ok"}
        /\ \/ net' = net
           \/ \E to \in {"ok", "loop"} : net' = [net EXCEPT ![n].pc = to]
           \/ net' = [net EXCEPT ![n] = [pc |-> "check", task |-> Head(posted[n]["ok"]), back |-> "ok"]]
    BY <1>7 DEF ioevents_process_posted, HandlerDone, HandlerAgain, Take, NetAt, pool
  <2>2. CASE net' = net
    BY <1>0, <1>w, <2>1, <2>2
  <2>3. CASE \E to \in {"ok", "loop"} : net' = [net EXCEPT ![n].pc = to]
    BY <1>0, <1>w, <1>g, <2>1, <2>3
  <2>4. CASE net' = [net EXCEPT ![n] = [pc |-> "check", task |-> Head(posted[n]["ok"]), back |-> "ok"]]
    <3>1. net'[n].pc = "check" /\ \A m \in Net \ {n} : net'[m] = net[m]
      BY <2>4 DEF Shape
    <3> QED BY <1>0, <1>w, <2>1, <3>1
  <2> QED BY <2>1, <2>2, <2>3, <2>4
<1>8. CASE \E t \in Task : cfs_write(n, t)
  <2>1. PICK t \in Task : cfs_write(n, t)
    BY <1>8
  <2>2. /\ UNCHANGED <<main, wk, idle, started, listed>> /\ net[n].pc = "loop"
        /\ net' = [net EXCEPT ![n] = [pc |-> "check", task |-> t, back |-> "loop"]]
    BY <2>1 DEF cfs_write, pool
  <2>3. net'[n].pc = "check" /\ \A m \in Net \ {n} : net'[m] = net[m]
    BY <2>2 DEF Shape
  <2> QED BY <1>0, <1>w, <2>2, <2>3
<1> QED BY <1>1, <1>2, <1>3, <1>4, <1>5, <1>6, <1>7, <1>8 DEF NetStep

\* Before start-up is over there is nothing to do for a worker or a network thread.
LEMMA QuietStep ==
  ASSUME Shape, QuietInv, Next
  PROVE  QuietInv'
<1> SUFFICES ASSUME main'.pc # "up" PROVE QuietInv'
  BY DEF QuietInv
<1>1. main.pc # "up"
  <2>1. CASE main' = main
    BY <2>1
  <2>2. CASE MainStep
    BY <2>2 DEF MainStep, faio_worker_manager_init, main_list, cfs_faio_ioinit,
                faio_worker_quit_thread, faio_worker_manager_release
  <2>3. CASE \E w \in Worker : faio_worker_end_thread(w)
    BY <2>3 DEF faio_worker_end_thread
  <2>4. ASSUME NEW w \in Worker, Run(w) PROVE main' = main \/ faio_worker_end_thread(w)
    BY <2>4 DEF Run, faio_data_pop_req, faio_handler_exec, faio_notifier_send, worker_idle,
                idle_timeout, worker_resume
  <2>5. ASSUME NEW n \in Net, NetStep(n) \/ \E t \in Task : cfs_write(n, t) PROVE main' = main
    BY <2>5 DEF NetStep, faio_data_push_task, faio_data_push_req, faio_worker_maybe_start_thread,
                faio_worker_start_thread, faio_notifier_receive, cfs_ioevents_process_posted,
                ioevents_process_posted, HandlerDone, HandlerAgain, Take, cfs_write
  <2> QED BY <2>1, <2>2, <2>3, <2>4, <2>5 DEF Next
<1>2. /\ reqq = <<>> /\ \A w \in Worker : wk[w].pc \notin Working
      /\ \A n \in Net : /\ net[n].pc = "loop" /\ evfd[n] = 0
                        /\ \A q \in Queues : posted[n][q] = <<>>
  BY <1>1 DEF QuietInv
<1>3. TaskEffect
  BY TaskEffects
<1>4. CASE Neutral
  <2>1. reqq' = <<>> /\ \A n \in Net : /\ net'[n].pc = "loop" /\ evfd'[n] = 0
                                        /\ \A q \in Queues : posted'[n][q] = <<>>
    BY <1>2, <1>4 DEF Neutral
  <2>2. \A w \in Worker : wk'[w].pc \notin Working
    BY <1>2, <1>4 DEF Neutral
  <2> QED BY <2>1, <2>2 DEF QuietInv
<1>5. ~Pops /\ ~Pushes /\ ~Looks
  BY <1>2 DEF Pops, Pushes, Looks
<1>6. \A w \in Worker : ~faio_handler_exec(w) /\ ~faio_notifier_send(w)
  BY <1>2 DEF Working, faio_handler_exec, faio_notifier_send
<1>7. \A n \in Net : ~HandlerDone(n) /\ ~HandlerAgain(n) /\ ~faio_notifier_receive(n)
  BY <1>2 DEF HandlerDone, HandlerAgain, Take, faio_notifier_receive, NetAt
<1>8. \A n \in Net, t \in Task : ~cfs_write(n, t)
  BY <1>1 DEF cfs_write
<1> QED BY <1>3, <1>4, <1>5, <1>6, <1>7, <1>8 DEF TaskEffect

\* A worker that runs goes on running.
Alive(w) == wk[w].pc \notin {"none", "end"}

LEMMA MainStay ==
  ASSUME Shape, Counted, StayInv, MainStep
  PROVE  StayInv'
<1>0. main.n \in Nat /\ PreStart \in Nat \ {0} /\ started \in Nat
  <2>1. started \in Nat
    BY CountedSets, FS_CardinalityType
  <2> QED BY <2>1, FaioAssumption DEF StayInv
<1>a. (\A w \in Worker : Same(w)) => \A w \in Worker : Alive(w) => Alive(w)'
  BY DEF Same, Alive
<1>1. CASE faio_worker_manager_init
  <2>1. CASE /\ \E w \in Unused : faio_worker_create_thread(w) /\ main' = [main EXCEPT !.pc = "list", !.w = w]
    <3>1. PICK w \in Unused : faio_worker_create_thread(w) /\ main' = [main EXCEPT !.pc = "list", !.w = w]
      BY <2>1
    <3>2. w \in Worker /\ wk'[w].pc = "pop"
      BY <3>1 DEF faio_worker_create_thread, Unused, Shape
    <3>3. main'.pc = "list" /\ main'.n = main.n
      BY <3>1 DEF Shape
    <3>4. ~wantQuit /\ wantQuit' = wantQuit
      BY <1>1 DEF faio_worker_manager_init, StayInv, pool
    <3> QED BY <1>0, <3>2, <3>3, <3>4 DEF StayInv
  <2>2. CASE main.n < PreStart /\ main' = [main EXCEPT !.pc = "quit"] /\ UNCHANGED wk
    <3>1. main'.pc = "quit" /\ main'.n = main.n
      BY <2>2 DEF Shape
    <3> QED BY <1>0, <3>1 DEF StayInv
  <2>3. CASE main.n = PreStart /\ main' = [main EXCEPT !.pc = "register"] /\ UNCHANGED wk
    <3>1. main'.pc = "register" /\ main'.n = main.n /\ main.pc = "create"
      BY <1>1, <2>3 DEF Shape, faio_worker_manager_init
    <3>2. ~wantQuit /\ wantQuit' = wantQuit
      BY <1>1 DEF faio_worker_manager_init, StayInv, pool
    <3>3. \E w \in Worker : wk'[w].pc \notin {"none", "end"}
      <4>1. main.n > 0
        BY <1>0, <2>3
      <4> QED BY <2>3, <3>1, <4>1 DEF StayInv
    <3> QED BY <1>0, <3>1, <3>2, <3>3 DEF StayInv
  <2> QED BY <1>1, <2>1, <2>2, <2>3 DEF faio_worker_manager_init
<1>2. CASE main_list
  <2>1. /\ main.pc = "list" /\ wk' = wk /\ wantQuit' = wantQuit
        /\ main' = [pc |-> "create", n |-> main.n + 1, w |-> None]
    BY <1>2 DEF main_list, ListWorker
  <2>2. ~wantQuit' /\ \E w \in Worker : wk'[w].pc \notin {"none", "end"}
    BY <2>1 DEF StayInv
  <2> QED BY <1>0, <2>1, <2>2 DEF StayInv
<1>3. CASE cfs_faio_ioinit
  <2>1. /\ main.pc = "register" /\ wk' = wk /\ wantQuit' = wantQuit
        /\ main'.pc \in {"up", "quit"} /\ main'.n = 0
    BY <1>3 DEF cfs_faio_ioinit, pool
  <2>2. ~wantQuit' /\ \E w \in Worker : wk'[w].pc \notin {"none", "end"}
    BY <2>1 DEF StayInv
  <2> QED BY <2>1, <2>2 DEF StayInv
<1>4. CASE faio_worker_quit_thread
  <2>1. main'.pc \in {"quit", "join"} /\ main'.n \in Nat
    BY <1>0, <1>4 DEF faio_worker_quit_thread, Shape
  <2> QED BY <2>1 DEF StayInv
<1>5. CASE faio_worker_manager_release
  <2>1. main'.pc \in {"released", "qwait"} /\ main'.n = main.n
    BY <1>5 DEF faio_worker_manager_release, Shape
  <2> QED BY <1>0, <2>1 DEF StayInv
<1> QED BY <1>1, <1>2, <1>3, <1>4, <1>5 DEF MainStep

LEMMA StaySame ==
  ASSUME StayInv, UNCHANGED <<main, wantQuit>>, \A w \in Worker : Alive(w) => Alive(w)'
  PROVE  StayInv'
  BY DEF StayInv, Alive

LEMMA RunStay ==
  ASSUME Shape, Counted, StayInv, NEW w \in Worker, Run(w)
  PROVE  StayInv'
<1>1. CASE \/ faio_data_pop_req(w) \/ faio_handler_exec(w) \/ faio_notifier_send(w)
           \/ idle_timeout(w) \/ worker_resume(w)
  <2>1. UNCHANGED <<main, wantQuit>>
    BY <1>1 DEF faio_data_pop_req, faio_handler_exec, faio_notifier_send, idle_timeout,
                worker_resume, pool
  <2>2. \/ wk' = [wk EXCEPT ![w] = [pc |-> "exec", task |-> Head(reqq), quit |-> FALSE]]
        \/ wk' = [wk EXCEPT ![w].pc = "lock"]
        \/ wk' = [wk EXCEPT ![w].pc = "send", ![w].task = Owner[@]]
        \/ wk' = [wk EXCEPT ![w].pc = "write"]
        \/ wk' = [wk EXCEPT ![w].pc = "pop", ![w].task = None]
        \/ wk' = [wk EXCEPT ![w].pc = "woken", ![w].quit = TRUE]
        \/ wk' = [wk EXCEPT ![w].pc = "pop"]
    BY <1>1 DEF faio_data_pop_req, faio_handler_exec, faio_notifier_send, idle_timeout,
                worker_resume, WorkerAt
  <2>3. /\ wk'[w].pc \in {"exec", "lock", "send", "write", "pop", "woken"}
        /\ \A v \in Worker : v # w => wk'[v] = wk[v]
    BY <2>2 DEF Shape, WorkerRec
  <2>4. \A v \in Worker : Alive(v) => Alive(v)'
    BY <2>3 DEF Alive
  <2> QED BY <2>1, <2>4, StaySame
<1>2. CASE worker_idle(w)
  <2>0. UNCHANGED <<main, wantQuit>> /\ wk[w].pc = "lock"
    BY <1>2 DEF worker_idle, WorkerAt
  <2>1. CASE wk' = [wk EXCEPT ![w].pc = "end"] /\ wantQuit
    <3>1. main.pc \in {"quit", "join", "qwait", "released"}
      BY <2>1 DEF StayInv
    <3> QED BY <2>0, <3>1 DEF StayInv
  <2>2. CASE wk' = [wk EXCEPT ![w].pc = "end"] /\ idle >= MaxIdle
    <3>1. Idling # {}
      <4>1. idle = Cardinality(Idling) /\ MaxIdle \in Nat \ {0} /\ idle \in Int
        BY CountedSets, FaioAssumption DEF Shape
      <4>2. Cardinality(Idling) # 0
        BY <2>2, <4>1
      <4> QED BY <4>2, FS_EmptySet
    <3>2. PICK v \in Idling : TRUE
      BY <3>1
    <3>3. v \in Worker /\ v # w /\ wk[v].pc \in {"wait", "timed", "woken"}
      BY <2>0 DEF Idling, IdlePc
    <3>4. wk'[v] = wk[v]
      BY <2>2, <3>3 DEF Shape
    <3>5. \E u \in Worker : wk'[u].pc \notin {"none", "end"}
      BY <3>3, <3>4
    <3> QED BY <2>0, <3>5 DEF StayInv
  <2>3. CASE \E to \in {"pop", "wait", "timed"} : wk' = [wk EXCEPT ![w].pc = to]
    <3>1. /\ wk'[w].pc \in {"pop", "wait", "timed"}
          /\ \A v \in Worker : v # w => wk'[v] = wk[v]
      BY <2>3 DEF Shape, WorkerRec
    <3>2. \A v \in Worker : Alive(v) => Alive(v)'
      BY <3>1 DEF Alive
    <3> QED BY <2>0, <3>2, StaySame
  <2> QED BY <1>2, <2>1, <2>2, <2>3 DEF worker_idle, WorkerAt
<1>3. CASE faio_worker_end_thread(w)
  <2>1. /\ wk[w].pc = "end" /\ wk' = [wk EXCEPT ![w] = NoWorker] /\ wantQuit' = wantQuit
        /\ main' = main \/ (main.pc = "qwait" /\ main' = [main EXCEPT !.pc = "join"])
    BY <1>3 DEF faio_worker_end_thread
  <2>2. \A v \in Worker : Alive(v) => Alive(v)'
    BY <2>1 DEF Alive, Shape
  <2>3. CASE main' = main
    BY <2>1, <2>2, <2>3, StaySame
  <2>4. CASE main.pc = "qwait" /\ main' = [main EXCEPT !.pc = "join"]
    <3>1. main'.pc = "join" /\ main'.n = main.n
      BY <2>4 DEF Shape
    <3> QED BY <3>1 DEF StayInv
  <2> QED BY <2>1, <2>3, <2>4
<1> QED BY <1>1, <1>2, <1>3 DEF Run

LEMMA NetStay ==
  ASSUME Shape, StayInv, NEW n \in Net, NetStep(n) \/ \E t \in Task : cfs_write(n, t)
  PROVE  StayInv'
<1>1. /\ UNCHANGED <<main, wantQuit>>
      /\ \/ UNCHANGED wk \/ faio_cond_signal
         \/ \E w \in Unused : faio_worker_create_thread(w)
  BY DEF NetStep, faio_data_push_task, faio_data_push_req, faio_worker_maybe_start_thread,
         faio_worker_start_thread, faio_notifier_receive, cfs_ioevents_process_posted,
         ioevents_process_posted, HandlerDone, HandlerAgain, Take, cfs_write, ListWorker, pool
<1>2. CASE UNCHANGED wk
  BY <1>1, <1>2, StaySame DEF Alive
<1>3. CASE faio_cond_signal
  <2>1. \A w \in Worker : Alive(w) => Alive(w)'
    BY <1>3, SignalSame DEF Same, Alive
  <2> QED BY <1>1, <2>1, StaySame
<1>4. CASE \E w \in Unused : faio_worker_create_thread(w)
  <2>1. PICK w \in Unused : faio_worker_create_thread(w)
    BY <1>4
  <2>2. w \in Worker /\ wk'[w].pc = "pop" /\ \A v \in Worker : v # w => wk'[v] = wk[v]
    BY <2>1 DEF faio_worker_create_thread, Unused, Shape
  <2>3. \A v \in Worker : Alive(v) => Alive(v)'
    BY <2>2 DEF Alive
  <2> QED BY <1>1, <2>3, StaySame
<1> QED BY <1>1, <1>2, <1>3, <1>4

-----------------------------------------------------------------------------
(* The invariant *)

FaioInv == Shape /\ PlaceInv /\ NoticeInv /\ CountPart /\ QuietInv /\ StayInv

LEMMA FaioInvInit == Init => FaioInv
<1> SUFFICES ASSUME Init PROVE FaioInv
  OBVIOUS
<1>0. /\ \A w \in Worker : wk[w].pc = "none" /\ ~wk[w].quit
      /\ \A n \in Net : /\ net[n].pc = "loop" /\ evfd[n] = 0
                        /\ \A q \in Queues : posted[n][q] = <<>>
      /\ reqq = <<>> /\ listed = {} /\ idle = 0 /\ started = 0 /\ wantQuit = FALSE
      /\ main.pc = "create" /\ main.n = 0
  BY DEF Init, NoWorker, AtLoop, Queues
<1>1. PlaceInv
  <2>1. Holding = {} /\ Range(reqq) = {} /\ \A n \in Net, q \in Queues : Range(posted[n][q]) = {}
    BY <1>0 DEF Holding, Range
  <2>2. IsInjective(reqq) /\ \A n \in Net, q \in Queues : IsInjective(posted[n][q])
    BY <1>0 DEF IsInjective
  <2>3. QueuedOnce
    BY <2>1, <2>2 DEF QueuedOnce, Queues
  <2>4. HeldOnce /\ PushedOnce
    BY <1>0, <2>1 DEF HeldOnce, PushedOnce
  <2> QED BY <2>3, <2>4 DEF PlaceInv
<1>2. CountPart
  <2>1. Idling = {} /\ Serving = {}
    BY <1>0 DEF Idling, IdlePc, Serving
  <2>2. Counted
    BY <1>0, <2>1, CountedSets, FS_EmptySet
  <2>3. ListInv /\ CreatorInv
    BY <1>0 DEF ListInv, Unlisted, CreatorInv
  <2> QED BY <2>2, <2>3 DEF CountPart
<1>3. QuietInv
  BY <1>0 DEF QuietInv, Working
<1>4. StayInv
  BY <1>0 DEF StayInv
<1> QED BY <1>1, <1>2, <1>3, <1>4, ShapeInit, NoticeInit DEF FaioInv

LEMMA FaioInvStep ==
  ASSUME FaioInv, [Next]_vars
  PROVE  FaioInv'
<1> USE DEF FaioInv
<1>1. CASE Next
  <2>1. Shape' /\ QuietInv'
    BY <1>1, ShapeStep, QuietStep
  <2>2. PlaceInv' /\ NoticeInv'
    BY <1>1, TaskEffects, PlaceStep, NoticeStep
  <2>3. CountPart'
    BY <1>1, MainCount, RunCount, NetCount DEF Next
  <2>4. StayInv'
    <3>1. Counted
      BY DEF CountPart
    <3> QED BY <1>1, <3>1, MainStay, RunStay, NetStay DEF Next
  <2> QED BY <2>1, <2>2, <2>3, <2>4
<1>2. CASE UNCHANGED vars
  <2>1. UNCHANGED <<main, reqq, wk, idle, started, wantQuit, listed, net, posted, noticed, evfd>>
    BY <1>2 DEF vars, pool, notes
  <2>2. Shape'
    <3>1. wantQuit' \in BOOLEAN
      BY <2>1, Zenon DEF Shape
    <3> QED BY <2>1, <3>1 DEF Shape
  <2>3. PlaceInv'
    BY <2>1, PlaceFrame
  <2>4. NoticeInv'
    BY <2>1 DEF NoticeInv, NoteInv, CoverInv, ComesTo, Tellers, Writers
  <2>5. CountPart'
    BY <2>1, KeptCount DEF SameCreators, Same
  <2>6. QuietInv'
    BY <2>1 DEF QuietInv
  <2>7. StayInv'
    BY <2>1, StaySame DEF Alive
  <2> QED BY <2>2, <2>3, <2>4, <2>5, <2>6, <2>7
<1> QED BY <1>1, <1>2

LEMMA FaioInvariant == Spec => []FaioInv
  BY FaioInvInit, FaioInvStep, PTL DEF Spec

-----------------------------------------------------------------------------
(* What follows *)

LEMMA AtMostOne ==
  ASSUME NEW S, \A x, y \in S : x = y
  PROVE  Cardinality(S) \in {0, 1} /\ (S = {} => Cardinality(S) = 0)
<1>1. CASE S = {}
  BY <1>1, FS_EmptySet
<1>2. CASE S # {}
  <2>1. PICK x : x \in S
    BY <1>2
  <2>2. S = {x}
    BY <2>1
  <2> QED BY <1>2, <2>2, FS_Singleton
<1> QED BY <1>1, <1>2

LEMMA PlacesApart == Shape /\ PlaceInv => OnePlace
<1> SUFFICES ASSUME Shape, PlaceInv, NEW t \in Task
             PROVE  /\ Cardinality({i \in DOMAIN reqq : reqq[i] = t})
                       + Cardinality({w \in Holding : wk[w].task = t})
                       + Cardinality({p \in {"ok", "bad"} \X (1 .. Cardinality(Task)) :
                                        /\ p[2] \in DOMAIN posted[Owner[t]][p[1]]
                                        /\ posted[Owner[t]][p[1]][p[2]] = t}) <= 1
  BY DEF OnePlace
<1> DEFINE Q == {i \in DOMAIN reqq : reqq[i] = t}
           H == {w \in Holding : wk[w].task = t}
           D == {p \in {"ok", "bad"} \X (1 .. Cardinality(Task)) :
                   /\ p[2] \in DOMAIN posted[Owner[t]][p[1]]
                   /\ posted[Owner[t]][p[1]][p[2]] = t}
<1>0. Owner[t] \in Net
  BY FaioAssumption
<1>1. \A i, j \in Q : i = j
  BY DEF PlaceInv, QueuedOnce, IsInjective
<1>2. \A v, w \in H : v = w
  BY DEF PlaceInv, HeldOnce
<1>3. \A p \in D : /\ p[1] \in Queues /\ p[2] \in DOMAIN posted[Owner[t]][p[1]]
                   /\ posted[Owner[t]][p[1]][p[2]] = t /\ t \in Range(posted[Owner[t]][p[1]])
                   /\ p = <<p[1], p[2]>>
  BY DEF Queues, Range
<1>4. \A p, r \in D : p = r
  <2>1. SUFFICES ASSUME NEW p \in D, NEW r \in D PROVE p = r
    OBVIOUS
  <2>2. p[1] = r[1]
    BY <1>0, <1>3 DEF PlaceInv, QueuedOnce, Queues
  <2>3. p[2] = r[2]
    BY <1>0, <1>3, <2>2 DEF PlaceInv, QueuedOnce, IsInjective
  <2> HIDE DEF D
  <2> QED BY <1>3, <2>2, <2>3
<1>5. Q # {} => H = {} /\ D = {}
  <2>1. SUFFICES ASSUME Q # {} PROVE H = {} /\ D = {}
    OBVIOUS
  <2>2. t \in Range(reqq)
    BY <2>1 DEF Range
  <2>3. H = {}
    BY <2>2 DEF PlaceInv, HeldOnce
  <2>4. ASSUME NEW p \in D PROVE FALSE
    BY <1>0, <1>3, <2>2, <2>4 DEF PlaceInv, QueuedOnce
  <2> QED BY <2>3, <2>4
<1>6. H # {} => D = {}
  <2>1. SUFFICES ASSUME NEW w \in H, NEW p \in D PROVE FALSE
    OBVIOUS
  <2>2. w \in Holding /\ wk[w].task = t
    OBVIOUS
  <2> QED BY <1>0, <1>3, <2>2 DEF PlaceInv, HeldOnce
<1> HIDE DEF Q, H, D
<1>7. /\ Cardinality(Q) \in {0, 1} /\ (Q = {} => Cardinality(Q) = 0)
      /\ Cardinality(H) \in {0, 1} /\ (H = {} => Cardinality(H) = 0)
      /\ Cardinality(D) \in {0, 1} /\ (D = {} => Cardinality(D) = 0)
  BY <1>1, <1>2, <1>4, AtMostOne
<1>8. Cardinality(Q) + Cardinality(H) + Cardinality(D) <= 1
  BY <1>5, <1>6, <1>7
<1> QED BY <1>8 DEF Q, H, D

LEMMA FaioType == FaioInv => TypeOK
<1> SUFFICES ASSUME FaioInv PROVE TypeOK
  OBVIOUS
<1> USE DEF FaioInv
<1>1. main \in [pc : {"create", "list", "register", "up", "quit", "join", "qwait", "released"},
                n : Nat, w : Worker \cup {None}]
  BY DEF Shape, MainPc, StayInv
<1>2. wk \in [Worker -> [pc : {"none", "pop", "exec", "send", "write", "lock", "wait",
                               "timed", "woken", "end"},
                         task : Task \cup Net \cup {None}, quit : BOOLEAN]]
  BY DEF Shape, WorkerRec, WorkerPc
<1>3. idle \in 0 .. Cardinality(Worker) /\ started \in 0 .. Cardinality(Worker)
  <2>1. Idling \subseteq Worker /\ Serving \subseteq Worker /\ IsFiniteSet(Worker)
    BY FaioAssumption DEF Idling, Serving, Shape
  <2>2. /\ Cardinality(Idling) \in Nat /\ Cardinality(Serving) \in Nat /\ Cardinality(Worker) \in Nat
        /\ Cardinality(Idling) <= Cardinality(Worker) /\ Cardinality(Serving) <= Cardinality(Worker)
    BY <2>1, FS_Subset, FS_CardinalityType
  <2> QED BY <2>2, CountedSets DEF CountPart
<1>4. net \in [Net -> [pc : {"loop", "check", "push", "maybe", "create", "list", "reset",
                             "bad", "ok"},
                       task : Task \cup Worker \cup {None}, back : {"loop", "ok"}]]
  BY DEF Shape, NetRec, NetPc
<1>5. posted \in [Net -> [{"ok", "bad"} -> Seq(Task)]] /\ noticed \in [Net -> BOOLEAN]
  BY DEF Shape, Queues
<1>6. evfd \in [Net -> 0 .. 1]
  <2>1. \A n \in Net : evfd[n] \in 0 .. 1
    BY DEF NoticeInv, NoteInv
  <2> QED BY <2>1 DEF Shape
<1>7. wantQuit \in BOOLEAN /\ listed \subseteq Worker /\ reqq \in Seq(Task)
  BY Zenon DEF Shape
<1> QED BY <1>1, <1>2, <1>3, <1>4, <1>5, <1>6, <1>7 DEF TypeOK

\* Wherever network threads and workers interleave, a task is in one place at a
\* time, and a completed one always has a wake-up of its owner under way: the
\* test-and-set of faio_notifier_send and the reset of faio_notifier_receive lose none.
THEOREM WakeupsGiven == Spec => []NoticeGiven
<1>1. FaioInv => NoticeGiven
  <2> SUFFICES ASSUME FaioInv PROVE NoticeGiven
    OBVIOUS
  <2>1. TypeOK /\ OnePlace
    BY FaioType, PlacesApart DEF FaioInv
  <2>2. ASSUME NEW n \in Net, posted[n]["ok"] # <<>> \/ posted[n]["bad"] # <<>>
        PROVE  \/ evfd[n] > 0
               \/ net[n].pc \in {"reset", "bad", "ok"} \/ net[n].back # "loop"
               \/ \E w \in Worker : wk[w].pc \in {"send", "write"} /\ wk[w].task = n
    <3>1. PICK q \in Queues : posted[n][q] # <<>>
      BY <2>2 DEF Queues
    <3>2. ComesTo(n, q) \/ evfd[n] = 1 \/ Tellers(n) # {}
      BY <3>1 DEF FaioInv, NoticeInv, CoverInv
    <3>3. CASE ComesTo(n, q)
      BY <3>3 DEF ComesTo
    <3>4. CASE evfd[n] = 1
      BY <3>4
    <3>5. CASE Tellers(n) # {}
      BY <3>5 DEF Tellers
    <3> QED BY <3>2, <3>3, <3>4, <3>5
  <2> QED BY <2>1, <2>2 DEF NoticeGiven
<1> QED BY <1>1, FaioInvariant, PTL

\* idle and started agree with the threads they count at every step of the pool,
\* and the workers that quit by their own decision in faio_worker_fun never leave
\* the pool empty.
THEOREM WorkersStay == Spec => []SomeStay
<1>1. FaioInv => SomeStay
  BY DEF FaioInv, CountPart, StayInv, SomeStay
<1> QED BY <1>1, FaioInvariant, PTL

-----------------------------------------------------------------------------
(* Implementing AsyncIo *)

Done(t) == t \in Range(posted[Owner[t]]["ok"]) \cup Range(posted[Owner[t]]["bad"])
Pending(t) == t \in Range(reqq) \/ \E w \in Holding : wk[w].task = t

LEMMA StateOf ==
  /\ AsyncIoState = [t \in Task |-> IF Done(t) THEN "done" ELSE IF Pending(t) THEN "pending" ELSE "own"]
  /\ AsyncIoState' = [t \in Task |-> IF Done(t)' THEN "done" ELSE IF Pending(t)' THEN "pending" ELSE "own"]
  BY DEF AsyncIoState, Done, Pending

LEMMA StateSame ==
  ASSUME \A t \in Task : (Done(t)' <=> Done(t)) /\ (Pending(t)' <=> Pending(t))
  PROVE  UNCHANGED AsyncIoState
  BY StateOf

LEMMA StateSteps ==
  ASSUME NEW t \in Task, NEW from, NEW to, AsyncIoState[t] = from, (AsyncIoState')[t] = to,
         \A u \in Task \ {t} : (Done(u)' <=> Done(u)) /\ (Pending(u)' <=> Pending(u))
  PROVE  AIO!Step(t, from, to)
<1>1. \A u \in Task \ {t} : (AsyncIoState')[u] = AsyncIoState[u]
  BY StateOf
<1>2. AsyncIoState' = [AsyncIoState EXCEPT ![t] = to]
  BY <1>1, StateOf
<1> QED BY <1>2 DEF AIO!Step

LEMMA AioStep ==
  ASSUME FaioInv, [Next]_vars
  PROVE  [AIO!Next]_AsyncIoState
<1>0. Shape /\ PlaceInv
  BY DEF FaioInv
<1>f. ASSUME reqq' = reqq, posted' = posted,
             \A w \in Worker : \/ wk'[w].pc = wk[w].pc /\ wk'[w].task = wk[w].task
                               \/ wk[w].pc # "exec" /\ wk'[w].pc # "exec"
      PROVE  UNCHANGED AsyncIoState
  <2>1. \A t \in Task : (\E w \in Holding' : wk'[w].task = t) <=> (\E w \in Holding : wk[w].task = t)
    BY <1>f DEF Holding
  <2> QED BY <1>f, <2>1, StateSame DEF Done, Pending
<1>1. CASE Neutral \/ Looks \/ UNCHANGED vars
  <2>1. /\ reqq' = reqq /\ posted' = posted
        /\ \A w \in Worker : \/ wk'[w].pc = wk[w].pc /\ wk'[w].task = wk[w].task
                             \/ wk[w].pc # "exec" /\ wk'[w].pc # "exec"
    BY <1>1 DEF Neutral, Looks, Working, vars, notes
  <2> QED BY <1>f, <2>1
<1>2. CASE Pops
  <2>1. PICK w \in Worker :
          /\ reqq # <<>> /\ wk[w].pc = "pop" /\ reqq' = Tail(reqq) /\ posted' = posted
          /\ wk' = [wk EXCEPT ![w] = [pc |-> "exec", task |-> Head(reqq), quit |-> FALSE]]
    BY <1>2 DEF Pops
  <2>2. Head(reqq) \in Range(reqq) /\ Range(reqq') = Range(reqq) \ {Head(reqq)}
    <3>1. reqq \in Seq(Task) /\ IsInjective(reqq)
      BY <1>0 DEF Shape, PlaceInv, QueuedOnce
    <3> QED BY <2>1, <3>1, TailRange
  <2>3. /\ Holding' = Holding \cup {w} /\ w \notin Holding /\ wk'[w].task = Head(reqq)
        /\ \A v \in Holding : wk'[v].task = wk[v].task
    BY <1>0, <2>1 DEF Holding, Shape
  <2>4. \A t \in Task : (Done(t)' <=> Done(t)) /\ (Pending(t)' <=> Pending(t))
    BY <2>1, <2>2, <2>3 DEF Done, Pending
  <2> QED BY <2>4, StateSame
<1>3. CASE Pushes
  <2>1. PICK n \in Net : /\ net[n].pc = "push" /\ reqq' = Append(reqq, net[n].task)
                         /\ wk' = wk /\ posted' = posted
    BY <1>3 DEF Pushes
  <2>2. PICK t \in Task : t = net[n].task
    BY <1>0, <2>1 DEF Shape
  <2>3. /\ t \notin Range(reqq) /\ \A w \in Holding : wk[w].task # t
        /\ \A m \in Net, q \in Queues : t \notin Range(posted[m][q])
    BY <1>0, <2>1, <2>2 DEF PlaceInv, PushedOnce
  <2>4. Range(reqq') = Range(reqq) \cup {t}
    <3>1. reqq \in Seq(Task) /\ IsInjective(reqq)
      BY <1>0 DEF Shape, PlaceInv, QueuedOnce
    <3> QED BY <2>1, <2>2, <2>3, <3>1, AppendRange
  <2>5. ~Done(t) /\ ~Pending(t) /\ ~Done(t)' /\ Pending(t)'
    BY <2>1, <2>3, <2>4, FaioAssumption DEF Done, Pending, Queues
  <2>6. \A u \in Task \ {t} : (Done(u)' <=> Done(u)) /\ (Pending(u)' <=> Pending(u))
    BY <2>1, <2>4 DEF Done, Pending, Holding
  <2>7. AsyncIoState[t] = "own" /\ (AsyncIoState')[t] = "pending"
    BY <2>5, StateOf
  <2> QED BY <2>6, <2>7, StateSteps DEF AIO!Next, AIO!Submit
<1>4. ASSUME NEW w \in Worker, faio_handler_exec(w) PROVE AIO!Next
  <2>1. PICK t \in Task : t = wk[w].task
    BY <1>0, <1>4 DEF faio_handler_exec, Shape
  <2>2. PICK q \in Queues : posted' = [posted EXCEPT ![Owner[t]][q] = Append(@, t)]
    BY <1>4, <2>1 DEF faio_handler_exec, Queues
  <2>3. /\ reqq' = reqq /\ wk[w].pc = "exec" /\ w \in Holding /\ Owner[t] \in Net
        /\ wk' = [wk EXCEPT ![w].pc = "send", ![w].task = Owner[@]]
    BY <1>4, FaioAssumption DEF faio_handler_exec, Holding
  <2>4. /\ t \notin Range(reqq) /\ \A m \in Net, p \in Queues : t \notin Range(posted[m][p])
        /\ \A v \in Holding \ {w} : wk[v].task # t
    BY <1>0, <2>1, <2>3 DEF PlaceInv, HeldOnce
  <2>5. Range(posted'[Owner[t]][q]) = Range(posted[Owner[t]][q]) \cup {t}
    <3>1. posted[Owner[t]][q] \in Seq(Task) /\ IsInjective(posted[Owner[t]][q])
      BY <1>0, <2>3 DEF Shape, PlaceInv, QueuedOnce
    <3>2. posted'[Owner[t]][q] = Append(posted[Owner[t]][q], t)
      BY <1>0, <2>2, <2>3 DEF Shape
    <3> QED BY <2>3, <2>4, <3>1, <3>2, AppendRange
  <2>6. \A m \in Net, p \in Queues : m # Owner[t] \/ p # q => posted'[m][p] = posted[m][p]
    BY <1>0, <2>2, <2>3 DEF Shape
  <2>7. /\ Holding' = Holding \ {w} /\ \A v \in Holding \ {w} : wk'[v] = wk[v]
    BY <1>0, <2>3 DEF Holding, Shape, WorkerRec
  <2>8. ~Done(t) /\ Pending(t) /\ Done(t)'
    BY <2>1, <2>3, <2>4, <2>5 DEF Done, Pending, Queues
  <2>9. ASSUME NEW u \in Task \ {t} PROVE (Done(u)' <=> Done(u)) /\ (Pending(u)' <=> Pending(u))
    <3>1. \A m \in Net, p \in Queues : u \in Range(posted'[m][p]) <=> u \in Range(posted[m][p])
      BY <2>5, <2>6
    <3>2. Owner[u] \in Net
      BY FaioAssumption
    <3>3. Done(u)' <=> Done(u)
      BY <3>1, <3>2 DEF Done, Queues
    <3>4. Pending(u)' <=> Pending(u)
      BY <2>1, <2>3, <2>7 DEF Pending
    <3> QED BY <3>3, <3>4
  <2>10. AsyncIoState[t] = "pending" /\ (AsyncIoState')[t] = "done"
    BY <2>8, StateOf
  <2> QED BY <2>9, <2>10, StateSteps DEF AIO!Next, AIO!Finish
<1>5. ASSUME NEW n \in Net, HandlerDone(n) \/ HandlerAgain(n) PROVE AIO!Next
  <2>1. PICK q \in Queues : Take(n, q)
    BY <1>5 DEF HandlerDone, HandlerAgain, Queues
  <2>2. PICK h \in Task :
          /\ Owner[h] = n /\ h \in Range(posted[n][q])
          /\ h \notin Range(reqq) /\ \A w \in Holding : wk[w].task # h
          /\ \A m \in Net, p \in Queues : Range(posted'[m][p]) = Range(posted[m][p]) \ {h}
    BY <1>0, <2>1, TakePlace
  <2>3. reqq' = reqq /\ wk' = wk
    BY <2>1 DEF Take
  <2>4. Done(h) /\ ~Done(h)' /\ ~Pending(h)'
    BY <2>2, <2>3 DEF Done, Pending, Queues, Holding
  <2>5. ASSUME NEW u \in Task \ {h} PROVE (Done(u)' <=> Done(u)) /\ (Pending(u)' <=> Pending(u))
    <3>1. Owner[u] \in Net
      BY FaioAssumption
    <3>2. Done(u)' <=> Done(u)
      BY <2>2, <3>1 DEF Done, Queues
    <3>3. Pending(u)' <=> Pending(u)
      BY <2>3 DEF Pending, Holding
    <3> QED BY <3>2, <3>3
  <2>6. AsyncIoState[h] = "done" /\ (AsyncIoState')[h] = "own"
    BY <2>4, StateOf
  <2> QED BY <2>5, <2>6, StateSteps DEF AIO!Next, AIO!Handle
<1>6. ASSUME NEW w \in Worker, faio_notifier_send(w) PROVE UNCHANGED AsyncIoState
  <2>1. reqq' = reqq /\ posted' = posted
    BY <1>6 DEF faio_notifier_send
  <2>2. \A v \in Worker : \/ wk'[v].pc = wk[v].pc /\ wk'[v].task = wk[v].task
                          \/ wk[v].pc # "exec" /\ wk'[v].pc # "exec"
    <3>1. /\ wk[w].pc \in {"send", "write"}
          /\ \/ wk' = [wk EXCEPT ![w].pc = "write"]
             \/ wk' = [wk EXCEPT ![w].pc = "pop", ![w].task = None]
      BY <1>6 DEF faio_notifier_send, WorkerAt
    <3>2. wk'[w].pc \in {"write", "pop"} /\ \A v \in Worker : v # w => wk'[v] = wk[v]
      BY <1>0, <3>1 DEF Shape, WorkerRec
    <3> QED BY <3>1, <3>2
  <2> QED BY <1>f, <2>1, <2>2
<1>7. ASSUME NEW n \in Net, faio_notifier_receive(n) \/ \E t \in Task : cfs_write(n, t)
      PROVE  UNCHANGED AsyncIoState
  BY <1>f, <1>7 DEF faio_notifier_receive, cfs_write, notes
<1>8. TaskEffect \/ UNCHANGED vars
  BY <1>0, TaskEffects
<1> QED BY <1>1, <1>2, <1>3, <1>4, <1>5, <1>6, <1>7, <1>8 DEF TaskEffect

\* The pool implements what the network threads expect of asynchronous I/O, as far
\* as safety goes: a task moves only from its owner to pending, when the owner
\* pushes it, from there to done, once, in faio_handler_exec, and back when its
\* owner's ioevents_process_posted calls the handler.
THEOREM FaioImplementsAsyncIo == Spec => AIO!Init /\ [][AIO!Next]_AsyncIoState
<1>1. Init => AIO!Init
  <2> SUFFICES ASSUME Init PROVE AIO!Init
    OBVIOUS
  <2>1. /\ reqq = <<>> /\ \A n \in Net : posted[n]["ok"] = <<>> /\ posted[n]["bad"] = <<>>
        /\ Holding = {}
    BY DEF Init, Holding, NoWorker
  <2>2. \A t \in Task : ~Done(t) /\ ~Pending(t)
    BY <2>1, FaioAssumption DEF Done, Pending, Range
  <2> QED BY <2>2, StateOf DEF AIO!Init
<1> QED BY <1>1, AioStep, FaioInvariant, PTL DEF Spec
=============================================================================
