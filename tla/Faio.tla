-------------------------------- MODULE Faio --------------------------------
(***************************************************************************)
(* Asynchronous file I/O of the datanode (faio/, cfs/cfs_faio.c, cfs.c):   *)
(* network threads put tasks in one request queue, a pool of worker        *)
(* threads, which grows with the queue and shrinks when idle, carries them *)
(* out and posts each to its owner's queue, and an eventfd per network     *)
(* thread, written only when it is not already noticed, wakes the owner.   *)
(*                                                                         *)
(* A task is a file_io_t with its faio_data_task_t.  A step is one         *)
(* critical section or one atomic operation.  Only a failure during        *)
(* start-up releases the pool (the second release that faio_manager_init   *)
(* then asks for finds no worker), and no task is ever cancelled.  The     *)
(* notifier's count of tasks, which only its own release would read, and   *)
(* spurious wake-ups are left out: no code releases a notifier.            *)
(***************************************************************************)
EXTENDS Integers, Sequences, FiniteSets, SequencesExt

CONSTANTS
  Net,        \* network threads, one notifier each
  Task,
  Owner,      \* Owner[t]: the network thread of task t
  Worker,     \* faio_worker_thread_t objects
  MaxThread, MaxIdle, PreStart,   \* the properties of the pool
  MaxQue      \* max_size of the request queue

ASSUME FaioAssumption ==
  /\ Owner \in [Task -> Net]
  /\ MaxThread \in Nat \ {0}
  /\ MaxIdle \in 1 .. MaxThread /\ PreStart \in 1 .. MaxThread
  /\ MaxQue \in Nat \ {0}
  /\ IsFiniteSet(Worker) /\ IsFiniteSet(Net) /\ IsFiniteSet(Task)

VARIABLES
  main,       \* the thread that runs cfs_faio_ioinit
  reqq,       \* req_queue
  wk,         \* wk[w]: where worker w stands, its req or notifier, and to_quit
  idle, started, wantQuit,   \* worker_mgr
  listed,     \* worker_queue
  net,        \* net[n]: where network thread n stands, with which task
  posted,     \* posted[n]["ok"], posted[n]["bad"]: io_events of thread n
  noticed,    \* noticed[n]: its notifier's flag
  evfd        \* evfd[n]: the counter of its eventfd

pool == <<idle, started, wantQuit, listed>>
notes == <<posted, noticed, evfd>>
vars == <<main, reqq, wk, pool, net, notes>>

None == "none"
NoWorker == [pc |-> "none", task |-> None, quit |-> FALSE]
AtLoop == [pc |-> "loop", task |-> None, back |-> "loop"]

TypeOK ==
  /\ main \in [pc : {"create", "list", "register", "up", "quit", "join", "qwait", "released"},
               n : Nat, w : Worker \cup {None}]
  /\ reqq \in Seq(Task)
  /\ wk \in [Worker -> [pc : {"none", "pop", "exec", "send", "write", "lock", "wait",
                              "timed", "woken", "end"},
                        task : Task \cup Net \cup {None}, quit : BOOLEAN]]
  /\ idle \in 0 .. Cardinality(Worker) /\ started \in 0 .. Cardinality(Worker)
  /\ wantQuit \in BOOLEAN /\ listed \subseteq Worker
  /\ net \in [Net -> [pc : {"loop", "check", "push", "maybe", "create", "list", "reset",
                            "bad", "ok"},
                      task : Task \cup Worker \cup {None}, back : {"loop", "ok"}]]
  /\ posted \in [Net -> [{"ok", "bad"} -> Seq(Task)]]
  /\ noticed \in [Net -> BOOLEAN] /\ evfd \in [Net -> 0 .. 1]

Init ==
  /\ main = [pc |-> "create", n |-> 0, w |-> None]
  /\ reqq = <<>>
  /\ wk = [w \in Worker |-> NoWorker]
  /\ idle = 0 /\ started = 0 /\ wantQuit = FALSE /\ listed = {}
  /\ net = [n \in Net |-> AtLoop]
  /\ posted = [n \in Net |-> [q \in {"ok", "bad"} |-> <<>>]]
  /\ noticed = [n \in Net |-> FALSE] /\ evfd = [n \in Net |-> 0]
-----------------------------------------------------------------------------
(* Helpers. *)

\* pthread_cond_signal(worker_wait): one of the waiting workers, if any, is woken.
Asleep == {w \in Worker : wk[w].pc \in {"wait", "timed"}}
faio_cond_signal ==
  IF Asleep = {} THEN UNCHANGED wk
  ELSE \E w \in Asleep : wk' = [wk EXCEPT ![w].pc = "woken"]

\* pthread_create: the new worker runs at once, before it is listed and counted.
Unused == {w \in Worker : wk[w].pc = "none" /\ w \notin listed}
faio_worker_create_thread(w) ==
  /\ w = CHOOSE v \in Unused : TRUE
  /\ wk' = [wk EXCEPT ![w] = [pc |-> "pop", task |-> None, quit |-> FALSE]]

\* The second half of faio_worker_start_thread.
ListWorker(w) ==
  /\ listed' = listed \cup {w} /\ started' = started + 1
  /\ UNCHANGED <<idle, wantQuit>>
-----------------------------------------------------------------------------
(* Start-up: cfs_faio_ioinit. *)

\* One turn of the loop over pre_start; a failing pthread_create releases the pool.
faio_worker_manager_init ==
  /\ main.pc = "create"
  /\ \/ /\ main.n < PreStart
        /\ \E w \in Unused :
             faio_worker_create_thread(w) /\ main' = [main EXCEPT !.pc = "list", !.w = w]
     \/ main.n < PreStart /\ main' = [main EXCEPT !.pc = "quit"] /\ UNCHANGED wk
     \/ main.n = PreStart /\ main' = [main EXCEPT !.pc = "register"] /\ UNCHANGED wk
  /\ UNCHANGED <<reqq, pool, net, notes>>

main_list ==
  /\ main.pc = "list"
  /\ ListWorker(main.w)
  /\ main' = [pc |-> "create", n |-> main.n + 1, w |-> None]
  /\ UNCHANGED <<reqq, wk, net, notes>>

\* The handlers are registered and the network threads started, or the pool is
\* released.
cfs_faio_ioinit ==
  /\ main.pc = "register"
  /\ \E to \in {"up", "quit"} : main' = [pc |-> to, n |-> 0, w |-> None]
  /\ UNCHANGED <<reqq, wk, pool, net, notes>>

\* Mutant: the loop sends one signal too few.
faio_worker_quit_thread_Few ==
  /\ main.pc = "quit"
  /\ \/ /\ ~wantQuit
        /\ wantQuit' = TRUE /\ main' = [main EXCEPT !.n = started]
        /\ UNCHANGED <<wk, idle, started, listed>>
     \/ /\ wantQuit /\ main.n > 1
        /\ faio_cond_signal
        /\ main' = [main EXCEPT !.n = @ - 1]
        /\ UNCHANGED pool
     \/ /\ wantQuit /\ main.n <= 1
        /\ main' = [main EXCEPT !.pc = "join"]
        /\ UNCHANGED <<wk, pool>>
  /\ UNCHANGED <<reqq, net, notes>>

\* want_quit is set and one signal sent per worker counted then.
faio_worker_quit_thread ==
  /\ main.pc = "quit"
  /\ \/ /\ ~wantQuit
        /\ wantQuit' = TRUE /\ main' = [main EXCEPT !.n = started]
        /\ UNCHANGED <<wk, idle, started, listed>>
     \/ /\ wantQuit /\ main.n > 0
        /\ faio_cond_signal
        /\ main' = [main EXCEPT !.n = @ - 1]
        /\ UNCHANGED pool
     \/ /\ wantQuit /\ main.n = 0
        /\ main' = [main EXCEPT !.pc = "join"]
        /\ UNCHANGED <<wk, pool>>
  /\ UNCHANGED <<reqq, net, notes>>

\* Waits until worker_queue is empty.
faio_worker_manager_release ==
  /\ main.pc = "join"
  /\ main' = [main EXCEPT !.pc = IF listed = {} THEN "released" ELSE "qwait"]
  /\ UNCHANGED <<reqq, wk, pool, net, notes>>
-----------------------------------------------------------------------------
(* Worker w: faio_worker_fun. *)

WorkerAt(w, from, to) == wk[w].pc = from /\ wk' = [wk EXCEPT ![w].pc = to]

faio_data_pop_req(w) ==
  /\ \/ /\ reqq # <<>> /\ wk[w].pc = "pop"
        /\ wk' = [wk EXCEPT ![w] = [pc |-> "exec", task |-> Head(reqq), quit |-> FALSE]]
        /\ reqq' = Tail(reqq)
     \/ reqq = <<>> /\ WorkerAt(w, "pop", "lock") /\ UNCHANGED reqq
  /\ UNCHANGED <<main, pool, net, notes>>

\* pread, pwrite or sendfile, after which faio_ret is negative or not, and
\* cfs_faio_read_callback, from which on the task is the owner's again and the
\* worker knows only its notifier.
faio_handler_exec(w) ==
  /\ wk[w].pc = "exec"
  /\ wk' = [wk EXCEPT ![w].pc = "send", ![w].task = Owner[@]]
  /\ \E q \in {"ok", "bad"} :
       posted' = [posted EXCEPT ![Owner[wk[w].task]][q] = Append(@, wk[w].task)]
  /\ UNCHANGED <<main, reqq, pool, net, noticed, evfd>>

\* atomic_test_and_set, then the write if it was not set.
faio_notifier_send(w) ==
  LET n == wk[w].task
      Done(from) == wk[w].pc = from /\ wk' = [wk EXCEPT ![w].pc = "pop", ![w].task = None]
  IN
  /\ wk[w].pc \in {"send", "write"}
  /\ \/ /\ ~noticed[n] /\ WorkerAt(w, "send", "write")
        /\ noticed' = [noticed EXCEPT ![n] = TRUE]
        /\ UNCHANGED evfd
     \/ noticed[n] /\ Done("send") /\ UNCHANGED <<noticed, evfd>>
     \/ /\ Done("write")
        /\ evfd' = [evfd EXCEPT ![n] = @ + 1]
        /\ UNCHANGED noticed
  /\ UNCHANGED <<main, reqq, pool, net, posted>>

\* Mutant: a worker that timed out quits, however many others are idle.
worker_idle_Quit(w) ==
  LET quits == wantQuit \/ wk[w].quit IN
  /\ \/ /\ quits /\ WorkerAt(w, "lock", "end")
        /\ started' = started - 1 /\ UNCHANGED idle
     \/ /\ ~quits /\ reqq # <<>> /\ WorkerAt(w, "lock", "pop")
        /\ UNCHANGED <<idle, started>>
     \/ /\ ~quits /\ reqq = <<>>
        /\ WorkerAt(w, "lock", IF idle + 1 <= MaxIdle THEN "wait" ELSE "timed")
        /\ idle' = idle + 1 /\ UNCHANGED started
  /\ UNCHANGED <<main, reqq, wantQuit, listed, net, notes>>

\* Mutant: the size is not looked at again under the lock.
worker_idle_NoRecheck(w) ==
  LET quits == wantQuit \/ (wk[w].quit /\ idle >= MaxIdle) IN
  /\ \/ /\ quits /\ WorkerAt(w, "lock", "end")
        /\ started' = started - 1 /\ UNCHANGED idle
     \/ /\ ~quits
        /\ WorkerAt(w, "lock", IF idle + 1 <= MaxIdle THEN "wait" ELSE "timed")
        /\ idle' = idle + 1 /\ UNCHANGED started
  /\ UNCHANGED <<main, reqq, wantQuit, listed, net, notes>>

\* The critical section after the queue was found empty: quit, look again, or
\* wait; within max_idle without a time limit.
worker_idle(w) ==
  LET quits == wantQuit \/ (wk[w].quit /\ idle >= MaxIdle) IN
  /\ \/ /\ quits /\ WorkerAt(w, "lock", "end")
        /\ started' = started - 1 /\ UNCHANGED idle
     \/ /\ ~quits /\ reqq # <<>> /\ WorkerAt(w, "lock", "pop")
        /\ UNCHANGED <<idle, started>>
     \/ /\ ~quits /\ reqq = <<>>
        /\ WorkerAt(w, "lock", IF idle + 1 <= MaxIdle THEN "wait" ELSE "timed")
        /\ idle' = idle + 1 /\ UNCHANGED started
  /\ UNCHANGED <<main, reqq, wantQuit, listed, net, notes>>

\* The idle timeout (5 s) is taken to be longer than a thread needs from
\* pthread_create to listing the worker it made.
idle_timeout(w) ==
  /\ w \in listed /\ wk[w].pc = "timed"
  /\ wk' = [wk EXCEPT ![w].pc = "woken", ![w].quit = TRUE]
  /\ UNCHANGED <<main, reqq, pool, net, notes>>

worker_resume(w) ==
  /\ WorkerAt(w, "woken", "pop")
  /\ idle' = idle - 1
  /\ UNCHANGED <<main, reqq, started, wantQuit, listed, net, notes>>

\* quit_wait is signalled before the worker leaves worker_queue, under one lock.
faio_worker_end_thread(w) ==
  /\ wk[w].pc = "end" /\ wk' = [wk EXCEPT ![w] = NoWorker]
  /\ listed' = listed \ {w}
  /\ main' = IF main.pc = "qwait" /\ wantQuit /\ started = 0
               THEN [main EXCEPT !.pc = "join"] ELSE main
  /\ UNCHANGED <<reqq, idle, started, wantQuit, net, notes>>

Run(w) ==
  \/ faio_data_pop_req(w) \/ faio_handler_exec(w) \/ faio_notifier_send(w)
  \/ worker_idle(w) \/ idle_timeout(w) \/ worker_resume(w) \/ faio_worker_end_thread(w)
-----------------------------------------------------------------------------
(* Network thread n. *)

NetAt(n, from, to) == net[n].pc = from /\ net' = [net EXCEPT ![n].pc = to]
Return(n) == net' = [net EXCEPT ![n] = [pc |-> @.back, task |-> None, back |-> "loop"]]

\* Tasks that are neither pending nor posted.
Busy == Range(reqq) \cup {wk[w].task : w \in {v \in Worker : wk[v].pc = "exec"}}
        \cup UNION {Range(posted[n][q]) : n \in Net, q \in {"ok", "bad"}}
Own(n) == {t \in Task : Owner[t] = n} \ Busy

\* An event handler of a connection calls cfs_write or cfs_sendfile_chain.
cfs_write(n, t) ==
  /\ main.pc = "up" /\ net[n].pc = "loop" /\ t \in Own(n)
  /\ net' = [net EXCEPT ![n] = [pc |-> "check", task |-> t, back |-> "loop"]]
  /\ UNCHANGED <<main, reqq, wk, pool, notes>>

\* The size is tested without the lock of the queue.
faio_data_push_task(n) ==
  /\ net[n].pc = "check"
  /\ \/ Len(reqq) >= MaxQue /\ Return(n)
     \/ Len(reqq) < MaxQue /\ NetAt(n, "check", "push")
  /\ UNCHANGED <<main, reqq, wk, pool, notes>>

faio_data_push_req(n) ==
  /\ NetAt(n, "push", "maybe")
  /\ reqq' = Append(reqq, net[n].task)
  /\ UNCHANGED <<main, wk, pool, notes>>

\* The test of the size before the lock decides nothing that the one under it
\* would not.  A signal if a worker is idle, and the decision to start another one,
\* which is acted on after the unlock.
faio_worker_maybe_start_thread(n) ==
  /\ net[n].pc = "maybe"
  /\ IF reqq # <<>> /\ idle > 0 THEN faio_cond_signal ELSE UNCHANGED wk
  /\ IF reqq # <<>> /\ started < MaxThread /\ Len(reqq) > started
       THEN NetAt(n, "maybe", "create") ELSE Return(n)
  /\ UNCHANGED <<main, reqq, pool, notes>>

faio_worker_start_thread(n) ==
  \/ /\ net[n].pc = "create"
     /\ \/ \E w \in Unused : /\ faio_worker_create_thread(w)
                             /\ net' = [net EXCEPT ![n].pc = "list", ![n].task = w]
        \/ Return(n) /\ UNCHANGED wk
     /\ UNCHANGED <<main, reqq, pool, notes>>
  \/ /\ net[n].pc = "list"
     /\ ListWorker(net[n].task) /\ Return(n)
     /\ UNCHANGED <<main, reqq, wk, notes>>

\* Mutant: noticed is not reset.
faio_notifier_receive_NoReset(n) ==
  /\ \/ /\ evfd[n] > 0 /\ NetAt(n, "loop", "reset")
        /\ evfd' = [evfd EXCEPT ![n] = 0]
     \/ NetAt(n, "reset", "bad") /\ UNCHANGED evfd
  /\ UNCHANGED <<main, reqq, wk, pool, posted, noticed>>

\* dio_event_handler: epoll reports the eventfd; it is read, then noticed reset.
faio_notifier_receive(n) ==
  /\ \/ /\ evfd[n] > 0 /\ NetAt(n, "loop", "reset")
        /\ evfd' = [evfd EXCEPT ![n] = 0] /\ UNCHANGED noticed
     \/ /\ NetAt(n, "reset", "bad")
        /\ noticed' = [noticed EXCEPT ![n] = FALSE] /\ UNCHANGED evfd
  /\ UNCHANGED <<main, reqq, wk, pool, posted>>

\* thread_event_process looks at the posted queues at the end of every turn, too,
\* which epoll_wait delays by at most 10 ms.  A look that finds both empty, and so
\* does nothing, is left out.
cfs_ioevents_process_posted(n) ==
  /\ \E q \in {"bad", "ok"} : posted[n][q] # <<>>
  /\ NetAt(n, "loop", "bad")
  /\ UNCHANGED <<main, reqq, wk, pool, notes>>

\* One turn of ioevents_process_posted(q): the first task is taken and its handler
\* called (block_write_complete, block_read_complete), which is done with the task
\* or, if it succeeded, submits it again; an empty queue ends the loop.
Take(n, q) ==
  /\ net[n].pc = q /\ posted[n][q] # <<>>
  /\ posted' = [posted EXCEPT ![n][q] = Tail(@)]
  /\ UNCHANGED <<main, reqq, wk, pool, noticed, evfd>>
HandlerDone(n) == \E q \in {"bad", "ok"} : Take(n, q) /\ UNCHANGED net
HandlerAgain(n) ==
  /\ Take(n, "ok")
  /\ net' = [net EXCEPT ![n] = [pc |-> "check", task |-> Head(posted[n]["ok"]), back |-> "ok"]]
ioevents_process_posted(n) ==
  \/ HandlerDone(n) \/ HandlerAgain(n)
  \/ /\ \E q \in {"bad", "ok"} :
          posted[n][q] = <<>> /\ NetAt(n, q, IF q = "bad" THEN "ok" ELSE "loop")
     /\ UNCHANGED <<main, reqq, wk, pool, notes>>

NetStep(n) ==
  \/ faio_data_push_task(n) \/ faio_data_push_req(n)
  \/ faio_worker_maybe_start_thread(n) \/ faio_worker_start_thread(n)
  \/ faio_notifier_receive(n) \/ cfs_ioevents_process_posted(n) \/ ioevents_process_posted(n)

MainStep ==
  \/ faio_worker_manager_init \/ main_list \/ cfs_faio_ioinit
  \/ faio_worker_quit_thread \/ faio_worker_manager_release

Next ==
  \/ MainStep
  \/ \E w \in Worker : Run(w)
  \/ \E n \in Net : NetStep(n) \/ \E t \in Task : cfs_write(n, t)

\* Threads go on running and time passes; every turn of a network thread's loop
\* ends with a look at its posted queues, however many events it handles; and a
\* transfer ends: a block has finitely many pieces and its client goes on reading,
\* without which block_read_complete submits the same task again for ever.
Fairness ==
  /\ WF_vars(MainStep)
  /\ \A w \in Worker : WF_vars(Run(w))
  /\ \A n \in Net : /\ WF_vars(NetStep(n))
                    /\ SF_vars(cfs_ioevents_process_posted(n)) /\ SF_vars(HandlerDone(n))

Spec == Init /\ [][Next]_vars /\ Fairness
-----------------------------------------------------------------------------
(* Properties. *)

\* A task is in one place at a time: the request queue, a worker, or a posted
\* queue of its owner.  The worker hands it back in its callback and must not touch
\* it, nor the owner submit it again, on any interleaving (faio_worker_fun).
Holding == {w \in Worker : wk[w].pc = "exec"}
OnePlace ==
  \A t \in Task :
    LET queued == Cardinality({i \in DOMAIN reqq : reqq[i] = t})
        held   == Cardinality({w \in Holding : wk[w].task = t})
        done   == Cardinality({p \in {"ok", "bad"} \X (1 .. Cardinality(Task)) :
                                 /\ p[2] \in DOMAIN posted[Owner[t]][p[1]]
                                 /\ posted[Owner[t]][p[1]][p[2]] = t})
    IN queued + held + done <= 1

\* The counters that decide over signals, new workers and quitting agree with the
\* threads they count, although a worker runs before it is counted and goes on
\* after it has counted itself out.
Counted ==
  /\ idle = Cardinality({w \in Worker : wk[w].pc \in {"wait", "timed", "woken"}})
  /\ started = Cardinality({w \in listed : wk[w].pc # "end"})

\* A task is in one place at a time, and a completed one is never left without a
\* wake-up of its owner: the eventfd is readable, a worker is about to write to it,
\* or the owner is on its way to the queue (faio_notifier_send and
\* faio_notifier_receive share noticed).
NoticeGiven ==
  /\ TypeOK /\ OnePlace
  /\ \A n \in Net :
       (posted[n]["ok"] # <<>> \/ posted[n]["bad"] # <<>>) =>
         \/ evfd[n] > 0
         \/ net[n].pc \in {"reset", "bad", "ok"} \/ net[n].back # "loop"
         \/ \E w \in Worker : wk[w].pc \in {"send", "write"} /\ wk[w].task = n

\* Every task that was accepted is carried out and handed back to its owner, which
\* calls its handler: the pool implements AsyncIo.
AsyncIoState ==
  [t \in Task |->
    IF t \in Range(posted[Owner[t]]["ok"]) \cup Range(posted[Owner[t]]["bad"]) THEN "done"
    ELSE IF t \in Range(reqq) \/ \E w \in Holding : wk[w].task = t THEN "pending"
    ELSE "own"]
AIO == INSTANCE AsyncIo WITH st <- AsyncIoState
AsyncIoSpec == AIO!Spec

\* A pool that is released during start-up ends all its workers
\* (faio_worker_quit_thread, faio_worker_end_thread).
ReleaseEnds == (main.pc = "quit") ~> (main.pc = "released" /\ \A w \in Worker : wk[w].pc = "none")

\* Idle workers beyond max_idle quit on their own decision, each by the counters it
\* reads under the lock: the counters stay right, and whichever workers time out
\* together, one always stays.
SomeStay ==
  /\ Counted
  /\ main.pc = "up" => \E w \in Worker : wk[w].pc \notin {"none", "end"}
=============================================================================
