------------------------------ MODULE AsyncIo ------------------------------
(***************************************************************************)
(* What the network threads of a datanode expect of asynchronous file I/O: *)
(* a task that was handed over is carried out once, after which its        *)
(* completion handler is called once, in the thread that owns the task.    *)
(***************************************************************************)
CONSTANT Task

VARIABLE st     \* st[t]: "own" (its owner's), "pending" or "done"

Init == st = [t \in Task |-> "own"]

Step(t, from, to) == st[t] = from /\ st' = [st EXCEPT ![t] = to]

Submit(t) == Step(t, "own", "pending")

Finish(t) == Step(t, "pending", "done")

Handle(t) == Step(t, "done", "own")

Next == \E t \in Task : Submit(t) \/ Finish(t) \/ Handle(t)

Spec == /\ Init /\ [][Next]_st
        /\ \A t \in Task : WF_st(Finish(t)) /\ WF_st(Handle(t))
=============================================================================
