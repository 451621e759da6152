----------------------------- MODULE Namespace -----------------------------
(***************************************************************************)
(* What the file index promises: a tree of directories and closed files.   *)
(* An entry appears under a directory that is there, and whatever removes  *)
(* an entry removes all that lies below it, and nothing else.              *)
(***************************************************************************)
EXTENDS Naturals, Sequences

CONSTANTS Key, Root, Path

VARIABLE ns      \* ns[k]: what path k names

Above(k) == IF k = Root THEN Root ELSE Path[k][Len(Path[k]) - 1]

Below(k) == {x \in Key : \E i \in DOMAIN Path[x] : Path[x][i] = k}  \* k included

Init == ns = [k \in Key |-> "absent"]

Add(k, t) ==
  /\ ns[k] = "absent"
  /\ \/ k = Root /\ t = "dir"
     \/ k # Root /\ ns[Above(k)] = "dir"
  /\ ns' = [ns EXCEPT ![k] = t]

Remove(k) ==
  /\ ns[k] # "absent"
  /\ ns' = [x \in Key |-> IF x \in Below(k) THEN "absent" ELSE ns[x]]

Next == \E k \in Key : Remove(k) \/ \E t \in {"dir", "file"} : Add(k, t)

Spec == Init /\ [][Next]_ns
=============================================================================
