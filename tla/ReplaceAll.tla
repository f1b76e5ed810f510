------------------------------ MODULE ReplaceAll ------------------------------
(***************************************************************************)
(* What a replace_all restore promises its user, whatever its steps are:   *)
(* the live rows change from the old data set to the imported one at once  *)
(* or not at all, and the reply tells which.  Only rows that CRUD requests *)
(* wrote may stay next to the imported ones.                               *)
(***************************************************************************)
CONSTANTS Restores, Writers, Seed

Origin == Restores \cup Writers \cup {Seed}
Item == [kind : {"bookmark", "folder"}, by : Origin]
DataSet(o) == {x \in Item : x.by = o}

VARIABLES
  live,     \* the rows the user sees
  result    \* what restore r has told: nothing yet, its result, or it is gone

vars == <<live, result>>

Init ==
  /\ live = DataSet(Seed)
  /\ result = [r \in Restores |-> "running"]

\* The swap; the Worker may be gone before it can tell.
Swap(r) ==
  /\ result[r] = "running"
  /\ \E kept \in SUBSET live :
       /\ \A x \in kept : x.by \in Writers
       /\ live' = DataSet(r) \cup kept
  /\ \E told \in {"ok", "silent"} : result' = [result EXCEPT ![r] = told]

GiveUp(r) ==
  /\ result[r] = "running"
  /\ \E told \in {"failed", "silent"} : result' = [result EXCEPT ![r] = told]
  /\ live' = live

Write(w) ==
  /\ \E new \in SUBSET DataSet(w) : live' = live \cup new
  /\ result' = result

Remove ==
  /\ \E gone \in SUBSET live : live' = live \ gone
  /\ result' = result

Next ==
  \/ \E r \in Restores : Swap(r) \/ GiveUp(r)
  \/ \E w \in Writers : Write(w)
  \/ Remove

Spec == Init /\ [][Next]_vars
=============================================================================
