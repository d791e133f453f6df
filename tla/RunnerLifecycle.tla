--------------------------- MODULE RunnerLifecycle ---------------------------
(***************************************************************************)
(* What the runner manager promises about one runner, whatever fails or    *)
(* crashes inside it: an instance is deleted only while its row is in the  *)
(* database, the row goes only when the instance has gone, and neither     *)
(* comes back.                                                             *)
(***************************************************************************)
CONSTANT Runner

VARIABLES
  record,     \* record[r] is none, running or removed
  instances   \* the runners that have an instance

Init ==
  /\ record = [r \in Runner |-> "none"]
  /\ instances = Runner

Changes(r, from, to) ==
  /\ record[r] = from
  /\ record' = [record EXCEPT ![r] = to]
  /\ UNCHANGED instances

\* The starter records the runner.
Record(r) == Changes(r, "none", "running")

\* The provider deletes the instance.
Destroy(r) ==
  /\ record[r] = "running" /\ r \in instances
  /\ instances' = instances \ {r}
  /\ UNCHANGED record

\* The row goes.
Erase(r) == r \notin instances /\ Changes(r, "running", "removed")

Next == \E r \in Runner : Record(r) \/ Destroy(r) \/ Erase(r)

Spec == Init /\ [][Next]_<<record, instances>>

=============================================================================
