---------------------------- MODULE JobLifecycle ----------------------------
(***************************************************************************)
(* What the starter promises about one job, whatever happens inside it:    *)
(* an enqueued job stays queued until it is served by a runner or rejected *)
(* by the provider, exactly one of the two happens, and it is final.       *)
(***************************************************************************)
CONSTANT Job

VARIABLE phase   \* phase[j] is new, queued, served or rejected

Init == phase = [j \in Job |-> "new"]

Step(j, from, to) ==
  /\ phase[j] = from
  /\ phase' = [phase EXCEPT ![j] = to]

\* A webhook or the rescue loop inserts the job.
Enqueue(j) == Step(j, "new", "queued")

\* A runner is recorded for the job.
Serve(j) == Step(j, "queued", "served")

\* The provider refuses the job's labels.
Reject(j) == Step(j, "queued", "rejected")

Next == \E j \in Job : Enqueue(j) \/ Serve(j) \/ Reject(j)

Spec == Init /\ [][Next]_phase

=============================================================================
