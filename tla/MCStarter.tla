----------------------------- MODULE MCStarter -----------------------------
(* Instances of Starter for TLC: the names of jobs and workers are model    *)
(* values, interchangeable except that an invalid job differs from others.  *)
EXTENDS Starter, TLC

WorkerSymmetry == Permutations(Worker)
JobSymmetry == Permutations(Worker) \cup Permutations(Job)
=============================================================================
