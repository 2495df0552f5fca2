-------------------------- MODULE MCWorkerRegistry --------------------------
(* Small instances of WorkerRegistry for TLC. *)
EXTENDS WorkerRegistry, TLC

Symmetry == Permutations(Worker) \cup Permutations(Replica)
=============================================================================
