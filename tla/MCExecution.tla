---------------------------- MODULE MCExecution -----------------------------
(* Small instances of Execution for TLC. *)
EXTENDS Execution, TLC

ExecSymmetry == Permutations(Job) \cup Permutations(Worker) \cup Permutations(Replica)
=============================================================================
