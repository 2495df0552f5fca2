---------------------------- MODULE MCJobService ----------------------------
(* Small instances of JobService for TLC. *)
EXTENDS JobService, TLC

Symmetry == Permutations(Job) \cup Permutations(Worker)
            \cup Permutations(Replica)
=============================================================================
