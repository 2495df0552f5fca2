-------------------------- MODULE JobStoreService ---------------------------
(***************************************************************************)
(* What JobStore promises to the other modules: the rows change as in      *)
(* JobService, where every operation is a single step.                     *)
(***************************************************************************)
EXTENDS JobStore

Atomic == INSTANCE JobService WITH
    jobs <- rows, Replica <- {}, todo <- [a \in {} |-> [w \in Worker |-> {}]]

\* With its transactions, locks, failures and lost answers the repository is
\* the atomic one of JobService: each commit is one operation of the service
\* on the row as it then is, and nothing else changes a row.
ImplementsService == Atomic!Spec
=============================================================================
