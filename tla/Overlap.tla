------------------------------ MODULE Overlap -------------------------------
(***************************************************************************)
(* Scheduler with a history variable that remembers whether two instances  *)
(* have been running onLeader at once.                                     *)
(***************************************************************************)
EXTENDS Scheduler

VARIABLE overlap

overlapVars == <<vars, overlap>>

OverlapInit == Init /\ overlap = FALSE

OverlapNext == Next /\ overlap' = (overlap \/ ~OneLeaderRuns')

OverlapSpec == OverlapInit /\ [][OverlapNext]_overlapVars

\* The jobs placed on a worker need more than it has only if two instances have
\* run at once: neither what clients and workers do between a pass's snapshot
\* and its writes, nor passes that are cut short, nor a change of leader alone
\* makes RunOnce over-commit a worker.
OvercommitNeedsOverlap == overlap \/ CapacityIsRespected
=============================================================================
