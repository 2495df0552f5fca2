---------------------------- MODULE MCScheduler -----------------------------
(* A small instance of Scheduler for TLC. *)
EXTENDS Overlap, TLC

MCWorkerList == <<1, 2>>

\* Worker 1 has a small and a large GPU, worker 2 a large one.
MCCluster == <<[capacity |-> Nothing, gpus |-> <<1, 2>>],
               [capacity |-> Nothing, gpus |-> <<2>>]>>

Request(gpu, bar, priority, preemptible) ==
    [need |-> [Nothing EXCEPT !["gpu"] = gpu], minGPUMemory |-> bar,
     priority |-> priority, preemptible |-> preemptible]

\* Any GPU; more urgently a large one, or any two of one worker for good.
MCRequests == {Request(1, 1, 0, TRUE), Request(1, 2, 1, TRUE), Request(2, 1, 1, FALSE)}

Instances == Permutations(Instance)

\* A finished job takes part in nothing any more, however it ended: states that
\* differ in that only are counted as one.
Unfinished == <<[j \in Job |-> IF Terminal(jobs[j].state) THEN {}
                               ELSE jobs[j]],
                leader, pass, overlap>>
=============================================================================
