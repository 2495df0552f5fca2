--------------------------- MODULE MCPlanningPass ---------------------------
(* Small instances of PlanningPass for TLC. *)
EXTENDS PlanningPass

Request(gpu, cpu, bar, priority) ==
    [need |-> [d \in Dimension |-> CASE d = "gpu" -> gpu [] d = "cpu" -> cpu [] OTHER -> 0],
     minGPUMemory |-> bar, priority |-> priority]

MCWorkerList == <<2, 1>>

MCHost(cpu, gpus) ==
    [capacity |-> [d \in Dimension |-> IF d = "cpu" THEN cpu ELSE 0], gpus |-> gpus]

\* One worker with a small and a large GPU, one with two CPUs and a small GPU.
MCCluster == <<MCHost(1, <<1, 2>>), MCHost(2, <<1>>)>>

MCRequests == {Request(gpu, 0, bar, priority) :
                   gpu \in {1, 2}, bar \in {1, 2}, priority \in {0, 1}}
              \cup {Request(0, cpu, 1, 1) : cpu \in {1, 2}}
=============================================================================
