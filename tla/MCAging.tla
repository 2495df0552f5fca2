------------------------------ MODULE MCAging -------------------------------
(* One worker with one GPU, and jobs of two priorities that need it.  The      *)
(* priorities are one further apart than the code lets aging add.              *)
EXTENDS Aging

MCWorkerList == <<1>>

MCCluster == <<[capacity |-> Nothing, gpus |-> <<1>>]>>

MCRequests == {[need |-> [Nothing EXCEPT !["gpu"] = 1], minGPUMemory |-> 1,
                priority |-> p] : p \in {0, 21}}
=============================================================================
