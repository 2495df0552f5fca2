SPECIFICATION PassSpec
CONSTANTS
    MaxJobs = 3
    WorkerList <- MCWorkerList
    Cluster <- MCCluster
    Requests <- MCRequests
    Ages = {0, 2}
    AgingInterval = 2
    MaxAgingBonus = 1
INVARIANTS
    PlanStaysWithinCapacity
    PlanServesTheQueueInOrder
    VictimsMayBePreempted
CHECK_DEADLOCK FALSE
