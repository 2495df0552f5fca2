SPECIFICATION OverlapSpec
CONSTANTS
    Job = {1, 2, 3}
    Worker = {1, 2}
    WorkerList <- MCWorkerList
    Cluster <- MCCluster
    Requests <- MCRequests
    Instance = {p1, p2}
    Preemption = TRUE
    AgingInterval = 2
    MaxAgingBonus = 1
    RetryLimits = {1}
    SubmissionID = {s1}
    NoSubmission = none
SYMMETRY Instances
VIEW Unfinished
INVARIANTS
    TypeOK
    OvercommitNeedsOverlap
PROPERTIES
    NeverReassigned
CHECK_DEADLOCK FALSE
