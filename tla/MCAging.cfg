SPECIFICATION FairSpec
CONSTANTS
    Job = {1, 2}
    Worker = {1}
    WorkerList <- MCWorkerList
    Cluster <- MCCluster
    Requests <- MCRequests
    MaxRun = 2
    AgingInterval = 1
    MaxAgingBonus = 20
    RetryLimits = {0}
    SubmissionID = {s1}
    NoSubmission = none
PROPERTY NoStarvation
