SPECIFICATION FairExecSpec
CONSTANTS
    Job = {j1}
    Worker = {w1, w2, w3}
    Replica = {a1}
    RetryLimits = {2}
    SubmissionID = {s1}
    NoSubmission = none
    Fault = {}
INVARIANTS
    AtMostOneExecution
    ExecutingMeansRunning
    RunningHasThread
PROPERTIES
    EveryJobIsSettled
CHECK_DEADLOCK FALSE
