SPECIFICATION RecoverySpec
CONSTANTS
    Job = {j1}
    Worker = {w1, w2}
    Replica = {a1, a2}
    RetryLimits = {3}
    SubmissionID = {s1}
    NoSubmission = none
    Fault = {"worker_dies", "call_fails", "bad_command", "store_fails"}
INVARIANTS
    StopIsStillWanted
PROPERTIES
    HeldJobsAreRecovered
CHECK_DEADLOCK FALSE
