CONSTANTS
    Worker = {w1}
    RetryLimits = {0, 1}
    SubmissionID = {s1}
    NoSubmission = nosub
    s1 = s1
    Job = {j1, j2, j3}
    j1 = j1
    NoJob = nojob
    Caller = {c1, c2, sc}
    sc = sc
    Server = {"api"}
    Scheduler = {"scheduler"}
    HostOf <- MCHostOf
    PoolSize = 2
    IntWidth = 8
    Message <- MCMessage
SPECIFICATION FairSpec
INVARIANTS
    HistoryTellsTheState
    DuplicateFindsOriginal
    RepliesAreTrue
    StoredRequestsAreSane
PROPERTIES
    ImplementsService
    CallsReturnUnlessStalled
