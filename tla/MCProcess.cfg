CONSTANTS
    NanosPerSecond = 10
    DurationWidth = 8
    Garbage = Garbage
    MaxAttempts = 10
    Request = {r1, r2}
    Environment <- MCEnvironment
SPECIFICATION FairSpec
INVARIANTS
    CleanExit
    PoolIsClosed
    PanicNeedsOverflow
PROPERTIES
    StartupEnds
    SignalEndsProcess
CHECK_DEADLOCK FALSE
