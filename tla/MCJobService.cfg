SPECIFICATION Spec
CONSTANTS
    Job = {j1, j2}
    Worker = {w1, w2}
    Replica = {a1, a2}
    RetryLimits = {1, 2}
    SubmissionID = {s1}
    NoSubmission = none
SYMMETRY Symmetry
INVARIANTS
    FailedMeansExhausted
    AttemptsWithinBudget
    PlacementMatchesState
    TimestampsMatchState
    OneJobPerSubmission
PROPERTIES
    TerminalIsFinal
    CancelIsNeverUndone
    PreemptionIsFree
    ImplementsContract
