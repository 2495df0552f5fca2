SPECIFICATION FairSpec
CONSTANTS
    Worker = {w1, w2}
    Replica = {a1, a2}
    MaxLease = 4
    Fault = {}
    NoLease = nil
INVARIANTS
    DeathIsDetectable
PROPERTIES
    DeadWorkerIsLost
CHECK_DEADLOCK FALSE
