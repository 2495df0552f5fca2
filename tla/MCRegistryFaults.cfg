SPECIFICATION Spec
CONSTANTS
    Worker = {w1, w2}
    Replica = {a1}
    MaxLease = 4
    Fault = {"slow_handler", "replica_down", "etcd_wiped"}
    NoLease = nil
SYMMETRY Symmetry
INVARIANTS
    RenewsTheBoundLease
CHECK_DEADLOCK FALSE
