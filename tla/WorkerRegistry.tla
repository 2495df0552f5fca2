--------------------------- MODULE WorkerRegistry ---------------------------
(***************************************************************************)
(* workers.Service over a worker repository and etcd leases: how a worker  *)
(* stays ACTIVE and how its death is noticed.                              *)
(*                                                                         *)
(* The row and the lease live in two stores that no transaction spans, so  *)
(* Register and Heartbeat are modelled call by call: a handler talks to    *)
(* etcd, then to PostgreSQL, and anything may happen in between.  A worker *)
(* process keeps at most one call outstanding, and never reuses an ID.     *)
(*                                                                         *)
(* etcd itself (external) is the set of live leases, the lease each        *)
(* liveness key is bound to, and per API replica the DELETE events its     *)
(* watch has not handled yet.  Putting a key again binds it to the new     *)
(* lease, so that an older lease expires without an event.                 *)
(*                                                                         *)
(* A name ending in Slip is an action with a plausible mistake; no         *)
(* specification uses it.                                                  *)
(***************************************************************************)
EXTENDS Naturals, Sequences

CONSTANTS
    Worker,          \* worker IDs
    Replica,         \* API server instances
    MaxLease,        \* bound: leases granted in a behaviour
    Fault,           \* which of Faults can happen
    NoLease          \* the nil lease ID

\* "slow_handler": a handler may take longer than the TTL of the lease that it
\* has just granted or renewed.  "replica_down": API replicas crash and come
\* back, or fail to write LOST to the database.  "etcd_wiped": etcd loses its
\* data.
Faults == {"slow_handler", "replica_down", "etcd_wiped"}

ASSUME RegistryAssumption ==
    /\ MaxLease \in Nat
    /\ Fault \subseteq Faults
    /\ NoLease \notin Nat
    /\ Replica # {}

Lease == 1 .. MaxLease

VARIABLES
    workers,         \* the repository: worker ID -> [status, lease]
    call,            \* the RPC each worker has outstanding
    alive,           \* worker processes that have not exited
    granted,         \* number of leases granted so far
    live,            \* leases that have not expired
    bound,           \* the lease each liveness key is bound to, if it exists
    up,              \* API replicas that are running
    watch            \* DELETE events each running replica has yet to handle

store == <<live, bound>>
vars == <<workers, call, alive, granted, live, bound, up, watch>>

Row == [status: {"NONE", "ACTIVE", "LOST"}, lease: Lease \cup {NoLease}]

\* A handler's position, the lease ID it read and the one it was granted.
Call == [pc: {"idle", "create", "renew", "update", "gone"},
         seen: Lease \cup {NoLease}, new: Lease \cup {NoLease}]

Idle == [pc |-> "idle", seen |-> NoLease, new |-> NoLease]

TypeOK ==
    /\ workers \in [Worker -> Row]
    /\ call \in [Worker -> Call]
    /\ alive \subseteq Worker
    /\ granted \in 0 .. MaxLease
    /\ live \subseteq Lease
    /\ bound \in [Worker -> Lease \cup {NoLease}]
    /\ up \subseteq Replica
    /\ watch \in [Replica -> Seq(Worker)]

Init ==
    /\ workers = [w \in Worker |-> [status |-> "NONE", lease |-> NoLease]]
    /\ call = [w \in Worker |-> Idle]
    /\ alive = Worker
    /\ granted = 0
    /\ live = {}
    /\ bound = [w \in Worker |-> NoLease]
    /\ up = Replica
    /\ watch = [a \in Replica |-> << >>]

-----------------------------------------------------------------------------
\* Does not put the key again.
GrantSlip(w) ==
    /\ granted < MaxLease
    /\ granted' = granted + 1
    /\ live' = live \cup {granted + 1}
    /\ UNCHANGED bound

\* EtcdManager.Grant: a new lease, and the worker's key bound to it.
Grant(w) ==
    /\ granted < MaxLease
    /\ granted' = granted + 1
    /\ live' = live \cup {granted + 1}
    /\ bound' = [bound EXCEPT ![w] = granted + 1]

Keep == UNCHANGED <<alive, up, watch>>

\* Register: grant a lease, then create the row.
RegisterGrant(w) ==
    /\ w \in alive /\ up # {}
    /\ call[w].pc = "idle" /\ workers[w].status = "NONE"
    /\ Grant(w)
    /\ call' = [call EXCEPT ![w] = [Idle EXCEPT !.pc = "create",
                                                !.new = granted + 1]]
    /\ UNCHANGED workers /\ Keep

RegisterCreate(w) ==
    /\ call[w].pc = "create"
    /\ workers' = [workers EXCEPT ![w] = [status |-> "ACTIVE",
                                          lease |-> call[w].new]]
    /\ call' = [call EXCEPT ![w] = Idle]
    /\ UNCHANGED <<granted, store>> /\ Keep

\* Heartbeat, first call: read the row.
HeartbeatGet(w) ==
    /\ w \in alive /\ up # {}
    /\ call[w].pc = "idle" /\ workers[w].status # "NONE"
    /\ call' = [call EXCEPT ![w] = [Idle EXCEPT !.pc = "renew",
                                                !.seen = workers[w].lease]]
    /\ UNCHANGED <<workers, granted, store>> /\ Keep

\* Goes on without a lease if the one it read is gone.
HeartbeatLeaseSlip(w) ==
    /\ call[w].pc = "renew"
    /\ \/ call[w].seen # NoLease /\ UNCHANGED <<granted, store>>
       \/ call[w].seen = NoLease /\ Grant(w)
    /\ call' = [call EXCEPT ![w].pc = "update",
                            ![w].new = IF call[w].seen = NoLease
                                       THEN granted + 1 ELSE NoLease]
    /\ UNCHANGED workers /\ Keep

\* Heartbeat, second call: renew the lease it read if that one still lives,
\* otherwise (or with no lease on the row) grant a new one.
HeartbeatLease(w) ==
    /\ call[w].pc = "renew"
    /\ \/ /\ call[w].seen \in live
          /\ call' = [call EXCEPT ![w].pc = "update"]
          /\ UNCHANGED <<granted, store>>
       \/ /\ call[w].seen \notin live
          /\ Grant(w)
          /\ call' = [call EXCEPT ![w].pc = "update", ![w].new = granted + 1]
    /\ UNCHANGED workers /\ Keep

\* Heartbeat, last call: the row becomes ACTIVE whatever it was, and takes the
\* new lease if there is one.
HeartbeatUpdate(w) ==
    /\ call[w].pc = "update"
    /\ workers' = [workers EXCEPT
                      ![w].status = "ACTIVE",
                      ![w].lease = IF call[w].new # NoLease THEN call[w].new
                                   ELSE @]
    /\ call' = [call EXCEPT ![w] = Idle]
    /\ UNCHANGED <<granted, store>> /\ Keep

\* A store returns an error, or the replica serving the call dies.  A failed
\* registration is retried under a new worker ID.
CallFails(w) ==
    /\ call[w].pc \in {"create", "renew", "update"}
    /\ call' = [call EXCEPT ![w] = IF @.pc = "create"
                                   THEN [Idle EXCEPT !.pc = "gone"] ELSE Idle]
    /\ UNCHANGED <<workers, granted, store>> /\ Keep

\* The worker process exits or is cut off for good.
WorkerDies(w) ==
    /\ w \in alive
    /\ alive' = alive \ {w}
    /\ UNCHANGED <<workers, call, granted, store, up, watch>>

-----------------------------------------------------------------------------
\* w's handler has just granted or renewed l and not recorded it yet.
InHand(w, l) ==
    \/ call[w].pc \in {"create", "update"} /\ call[w].new = l
    \/ call[w].pc = "update" /\ call[w].new = NoLease /\ call[w].seen = l

\* etcd: a lease runs out, its key (if still bound to it) is deleted, and
\* every watch that is open gets the event.
Expire(l) ==
    /\ l \in live
    /\ "slow_handler" \notin Fault => \A w \in Worker : ~InHand(w, l)
    /\ live' = live \ {l}
    /\ bound' = [w \in Worker |-> IF bound[w] = l THEN NoLease ELSE bound[w]]
    /\ watch' = [a \in Replica |->
                    IF a \in up /\ \E w \in Worker : bound[w] = l
                    THEN Append(watch[a], CHOOSE w \in Worker : bound[w] = l)
                    ELSE watch[a]]
    /\ UNCHANGED <<workers, call, alive, granted, up>>

\* One iteration of WatchExpirations: MarkLost on the worker of the event.  An
\* unknown worker is skipped, a LOST one left as it is.
WatchExpirations(a) ==
    /\ watch[a] # << >>
    /\ LET w == Head(watch[a]) IN
       workers' = IF workers[w].status = "ACTIVE"
                  THEN [workers EXCEPT ![w] = [status |-> "LOST",
                                               lease |-> NoLease]]
                  ELSE workers
    /\ watch' = [watch EXCEPT ![a] = Tail(@)]
    /\ UNCHANGED <<call, alive, granted, store, up>>

\* MarkLost fails on a database error: onError logs it, the event is gone.
MarkLostFails(a) ==
    /\ "replica_down" \in Fault
    /\ watch[a] # << >>
    /\ watch' = [watch EXCEPT ![a] = Tail(@)]
    /\ UNCHANGED <<workers, call, alive, granted, store, up>>

\* An API replica stops, and its watch with what it had not handled.
ReplicaStops(a) ==
    /\ "replica_down" \in Fault
    /\ a \in up
    /\ up' = up \ {a}
    /\ watch' = [watch EXCEPT ![a] = << >>]
    /\ UNCHANGED <<workers, call, alive, granted, store>>

\* It starts again, watching from the present on.
ReplicaStarts(a) ==
    /\ a \in Replica \ up
    /\ up' = up \cup {a}
    /\ UNCHANGED <<workers, call, alive, granted, store, watch>>

\* etcd comes back empty: no lease, no key, and no DELETE event for any.
EtcdWiped ==
    /\ "etcd_wiped" \in Fault
    /\ live # {}
    /\ live' = {}
    /\ bound' = [w \in Worker |-> NoLease]
    /\ UNCHANGED <<workers, call, alive, granted, up, watch>>

Next ==
    \/ \E w \in Worker :
        \/ RegisterGrant(w)
        \/ RegisterCreate(w)
        \/ HeartbeatGet(w)
        \/ HeartbeatLease(w)
        \/ HeartbeatUpdate(w)
        \/ CallFails(w)
        \/ WorkerDies(w)
    \/ \E l \in Lease : Expire(l)
    \/ \E a \in Replica :
        \/ WatchExpirations(a)
        \/ MarkLostFails(a)
        \/ ReplicaStops(a)
        \/ ReplicaStarts(a)
    \/ EtcdWiped

\* A handler that has begun goes on or fails; a lease whose worker is dead, so
\* that nobody renews it, runs out; a running replica goes on reading its
\* watch, a stopped one is restarted.  Nothing makes a worker call.
Abandoned(l) == \A w \in Worker : bound[w] = l => w \notin alive

Fairness ==
    /\ \A w \in Worker :
        WF_vars(RegisterCreate(w) \/ HeartbeatLease(w) \/ HeartbeatUpdate(w)
                \/ CallFails(w))
    /\ \A l \in Lease : WF_vars(Abandoned(l) /\ Expire(l))
    /\ \A a \in Replica : WF_vars(WatchExpirations(a)) /\ WF_vars(ReplicaStarts(a))

Spec == Init /\ [][Next]_vars

FairSpec == Spec /\ Fairness

-----------------------------------------------------------------------------
Pending(w) == \E a \in Replica : \E i \in DOMAIN watch[a] : watch[a][i] = w

\* The death of an ACTIVE worker can always still be noticed: it has a key in
\* etcd whose expiry will be reported, or that report is on its way to some
\* replica, whatever late events and self-healing heartbeats did to the row
\* before and whatever its last heartbeat is still about to do.
DeathIsDetectable ==
    \A w \in Worker :
        workers[w].status = "ACTIVE" => bound[w] # NoLease \/ Pending(w)

\* A heartbeat renews the lease that holds the key: if the row names a living
\* lease, the key is bound to that one.  (Renewing another would let the key
\* run out under a worker that never misses a heartbeat.)
RenewsTheBoundLease ==
    \A w \in Worker :
        workers[w].lease \in live => bound[w] = workers[w].lease

\* A worker that died while registered is LOST in the end and stays so, by the
\* expiry of its lease alone and even if its last heartbeat is still being
\* handled when it dies.
DeadWorkerIsLost ==
    \A w \in Worker :
        w \notin alive /\ workers[w].status = "ACTIVE"
        ~> [](workers[w].status = "LOST")

\* What the comment on Worker.LeaseID says of a LOST worker: the lease its key
\* was bound to has expired in etcd by then.
LostMeansKeyExpired ==
    \A w \in Worker : workers[w].status = "LOST" => bound[w] = NoLease
=============================================================================
