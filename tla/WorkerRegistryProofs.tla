------------------------ MODULE WorkerRegistryProofs ------------------------
(***************************************************************************)
(* What TLAPS proves of WorkerRegistry, for any numbers of workers, API    *)
(* replicas and leases.                                                    *)
(*                                                                         *)
(* LeaseInv holds under all faults.  It follows the three lease IDs that a *)
(* worker may have about it - on its row, read by its handler, granted to  *)
(* its handler - and says that whichever of them still lives is the one    *)
(* its key is bound to.  Lease IDs are never granted twice, so that an ID  *)
(* that has expired cannot live again.                                     *)
(***************************************************************************)
EXTENDS WorkerRegistry, TLAPS

\* The lease IDs that have been granted, and nil.
Known == 1 .. granted \cup {NoLease}

\* The key of w is bound to l, if l lives.
Holds(w, l) == l \in live => bound[w] = l

LeaseOK(w) ==
    /\ {workers[w].lease, call[w].seen, call[w].new, bound[w]} \subseteq Known
    /\ bound[w] # NoLease => bound[w] \in live
    /\ Holds(w, workers[w].lease)
    /\ call[w].pc \in {"renew", "update"} =>
          /\ Holds(w, call[w].seen)
          /\ workers[w].lease \in {call[w].seen, NoLease}
    /\ call[w].pc \in {"create", "update"} => Holds(w, call[w].new)
    /\ call[w].pc = "renew" => call[w].new = NoLease
    /\ workers[w].status = "NONE" => workers[w].lease = NoLease
    /\ call[w].pc = "create" => workers[w].status = "NONE"

LeaseInv ==
    /\ TypeOK
    /\ live \subseteq 1 .. granted
    /\ \A w \in Worker : LeaseOK(w)
    /\ \A v, w \in Worker : bound[v] = bound[w] /\ bound[v] # NoLease => v = w

\* nil is not a lease, and no lease of the future lives.
LEMMA NilIsNoLease ==
    ASSUME LeaseInv
    PROVE  /\ granted \in Nat /\ NoLease \notin live
           /\ granted + 1 \notin Known /\ granted + 1 \notin live
  <1>1. granted \in Nat /\ granted + 1 # NoLease
    BY RegistryAssumption DEF LeaseInv, TypeOK
  <1>2. \A l \in 1 .. granted : l \in Nat /\ l # granted + 1
    BY <1>1
  <1>3. \A l \in live : l \in Nat /\ l # granted + 1
    BY <1>2 DEF LeaseInv
  <1>4. granted + 1 \notin Known
    BY <1>1, <1>2 DEF Known
  <1> QED BY <1>1, <1>3, <1>4, RegistryAssumption

\* Grant binds the worker's key to a lease that nobody else has seen.
LEMMA GrantFacts ==
    ASSUME LeaseInv, NEW w \in Worker, Grant(w)
    PROVE  /\ granted' = granted + 1 /\ granted' \in 0 .. MaxLease
           /\ granted' \in Lease /\ granted' # NoLease
           /\ live' = live \cup {granted'} /\ live' \subseteq Lease
           /\ live' \subseteq 1 .. granted' /\ Known \subseteq Known'
           /\ bound' \in [Worker -> Lease \cup {NoLease}]
           /\ bound'[w] = granted' /\ granted' \in Known'
           /\ \A v \in Worker \ {w} : bound'[v] = bound[v]
           /\ \A l \in Known : l \in live' <=> l \in live
  <1>1. granted \in Nat /\ granted < MaxLease /\ MaxLease \in Nat
    BY RegistryAssumption DEF LeaseInv, TypeOK, Grant
  <1>2. /\ granted' = granted + 1 /\ granted' \in 0 .. MaxLease
        /\ granted' \in Lease /\ granted' # NoLease
    BY <1>1, RegistryAssumption DEF Grant, Lease
  <1>3. live' = live \cup {granted'}
    BY <1>2 DEF Grant
  <1>4. live' \subseteq Lease /\ live' \subseteq 1 .. granted'
    BY <1>1, <1>2, <1>3 DEF LeaseInv, TypeOK
  <1>5. Known \subseteq Known' /\ granted' \in Known'
    BY <1>1, <1>2 DEF Known
  <1>6. bound' = [bound EXCEPT ![w] = granted']
    BY <1>2 DEF Grant
  <1>7. /\ bound' \in [Worker -> Lease \cup {NoLease}] /\ bound'[w] = granted'
        /\ \A v \in Worker \ {w} : bound'[v] = bound[v]
    BY <1>2, <1>6 DEF LeaseInv, TypeOK
  <1>8. \A l \in Known : l \in live' <=> l \in live
    BY <1>2, <1>3, NilIsNoLease
  <1> QED BY <1>2, <1>3, <1>4, <1>5, <1>7, <1>8

\* A worker is not concerned by a step that leaves its row, call and key alone
\* and grants at most a lease it does not know.
LEMMA Bystander ==
    ASSUME NEW v \in Worker, LeaseOK(v), Known \subseteq Known',
           workers'[v] = workers[v], call'[v] = call[v], bound'[v] = bound[v],
           \A l \in Known : l \in live' <=> l \in live
    PROVE  LeaseOK(v)'
  <1>1. \A l \in Known : Holds(v, l) => Holds(v, l)'
    BY DEF Holds
  <1> QED BY <1>1 DEF LeaseOK, Holds

\* What a call of w reads and writes.
LEMMA OneWorker ==
    ASSUME TypeOK, NEW w \in Worker
    PROVE  /\ workers[w] \in Row /\ call[w] \in Call
           /\ \A r \in Row : workers' = [workers EXCEPT ![w] = r] =>
                 /\ workers' \in [Worker -> Row] /\ workers'[w] = r
                 /\ \A v \in Worker \ {w} : workers'[v] = workers[v]
           /\ \A c \in Call : call' = [call EXCEPT ![w] = c] =>
                 /\ call' \in [Worker -> Call] /\ call'[w] = c
                 /\ \A v \in Worker \ {w} : call'[v] = call[v]
  BY DEF TypeOK

\* Register, first call.
LEMMA RegisterGrantKeeps ==
    ASSUME LeaseInv, NEW w \in Worker, RegisterGrant(w)
    PROVE  LeaseInv'
  <1> DEFINE c == [Idle EXCEPT !.pc = "create", !.new = granted + 1]
  <1>1. TypeOK /\ LeaseOK(w)
    BY DEF LeaseInv
  <1>2. /\ Grant(w) /\ call' = [call EXCEPT ![w] = c]
        /\ workers[w].status = "NONE" /\ UNCHANGED <<workers, alive, up, watch>>
    BY DEF RegisterGrant, Keep
  <1>3. /\ granted' = granted + 1 /\ granted' \in 0 .. MaxLease
        /\ granted' \in Lease /\ granted' # NoLease
        /\ live' = live \cup {granted'} /\ live' \subseteq Lease
        /\ live' \subseteq 1 .. granted' /\ Known \subseteq Known'
        /\ bound' \in [Worker -> Lease \cup {NoLease}]
        /\ bound'[w] = granted' /\ granted' \in Known'
        /\ \A v \in Worker \ {w} : bound'[v] = bound[v]
        /\ \A l \in Known : l \in live' <=> l \in live
    BY <1>2, GrantFacts
  <1>4. c \in Call /\ c.pc = "create" /\ c.seen = NoLease /\ c.new = granted'
    BY <1>3, Zenon DEF Idle, Call
  <1> HIDE DEF c
  <1>5. /\ call' \in [Worker -> Call] /\ call'[w] = c
        /\ \A v \in Worker \ {w} : call'[v] = call[v]
    BY <1>1, <1>2, <1>4, OneWorker, Zenon
  <1>6. TypeOK'
    BY <1>1, <1>2, <1>3, <1>5 DEF TypeOK
  <1>7. workers[w].lease = NoLease /\ NoLease \in Known' /\ NoLease \notin live'
    BY <1>1, <1>2, <1>3, NilIsNoLease DEF LeaseOK, Known
  <1>8. LeaseOK(w)'
    BY <1>2, <1>3, <1>4, <1>5, <1>7 DEF LeaseOK, Holds
  <1>9. \A v \in Worker \ {w} : LeaseOK(v)'
    BY <1>2, <1>3, <1>5, Bystander DEF LeaseInv
  <1>10. \A v, u \in Worker : bound'[v] = bound'[u] /\ bound'[v] # NoLease => v = u
    <2>1. \A v \in Worker : bound[v] # granted'
      BY <1>3, NilIsNoLease DEF LeaseInv, LeaseOK
    <2> QED BY <1>3, <2>1 DEF LeaseInv
  <1> QED BY <1>3, <1>6, <1>8, <1>9, <1>10 DEF LeaseInv

\* Heartbeat, second call: a living lease is renewed, or a new one granted.
LEMMA HeartbeatLeaseKeeps ==
    ASSUME LeaseInv, NEW w \in Worker, HeartbeatLease(w)
    PROVE  LeaseInv'
  <1>1. TypeOK /\ LeaseOK(w) /\ call[w] \in Call
    BY OneWorker DEF LeaseInv
  <1>2. call[w].pc = "renew" /\ UNCHANGED <<workers, alive, up, watch>>
    BY DEF HeartbeatLease, Keep
  <1>3. CASE call[w].seen \in live /\ UNCHANGED <<granted, live, bound>>
    <2> DEFINE c == [call[w] EXCEPT !.pc = "update"]
    <2>1. call' = [call EXCEPT ![w] = c]
      BY <1>3 DEF HeartbeatLease
    <2>2. c \in Call /\ c.pc = "update" /\ c.seen = call[w].seen
          /\ c.new = call[w].new
      BY <1>1 DEF Call
    <2> HIDE DEF c
    <2>3. /\ call' \in [Worker -> Call] /\ call'[w] = c
          /\ \A v \in Worker \ {w} : call'[v] = call[v]
      BY <1>1, <2>1, <2>2, OneWorker, Zenon
    <2>4. TypeOK'
      BY <1>1, <1>2, <1>3, <2>3 DEF TypeOK
    <2>5. LeaseOK(w)'
      BY <1>1, <1>2, <1>3, <2>2, <2>3, NilIsNoLease DEF LeaseOK, Holds, Known
    <2>6. \A v \in Worker \ {w} : LeaseOK(v)'
      BY <1>2, <1>3, <2>3, Bystander DEF LeaseInv, Known
    <2> QED BY <1>3, <2>4, <2>5, <2>6 DEF LeaseInv
  <1>4. CASE call[w].seen \notin live /\ Grant(w)
    <2> DEFINE c == [call[w] EXCEPT !.pc = "update", !.new = granted + 1]
    <2>1. call' = [call EXCEPT ![w] = c]
      BY <1>4, Zenon DEF HeartbeatLease
    <2>2. /\ granted' = granted + 1 /\ granted' \in 0 .. MaxLease
          /\ granted' \in Lease /\ granted' # NoLease
          /\ live' = live \cup {granted'} /\ live' \subseteq Lease
          /\ live' \subseteq 1 .. granted' /\ Known \subseteq Known'
          /\ bound' \in [Worker -> Lease \cup {NoLease}]
          /\ bound'[w] = granted' /\ granted' \in Known'
          /\ \A v \in Worker \ {w} : bound'[v] = bound[v]
          /\ \A l \in Known : l \in live' <=> l \in live
      BY <1>4, GrantFacts
    <2>3. c \in Call /\ c.pc = "update" /\ c.seen = call[w].seen /\ c.new = granted'
      BY <1>1, <2>2, Zenon DEF Call
    <2> HIDE DEF c
    <2>4. /\ call' \in [Worker -> Call] /\ call'[w] = c
          /\ \A v \in Worker \ {w} : call'[v] = call[v]
      BY <1>1, <2>1, <2>3, OneWorker, Zenon
    <2>5. TypeOK'
      BY <1>1, <1>2, <2>2, <2>4 DEF TypeOK
    <2>6. /\ call[w].seen \in Known /\ workers[w].lease \in {call[w].seen, NoLease}
          /\ NoLease \in Known /\ NoLease \notin live
      BY <1>1, <1>2, NilIsNoLease DEF LeaseOK, Known
    <2>7. call[w].seen \notin live' /\ workers[w].lease \notin live'
      BY <1>4, <2>2, <2>6
    <2>8. LeaseOK(w)'
      BY <1>1, <1>2, <2>2, <2>3, <2>4, <2>6, <2>7 DEF LeaseOK, Holds
    <2>9. \A v \in Worker \ {w} : LeaseOK(v)'
      BY <1>2, <2>2, <2>4, Bystander DEF LeaseInv
    <2>10. \A v, u \in Worker : bound'[v] = bound'[u] /\ bound'[v] # NoLease => v = u
      <3>1. \A v \in Worker : bound[v] # granted'
        BY <2>2, NilIsNoLease DEF LeaseInv, LeaseOK
      <3> QED BY <2>2, <3>1 DEF LeaseInv
    <2> QED BY <2>2, <2>5, <2>8, <2>9, <2>10 DEF LeaseInv
  <1> QED BY <1>3, <1>4 DEF HeartbeatLease, store

-----------------------------------------------------------------------------
\* A step that touches etcd not at all, and of the workers only w.
LEMMA RowOrCallKeeps ==
    ASSUME LeaseInv, NEW w \in Worker, NEW r \in Row, NEW c \in Call,
           workers' = [workers EXCEPT ![w] = r], call' = [call EXCEPT ![w] = c],
           UNCHANGED <<granted, live, bound>>,
           alive' \subseteq Worker, up' \subseteq Replica,
           watch' \in [Replica -> Seq(Worker)],
           {r.lease, c.seen, c.new} \subseteq Known, Holds(w, r.lease),
           c.pc \in {"renew", "update"} =>
               Holds(w, c.seen) /\ r.lease \in {c.seen, NoLease},
           c.pc \in {"create", "update"} => Holds(w, c.new),
           c.pc = "renew" => c.new = NoLease,
           r.status = "NONE" => r.lease = NoLease,
           c.pc = "create" => r.status = "NONE"
    PROVE  LeaseInv'
  <1>1. TypeOK /\ LeaseOK(w)
    BY DEF LeaseInv
  <1>2. /\ workers' \in [Worker -> Row] /\ workers'[w] = r
        /\ \A v \in Worker \ {w} : workers'[v] = workers[v]
        /\ call' \in [Worker -> Call] /\ call'[w] = c
        /\ \A v \in Worker \ {w} : call'[v] = call[v]
    BY <1>1, OneWorker, Zenon
  <1>3. TypeOK'
    BY <1>1, <1>2 DEF TypeOK
  <1>4. LeaseOK(w)'
    BY <1>1, <1>2 DEF LeaseOK, Holds, Known
  <1>5. \A v \in Worker \ {w} : LeaseOK(v)'
    BY <1>2, Bystander DEF LeaseInv, Known
  <1> QED BY <1>3, <1>4, <1>5 DEF LeaseInv

\* Register, second call; Heartbeat, first and last call; a call that fails.
LEMMA CallKeeps ==
    ASSUME LeaseInv, NEW w \in Worker,
           \/ RegisterCreate(w) \/ HeartbeatGet(w) \/ HeartbeatUpdate(w)
           \/ CallFails(w)
    PROVE  LeaseInv'
  <1>1. TypeOK /\ LeaseOK(w) /\ workers[w] \in Row /\ call[w] \in Call
    BY OneWorker DEF LeaseInv
  <1>2. workers = [workers EXCEPT ![w] = workers[w]]
    BY <1>1 DEF TypeOK
  <1>3. /\ UNCHANGED <<granted, live, bound, alive, up, watch>>
        /\ alive' \subseteq Worker /\ up' \subseteq Replica
        /\ watch' \in [Replica -> Seq(Worker)]
    BY <1>1 DEF RegisterCreate, HeartbeatGet, HeartbeatUpdate, CallFails, Keep, store,
                TypeOK
  <1>4. /\ Idle \in Call /\ Idle.pc = "idle" /\ Idle.seen = NoLease
        /\ Idle.new = NoLease /\ NoLease \in Known /\ NoLease \notin live
    BY NilIsNoLease DEF Idle, Call, Known
  <1>5. CASE RegisterCreate(w)
    <2> DEFINE r == [status |-> "ACTIVE", lease |-> call[w].new]
    <2>1. workers' = [workers EXCEPT ![w] = r] /\ call' = [call EXCEPT ![w] = Idle]
      BY <1>5 DEF RegisterCreate
    <2>2. r \in Row /\ r.status = "ACTIVE" /\ r.lease = call[w].new
      BY <1>1 DEF Row, Call
    <2>3. Holds(w, call[w].new) /\ call[w].new \in Known
      BY <1>1, <1>5 DEF RegisterCreate, LeaseOK
    <2> HIDE DEF r
    <2> QED BY <1>3, <1>4, <2>1, <2>2, <2>3, RowOrCallKeeps, Zenon
  <1>6. CASE HeartbeatGet(w)
    <2> DEFINE c == [Idle EXCEPT !.pc = "renew", !.seen = workers[w].lease]
    <2>1. workers' = [workers EXCEPT ![w] = workers[w]] /\ call' = [call EXCEPT ![w] = c]
      BY <1>2, <1>6 DEF HeartbeatGet
    <2>2. c \in Call /\ c.pc = "renew" /\ c.seen = workers[w].lease /\ c.new = NoLease
      BY <1>1, Zenon DEF Idle, Call, Row
    <2>3. /\ workers[w].lease \in Known /\ Holds(w, workers[w].lease)
          /\ workers[w].status = "NONE" => workers[w].lease = NoLease
      BY <1>1 DEF LeaseOK
    <2> HIDE DEF c
    <2> QED BY <1>1, <1>3, <1>4, <2>1, <2>2, <2>3, RowOrCallKeeps, Zenon
  <1>7. CASE HeartbeatUpdate(w)
    <2> DEFINE r == [workers[w] EXCEPT !.status = "ACTIVE",
                        !.lease = IF call[w].new # NoLease THEN call[w].new ELSE @]
    <2>1. workers' = [workers EXCEPT ![w] = r] /\ call' = [call EXCEPT ![w] = Idle]
      BY <1>7, Zenon DEF HeartbeatUpdate
    <2>2. r \in Row /\ r.status = "ACTIVE" /\ r.lease \in {call[w].new, workers[w].lease}
      BY <1>1, Zenon DEF Row, Call
    <2>3. \A l \in {call[w].new, workers[w].lease} : Holds(w, l) /\ l \in Known
      BY <1>1, <1>7 DEF HeartbeatUpdate, LeaseOK
    <2> HIDE DEF r
    <2> QED BY <1>3, <1>4, <2>1, <2>2, <2>3, RowOrCallKeeps, Zenon
  <1>8. CASE CallFails(w)
    <2> DEFINE c == IF call[w].pc = "create" THEN [Idle EXCEPT !.pc = "gone"] ELSE Idle
    <2>1. workers' = [workers EXCEPT ![w] = workers[w]] /\ call' = [call EXCEPT ![w] = c]
      BY <1>2, <1>8 DEF CallFails
    <2>2. c \in Call /\ c.pc \in {"gone", "idle"} /\ c.seen = NoLease /\ c.new = NoLease
      BY DEF Idle, Call
    <2>3. /\ workers[w].lease \in Known /\ Holds(w, workers[w].lease)
          /\ workers[w].status = "NONE" => workers[w].lease = NoLease
      BY <1>1 DEF LeaseOK
    <2> HIDE DEF c
    <2> QED BY <1>1, <1>3, <1>4, <2>1, <2>2, <2>3, RowOrCallKeeps, Zenon
  <1> QED BY <1>5, <1>6, <1>7, <1>8

-----------------------------------------------------------------------------
\* etcd takes leases away, and unbinds the keys that were bound to them.
LEMMA StoreShrinksKeeps ==
    ASSUME LeaseInv, UNCHANGED <<workers, call, alive, granted, up>>,
           live' \subseteq live,
           bound' = [w \in Worker |-> IF bound[w] \in live' THEN bound[w] ELSE NoLease],
           watch' \in [Replica -> Seq(Worker)]
    PROVE  LeaseInv'
  <1>1. TypeOK'
    BY DEF LeaseInv, TypeOK
  <1>2. live' \subseteq 1 .. granted'
    BY DEF LeaseInv
  <1>3. NoLease \in Known /\ Known' = Known
    BY SMTT(30) DEF Known
  <1>4. ASSUME NEW w \in Worker PROVE LeaseOK(w)'
    <2>1. LeaseOK(w)
      BY DEF LeaseInv
    <2>2. bound'[w] = IF bound[w] \in live' THEN bound[w] ELSE NoLease
      OBVIOUS
    <2>3. ASSUME NEW l, Holds(w, l) PROVE Holds(w, l)'
      BY <2>2, <2>3 DEF Holds
    <2> QED BY <1>3, <2>1, <2>2, <2>3 DEF LeaseOK
  <1>5. \A v, w \in Worker : bound'[v] = bound'[w] /\ bound'[v] # NoLease => v = w
    BY DEF LeaseInv
  <1> QED BY <1>1, <1>2, <1>4, <1>5 DEF LeaseInv

\* A lease expires, or etcd loses everything.
LEMMA EtcdKeeps ==
    ASSUME LeaseInv, EtcdWiped \/ \E l \in Lease : Expire(l)
    PROVE  LeaseInv'
  <1>1. \A w \in Worker : bound[w] # NoLease => bound[w] \in live
    BY DEF LeaseInv, LeaseOK
  <1>2. NoLease \notin live /\ TypeOK
    BY NilIsNoLease DEF LeaseInv
  <1>3. ASSUME NEW l \in Lease, Expire(l)
        PROVE  LeaseInv'
    <2>1. /\ UNCHANGED <<workers, call, alive, granted, up>>
          /\ live' = live \ {l}
          /\ bound' = [w \in Worker |-> IF bound[w] = l THEN NoLease ELSE bound[w]]
      BY <1>3 DEF Expire
    <2>2. bound' = [w \in Worker |-> IF bound[w] \in live' THEN bound[w] ELSE NoLease]
      BY <1>1, <1>2, <2>1
    <2>3. watch' \in [Replica -> Seq(Worker)]
      <3> SUFFICES ASSUME NEW a \in Replica,
                          a \in up /\ \E w \in Worker : bound[w] = l
                   PROVE  Append(watch[a], CHOOSE w \in Worker : bound[w] = l) \in Seq(Worker)
        BY <1>2, <1>3 DEF Expire, TypeOK
      <3>1. (CHOOSE w \in Worker : bound[w] = l) \in Worker
        OBVIOUS
      <3>2. watch[a] \in Seq(Worker)
        BY <1>2 DEF TypeOK
      <3> QED BY <3>1, <3>2
    <2> QED BY <2>1, <2>2, <2>3, StoreShrinksKeeps
  <1>4. CASE EtcdWiped
    <2>1. /\ UNCHANGED <<workers, call, alive, granted, up, watch>> /\ live' = {}
          /\ bound' = [w \in Worker |-> NoLease]
      BY <1>4 DEF EtcdWiped
    <2>2. bound' = [w \in Worker |-> IF bound[w] \in live' THEN bound[w] ELSE NoLease]
      BY <2>1
    <2> QED BY <1>2, <2>1, <2>2, StoreShrinksKeeps DEF TypeOK
  <1> QED BY <1>3, <1>4

\* Taking the head off a replica's events.
LEMMA TailOfWatch ==
    ASSUME TypeOK, NEW a \in Replica, watch[a] # << >>
    PROVE  /\ Head(watch[a]) \in Worker
           /\ [watch EXCEPT ![a] = Tail(@)] \in [Replica -> Seq(Worker)]
  <1>1. watch[a] \in Seq(Worker)
    BY DEF TypeOK
  <1>2. Head(watch[a]) \in Worker /\ Tail(watch[a]) \in Seq(Worker)
    BY <1>1
  <1> QED BY <1>2 DEF TypeOK

\* A replica handles or drops an event, stops or starts; a worker dies.
LEMMA ProcessKeeps ==
    ASSUME LeaseInv,
           \/ \E w \in Worker : WorkerDies(w)
           \/ \E a \in Replica : \/ WatchExpirations(a) \/ MarkLostFails(a)
                                 \/ ReplicaStops(a) \/ ReplicaStarts(a)
    PROVE  LeaseInv'
  <1>1. TypeOK
    BY DEF LeaseInv
  <1>2. CASE /\ UNCHANGED <<workers, call, granted, live, bound>>
             /\ alive' \subseteq Worker /\ up' \subseteq Replica
             /\ watch' \in [Replica -> Seq(Worker)]
    <2>1. TypeOK'
      BY <1>1, <1>2 DEF TypeOK
    <2>2. \A w \in Worker : LeaseOK(w)'
      BY <1>2, Bystander DEF LeaseInv, Known
    <2> QED BY <1>2, <2>1, <2>2 DEF LeaseInv
  <1>3. ASSUME NEW w \in Worker, WorkerDies(w)
        PROVE  LeaseInv'
    BY <1>1, <1>2, <1>3 DEF WorkerDies, store, TypeOK
  <1>4. ASSUME NEW a \in Replica, MarkLostFails(a)
        PROVE  LeaseInv'
    BY <1>1, <1>2, <1>4, TailOfWatch DEF MarkLostFails, store, TypeOK
  <1>5. ASSUME NEW a \in Replica, ReplicaStops(a) \/ ReplicaStarts(a)
        PROVE  LeaseInv'
    <2>1. << >> \in Seq(Worker)
      OBVIOUS
    <2> QED BY <1>1, <1>2, <1>5, <2>1, Zenon DEF ReplicaStops, ReplicaStarts, store, TypeOK
  <1>6. ASSUME NEW a \in Replica, WatchExpirations(a)
        PROVE  LeaseInv'
    <2> DEFINE w == Head(watch[a])
               lost == [status |-> "LOST", lease |-> NoLease]
    <2>1. w \in Worker /\ watch' \in [Replica -> Seq(Worker)]
      BY <1>1, <1>6, TailOfWatch DEF WatchExpirations
    <2>2. UNCHANGED <<call, alive, granted, live, bound, up>>
      BY <1>6 DEF WatchExpirations, store
    <2>3. CASE workers[w].status # "ACTIVE"
      <3>1. UNCHANGED workers
        BY <1>6, <2>3 DEF WatchExpirations
      <3> QED BY <1>1, <1>2, <2>1, <2>2, <3>1 DEF TypeOK
    <2>4. CASE workers[w].status = "ACTIVE"
      <3>1. workers' = [workers EXCEPT ![w] = lost]
        BY <1>6, <2>4 DEF WatchExpirations
      <3> HIDE DEF w
      <3>2. lost \in Row /\ lost.status = "LOST" /\ lost.lease = NoLease
        BY DEF Row
      <3> HIDE DEF lost
      <3>3. call' = [call EXCEPT ![w] = call[w]] /\ call[w] \in Call /\ LeaseOK(w)
        BY <1>1, <2>1, <2>2 DEF TypeOK, LeaseInv
      <3>4. NoLease \in Known /\ NoLease \notin live
        BY NilIsNoLease DEF Known
      <3>5. call[w].pc # "create"
        BY <2>4, <3>3 DEF LeaseOK
      <3>6. /\ {call[w].seen, call[w].new} \subseteq Known
            /\ call[w].pc \in {"renew", "update"} => Holds(w, call[w].seen)
            /\ call[w].pc \in {"create", "update"} => Holds(w, call[w].new)
            /\ call[w].pc = "renew" => call[w].new = NoLease
        BY <3>3 DEF LeaseOK
      <3>7. Holds(w, NoLease) /\ alive' \subseteq Worker /\ up' \subseteq Replica
        BY <1>1, <2>2, <3>4 DEF Holds, TypeOK
      <3> QED BY <2>1, <2>2, <3>1, <3>2, <3>3, <3>4, <3>5, <3>6, <3>7, RowOrCallKeeps, Zenon
    <2> QED BY <2>3, <2>4
  <1> QED BY <1>3, <1>4, <1>5, <1>6

\* Every step of Next keeps LeaseInv.
LEMMA LeaseStep ==
    ASSUME LeaseInv, [Next]_vars
    PROVE  LeaseInv'
  <1>1. CASE UNCHANGED vars
    <2>1. TypeOK' /\ \A w \in Worker : LeaseOK(w)'
      BY <1>1 DEF vars, LeaseInv, TypeOK, LeaseOK, Holds, Known
    <2> QED BY <1>1, <2>1 DEF vars, LeaseInv
  <1>2. CASE Next
    BY <1>2, RegisterGrantKeeps, HeartbeatLeaseKeeps, CallKeeps, EtcdKeeps,
       ProcessKeeps DEF Next
  <1> QED BY <1>1, <1>2

\* No lease has been granted in the beginning.
LEMMA LeaseInit == Init => LeaseInv
  <1> SUFFICES ASSUME Init PROVE LeaseInv
    OBVIOUS
  <1> USE DEF Init
  <1>1. /\ Idle \in Call /\ Idle.pc = "idle" /\ Idle.seen = NoLease
        /\ Idle.new = NoLease
    BY DEF Idle, Call
  <1>2. TypeOK
    <2>1. [status |-> "NONE", lease |-> NoLease] \in Row
      BY DEF Row
    <2>2. workers \in [Worker -> Row] /\ call \in [Worker -> Call]
      BY <1>1, <2>1
    <2>3. granted \in 0 .. MaxLease
      BY RegistryAssumption
    <2>4. watch \in [Replica -> Seq(Worker)]
      OBVIOUS
    <2> QED BY <2>2, <2>3, <2>4 DEF TypeOK
  <1>3. \A w \in Worker : /\ workers[w].status = "NONE" /\ workers[w].lease = NoLease
                          /\ call[w] = Idle /\ bound[w] = NoLease
    BY Zenon
  <1>4. \A w \in Worker : LeaseOK(w)
    BY <1>1, <1>3, Zenon DEF LeaseOK, Holds, Known
  <1> QED BY <1>2, <1>3, <1>4 DEF LeaseInv

\* The leases stay in order, whatever fails.
THEOREM LeaseInvariance == Spec => []LeaseInv
  BY LeaseInit, LeaseStep, PTL DEF Spec

\* Rows, handlers, leases and events keep their types, whatever fails.
THEOREM RegistryTypeCorrect == Spec => []TypeOK
  <1>1. LeaseInv => TypeOK
    BY DEF LeaseInv
  <1> QED BY <1>1, LeaseInvariance, PTL

\* A heartbeat renews the lease that holds the worker's key, under slow
\* handlers, replica crashes and a loss of etcd's data.
THEOREM HeartbeatHoldsTheKey == Spec => []RenewsTheBoundLease
  <1>1. LeaseInv => RenewsTheBoundLease
    BY DEF LeaseInv, LeaseOK, Holds, RenewsTheBoundLease
  <1> QED BY <1>1, LeaseInvariance, PTL

-----------------------------------------------------------------------------
(***************************************************************************)
(* Without faults the death of an ACTIVE worker stays detectable.  What    *)
(* has to be added is that a handler about to write ACTIVE has the lease   *)
(* of the worker's key in hand, so that the key outlives the write.        *)
(***************************************************************************)
Held(w) == call[w].pc \in {"create", "update"} =>
               bound[w] # NoLease /\ InHand(w, bound[w])

DetectInv == up = Replica /\ DeathIsDetectable /\ \A w \in Worker : Held(w)

\* Events on their way stay there, but for the head that is being handled.
LEMMA PendingStays ==
    ASSUME TypeOK, NEW a \in Replica, watch[a] # << >>,
           watch' = [watch EXCEPT ![a] = Tail(@)],
           NEW v \in Worker, v # Head(watch[a]), Pending(v)
    PROVE  Pending(v)'
  <1>0. PICK b \in Replica : \E i \in DOMAIN watch[b] : watch[b][i] = v
    BY DEF Pending
  <1>1. PICK i \in DOMAIN watch[b] : watch[b][i] = v
    BY <1>0
  <1>2. watch[a] \in Seq(Worker) /\ watch'[a] = Tail(watch[a])
        /\ \A c \in Replica \ {a} : watch'[c] = watch[c]
    BY DEF TypeOK
  <1>3. CASE b # a
    BY <1>1, <1>2, <1>3 DEF Pending
  <1>4. CASE b = a
    <2>1. i \in 1 .. Len(watch[a]) /\ i # 1
      BY <1>1, <1>2, <1>4
    <2>2. i - 1 \in DOMAIN Tail(watch[a]) /\ Tail(watch[a])[i - 1] = v
      BY <1>1, <1>2, <1>4, <2>1, SMTT(30)
    <2> QED BY <1>2, <2>2 DEF Pending
  <1> QED BY <1>3, <1>4

\* An expiry reaches every replica, and takes no event away.
LEMMA ExpiryIsPending ==
    ASSUME LeaseInv, up = Replica, NEW l \in Lease, Expire(l), NEW w \in Worker,
           bound[w] = l \/ Pending(w)
    PROVE  Pending(w)'
  <1>0. TypeOK
    BY DEF LeaseInv
  <1>1. ASSUME NEW a \in Replica
        PROVE  /\ watch[a] \in Seq(Worker)
               /\ watch'[a] = IF \E v \in Worker : bound[v] = l
                              THEN Append(watch[a], CHOOSE v \in Worker : bound[v] = l)
                              ELSE watch[a]
    BY <1>0 DEF Expire, TypeOK
  <1>2. CASE bound[w] = l
    <2>1. l # NoLease
      BY RegistryAssumption DEF Lease
    <2>2. \A v \in Worker : bound[v] = l => v = w
      BY <1>2, <2>1 DEF LeaseInv
    <2>3. (CHOOSE v \in Worker : bound[v] = l) = w
      BY <1>2, <2>2
    <2>4. PICK a \in Replica : TRUE
      BY RegistryAssumption
    <2>5. watch'[a] = Append(watch[a], w) /\ watch[a] \in Seq(Worker)
      BY <1>1, <1>2, <2>3, Zenon
    <2>6. Len(watch[a]) + 1 \in DOMAIN watch'[a] /\ watch'[a][Len(watch[a]) + 1] = w
      BY <2>5
    <2> QED BY <2>6 DEF Pending
  <1>3. CASE Pending(w)
    <2>0. PICK a \in Replica : \E i \in DOMAIN watch[a] : watch[a][i] = w
      BY <1>3 DEF Pending
    <2>1. PICK i \in DOMAIN watch[a] : watch[a][i] = w
      BY <2>0
    <2>2. CASE \E v \in Worker : bound[v] = l
      <3> DEFINE x == CHOOSE v \in Worker : bound[v] = l
      <3>1. x \in Worker
        BY <2>2
      <3>2. watch'[a] = Append(watch[a], x) /\ watch[a] \in Seq(Worker)
        BY <1>1, <2>2, Zenon
      <3> HIDE DEF x
      <3>3. i \in DOMAIN watch'[a] /\ watch'[a][i] = w
        BY <2>1, <3>1, <3>2
      <3> QED BY <3>3 DEF Pending
    <2>3. CASE ~\E v \in Worker : bound[v] = l
      BY <1>1, <2>1, <2>3 DEF Pending
    <2> QED BY <2>2, <2>3
  <1> QED BY <1>2, <1>3

\* A step of w's handler keeps w detectable; the others do not notice it.
LEMMA HandlerKeepsDetect ==
    ASSUME LeaseInv, DetectInv, NEW w \in Worker,
           \/ RegisterGrant(w) \/ RegisterCreate(w) \/ HeartbeatGet(w)
           \/ HeartbeatLease(w) \/ HeartbeatUpdate(w) \/ CallFails(w)
    PROVE  DetectInv'
  <1>1. TypeOK /\ LeaseOK(w) /\ call[w] \in Call /\ workers[w] \in Row
    BY OneWorker DEF LeaseInv
  <1>2. UNCHANGED <<up, watch>>
    BY DEF RegisterGrant, RegisterCreate, HeartbeatGet, HeartbeatLease,
           HeartbeatUpdate, CallFails, Keep
  <1>3. ASSUME NEW v \in Worker \ {w}
        PROVE  workers'[v] = workers[v] /\ call'[v] = call[v] /\ bound'[v] = bound[v]
    BY <1>1 DEF RegisterGrant, RegisterCreate, HeartbeatGet, HeartbeatLease,
           HeartbeatUpdate, CallFails, Grant, store, TypeOK
  <1>4. /\ workers'[w].status = "ACTIVE" => bound'[w] # NoLease \/ Pending(w)
        /\ Held(w)'
    <2>1. CASE RegisterGrant(w)
      <3>1. bound'[w] = granted + 1 /\ bound'[w] # NoLease
        BY <2>1, GrantFacts DEF RegisterGrant
      <3>2. call'[w] = [Idle EXCEPT !.pc = "create", !.new = granted + 1]
        BY <1>1, <2>1 DEF RegisterGrant, TypeOK
      <3>3. call'[w].pc = "create" /\ call'[w].new = granted + 1
        BY <3>2 DEF Idle
      <3> QED BY <3>1, <3>3 DEF Held, InHand
    <2>2. CASE HeartbeatLease(w) /\ call[w].seen \in live
      <3>1. bound[w] = call[w].seen /\ call[w].new = NoLease /\ bound[w] # NoLease
        BY <1>1, <2>2, NilIsNoLease DEF HeartbeatLease, LeaseOK, Holds
      <3>2. bound' = bound /\ call'[w] = [call[w] EXCEPT !.pc = "update"]
        BY <1>1, <2>2, SMTT(30) DEF HeartbeatLease, store, TypeOK
      <3>3. /\ call'[w].pc = "update" /\ call'[w].seen = call[w].seen
            /\ call'[w].new = call[w].new
        BY <1>1, <3>2 DEF Call
      <3> QED BY <3>1, <3>2, <3>3 DEF Held, InHand
    <2>3. CASE HeartbeatLease(w) /\ call[w].seen \notin live
      <3>1. bound'[w] = granted + 1 /\ bound'[w] # NoLease
        BY <2>3, GrantFacts DEF HeartbeatLease
      <3>2. call'[w] = [call[w] EXCEPT !.pc = "update", !.new = granted + 1]
        BY <1>1, <2>3, Zenon DEF HeartbeatLease, TypeOK
      <3>3. call'[w].pc = "update" /\ call'[w].new = granted + 1
        BY <1>1, <3>2 DEF Call
      <3> QED BY <3>1, <3>3 DEF Held, InHand
    <2>4. CASE RegisterCreate(w) \/ HeartbeatUpdate(w)
      <3>1. bound[w] # NoLease /\ bound' = bound
        BY <2>4 DEF RegisterCreate, HeartbeatUpdate, store, DetectInv, Held
      <3>2. call'[w] = Idle
        BY <1>1, <2>4 DEF RegisterCreate, HeartbeatUpdate, TypeOK
      <3>3. call'[w].pc = "idle"
        BY <3>2 DEF Idle
      <3> QED BY <3>1, <3>3 DEF Held
    <2>5. CASE HeartbeatGet(w) \/ CallFails(w)
      <3>1. workers' = workers /\ bound' = bound
        BY <2>5 DEF HeartbeatGet, CallFails, store
      <3>2. \/ call'[w] = [Idle EXCEPT !.pc = "renew", !.seen = workers[w].lease]
            \/ call'[w] = [Idle EXCEPT !.pc = "gone"]
            \/ call'[w] = Idle
        BY <1>1, <2>5 DEF HeartbeatGet, CallFails, TypeOK
      <3>3. call'[w].pc \notin {"create", "update"}
        <4>1. CASE call'[w] = [Idle EXCEPT !.pc = "renew", !.seen = workers[w].lease]
          <5>1. call'[w].pc = "renew"
            BY <4>1 DEF Idle
          <5> QED BY <5>1
        <4>2. CASE call'[w] = [Idle EXCEPT !.pc = "gone"]
          <5>1. call'[w].pc = "gone"
            BY <4>2 DEF Idle
          <5> QED BY <5>1
        <4>3. CASE call'[w] = Idle
          <5>1. call'[w].pc = "idle"
            BY <4>3 DEF Idle
          <5> QED BY <5>1
        <4> QED BY <3>2, <4>1, <4>2, <4>3
      <3> QED BY <3>1, <3>3 DEF Held, DetectInv, DeathIsDetectable
    <2> QED BY <2>1, <2>2, <2>3, <2>4, <2>5
  <1>5. \A v \in Worker : Pending(v) => Pending(v)'
    BY <1>2 DEF Pending
  <1>6. DeathIsDetectable'
    BY <1>3, <1>4, <1>5 DEF DetectInv, DeathIsDetectable
  <1>7. \A v \in Worker \ {w} : Held(v)'
    BY <1>3 DEF DetectInv, Held, InHand
  <1> QED BY <1>2, <1>4, <1>6, <1>7 DEF DetectInv

\* Without faults every step keeps the death of a worker detectable.
LEMMA DetectStep ==
    ASSUME Fault = {}, LeaseInv, DetectInv, [Next]_vars
    PROVE  DetectInv'
  <1>0. TypeOK
    BY DEF LeaseInv
  <1>1. CASE UNCHANGED <<workers, call, live, bound, up, watch>>
    BY <1>1 DEF DetectInv, DeathIsDetectable, Held, InHand, Pending
  <1>2. ASSUME NEW l \in Lease, Expire(l)
        PROVE  DetectInv'
    <2>1. /\ \A w \in Worker : ~InHand(w, l)
          /\ UNCHANGED <<workers, call, up>>
          /\ \A w \in Worker : bound[w] # l => bound'[w] = bound[w]
      BY <1>2 DEF Expire
    <2>2. ASSUME NEW w \in Worker PROVE Held(w)'
      BY <2>1 DEF DetectInv, Held, InHand
    <2>3. ASSUME NEW w \in Worker, workers'[w].status = "ACTIVE"
          PROVE  bound'[w] # NoLease \/ Pending(w)'
      BY <1>2, <2>1, <2>3, ExpiryIsPending DEF DetectInv, DeathIsDetectable
    <2> QED BY <2>1, <2>2, <2>3 DEF DetectInv, DeathIsDetectable
  <1>3. ASSUME NEW a \in Replica, WatchExpirations(a)
        PROVE  DetectInv'
    <2>1. /\ UNCHANGED <<call, bound, up>> /\ watch[a] # << >>
          /\ watch' = [watch EXCEPT ![a] = Tail(@)]
      BY <1>3 DEF WatchExpirations, store
    <2>2. Head(watch[a]) \in Worker
      BY <1>0, <2>1, TailOfWatch
    <2>3. workers'[Head(watch[a])].status # "ACTIVE"
      BY <1>0, <1>3, <2>2 DEF WatchExpirations, TypeOK
    <2>4. \A v \in Worker : v # Head(watch[a]) => workers'[v] = workers[v]
      BY <1>0, <1>3, <2>2 DEF WatchExpirations, TypeOK
    <2>5. DeathIsDetectable'
      BY <1>0, <2>1, <2>3, <2>4, PendingStays, Zenon DEF DetectInv, DeathIsDetectable
    <2> QED BY <2>1, <2>5 DEF DetectInv, Held, InHand
  <1>4. ASSUME NEW w \in Worker, WorkerDies(w)
        PROVE  DetectInv'
    BY <1>1, <1>4 DEF WorkerDies, store
  <1>5. ASSUME NEW a \in Replica, MarkLostFails(a) \/ ReplicaStops(a) \/ ReplicaStarts(a)
        PROVE  FALSE
    BY <1>5 DEF MarkLostFails, ReplicaStops, ReplicaStarts, DetectInv
  <1>6. ~EtcdWiped
    BY DEF EtcdWiped
  <1> QED BY <1>1, <1>2, <1>3, <1>4, <1>5, <1>6, HandlerKeepsDetect DEF Next, vars

\* Without faults the death of a worker that the repository shows as ACTIVE can
\* always still be noticed, however its handlers interleave with late events.
THEOREM DeathStaysDetectable ==
    ASSUME Fault = {} PROVE Spec => []DeathIsDetectable
  <1>1. Init => DetectInv
    BY DEF Init, Idle, DetectInv, DeathIsDetectable, Held
  <1>2. LeaseInv /\ DetectInv /\ [Next]_vars => DetectInv'
    BY DetectStep
  <1>3. DetectInv => DeathIsDetectable
    BY DEF DetectInv
  <1> QED BY <1>1, <1>2, <1>3, LeaseInvariance, PTL DEF Spec
=============================================================================
