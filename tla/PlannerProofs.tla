---------------------------- MODULE PlannerProofs ---------------------------
(***************************************************************************)
(* What TLAPS proves of the planner's operators, for any cluster, requests *)
(* and aging, and for snapshots of any size.                               *)
(*                                                                         *)
(* Plan and PlanPreemptions are loops over a sorted list.  What a loop has *)
(* done after n rounds is said by a formula, and the least n that refutes  *)
(* it is led to a contradiction.  That there is a least such number        *)
(* (LeastNumbers), that totals are sums (TotalsAdd), that GPUs and lists   *)
(* are counted (UsableCounts, Counts) and that SortedBy sorts (Sorts) is   *)
(* assumed by name where it is needed, and proved in SchedulerProofs, with  *)
(* the library's theorems about finite sets.                               *)
(***************************************************************************)
EXTENDS PlanningPass, TLAPS

-----------------------------------------------------------------------------
(* Capacity. *)

\* What the planner reads of a row.
SizedRow(r) ==
    /\ r.need \in [Dimension -> Nat] /\ r.minGPUMemory \in Nat
    /\ r.priority \in Nat /\ r.createdAt \in Int

\* The job asks for what it asked for.
SameRequest(r, n) ==
    /\ n.need = r.need /\ n.minGPUMemory = r.minGPUMemory
    /\ n.priority = r.priority /\ n.createdAt = r.createdAt

\* S is part of a finite set of rows that the planner can read.
Sized(S, rows) ==
    /\ \E A : S \subseteq A /\ IsFiniteSet(A)
    /\ \A j \in S : SizedRow(rows[j])

\* What jobs need together is a sum.
TotalsAdd ==
    /\ \A rows : Total({}, rows) = Nothing
    /\ \A S, rows : Sized(S, rows) =>
        /\ Total(S, rows) \in [Dimension -> Nat]
        /\ \A j \in S : Total(S, rows) = Plus(Total(S \ {j}, rows), rows[j].need)
        /\ \A T \in SUBSET S, d \in Dimension : Total(T, rows)[d] <= Total(S, rows)[d]

\* The GPUs of w that meet the bar m.
Usable(w, m) == FreeGPUCount(Cluster[w], m, 0)

\* They are counted, and a higher bar leaves no more of them.
UsableCounts ==
    \A w \in Range(WorkerList), m \in Nat :
        /\ Usable(w, m) \in Nat
        /\ \A n \in Nat : n <= m => Usable(w, m) <= Usable(w, n)
        /\ \A c \in Nat : FreeGPUCount(Cluster[w], m, c) =
                              IF Usable(w, m) >= c THEN Usable(w, m) - c ELSE 0

\* A total depends on what the jobs of the set need only.
LEMMA TotalsAgree ==
    ASSUME NEW S, NEW rows, NEW rest, \A j \in S : rows[j].need = rest[j].need
    PROVE  Total(S, rows) = Total(S, rest)
  <1>1. \A d \in Dimension : [j \in S |-> rows[j].need[d]] = [j \in S |-> rest[j].need[d]]
    BY Zenon
  <1> QED BY <1>1, Zenon DEF Total

\* A worker that can serve some jobs can serve fewer, whatever else happens to
\* their rows.
LEMMA ServesFewer ==
    ASSUME TotalsAdd, UsableCounts, NEW w \in Range(WorkerList),
           NEW S, NEW rows, Sized(S, rows), Serves(Cluster[w], rows, S),
           NEW T \in SUBSET S, NEW rest, \A j \in T : SameRequest(rows[j], rest[j])
    PROVE  Sized(T, rest) /\ Serves(Cluster[w], rest, T)
  <1>1. Sized(T, rest)
    BY Zenon DEF Sized, SizedRow, SameRequest
  <1>2. ASSUME NEW A, NEW B, A \subseteq B, B \subseteq S, A \subseteq T, NEW d \in Dimension
        PROVE  /\ Total(A, rest)[d] \in Nat /\ Total(B, rows)[d] \in Nat
               /\ Total(A, rest)[d] <= Total(B, rows)[d]
    <2>1. Sized(A, rest) /\ Sized(B, rows)
      BY <1>1, <1>2, Zenon DEF Sized
    <2>2. Total(A, rest) = Total(A, rows)
      BY <1>2, TotalsAgree DEF SameRequest
    <2> QED BY <1>2, <2>1, <2>2 DEF TotalsAdd
  <1>3. ASSUME NEW d \in Dimension \ {"gpu"}
        PROVE  Total(T, rest)[d] <= Cluster[w].capacity[d]
    <2>1. Total(S, rows)[d] <= Cluster[w].capacity[d]
      BY <1>3, Zenon DEF Serves
    <2>2. Cluster[w].capacity[d] \in Nat
      BY <1>3, PlannerAssumption
    <2> QED BY <1>2, <1>3, <2>1, <2>2
  <1>4. ASSUME NEW j \in T
        PROVE  Total({k \in T : rest[k].minGPUMemory >= rest[j].minGPUMemory}, rest)["gpu"]
                 <= Usable(w, rest[j].minGPUMemory)
    <2> DEFINE m == rows[j].minGPUMemory
               A == {k \in T : rest[k].minGPUMemory >= m}
               B == {k \in S : rows[k].minGPUMemory >= m}
    <2>1. rest[j].minGPUMemory = m /\ A \subseteq B /\ B \subseteq S /\ A \subseteq T
      BY <1>4 DEF SameRequest
    <2>2. m \in Nat /\ Total(B, rows)["gpu"] <= Usable(w, m)
      BY <1>4, Zenon DEF Serves, Sized, SizedRow, Usable
    <2> HIDE DEF m, A, B
    <2>3. /\ Total(A, rest)["gpu"] \in Nat /\ Total(B, rows)["gpu"] \in Nat
          /\ Total(A, rest)["gpu"] <= Total(B, rows)["gpu"]
      BY <1>2, <2>1 DEF Dimension
    <2>4. Usable(w, m) \in Nat
      BY <2>2 DEF UsableCounts
    <2> QED BY <2>1, <2>2, <2>3, <2>4 DEF A
  <1> QED BY <1>1, <1>3, <1>4 DEF Serves, Usable

\* The planner can read these rows.
Snapshot(rows) == DOMAIN rows \subseteq Nat /\ Sized(DOMAIN rows, rows)

\* A plan places queued jobs on workers of the list, within capacity.
PlanFits ==
    \A rows, now : Snapshot(rows) /\ now \in Int =>
        /\ Plan(rows, now) \in Seq([job: Queued(rows), worker: Range(WorkerList)])
        /\ CapacityRespected(rows) =>
              \A w \in Range(WorkerList) :
                 Serves(Cluster[w], rows, Holders(rows, w) \cup GivenTo(Plan(rows, now), w))

\* Sequences of a smaller set, and what is left without the first element.
LEMMA Lists ==
    ASSUME NEW X, NEW q \in Seq(X)
    PROVE  /\ \A Y : X \subseteq Y => q \in Seq(Y)
           /\ \A i \in DOMAIN q : q[i] \in X
           /\ q # << >> => /\ Head(q) \in X /\ Tail(q) \in Seq(X) /\ 1 \in DOMAIN q /\ Head(q) = q[1]
                          /\ \A i \in DOMAIN Tail(q) :
                                i + 1 \in DOMAIN q /\ Tail(q)[i] = q[i + 1]
  OBVIOUS

-----------------------------------------------------------------------------
(* A worker serves one more job. *)

\* Every set of numbers that is not empty has a least one.
LeastNumbers == \A T \in SUBSET Nat : T # {} => \E n \in T : \A m \in T : n <= m

\* The members of S whose bar is at least m.
Above(S, rows, m) == {k \in S : rows[k].minGPUMemory >= m}

\* A worker that can serve S has the GPUs for every bar, not only for those
\* that some job of S has.
LEMMA ServesAbove ==
    ASSUME TotalsAdd, UsableCounts, LeastNumbers, NEW w \in Range(WorkerList),
           NEW S, NEW rows, Sized(S, rows), Serves(Cluster[w], rows, S), NEW m \in Nat
    PROVE  Total(Above(S, rows, m), rows)["gpu"] <= Usable(w, m)
  <1> DEFINE A == Above(S, rows, m)
             bars == {rows[k].minGPUMemory : k \in A}
  <1>1. Usable(w, m) \in Nat
    BY DEF UsableCounts
  <1>2. CASE A = {}
    <2>1. Total(A, rows)["gpu"] = 0
      BY <1>2, Zenon DEF TotalsAdd, Nothing, Dimension
    <2> QED BY <1>1, <2>1
  <1>3. CASE A # {}
    <2>1. \A k \in S : rows[k].minGPUMemory \in Nat
      BY Zenon DEF Sized, SizedRow
    <2>2. bars \in SUBSET Nat /\ bars # {}
      BY <1>3, <2>1, Zenon DEF Above
    <2> HIDE DEF A
    <2>3. PICK b \in bars : \A c \in bars : b <= c
      BY <2>2, Zenon DEF LeastNumbers
    <2>4. PICK j \in A : b = rows[j].minGPUMemory
      BY <2>3
    <2>5. j \in S /\ b \in Nat /\ m <= b
      BY <2>1, <2>4 DEF A, Above
    <2>6. Above(S, rows, b) = A
      BY <2>1, <2>3, <2>5 DEF A, Above
    <2>7. Total(Above(S, rows, b), rows)["gpu"] <= Usable(w, b)
      BY <2>4, <2>5, Zenon DEF Serves, Above, Usable
    <2>8. Usable(w, b) <= Usable(w, m) /\ Usable(w, b) \in Nat
      BY <2>5 DEF UsableCounts
    <2>9. Total(A, rows)["gpu"] \in Nat
      <3>1. Sized(A, rows)
        BY Zenon DEF Sized, A, Above
      <3> QED BY <3>1, Zenon DEF TotalsAdd, Dimension
    <2> QED BY <1>1, <2>6, <2>7, <2>8, <2>9 DEF A
  <1> QED BY <1>2, <1>3

\* A job that fits beside what is committed can be served with it.
LEMMA ServesOneMore ==
    ASSUME TotalsAdd, UsableCounts, LeastNumbers, NEW w \in Range(WorkerList),
           NEW S, NEW rows, NEW j, j \notin S, Sized(S \cup {j}, rows),
           Serves(Cluster[w], rows, S),
           Fits(rows[j], Free(Cluster[w], rows[j], Total(S, rows)))
    PROVE  Serves(Cluster[w], rows, S \cup {j})
  <1> DEFINE B == S \cup {j}
             g == rows[j].need["gpu"]
             b == rows[j].minGPUMemory
             c == Total(S, rows)["gpu"]
  <1>1. Sized(S, rows) /\ SizedRow(rows[j]) /\ \A k \in B : rows[k].minGPUMemory \in Nat
    BY Zenon DEF Sized, SizedRow
  <1>2. ASSUME NEW A, A \subseteq S
        PROVE  /\ Total(A, rows) \in [Dimension -> Nat] /\ Total(A, rows)["gpu"] <= c
               /\ Total(A \cup {j}, rows) = Plus(Total(A, rows), rows[j].need)
    <2>1. Sized(A, rows) /\ Sized(A \cup {j}, rows) /\ "gpu" \in Dimension
      BY <1>1, <1>2 DEF Sized, Dimension
    <2>2. (A \cup {j}) \ {j} = A
      BY <1>2
    <2>3. Total(A \cup {j}, rows) = Plus(Total((A \cup {j}) \ {j}, rows), rows[j].need)
      BY <2>1, Zenon DEF TotalsAdd
    <2> QED BY <1>1, <1>2, <2>1, <2>2, <2>3, Zenon DEF TotalsAdd
  <1>3. rows[j].need \in [Dimension -> Nat] /\ g \in Nat /\ b \in Nat /\ c \in Nat
    BY <1>1, <1>2 DEF SizedRow, Dimension
  <1>4. ASSUME NEW d \in Dimension \ {"gpu"}
        PROVE  Total(B, rows)[d] <= Cluster[w].capacity[d]
    <2>1. Cluster[w].capacity[d] - Total(S, rows)[d] >= rows[j].need[d]
      BY <1>4 DEF Fits, Free
    <2>2. Cluster[w].capacity[d] \in Nat
      BY <1>4, PlannerAssumption
    <2>3. Total(B, rows)[d] = Total(S, rows)[d] + rows[j].need[d]
      <3>1. Total(B, rows) = Plus(Total(S, rows), rows[j].need)
        BY <1>2
      <3> QED BY <1>4, <3>1, Zenon DEF Plus
    <2>4. Total(S, rows)[d] \in Nat /\ rows[j].need[d] \in Nat
      BY <1>2, <1>3, <1>4
    <2> QED BY <2>1, <2>2, <2>3, <2>4
  <1>5. ASSUME NEW k \in B
        PROVE  Total(Above(B, rows, rows[k].minGPUMemory), rows)["gpu"]
                  <= Usable(w, rows[k].minGPUMemory)
    <2> DEFINE m == rows[k].minGPUMemory
               A == Above(S, rows, m)
    <2>1. m \in Nat /\ A \subseteq S
      BY <1>1, <1>5 DEF Above
    <2>2. Total(A, rows)["gpu"] <= Usable(w, m)
      BY <1>1, <2>1, ServesAbove
    <2>3. /\ Usable(w, m) \in Nat /\ Usable(w, b) \in Nat /\ (m <= b => Usable(w, b) <= Usable(w, m))
          /\ FreeGPUCount(Cluster[w], b, c) = IF Usable(w, b) >= c THEN Usable(w, b) - c ELSE 0
      BY <1>3, <2>1, Zenon DEF UsableCounts
    <2>4. FreeGPUCount(Cluster[w], b, c) >= g
      BY DEF Fits, Free, Dimension
    <2>5. Above(B, rows, m) = IF b >= m THEN A \cup {j} ELSE A
      BY DEF Above
    <2> HIDE DEF A, m, b, c
    <2>6. /\ Total(A, rows)["gpu"] \in Nat /\ Total(A, rows)["gpu"] <= c
          /\ Total(A \cup {j}, rows)["gpu"] = Total(A, rows)["gpu"] + g
      <3>1. /\ Total(A, rows) \in [Dimension -> Nat] /\ Total(A, rows)["gpu"] <= c
            /\ Total(A \cup {j}, rows) = Plus(Total(A, rows), rows[j].need)
        BY <1>2, <2>1, Zenon
      <3> QED BY <3>1, Zenon DEF Plus, Dimension
    <2> HIDE DEF g
    <2>7. Total(Above(B, rows, m), rows)["gpu"] <= Usable(w, m)
      <3>1. CASE ~(b >= m)
        BY <2>2, <2>5, <3>1
      <3>2. CASE b >= m
        <4> DEFINE t == Total(A, rows)["gpu"]
        <4>1. Above(B, rows, m) = A \cup {j}
          BY <2>5, <3>2
        <4>2. Total(A \cup {j}, rows)["gpu"] = t + g /\ t \in Nat /\ t <= c /\ t <= Usable(w, m)
          BY <2>2, <2>6
        <4>3. Usable(w, b) <= Usable(w, m) /\ (g > 0 => Usable(w, b) - c >= g)
          BY <1>3, <2>1, <2>3, <2>4, <3>2
        <4> HIDE DEF t
        <4>4. t + g <= Usable(w, m)
          BY <1>3, <2>3, <4>2, <4>3
        <4> QED BY <4>1, <4>2, <4>4
      <3> QED BY <3>1, <3>2
    <2> QED BY <2>7 DEF m
  <1> QED BY <1>4, <1>5, Zenon DEF Serves, Above, Usable

\* A job for which some worker is eligible is given to one of these.
LEMMA SelectsEligible ==
    ASSUME UsableCounts, LeastNumbers, NEW job, SizedRow(job),
           NEW committed \in [Range(WorkerList) -> [Dimension -> Nat]],
           Eligible(job, committed) # {}
    PROVE  SelectWorker(job, committed) \in Eligible(job, committed)
  <1> DEFINE C == Eligible(job, committed)
             surplus(w) == Free(Cluster[w], job, committed[w])["gpu"] - job.need["gpu"]
             Best(w) == \A v \in C : surplus(w) < surplus(v) \/ (surplus(w) = surplus(v) /\ w <= v)
  <1>1. ASSUME NEW w \in C
        PROVE  w \in Nat /\ surplus(w) \in Nat
    <2>1. /\ w \in Range(WorkerList) /\ w \in Nat
          /\ Free(Cluster[w], job, committed[w])["gpu"] >= job.need["gpu"]
      BY <1>1, PlannerAssumption DEF Eligible, Fits, Dimension, Range
    <2>2. committed[w]["gpu"] \in Nat /\ job.minGPUMemory \in Nat /\ job.need["gpu"] \in Nat
      BY <2>1 DEF SizedRow, Dimension
    <2>3. Free(Cluster[w], job, committed[w])["gpu"] =
             FreeGPUCount(Cluster[w], job.minGPUMemory, committed[w]["gpu"])
      BY DEF Free, Dimension
    <2>4. FreeGPUCount(Cluster[w], job.minGPUMemory, committed[w]["gpu"]) \in Nat
      <3> DEFINE m == job.minGPUMemory
                 c == committed[w]["gpu"]
      <3>1. /\ Usable(w, m) \in Nat /\ c \in Nat
            /\ FreeGPUCount(Cluster[w], m, c) = IF Usable(w, m) >= c THEN Usable(w, m) - c ELSE 0
        BY <2>1, <2>2, Zenon DEF UsableCounts
      <3> HIDE DEF m, c
      <3>2. FreeGPUCount(Cluster[w], m, c) \in Nat
        BY <3>1
      <3> QED BY <3>2 DEF m, c
    <2> QED BY <2>1, <2>2, <2>3, <2>4
  <1> HIDE DEF C, surplus
  <1> DEFINE values == {surplus(w) : w \in C}
  <1>2. PICK w1 \in C : \A v \in C : surplus(w1) <= surplus(v)
    <2>1. values \in SUBSET Nat /\ values # {}
      BY <1>1, Zenon DEF C
    <2>2. PICK x \in values : \A y \in values : x <= y
      BY <2>1, Zenon DEF LeastNumbers
    <2> QED BY <2>2, Zenon
  <1> DEFINE ties == {w \in C : surplus(w) = surplus(w1)}
  <1>3. PICK w2 \in ties : \A v \in ties : w2 <= v
    <2>1. ties \in SUBSET Nat /\ ties # {}
      BY <1>1, <1>2
    <2> QED BY <2>1, Zenon DEF LeastNumbers
  <1>4. w2 \in C /\ Best(w2)
    <2>1. ASSUME NEW v \in C
          PROVE  surplus(w2) < surplus(v) \/ (surplus(w2) = surplus(v) /\ w2 <= v)
      BY <1>1, <1>2, <1>3, <2>1
    <2> QED BY <1>3, <2>1
  <1>5. SelectWorker(job, committed) = CHOOSE w \in C : Best(w)
    BY DEF SelectWorker, C, surplus
  <1> HIDE DEF Best
  <1> QED BY <1>4, <1>5, Zenon DEF C

\* The last entry of a longer list is the new one.
LEMMA Longer ==
    ASSUME NEW X, NEW q \in Seq(X), NEW e \in X
    PROVE  /\ Append(q, e) \in Seq(X)
           /\ DOMAIN Append(q, e) = DOMAIN q \cup {Len(q) + 1} /\ Len(q) + 1 \notin DOMAIN q
           /\ Append(q, e)[Len(q) + 1] = e
           /\ \A i \in DOMAIN q : Append(q, e)[i] = q[i]
  OBVIOUS

\* What a longer list of assignments gives to the workers.
LEMMA GivenOneMore ==
    ASSUME NEW X, NEW q \in Seq(X), NEW e \in X, NEW w
    PROVE  GivenTo(Append(q, e), w) = GivenTo(q, w) \cup (IF w = e.worker THEN {e.job} ELSE {})
  <1> DEFINE p == Append(q, e)
             l == Len(q) + 1
  <1>1. /\ DOMAIN p = DOMAIN q \cup {l} /\ l \notin DOMAIN q /\ p[l] = e
        /\ \A i \in DOMAIN q : p[i] = q[i]
    BY Longer
  <1> HIDE DEF p, l
  <1>2. \A x : x \in GivenTo(p, w) <=> \E i \in DOMAIN p : p[i].worker = w /\ x = p[i].job
    BY Zenon DEF GivenTo
  <1>3. \A x : x \in GivenTo(q, w) <=> \E i \in DOMAIN q : q[i].worker = w /\ x = q[i].job
    BY Zenon DEF GivenTo
  <1>4. \A x : x \in GivenTo(p, w) <=> x \in GivenTo(q, w) \/ (w = e.worker /\ x = e.job)
    BY <1>1, <1>2, <1>3
  <1> QED BY <1>4 DEF p

-----------------------------------------------------------------------------
(* One round of Plan. *)

\* What w serves once the assignments are written.
Beside(rows, a, w) == Holders(rows, w) \cup GivenTo(a, w)

\* The jobs ahead of the m-th in the queue, and what is committed to the
\* workers when it is considered.
AheadOf(q, m) == {q[i] : i \in 1 .. m - 1}

CommittedAhead(rows, a, q, m) ==
    [w \in Range(WorkerList) |-> Total(Holders(rows, w) \cup (GivenTo(a, w) \cap AheadOf(q, m)), rows)]

Fitted(rows) == [job: Queued(rows), worker: Range(WorkerList)]

\* The queue is one of queued jobs, each once.
Queue(rows, q) ==
    /\ q \in Seq(Queued(rows))
    /\ \A i, k \in DOMAIN q : q[i] = q[k] => i = k

\* The assignments and commitments after n jobs of the queue: each of the n is
\* assigned, once, exactly if some worker had room for it beside those ahead,
\* the commitments are those of what every worker then serves, and it can.
Partial(rows, q, n, a, committed) ==
    /\ a \in Seq(Fitted(rows))
    /\ \A i \in DOMAIN a : \E m \in 1 .. n : a[i].job = q[m]
    /\ \A i, k \in DOMAIN a : a[i].job = a[k].job => i = k
    /\ committed = [w \in Range(WorkerList) |-> Total(Beside(rows, a, w), rows)]
    /\ CapacityRespected(rows) =>
          \A w \in Range(WorkerList) : Serves(Cluster[w], rows, Beside(rows, a, w))
    /\ \A m \in 1 .. n :
          (\E i \in DOMAIN a : a[i].job = q[m]) <=>
              Eligible(rows[q[m]], CommittedAhead(rows, a, q, m)) # {}

\* Who holds capacity or is assigned is in the snapshot; a queued job holds none.
LEMMA BesideRows ==
    ASSUME NEW rows, Snapshot(rows), NEW a \in Seq(Fitted(rows)), NEW w
    PROVE  /\ Beside(rows, a, w) \subseteq DOMAIN rows /\ Sized(Beside(rows, a, w), rows)
           /\ \A j \in Queued(rows) : j \in DOMAIN rows /\ j \notin Holders(rows, w)
  <1>1. Queued(rows) \subseteq DOMAIN rows /\ Holders(rows, w) \subseteq DOMAIN rows
    BY DEF Queued, Holders
  <1>2. \A i \in DOMAIN a : a[i] \in Fitted(rows)
    BY Lists
  <1>3. \A e \in Fitted(rows) : e.job \in Queued(rows)
    BY DEF Fitted
  <1>4. GivenTo(a, w) \subseteq DOMAIN rows
    BY <1>1, <1>2, <1>3, Zenon DEF GivenTo
  <1>5. Beside(rows, a, w) \subseteq DOMAIN rows
    BY <1>1, <1>4, Zenon DEF Beside
  <1>6. Sized(Beside(rows, a, w), rows)
    BY <1>5, Zenon DEF Snapshot, Sized
  <1>7. \A j \in Queued(rows) : j \notin Holders(rows, w)
    BY DEF Queued, Holders, HoldsCapacity
  <1> QED BY <1>1, <1>5, <1>6, <1>7

\* The commitments that the next job meets.
LEMMA AheadIsAll ==
    ASSUME NEW rows, NEW q, NEW n \in Nat, NEW a, NEW committed, Partial(rows, q, n, a, committed)
    PROVE  CommittedAhead(rows, a, q, n + 1) = committed
  <1>1. ASSUME NEW w
        PROVE  GivenTo(a, w) \cap AheadOf(q, n + 1) = GivenTo(a, w)
    <2>1. \A i \in DOMAIN a : a[i].job \in AheadOf(q, n + 1)
      BY DEF Partial, AheadOf
    <2> QED BY <2>1, Zenon DEF GivenTo
  <1> QED BY <1>1, Zenon DEF Partial, CommittedAhead, Beside

\* The next job is none of those assigned.
LEMMA NextIsNew ==
    ASSUME NEW rows, NEW q, Queue(rows, q), NEW n \in Nat, n + 1 \in DOMAIN q,
           NEW a, NEW committed, Partial(rows, q, n, a, committed)
    PROVE  /\ \A i \in DOMAIN a : a[i].job # q[n + 1]
           /\ \A m \in 1 .. n : q[m] # q[n + 1]
  <1>1. \A m \in 1 .. n : q[m] # q[n + 1]
    <2>1. \A m \in 1 .. n : m \in DOMAIN q /\ m # n + 1
      BY DEF Queue
    <2> QED BY <2>1, Zenon DEF Queue
  <1>2. \A i \in DOMAIN a : \E m \in 1 .. n : a[i].job = q[m]
    BY Zenon DEF Partial
  <1> QED BY <1>1, <1>2, Zenon

\* A job that no worker has room for is skipped.
LEMMA SkipKeeps ==
    ASSUME NEW rows, NEW q, Queue(rows, q), NEW n \in Nat, n + 1 \in DOMAIN q,
           NEW a, NEW committed, Partial(rows, q, n, a, committed),
           Eligible(rows[q[n + 1]], committed) = {}
    PROVE  Partial(rows, q, n + 1, a, committed)
  <1>0. 1 .. (n + 1) = (1 .. n) \cup {n + 1} /\ 1 .. n \subseteq DOMAIN q /\ n + 1 \notin 1 .. n
    BY DEF Queue
  <1> DEFINE l == n + 1
  <1> HIDE DEF l
  <1>1. \A i \in DOMAIN a : a[i].job # q[l]
    BY NextIsNew, Zenon DEF l
  <1>2. Eligible(rows[q[l]], CommittedAhead(rows, a, q, l)) = {}
    BY AheadIsAll, Zenon DEF l
  <1>3. \A i \in DOMAIN a : \E m \in 1 .. l : a[i].job = q[m]
    BY <1>0, Zenon DEF Partial, l
  <1>4. \A m \in 1 .. l :
          (\E i \in DOMAIN a : a[i].job = q[m]) <=>
              Eligible(rows[q[m]], CommittedAhead(rows, a, q, m)) # {}
    BY <1>0, <1>1, <1>2, Zenon DEF Partial, l
  <1> QED BY <1>3, <1>4, Zenon DEF Partial, l

\* Any other is given to an eligible worker, which can serve it as well.
LEMMA PlaceKeeps ==
    ASSUME TotalsAdd, UsableCounts, LeastNumbers,
           NEW rows, Snapshot(rows), NEW q, Queue(rows, q), NEW n \in Nat, n + 1 \in DOMAIN q,
           NEW a, NEW committed, Partial(rows, q, n, a, committed),
           NEW w \in Eligible(rows[q[n + 1]], committed)
    PROVE  Partial(rows, q, n + 1, Append(a, [job |-> q[n + 1], worker |-> w]),
                   Reserve(committed, w, rows[q[n + 1]]))
  <1> DEFINE l == n + 1
             j == q[l]
             e == [job |-> j, worker |-> w]
             p == Append(a, e)
  <1>0. 1 .. l = (1 .. n) \cup {l} /\ n + 1 \notin 1 .. n
    OBVIOUS
  <1>1. /\ a \in Seq(Fitted(rows)) /\ w \in Range(WorkerList) /\ j \in Queued(rows)
        /\ e \in Fitted(rows) /\ e.job = j /\ e.worker = w
    <2>1. j \in Queued(rows)
      BY Lists DEF Queue
    <2>2. w \in Range(WorkerList)
      BY DEF Eligible
    <2>3. e \in Fitted(rows)
      BY <2>1, <2>2 DEF Fitted
    <2> QED BY <2>1, <2>2, <2>3 DEF Partial
  <1>2. (\A i \in DOMAIN a : a[i].job # j) /\ \A m \in 1 .. n : q[m] # j
    BY NextIsNew
  <1> HIDE DEF e
  <1>3. /\ p \in Seq(Fitted(rows)) /\ DOMAIN p = DOMAIN a \cup {Len(a) + 1}
        /\ Len(a) + 1 \notin DOMAIN a /\ p[Len(a) + 1] = e /\ \A i \in DOMAIN a : p[i] = a[i]
    BY <1>1, Longer
  <1>4. \A v : GivenTo(p, v) = GivenTo(a, v) \cup (IF v = w THEN {j} ELSE {})
    BY <1>1, GivenOneMore
  <1> DEFINE s == Len(a) + 1
  <1> HIDE DEF s, p, l, j
  <1>5. \A i \in DOMAIN p : \E m \in 1 .. l : p[i].job = q[m]
    <2>1. p[s].job = q[l] /\ l \in 1 .. l
      BY <1>1, <1>3, <1>0 DEF s, j
    <2>2. \A i \in DOMAIN a : \E m \in 1 .. l : p[i].job = q[m]
      <3>1. \A i \in DOMAIN a : p[i] = a[i] /\ \E m \in 1 .. n : a[i].job = q[m]
        BY <1>3, Zenon DEF Partial
      <3>2. \A m \in 1 .. n : m \in 1 .. l
        BY <1>0
      <3> QED BY <3>1, <3>2, Zenon
    <2> QED BY <1>3, <2>1, <2>2, Zenon DEF s
  <1>6. \A i, k \in DOMAIN p : p[i].job = p[k].job => i = k
    <2>1. \A i \in DOMAIN a : p[i].job = a[i].job /\ p[i].job # p[s].job
      BY <1>1, <1>2, <1>3, Zenon DEF s
    <2>2. \A i, k \in DOMAIN a : p[i].job = p[k].job => i = k
      BY <2>1, Zenon DEF Partial
    <2> QED BY <1>3, <2>1, <2>2, Zenon DEF s
  <1>7. \A v : Beside(rows, p, v) = IF v = w THEN Beside(rows, a, v) \cup {j} ELSE Beside(rows, a, v)
    BY <1>4 DEF Beside
  <1>8. /\ \A v : Sized(Beside(rows, p, v), rows) /\ j \notin Beside(rows, a, v)
    <2>1. \A v : Sized(Beside(rows, p, v), rows) /\ j \notin Holders(rows, v)
      BY <1>1, <1>3, BesideRows, Zenon
    <2>2. \A v : j \notin GivenTo(a, v)
      BY <1>2, Zenon DEF GivenTo
    <2> QED BY <2>1, <2>2, Zenon DEF Beside
  <1>9. Reserve(committed, w, rows[j]) = [v \in Range(WorkerList) |-> Total(Beside(rows, p, v), rows)]
    <2>1. committed = [v \in Range(WorkerList) |-> Total(Beside(rows, a, v), rows)]
      BY Zenon DEF Partial
    <2>2. Total(Beside(rows, p, w), rows) = Plus(Total(Beside(rows, a, w), rows), rows[j].need)
      <3>1. Beside(rows, p, w) = Beside(rows, a, w) \cup {j}
        BY <1>7
      <3>2. Beside(rows, p, w) \ {j} = Beside(rows, a, w) /\ j \in Beside(rows, p, w)
        BY <1>8, <3>1
      <3> DEFINE S == Beside(rows, p, w)
      <3>3. Sized(S, rows) /\ j \in S
        BY <1>8, <3>2, Zenon
      <3> HIDE DEF S
      <3>4. Total(S, rows) = Plus(Total(S \ {j}, rows), rows[j].need)
        BY <3>3, Zenon DEF TotalsAdd
      <3> QED BY <3>2, <3>4, Zenon DEF S
    <2>3. \A v : v # w => Total(Beside(rows, p, v), rows) = Total(Beside(rows, a, v), rows)
      BY <1>7
    <2> HIDE DEF Beside
    <2> QED BY <2>1, <2>2, <2>3, <1>1 DEF Reserve
  <1>10. ASSUME CapacityRespected(rows), NEW v \in Range(WorkerList)
         PROVE  Serves(Cluster[v], rows, Beside(rows, p, v))
    <2>1. Serves(Cluster[v], rows, Beside(rows, a, v))
      BY <1>10, Zenon DEF Partial
    <2>2. CASE v # w
      BY <1>7, <2>1, <2>2
    <2>3. CASE v = w
      <3>1. committed[w] = Total(Beside(rows, a, w), rows)
        BY <1>1 DEF Partial
      <3>2. Fits(rows[j], Free(Cluster[w], rows[j], Total(Beside(rows, a, w), rows)))
        BY <3>1 DEF Eligible, j, l
      <3>3. Beside(rows, p, w) = Beside(rows, a, w) \cup {j}
        BY <1>7
      <3>4. Sized(Beside(rows, a, w) \cup {j}, rows) /\ j \notin Beside(rows, a, w)
        BY <1>8, <3>3
      <3> HIDE DEF Beside
      <3>5. Serves(Cluster[w], rows, Beside(rows, a, w) \cup {j})
        BY <1>1, <2>1, <2>3, <3>2, <3>4, ServesOneMore, Zenon
      <3> QED BY <2>3, <3>3, <3>5
    <2> QED BY <2>2, <2>3
  <1>11. ASSUME NEW m \in 1 .. l
         PROVE  (\E i \in DOMAIN p : p[i].job = q[m]) <=>
                    Eligible(rows[q[m]], CommittedAhead(rows, p, q, m)) # {}
    <2>1. \A v : GivenTo(p, v) \cap AheadOf(q, m) = GivenTo(a, v) \cap AheadOf(q, m)
      <3>1. j \notin AheadOf(q, m)
        BY <1>2 DEF AheadOf, l
      <3> QED BY <1>4, <3>1
    <2>2. CommittedAhead(rows, p, q, m) = CommittedAhead(rows, a, q, m)
      BY <2>1 DEF CommittedAhead
    <2>3. CASE m = l
      <3>1. CommittedAhead(rows, a, q, l) = committed
        BY AheadIsAll DEF l
      <3>2. p[s].job = q[l] /\ s \in DOMAIN p
        BY <1>1, <1>3 DEF s, j
      <3> QED BY <2>2, <2>3, <3>1, <3>2 DEF l
    <2>4. CASE m \in 1 .. n
      <3>1. (\E i \in DOMAIN p : p[i].job = q[m]) <=> \E i \in DOMAIN a : a[i].job = q[m]
        BY <1>1, <1>2, <1>3, <2>4
      <3> QED BY <2>2, <2>4, <3>1, Zenon DEF Partial
    <2> QED BY <1>0, <2>3, <2>4 DEF l
  <1>12. Partial(rows, q, l, p, Reserve(committed, w, rows[j]))
    BY <1>3, <1>5, <1>6, <1>9, <1>10, <1>11, Zenon DEF Partial
  <1> QED BY <1>12 DEF p, e, j, l

-----------------------------------------------------------------------------
(* The loops. *)

\* Plan's loop, and that of PlanPreemptions, run over the first l jobs of the
\* queue.
Begin(rows) == [assignments |-> << >>, committed |-> CommittedByWorker(rows)]

Placing(rows, q, l, f) ==
    f = [n \in 0 .. l |-> IF n = 0 THEN Begin(rows) ELSE Place(rows, f[n - 1], q[n])]

Helping(rows, first, now, q, l, f) ==
    f = [n \in 0 .. l |-> IF n = 0 THEN first ELSE Help(rows, f[n - 1], q[n], now)]

\* Either of them.
Body(places, rows, now, acc, j) ==
    IF places THEN Place(rows, acc, j) ELSE Help(rows, acc, j, now)

Running(places, rows, now, first, q, l, f) ==
    f = [n \in 0 .. l |-> IF n = 0 THEN first ELSE Body(places, rows, now, f[n - 1], q[n])]

\* The loops can be run: a recursive definition over the numbers up to l has a
\* solution, or there would be a least l for which it has none.
LEMMA LoopsRun ==
    ASSUME LeastNumbers, NEW places, NEW rows, NEW now, NEW first, NEW q
    PROVE  \A l \in Nat : \E f : Running(places, rows, now, first, q, l, f)
  <1> DEFINE T == {l \in Nat : ~ \E f : Running(places, rows, now, first, q, l, f)}
  <1> SUFFICES ASSUME T # {} PROVE FALSE
    OBVIOUS
  <1>1. PICK l \in T : \A m \in T : l <= m
    BY Zenon DEF LeastNumbers
  <1>2. CASE l = 0
    <2> DEFINE f == [n \in 0 .. 0 |-> IF n = 0 THEN first ELSE Body(places, rows, now, first, q[n])]
    <2>1. Running(places, rows, now, first, q, 0, f)
      BY DEF Running
    <2> QED BY <1>1, <1>2, <2>1
  <1>3. CASE l # 0
    <2>1. l - 1 \in Nat /\ l - 1 \notin T
      BY <1>1, <1>3
    <2>2. PICK f : Running(places, rows, now, first, q, l - 1, f)
      BY <2>1, Zenon
    <2> DEFINE g == [n \in 0 .. l |-> IF n <= l - 1 THEN f[n] ELSE Body(places, rows, now, f[l - 1], q[l])]
    <2>3. ASSUME NEW n \in 0 .. l
          PROVE  g[n] = IF n = 0 THEN first ELSE Body(places, rows, now, g[n - 1], q[n])
      <3>1. CASE n = 0
        BY <1>1, <1>3, <2>2, <3>1 DEF Running
      <3>2. CASE n # 0 /\ n <= l - 1
        <4>1. /\ n \in 0 .. l - 1 /\ n - 1 \in 0 .. l - 1 /\ n - 1 \in 0 .. l /\ n - 1 <= l - 1
          BY <1>1, <3>2
        <4>2. g[n] = f[n] /\ g[n - 1] = f[n - 1]
          BY <3>2, <4>1
        <4> HIDE DEF g
        <4>3. f[n] = Body(places, rows, now, f[n - 1], q[n])
          BY <2>2, <3>2, <4>1, Zenon DEF Running
        <4> QED BY <3>2, <4>2, <4>3
      <3>3. CASE n = l
        <4>1. n - 1 \in 0 .. l /\ n - 1 <= l - 1 /\ ~(n <= l - 1)
          BY <1>1, <1>3, <3>3
        <4>2. g[n] = Body(places, rows, now, f[l - 1], q[l]) /\ g[n - 1] = f[l - 1]
          BY <3>3, <4>1
        <4> QED BY <1>3, <3>3, <4>2
      <3> QED BY <1>1, <3>1, <3>2, <3>3
    <2>4. DOMAIN g = 0 .. l /\ g = [n \in DOMAIN g |-> g[n]]
      OBVIOUS
    <2> HIDE DEF g
    <2>5. Running(places, rows, now, first, q, l, g)
      BY <2>3, <2>4 DEF Running
    <2> QED BY <1>1, <2>5
  <1> QED BY <1>2, <1>3

\* So can each of the two.
LEMMA BothRun ==
    ASSUME LeastNumbers, NEW rows, NEW now, NEW first, NEW q, NEW l \in Nat
    PROVE  (\E f : Placing(rows, q, l, f)) /\ \E f : Helping(rows, first, now, q, l, f)
  <1>1. PICK f : Running(TRUE, rows, now, Begin(rows), q, l, f)
    BY LoopsRun, Zenon
  <1>2. \A acc, j : Body(TRUE, rows, now, acc, j) = Place(rows, acc, j)
    BY Zenon DEF Body
  <1>3. Placing(rows, q, l, f)
    BY <1>1, <1>2, Zenon DEF Running, Placing
  <1>4. PICK g : Running(FALSE, rows, now, first, q, l, g)
    BY LoopsRun, Zenon
  <1>5. \A acc, j : Body(FALSE, rows, now, acc, j) = Help(rows, acc, j, now)
    BY Zenon DEF Body
  <1>6. Helping(rows, first, now, q, l, g)
    BY <1>4, <1>5, Zenon DEF Running, Helping
  <1> QED BY <1>3, <1>6, Zenon

\* What Plan returns is the outcome of its loop over the whole queue.
LEMMA PlanIsTheLoop ==
    ASSUME LeastNumbers, NEW rows, NEW now, NEW q,
           q = SortedByPriority(rows, Queued(rows), now), Len(q) \in Nat
    PROVE  \E f : Placing(rows, q, Len(q), f) /\ Plan(rows, now) = f[Len(q)].assignments
  <1> DEFINE f == CHOOSE g : Placing(rows, q, Len(q), g)
  <1>1. Placing(rows, q, Len(q), f)
    BY BothRun, Zenon
  <1>2. Plan(rows, now) = f[Len(q)].assignments
    BY Zenon DEF Plan, Placing, Begin
  <1> QED BY <1>1, <1>2, Zenon

\* The loop's invariant holds throughout.
LEMMA PlacingKeeps ==
    ASSUME TotalsAdd, UsableCounts, LeastNumbers,
           NEW rows, Snapshot(rows), NEW q, Queue(rows, q),
           NEW f, Placing(rows, q, Len(q), f)
    PROVE  \A n \in 0 .. Len(q) : Partial(rows, q, n, f[n].assignments, f[n].committed)
  <1> DEFINE P(n) == Partial(rows, q, n, f[n].assignments, f[n].committed)
             T == {n \in 0 .. Len(q) : ~P(n)}
  <1>0. Len(q) \in Nat /\ DOMAIN q = 1 .. Len(q)
    BY DEF Queue
  <1> SUFFICES ASSUME T # {} PROVE FALSE
    OBVIOUS
  <1>1. PICK n \in T : \A m \in T : n <= m
    <2>1. T \in SUBSET Nat
      BY <1>0
    <2> QED BY <2>1, Zenon DEF LeastNumbers
  <1>2. CASE n = 0
    <2> DEFINE none == << >>
    <2>1. f[0] = Begin(rows)
      BY <1>0 DEF Placing
    <2>2. f[0].assignments = none /\ f[0].committed = CommittedByWorker(rows)
      BY <2>1 DEF Begin
    <2>3. none \in Seq(Fitted(rows)) /\ DOMAIN none = {} /\ 1 .. 0 = {}
      OBVIOUS
    <2> HIDE DEF none
    <2>4. \A w : Beside(rows, none, w) = Holders(rows, w)
      BY <2>3 DEF Beside, GivenTo
    <2>5. Partial(rows, q, 0, none, CommittedByWorker(rows))
      BY <2>3, <2>4, Zenon DEF Partial, CommittedByWorker, CapacityRespected
    <2> QED BY <1>1, <1>2, <2>2, <2>5
  <1>3. CASE n # 0
    <2> DEFINE k == n - 1
               a == f[k].assignments
               committed == f[k].committed
               job == rows[q[n]]
    <2>1. /\ k \in Nat /\ k \in 0 .. Len(q) /\ n = k + 1 /\ k + 1 \in DOMAIN q /\ k \notin T
          /\ n \in 0 .. Len(q) /\ n \in DOMAIN q
      BY <1>0, <1>1, <1>3
    <2>2. Partial(rows, q, k, a, committed)
      BY <2>1
    <2>3. f[n] = Place(rows, f[k], q[n])
      BY <1>3, <2>1, Zenon DEF Placing
    <2> HIDE DEF k, T
    <2>4. SizedRow(job)
      <3>1. q[n] \in Queued(rows)
        BY <2>1, Lists DEF Queue
      <3> QED BY <3>1, Zenon DEF Snapshot, Sized, Queued
    <2>5. committed \in [Range(WorkerList) -> [Dimension -> Nat]]
      <3>1. \A w : Total(Beside(rows, a, w), rows) \in [Dimension -> Nat]
        BY <2>2, BesideRows, Zenon DEF TotalsAdd, Partial
      <3>2. committed = [w \in Range(WorkerList) |-> Total(Beside(rows, a, w), rows)]
        BY <2>2, Zenon DEF Partial
      <3> HIDE DEF a, committed
      <3> QED BY <3>1, <3>2, Zenon
    <2>6. CASE Eligible(job, committed) = {}
      <3>1. f[n] = f[k]
        BY <2>3, <2>6, Zenon DEF Place
      <3>2. Partial(rows, q, k + 1, a, committed)
        BY <2>1, <2>2, <2>6, SkipKeeps, Zenon
      <3> QED BY <1>1, <2>1, <3>1, <3>2 DEF T
    <2>7. CASE Eligible(job, committed) # {}
      <3> DEFINE w == SelectWorker(job, committed)
      <3>1. w \in Eligible(job, committed)
        BY <2>4, <2>5, <2>7, SelectsEligible, Zenon
      <3>2. f[n] = [assignments |-> Append(a, [job |-> q[n], worker |-> w]),
                    committed |-> Reserve(committed, w, job)]
        BY <2>3, <2>7, Zenon DEF Place
      <3> HIDE DEF w
      <3>3. Partial(rows, q, k + 1, Append(a, [job |-> q[n], worker |-> w]),
                    Reserve(committed, w, job))
        BY <2>1, <2>2, <3>1, PlaceKeeps, Zenon
      <3>4. P(n)
        BY <2>1, <3>2, <3>3
      <3> QED BY <1>1, <3>4 DEF T
    <2> QED BY <2>6, <2>7
  <1> QED BY <1>2, <1>3

-----------------------------------------------------------------------------
(* The order of service, and what Plan returns. *)

\* R orders S strictly and totally.
Orders(R, S) ==
    /\ \A i \in S : <<i, i>> \notin R
    /\ \A i, k, l \in S : <<i, k>> \in R /\ <<k, l>> \in R => <<i, l>> \in R
    /\ \A i, k \in S : i # k => <<i, k>> \in R \/ <<k, i>> \in R

\* q lists the members of S in the order R.
Lines(q, S, R) ==
    /\ q \in Seq(S)
    /\ \A j \in S : \E i \in DOMAIN q : q[i] = j
    /\ \A i, k \in DOMAIN q : i < k <=> <<q[i], q[k]>> \in R

\* What SortedBy does.
Sorts == \A S, R : (\E A : S \subseteq A /\ IsFiniteSet(A)) /\ Orders(R, S) => Lines(SortedBy(S, R), S, R)

\* Nothing is listed twice.
LEMMA LinedOnce ==
    ASSUME NEW S, NEW R, Orders(R, S), NEW q, Lines(q, S, R)
    PROVE  \A i, k \in DOMAIN q : q[i] = q[k] => i = k
  <1> SUFFICES ASSUME NEW i \in DOMAIN q, NEW k \in DOMAIN q, q[i] = q[k]
               PROVE  i = k
    OBVIOUS
  <1>1. q[i] \in S /\ i \in Int /\ k \in Int
    BY Lists DEF Lines
  <1>2. <<q[i], q[k]>> \notin R /\ <<q[k], q[i]>> \notin R
    BY <1>1, Zenon DEF Orders
  <1>3. ~(i < k) /\ ~(k < i)
    BY <1>2, Zenon DEF Lines
  <1> QED BY <1>1, <1>3

\* Priorities are numbers, however long a job has waited.
LEMMA PriorityIsNumber ==
    ASSUME NEW job, SizedRow(job), NEW now \in Int
    PROVE  EffectivePriority(job, now) \in Int
  <1>1. job.priority \in Int /\ job.createdAt \in Int /\ AgingInterval \in Nat \ {0} /\ MaxAgingBonus \in Nat
    BY PlannerAssumption DEF SizedRow
  <1> DEFINE bonus == (now - job.createdAt) \div AgingInterval
  <1>2. now - job.createdAt \in Int
    BY <1>1
  <1>3. bonus \in Int
    BY <1>1, <1>2
  <1> HIDE DEF bonus
  <1>4. Min({bonus, MaxAgingBonus}) \in Int
    <2>1. \E x \in {bonus, MaxAgingBonus} : \A y \in {bonus, MaxAgingBonus} : x =< y
      BY <1>1, <1>3
    <2>2. Min({bonus, MaxAgingBonus}) \in {bonus, MaxAgingBonus}
      BY <2>1, Zenon DEF Min
    <2> QED BY <1>1, <1>3, <2>2
  <1> HIDE DEF Min
  <1> QED BY <1>1, <1>4 DEF EffectivePriority, bonus

\* The orders that the planner sorts by, on a set of the snapshot's jobs.
Service(rows, S, now) == {p \in S \X S : ServedBefore(rows, p[1], p[2], now)}

Sacrifice(rows, S, now) == {p \in S \X S : PreemptedBefore(rows, p[1], p[2], now)}

\* They leave nothing open: the ID decides in the end.
LEMMA PlannerOrders ==
    ASSUME NEW rows, Snapshot(rows), NEW now \in Int, NEW S, S \subseteq DOMAIN rows
    PROVE  Orders(Service(rows, S, now), S) /\ Orders(Sacrifice(rows, S, now), S)
  <1> DEFINE e == [j \in S |-> EffectivePriority(rows[j], now)]
             t == [j \in S |-> rows[j].createdAt]
  <1>1. \A j \in S : j \in Int /\ e[j] \in Int /\ t[j] \in Int
    <2>1. \A j \in S : j \in Nat /\ SizedRow(rows[j])
      BY Zenon DEF Snapshot, Sized
    <2>2. \A j \in S : EffectivePriority(rows[j], now) \in Int
      BY <2>1, PriorityIsNumber
    <2> QED BY <2>1, <2>2 DEF SizedRow
  <1>2. \A i, k \in S : <<i, k>> \in Service(rows, S, now) <=>
            \/ e[i] > e[k]
            \/ e[i] = e[k] /\ t[i] < t[k]
            \/ e[i] = e[k] /\ t[i] = t[k] /\ i < k
    <2>1. \A i, k \in S : <<i, k>> \in Service(rows, S, now) <=> ServedBefore(rows, i, k, now)
      BY DEF Service
    <2>2. \A j \in S : e[j] = EffectivePriority(rows[j], now) /\ t[j] = rows[j].createdAt
      OBVIOUS
    <2> QED BY <2>1, <2>2, Zenon DEF ServedBefore
  <1>3. \A i, k \in S : <<i, k>> \in Sacrifice(rows, S, now) <=>
            e[i] < e[k] \/ (e[i] = e[k] /\ i < k)
    BY DEF Sacrifice, PreemptedBefore
  <1> HIDE DEF e, t
  <1> DEFINE Before(i, k) == <<i, k>> \in Service(rows, S, now)
  <1> HIDE DEF Before
  <1>6. \A i, k \in S : Before(i, k) <=> \/ e[i] > e[k]
                                         \/ e[i] = e[k] /\ t[i] < t[k]
                                         \/ e[i] = e[k] /\ t[i] = t[k] /\ i < k
    BY <1>2, Zenon DEF Before
  <1>7. ASSUME NEW i \in S, NEW k \in S
        PROVE  ~Before(i, i) /\ (i # k => Before(i, k) \/ Before(k, i))
    BY <1>1, <1>6
  <1>8. ASSUME NEW i \in S, NEW k \in S, NEW l \in S, Before(i, k), Before(k, l)
        PROVE  Before(i, l)
    BY <1>1, <1>6, <1>8
  <1>4. Orders(Service(rows, S, now), S)
    BY <1>7, <1>8, Zenon DEF Orders, Before
  <1>5. Orders(Sacrifice(rows, S, now), S)
    BY <1>1, <1>3 DEF Orders
  <1> QED BY <1>4, <1>5

\* The queue that Plan walks.
LEMMA QueueIsLined ==
    ASSUME Sorts, NEW rows, Snapshot(rows), NEW now \in Int, NEW S, S \subseteq Queued(rows)
    PROVE  LET q == SortedByPriority(rows, S, now) IN
           Lines(q, S, Service(rows, S, now)) /\ Queue(rows, q) /\ Len(q) \in Nat
  <1> DEFINE q == SortedByPriority(rows, S, now)
             R == Service(rows, S, now)
  <1>1. S \subseteq DOMAIN rows
    BY DEF Queued
  <1>2. Orders(R, S)
    BY <1>1, PlannerOrders
  <1>3. \E A : S \subseteq A /\ IsFiniteSet(A)
    BY <1>1, Zenon DEF Snapshot, Sized
  <1>4. q = SortedBy(S, R)
    BY DEF SortedByPriority, Service
  <1> HIDE DEF q, R
  <1>5. Lines(q, S, R)
    BY <1>2, <1>3, <1>4, Zenon DEF Sorts
  <1>6. q \in Seq(S)
    BY <1>5 DEF Lines
  <1>7. q \in Seq(Queued(rows)) /\ Len(q) \in Nat
    BY <1>6, Lists
  <1>8. \A i, k \in DOMAIN q : q[i] = q[k] => i = k
    BY <1>2, <1>5, LinedOnce
  <1> QED BY <1>5, <1>7, <1>8 DEF Queue, q, R

\* What Plan returns, in terms of the queue.
LEMMA PlanOutcome ==
    ASSUME TotalsAdd, UsableCounts, LeastNumbers, Sorts, NEW rows, Snapshot(rows), NEW now \in Int
    PROVE  \E q, committed :
              /\ Lines(q, Queued(rows), Service(rows, Queued(rows), now)) /\ Queue(rows, q)
              /\ Partial(rows, q, Len(q), Plan(rows, now), committed)
  <1> DEFINE q == SortedByPriority(rows, Queued(rows), now)
  <1>1. Lines(q, Queued(rows), Service(rows, Queued(rows), now)) /\ Queue(rows, q) /\ Len(q) \in Nat
    BY QueueIsLined
  <1>2. PICK f : Placing(rows, q, Len(q), f) /\ Plan(rows, now) = f[Len(q)].assignments
    BY <1>1, PlanIsTheLoop, Zenon
  <1> HIDE DEF q
  <1>3. \A n \in 0 .. Len(q) : Partial(rows, q, n, f[n].assignments, f[n].committed)
    BY <1>1, <1>2, PlacingKeeps, Zenon
  <1>4. Len(q) \in 0 .. Len(q)
    BY <1>1
  <1>5. Partial(rows, q, Len(q), Plan(rows, now), f[Len(q)].committed)
    BY <1>2, <1>3, <1>4, Zenon
  <1> QED BY <1>1, <1>5, Zenon

\* So a plan fits.
LEMMA PlansFit ==
    ASSUME TotalsAdd, UsableCounts, LeastNumbers, Sorts
    PROVE  PlanFits
  <1> SUFFICES ASSUME NEW rows, NEW now, Snapshot(rows), now \in Int
               PROVE  /\ Plan(rows, now) \in Seq([job: Queued(rows), worker: Range(WorkerList)])
                      /\ CapacityRespected(rows) =>
                            \A w \in Range(WorkerList) :
                               Serves(Cluster[w], rows, Holders(rows, w) \cup GivenTo(Plan(rows, now), w))
    BY Zenon DEF PlanFits
  <1>1. PICK q, committed : Partial(rows, q, Len(q), Plan(rows, now), committed)
    BY PlanOutcome, Zenon
  <1> QED BY <1>1, Zenon DEF Partial, Fitted, Beside

-----------------------------------------------------------------------------
(* One decision. *)

\* A snapshot's rows.
SnapshotRow ==
    [state: {"QUEUED", "RUNNING"}, preemptible: BOOLEAN, assigned: SUBSET Range(WorkerList),
     priority: Nat, need: [Dimension -> Nat], minGPUMemory: Nat, createdAt: Int]

PassInv ==
    /\ js \in Seq(SnapshotRow) /\ CapacityRespected(js)
    /\ \/ decision = Undecided
       \/ decision = [assignments |-> Plan(js, Now),
                      preemptions |-> PlanPreemptions(js, Plan(js, Now), Now), made |-> TRUE]

\* The numbers up to n are finitely many, n different values are n values, and
\* the clock shows a number.
Counts ==
    /\ \A n \in Nat : IsFiniteSet(1 .. n)
    /\ \A n \in Nat : \A f : (\A i, k \in 1 .. n : f[i] = f[k] => i = k) =>
                                  Cardinality({f[i] : i \in 1 .. n}) = n
    /\ Now \in Int

\* What has been filled in can be planned.
LEMMA PassSnapshot ==
    ASSUME Counts, js \in Seq(SnapshotRow)
    PROVE  /\ Snapshot(js) /\ Now \in Int
           /\ \A j \in DOMAIN js : {"state", "assigned"} \subseteq DOMAIN js[j]
  <1>1. \A j \in DOMAIN js : js[j] \in SnapshotRow
    BY Lists
  <1>2. \A r \in SnapshotRow : SizedRow(r) /\ {"state", "assigned"} \subseteq DOMAIN r
    BY DEF SnapshotRow, SizedRow
  <1>3. DOMAIN js = 1 .. Len(js) /\ Len(js) \in Nat /\ DOMAIN js \subseteq Nat
    OBVIOUS
  <1>4. IsFiniteSet(DOMAIN js)
    BY <1>3, Zenon DEF Counts
  <1> QED BY <1>1, <1>2, <1>3, <1>4, Zenon DEF Snapshot, Sized, Counts

\* Filling in a job, and deciding, keep the snapshot in form.
LEMMA PassKeeps ==
    ASSUME PassInv, [PassNext]_passVars, Now \in Int
    PROVE  PassInv'
  <1>0. Now' = Now
    BY DEF Now
  <1>1. CASE UNCHANGED passVars
    BY <1>1, Zenon DEF passVars, PassInv, Now, CapacityRespected
  <1>2. ASSUME NEW r \in Requests, NEW age \in Ages, NEW state, NEW w, NEW p \in BOOLEAN,
               AddJob(r, age, state, w, p),
               state = "QUEUED" \/ (state = "RUNNING" /\ w \in Range(WorkerList))
        PROVE  PassInv'
    <2> DEFINE row == [state |-> state, preemptible |-> p,
                       assigned |-> IF state = "RUNNING" THEN {w} ELSE {},
                       priority |-> r.priority, need |-> r.need,
                       minGPUMemory |-> r.minGPUMemory, createdAt |-> Now - age]
    <2>1. ~decision.made /\ js' = Append(js, row) /\ CapacityRespected(js') /\ decision' = decision
      BY <1>2, Zenon DEF AddJob
    <2>2. row \in SnapshotRow
      <3>1. r.priority \in Nat /\ r.need \in [Dimension -> Nat] /\ r.minGPUMemory \in Nat
        BY PlannerAssumption
      <3>2. Now - age \in Int
        BY PassAssumption
      <3> QED BY <1>2, <3>1, <3>2 DEF SnapshotRow
    <2> HIDE DEF row
    <2>3. js' \in Seq(SnapshotRow)
      BY <2>1, <2>2, Longer DEF PassInv
    <2>4. decision' = Undecided
      BY <2>1 DEF PassInv
    <2> QED BY <2>1, <2>3, <2>4, Zenon DEF PassInv, CapacityRespected
  <1>3. CASE Decide
    <2>1. js' = js /\ decision' = [assignments |-> Plan(js, Now),
                                   preemptions |-> PlanPreemptions(js, Plan(js, Now), Now), made |-> TRUE]
      BY <1>3, Zenon DEF Decide
    <2> QED BY <1>0, <2>1, Zenon DEF PassInv, CapacityRespected
  <1>4. CASE PassNext
    <2>1. \/ Decide
          \/ \E r \in Requests, age \in Ages : AddJob(r, age, "QUEUED", 0, FALSE)
          \/ \E r \in Requests, age \in Ages, w \in Range(WorkerList), p \in BOOLEAN :
                AddJob(r, age, "RUNNING", w, p)
      BY <1>4, Zenon DEF PassNext
    <2>2. CASE \E r \in Requests, age \in Ages : AddJob(r, age, "QUEUED", 0, FALSE)
      BY <1>2, <2>2, Zenon
    <2> QED BY <1>2, <1>3, <2>1, <2>2, Zenon
  <1> QED BY <1>1, <1>4

\* Each job of a list of assignments is on it once.
Assigned(rows, a) ==
    /\ a \in Seq(Fitted(rows))
    /\ \A i, k \in DOMAIN a : a[i].job = a[k].job => i = k

\* The rows once some of the assignments are written.
LEMMA AfterRows ==
    ASSUME Assigned(js, decision.assignments),
           \A j \in DOMAIN js : {"state", "assigned"} \subseteq DOMAIN js[j],
           NEW T \in SUBSET Placed
    PROVE  /\ DOMAIN After(T) = DOMAIN js
           /\ \A j \in DOMAIN js : SameRequest(js[j], After(T)[j])
           /\ \A w : Holders(After(T), w) =
                        Holders(js, w) \cup (GivenTo(decision.assignments, w) \cap T)
  <1> DEFINE a == decision.assignments
  <1>1. DOMAIN After(T) = DOMAIN js
    BY DEF After
  <1>2. \A i \in DOMAIN a : a[i].job \in Queued(js)
    <2>1. \A i \in DOMAIN a : a[i] \in Fitted(js)
      BY Lists DEF Assigned
    <2>2. \A e \in Fitted(js) : e.job \in Queued(js)
      BY DEF Fitted
    <2> QED BY <2>1, <2>2, Zenon
  <1>3. ASSUME NEW j \in DOMAIN js, j \notin T
        PROVE  After(T)[j] = js[j]
    BY <1>3, Zenon DEF After
  <1>4. ASSUME NEW j \in DOMAIN js, j \in T
        PROVE  /\ SameRequest(js[j], After(T)[j])
               /\ After(T)[j].state = "SCHEDULED" /\ After(T)[j].assigned = {WorkerOf(j)}
    <2>1. After(T)[j] = [js[j] EXCEPT !.state = "SCHEDULED", !.assigned = {WorkerOf(j)}]
      BY <1>4, Zenon DEF After
    <2> DEFINE v == WorkerOf(j)
               r == js[j]
    <2>2. {"state", "assigned"} \subseteq DOMAIN r
      BY Zenon
    <2> HIDE DEF v, r
    <2>3. LET n == [r EXCEPT !.state = "SCHEDULED", !.assigned = {v}]
          IN SameRequest(r, n) /\ n.state = "SCHEDULED" /\ n.assigned = {v}
      BY <2>2 DEF SameRequest
    <2> QED BY <2>1, <2>3 DEF r, v
  <1>5. ASSUME NEW j \in T
        PROVE  /\ j \in Queued(js) /\ j \in DOMAIN js
               /\ \A w : j \in GivenTo(a, w) <=> w = WorkerOf(j)
    <2>1. PICK i \in DOMAIN a : a[i].job = j
      BY <1>5, Zenon DEF Placed
    <2>2. \A k \in DOMAIN a : a[k].job = j => k = i
      BY <2>1, Zenon DEF Assigned
    <2>3. WorkerOf(j) = a[i].worker
      BY <2>1, <2>2, Zenon DEF WorkerOf
    <2>4. j \in Queued(js) /\ j \in DOMAIN js
      BY <1>2, <2>1 DEF Queued
    <2> QED BY <2>1, <2>2, <2>3, <2>4, Zenon DEF GivenTo
  <1>6. ASSUME NEW w, NEW j \in DOMAIN js
        PROVE  j \in Holders(After(T), w) <=> j \in Holders(js, w) \/ (j \in GivenTo(a, w) /\ j \in T)
    <2>1. CASE j \in T
      <3>1. j \in Holders(After(T), w) <=> w = WorkerOf(j)
        BY <1>1, <1>4, <2>1 DEF Holders, HoldsCapacity
      <3>2. j \notin Holders(js, w)
        BY <1>5, <2>1 DEF Queued, Holders, HoldsCapacity
      <3> QED BY <1>5, <2>1, <3>1, <3>2
    <2>2. CASE j \notin T
      BY <1>1, <1>3, <2>2, Zenon DEF Holders
    <2> QED BY <2>1, <2>2
  <1>7. \A w : Holders(After(T), w) = Holders(js, w) \cup (GivenTo(a, w) \cap T)
    <2>1. \A w : Holders(After(T), w) \subseteq DOMAIN js /\ Holders(js, w) \subseteq DOMAIN js
      BY <1>1, Zenon DEF Holders
    <2> QED BY <1>5, <1>6, <2>1
  <1>8. \A j \in DOMAIN js : SameRequest(js[j], After(T)[j])
    BY <1>3, <1>4, Zenon DEF SameRequest
  <1> QED BY <1>1, <1>7, <1>8

\* What the decision assigns, before and after it is made.
LEMMA DecisionAssigns ==
    ASSUME TotalsAdd, UsableCounts, LeastNumbers, Sorts, Counts, PassInv
    PROVE  /\ Assigned(js, decision.assignments)
           /\ \A w \in Range(WorkerList) : Serves(Cluster[w], js, Beside(js, decision.assignments, w))
  <1>1. Snapshot(js) /\ Now \in Int
    BY PassSnapshot DEF PassInv
  <1>2. CASE decision = Undecided
    <2> DEFINE none == << >>
    <2>1. decision.assignments = none
      BY <1>2 DEF Undecided
    <2>2. none \in Seq(Fitted(js)) /\ DOMAIN none = {}
      OBVIOUS
    <2> HIDE DEF none
    <2>3. \A w : Beside(js, none, w) = Holders(js, w)
      BY <2>2 DEF Beside, GivenTo
    <2> QED BY <2>1, <2>2, <2>3, Zenon DEF Assigned, PassInv, CapacityRespected
  <1>3. CASE decision = [assignments |-> Plan(js, Now),
                         preemptions |-> PlanPreemptions(js, Plan(js, Now), Now), made |-> TRUE]
    <2>1. decision.assignments = Plan(js, Now)
      BY <1>3
    <2>2. PICK q, committed : Partial(js, q, Len(q), Plan(js, Now), committed)
      BY <1>1, PlanOutcome, Zenon
    <2> QED BY <2>1, <2>2, Zenon DEF Partial, Assigned, PassInv
  <1> QED BY <1>2, <1>3, Zenon DEF PassInv

\* The assignments of a pass stay within capacity.
LEMMA PlanKeepsCapacity ==
    ASSUME TotalsAdd, UsableCounts, LeastNumbers, Sorts, Counts, PassInv
    PROVE  PlanStaysWithinCapacity
  <1> DEFINE a == decision.assignments
  <1>1. /\ Snapshot(js) /\ \A j \in DOMAIN js : {"state", "assigned"} \subseteq DOMAIN js[j]
    BY PassSnapshot DEF PassInv
  <1>2. /\ Assigned(js, a)
        /\ \A w \in Range(WorkerList) : Serves(Cluster[w], js, Beside(js, a, w))
    BY DecisionAssigns
  <1>3. /\ \A j \in DOMAIN js : SameRequest(js[j], After(Placed)[j])
        /\ \A w : Holders(After(Placed), w) = Holders(js, w) \cup (GivenTo(a, w) \cap Placed)
    BY <1>1, <1>2, AfterRows
  <1>4. ASSUME NEW w \in Range(WorkerList)
        PROVE  Serves(Cluster[w], After(Placed), Holders(After(Placed), w))
    <2>1. GivenTo(a, w) \cap Placed = GivenTo(a, w)
      BY DEF GivenTo, Placed
    <2>2. Holders(After(Placed), w) = Beside(js, a, w)
      BY <1>3, <2>1 DEF Beside
    <2>3. Beside(js, a, w) \subseteq DOMAIN js /\ Sized(Beside(js, a, w), js)
      BY <1>1, <1>2, BesideRows DEF Assigned
    <2>4. \A j \in Beside(js, a, w) : SameRequest(js[j], After(Placed)[j])
      BY <1>3, <2>3, Zenon
    <2> DEFINE S == Beside(js, a, w)
               rest == After(Placed)
    <2>5. Sized(S, js) /\ Serves(Cluster[w], js, S) /\ \A j \in S : SameRequest(js[j], rest[j])
      BY <1>2, <2>3, <2>4, Zenon
    <2> HIDE DEF S, rest
    <2>6. Serves(Cluster[w], rest, S)
      BY <2>5, ServesFewer
    <2> QED BY <2>2, <2>6 DEF S, rest
  <1> QED BY <1>4, Zenon DEF PlanStaysWithinCapacity, CapacityRespected

\* A queued job is placed exactly if it has room beside those ahead of it.
LEMMA PlanKeepsOrder ==
    ASSUME TotalsAdd, UsableCounts, LeastNumbers, Sorts, Counts, PassInv
    PROVE  PlanServesTheQueueInOrder
  <1> DEFINE a == decision.assignments
  <1>1. /\ Snapshot(js) /\ Now \in Int
        /\ \A j \in DOMAIN js : {"state", "assigned"} \subseteq DOMAIN js[j]
    BY PassSnapshot DEF PassInv
  <1> SUFFICES ASSUME decision.made, NEW j \in Queued(js)
               PROVE  j \in Placed <=> HasRoom(j, After({i \in Placed : Ahead(i, j)}))
    BY Zenon DEF PlanServesTheQueueInOrder
  <1>2. a = Plan(js, Now)
    BY DEF PassInv, Undecided
  <1> DEFINE R == Service(js, Queued(js), Now)
  <1>3. PICK q, committed : Lines(q, Queued(js), R) /\ Queue(js, q) /\ Partial(js, q, Len(q), a, committed)
    BY <1>1, <1>2, PlanOutcome, Zenon
  <1>4. PICK m \in DOMAIN q : q[m] = j
    BY <1>3, Zenon DEF Lines
  <1>5. DOMAIN q = 1 .. Len(q) /\ Len(q) \in Nat
    BY <1>3 DEF Queue
  <1>6. j \in Placed <=> Eligible(js[j], CommittedAhead(js, a, q, m)) # {}
    <2>1. j \in Placed <=> \E i \in DOMAIN a : a[i].job = q[m]
      BY <1>4, Zenon DEF Placed
    <2> QED BY <1>3, <1>4, <1>5, <2>1, Zenon DEF Partial
  <1> DEFINE T == {i \in Placed : Ahead(i, j)}
  <1>7. \A x \in Placed : x \in T <=> x \in AheadOf(q, m)
    <2> SUFFICES ASSUME NEW x \in Placed
                 PROVE  Ahead(x, j) <=> x \in AheadOf(q, m)
      BY Zenon
    <2>1. PICK i \in DOMAIN a : x = a[i].job
      BY Zenon DEF Placed
    <2>2. PICK k \in DOMAIN q : x = q[k]
      BY <1>3, <1>5, <2>1, Zenon DEF Partial
    <2>3. x \in Queued(js)
      BY <1>3, <2>2, Lists DEF Queue
    <2>4. Ahead(x, j) <=> <<x, j>> \in R
      <3>1. Ahead(x, j) <=> ServedBefore(js, x, j, Now)
        BY Zenon DEF Ahead, ServedBefore
      <3> QED BY <2>3, <3>1 DEF Service
    <2>5. <<x, j>> \in R <=> k < m
      BY <1>3, <1>4, <2>2, Zenon DEF Lines
    <2>6. x \in AheadOf(q, m) <=> k < m
      <3>1. k < m => x \in AheadOf(q, m)
        BY <1>5, <2>2 DEF AheadOf
      <3>2. ASSUME x \in AheadOf(q, m) PROVE k < m
        <4>1. PICK l \in 1 .. m - 1 : x = q[l]
          BY <3>2 DEF AheadOf
        <4>2. l \in DOMAIN q /\ l < m
          BY <1>4, <1>5, <4>1
        <4>3. l = k
          BY <1>3, <2>2, <4>1, <4>2, Zenon DEF Queue
        <4> QED BY <4>2, <4>3
      <3> QED BY <3>1, <3>2
    <2> QED BY <2>4, <2>5, <2>6
  <1>8. ASSUME NEW w \in Range(WorkerList)
        PROVE  CommittedByWorker(After(T))[w] = CommittedAhead(js, a, q, m)[w]
    <2>1. Assigned(js, a) /\ T \in SUBSET Placed
      BY DecisionAssigns
    <2> HIDE DEF T
    <2>2. /\ \A i \in DOMAIN js : SameRequest(js[i], After(T)[i])
          /\ Holders(After(T), w) = Holders(js, w) \cup (GivenTo(a, w) \cap T)
      BY <1>1, <2>1, AfterRows
    <2>3. GivenTo(a, w) \cap T = GivenTo(a, w) \cap AheadOf(q, m)
      <3>1. GivenTo(a, w) \subseteq Placed
        BY DEF GivenTo, Placed
      <3> QED BY <1>7, <3>1
    <2> DEFINE S == Holders(js, w) \cup (GivenTo(a, w) \cap AheadOf(q, m))
    <2>4. S \subseteq DOMAIN js
      <3>1. Beside(js, a, w) \subseteq DOMAIN js
        BY <1>1, <2>1, BesideRows DEF Assigned
      <3> QED BY <3>1 DEF Beside
    <2>5. Holders(After(T), w) = S
      BY <2>2, <2>3
    <2>6. \A i \in S : js[i].need = After(T)[i].need
      BY <2>2, <2>4, Zenon DEF SameRequest
    <2>7. CommittedAhead(js, a, q, m)[w] = Total(S, js)
      BY DEF CommittedAhead
    <2>8. CommittedByWorker(After(T))[w] = Total(Holders(After(T), w), After(T))
      BY DEF CommittedByWorker
    <2> HIDE DEF S
    <2> QED BY <2>5, <2>6, <2>7, <2>8, TotalsAgree
  <1>9. Eligible(js[j], CommittedByWorker(After(T))) = Eligible(js[j], CommittedAhead(js, a, q, m))
    BY <1>8, Zenon DEF Eligible
  <1> QED BY <1>6, <1>9 DEF HasRoom

\* What Candidates sorts, and what is written of a victim.
Sparable(rows, w, job, gone, now) ==
    {j \in DOMAIN rows \ gone :
        /\ rows[j].state = "RUNNING" /\ rows[j].preemptible
        /\ w \in rows[j].assigned
        /\ EffectivePriority(rows[j], now) < EffectivePriority(job, now)}

Victims(rows, S, now) ==
    {e \in [job: DOMAIN rows, worker: Range(WorkerList), pending: S] :
        /\ rows[e.job].state = "RUNNING" /\ rows[e.job].preemptible
        /\ EffectivePriority(rows[e.job], now) < EffectivePriority(rows[e.pending], now)}

\* The preemptions are of such victims, of each one once, and gone keeps count.
Sparing(rows, S, now, p, gone) ==
    /\ p \in Seq(Victims(rows, S, now))
    /\ \A i, k \in DOMAIN p : p[i].job = p[k].job => i = k
    /\ gone = {p[i].job : i \in DOMAIN p}

\* A list of members of X.
LEMMA ListOf ==
    ASSUME NEW X, NEW e, NEW n \in Nat, e = [i \in 1 .. n |-> e[i]], \A i \in 1 .. n : e[i] \in X
    PROVE  e \in Seq(X)
  <1>1. e \in [1 .. n -> X]
    BY Zenon
  <1> QED BY <1>1

\* n lists the elements of p, and then those of e, all of them in X.
Joins(n, p, e, X) ==
    /\ n \in Seq(X)
    /\ \A i \in DOMAIN p : i \in DOMAIN n /\ n[i] = p[i]
    /\ \A i \in DOMAIN e : Len(p) + i \in DOMAIN n /\ n[Len(p) + i] = e[i]
    /\ \A i \in DOMAIN n : i \in DOMAIN p \/ \E k \in DOMAIN e : i = Len(p) + k

\* Two lists, one behind the other.
LEMMA Joined ==
    ASSUME NEW X, NEW p \in Seq(X), NEW e \in Seq(X)
    PROVE  Joins(p \o e, p, e, X)
  <1>1. DOMAIN p = 1 .. Len(p) /\ DOMAIN e = 1 .. Len(e) /\ Len(p) \in Nat /\ Len(e) \in Nat
    OBVIOUS
  <1>2. /\ p \o e \in Seq(X) /\ DOMAIN (p \o e) = 1 .. Len(p) + Len(e)
    OBVIOUS
  <1>3. \A i \in DOMAIN p : (p \o e)[i] = p[i]
    OBVIOUS
  <1>4. \A i \in DOMAIN e : (p \o e)[Len(p) + i] = e[i]
    OBVIOUS
  <1>5. \A i \in DOMAIN (p \o e) : i \in DOMAIN p \/ \E k \in DOMAIN e : i = Len(p) + k
    <2> SUFFICES ASSUME NEW i \in 1 .. Len(p) + Len(e), i \notin 1 .. Len(p)
                 PROVE  i - Len(p) \in 1 .. Len(e) /\ i = Len(p) + (i - Len(p))
      BY <1>1, <1>2, Zenon
    <2> QED BY <1>1
  <1> QED BY <1>1, <1>2, <1>3, <1>4, <1>5 DEF Joins

\* The candidates are sparable, each listed once.
LEMMA CandidatesAreSparable ==
    ASSUME Sorts, NEW rows, Snapshot(rows), NEW now \in Int, NEW w, NEW job, NEW gone
    PROVE  LET c == Candidates(rows, w, job, gone, now) IN
           /\ c \in Seq(Sparable(rows, w, job, gone, now))
           /\ \A i, k \in DOMAIN c : c[i] = c[k] => i = k
  <1> DEFINE S == Sparable(rows, w, job, gone, now)
             R == Sacrifice(rows, S, now)
             c == Candidates(rows, w, job, gone, now)
  <1>1. S \subseteq DOMAIN rows
    BY DEF Sparable
  <1>2. Orders(R, S)
    BY <1>1, PlannerOrders
  <1>3. \E A : S \subseteq A /\ IsFiniteSet(A)
    BY <1>1, Zenon DEF Snapshot, Sized
  <1>4. c = SortedBy(S, R)
    BY Zenon DEF Candidates, Sparable, Sacrifice
  <1> HIDE DEF c, R, S
  <1>5. Lines(c, S, R)
    BY <1>2, <1>3, <1>4, Zenon DEF Sorts
  <1>6. \A i, k \in DOMAIN c : c[i] = c[k] => i = k
    BY <1>2, <1>5, LinedOnce
  <1> QED BY <1>5, <1>6 DEF Lines, c, S

\* A prefix of a list.
LEMMA Prefix ==
    ASSUME NEW X, NEW c \in Seq(X), NEW k \in 0 .. Len(c)
    PROVE  /\ SubSeq(c, 1, k) \in Seq(X) /\ DOMAIN SubSeq(c, 1, k) \subseteq DOMAIN c
           /\ \A i \in DOMAIN SubSeq(c, 1, k) : SubSeq(c, 1, k)[i] = c[i]
  OBVIOUS

\* What the loop's body adds, if anything: some sparable jobs of a worker.
Adds(rows, now, acc, p, h) ==
    \/ h = acc
    \/ \E w \in Range(WorkerList) : \E v \in Seq(Sparable(rows, w, rows[p], acc.gone, now)) :
          /\ \A i, k \in DOMAIN v : v[i] = v[k] => i = k
          /\ h.preemptions = acc.preemptions \o
                [i \in DOMAIN v |-> [job |-> v[i], worker |-> w, pending |-> p]]
          /\ h.gone = acc.gone \cup Range(v)

\* These are the first of the candidates on the first useful worker.
LEMMA HelpAdds ==
    ASSUME LeastNumbers, Sorts, NEW rows, Snapshot(rows), NEW now \in Int, NEW acc, NEW p
    PROVE  Adds(rows, now, acc, p, Help(rows, acc, p, now))
  <1> DEFINE candidates(w) == Candidates(rows, w, rows[p], acc.gone, now)
             enough(w) == EnoughPrefixes(rows, candidates(w), rows[p],
                                         Free(Cluster[w], rows[p], acc.committed[w]))
             useful == {i \in DOMAIN WorkerList : enough(WorkerList[i]) # {}}
             u == WorkerList[Min(useful)]
             v == SubSeq(candidates(u), 1, Min(enough(u)))
  <1>1. CASE useful = {}
    BY <1>1, Zenon DEF Help, Adds
  <1>2. CASE useful # {}
    <2>1. \A T \in SUBSET Nat : T # {} => Min(T) \in T
      BY Zenon DEF LeastNumbers, Min
    <2>2. useful \in SUBSET Nat
      BY PlannerAssumption
    <2>3. u \in Range(WorkerList) /\ enough(u) # {}
      BY <1>2, <2>1, <2>2, Zenon DEF Range
    <2> DEFINE c == candidates(u)
    <2>4. /\ c \in Seq(Sparable(rows, u, rows[p], acc.gone, now))
          /\ \A i, k \in DOMAIN c : c[i] = c[k] => i = k
      BY CandidatesAreSparable, Zenon
    <2>5. enough(u) \subseteq 0 .. Len(c)
      BY Zenon DEF EnoughPrefixes
    <2>6. Help(rows, acc, p, now) =
            [preemptions |-> acc.preemptions \o
                [i \in DOMAIN v |-> [job |-> v[i], worker |-> u, pending |-> p]],
             gone |-> acc.gone \cup Range(v),
             committed |-> [acc.committed EXCEPT ![u] = Minus(@, Total(Range(v), rows))]]
      BY <1>2, Zenon DEF Help
    <2> DEFINE h == Help(rows, acc, p, now)
    <2>7. /\ h.preemptions = acc.preemptions \o
                [i \in DOMAIN v |-> [job |-> v[i], worker |-> u, pending |-> p]]
          /\ h.gone = acc.gone \cup Range(v)
      <3> DEFINE x == acc.preemptions \o
                        [i \in DOMAIN v |-> [job |-> v[i], worker |-> u, pending |-> p]]
                 y == acc.gone \cup Range(v)
                 z == [acc.committed EXCEPT ![u] = Minus(@, Total(Range(v), rows))]
      <3>1. h = [preemptions |-> x, gone |-> y, committed |-> z]
        BY <2>6, Zenon
      <3> HIDE DEF x, y, z, h
      <3>2. h.preemptions = x /\ h.gone = y
        BY <3>1
      <3> QED BY <3>2, Zenon DEF x, y
    <2> HIDE DEF useful, enough, c, candidates, h
    <2>8. Min(enough(u)) \in 0 .. Len(c)
      <3>1. enough(u) \in SUBSET Nat
        BY <2>4, <2>5
      <3> QED BY <2>1, <2>3, <2>5, <3>1, Zenon
    <2>9. /\ v \in Seq(Sparable(rows, u, rows[p], acc.gone, now))
          /\ DOMAIN v \subseteq DOMAIN c /\ \A i \in DOMAIN v : v[i] = c[i]
      BY <2>4, <2>8, Prefix DEF c
    <2>10. \A i, k \in DOMAIN v : v[i] = v[k] => i = k
      BY <2>4, <2>9, Zenon
    <2> HIDE DEF v, u
    <2> QED BY <2>3, <2>7, <2>9, <2>10, Zenon DEF h, Adds
  <1> QED BY <1>1, <1>2, Zenon

\* The loop's body keeps the preemptions so, for a pending job of S.
LEMMA HelpKeeps ==
    ASSUME LeastNumbers, Sorts, NEW rows, Snapshot(rows), NEW now \in Int, NEW S,
           NEW acc, Sparing(rows, S, now, acc.preemptions, acc.gone), NEW p \in S
    PROVE  LET h == Help(rows, acc, p, now) IN Sparing(rows, S, now, h.preemptions, h.gone)
  <1> DEFINE h == Help(rows, acc, p, now)
             old == acc.preemptions
             gone == acc.gone
             X == Victims(rows, S, now)
  <1>1. CASE h = acc
    BY <1>1
  <1>2. ASSUME NEW w \in Range(WorkerList), NEW v \in Seq(Sparable(rows, w, rows[p], gone, now)),
               \A i, k \in DOMAIN v : v[i] = v[k] => i = k,
               h.preemptions = old \o [i \in DOMAIN v |-> [job |-> v[i], worker |-> w, pending |-> p]],
               h.gone = gone \cup Range(v)
        PROVE  Sparing(rows, S, now, h.preemptions, h.gone)
    <2> DEFINE e == [i \in DOMAIN v |-> [job |-> v[i], worker |-> w, pending |-> p]]
               n == old \o e
    <2>1. \A i \in DOMAIN v : v[i] \in Sparable(rows, w, rows[p], gone, now)
      BY Lists
    <2>2. \A j \in Sparable(rows, w, rows[p], gone, now) :
             j \notin gone /\ [job |-> j, worker |-> w, pending |-> p] \in X
      BY DEF Sparable, Victims
    <2>3. DOMAIN e = DOMAIN v /\ \A i \in DOMAIN v : e[i].job = v[i] /\ e[i] \in X /\ v[i] \notin gone
      BY <2>1, <2>2, Zenon
    <2>4. e \in Seq(X)
      <3>1. Len(v) \in Nat /\ DOMAIN v = 1 .. Len(v)
        OBVIOUS
      <3>2. e = [i \in 1 .. Len(v) |-> e[i]]
        BY <3>1, Zenon
      <3> HIDE DEF e, X
      <3>3. \A i \in 1 .. Len(v) : e[i] \in X
        BY <2>3, <3>1, Zenon
      <3> QED BY <3>1, <3>2, <3>3, ListOf, Zenon
    <2>5. /\ old \in Seq(X) /\ \A i, k \in DOMAIN old : old[i].job = old[k].job => i = k
          /\ gone = {old[i].job : i \in DOMAIN old}
      BY Zenon DEF Sparing
    <2> HIDE DEF e, X, old, gone
    <2> DEFINE l == Len(old)
    <2>6. Joins(n, old, e, X)
      BY <2>4, <2>5, Joined, Zenon
    <2>7. /\ n \in Seq(X)
          /\ \A i \in DOMAIN old : i \in DOMAIN n /\ n[i] = old[i]
          /\ \A i \in DOMAIN e : l + i \in DOMAIN n /\ n[l + i] = e[i]
          /\ \A i \in DOMAIN n : i \in DOMAIN old \/ \E k \in DOMAIN e : i = l + k
      BY <2>6, Zenon DEF Joins
    <2> HIDE DEF n, l
    <2>8. \A i \in DOMAIN old, k \in DOMAIN e : n[i].job # n[l + k].job
      <3>1. \A i \in DOMAIN old : n[i].job \in gone
        BY <2>5, <2>7, Zenon
      <3>2. \A k \in DOMAIN e : n[l + k].job \notin gone
        BY <2>3, <2>7, Zenon
      <3> QED BY <3>1, <3>2, Zenon
    <2>9. \A i, k \in DOMAIN e : n[l + i].job = n[l + k].job => i = k
      BY <1>2, <2>3, <2>7
    <2>10. \A i, k \in DOMAIN old : n[i].job = n[k].job => i = k
      BY <2>5, <2>7, Zenon
    <2>11. \A i, k \in DOMAIN n : n[i].job = n[k].job => i = k
      BY <2>7, <2>8, <2>9, <2>10
    <2>12. gone \cup Range(v) = {n[i].job : i \in DOMAIN n}
      <3>1. \A x : x \in gone => \E i \in DOMAIN n : x = n[i].job
        BY <2>5, <2>7
      <3>2. \A x : x \in Range(v) => \E i \in DOMAIN n : x = n[i].job
        BY <2>3, <2>7 DEF Range
      <3>3. ASSUME NEW i \in DOMAIN n PROVE n[i].job \in gone \cup Range(v)
        <4>1. CASE i \in DOMAIN old
          BY <2>5, <2>7, <4>1, Zenon
        <4>2. ASSUME NEW k \in DOMAIN e, i = l + k PROVE n[i].job \in Range(v)
          BY <2>3, <2>7, <4>2 DEF Range
        <4> QED BY <2>7, <4>1, <4>2, Zenon
      <3> QED BY <3>1, <3>2, <3>3, Zenon
    <2>13. h.preemptions = n /\ h.gone = gone \cup Range(v)
      BY <1>2, Zenon DEF n, e, old, gone
    <2> HIDE DEF h
    <2> QED BY <2>7, <2>11, <2>12, <2>13 DEF Sparing, X
  <1>3. Adds(rows, now, acc, p, h)
    BY HelpAdds, Zenon
  <1> HIDE DEF h
  <1>4. Sparing(rows, S, now, h.preemptions, h.gone)
    BY <1>1, <1>2, <1>3, Zenon DEF Adds
  <1> QED BY <1>4 DEF h

\* So does the loop.
LEMMA HelpingKeeps ==
    ASSUME LeastNumbers, Sorts, NEW rows, Snapshot(rows), NEW now \in Int, NEW S, NEW q \in Seq(S),
           NEW first, first.preemptions = << >>, first.gone = {},
           NEW f, Helping(rows, first, now, q, Len(q), f)
    PROVE  \A n \in 0 .. Len(q) : Sparing(rows, S, now, f[n].preemptions, f[n].gone)
  <1> DEFINE P(n) == Sparing(rows, S, now, f[n].preemptions, f[n].gone)
             T == {n \in 0 .. Len(q) : ~P(n)}
  <1>0. Len(q) \in Nat /\ DOMAIN q = 1 .. Len(q)
    OBVIOUS
  <1> SUFFICES ASSUME T # {} PROVE FALSE
    OBVIOUS
  <1>1. PICK n \in T : \A m \in T : n <= m
    <2>1. T \in SUBSET Nat
      BY <1>0
    <2> QED BY <2>1, Zenon DEF LeastNumbers
  <1>2. n \in 0 .. Len(q) /\ ~P(n) /\ \A m \in 0 .. Len(q) : ~P(m) => n <= m
    BY <1>1, Zenon
  <1> HIDE DEF T, P
  <1>3. CASE n = 0
    <2> DEFINE none == << >>
    <2>1. f[0] = first /\ first.preemptions = none
      BY <1>0 DEF Helping
    <2>2. none \in Seq(Victims(rows, S, now)) /\ DOMAIN none = {}
      OBVIOUS
    <2> HIDE DEF none
    <2>3. Sparing(rows, S, now, none, {})
      BY <2>2 DEF Sparing
    <2> QED BY <1>2, <1>3, <2>1, <2>3, Zenon DEF P
  <1>4. CASE n # 0
    <2>1. n - 1 \in 0 .. Len(q) /\ n \in 0 .. Len(q) /\ n \in DOMAIN q /\ ~(n <= n - 1)
      BY <1>0, <1>4, <1>2
    <2>2. P(n - 1)
      BY <1>2, <2>1, Zenon
    <2>3. f[n] = Help(rows, f[n - 1], q[n], now)
      BY <1>4, <2>1, Zenon DEF Helping
    <2>4. q[n] \in S
      BY <2>1
    <2>5. P(n)
      BY <2>2, <2>3, <2>4, HelpKeeps, Zenon DEF P
    <2> QED BY <1>2, <2>5, Zenon
  <1> QED BY <1>3, <1>4

\* What PlanPreemptions returns.
LEMMA PreemptionsOutcome ==
    ASSUME LeastNumbers, Sorts, NEW rows, Snapshot(rows), NEW now \in Int, NEW placed
    PROVE  \E gone : Sparing(rows, Queued(rows) \ {placed[i].job : i \in DOMAIN placed}, now,
                             PlanPreemptions(rows, placed, now), gone)
  <1> DEFINE S == Queued(rows) \ {placed[i].job : i \in DOMAIN placed}
             q == SortedByPriority(rows, S, now)
             committed == [w \in Range(WorkerList) |->
                              Plus(CommittedByWorker(rows)[w], Total(GivenTo(placed, w), rows))]
             first == [preemptions |-> << >>, gone |-> {}, committed |-> committed]
             f == CHOOSE g : Helping(rows, first, now, q, Len(q), g)
  <1>1. q \in Seq(S) /\ Len(q) \in Nat
    <2>1. S \subseteq Queued(rows)
      OBVIOUS
    <2> HIDE DEF S
    <2> QED BY <2>1, QueueIsLined DEF Lines
  <1>2. Helping(rows, first, now, q, Len(q), f)
    BY <1>1, BothRun, Zenon
  <1>3. PlanPreemptions(rows, placed, now) = f[Len(q)].preemptions
    BY Zenon DEF PlanPreemptions, Helping
  <1>4. first.preemptions = << >> /\ first.gone = {}
    <2> HIDE DEF committed
    <2> QED OBVIOUS
  <1> HIDE DEF first, f, q, S
  <1>5. \A n \in 0 .. Len(q) : Sparing(rows, S, now, f[n].preemptions, f[n].gone)
    BY <1>1, <1>2, <1>4, HelpingKeeps, Zenon
  <1>6. Len(q) \in 0 .. Len(q)
    BY <1>1
  <1> QED BY <1>3, <1>5, <1>6, Zenon DEF S

\* The decision's preemptions.
LEMMA PreemptionsKeepOff ==
    ASSUME LeastNumbers, Sorts, Counts, PassInv
    PROVE  VictimsMayBePreempted
  <1> DEFINE p == decision.preemptions
             S == Queued(js) \ Placed
  <1>1. \E gone : Sparing(js, S, Now, p, gone)
    <2>1. CASE decision = Undecided
      <3> DEFINE none == << >>
      <3>1. p = none
        BY <2>1 DEF Undecided
      <3>2. none \in Seq(Victims(js, S, Now)) /\ DOMAIN none = {}
        OBVIOUS
      <3> HIDE DEF none, p
      <3>3. Sparing(js, S, Now, none, {})
        BY <3>2 DEF Sparing
      <3> QED BY <3>1, <3>3
    <2>2. CASE decision = [assignments |-> Plan(js, Now),
                           preemptions |-> PlanPreemptions(js, Plan(js, Now), Now), made |-> TRUE]
      <3>1. decision.assignments = Plan(js, Now) /\ p = PlanPreemptions(js, decision.assignments, Now)
        BY <2>2
      <3>2. Snapshot(js) /\ Now \in Int
        BY PassSnapshot DEF PassInv
      <3> QED BY <3>1, <3>2, PreemptionsOutcome, Zenon DEF Placed
    <2> QED BY <2>1, <2>2, Zenon DEF PassInv
  <1>2. /\ p \in Seq(Victims(js, S, Now))
        /\ \A i, k \in DOMAIN p : p[i].job = p[k].job => i = k
    BY <1>1, Zenon DEF Sparing
  <1>3. \A i \in DOMAIN p : p[i] \in Victims(js, S, Now)
    BY <1>2, Lists
  <1>4. DOMAIN p = 1 .. Len(p) /\ Len(p) \in Nat
    BY <1>2
  <1>5. Cardinality(Preempted) = Len(p)
    <2> DEFINE f == [i \in DOMAIN p |-> p[i].job]
    <2>1. Preempted = {f[i] : i \in 1 .. Len(p)}
      BY <1>4, Zenon DEF Preempted
    <2>2. \A i, k \in 1 .. Len(p) : f[i] = f[k] => i = k
      BY <1>2, <1>4, Zenon
    <2> HIDE DEF f, p
    <2> QED BY <1>4, <2>1, <2>2 DEF Counts
  <1>6. \A e \in Victims(js, S, Now) :
           /\ js[e.job].state = "RUNNING" /\ js[e.job].preemptible /\ e.pending \in S
           /\ EffectivePriority(js[e.job], Now) < EffectivePriority(js[e.pending], Now)
    BY DEF Victims
  <1> QED BY <1>3, <1>5, <1>6, Zenon DEF VictimsMayBePreempted
=============================================================================
