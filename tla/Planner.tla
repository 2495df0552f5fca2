------------------------------ MODULE Planner -------------------------------
(***************************************************************************)
(* Package scheduler's pure part: Plan and PlanPreemptions, computed from  *)
(* a snapshot of active jobs and workers.                                  *)
(*                                                                         *)
(* js maps job IDs to rows.  IDs are numbers, since ties are broken by     *)
(* comparing IDs.  CPU cores, bytes of memory and GPUs are the three       *)
(* dimensions of one resource vector; a worker's GPUs are listed by the    *)
(* memory each one has.                                                    *)
(*                                                                         *)
(* As in Jobs, a name ending in Slip is an operator with a plausible       *)
(* mistake that no specification uses.                                     *)
(***************************************************************************)
EXTENDS Integers, Sequences, FiniteSetsExt

CONSTANTS
    WorkerList,      \* the active workers' IDs in ListActive's order
    Cluster,         \* worker ID -> its capacity and its GPUs
    Requests,        \* what jobs may ask for: [need, minGPUMemory, priority, ...]
    AgingInterval,   \* ticks of the clock for one point of priority
    MaxAgingBonus    \* the most that waiting can add

Dimension == {"gpu", "cpu", "memory"}

ASSUME PlannerAssumption ==
    /\ WorkerList \in Seq(Nat)
    /\ Cluster \in [Range(WorkerList) -> [capacity: [Dimension -> Nat], gpus: Seq(Nat)]]
    /\ \A r \in Requests : /\ r.need \in [Dimension -> Nat]
                           /\ r.minGPUMemory \in Nat /\ r.priority \in Nat
    /\ AgingInterval \in Nat \ {0} /\ MaxAgingBonus \in Nat

Nothing == [d \in Dimension |-> 0]

Plus(x, y) == [d \in Dimension |-> x[d] + y[d]]

Minus(x, y) == [d \in Dimension |-> x[d] - y[d]]

EffectivePriority(job, now) ==
    IF now <= job.createdAt THEN job.priority
    ELSE job.priority + Min({(now - job.createdAt) \div AgingInterval,
                             MaxAgingBonus})

\* What the jobs of S need together.
Total(S, js) == [d \in Dimension |-> SumFunction([j \in S |-> js[j].need[d]])]

\* Counts a job only once it has started.
HoldsCapacitySlip(job) == job.state = "RUNNING"

\* The rows that hold capacity.  A job being stopped no longer counts.
HoldsCapacity(job) == job.state \in {"SCHEDULED", "RUNNING", "CHECKPOINTING"}

Holders(js, w) == {j \in DOMAIN js : HoldsCapacity(js[j]) /\ w \in js[j].assigned}

CommittedByWorker(js) == [w \in Range(WorkerList) |-> Total(Holders(js, w), js)]

FreeGPUCount(worker, minGPUMemory, committedGPUs) ==
    LET qualifying == Cardinality({i \in DOMAIN worker.gpus :
                                       worker.gpus[i] >= minGPUMemory})
    IN Max({qualifying - committedGPUs, 0})

Free(worker, job, committed) ==
    [d \in Dimension |->
        IF d = "gpu" THEN FreeGPUCount(worker, job.minGPUMemory, committed[d])
        ELSE worker.capacity[d] - committed[d]]

Fits(job, free) == \A d \in Dimension : free[d] >= job.need[d]

-----------------------------------------------------------------------------
\* The members of S, sorted by the order R: n - 1 of them precede the n-th.
SortedBy(S, R) ==
    [n \in 1 .. Cardinality(S) |->
        CHOOSE j \in S : Cardinality({i \in S : <<i, j>> \in R}) = n - 1]

\* Sorts by the submitted priority, without the aging bonus.
ServedBeforeSlip(js, i, k, now) ==
    \/ js[i].priority > js[k].priority
    \/ js[i].priority = js[k].priority /\ js[i].createdAt < js[k].createdAt
    \/ js[i].priority = js[k].priority /\ js[i].createdAt = js[k].createdAt /\ i < k

\* sortByEffectivePriority.
ServedBefore(js, i, k, now) ==
    LET pi == EffectivePriority(js[i], now)
        pk == EffectivePriority(js[k], now)
    IN \/ pi > pk
       \/ pi = pk /\ js[i].createdAt < js[k].createdAt
       \/ pi = pk /\ js[i].createdAt = js[k].createdAt /\ i < k

SortedByPriority(js, S, now) ==
    SortedBy(S, {p \in S \X S : ServedBefore(js, p[1], p[2], now)})

Queued(js) == {j \in DOMAIN js : js[j].state = "QUEUED"}

\* The eligible workers for a job, and the tightest fit among them.
Eligible(job, committed) ==
    {w \in Range(WorkerList) : Fits(job, Free(Cluster[w], job, committed[w]))}

SelectWorker(job, committed) ==
    LET surplus(w) == Free(Cluster[w], job, committed[w])["gpu"] - job.need["gpu"]
        candidates == Eligible(job, committed)
    IN CHOOSE w \in candidates : \A v \in candidates :
           surplus(w) < surplus(v) \/ (surplus(w) = surplus(v) /\ w <= v)

\* Forgets the job just placed.
ReserveSlip(committed, w, job) == committed

Reserve(committed, w, job) == [committed EXCEPT ![w] = Plus(@, job.need)]

\* Plan's loop body.  An assignment reserves its worker's capacity for the rest
\* of the pass; a job that no worker has room for is skipped.
Place(js, acc, j) ==
    IF Eligible(js[j], acc.committed) = {} THEN acc
    ELSE LET w == SelectWorker(js[j], acc.committed)
         IN [assignments |-> Append(acc.assignments, [job |-> j, worker |-> w]),
             committed |-> Reserve(acc.committed, w, js[j])]

\* Plan: the assignments of one pass, in order, as pairs of job and worker.
Plan(js, now) ==
    LET queue == SortedByPriority(js, Queued(js), now)
        after[n \in 0 .. Len(queue)] ==
            IF n = 0 THEN [assignments |-> << >>, committed |-> CommittedByWorker(js)]
            ELSE Place(js, after[n - 1], queue[n])
    IN after[Len(queue)].assignments

\* The jobs that the assignments give to w.
GivenTo(assignments, w) ==
    {assignments[i].job : i \in {k \in DOMAIN assignments : assignments[k].worker = w}}

-----------------------------------------------------------------------------
\* Lowest effective priority first.
PreemptedBefore(js, i, k, now) ==
    LET pi == EffectivePriority(js[i], now)
        pk == EffectivePriority(js[k], now)
    IN pi < pk \/ (pi = pk /\ i < k)

\* Takes jobs of the same effective priority as well.
CandidatesSlip(js, w, job, gone, now) ==
    LET S == {j \in DOMAIN js \ gone :
                 /\ js[j].state = "RUNNING" /\ js[j].preemptible
                 /\ w \in js[j].assigned
                 /\ EffectivePriority(js[j], now) <= EffectivePriority(job, now)}
    IN SortedBy(S, {p \in S \X S : PreemptedBefore(js, p[1], p[2], now)})

\* The running jobs on w that may be preempted for job, sorted.
Candidates(js, w, job, gone, now) ==
    LET S == {j \in DOMAIN js \ gone :
                 /\ js[j].state = "RUNNING" /\ js[j].preemptible
                 /\ w \in js[j].assigned
                 /\ EffectivePriority(js[j], now) < EffectivePriority(job, now)}
    IN SortedBy(S, {p \in S \X S : PreemptedBefore(js, p[1], p[2], now)})

\* How many of the candidates, taken in order, make room for job: the lengths
\* of the prefixes that free enough.
EnoughPrefixes(js, candidates, job, free) ==
    {n \in 0 .. Len(candidates) :
        Fits(job, Plus(free, Total({candidates[i] : i \in 1 .. n}, js)))}

\* PlanPreemptions' loop body: a pending job is helped by the first worker of
\* the list that has room, or can be made to have it.
Help(js, acc, p, now) ==
    LET candidates(w) == Candidates(js, w, js[p], acc.gone, now)
        enough(w) == EnoughPrefixes(js, candidates(w), js[p],
                                    Free(Cluster[w], js[p], acc.committed[w]))
        useful == {i \in DOMAIN WorkerList : enough(WorkerList[i]) # {}}
        w == WorkerList[Min(useful)]
        victims == SubSeq(candidates(w), 1, Min(enough(w)))
    IN IF useful = {} THEN acc
       ELSE [preemptions |-> acc.preemptions \o
                [i \in DOMAIN victims |-> [job |-> victims[i], worker |-> w, pending |-> p]],
             gone |-> acc.gone \cup Range(victims),
             committed |-> [acc.committed EXCEPT ![w] = Minus(@, Total(Range(victims), js))]]

\* PlanPreemptions: the jobs to preempt, in order, as pairs of job and worker,
\* with the pending job that each is preempted for.
PlanPreemptions(js, placed, now) ==
    LET committed ==
            [w \in Range(WorkerList) |->
                Plus(CommittedByWorker(js)[w], Total(GivenTo(placed, w), js))]
        queue == SortedByPriority(js, Queued(js) \ {placed[i].job : i \in DOMAIN placed}, now)
        after[n \in 0 .. Len(queue)] ==
            IF n = 0 THEN [preemptions |-> << >>, gone |-> {}, committed |-> committed]
            ELSE Help(js, after[n - 1], queue[n], now)
    IN after[Len(queue)].preemptions

-----------------------------------------------------------------------------
\* The worker can serve these jobs together: CPU and memory suffice, and for
\* every bar m the jobs that need GPUs of at least m find as many.
Serves(worker, js, S) ==
    /\ \A d \in Dimension \ {"gpu"} : Total(S, js)[d] <= worker.capacity[d]
    /\ \A j \in S :
        LET m == js[j].minGPUMemory IN
        Total({k \in S : js[k].minGPUMemory >= m}, js)["gpu"] <= FreeGPUCount(worker, m, 0)

CapacityRespected(js) ==
    \A w \in Range(WorkerList) : Serves(Cluster[w], js, Holders(js, w))
=============================================================================
