---------------------------- MODULE PlanningPass ----------------------------
(***************************************************************************)
(* One scheduling decision over every small snapshot: the jobs are filled  *)
(* in one by one, as long as what is placed respects the capacity of the   *)
(* cluster, and then Plan and PlanPreemptions decide.  The properties      *)
(* compare the decision with what it should be, said without an order of   *)
(* evaluation.                                                             *)
(***************************************************************************)
EXTENDS Planner

CONSTANTS
    MaxJobs,         \* the most jobs in a snapshot
    Ages             \* how long a job may have waited

ASSUME PassAssumption ==
    MaxJobs \in Nat /\ Ages \subseteq Nat /\ Ages # {} /\ IsFiniteSet(Ages)

VARIABLES
    js,              \* the snapshot
    decision         \* what the pass decides

passVars == <<js, decision>>

Now == Max(Ages)

Undecided == [assignments |-> << >>, preemptions |-> << >>, made |-> FALSE]

PassInit == js = << >> /\ decision = Undecided

\* The next job in ID order is queued, or running somewhere it fits.
AddJob(r, age, state, w, preemptible) ==
    /\ Len(js) < MaxJobs
    /\ ~decision.made
    /\ js' = Append(js,
              [state |-> state, preemptible |-> preemptible,
               assigned |-> IF state = "RUNNING" THEN {w} ELSE {},
               priority |-> r.priority, need |-> r.need,
               minGPUMemory |-> r.minGPUMemory, createdAt |-> Now - age])
    /\ CapacityRespected(js')
    /\ UNCHANGED decision

Decide ==
    /\ ~decision.made
    /\ LET placed == Plan(js, Now)
       IN decision' = [assignments |-> placed,
                       preemptions |-> PlanPreemptions(js, placed, Now),
                       made |-> TRUE]
    /\ UNCHANGED js

PassNext ==
    \/ \E r \in Requests, age \in Ages :
        \/ AddJob(r, age, "QUEUED", 0, FALSE)
        \/ \E w \in Range(WorkerList), p \in BOOLEAN : AddJob(r, age, "RUNNING", w, p)
    \/ Decide

PassSpec == PassInit /\ [][PassNext]_passVars

-----------------------------------------------------------------------------
Placed == {decision.assignments[i].job : i \in DOMAIN decision.assignments}

Preempted == {decision.preemptions[i].job : i \in DOMAIN decision.preemptions}

WorkerOf(j) ==
    LET i == CHOOSE i \in DOMAIN decision.assignments : decision.assignments[i].job = j
    IN decision.assignments[i].worker

\* The rows once every assignment of S is written.
After(S) == [j \in DOMAIN js |-> IF j \in S THEN [js[j] EXCEPT !.state = "SCHEDULED",
                                                               !.assigned = {WorkerOf(j)}]
                                 ELSE js[j]]

\* The rows once, in addition, the preempted jobs have stopped.
AfterStops(S) == [j \in DOMAIN js |-> IF j \in S THEN [js[j] EXCEPT !.state = "QUEUED",
                                                                    !.assigned = {}]
                                      ELSE After(Placed)[j]]

\* j would fit on some worker beside what the rows commit.
HasRoom(j, rows) == Eligible(js[j], CommittedByWorker(rows)) # {}

\* i is ahead of k in the queue: higher effective priority, then older, then
\* the smaller ID.
Ahead(i, k) ==
    LET pi == EffectivePriority(js[i], Now)  pk == EffectivePriority(js[k], Now)
    IN \/ pi > pk
       \/ pi = pk /\ js[i].createdAt < js[k].createdAt
       \/ pi = pk /\ js[i].createdAt = js[k].createdAt /\ i < k

\* The assignments of one pass together stay within every worker's capacity,
\* GPU memory bars included: counting committed GPUs without knowing which
\* devices they are is conservative.
PlanStaysWithinCapacity == CapacityRespected(After(Placed))

\* Plan places a queued job exactly if it has room beside the jobs ahead of it
\* that were placed: no job waits for one behind it, none overtakes at the
\* expense of a job ahead, and none that still fits is left out.
PlanServesTheQueueInOrder ==
    decision.made =>
        \A j \in Queued(js) :
            j \in Placed <=> HasRoom(j, After({i \in Placed : Ahead(i, j)}))

\* Only running, preemptible jobs of strictly lower effective priority than
\* the unplaced pending job they make way for are preempted, each once.
VictimsMayBePreempted ==
    /\ Cardinality(Preempted) = Len(decision.preemptions)
    /\ \A i \in DOMAIN decision.preemptions :
        LET v == js[decision.preemptions[i].job]
            p == decision.preemptions[i].pending
        IN /\ v.state = "RUNNING" /\ v.preemptible
           /\ p \in Queued(js) \ Placed
           /\ EffectivePriority(v, Now) < EffectivePriority(js[p], Now)

\* What PlanPreemptions' comment says of its victims: enough capacity is freed
\* for the pending job that they make way for.
PreemptionMakesRoom ==
    \A i \in DOMAIN decision.preemptions :
        HasRoom(decision.preemptions[i].pending, AfterStops(Preempted))

\* What ADR-0005 and the comment say: never more jobs than necessary.  Sparing
\* one of the victims, the pending job would not have room.
PreemptsNoMoreThanNecessary ==
    \A i \in DOMAIN decision.preemptions :
        ~HasRoom(decision.preemptions[i].pending,
                 AfterStops(Preempted \ {decision.preemptions[i].job}))
=============================================================================
