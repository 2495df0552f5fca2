----------------------------- MODULE Scheduler ------------------------------
(***************************************************************************)
(* The scheduler processes: leader election (leases.RunElection), the loop *)
(* that calls RunOnce while an instance believes to lead, and RunOnce's    *)
(* read - plan - write cycle against job rows that clients and workers     *)
(* change meanwhile.                                                       *)
(*                                                                         *)
(* RunOnce decides on a snapshot and then writes one row at a time.  Each  *)
(* write checks the job's state again under the row lock; the capacity the *)
(* plan relied on is never checked again.  The cluster's workers stay      *)
(* ACTIVE here (Execution lets them die).                                  *)
(***************************************************************************)
EXTENDS Jobs, Planner

CONSTANTS
    Job,             \* job IDs, numbers
    Instance,        \* scheduler processes
    Preemption       \* whether preemption is enabled

ASSUME SchedulerAssumption == Job \subseteq Nat /\ IsFiniteSet(Job)

VARIABLES
    jobs,            \* the repository: job ID -> row
    leader,          \* the instance that holds the election key in etcd, if any
    pass             \* pass[s]: what instance s is doing

vars == <<jobs, leader, pass>>

\* A row with what the planner reads of it.  All jobs are of one age.
PlannedJob(r, limit) ==
    LET row == NewJob(NoSubmission, limit, r.preemptible)
        asked == [priority |-> r.priority, need |-> r.need,
                  minGPUMemory |-> r.minGPUMemory, createdAt |-> 0]
    IN [f \in DOMAIN row \cup DOMAIN asked |->
           IF f \in DOMAIN row THEN row[f] ELSE asked[f]]

\* "out": not leading.  "idle": leading, between two passes.  "write": a pass
\* with decisions left to write.
Out == [pc |-> "out", assign |-> << >>, preempt |-> << >>]
Idle == [Out EXCEPT !.pc = "idle"]

TypeOK ==
    /\ \A j \in Job : jobs[j].state \in State /\ jobs[j].assigned \subseteq Range(WorkerList)
    /\ leader \subseteq Instance /\ Cardinality(leader) <= 1
    /\ \A s \in Instance : pass[s].pc \in {"out", "idle", "write"}

Init ==
    /\ jobs = [j \in Job |-> NoRow]
    /\ leader = {}
    /\ pass = [s \in Instance |-> Out]

-----------------------------------------------------------------------------
\* Clients and workers, through jobs.Service.
Change(j, permitted, row) ==
    /\ jobs[j].state # "NONE"
    /\ permitted
    /\ jobs' = [jobs EXCEPT ![j] = row]
    /\ UNCHANGED <<leader, pass>>

Submit(j, r, limit) ==
    /\ jobs[j].state = "NONE"
    /\ jobs' = [jobs EXCEPT ![j] = PlannedJob(r, limit)]
    /\ UNCHANGED <<leader, pass>>

CancelJob(j) == Change(j, CancelPermits(jobs[j]), Cancel(jobs[j]))

ReportStarted(j) == Change(j, StartPermits(jobs[j]), Start(jobs[j]))

ReportCompleted(j) == Change(j, CompletePermits(jobs[j]), Complete(jobs[j]))

ReportFailed(j) == Change(j, FailPermits(jobs[j]), Fail(jobs[j]))

ReportJobStopped(j) == Change(j, TRUE, ReportStopped(jobs[j]))

-----------------------------------------------------------------------------
\* Campaign returns: the key was free, and onLeader starts.
Elected(s) ==
    /\ leader = {} /\ pass[s].pc = "out"
    /\ leader' = {s}
    /\ pass' = [pass EXCEPT ![s] = Idle]
    /\ UNCHANGED jobs

\* The instance's session expires in etcd; the instance does not know yet.
SessionExpires ==
    /\ leader # {}
    /\ leader' = {}
    /\ UNCHANGED <<jobs, pass>>

\* It notices, or its keep-alive stops for another reason, or the process shuts
\* down: onLeader's context is cancelled, which ends the pass, and only then is
\* the key given up if the session still holds it.
StepsDown(s) ==
    /\ pass[s].pc # "out"
    /\ pass' = [pass EXCEPT ![s] = Out]
    /\ leader' = leader \ {s}
    /\ UNCHANGED jobs

-----------------------------------------------------------------------------
\* RunOnce: list, plan, and keep the decisions to write.
ListAndPlan(s) ==
    /\ pass[s].pc = "idle"
    /\ LET active == [j \in {k \in Job : /\ jobs[k].state # "NONE"
                                         /\ ~Terminal(jobs[k].state)} |-> jobs[j]]
           placed == Plan(active, 0)
       IN pass' = [pass EXCEPT ![s] =
              [pc |-> "write", assign |-> placed,
               preempt |-> IF Preemption THEN PlanPreemptions(active, placed, 0)
                           ELSE << >>]]
    /\ UNCHANGED <<jobs, leader>>

\* Write the next assignment; a job that is no longer QUEUED is skipped.
WriteAssignment(s) ==
    /\ pass[s].assign # << >>
    /\ LET a == Head(pass[s].assign)
       IN jobs' = IF AssignPermits(jobs[a.job])
                  THEN [jobs EXCEPT ![a.job] = Assign(@, {a.worker})] ELSE jobs
    /\ pass' = [pass EXCEPT ![s].assign = Tail(@)]
    /\ UNCHANGED leader

\* Then the next preemption; a job that is no longer RUNNING is skipped.
WritePreemption(s) ==
    /\ pass[s].assign = << >> /\ pass[s].preempt # << >>
    /\ LET p == Head(pass[s].preempt)
       IN jobs' = IF PreemptPermits(jobs[p.job])
                  THEN [jobs EXCEPT ![p.job] = Preempt(@)] ELSE jobs
    /\ pass' = [pass EXCEPT ![s].preempt = Tail(@)]
    /\ UNCHANGED leader

\* The pass is over, or a write failed and RunOnce returns.
PassEnds(s) ==
    /\ pass[s].pc = "write"
    /\ pass' = [pass EXCEPT ![s] = Idle]
    /\ UNCHANGED <<jobs, leader>>

Next ==
    \/ \E j \in Job :
        \/ \E r \in Requests, limit \in RetryLimits : Submit(j, r, limit)
        \/ CancelJob(j)
        \/ ReportStarted(j)
        \/ ReportCompleted(j)
        \/ ReportFailed(j)
        \/ ReportJobStopped(j)
    \/ SessionExpires
    \/ \E s \in Instance :
        \/ Elected(s)
        \/ StepsDown(s)
        \/ ListAndPlan(s)
        \/ WriteAssignment(s)
        \/ WritePreemption(s)
        \/ PassEnds(s)

Spec == Init /\ [][Next]_vars

-----------------------------------------------------------------------------
On(w, states) == {j \in Job : jobs[j].state \in states /\ w \in jobs[j].assigned}

\* The jobs placed on a worker never need more than it has, whatever clients
\* and workers do between a pass's snapshot and its writes.
CapacityIsRespected ==
    \A w \in Range(WorkerList) :
        Serves(Cluster[w], jobs, On(w, {"SCHEDULED", "RUNNING"}))

\* A placed job is not placed again elsewhere: only the queue takes it from a
\* worker, even while two instances write decisions about it.
NeverReassigned ==
    [][\A j \in Job :
           jobs[j].assigned # {} => jobs'[j].assigned \in {jobs[j].assigned, {}}]_vars

\* What RunElection's comment says: only one instance's onLeader is ever
\* running at a time.
OneLeaderRuns ==
    \A r, s \in Instance : pass[r].pc # "out" /\ pass[s].pc # "out" => r = s

\* What PlanPreemptions' comment says of freed capacity: it is used again only
\* once the worker confirmed that the job stopped.
CapacityIsGenuinelyFree ==
    \A w \in Range(WorkerList) :
        Serves(Cluster[w], jobs, On(w, {"SCHEDULED", "RUNNING", "PREEMPTED"}))
=============================================================================
