--------------------------- MODULE SchedulerProofs --------------------------
(***************************************************************************)
(* What TLAPS proves of the scheduler, for any jobs, requests, cluster and *)
(* number of instances, and for any aging.  First what the check under the *)
(* row lock guarantees of a row (Rows), then what a pass leaves on the     *)
(* workers while only one instance runs (Instances), then the facts that   *)
(* PlannerProofs assumes by name, and at the end the theorems about        *)
(* Scheduler, Overlap and PlanningPass.                                    *)
(***************************************************************************)
EXTENDS Overlap, PlannerProofs

-----------------------------------------------------------------------------
(* Rows.  Nothing is assumed here of what Plan and PlanPreemptions decide: *)
(* instances write decisions that may be stale or plain wrong, several at  *)
(* once, and the check under the row lock has to be enough.                *)

\* A row has the fields that the callbacks write, and is on no worker while it
\* is queued: that is why placing a queued job takes it from nobody.
PlacedRow(r) ==
    /\ {"state", "assigned", "completedAt", "failedAt", "startedAt", "currentAttempt"}
          \subseteq DOMAIN r
    /\ r.state \in State
    /\ r.state \in {"NONE", "QUEUED"} => r.assigned = {}
    /\ r.state # "NONE" =>
          {"need", "minGPUMemory", "priority", "createdAt"} \subseteq DOMAIN r /\ SizedRow(r)

PlacedInv ==
    /\ DOMAIN jobs = Job
    /\ \A j \in Job : PlacedRow(jobs[j])

\* What the operations other than an assignment do to a row.
Callback(r, n) ==
    \/ StartPermits(r) /\ n = Start(r)
    \/ n = Cancel(r) \/ n = Complete(r) \/ n = Fail(r) \/ n = ReportStopped(r)
    \/ n = Preempt(r)

\* A callback keeps a row in form, and makes it hold nothing more.
LEMMA CallbacksKeepPlace ==
    ASSUME NEW r, PlacedRow(r), r.state # "NONE",
           NEW n, Callback(r, n)
    PROVE  /\ PlacedRow(n) /\ n.state # "NONE" /\ SameRequest(r, n)
           /\ n.assigned \in {r.assigned, {}}
           /\ HoldsCapacity(n) => HoldsCapacity(r) /\ n.assigned = r.assigned
  <1> USE DEF PlacedRow, SizedRow, SameRequest, HoldsCapacity, State
  <1>1. CASE n = Cancel(r)
    BY <1>1 DEF Cancel
  <1>2. CASE n = Start(r) /\ StartPermits(r)
    BY <1>2 DEF Start, StartPermits
  <1>3. CASE n = Complete(r) \/ n = Preempt(r)
    BY <1>3, Zenon DEF Complete, Preempt
  <1>4. CASE n = Fail(r)
    BY <1>4 DEF Fail, ApplyFailureOrRetry
  <1>5. CASE n = ReportStopped(r)
    BY <1>5 DEF ReportStopped
  <1> QED BY <1>1, <1>2, <1>3, <1>4, <1>5, Zenon DEF Callback

\* So does an assignment, except for the capacity that it is about.
LEMMA AssignKeepsPlace ==
    ASSUME NEW r, PlacedRow(r), AssignPermits(r), NEW W
    PROVE  LET n == Assign(r, W) IN
           /\ PlacedRow(n) /\ n.state # "NONE" /\ SameRequest(r, n)
           /\ r.assigned = {} /\ n.assigned = W
  BY Zenon DEF PlacedRow, SizedRow, SameRequest, State, AssignPermits, Assign

\* A submitted job, and an ID without one, is on no worker.
LEMMA NewRowIsPlaced ==
    /\ PlacedRow(NoRow)
    /\ \A r \in Requests, limit \in RetryLimits :
          PlacedRow(PlannedJob(r, limit)) /\ PlannedJob(r, limit).state = "QUEUED"
  <1>1. PlacedRow(NoRow)
    BY Zenon DEF PlacedRow, State, NoRow
  <1>2. ASSUME NEW r \in Requests, NEW limit \in RetryLimits
        PROVE  PlacedRow(PlannedJob(r, limit)) /\ PlannedJob(r, limit).state = "QUEUED"
    BY PlannerAssumption DEF PlacedRow, SizedRow, State, PlannedJob, NewJob
  <1> QED BY <1>1, <1>2, Zenon

\* The next assignment of s is about j, and it is written.
Written(s, j) ==
    /\ pass[s].assign # << >> /\ Head(pass[s].assign).job = j
    /\ AssignPermits(jobs[j])
    /\ jobs' = [jobs EXCEPT ![j] = Assign(jobs[j], {Head(pass[s].assign).worker})]

\* The rows a step writes, whoever takes it.
Moved ==
    \/ jobs' = jobs
    \/ \E j \in Job, r \in Requests, limit \in RetryLimits :
          jobs[j].state = "NONE" /\ jobs' = [jobs EXCEPT ![j] = PlannedJob(r, limit)]
    \/ \E j, n :
          /\ jobs' = [jobs EXCEPT ![j] = n]
          /\ jobs[j].state # "NONE" /\ Callback(jobs[j], n)
    \/ \E s \in Instance : \E j : Written(s, j)

\* Every step changes rows by callbacks, assigns a job, or adds a new row.
LEMMA StepsMove == [Next]_vars => Moved
  <1> SUFFICES ASSUME [Next]_vars PROVE Moved
    OBVIOUS
  <1>1. CASE UNCHANGED vars
    BY <1>1 DEF vars, Moved
  <1>2. ASSUME NEW j \in Job, NEW r \in Requests, NEW limit \in RetryLimits,
               Submit(j, r, limit)
        PROVE  Moved
    BY <1>2, Zenon DEF Submit, Moved
  <1>3. ASSUME NEW j \in Job,
               \/ CancelJob(j) \/ ReportStarted(j) \/ ReportCompleted(j)
               \/ ReportFailed(j) \/ ReportJobStopped(j)
        PROVE  Moved
    <2>1. \E n : /\ jobs' = [jobs EXCEPT ![j] = n]
                 /\ jobs[j].state # "NONE" /\ Callback(jobs[j], n)
      BY <1>3 DEF CancelJob, ReportStarted, ReportCompleted, ReportFailed,
                  ReportJobStopped, Change, Callback
    <2> QED BY <2>1, Zenon DEF Moved
  <1>4. ASSUME NEW s \in Instance,
               Elected(s) \/ StepsDown(s) \/ ListAndPlan(s) \/ PassEnds(s)
        PROVE  Moved
    BY <1>4, Zenon DEF Elected, StepsDown, ListAndPlan, PassEnds, Moved
  <1>5. ASSUME NEW s \in Instance, WriteAssignment(s)
        PROVE  Moved
    <2>1. jobs' = jobs \/ Written(s, Head(pass[s].assign).job)
      BY <1>5, Zenon DEF WriteAssignment, Written
    <2> QED BY <2>1, Zenon DEF Moved
  <1>6. ASSUME NEW s \in Instance, WritePreemption(s)
        PROVE  Moved
    <2> DEFINE p == Head(pass[s].preempt)
    <2>1. \/ jobs' = jobs
          \/ /\ PreemptPermits(jobs[p.job])
             /\ jobs' = [jobs EXCEPT ![p.job] = Preempt(jobs[p.job])]
      BY <1>6 DEF WritePreemption
    <2> QED BY <2>1, Zenon DEF Moved, PreemptPermits, Callback
  <1>7. CASE SessionExpires
    BY <1>7, Zenon DEF SessionExpires, Moved
  <1> QED BY <1>1, <1>2, <1>3, <1>4, <1>5, <1>6, <1>7, Zenon DEF Next

\* What becomes of a row: it stays in form, its request stays, and it comes to
\* hold capacity only where an assignment is written.
RowStep(j) ==
    /\ PlacedRow(jobs'[j])
    /\ jobs[j].state # "NONE" => jobs'[j].state # "NONE" /\ SameRequest(jobs[j], jobs'[j])
    /\ \/ /\ jobs'[j].assigned \in {jobs[j].assigned, {}}
          /\ HoldsCapacity(jobs'[j]) =>
                HoldsCapacity(jobs[j]) /\ jobs'[j].assigned = jobs[j].assigned
       \/ /\ jobs[j].assigned = {}
          /\ \E s \in Instance :
                /\ pass[s].assign # << >> /\ Head(pass[s].assign).job = j
                /\ jobs'[j].assigned = {Head(pass[s].assign).worker}

\* Every step treats every row so.
LEMMA MovesKeepPlace ==
    ASSUME PlacedInv, Moved
    PROVE  PlacedInv' /\ \A j \in Job : RowStep(j)
  <1> SUFFICES DOMAIN jobs' = Job /\ \A j \in Job : RowStep(j)
    BY Zenon DEF PlacedInv, RowStep
  <1>1. \A j \in Job : PlacedRow(jobs[j]) /\ (jobs'[j] = jobs[j] => RowStep(j))
    BY DEF PlacedInv, RowStep, SameRequest
  <1>2. CASE jobs' = jobs
    BY <1>1, <1>2 DEF PlacedInv
  <1>3. ASSUME NEW j, NEW n, jobs' = [jobs EXCEPT ![j] = n],
               j \in Job => (jobs'[j] = n => RowStep(j))
        PROVE  DOMAIN jobs' = Job /\ \A i \in Job : RowStep(i)
    BY <1>1, <1>3 DEF PlacedInv
  <1>4. ASSUME NEW j \in Job, NEW r \in Requests, NEW limit \in RetryLimits, jobs[j].state = "NONE",
               jobs' = [jobs EXCEPT ![j] = PlannedJob(r, limit)],
               jobs'[j] = PlannedJob(r, limit)
        PROVE  RowStep(j)
    <2>1. PlacedRow(jobs[j])
      BY <1>1
    <2> QED BY <1>4, <2>1, NewRowIsPlaced, Zenon DEF RowStep, PlacedRow, HoldsCapacity
  <1>5. ASSUME NEW j \in Job, NEW n, jobs[j].state # "NONE", Callback(jobs[j], n),
               jobs'[j] = n
        PROVE  RowStep(j)
    BY <1>1, <1>5, CallbacksKeepPlace, Zenon DEF RowStep
  <1>6. ASSUME NEW s \in Instance, NEW j \in Job, Written(s, j),
               jobs'[j] = Assign(jobs[j], {Head(pass[s].assign).worker})
        PROVE  RowStep(j)
    <2> DEFINE W == {Head(pass[s].assign).worker}
    <2>1. /\ PlacedRow(jobs[j]) /\ AssignPermits(jobs[j]) /\ jobs'[j] = Assign(jobs[j], W)
          /\ pass[s].assign # << >> /\ Head(pass[s].assign).job = j
      BY <1>1, <1>6 DEF Written
    <2> HIDE DEF W
    <2>2. /\ PlacedRow(jobs'[j]) /\ jobs'[j].state # "NONE" /\ SameRequest(jobs[j], jobs'[j])
          /\ jobs[j].assigned = {} /\ jobs'[j].assigned = W
      BY <2>1, AssignKeepsPlace
    <2> QED BY <2>1, <2>2, Zenon DEF RowStep, W
  <1> QED BY <1>2, <1>3, <1>4, <1>5, <1>6, Zenon DEF Moved, Written

\* A queued job is on no worker, throughout.
THEOREM QueuedIsUnplaced == Spec => []PlacedInv
  <1>1. Init => PlacedInv
    BY NewRowIsPlaced DEF Init, PlacedInv
  <1>2. PlacedInv /\ [Next]_vars => PlacedInv'
    BY StepsMove, MovesKeepPlace
  <1> QED BY <1>1, <1>2, PTL DEF Spec

\* However many instances write decisions at once, and however stale those
\* are, a job that is on a worker leaves it only for the queue.
THEOREM PlacedStaysPlaced == Spec => NeverReassigned
  <1>1. PlacedInv /\ [Next]_vars =>
          [\A j \in Job : jobs[j].assigned # {} =>
               jobs'[j].assigned \in {jobs[j].assigned, {}}]_vars
    BY StepsMove, MovesKeepPlace DEF RowStep
  <1> QED BY <1>1, QueuedIsUnplaced, PTL DEF Spec, NeverReassigned

-----------------------------------------------------------------------------
(* The instances.                                                          *)

InForm(p) ==
    /\ {"pc", "assign", "preempt"} \subseteq DOMAIN p
    /\ p.pc \in {"out", "idle", "write"}
    /\ p.pc # "write" => p.assign = << >>

\* An assignment of a plan.
Assignments == [job: Job, worker: Range(WorkerList)]

\* The assignments that an instance has still to write are about submitted jobs.
PassOK(p) ==
    /\ InForm(p)
    /\ p.assign \in Seq(Assignments)
    /\ \A i \in DOMAIN p.assign : jobs[p.assign[i].job].state # "NONE"

SchedInv ==
    /\ PlacedInv
    /\ \A j \in Job : jobs[j].assigned \subseteq Range(WorkerList)
    /\ leader = {} \/ \E s \in Instance : leader = {s}
    /\ DOMAIN pass = Instance /\ \A s \in Instance : PassOK(pass[s])

\* What RunOnce reads.
Active == [j \in {k \in Job : jobs[k].state # "NONE" /\ ~Terminal(jobs[k].state)} |-> jobs[j]]

\* It is a snapshot, and holds every job that takes up capacity.
LEMMA ActiveRows ==
    ASSUME PlacedInv
    PROVE  /\ Snapshot(Active)
           /\ \A j \in Queued(Active) : j \in Job /\ jobs[j].state # "NONE"
           /\ \A w : Holders(Active, w) = Holders(jobs, w)
           /\ \A j \in DOMAIN Active : Active[j] = jobs[j] /\ j \in Job /\ jobs[j].state # "NONE"
  <1> DEFINE A == {k \in Job : jobs[k].state # "NONE" /\ ~Terminal(jobs[k].state)}
  <1>1. DOMAIN Active = A /\ \A j \in A : Active[j] = jobs[j]
    BY DEF Active
  <1>2. Snapshot(Active)
    BY <1>1, SchedulerAssumption, Zenon DEF Snapshot, Sized, PlacedInv, PlacedRow
  <1>3. \A w : Holders(Active, w) = Holders(jobs, w)
    BY <1>1, Zenon DEF Holders, HoldsCapacity, Terminal, PlacedInv
  <1> QED BY <1>1, <1>2, <1>3 DEF Queued

\* Nothing is added to what s has still to write.
NothingListed(s) ==
    /\ InForm(pass'[s])
    /\ \/ pass'[s].assign \in {pass[s].assign, << >>}
       \/ pass[s].assign # << >> /\ pass'[s].assign = Tail(pass[s].assign)

\* A step that plans nothing adds nothing.
LEMMA StepsListNothing ==
    ASSUME SchedInv, [Next]_vars, \A s \in Instance : ~ListAndPlan(s)
    PROVE  /\ DOMAIN pass' = Instance /\ \A s \in Instance : NothingListed(s)
           /\ leader' = {} \/ \E s \in Instance : leader' = {s}
  <1> DEFINE Goal == /\ DOMAIN pass' = Instance /\ \A s \in Instance : NothingListed(s)
                     /\ leader' = {} \/ \E s \in Instance : leader' = {s}
  <1>1. /\ DOMAIN pass = Instance /\ \A s \in Instance : InForm(pass[s])
        /\ leader = {} \/ \E s \in Instance : leader = {s}
    BY DEF SchedInv, PassOK
  <1>2. CASE UNCHANGED pass /\ leader' \in {leader, {}}
    BY <1>1, <1>2, Zenon DEF NothingListed
  <1>3. ASSUME NEW s \in Instance, NEW p, pass' = [pass EXCEPT ![s] = p],
               leader' \in {leader, {s}, leader \ {s}}, NothingListed(s)
        PROVE  Goal
    <2>1. DOMAIN pass' = Instance /\ \A r \in Instance \ {s} : pass'[r] = pass[r]
      BY <1>1, <1>3
    <2>2. \A r \in Instance \ {s} : NothingListed(r)
      BY <1>1, <2>1, Zenon DEF NothingListed
    <2>3. leader' = {} \/ \E r \in Instance : leader' = {r}
      BY <1>1, <1>3
    <2> QED BY <1>3, <2>1, <2>2, <2>3, Zenon
  <1>4. ASSUME NEW s \in Instance, Elected(s) \/ StepsDown(s) \/ PassEnds(s)
        PROVE  Goal
    <2>1. PICK p \in {Out, Idle} : pass' = [pass EXCEPT ![s] = p]
      BY <1>4, Zenon DEF Elected, StepsDown, PassEnds
    <2>2. leader' \in {leader, {s}, leader \ {s}}
      BY <1>4, Zenon DEF Elected, StepsDown, PassEnds
    <2>3. pass'[s] = p /\ InForm(p) /\ p.assign = << >>
      BY <1>1, <2>1 DEF InForm, Out, Idle
    <2> QED BY <1>3, <2>1, <2>2, <2>3, Zenon DEF NothingListed
  <1>5. ASSUME NEW s \in Instance, WriteAssignment(s)
        PROVE  Goal
    <2> DEFINE p == [pass[s] EXCEPT !.assign = Tail(pass[s].assign)]
    <2>1. pass[s].assign # << >> /\ pass' = [pass EXCEPT ![s] = p] /\ leader' = leader
      BY <1>5, Zenon DEF WriteAssignment
    <2>2. pass'[s] = p /\ InForm(pass[s])
      BY <1>1, <2>1
    <2>3. NothingListed(s)
      BY <2>1, <2>2 DEF NothingListed, InForm
    <2> HIDE DEF p
    <2> QED BY <1>3, <2>1, <2>3, Zenon
  <1>6. ASSUME NEW s \in Instance, WritePreemption(s)
        PROVE  Goal
    <2> DEFINE p == [pass[s] EXCEPT !.preempt = Tail(pass[s].preempt)]
    <2>1. pass' = [pass EXCEPT ![s] = p] /\ leader' = leader
      BY <1>6, Zenon DEF WritePreemption
    <2>2. pass'[s] = p /\ InForm(pass[s])
      BY <1>1, <2>1
    <2>3. NothingListed(s)
      BY <2>1, <2>2 DEF NothingListed, InForm
    <2> HIDE DEF p
    <2> QED BY <1>3, <2>1, <2>3, Zenon
  <1>7. \/ UNCHANGED pass /\ leader' \in {leader, {}}
        \/ \E s \in Instance : \/ Elected(s) \/ StepsDown(s) \/ PassEnds(s)
                               \/ WriteAssignment(s) \/ WritePreemption(s)
    BY Zenon DEF Next, vars, Submit, CancelJob, ReportStarted, ReportCompleted, ReportFailed,
                 ReportJobStopped, Change, SessionExpires
  <1> QED BY <1>2, <1>4, <1>5, <1>6, <1>7, Zenon

\* What RunOnce keeps of its plan.
LEMMA PlanListed ==
    ASSUME SchedInv, PlanFits, NEW s \in Instance, ListAndPlan(s)
    PROVE  /\ UNCHANGED <<jobs, leader>> /\ pass[s].pc # "out"
           /\ DOMAIN pass' = Instance /\ \A r \in Instance \ {s} : pass'[r] = pass[r]
           /\ pass'[s].assign = Plan(Active, 0) /\ PassOK(pass'[s])
  <1> DEFINE q == Plan(Active, 0)
             p == [pc |-> "write", assign |-> q,
                   preempt |-> IF Preemption THEN PlanPreemptions(Active, q, 0) ELSE << >>]
  <1>1. UNCHANGED <<jobs, leader>> /\ pass[s].pc = "idle" /\ pass' = [pass EXCEPT ![s] = p]
    BY Zenon DEF ListAndPlan, Active
  <1> DEFINE X == [job: Queued(Active), worker: Range(WorkerList)]
  <1>2. q \in Seq(X)
    BY ActiveRows DEF SchedInv, PlanFits
  <1>3. X \subseteq Assignments /\ \A a \in X : jobs[a.job].state # "NONE"
    BY ActiveRows DEF SchedInv, Assignments
  <1>4. p.assign = q /\ InForm(p)
    BY DEF InForm
  <1> HIDE DEF p, q, X
  <1>5. DOMAIN pass' = Instance /\ pass'[s] = p /\ \A r \in Instance \ {s} : pass'[r] = pass[r]
    BY <1>1 DEF SchedInv
  <1>6. q \in Seq(Assignments) /\ \A i \in DOMAIN q : jobs[q[i].job].state # "NONE"
    BY <1>2, <1>3, Lists
  <1> QED BY <1>1, <1>4, <1>5, <1>6 DEF PassOK, q

\* What a step leaves of a list.
LEMMA ListsShrink ==
    ASSUME SchedInv, NEW s \in Instance, NothingListed(s)
    PROVE  /\ pass'[s].assign \in Seq(Assignments)
           /\ \A i \in DOMAIN pass'[s].assign :
                 \E k \in DOMAIN pass[s].assign : pass'[s].assign[i] = pass[s].assign[k]
  <1>1. pass[s].assign \in Seq(Assignments)
    BY Zenon DEF SchedInv, PassOK
  <1>2. CASE pass'[s].assign = pass[s].assign
    BY <1>1, <1>2, Zenon
  <1>4. CASE pass'[s].assign = << >>
    <2>1. \A X : << >> \in Seq(X) /\ DOMAIN << >> = {}
      OBVIOUS
    <2> QED BY <1>4, <2>1, Zenon
  <1>3. CASE pass[s].assign # << >> /\ pass'[s].assign = Tail(pass[s].assign)
    BY <1>1, <1>3, Lists
  <1> QED BY <1>2, <1>3, <1>4, Zenon DEF NothingListed

\* Every step keeps the rows, the lists and the election key in form.
LEMMA SchedKeeps ==
    ASSUME SchedInv, PlanFits, [Next]_vars
    PROVE  SchedInv'
  <1>1. PlacedInv' /\ \A j \in Job : RowStep(j)
    BY StepsMove, MovesKeepPlace DEF SchedInv
  <1>2. \A j \in Job : jobs'[j].assigned \subseteq Range(WorkerList)
    <2> SUFFICES ASSUME NEW j \in Job, NEW s \in Instance, pass[s].assign # << >>,
                        jobs'[j].assigned = {Head(pass[s].assign).worker}
                 PROVE  jobs'[j].assigned \subseteq Range(WorkerList)
      BY <1>1, Zenon DEF RowStep, SchedInv
    <2>1. pass[s].assign \in Seq(Assignments)
      BY Zenon DEF SchedInv, PassOK
    <2>2. Head(pass[s].assign) \in Assignments
      BY <2>1, Lists
    <2> QED BY <2>2 DEF Assignments
  <1>3. \A j \in Job : jobs[j].state # "NONE" => jobs'[j].state # "NONE"
    BY <1>1 DEF RowStep
  <1>4. ASSUME NEW s \in Instance, ListAndPlan(s)
        PROVE  SchedInv'
    <2>1. /\ jobs' = jobs /\ leader' = leader /\ DOMAIN pass' = Instance
          /\ PassOK(pass'[s]) /\ \A r \in Instance \ {s} : pass'[r] = pass[r]
      BY <1>4, PlanListed
    <2>2. \A r \in Instance : PassOK(pass'[r])
      BY <2>1, Zenon DEF SchedInv
    <2>3. \A r \in Instance : PassOK(pass[r])'
      BY <2>1, <2>2, Zenon DEF PassOK
    <2> QED BY <1>1, <1>2, <2>1, <2>3, Zenon DEF SchedInv
  <1>5. CASE \A s \in Instance : ~ListAndPlan(s)
    <2>1. /\ DOMAIN pass' = Instance /\ \A s \in Instance : NothingListed(s)
          /\ leader' = {} \/ \E s \in Instance : leader' = {s}
      BY <1>5, StepsListNothing
    <2>2. ASSUME NEW s \in Instance
          PROVE  PassOK(pass[s])'
      <3>1. \A i \in DOMAIN pass[s].assign : /\ pass[s].assign[i].job \in Job
                                              /\ jobs[pass[s].assign[i].job].state # "NONE"
        <4>1. /\ pass[s].assign \in Seq(Assignments)
              /\ \A i \in DOMAIN pass[s].assign : jobs[pass[s].assign[i].job].state # "NONE"
          BY Zenon DEF SchedInv, PassOK
        <4>2. \A i \in DOMAIN pass[s].assign : pass[s].assign[i] \in Assignments
          BY <4>1, Lists
        <4> QED BY <4>1, <4>2 DEF Assignments
      <3>2. /\ pass'[s].assign \in Seq(Assignments)
            /\ \A i \in DOMAIN pass'[s].assign :
                  \E k \in DOMAIN pass[s].assign : pass'[s].assign[i] = pass[s].assign[k]
        BY <2>1, ListsShrink
      <3>3. \A i \in DOMAIN pass'[s].assign : jobs'[pass'[s].assign[i].job].state # "NONE"
        BY <1>3, <3>1, <3>2, Zenon
      <3> QED BY <2>1, <3>2, <3>3, Zenon DEF PassOK, NothingListed, InForm
    <2> QED BY <1>1, <1>2, <2>1, <2>2, Zenon DEF SchedInv
  <1> QED BY <1>4, <1>5

\* What w has to serve, now and once every assignment in hand is written.
Load(w) == Holders(jobs, w) \cup UNION {GivenTo(pass[s].assign, w) : s \in Instance}

\* Capacity alone is not inductive, since the assignments that an instance has
\* still to write were planned on a snapshot: together with them, the jobs that
\* hold capacity stay within it as long as no two instances have run at once.
LoadInv ==
    /\ overlap \in BOOLEAN
    /\ ~overlap => /\ OneLeaderRuns
                   /\ \A w \in Range(WorkerList) : Serves(Cluster[w], jobs, Load(w))

\* The jobs of a load are submitted ones.
LEMMA LoadIsSized ==
    ASSUME SchedInv, NEW w
    PROVE  /\ \A j \in Load(w) : j \in Job /\ jobs[j].state # "NONE"
           /\ Sized(Load(w), jobs)
  <1>1. \A j \in Holders(jobs, w) : j \in Job /\ jobs[j].state # "NONE"
    BY DEF Holders, HoldsCapacity, SchedInv, PlacedInv
  <1>2. ASSUME NEW s \in Instance
        PROVE  \A j \in GivenTo(pass[s].assign, w) : j \in Job /\ jobs[j].state # "NONE"
    <2> DEFINE q == pass[s].assign
    <2>1. q \in Seq(Assignments) /\ \A i \in DOMAIN q : jobs[q[i].job].state # "NONE"
      BY Zenon DEF SchedInv, PassOK
    <2>2. \A i \in DOMAIN q : q[i] \in Assignments
      BY <2>1, Lists
    <2>3. \A a \in Assignments : a.job \in Job
      BY DEF Assignments
    <2> QED BY <2>1, <2>2, <2>3, Zenon DEF GivenTo
  <1>3. \A j \in Load(w) : j \in Job /\ jobs[j].state # "NONE"
    BY <1>1, <1>2, Zenon DEF Load
  <1>4. \A j \in Load(w) : SizedRow(jobs[j])
    BY <1>3, Zenon DEF SchedInv, PlacedInv, PlacedRow
  <1> QED BY <1>3, <1>4, SchedulerAssumption, Zenon DEF Sized

\* A step that plans nothing adds to no load.
LEMMA LoadShrinks ==
    ASSUME SchedInv, NEW w, \A j \in Job : RowStep(j), DOMAIN jobs' = Job,
           \A s \in Instance : NothingListed(s)
    PROVE  Load(w)' \subseteq Load(w)
  <1>1. ASSUME NEW j \in Holders(jobs', w)
        PROVE  j \in Load(w)
    <2>1. j \in Job /\ HoldsCapacity(jobs'[j]) /\ w \in jobs'[j].assigned
      BY Zenon DEF Holders
    <2>2. CASE HoldsCapacity(jobs[j]) /\ jobs'[j].assigned = jobs[j].assigned
      BY <2>1, <2>2, Zenon DEF Load, Holders, SchedInv, PlacedInv
    <2>3. ASSUME NEW s \in Instance, pass[s].assign # << >>, Head(pass[s].assign).job = j,
                 jobs'[j].assigned = {Head(pass[s].assign).worker}
          PROVE  j \in Load(w)
      <3>1. pass[s].assign \in Seq(Assignments)
        BY Zenon DEF SchedInv, PassOK
      <3>2. 1 \in DOMAIN pass[s].assign /\ Head(pass[s].assign) = pass[s].assign[1]
        BY <2>3, <3>1, Lists
      <3>3. w = pass[s].assign[1].worker /\ j = pass[s].assign[1].job
        BY <2>1, <2>3, <3>2
      <3>4. j \in GivenTo(pass[s].assign, w)
        BY <3>2, <3>3 DEF GivenTo
      <3> QED BY <3>4, Zenon DEF Load
    <2> QED BY <2>1, <2>2, <2>3, Zenon DEF RowStep
  <1>2. ASSUME NEW s \in Instance
        PROVE  GivenTo(pass'[s].assign, w) \subseteq GivenTo(pass[s].assign, w)
    <2>1. \A i \in DOMAIN pass'[s].assign :
             \E k \in DOMAIN pass[s].assign : pass'[s].assign[i] = pass[s].assign[k]
      BY ListsShrink
    <2> QED BY <2>1, Zenon DEF GivenTo
  <1> QED BY <1>1, <1>2, Zenon DEF Load

\* Without an overlap every load stays within capacity.
LEMMA LoadKeeps ==
    ASSUME SchedInv, LoadInv, TotalsAdd, UsableCounts, PlanFits, [OverlapNext]_overlapVars
    PROVE  LoadInv'
  <1>0. /\ [Next]_vars /\ overlap' \in BOOLEAN
        /\ ~overlap' => ~overlap /\ (OneLeaderRuns' \/ UNCHANGED vars)
    BY Zenon DEF OverlapNext, overlapVars, LoadInv
  <1> SUFFICES ASSUME ~overlap'
               PROVE  /\ OneLeaderRuns'
                      /\ \A w \in Range(WorkerList) : Serves(Cluster[w], jobs', Load(w)')
    BY <1>0, Zenon DEF LoadInv
  <1>1. [Next]_vars /\ ~overlap /\ (OneLeaderRuns' \/ UNCHANGED vars)
    BY <1>0, Zenon
  <1>2. OneLeaderRuns /\ \A w \in Range(WorkerList) : Serves(Cluster[w], jobs, Load(w))
    BY <1>1, Zenon DEF LoadInv
  <1>3. OneLeaderRuns'
    BY <1>1, <1>2, Zenon DEF OneLeaderRuns, vars
  <1>4. PlacedInv' /\ \A j \in Job : RowStep(j)
    BY <1>1, StepsMove, MovesKeepPlace, Zenon DEF SchedInv
  <1>5. ASSUME \A s \in Instance : ~ListAndPlan(s), NEW w \in Range(WorkerList)
        PROVE  Serves(Cluster[w], jobs', Load(w)')
    <2>1. Load(w)' \subseteq Load(w)
      BY <1>1, <1>4, <1>5, StepsListNothing, LoadShrinks, Zenon DEF PlacedInv
    <2>2. \A j \in Load(w)' : SameRequest(jobs[j], jobs'[j])
      <3>1. \A j \in Load(w) : j \in Job /\ jobs[j].state # "NONE"
        BY LoadIsSized, Zenon
      <3> HIDE DEF Load
      <3> QED BY <1>4, <2>1, <3>1, Zenon DEF RowStep
    <2> HIDE DEF Load
    <2>3. Sized(Load(w), jobs) /\ Serves(Cluster[w], jobs, Load(w))
      BY <1>2, <1>5, LoadIsSized
    <2> QED BY <1>5, <2>1, <2>2, <2>3, ServesFewer
  <1>6. ASSUME NEW s \in Instance, ListAndPlan(s), NEW w \in Range(WorkerList)
        PROVE  Serves(Cluster[w], jobs', Load(w)')
    <2> DEFINE q == Plan(Active, 0)
    <2>1. /\ jobs' = jobs /\ pass[s].pc # "out" /\ pass'[s].assign = q
          /\ \A r \in Instance \ {s} : pass'[r] = pass[r]
      BY <1>6, PlanListed
    <2>2. \A r \in Instance \ {s} : pass'[r].assign = << >>
      <3>1. \A r \in Instance \ {s} : pass[r].pc = "out" /\ InForm(pass[r])
        BY <1>2, <2>1, Zenon DEF OneLeaderRuns, SchedInv, PassOK
      <3> QED BY <2>1, <3>1, Zenon DEF InForm
    <2>3. Load(w)' \subseteq Holders(Active, w) \cup GivenTo(q, w)
      <3>1. GivenTo(<< >>, w) = {}
        BY DEF GivenTo
      <3>2. Holders(Active, w) = Holders(jobs, w)
        BY ActiveRows DEF SchedInv
      <3> HIDE DEF q
      <3> QED BY <2>1, <2>2, <3>1, <3>2, Zenon DEF Load
    <2>4. /\ Snapshot(Active) /\ \A v : Holders(Active, v) = Holders(jobs, v)
          /\ \A j \in DOMAIN Active : Active[j] = jobs[j]
      BY ActiveRows DEF SchedInv
    <2>5. \A j \in DOMAIN Active : SameRequest(jobs[j], Active[j]) /\ SameRequest(Active[j], jobs[j])
      BY <2>4, Zenon DEF SameRequest
    <2>6. \A v : Holders(Active, v) \subseteq DOMAIN Active
      BY Zenon DEF Holders
    <2>7. CapacityRespected(Active)
      <3> SUFFICES ASSUME NEW v \in Range(WorkerList)
                   PROVE  Serves(Cluster[v], Active, Holders(Active, v))
        BY Zenon DEF CapacityRespected
      <3>1. Sized(Load(v), jobs) /\ Serves(Cluster[v], jobs, Load(v))
        BY <1>2, LoadIsSized, Zenon
      <3>2. Holders(Active, v) \subseteq Load(v)
        BY <2>4, Zenon DEF Load
      <3>3. \A j \in Holders(Active, v) : SameRequest(jobs[j], Active[j])
        BY <2>5, <2>6, Zenon
      <3> HIDE DEF Load, Holders
      <3> QED BY <3>1, <3>2, <3>3, ServesFewer
    <2>8. /\ Serves(Cluster[w], Active, Holders(Active, w) \cup GivenTo(q, w))
          /\ q \in Seq([job: Queued(Active), worker: Range(WorkerList)])
      <3>1. 0 \in Int
        OBVIOUS
      <3> QED BY <1>6, <2>4, <2>7, <3>1, Zenon DEF PlanFits
    <2>9. GivenTo(q, w) \subseteq DOMAIN Active
      <3> DEFINE X == [job: Queued(Active), worker: Range(WorkerList)]
      <3>1. \A a \in X : a.job \in DOMAIN Active
        BY DEF Queued
      <3> HIDE DEF X, q
      <3>2. \A i \in DOMAIN q : q[i] \in X
        <4>1. q \in Seq(X)
          BY <2>8, Zenon DEF X
        <4> QED BY <4>1, Lists
      <3> QED BY <3>1, <3>2, Zenon DEF GivenTo
    <2> DEFINE B == Holders(Active, w) \cup GivenTo(q, w)
    <2>10. Sized(B, Active) /\ \A j \in Load(w)' : SameRequest(Active[j], jobs'[j])
      BY <2>1, <2>3, <2>4, <2>5, <2>6, <2>9, Zenon DEF Snapshot, Sized
    <2>11. Serves(Cluster[w], Active, B) /\ Load(w)' \subseteq B
      BY <2>3, <2>8
    <2> HIDE DEF B, Load
    <2> QED BY <1>6, <2>10, <2>11, ServesFewer
  <1> QED BY <1>3, <1>5, <1>6, Zenon

\* What the invariant says of the capacity.
LEMMA LoadBoundsCapacity ==
    ASSUME SchedInv, LoadInv, TotalsAdd, UsableCounts
    PROVE  OvercommitNeedsOverlap
  <1> SUFFICES ASSUME ~overlap, NEW w \in Range(WorkerList)
               PROVE  Serves(Cluster[w], jobs, On(w, {"SCHEDULED", "RUNNING"}))
    BY Zenon DEF OvercommitNeedsOverlap, CapacityIsRespected
  <1> DEFINE T == On(w, {"SCHEDULED", "RUNNING"})
  <1>1. T \subseteq Load(w)
    BY DEF On, Load, Holders, HoldsCapacity, SchedInv, PlacedInv
  <1>2. Sized(Load(w), jobs) /\ Serves(Cluster[w], jobs, Load(w))
    BY LoadIsSized, Zenon DEF LoadInv
  <1>3. \A j \in T : SameRequest(jobs[j], jobs[j])
    BY DEF SameRequest
  <1> HIDE DEF T, Load
  <1>4. Serves(Cluster[w], jobs, T)
    BY <1>1, <1>2, <1>3, ServesFewer
  <1> QED BY <1>4 DEF T

-----------------------------------------------------------------------------
(* What PlannerProofs assumes by name: LeastNumbers, UsableCounts,         *)
(* TotalsAdd, Sorts and Counts.                                            *)

INSTANCE FiniteSetTheorems

\* The natural numbers are well founded.
LEMMA LeastNumbersExist == LeastNumbers
  <1> DEFINE less == OpToRel(<, Nat)
  <1>1. IsWellFoundedOn(less, Nat)
    BY NatLessThanWellFounded, Zenon
  <1>2. \A m, n \in Nat : <<m, n>> \in less <=> m < n
    BY DEF OpToRel
  <1> HIDE DEF less
  <1> SUFFICES ASSUME NEW T \in SUBSET Nat, T # {}
               PROVE  \E n \in T : \A m \in T : n <= m
    BY DEF LeastNumbers
  <1>3. PICK n \in T : \A m \in T : ~ (<<m, n>> \in less)
    BY <1>1, WFMin, Zenon
  <1>4. ASSUME NEW m \in T
        PROVE  n <= m
    <2>1. m \in Nat /\ n \in Nat /\ ~(m < n)
      BY <1>2, <1>3, Zenon
    <2> QED BY <2>1
  <1> QED BY <1>4, Zenon

\* A property of finite sets that a least counterexample would refute: a set
\* of finite sets has a member with the fewest elements.
LEMMA SmallestSet ==
    ASSUME NEW U, U # {}, \A S \in U : IsFiniteSet(S)
    PROVE  \E S \in U : \A T \in U : Cardinality(S) <= Cardinality(T)
  <1> DEFINE sizes == {Cardinality(S) : S \in U}
  <1>1. sizes \in SUBSET Nat /\ sizes # {}
    BY FS_CardinalityType, Zenon
  <1>2. PICK n \in sizes : \A m \in sizes : n <= m
    BY <1>1, LeastNumbersExist, Zenon DEF LeastNumbers
  <1> QED BY <1>2, Zenon

\* Taking an element out of a finite set makes it smaller.
LEMMA Without ==
    ASSUME NEW S, IsFiniteSet(S), NEW x \in S
    PROVE  IsFiniteSet(S \ {x}) /\ Cardinality(S) \in Nat /\ Cardinality(S \ {x}) \in Nat
           /\ Cardinality(S \ {x}) < Cardinality(S)
  <1>1. IsFiniteSet(S \ {x}) /\ Cardinality(S \ {x}) = Cardinality(S) - 1
    BY FS_RemoveElement
  <1>2. Cardinality(S) \in Nat /\ Cardinality(S \ {x}) \in Nat
    BY <1>1, FS_CardinalityType
  <1> QED BY <1>1, <1>2

\* The numbers up to n are n.
LEMMA IntervalsCount ==
    ASSUME NEW n \in Nat
    PROVE  IsFiniteSet(1 .. n) /\ Cardinality(1 .. n) = n
  <1>1. 1 \in Int /\ n \in Int /\ (1 > n => n = 0) /\ n - 1 + 1 = n
    OBVIOUS
  <1>2. IsFiniteSet(1 .. n) /\ Cardinality(1 .. n) = IF 1 > n THEN 0 ELSE n - 1 + 1
    BY <1>1, FS_Interval, Zenon
  <1> QED BY <1>1, <1>2, Zenon

\* Counting GPUs.
LEMMA GPUsCount == UsableCounts
  <1> SUFFICES ASSUME NEW w \in Range(WorkerList), NEW m \in Nat
               PROVE  /\ Usable(w, m) \in Nat
                      /\ \A n \in Nat : n <= m => Usable(w, m) <= Usable(w, n)
                      /\ \A c \in Nat : FreeGPUCount(Cluster[w], m, c) =
                              IF Usable(w, m) >= c THEN Usable(w, m) - c ELSE 0
    BY Zenon DEF UsableCounts
  <1> DEFINE gpus == Cluster[w].gpus
             G(n) == {i \in DOMAIN gpus : gpus[i] >= n}
             count(n) == Cardinality(G(n))
  <1>1. gpus \in Seq(Nat)
    BY PlannerAssumption
  <1>2. /\ DOMAIN gpus = 1 .. Len(gpus) /\ Len(gpus) \in Nat
        /\ \A i \in DOMAIN gpus : gpus[i] \in Nat
    BY <1>1
  <1>3. IsFiniteSet(DOMAIN gpus)
    BY <1>2, IntervalsCount, Zenon
  <1>4. \A n \in Nat : IsFiniteSet(G(n)) /\ count(n) \in Nat
    <2>1. \A n : G(n) \in SUBSET DOMAIN gpus
      OBVIOUS
    <2> HIDE DEF G, gpus
    <2> QED BY <1>3, <2>1, FS_Subset, FS_CardinalityType
  <1>5. ASSUME NEW x \in Int
        PROVE  Max({x, 0}) = IF x >= 0 THEN x ELSE 0
    <2>1. \E y \in {x, 0} : \A z \in {x, 0} : y >= z
      OBVIOUS
    <2>2. Max({x, 0}) \in {x, 0} /\ \A z \in {x, 0} : Max({x, 0}) >= z
      BY <2>1, Zenon DEF Max
    <2> HIDE DEF Max
    <2> QED BY <2>2
  <1>6. ASSUME NEW n \in Nat, NEW c \in Nat
        PROVE  FreeGPUCount(Cluster[w], n, c) = IF count(n) >= c THEN count(n) - c ELSE 0
    <2>1. FreeGPUCount(Cluster[w], n, c) = Max({count(n) - c, 0})
      BY Zenon DEF FreeGPUCount
    <2> HIDE DEF count, G
    <2>2. count(n) - c \in Int
      BY <1>4
    <2> QED BY <1>4, <1>5, <2>1, <2>2
  <1>7. \A n \in Nat : Usable(w, n) = count(n)
    <2> HIDE DEF count, G
    <2>1. \A n \in Nat : Usable(w, n) = IF count(n) >= 0 THEN count(n) - 0 ELSE 0
      BY <1>6, Zenon DEF Usable
    <2> QED BY <1>4, <2>1
  <1>8. ASSUME NEW n \in Nat, n <= m
        PROVE  count(m) <= count(n)
    <2>1. G(m) \subseteq G(n)
      BY <1>2, <1>8
    <2> HIDE DEF G
    <2> QED BY <1>4, <2>1, FS_Subset
  <1> HIDE DEF count, G
  <1> QED BY <1>4, <1>6, <1>7, <1>8, Zenon

\* SumFunction's loop: it takes out one element after the other.
First(s) == CHOOSE x \in s : TRUE

Step(it, s, g) == IF s = {} THEN 0 ELSE g[First(s)] + it[s \ {First(s)}]

Summing(it, S, g) == it = [s \in SUBSET S |-> Step(it, s, g)]

\* A nonempty set without its first element is smaller.
LEMMA FirstOut ==
    ASSUME NEW S, IsFiniteSet(S), NEW s \in SUBSET S, s # {}
    PROVE  /\ First(s) \in s /\ s \ {First(s)} \in SUBSET S /\ IsFiniteSet(s)
           /\ Cardinality(s) \in Nat /\ Cardinality(s \ {First(s)}) \in Nat
           /\ Cardinality(s \ {First(s)}) < Cardinality(s)
  <1>1. First(s) \in s
    BY Zenon DEF First
  <1> HIDE DEF First
  <1>2. IsFiniteSet(s)
    BY FS_Subset
  <1> QED BY <1>1, <1>2, Without

\* The loop can be run, or there would be a least size of sets for which it
\* cannot.
LEMMA SummingRuns ==
    ASSUME NEW S, IsFiniteSet(S), NEW g
    PROVE  \E it : Summing(it, S, g)
  <1> DEFINE UpTo(n, it) == /\ it = [s \in SUBSET S |-> it[s]]
                            /\ \A s \in SUBSET S : Cardinality(s) <= n => it[s] = Step(it, s, g)
             T == {n \in Nat : ~ \E it : UpTo(n, it)}
  <1>1. \A s \in SUBSET S : IsFiniteSet(s) /\ Cardinality(s) \in Nat /\ Cardinality(s) <= Cardinality(S)
    BY FS_Subset, FS_CardinalityType
  <1>2. T = {}
    <2> SUFFICES ASSUME T # {} PROVE FALSE
      BY Zenon
    <2>1. PICK n \in T : \A m \in T : n <= m
      BY LeastNumbersExist, Zenon DEF LeastNumbers
    <2>2. CASE n = 0
      <3> DEFINE it == [s \in SUBSET S |-> 0]
      <3>1. ASSUME NEW s \in SUBSET S, Cardinality(s) <= 0
            PROVE  it[s] = Step(it, s, g)
        <4>1. Cardinality(s) = 0
          BY <1>1, <3>1
        <4>2. s = {}
          BY <1>1, <4>1, FS_EmptySet
        <4> QED BY <4>2, Zenon DEF Step
      <3>2. it = [s \in SUBSET S |-> it[s]]
        BY Zenon
      <3> HIDE DEF it
      <3>3. UpTo(0, it)
        BY <3>1, <3>2, Zenon
      <3> QED BY <2>1, <2>2, <3>3, Zenon
    <2>3. CASE n # 0
      <3>1. n - 1 \in Nat /\ n - 1 \notin T /\ n \in Nat
        <4>1. n \in Nat /\ ~(n <= n - 1)
          BY <2>1
        <4> HIDE DEF T
        <4>2. n - 1 \in Nat
          BY <2>3, <4>1
        <4> QED BY <2>1, <4>1, <4>2, Zenon
      <3>2. PICK f : UpTo(n - 1, f)
        BY <3>1, Zenon
      <3> DEFINE it == [s \in SUBSET S |-> Step(f, s, g)]
      <3>3. \A s \in SUBSET S : Cardinality(s) <= n - 1 => it[s] = f[s]
        BY <3>2, Zenon
      <3>4. it = [s \in SUBSET S |-> it[s]] /\ \A s \in SUBSET S : it[s] = Step(f, s, g)
        BY Zenon
      <3> HIDE DEF it
      <3>5. ASSUME NEW s \in SUBSET S, Cardinality(s) <= n
            PROVE  Step(f, s, g) = Step(it, s, g)
        <4>1. CASE s = {}
          BY <4>1, Zenon DEF Step
        <4>2. CASE s # {}
          <5> DEFINE t == s \ {First(s)}
          <5>1. /\ t \in SUBSET S /\ Cardinality(t) \in Nat /\ Cardinality(s) \in Nat
                /\ Cardinality(t) < Cardinality(s)
            BY <4>2, FirstOut
          <5> HIDE DEF t
          <5>2. Cardinality(t) <= n - 1
            BY <3>1, <3>5, <5>1
          <5>3. it[t] = f[t]
            BY <3>3, <5>1, <5>2
          <5> QED BY <4>2, <5>3, Zenon DEF Step, t
        <4> QED BY <4>1, <4>2
      <3>6. UpTo(n, it)
        BY <3>4, <3>5, Zenon
      <3> QED BY <2>1, <3>6, Zenon
    <2> QED BY <2>2, <2>3
  <1>3. Cardinality(S) \in Nat
    BY FS_CardinalityType
  <1>4. PICK it : UpTo(Cardinality(S), it)
    BY <1>2, <1>3, Zenon
  <1>5. \A s \in SUBSET S : it[s] = Step(it, s, g)
    BY <1>1, <1>4, Zenon
  <1>6. it = [s \in SUBSET S |-> it[s]]
    BY <1>4, Zenon
  <1>7. [s \in SUBSET S |-> it[s]] = [s \in SUBSET S |-> Step(it, s, g)]
    BY <1>5, Zenon
  <1> QED BY <1>6, <1>7, Zenon DEF Summing

\* it sums up g, whatever element is taken out first.
Additive(it, S, g) ==
    /\ \A s \in SUBSET S : it[s] \in Nat
    /\ it[{}] = 0
    /\ \A s \in SUBSET S : \A j \in s : it[s] = g[j] + it[s \ {j}]

\* The order in which elements are taken out does not matter.
LEMMA SummingAdds ==
    ASSUME NEW S, IsFiniteSet(S), NEW g, \A j \in S : g[j] \in Nat, NEW it, Summing(it, S, g)
    PROVE  Additive(it, S, g)
  <1>1. \A s \in SUBSET S : it[s] = Step(it, s, g) /\ IsFiniteSet(s)
    BY FS_Subset DEF Summing
  <1>2. it[{}] = 0
    BY <1>1, Zenon DEF Step
  <1>3. \A s \in SUBSET S : it[s] \in Nat
    <2> DEFINE U == {s \in SUBSET S : it[s] \notin Nat}
    <2> SUFFICES ASSUME U # {} PROVE FALSE
      OBVIOUS
    <2>1. PICK s \in U : \A t \in U : Cardinality(s) <= Cardinality(t)
      BY <1>1, SmallestSet, Zenon
    <2>2. s # {}
      <3>1. 0 \in Nat
        OBVIOUS
      <3> QED BY <1>2, <2>1, <3>1, Zenon
    <2> DEFINE t == s \ {First(s)}
    <2>3. First(s) \in S /\ t \in SUBSET S /\ t \notin U
      BY <2>1, <2>2, FirstOut
    <2>4. it[s] = g[First(s)] + it[t]
      BY <1>1, <2>1, <2>2, Zenon DEF Step
    <2> HIDE DEF t
    <2> QED BY <2>1, <2>3, <2>4
  <1>4. \A s \in SUBSET S : \A j \in s : it[s] = g[j] + it[s \ {j}]
    <2> DEFINE Fine(s) == \A j \in s : it[s] = g[j] + it[s \ {j}]
               U == {s \in SUBSET S : ~Fine(s)}
    <2> SUFFICES ASSUME U # {} PROVE FALSE
      BY Zenon
    <2>1. PICK s \in U : \A t \in U : Cardinality(s) <= Cardinality(t)
      BY <1>1, SmallestSet, Zenon
    <2>2. PICK j \in s : it[s] # g[j] + it[s \ {j}]
      BY <2>1, Zenon
    <2> DEFINE x == First(s)
               t == s \ {x}
               u == s \ {j}
               v == t \ {j}
    <2>3. s \in SUBSET S /\ s # {} /\ x \in s
      BY <2>1, <2>2, FirstOut
    <2>4. it[s] = g[x] + it[t]
      BY <1>1, <2>3, Zenon DEF Step
    <2> HIDE DEF x
    <2>5. j # x
      BY <2>2, <2>4
    <2>6. ASSUME NEW y \in s
          PROVE  Fine(s \ {y})
      <3>1. s \ {y} \in SUBSET S /\ Cardinality(s \ {y}) < Cardinality(s)
            /\ Cardinality(s) \in Nat /\ Cardinality(s \ {y}) \in Nat
        BY <1>1, <2>3, Without
      <3>2. s \ {y} \notin U
        BY <2>1, <3>1
      <3> QED BY <3>1, <3>2, Zenon
    <2>7. it[t] = g[j] + it[v]
      BY <2>3, <2>5, <2>6
    <2>8. it[u] = g[x] + it[v]
      <3>1. u \ {x} = v /\ x \in u
        BY <2>3, <2>5
      <3> QED BY <2>6, <3>1
    <2>9. g[j] \in Nat /\ g[x] \in Nat /\ it[v] \in Nat
      BY <1>3, <2>3
    <2> HIDE DEF t, u, v
    <2> QED BY <2>2, <2>4, <2>7, <2>8, <2>9 DEF u
  <1> QED BY <1>2, <1>3, <1>4, Zenon DEF Additive

\* SumFunction is the loop's result.
LEMMA SumIsAdditive ==
    ASSUME NEW S, IsFiniteSet(S), NEW g, DOMAIN g = S, \A j \in S : g[j] \in Nat
    PROVE  \E it : Additive(it, S, g) /\ SumFunction(g) = it[S]
  <1> DEFINE it == CHOOSE f : Summing(f, S, g)
  <1>1. Summing(it, S, g)
    BY SummingRuns, Zenon
  <1>2. SumFunction(g) = it[S]
    BY Zenon DEF SumFunction, SumFunctionOnSet, FoldFunctionOnSet, MapThenFoldSet, Summing, Step, First
  <1> HIDE DEF it
  <1>3. Additive(it, S, g)
    BY <1>1, SummingAdds, Zenon
  <1> QED BY <1>2, <1>3, Zenon

\* The summands h and g of T.
Agree(h, g, T) == \A j \in T : h[j] = g[j]

\* Two sums agree where the summands do, and a larger set has no smaller sum.
LEMMA SumsAgree ==
    ASSUME NEW S, IsFiniteSet(S), NEW g, NEW it, Additive(it, S, g), \A j \in S : g[j] \in Nat,
           NEW T \in SUBSET S, NEW h, NEW jt, Additive(jt, T, h), Agree(h, g, T)
    PROVE  jt[T] = it[T] /\ it[T] <= it[S]
  <1>1. \A s \in SUBSET S : IsFiniteSet(s) /\ Cardinality(s) \in Nat
    BY FS_Subset, FS_CardinalityType
  <1>2. ASSUME NEW s \in SUBSET S, NEW j \in s
        PROVE  /\ s \ {j} \in SUBSET S /\ Cardinality(s \ {j}) < Cardinality(s)
               /\ Cardinality(s \ {j}) \in Nat /\ Cardinality(s) \in Nat
               /\ it[s] = g[j] + it[s \ {j}] /\ it[s] \in Nat /\ it[s \ {j}] \in Nat /\ g[j] \in Nat
    <2>1. s \ {j} \in SUBSET S /\ j \in S
      BY <1>2
    <2>2. /\ Cardinality(s \ {j}) < Cardinality(s)
          /\ Cardinality(s \ {j}) \in Nat /\ Cardinality(s) \in Nat
      BY <1>1, <1>2, Without, Zenon
    <2> QED BY <1>2, <2>1, <2>2, Zenon DEF Additive
  <1>3. jt[T] = it[T]
    <2> DEFINE U == {s \in SUBSET T : jt[s] # it[s]}
    <2> SUFFICES ASSUME U # {} PROVE FALSE
      BY Zenon
    <2>0. \A s \in U : s \in SUBSET S
      OBVIOUS
    <2>1. PICK s \in U : \A t \in U : Cardinality(s) <= Cardinality(t)
      <3> HIDE DEF U
      <3> QED BY <1>1, <2>0, SmallestSet, Zenon
    <2>2. s # {}
      BY <2>1, Zenon DEF Additive
    <2>3. PICK j \in s : TRUE
      BY <2>2, Zenon
    <2>4. s \in SUBSET T /\ jt[s] # it[s] /\ s \ {j} \in SUBSET T /\ s \in SUBSET S /\ j \in T
      BY <2>1, <2>3
    <2>5. jt[s] = h[j] + jt[s \ {j}] /\ h[j] = g[j]
      BY <2>3, <2>4, Zenon DEF Additive, Agree
    <2>6. jt[s \ {j}] = it[s \ {j}]
      <3>1. ~(Cardinality(s) <= Cardinality(s \ {j}))
        BY <1>2, <2>3, <2>4
      <3> QED BY <2>1, <2>4, <3>1, Zenon
    <2> QED BY <1>2, <2>3, <2>4, <2>5, <2>6, Zenon
  <1>4. it[T] <= it[S]
    <2> DEFINE U == {s \in SUBSET S : T \subseteq s /\ ~(it[T] <= it[s])}
    <2> SUFFICES ASSUME U # {} PROVE FALSE
      BY Zenon
    <2>1. PICK s \in U : \A t \in U : Cardinality(s) <= Cardinality(t)
      <3>1. \A s \in U : IsFiniteSet(s)
        BY <1>1, Zenon
      <3> HIDE DEF U
      <3> QED BY <3>1, SmallestSet, Zenon
    <2>2. s \in SUBSET S /\ T \subseteq s /\ ~(it[T] <= it[s])
      BY <2>1, Zenon
    <2>3. it[T] \in Nat /\ s # T
      BY <2>2 DEF Additive
    <2>4. PICK j \in s : j \notin T
      BY <2>2, <2>3
    <2>5. T \subseteq s \ {j}
      BY <2>2, <2>4, Zenon
    <2>6. it[T] <= it[s \ {j}]
      <3>1. s \ {j} \in SUBSET S /\ ~(Cardinality(s) <= Cardinality(s \ {j}))
        BY <1>2, <2>2
      <3> QED BY <2>1, <2>5, <3>1, Zenon
    <2>7. it[s] = g[j] + it[s \ {j}] /\ it[s \ {j}] \in Nat /\ g[j] \in Nat
      BY <1>2, <2>2, Zenon
    <2> DEFINE a == it[T]
               b == it[s \ {j}]
               c == it[s]
    <2>8. a \in Nat /\ b \in Nat /\ a <= b /\ c = g[j] + b /\ ~(a <= c)
      BY <2>2, <2>3, <2>6, <2>7, Zenon
    <2> HIDE DEF a, b, c
    <2> QED BY <2>7, <2>8
  <1> QED BY <1>3, <1>4

\* What the rows of S need in one dimension.
Needs(S, rows, d) == [j \in S |-> rows[j].need[d]]

\* The total of S is a sum of needs.
IsSum(S, rows, d) ==
    /\ IsFiniteSet(S)
    /\ \A j \in S : Needs(S, rows, d)[j] = rows[j].need[d]
    /\ \A j \in S : Needs(S, rows, d)[j] \in Nat
    /\ \E it : Additive(it, S, Needs(S, rows, d)) /\ Total(S, rows)[d] = it[S]

\* It is, when its rows are sized.
LEMMA TotalIsSum ==
    ASSUME NEW S, NEW rows, Sized(S, rows), NEW d \in Dimension
    PROVE  IsSum(S, rows, d)
  <1>1. IsFiniteSet(S)
    BY FS_Subset DEF Sized
  <1>2. \A j \in S : Needs(S, rows, d)[j] = rows[j].need[d]
    BY Zenon DEF Needs
  <1>3. \A j \in S : Needs(S, rows, d)[j] \in Nat
    <2>1. \A j \in S : rows[j].need \in [Dimension -> Nat]
      BY Zenon DEF Sized, SizedRow
    <2> QED BY <1>2, <2>1
  <1>4. Total(S, rows)[d] = SumFunction(Needs(S, rows, d)) /\ DOMAIN Needs(S, rows, d) = S
    BY Zenon DEF Total, Needs
  <1>5. \E it : Additive(it, S, Needs(S, rows, d)) /\ SumFunction(Needs(S, rows, d)) = it[S]
    BY <1>1, <1>3, <1>4, SumIsAdditive, Zenon
  <1> QED BY <1>1, <1>2, <1>3, <1>4, <1>5, Zenon DEF IsSum

\* Nothing needs nothing.
LEMMA EmptyTotal ==
    ASSUME NEW rows
    PROVE  Total({}, rows) = Nothing
  <1>1. Sized({}, rows)
    BY FS_EmptySet DEF Sized
  <1>2. ASSUME NEW d \in Dimension PROVE Total({}, rows)[d] = 0
    <2>0. IsSum({}, rows, d)
      BY <1>1, TotalIsSum, Zenon
    <2>1. PICK it : Additive(it, {}, Needs({}, rows, d)) /\ Total({}, rows)[d] = it[{}]
      BY <2>0, Zenon DEF IsSum
    <2>2. it[{}] = 0
      BY <2>1, Zenon DEF Additive
    <2> QED BY <2>1, <2>2, Zenon
  <1>3. Total({}, rows) = [d \in Dimension |-> Total({}, rows)[d]]
    BY Zenon DEF Total
  <1> DEFINE t == Total({}, rows)
  <1>4. t = [d \in Dimension |-> t[d]] /\ \A d \in Dimension : t[d] = 0
    BY <1>2, <1>3, Zenon
  <1> HIDE DEF t
  <1>5. t = Nothing
    BY <1>4 DEF Nothing
  <1> QED BY <1>5, Zenon DEF t

\* What one more row adds.
Grows(S, T, rows, d) ==
    \A j \in S : T = S \ {j} => Total(S, rows)[d] = Total(T, rows)[d] + rows[j].need[d]

\* One dimension of the total of a set and of a part of it.
LEMMA TotalOfPart ==
    ASSUME NEW S, NEW rows, Sized(S, rows), NEW T \in SUBSET S, NEW d \in Dimension
    PROVE  /\ Total(S, rows)[d] \in Nat
           /\ Total(T, rows)[d] <= Total(S, rows)[d]
           /\ Grows(S, T, rows, d)
  <1>1. Sized(T, rows)
    BY Zenon DEF Sized
  <1>0. IsSum(S, rows, d) /\ IsSum(T, rows, d)
    BY <1>1, TotalIsSum, Zenon
  <1> DEFINE g == Needs(S, rows, d)
             h == Needs(T, rows, d)
  <1>2. PICK it : Additive(it, S, g) /\ Total(S, rows)[d] = it[S]
    BY <1>0, Zenon DEF IsSum
  <1>3. PICK jt : Additive(jt, T, h) /\ Total(T, rows)[d] = jt[T]
    BY <1>0, Zenon DEF IsSum
  <1>4. IsFiniteSet(S) /\ (\A j \in S : g[j] \in Nat) /\ (\A j \in S : g[j] = rows[j].need[d])
    BY <1>0, Zenon DEF IsSum
  <1>5. \A j \in T : h[j] = rows[j].need[d]
    BY <1>0, Zenon DEF IsSum
  <1>6. Agree(h, g, T)
    BY <1>4, <1>5, Zenon DEF Agree
  <1> HIDE DEF g, h
  <1>7. jt[T] = it[T] /\ it[T] <= it[S]
    <2>1. Additive(it, S, g) /\ Additive(jt, T, h) /\ IsFiniteSet(S) /\ (\A j \in S : g[j] \in Nat)
      BY <1>2, <1>3, <1>4, Zenon
    <2> QED BY <1>6, <2>1, SumsAgree, Zenon
  <1>8. /\ it[S] \in Nat /\ it[T] \in Nat
        /\ \A j \in S : it[S] = g[j] + it[S \ {j}]
    BY <1>2, Zenon DEF Additive
  <1>9. ASSUME NEW j \in S, T = S \ {j}
        PROVE  it[S] = it[T] + rows[j].need[d]
    <2>1. it[S] = g[j] + it[T] /\ g[j] = rows[j].need[d] /\ g[j] \in Nat
      BY <1>4, <1>8, <1>9, Zenon
    <2> QED BY <1>8, <2>1
  <1>10. it[S] \in Nat /\ jt[T] <= it[S] /\ \A j \in S : T = S \ {j} => it[S] = jt[T] + rows[j].need[d]
    BY <1>7, <1>8, <1>9, Zenon
  <1> QED BY <1>2, <1>3, <1>10, Zenon DEF Grows

\* So totals add up as the capacity lemmas assume.
LEMMA TotalsAreSums == TotalsAdd
  <1>1. \A rows : Total({}, rows) = Nothing
    BY EmptyTotal, Zenon
  <1>2. ASSUME NEW S, NEW rows, Sized(S, rows)
        PROVE  /\ Total(S, rows) \in [Dimension -> Nat]
               /\ \A j \in S : Total(S, rows) = Plus(Total(S \ {j}, rows), rows[j].need)
               /\ \A T \in SUBSET S, d \in Dimension : Total(T, rows)[d] <= Total(S, rows)[d]
    <2>1. \A Q : Total(Q, rows) = [d \in Dimension |-> Total(Q, rows)[d]]
      BY Zenon DEF Total
    <2>2. ASSUME NEW d \in Dimension PROVE Total(S, rows)[d] \in Nat
      <3>1. S \in SUBSET S
        BY Zenon
      <3> QED BY <1>2, <3>1, TotalOfPart, Zenon
    <2>3. Total(S, rows) \in [Dimension -> Nat]
      <3> DEFINE t == Total(S, rows)
      <3>1. t = [d \in Dimension |-> t[d]] /\ \A d \in Dimension : t[d] \in Nat
        BY <2>1, <2>2, Zenon
      <3> HIDE DEF t
      <3>2. t \in [Dimension -> Nat]
        BY <3>1
      <3> QED BY <3>2, Zenon DEF t
    <2>4. ASSUME NEW j \in S
          PROVE  Total(S, rows) = Plus(Total(S \ {j}, rows), rows[j].need)
      <3> DEFINE t == Total(S, rows)
                 u == Total(S \ {j}, rows)
                 n == rows[j].need
      <3>1. S \ {j} \in SUBSET S
        BY Zenon
      <3>2. ASSUME NEW d \in Dimension PROVE t[d] = u[d] + n[d]
        <4>1. Grows(S, S \ {j}, rows, d)
          BY <1>2, <3>1, TotalOfPart, Zenon
        <4> QED BY <4>1, Zenon DEF Grows
      <3>3. t = [d \in Dimension |-> t[d]]
        BY <2>1, Zenon
      <3> HIDE DEF t, u, n
      <3>4. t = Plus(u, n)
        BY <3>2, <3>3 DEF Plus
      <3> QED BY <3>4, Zenon DEF t, u, n
    <2>5. ASSUME NEW T \in SUBSET S, NEW d \in Dimension
          PROVE  Total(T, rows)[d] <= Total(S, rows)[d]
      BY <1>2, TotalOfPart, Zenon
    <2> QED BY <2>3, <2>4, <2>5, Zenon
  <1> QED BY <1>1, <1>2, Zenon DEF TotalsAdd

\* The members of S that R puts before j, and how many they are.
Earlier(j, S, R) == {i \in S : <<i, j>> \in R}
Rank(j, S, R) == Cardinality(Earlier(j, S, R))

\* The rank of a member says where it stands.
LEMMA Ranks ==
    ASSUME NEW S, IsFiniteSet(S), NEW R, Orders(R, S)
    PROVE  /\ Cardinality(S) \in Nat
           /\ \A j \in S : Rank(j, S, R) \in Nat /\ Rank(j, S, R) < Cardinality(S)
           /\ \A i, j \in S : <<i, j>> \in R => Rank(i, S, R) < Rank(j, S, R)
  <1>1. Cardinality(S) \in Nat
    BY FS_CardinalityType, Zenon
  <1>2. ASSUME NEW j \in S
        PROVE  /\ Earlier(j, S, R) \in SUBSET S /\ j \notin Earlier(j, S, R)
               /\ IsFiniteSet(Earlier(j, S, R)) /\ Rank(j, S, R) \in Nat
    <2>1. Earlier(j, S, R) \in SUBSET S /\ j \notin Earlier(j, S, R)
      BY Zenon DEF Orders, Earlier
    <2>2. IsFiniteSet(Earlier(j, S, R))
      BY <2>1, FS_Subset, Zenon
    <2> QED BY <2>1, <2>2, FS_CardinalityType, Zenon DEF Rank
  <1>3. ASSUME NEW T, IsFiniteSet(T), NEW U \in SUBSET T, NEW j \in T, j \notin U
        PROVE  Cardinality(U) < Cardinality(T)
    <2>1. /\ Cardinality(U) <= Cardinality(T) /\ Cardinality(U) # Cardinality(T)
          /\ IsFiniteSet(U) /\ U # T
      BY <1>3, FS_Subset
    <2>2. Cardinality(U) \in Nat /\ Cardinality(T) \in Nat
      BY <1>3, <2>1, FS_CardinalityType, Zenon
    <2> QED BY <2>1, <2>2
  <1>4. ASSUME NEW j \in S
        PROVE  Rank(j, S, R) < Cardinality(S)
    BY <1>2, <1>3, Zenon DEF Rank
  <1>5. ASSUME NEW i \in S, NEW j \in S, <<i, j>> \in R
        PROVE  Rank(i, S, R) < Rank(j, S, R)
    <2>1. Earlier(i, S, R) \in SUBSET Earlier(j, S, R)
      <3>1. ASSUME NEW k \in S, <<k, i>> \in R PROVE <<k, j>> \in R
        BY <1>5, <3>1, Zenon DEF Orders
      <3> QED BY <3>1, Zenon DEF Earlier
    <2>2. i \in Earlier(j, S, R) /\ i \notin Earlier(i, S, R)
      BY <1>2, <1>5, Zenon DEF Earlier
    <2> QED BY <1>2, <1>3, <2>1, <2>2, Zenon DEF Rank
  <1> QED BY <1>1, <1>2, <1>4, <1>5, Zenon

\* Every place has one member.
LEMMA PlacesAreTaken ==
    ASSUME NEW S, IsFiniteSet(S), NEW R, Orders(R, S)
    PROVE  /\ \A i, j \in S : Rank(i, S, R) = Rank(j, S, R) => i = j
           /\ \A n \in 1 .. Cardinality(S) : \E j \in S : Rank(j, S, R) = n - 1
  <1> DEFINE size == Cardinality(S)
             T == 0 .. (size - 1)
             f == [j \in S |-> Rank(j, S, R)]
  <1>1. size \in Nat /\ \A j \in S : Rank(j, S, R) \in Nat /\ Rank(j, S, R) < size
    BY Ranks, Zenon
  <1>2. ASSUME NEW i \in S, NEW j \in S, Rank(i, S, R) = Rank(j, S, R)
        PROVE  i = j
    <2>1. ~(Rank(i, S, R) < Rank(j, S, R)) /\ ~(Rank(j, S, R) < Rank(i, S, R))
      BY <1>1, <1>2
    <2>2. <<i, j>> \notin R /\ <<j, i>> \notin R
      BY <2>1, Ranks, Zenon
    <2> QED BY <2>2, Zenon DEF Orders
  <1>3. \A j \in S : f[j] = Rank(j, S, R)
    BY Zenon
  <1>4. f \in [S -> T]
    BY <1>1
  <1>5. ASSUME size # 0
        PROVE  IsFiniteSet(T) /\ Cardinality(T) = size
    <2>1. 0 \in Int /\ size - 1 \in Int /\ ~(0 > size - 1) /\ (size - 1) - 0 + 1 = size
      BY <1>1, <1>5
    <2>2. IsFiniteSet(T) /\ Cardinality(T) = IF 0 > size - 1 THEN 0 ELSE (size - 1) - 0 + 1
      BY <2>1, FS_Interval, Zenon
    <2> QED BY <2>1, <2>2, Zenon
  <1>6. ASSUME NEW n \in 1 .. size
        PROVE  \E j \in S : Rank(j, S, R) = n - 1
    <2>1. size # 0 /\ n - 1 \in T
      BY <1>1
    <2> HIDE DEF T, f
    <2>2. f \in Injection(S, T)
      BY <1>2, <1>3, <1>4, Zenon DEF Injection, IsInjective
    <2>3. f \in Surjection(S, T)
      BY <1>5, <2>1, <2>2, FS_Injection, Zenon
    <2>4. PICK j \in S : f[j] = n - 1
      BY <2>1, <2>3, Zenon DEF Surjection
    <2> QED BY <1>3, <2>4, Zenon
  <1> QED BY <1>2, <1>6, Zenon

\* So SortedBy sorts.
LEMMA SortedBySorts == Sorts
  <1> SUFFICES ASSUME NEW S, NEW R, NEW A, S \subseteq A, IsFiniteSet(A), Orders(R, S)
               PROVE  Lines(SortedBy(S, R), S, R)
    BY Zenon DEF Sorts
  <1> DEFINE q == SortedBy(S, R)
             size == Cardinality(S)
  <1>1. IsFiniteSet(S)
    BY FS_Subset, Zenon
  <1>2. size \in Nat
    BY <1>1, FS_CardinalityType, Zenon
  <1>3. DOMAIN q = 1 .. size
    BY Zenon DEF SortedBy
  <1>4. ASSUME NEW n \in 1 .. size
        PROVE  q[n] \in S /\ Rank(q[n], S, R) = n - 1
    <2>1. q[n] = CHOOSE j \in S : Rank(j, S, R) = n - 1
      BY Zenon DEF SortedBy, Rank, Earlier
    <2>2. \E j \in S : Rank(j, S, R) = n - 1
      <3> HIDE DEF q
      <3>1. \A m \in 1 .. Cardinality(S) : \E j \in S : Rank(j, S, R) = m - 1
        BY <1>1, PlacesAreTaken
      <3> QED BY <3>1, Zenon
    <2> HIDE DEF q
    <2> QED BY <2>1, <2>2, Zenon
  <1> DEFINE F(n) == CHOOSE j \in S : Cardinality({i \in S : <<i, j>> \in R}) = n - 1
  <1>0. q = [n \in 1 .. size |-> F(n)]
    BY Zenon DEF SortedBy
  <1> HIDE DEF F
  <1>5. q = [n \in 1 .. size |-> q[n]]
    <2> HIDE DEF q
    <2> QED BY <1>0
  <1> HIDE DEF q
  <1>6. q \in Seq(S)
    BY <1>2, <1>4, <1>5
  <1>7. ASSUME NEW j \in S
        PROVE  \E n \in DOMAIN q : q[n] = j
    <2> DEFINE n == Rank(j, S, R) + 1
    <2>1. Rank(j, S, R) \in Nat /\ Rank(j, S, R) < size
      BY <1>1, Ranks, Zenon
    <2>2. n \in 1 .. size /\ n - 1 = Rank(j, S, R)
      BY <1>2, <2>1
    <2> HIDE DEF n
    <2>3. q[n] \in S /\ Rank(q[n], S, R) = Rank(j, S, R)
      BY <1>4, <2>2, Zenon
    <2>4. q[n] = j
      BY <1>1, <2>3, PlacesAreTaken, Zenon
    <2> QED BY <1>3, <2>2, <2>4, Zenon
  <1>8. ASSUME NEW i \in DOMAIN q, NEW k \in DOMAIN q
        PROVE  i < k <=> <<q[i], q[k]>> \in R
    <2>1. /\ i \in Int /\ k \in Int /\ i \in 1 .. size /\ k \in 1 .. size
      BY <1>3
    <2>2. q[i] \in S /\ q[k] \in S /\ Rank(q[i], S, R) = i - 1 /\ Rank(q[k], S, R) = k - 1
      BY <1>4, <2>1, Zenon
    <2>3. <<q[i], q[k]>> \in R => i - 1 < k - 1
      <3>1. <<q[i], q[k]>> \in R => Rank(q[i], S, R) < Rank(q[k], S, R)
        BY <1>1, <2>2, Ranks, Zenon
      <3> QED BY <2>2, <3>1, Zenon
    <2>4. <<q[k], q[i]>> \in R => k - 1 < i - 1
      <3>1. <<q[k], q[i]>> \in R => Rank(q[k], S, R) < Rank(q[i], S, R)
        BY <1>1, <2>2, Ranks, Zenon
      <3> QED BY <2>2, <3>1, Zenon
    <2>5. q[i] # q[k] => <<q[i], q[k]>> \in R \/ <<q[k], q[i]>> \in R
      BY <2>2, Zenon DEF Orders
    <2>6. q[i] = q[k] => i - 1 = k - 1
      BY <2>2, Zenon
    <2>7. <<q[i], q[k]>> \in R => i < k
      BY <2>1, <2>3
    <2>8. ASSUME i < k PROVE <<q[i], q[k]>> \in R
      <3>1. ~(k - 1 < i - 1) /\ i - 1 # k - 1
        BY <2>1, <2>8
      <3> QED BY <2>4, <2>5, <2>6, <3>1, Zenon
    <2> QED BY <2>7, <2>8, Zenon
  <1>9. Lines(q, S, R)
    BY <1>6, <1>7, <1>8, Zenon DEF Lines
  <1> QED BY <1>9, Zenon DEF q

\* So Plan keeps within capacity what it finds within capacity, and its
\* assignments are of queued jobs to workers of the cluster.
LEMMA PlansAlwaysFit == PlanFits
  BY PlansFit, TotalsAreSums, GPUsCount, LeastNumbersExist, SortedBySorts, Zenon

\* The latest of finitely many ages.
LEMMA NowIsNumber == Now \in Int
  <1> DEFINE Older(x) == {y \in Ages : y > x}
             U == {Older(x) : x \in Ages}
  <1>1. Ages \subseteq Nat /\ Ages # {} /\ IsFiniteSet(Ages)
    BY PassAssumption
  <1>2. \A S \in U : IsFiniteSet(S) /\ Cardinality(S) \in Nat
    <2>1. \A S \in U : S \in SUBSET Ages
      OBVIOUS
    <2> HIDE DEF U
    <2>2. \A S \in U : IsFiniteSet(S)
      BY <1>1, <2>1, FS_Subset
    <2> QED BY <2>2, FS_CardinalityType
  <1>3. PICK S \in U : \A T \in U : Cardinality(S) <= Cardinality(T)
    <2>1. U # {}
      BY <1>1, Zenon
    <2> HIDE DEF U
    <2> QED BY <1>2, <2>1, SmallestSet
  <1>4. PICK x \in Ages : S = Older(x)
    OBVIOUS
  <1>5. \A y \in Ages : x >= y
    <2> SUFFICES ASSUME NEW y \in Ages, ~(x >= y) PROVE FALSE
      OBVIOUS
    <2>1. x \in Nat /\ y \in Nat /\ y \in S
      BY <1>1, <1>4
    <2>2. Older(y) \subseteq S \ {y} /\ Older(y) \in U
      <3>1. \A z \in Ages : z > y => z > x /\ z # y
        BY <1>1, <2>1
      <3> QED BY <1>4, <3>1, Zenon
    <2> HIDE DEF Older, U
    <2>3. /\ IsFiniteSet(S \ {y}) /\ Cardinality(S \ {y}) < Cardinality(S)
          /\ Cardinality(S) \in Nat /\ Cardinality(S \ {y}) \in Nat
      BY <1>2, <2>1, Without
    <2>4. Cardinality(Older(y)) <= Cardinality(S \ {y})
      BY <2>2, <2>3, FS_Subset
    <2>5. Cardinality(S) <= Cardinality(Older(y)) /\ Cardinality(Older(y)) \in Nat
      BY <1>2, <1>3, <2>2
    <2> QED BY <2>3, <2>4, <2>5
  <1>6. Now \in Ages
    BY <1>5, Zenon DEF Now, Max
  <1> QED BY <1>1, <1>6

\* Counting a list.
LEMMA ListsCount == Counts
  <1>1. ASSUME NEW n \in Nat
        PROVE  IsFiniteSet(1 .. n) /\ Cardinality(1 .. n) = n
    BY IntervalsCount, Zenon
  <1>2. ASSUME NEW n \in Nat, NEW f, \A i, k \in 1 .. n : f[i] = f[k] => i = k
        PROVE  Cardinality({f[i] : i \in 1 .. n}) = n
    <2> DEFINE T == {f[i] : i \in 1 .. n}
               g == [i \in 1 .. n |-> f[i]]
    <2>1. g \in Surjection(1 .. n, T)
      BY DEF Surjection
    <2>2. g \in Injection(1 .. n, T)
      BY <1>2 DEF Injection, IsInjective
    <2> HIDE DEF g, T
    <2>3. Cardinality(T) = Cardinality(1 .. n)
      BY <1>1, <2>1, <2>2, FS_Surjection, Zenon
    <2> QED BY <1>1, <2>3 DEF T
  <1> QED BY <1>1, <1>2, NowIsNumber, Zenon DEF Counts

-----------------------------------------------------------------------------
(* The theorems. *)

\* Nothing is placed, nobody runs.
LEMMA SchedInit == ASSUME Init PROVE SchedInv
  <1>1. PlacedInv
    BY NewRowIsPlaced DEF Init, PlacedInv
  <1>2. \A j \in Job : jobs[j].assigned = {}
    BY NewRowIsPlaced DEF Init, NoRow, PlacedRow
  <1>3. PassOK(Out)
    BY DEF PassOK, InForm, Out
  <1> QED BY <1>1, <1>2, <1>3, Zenon DEF Init, SchedInv

\* Nothing takes up nothing.
LEMMA EmptyServes ==
    ASSUME NEW w \in Range(WorkerList), NEW rows
    PROVE  Serves(Cluster[w], rows, {})
  <1>1. \A d \in Dimension : Total({}, rows)[d] = 0
    BY EmptyTotal, Zenon DEF Nothing
  <1>2. \A d \in Dimension \ {"gpu"} : Cluster[w].capacity[d] \in Nat
    BY PlannerAssumption
  <1>3. \A d \in Dimension \ {"gpu"} : Total({}, rows)[d] <= Cluster[w].capacity[d]
    <2> SUFFICES ASSUME NEW d \in Dimension \ {"gpu"}
                 PROVE  Total({}, rows)[d] <= Cluster[w].capacity[d]
      OBVIOUS
    <2> QED BY <1>1, <1>2
  <1> QED BY <1>3, Zenon DEF Serves

\* No worker has a load at first.
LEMMA NothingLoaded ==
    ASSUME Init, NEW w \in Range(WorkerList)
    PROVE  Serves(Cluster[w], jobs, Load(w))
  <1>1. Holders(jobs, w) = {}
    BY DEF Init, Holders, HoldsCapacity, NoRow
  <1>2. \A s \in Instance : GivenTo(pass[s].assign, w) = {}
    BY DEF Init, Out, GivenTo
  <1>3. Load(w) = {}
    BY <1>1, <1>2, Zenon DEF Load
  <1> QED BY <1>3, EmptyServes, Zenon

\* Every instance's list of assignments is about submitted jobs and workers of
\* the cluster, and at most one instance is the leader.
LEMMA SchedInvariance == Spec => []SchedInv
  <1>1. Init => SchedInv
    BY SchedInit, Zenon
  <1>2. SchedInv /\ [Next]_vars => SchedInv'
    BY SchedKeeps, PlansAlwaysFit, Zenon
  <1> QED BY <1>1, <1>2, PTL DEF Spec

\* TypeOK: rows stay in the lifecycle, jobs are placed on workers of the
\* cluster only, and the election has at most one winner.
THEOREM SchedulerIsTyped == Spec => []TypeOK
  <1>1. SchedInv => TypeOK
    <2> SUFFICES ASSUME SchedInv PROVE TypeOK
      OBVIOUS
    <2>1. leader \subseteq Instance /\ Cardinality(leader) <= 1
      <3>1. Cardinality({}) = 0 /\ \A s : Cardinality({s}) = 1
        BY FS_EmptySet, FS_Singleton, Zenon
      <3> QED BY <3>1 DEF SchedInv
    <2>2. \A s \in Instance : pass[s].pc \in {"out", "idle", "write"}
      BY Zenon DEF SchedInv, PassOK, InForm
    <2>3. \A j \in Job : jobs[j].state \in State /\ jobs[j].assigned \subseteq Range(WorkerList)
      BY Zenon DEF SchedInv, PlacedInv, PlacedRow
    <2> QED BY <2>1, <2>2, <2>3, Zenon DEF TypeOK
  <1> QED BY <1>1, SchedInvariance, PTL

\* OvercommitNeedsOverlap: RunOnce plans on a snapshot and writes row by row,
\* while clients and workers go on; as long as no two instances have run at
\* once, no worker is ever given more than it has.
THEOREM SingleLeaderRespectsCapacity == OverlapSpec => []OvercommitNeedsOverlap
  <1> DEFINE Inv == SchedInv /\ LoadInv
  <1>1. OverlapInit => Inv
    <2> SUFFICES ASSUME OverlapInit PROVE Inv
      OBVIOUS
    <2>1. Init /\ overlap = FALSE
      BY Zenon DEF OverlapInit
    <2>2. SchedInv
      BY <2>1, SchedInit, Zenon
    <2>3. OneLeaderRuns
      BY <2>1, Zenon DEF Init, OneLeaderRuns, Out
    <2>4. ASSUME NEW w \in Range(WorkerList)
          PROVE  Serves(Cluster[w], jobs, Load(w))
      BY <2>1, NothingLoaded, Zenon
    <2> QED BY <2>1, <2>2, <2>3, <2>4, Zenon DEF LoadInv
  <1>2. Inv /\ [OverlapNext]_overlapVars => Inv'
    <2> SUFFICES ASSUME Inv, [OverlapNext]_overlapVars PROVE Inv'
      OBVIOUS
    <2>1. [Next]_vars
      BY Zenon DEF OverlapNext, overlapVars
    <2>2. SchedInv'
      BY <2>1, SchedKeeps, PlansAlwaysFit, Zenon
    <2>3. LoadInv'
      BY LoadKeeps, TotalsAreSums, GPUsCount, PlansAlwaysFit, Zenon
    <2> QED BY <2>2, <2>3, Zenon
  <1>3. Inv => OvercommitNeedsOverlap
    BY LoadBoundsCapacity, TotalsAreSums, GPUsCount, Zenon
  <1> HIDE DEF Inv
  <1> QED BY <1>1, <1>2, <1>3, PTL DEF OverlapSpec

\* A decision is Plan's and PlanPreemptions' on the snapshot, which respects
\* the capacity.
LEMMA PassInvariance == PassSpec => []PassInv
  <1>1. PassInit => PassInv
    <2> SUFFICES ASSUME PassInit PROVE PassInv
      OBVIOUS
    <2>1. js = << >> /\ decision = Undecided
      BY Zenon DEF PassInit
    <2>2. js \in Seq(SnapshotRow) /\ \A w : Holders(js, w) = {}
      <3> HIDE DEF SnapshotRow
      <3> QED BY <2>1 DEF Holders
    <2>3. \A w \in Range(WorkerList) : Serves(Cluster[w], js, {})
      BY EmptyServes, Zenon
    <2> QED BY <2>1, <2>2, <2>3, Zenon DEF PassInv, CapacityRespected
  <1>2. PassInv /\ [PassNext]_passVars => PassInv'
    BY PassKeeps, NowIsNumber, Zenon
  <1> QED BY <1>1, <1>2, PTL DEF PassSpec

\* PlanStaysWithinCapacity: the assignments of one pass together respect the
\* capacity of every worker, GPU memory bars included, for any cluster and
\* snapshot.
THEOREM PlansRespectCapacity == PassSpec => []PlanStaysWithinCapacity
  <1>1. PassInv => PlanStaysWithinCapacity
    BY PlanKeepsCapacity, TotalsAreSums, GPUsCount, LeastNumbersExist, SortedBySorts, ListsCount, Zenon
  <1> QED BY <1>1, PassInvariance, PTL

\* PlanServesTheQueueInOrder: Plan places a queued job exactly if it has room
\* beside the jobs ahead of it that were placed.
THEOREM PlansServeInOrder == PassSpec => []PlanServesTheQueueInOrder
  <1>1. PassInv => PlanServesTheQueueInOrder
    BY PlanKeepsOrder, TotalsAreSums, GPUsCount, LeastNumbersExist, SortedBySorts, ListsCount, Zenon
  <1> QED BY <1>1, PassInvariance, PTL

\* VictimsMayBePreempted: PlanPreemptions takes running, preemptible jobs of
\* strictly lower effective priority than the unplaced job they make way for,
\* and none of them twice.
THEOREM VictimsAreFairGame == PassSpec => []VictimsMayBePreempted
  <1>1. PassInv => VictimsMayBePreempted
    BY PreemptionsKeepOff, LeastNumbersExist, SortedBySorts, ListsCount, Zenon
  <1> QED BY <1>1, PassInvariance, PTL
=============================================================================
