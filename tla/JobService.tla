----------------------------- MODULE JobService -----------------------------
(***************************************************************************)
(* jobs.Service behind the API server, over a Repository whose Update is   *)
(* one atomic read-modify-write of a row.  The callers are not modelled    *)
(* here: clients, worker agents and schedulers may call any operation on   *)
(* any job at any time, in any order, late or twice, which is what the API *)
(* allows (no Report* handler looks at the caller's worker ID or attempt). *)
(*                                                                         *)
(* LoseWorker is the one operation that is not atomic: it lists the active *)
(* jobs once and then updates the selected rows one by one.  Every API     *)
(* replica runs it from its own watcher goroutine, one worker at a time;   *)
(* an error, or the death of the replica, drops the rest of the list.      *)
(***************************************************************************)
EXTENDS Jobs

CONSTANTS
    Job,             \* job IDs
    Replica          \* API server instances

VARIABLES
    jobs,            \* the repository: job ID -> row
    todo             \* todo[a][w]: rows LoseWorker(w) still has to update at a

vars == <<jobs, todo>>

TypeOK ==
    /\ jobs \in [Job -> JobRecord]
    /\ todo \in [Replica -> [Worker -> SUBSET Job]]

Init ==
    /\ jobs = [j \in Job |-> NoRow]
    /\ todo = [a \in Replica |-> [w \in Worker |-> {}]]

Exists(j) == jobs[j].state # "NONE"

-----------------------------------------------------------------------------
\* Create without the unique index on the submission ID.
CreateSlip(j, job) == ~Exists(j) /\ jobs' = [jobs EXCEPT ![j] = job]

\* Repository.Create: a known non-empty submission ID returns the old row.
Create(j, job) ==
    /\ ~Exists(j)
    /\ jobs' = IF /\ job.submissionID # NoSubmission
                  /\ \E i \in Job : /\ Exists(i)
                                    /\ jobs[i].submissionID = job.submissionID
               THEN jobs
               ELSE [jobs EXCEPT ![j] = job]

\* Repository.Update: store what the callback returns, or nothing on its error.
Update(j, permitted, row) ==
    /\ Exists(j)
    /\ jobs' = IF permitted THEN [jobs EXCEPT ![j] = row] ELSE jobs

SubmitJob(j, sid, limit, preemptible) ==
    Create(j, NewJob(sid, limit, preemptible)) /\ UNCHANGED todo

CancelJob(j) ==
    Update(j, CancelPermits(jobs[j]), Cancel(jobs[j])) /\ UNCHANGED todo

RetryJob(j) ==
    Update(j, RetryPermits(jobs[j]), Retry(jobs[j])) /\ UNCHANGED todo

AssignToWorkers(j, w) ==
    Update(j, AssignPermits(jobs[j]), Assign(jobs[j], {w})) /\ UNCHANGED todo

PreemptJob(j) ==
    Update(j, PreemptPermits(jobs[j]), Preempt(jobs[j])) /\ UNCHANGED todo

ReportJobStarted(j) ==
    Update(j, StartPermits(jobs[j]), Start(jobs[j])) /\ UNCHANGED todo

ReportJobCompleted(j) ==
    Update(j, CompletePermits(jobs[j]), Complete(jobs[j])) /\ UNCHANGED todo

ReportJobFailed(j) ==
    Update(j, FailPermits(jobs[j]), Fail(jobs[j])) /\ UNCHANGED todo

ReportJobStopped(j) ==
    Update(j, TRUE, ReportStopped(jobs[j])) /\ UNCHANGED todo

-----------------------------------------------------------------------------
\* Overlooks the jobs that the worker has yet to stop.
LoseWorkerScanSlip(a, w) ==
    /\ \A v \in Worker : todo[a][v] = {}
    /\ todo' = [todo EXCEPT ![a][w] =
                   {j \in Job : /\ jobs[j].state \in {"SCHEDULED", "RUNNING"}
                               /\ w \in jobs[j].assigned}]
    /\ UNCHANGED jobs

\* LoseWorker, first half: the snapshot and what it selects.
LoseWorkerScan(a, w) ==
    /\ \A v \in Worker : todo[a][v] = {}
    /\ todo' = [todo EXCEPT ![a][w] =
                   {j \in Job : Recoverable(jobs[j]) /\ w \in jobs[j].assigned}]
    /\ UNCHANGED jobs

\* LoseWorker, second half: one iteration of its loop.
LoseWorkerUpdate(a, w, j) ==
    /\ j \in todo[a][w]
    /\ Update(j, TRUE, Recover(jobs[j]))
    /\ todo' = [todo EXCEPT ![a][w] = @ \ {j}]

\* An update error returns from the loop, and nobody calls LoseWorker again;
\* a crash of the replica loses the loop as well.
LoseWorkerAbort(a) ==
    /\ \E w \in Worker : todo[a][w] # {}
    /\ todo' = [todo EXCEPT ![a] = [w \in Worker |-> {}]]
    /\ UNCHANGED jobs

Next ==
    \/ \E j \in Job :
        \/ \E sid \in SubmissionID \cup {NoSubmission}, limit \in RetryLimits,
              preemptible \in BOOLEAN : SubmitJob(j, sid, limit, preemptible)
        \/ CancelJob(j)
        \/ RetryJob(j)
        \/ \E w \in Worker : AssignToWorkers(j, w)
        \/ PreemptJob(j)
        \/ ReportJobStarted(j)
        \/ ReportJobCompleted(j)
        \/ ReportJobFailed(j)
        \/ ReportJobStopped(j)
    \/ \E a \in Replica :
        \/ \E w \in Worker : LoseWorkerScan(a, w)
        \/ \E w \in Worker, j \in Job : LoseWorkerUpdate(a, w, j)
        \/ LoseWorkerAbort(a)

Spec == Init /\ [][Next]_vars

-----------------------------------------------------------------------------
\* A FAILED job has used its whole budget: applyFailureOrRetry is the only
\* way into FAILED and takes it only when no attempt remains.
FailedMeansExhausted ==
    \A j \in Job : jobs[j].state = "FAILED" =>
                       jobs[j].currentAttempt >= jobs[j].retryLimit

\* No mixture of worker reports, lost workers, preemptions and RetryJob calls
\* runs a job more often than its retry limit (a first attempt is always
\* allowed): CurrentAttempt stays between 1 and max(1, RetryLimit).
AttemptsWithinBudget ==
    \A j \in Job : Exists(j) =>
        /\ jobs[j].currentAttempt >= 1
        /\ jobs[j].currentAttempt = 1
              \/ jobs[j].currentAttempt <= jobs[j].retryLimit

\* The row's placement agrees with its state, whatever order the operations
\* came in: a QUEUED job belongs to no worker (else the scheduler and two
\* workers would disagree about it), and a job that a worker has been given or
\* has finished names that worker.
PlacementMatchesState ==
    \A j \in Job :
        /\ jobs[j].state = "QUEUED" => jobs[j].assigned = {}
        /\ jobs[j].state \in {"SCHEDULED", "RUNNING", "CANCEL_REQUESTED",
                              "PREEMPTED", "SUCCEEDED", "FAILED"}
              => \E w \in Worker : jobs[j].assigned = {w}

\* The timestamps tell the same story as the state: StartedAt is nil exactly
\* while the current attempt has not started, CompletedAt is set exactly on
\* SUCCEEDED and CANCELLED rows and FailedAt exactly on FAILED ones, so no
\* requeue leaves a stale timestamp of an earlier attempt behind.
TimestampsMatchState ==
    \A j \in Job :
        LET row == jobs[j] IN
        /\ row.state \in {"QUEUED", "SCHEDULED"} => ~row.startedAt
        /\ row.state \in {"RUNNING", "CANCEL_REQUESTED", "PREEMPTED",
                          "SUCCEEDED"} => row.startedAt
        /\ row.completedAt <=> row.state \in {"SUCCEEDED", "CANCELLED"}
        /\ row.failedAt <=> row.state = "FAILED"

\* At most one row per non-empty submission ID (idempotent SubmitJob).
OneJobPerSubmission ==
    \A i, j \in Job :
        /\ Exists(i) /\ Exists(j)
        /\ jobs[i].submissionID = jobs[j].submissionID
        /\ jobs[i].submissionID # NoSubmission
        => i = j

\* A finished job never changes again: no late report, no recovery of its
\* worker, no cancel and no RetryJob touches a terminal row.
TerminalIsFinal ==
    [][\A j \in Job : Terminal(jobs[j].state) => jobs'[j] = jobs[j]]_vars

\* An accepted cancellation is never undone: from CANCEL_REQUESTED the only
\* way out is CANCELLED, so the job is never requeued, failed or completed.
CancelIsNeverUndone ==
    [][\A j \in Job : jobs[j].state = "CANCEL_REQUESTED" =>
           jobs'[j].state \in {"CANCEL_REQUESTED", "CANCELLED"}]_vars

\* Preemption is free: a job's attempt count changes only when an assigned
\* job fails or loses its worker, never on the way through PREEMPTED.
PreemptionIsFree ==
    [][\A j \in Job :
           Exists(j) /\ jobs'[j].currentAttempt # jobs[j].currentAttempt =>
               /\ jobs[j].state \in {"SCHEDULED", "RUNNING"}
               /\ jobs'[j].state = "QUEUED"
               /\ jobs'[j].currentAttempt = jobs[j].currentAttempt + 1]_vars

-----------------------------------------------------------------------------
\* SCHEDULED and RUNNING are one phase to the client; RETRYING, CHECKPOINTING
\* and LOST have none, so a row that stored one would break the contract.
PhaseOf(s) ==
    CASE s = "NONE" -> "absent"
      [] s = "QUEUED" -> "waiting"
      [] s \in {"SCHEDULED", "RUNNING"} -> "placed"
      [] s = "PREEMPTED" -> "yielding"
      [] s = "CANCEL_REQUESTED" -> "cancelling"
      [] s = "SUCCEEDED" -> "succeeded"
      [] s = "FAILED" -> "failed"
      [] s = "CANCELLED" -> "cancelled"
      [] OTHER -> "undefined"

Contract == INSTANCE JobContract WITH
    phase   <- [j \in Job |-> PhaseOf(jobs[j].state)],
    attempt <- [j \in Job |-> jobs[j].currentAttempt],
    budget  <- [j \in Job |-> jobs[j].retryLimit]

\* The service implements the contract: every step of every operation, the
\* non-atomic LoseWorker included, is a step the client was promised or none.
ImplementsContract == Contract!Spec

-----------------------------------------------------------------------------
\* What the comment above Fail says of RetryJob: it "remains available" for a
\* job that exhausted its automatic attempts and is sitting FAILED.
RetryRemainsAvailable ==
    \A j \in Job : jobs[j].state = "FAILED" => RetryPermits(jobs[j])

\* What the comment above LoseWorker says it recovers: jobs assigned to the
\* lost worker.  An update of LoseWorker(w) changes only rows placed on w.
RecoversOnlyItsOwnJobs ==
    [][\A a \in Replica, w \in Worker, j \in Job :
           /\ j \in todo[a][w]
           /\ j \notin todo'[a][w]
           /\ jobs'[j] # jobs[j]
           => w \in jobs[j].assigned]_vars
=============================================================================
