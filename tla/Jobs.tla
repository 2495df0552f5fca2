-------------------------------- MODULE Jobs --------------------------------
(***************************************************************************)
(* Package jobs: the job record, its states, and the callback that each    *)
(* operation of jobs.Service hands to Repository.Update.  An operation     *)
(* Op is two operators: OpPermits(job) is false where the callback         *)
(* returns an error (the repository then leaves the row alone), and        *)
(* Op(job) is the row it returns otherwise.                                *)
(*                                                                         *)
(* Of the record, the fields that some operation reads or that a property  *)
(* tells apart are kept; timestamps are kept as "set or nil".              *)
(* FailureReason, the name, image, command and the like are free text no   *)
(* operation of the service reads back.                                    *)
(*                                                                         *)
(* A name ending in Slip is its operation with a plausible mistake; no     *)
(* specification uses it.  Each property is shown to notice one of them.   *)
(***************************************************************************)
EXTENDS Naturals

CONSTANTS
    Worker,          \* worker IDs
    RetryLimits,     \* values of Job.RetryLimit that clients submit
    SubmissionID,    \* non-empty client-supplied idempotency keys
    NoSubmission     \* the empty SubmissionID

ASSUME RetryLimitsAssumption == RetryLimits \subseteq Nat

ASSUME SubmissionAssumption == NoSubmission \notin SubmissionID

\* "NONE" marks an ID that has no row in the repository.
State == {"NONE", "QUEUED", "SCHEDULED", "RUNNING", "CHECKPOINTING",
          "SUCCEEDED", "FAILED", "RETRYING", "CANCEL_REQUESTED", "CANCELLED",
          "PREEMPTED", "LOST"}

Terminal(s) == s \in {"SUCCEEDED", "FAILED", "CANCELLED"}

JobRecord ==
    [state: State, submissionID: SubmissionID \cup {NoSubmission},
     retryLimit: RetryLimits \cup {0}, currentAttempt: Nat,
     preemptible: BOOLEAN, assigned: SUBSET Worker,
     startedAt: BOOLEAN, completedAt: BOOLEAN, failedAt: BOOLEAN]

NoRow ==
    [state |-> "NONE", submissionID |-> NoSubmission, retryLimit |-> 0,
     currentAttempt |-> 0, preemptible |-> FALSE, assigned |-> {},
     startedAt |-> FALSE, completedAt |-> FALSE, failedAt |-> FALSE]

NewJob(sid, limit, preemptible) ==
    [state |-> "QUEUED", submissionID |-> sid, retryLimit |-> limit,
     currentAttempt |-> 1, preemptible |-> preemptible, assigned |-> {},
     startedAt |-> FALSE, completedAt |-> FALSE, failedAt |-> FALSE]

-----------------------------------------------------------------------------
CancelPermits(job) ==
    \/ Terminal(job.state)
    \/ job.state \in {"CANCEL_REQUESTED", "QUEUED", "RETRYING", "SCHEDULED",
                      "RUNNING", "CHECKPOINTING"}

\* Takes a second cancel as leave not to wait for the worker.
CancelSlip(job) ==
    CASE job.state \in {"QUEUED", "RETRYING", "SCHEDULED", "CANCEL_REQUESTED"} ->
            [job EXCEPT !.state = "CANCELLED", !.completedAt = TRUE]
      [] job.state \in {"RUNNING", "CHECKPOINTING"} ->
            [job EXCEPT !.state = "CANCEL_REQUESTED"]
      [] OTHER -> job

Cancel(job) ==
    CASE job.state \in {"QUEUED", "RETRYING", "SCHEDULED"} ->
            [job EXCEPT !.state = "CANCELLED", !.completedAt = TRUE]
      [] job.state \in {"RUNNING", "CHECKPOINTING"} ->
            [job EXCEPT !.state = "CANCEL_REQUESTED"]
      [] OTHER -> job

\* Places a job that another decision has placed already.
AssignPermitsSlip(job) == job.state \in {"QUEUED", "SCHEDULED"}

AssignPermits(job) == job.state = "QUEUED"

Assign(job, workerIDs) ==
    [job EXCEPT !.state = "SCHEDULED", !.assigned = workerIDs]

\* Accepts a second start, as if it were a repeated call.
StartPermitsSlip(job) == job.state \in {"SCHEDULED", "RUNNING"}

StartPermits(job) == job.state = "SCHEDULED"

Start(job) == [job EXCEPT !.state = "RUNNING", !.startedAt = TRUE]

CompletePermits(job) == job.state = "RUNNING"

\* A state the package does not define.
CompleteSlip(job) == [job EXCEPT !.state = "COMPLETED", !.completedAt = TRUE]

Complete(job) == [job EXCEPT !.state = "SUCCEEDED", !.completedAt = TRUE]

\* Gives up one attempt early.
ApplyFailureOrRetryEarlySlip(job) ==
    IF job.currentAttempt + 1 < job.retryLimit
    THEN [job EXCEPT !.state = "QUEUED", !.currentAttempt = @ + 1,
                     !.startedAt = FALSE, !.assigned = {}]
    ELSE [job EXCEPT !.state = "FAILED", !.failedAt = TRUE]

\* Forgets to clear StartedAt.
ApplyFailureOrRetryStaleSlip(job) ==
    IF job.currentAttempt < job.retryLimit
    THEN [job EXCEPT !.state = "QUEUED", !.currentAttempt = @ + 1,
                     !.assigned = {}]
    ELSE [job EXCEPT !.state = "FAILED", !.failedAt = TRUE]

\* Requeue with the next attempt while attempts remain, FAILED otherwise.
ApplyFailureOrRetry(job) ==
    IF job.currentAttempt < job.retryLimit
    THEN [job EXCEPT !.state = "QUEUED", !.currentAttempt = @ + 1,
                     !.startedAt = FALSE, !.assigned = {}]
    ELSE [job EXCEPT !.state = "FAILED", !.failedAt = TRUE]

FailPermits(job) == job.state = "RUNNING"

Fail(job) == ApplyFailureOrRetry(job)

\* Forgets to clear AssignedWorkerIDs.
ReportStoppedPlacedSlip(job) ==
    CASE job.state = "CANCEL_REQUESTED" ->
            [job EXCEPT !.state = "CANCELLED", !.completedAt = TRUE]
      [] job.state = "PREEMPTED" ->
            [job EXCEPT !.state = "QUEUED", !.startedAt = FALSE]
      [] OTHER -> job

\* Charges a preempted job an attempt.
ReportStoppedChargedSlip(job) ==
    CASE job.state = "CANCEL_REQUESTED" ->
            [job EXCEPT !.state = "CANCELLED", !.completedAt = TRUE]
      [] job.state = "PREEMPTED" -> ApplyFailureOrRetry(job)
      [] OTHER -> job

ReportStopped(job) ==
    CASE job.state = "CANCEL_REQUESTED" ->
            [job EXCEPT !.state = "CANCELLED", !.completedAt = TRUE]
      [] job.state = "PREEMPTED" ->
            [job EXCEPT !.state = "QUEUED", !.startedAt = FALSE,
                        !.assigned = {}]
      [] OTHER -> job

PreemptPermits(job) == job.state = "RUNNING" /\ job.preemptible

Preempt(job) == [job EXCEPT !.state = "PREEMPTED"]

\* The states LoseWorker's scan selects, and the callback it then applies.
Recoverable(job) ==
    job.state \in {"SCHEDULED", "RUNNING", "CANCEL_REQUESTED", "PREEMPTED"}

\* Does not look at the row again after the scan.
RecoverUncheckedSlip(job) == ApplyFailureOrRetry(job)

\* Retries a job whose cancellation was accepted.
RecoverCancelledSlip(job) ==
    CASE job.state \in {"SCHEDULED", "RUNNING", "CANCEL_REQUESTED"} ->
            ApplyFailureOrRetry(job)
      [] job.state = "PREEMPTED" ->
            [job EXCEPT !.state = "QUEUED", !.startedAt = FALSE,
                        !.assigned = {}]
      [] OTHER -> job

\* Charges a preempted job an attempt.
RecoverChargedSlip(job) ==
    CASE job.state \in {"SCHEDULED", "RUNNING", "PREEMPTED"} ->
            ApplyFailureOrRetry(job)
      [] job.state = "CANCEL_REQUESTED" ->
            [job EXCEPT !.state = "CANCELLED", !.completedAt = TRUE]
      [] OTHER -> job

Recover(job) ==
    CASE job.state \in {"SCHEDULED", "RUNNING"} -> ApplyFailureOrRetry(job)
      [] job.state = "CANCEL_REQUESTED" ->
            [job EXCEPT !.state = "CANCELLED", !.completedAt = TRUE]
      [] job.state = "PREEMPTED" ->
            [job EXCEPT !.state = "QUEUED", !.startedAt = FALSE,
                        !.assigned = {}]
      [] OTHER -> job

\* Retries a job without looking at its budget.
RetryPermitsSlip(job) == job.state = "FAILED"

RetryPermits(job) ==
    job.state = "FAILED" /\ job.currentAttempt < job.retryLimit

Retry(job) ==
    [job EXCEPT !.state = "QUEUED", !.currentAttempt = @ + 1,
                !.startedAt = FALSE, !.completedAt = FALSE,
                !.failedAt = FALSE]
=============================================================================
