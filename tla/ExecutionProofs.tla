--------------------------- MODULE ExecutionProofs --------------------------
(***************************************************************************)
(* Proofs about JobService and about Execution, which puts the agents and  *)
(* their heartbeats around it, for any number of jobs, workers, replicas   *)
(* and any retry limits.                                                   *)
(*                                                                         *)
(* The argument for JobService: a step changes at most one row, by one     *)
(* callback (OneRowAtATime); every callback keeps a row in RowOK           *)
(* (RowStepKeepsRowOK); so RowOK holds of every row, and the properties    *)
(* are read off RowOK or off the callbacks it permits.                     *)
(***************************************************************************)
EXTENDS Execution, TLAPS

\* The inductive invariant, row by row.  Beyond the checked properties it says
\* that CHECKPOINTING, RETRYING and LOST are never stored: from a stored
\* CHECKPOINTING row, Cancel would make a CANCEL_REQUESTED row that never ran.
RowOK(row) ==
    /\ row \in JobRecord
    /\ row.state \notin {"CHECKPOINTING", "RETRYING", "LOST"}
    /\ row.state = "FAILED" => row.currentAttempt >= row.retryLimit
    /\ row.state # "NONE" =>
          /\ row.currentAttempt >= 1
          /\ row.currentAttempt = 1 \/ row.currentAttempt <= row.retryLimit
    /\ row.state = "QUEUED" => row.assigned = {}
    /\ row.state \in {"SCHEDULED", "RUNNING", "CANCEL_REQUESTED",
                      "PREEMPTED", "SUCCEEDED", "FAILED"}
          => \E w \in Worker : row.assigned = {w}
    /\ row.state \in {"QUEUED", "SCHEDULED"} => ~row.startedAt
    /\ row.state \in {"RUNNING", "CANCEL_REQUESTED", "PREEMPTED",
                      "SUCCEEDED"} => row.startedAt
    /\ row.completedAt <=> row.state \in {"SUCCEEDED", "CANCELLED"}
    /\ row.failedAt <=> row.state = "FAILED"

\* One callback of one operation takes a stored row r to s.
RowStep(r, s) ==
    /\ r.state # "NONE"
    /\ \/ CancelPermits(r) /\ s = Cancel(r)
       \/ RetryPermits(r) /\ s = Retry(r)
       \/ \E w \in Worker : AssignPermits(r) /\ s = Assign(r, {w})
       \/ PreemptPermits(r) /\ s = Preempt(r)
       \/ StartPermits(r) /\ s = Start(r)
       \/ CompletePermits(r) /\ s = Complete(r)
       \/ FailPermits(r) /\ s = Fail(r)
       \/ s = ReportStopped(r)
       \/ s = Recover(r)

IInv == TypeOK /\ \A j \in Job : RowOK(jobs[j])

-----------------------------------------------------------------------------
\* A row's attempt and limit are numbers.
LEMMA RowNumbers ==
    ASSUME NEW r \in JobRecord
    PROVE  r.currentAttempt \in Nat /\ r.retryLimit \in Nat
  <1>1. r.currentAttempt \in Nat
    BY DEF JobRecord
  <1>2. r.retryLimit \in RetryLimits \cup {0}
    BY DEF JobRecord
  <1>3. \A x \in RetryLimits \cup {0} : x \in Nat
    BY RetryLimitsAssumption
  <1> QED BY <1>1, <1>2, <1>3, Zenon

\* The row Create stores for a submission is in the invariant.
LEMMA NewJobOK ==
    ASSUME NEW sid \in SubmissionID \cup {NoSubmission},
           NEW limit \in RetryLimits, NEW p \in BOOLEAN
    PROVE  RowOK(NewJob(sid, limit, p))
  BY DEF RowOK, NewJob, JobRecord, State

\* applyFailureOrRetry keeps a SCHEDULED or RUNNING row in the invariant.
LEMMA FailureOrRetryOK ==
    ASSUME NEW r, RowOK(r), r.state \in {"SCHEDULED", "RUNNING"}
    PROVE  RowOK(ApplyFailureOrRetry(r))
  <1> DEFINE n == ApplyFailureOrRetry(r)
  <1>1. r.currentAttempt \in Nat /\ r.retryLimit \in Nat
    BY RowNumbers DEF RowOK
  <1>2. CASE r.currentAttempt < r.retryLimit
    <2>1. n = [r EXCEPT !.state = "QUEUED", !.currentAttempt = @ + 1,
                        !.startedAt = FALSE, !.assigned = {}]
      BY <1>2 DEF ApplyFailureOrRetry
    <2> HIDE DEF n
    <2>0. r.currentAttempt + 1 \in Nat
      BY <1>1
    <2>2. n \in JobRecord
      BY <2>0, <2>1, Zenon DEF RowOK, JobRecord, State
    <2>3. /\ n.state = "QUEUED" /\ n.currentAttempt = r.currentAttempt + 1
          /\ n.retryLimit = r.retryLimit /\ n.assigned = {}
          /\ n.startedAt = FALSE /\ n.completedAt = r.completedAt
          /\ n.failedAt = r.failedAt
      BY <2>1 DEF RowOK, JobRecord
    <2>4. RowOK(n)
      BY <1>1, <1>2, <2>2, <2>3 DEF RowOK
    <2> QED BY <2>4 DEF n
  <1>3. CASE ~(r.currentAttempt < r.retryLimit)
    <2>1. n = [r EXCEPT !.state = "FAILED", !.failedAt = TRUE]
      BY <1>3 DEF ApplyFailureOrRetry
    <2> HIDE DEF n
    <2>2. n \in JobRecord
      BY <2>1, Zenon DEF RowOK, JobRecord, State
    <2>3. /\ n.state = "FAILED" /\ n.currentAttempt = r.currentAttempt
          /\ n.retryLimit = r.retryLimit /\ n.assigned = r.assigned
          /\ n.startedAt = r.startedAt /\ n.completedAt = r.completedAt
          /\ n.failedAt = TRUE
      BY <2>1 DEF RowOK, JobRecord
    <2>4. RowOK(n)
      BY <1>1, <1>3, <2>2, <2>3 DEF RowOK
    <2> QED BY <2>4 DEF n
  <1> QED BY <1>2, <1>3

\* Every callback of jobs.Service keeps a row in the invariant.  Retry does so
\* because it is never permitted: a FAILED row has no attempt left.
LEMMA RowStepKeepsRowOK ==
    ASSUME NEW r, NEW s, RowOK(r), RowStep(r, s)
    PROVE  RowOK(s)
  <1>1. CASE CancelPermits(r) /\ s = Cancel(r)
    BY <1>1, Zenon DEF RowStep, RowOK, Cancel, CancelPermits, JobRecord, State, Terminal
  <1>2. CASE RetryPermits(r) /\ s = Retry(r)
    BY <1>2, RowNumbers DEF RowOK, RetryPermits
  <1>3. ASSUME NEW w \in Worker, AssignPermits(r) /\ s = Assign(r, {w})
        PROVE  RowOK(s)
    BY <1>3, Zenon DEF RowOK, AssignPermits, Assign, JobRecord, State
  <1>4. CASE PreemptPermits(r) /\ s = Preempt(r)
    BY <1>4 DEF RowOK, PreemptPermits, Preempt, JobRecord, State
  <1>5. CASE StartPermits(r) /\ s = Start(r)
    BY <1>5, Zenon DEF RowOK, StartPermits, Start, JobRecord, State
  <1>6. CASE CompletePermits(r) /\ s = Complete(r)
    BY <1>6, Zenon DEF RowOK, CompletePermits, Complete, JobRecord, State
  <1>7. CASE FailPermits(r) /\ s = Fail(r)
    BY <1>7, FailureOrRetryOK DEF FailPermits, Fail
  <1>8. CASE s = ReportStopped(r)
    BY <1>8, ZenonT(40) DEF RowOK, ReportStopped, JobRecord, State
  <1>9. CASE s = Recover(r)
    <2>1. CASE r.state \in {"SCHEDULED", "RUNNING"}
      BY <1>9, <2>1, FailureOrRetryOK DEF Recover
    <2>2. CASE r.state \notin {"SCHEDULED", "RUNNING"}
      BY <1>9, <2>2, ZenonT(40) DEF RowOK, Recover, JobRecord, State
    <2> QED BY <2>1, <2>2
  <1> QED BY <1>1, <1>2, <1>3, <1>4, <1>5, <1>6, <1>7, <1>8, <1>9, Zenon DEF RowStep

-----------------------------------------------------------------------------
\* The step stores the row of a new submission at j.
Creates(j, row) ==
    /\ jobs[j].state = "NONE"
    /\ \E sid \in SubmissionID \cup {NoSubmission}, limit \in RetryLimits,
          p \in BOOLEAN :
          /\ row = NewJob(sid, limit, p)
          /\ sid # NoSubmission =>
                \A i \in Job : Exists(i) => jobs[i].submissionID # sid

\* Repository.Create and Repository.Update touch one row: a step of any
\* operation leaves the repository alone, creates one row, or applies one
\* callback to one stored row.
LEMMA OneRowAtATime ==
    ASSUME Next
    PROVE  \/ jobs' = jobs
           \/ \E j \in Job : \E row :
                 /\ jobs' = [jobs EXCEPT ![j] = row]
                 /\ Creates(j, row) \/ RowStep(jobs[j], row)
  <1> DEFINE Goal == \/ jobs' = jobs
                     \/ \E j \in Job : \E row :
                           /\ jobs' = [jobs EXCEPT ![j] = row]
                           /\ Creates(j, row) \/ RowStep(jobs[j], row)
  <1>1. ASSUME NEW j \in Job, NEW sid \in SubmissionID \cup {NoSubmission},
               NEW limit \in RetryLimits, NEW p \in BOOLEAN,
               SubmitJob(j, sid, limit, p)
        PROVE  Goal
    <2> DEFINE row == NewJob(sid, limit, p)
    <2>1. row.submissionID = sid
      BY DEF NewJob
    <2>2. CASE jobs' = [jobs EXCEPT ![j] = row] /\ jobs' # jobs
      <3>1. sid # NoSubmission =>
               \A i \in Job : Exists(i) => jobs[i].submissionID # sid
        BY <1>1, <2>1, <2>2 DEF SubmitJob, Create
      <3>2. Creates(j, row)
        BY <1>1, <3>1 DEF Creates, SubmitJob, Create, Exists
      <3> QED BY <2>2, <3>2, Zenon
    <2> QED BY <1>1, <2>2, Zenon DEF SubmitJob, Create
  <1>2. ASSUME NEW j \in Job, NEW permitted, NEW row,
               Update(j, permitted, row),
               permitted => RowStep(jobs[j], row)
        PROVE  Goal
    BY <1>2 DEF Update
  <1>3. ASSUME NEW j \in Job, CancelJob(j) PROVE Goal
    BY <1>2, <1>3, Zenon DEF CancelJob, Update, RowStep, Exists
  <1>4. ASSUME NEW j \in Job, RetryJob(j) PROVE Goal
    BY <1>2, <1>4, Zenon DEF RetryJob, Update, RowStep, Exists
  <1>5. ASSUME NEW j \in Job, NEW w \in Worker, AssignToWorkers(j, w) PROVE Goal
    BY <1>2, <1>5, Zenon DEF AssignToWorkers, Update, RowStep, Exists
  <1>6. ASSUME NEW j \in Job, PreemptJob(j) PROVE Goal
    BY <1>2, <1>6, Zenon DEF PreemptJob, Update, RowStep, Exists
  <1>7. ASSUME NEW j \in Job, ReportJobStarted(j) PROVE Goal
    BY <1>2, <1>7, Zenon DEF ReportJobStarted, Update, RowStep, Exists
  <1>8. ASSUME NEW j \in Job, ReportJobCompleted(j) PROVE Goal
    BY <1>2, <1>8, Zenon DEF ReportJobCompleted, Update, RowStep, Exists
  <1>9. ASSUME NEW j \in Job, ReportJobFailed(j) PROVE Goal
    BY <1>2, <1>9, Zenon DEF ReportJobFailed, Update, RowStep, Exists
  <1>10. ASSUME NEW j \in Job, ReportJobStopped(j) PROVE Goal
    BY <1>2, <1>10, Zenon DEF ReportJobStopped, Update, RowStep, Exists
  <1>11. ASSUME NEW a \in Replica, NEW w \in Worker, NEW j \in Job,
                LoseWorkerUpdate(a, w, j)
         PROVE  Goal
    BY <1>2, <1>11, Zenon DEF LoseWorkerUpdate, Update, RowStep, Exists
  <1>12. ASSUME NEW a \in Replica, NEW w \in Worker, LoseWorkerScan(a, w)
         PROVE  Goal
    BY <1>12 DEF LoseWorkerScan
  <1>13. ASSUME NEW a \in Replica, LoseWorkerAbort(a) PROVE Goal
    BY <1>13 DEF LoseWorkerAbort
  <1> HIDE DEF Goal
  <1>14. Goal
    BY <1>1, <1>3, <1>4, <1>5, <1>6, <1>7, <1>8, <1>9, <1>10, <1>11, <1>12,
       <1>13 DEF Next
  <1> QED BY <1>14 DEF Goal

-----------------------------------------------------------------------------
\* Every step keeps the type of LoseWorker's work lists.
LEMMA TodoType ==
    ASSUME TypeOK, [Next]_vars
    PROVE  todo' \in [Replica -> [Worker -> SUBSET Job]]
  <1> USE DEF TypeOK
  <1>1. ASSUME NEW a \in Replica, NEW w \in Worker, LoseWorkerScan(a, w)
        PROVE  todo' \in [Replica -> [Worker -> SUBSET Job]]
    <2>1. {j \in Job : Recoverable(jobs[j]) /\ w \in jobs[j].assigned} \in SUBSET Job
      OBVIOUS
    <2> QED BY <1>1, <2>1 DEF LoseWorkerScan
  <1>2. ASSUME NEW a \in Replica, NEW w \in Worker, NEW j \in Job,
               LoseWorkerUpdate(a, w, j)
        PROVE  todo' \in [Replica -> [Worker -> SUBSET Job]]
    <2>1. todo[a][w] \ {j} \in SUBSET Job
      OBVIOUS
    <2> QED BY <1>2, <2>1 DEF LoseWorkerUpdate
  <1>3. ASSUME NEW a \in Replica, LoseWorkerAbort(a)
        PROVE  todo' \in [Replica -> [Worker -> SUBSET Job]]
    <2>1. [w \in Worker |-> {}] \in [Worker -> SUBSET Job]
      OBVIOUS
    <2> QED BY <1>3, <2>1 DEF LoseWorkerAbort
  <1>4. CASE UNCHANGED todo
    BY <1>4
  <1> QED
    BY <1>1, <1>2, <1>3, <1>4, Zenon
       DEF Next, vars, SubmitJob, CancelJob, RetryJob, AssignToWorkers,
           PreemptJob, ReportJobStarted, ReportJobCompleted, ReportJobFailed,
           ReportJobStopped

\* One step of any operation keeps every row in RowOK.
LEMMA StepKeepsIInv ==
    ASSUME IInv, [Next]_vars
    PROVE  IInv'
  <1>1. todo' \in [Replica -> [Worker -> SUBSET Job]]
    BY TodoType DEF IInv
  <1>2. CASE jobs' = jobs
    BY <1>1, <1>2 DEF IInv, TypeOK
  <1>3. ASSUME NEW j \in Job, NEW row, jobs' = [jobs EXCEPT ![j] = row],
               Creates(j, row) \/ RowStep(jobs[j], row)
        PROVE  IInv'
    <2>1. RowOK(row)
      BY <1>3, NewJobOK, RowStepKeepsRowOK DEF Creates, IInv
    <2>2. \A i \in Job : jobs'[i] = IF i = j THEN row ELSE jobs[i]
      BY <1>3 DEF IInv, TypeOK
    <2>3. \A i \in Job : RowOK(jobs'[i])
      BY <2>1, <2>2 DEF IInv
    <2>4. row \in JobRecord
      BY <2>1 DEF RowOK
    <2>5. jobs' \in [Job -> JobRecord]
      BY <1>3, <2>4 DEF IInv, TypeOK
    <2> QED BY <1>1, <2>3, <2>5 DEF IInv, TypeOK
  <1>4. CASE Next
    BY <1>2, <1>3, <1>4, OneRowAtATime
  <1> QED BY <1>2, <1>4 DEF vars

\* The repository starts empty, in the invariant.
LEMMA InitIInv == Init => IInv
  <1> SUFFICES ASSUME Init PROVE IInv
    OBVIOUS
  <1>1. NoRow \in JobRecord
    BY DEF NoRow, JobRecord, State
  <1>2. RowOK(NoRow)
    BY <1>1 DEF RowOK, NoRow
  <1>3. TypeOK
    BY <1>1 DEF Init, TypeOK
  <1> QED BY <1>2, <1>3 DEF Init, IInv

\* The inductive invariant holds in every state the service reaches.
THEOREM Invariance == Spec => []IInv
  BY InitIInv, StepKeepsIInv, PTL DEF Spec

\* Rows and work lists keep their types.
THEOREM TypeCorrect == Spec => []TypeOK
  <1>1. IInv => TypeOK
    BY DEF IInv
  <1> QED BY <1>1, Invariance, PTL

\* A job is FAILED only when applyFailureOrRetry found no attempt left.
THEOREM FailedIsExhausted == Spec => []FailedMeansExhausted
  <1>1. IInv => FailedMeansExhausted
    BY DEF IInv, RowOK, FailedMeansExhausted
  <1> QED BY <1>1, Invariance, PTL

\* Retry's guard (FAILED, with an attempt left) holds of no row, so RetryJob is
\* rejected whenever it is called: the comment above Fail, which says that it
\* remains available for a FAILED job, is not what Retry does.
THEOREM RetryIsAlwaysRejected == Spec => []\A j \in Job : ~RetryPermits(jobs[j])
  <1>1. ASSUME IInv, NEW j \in Job PROVE ~RetryPermits(jobs[j])
    <2>1. RowOK(jobs[j]) /\ jobs[j] \in JobRecord
      BY <1>1 DEF IInv, RowOK
    <2> QED BY <2>1, RowNumbers DEF RowOK, RetryPermits
  <1>2. IInv => \A j \in Job : ~RetryPermits(jobs[j])
    BY <1>1
  <1> QED BY <1>2, Invariance, PTL

\* CurrentAttempt never exceeds max(1, RetryLimit).
THEOREM BudgetIsRespected == Spec => []AttemptsWithinBudget
  <1>1. IInv => AttemptsWithinBudget
    BY DEF IInv, RowOK, AttemptsWithinBudget, Exists
  <1> QED BY <1>1, Invariance, PTL

\* A row names a worker exactly when its state says it has one.
THEOREM PlacementIsConsistent == Spec => []PlacementMatchesState
  <1>1. IInv => PlacementMatchesState
    BY DEF IInv, RowOK, PlacementMatchesState
  <1> QED BY <1>1, Invariance, PTL

\* A row's timestamps agree with its state.
THEOREM TimestampsAreConsistent == Spec => []TimestampsMatchState
  <1>1. IInv => TimestampsMatchState
    BY DEF IInv, RowOK, TimestampsMatchState
  <1> QED BY <1>1, Invariance, PTL

-----------------------------------------------------------------------------
\* What a callback never changes: the submission ID and the retry limit stay,
\* and a stored row stays stored.
LEMMA RowStepKeepsIdentity ==
    ASSUME NEW r, NEW s, RowOK(r), RowStep(r, s)
    PROVE  /\ s.submissionID = r.submissionID
           /\ s.retryLimit = r.retryLimit
           /\ s.state # "NONE"
  <1> DEFINE Same == /\ s.submissionID = r.submissionID
                     /\ s.retryLimit = r.retryLimit
                     /\ s.state # "NONE"
  <1>1. CASE s = Cancel(r)
    BY <1>1 DEF RowStep, RowOK, JobRecord, Cancel
  <1>2. CASE s = Retry(r)
    BY <1>2 DEF RowOK, JobRecord, Retry
  <1>3. ASSUME NEW w \in Worker, s = Assign(r, {w}) PROVE Same
    BY <1>3 DEF RowOK, JobRecord, Assign
  <1>4. CASE s = Preempt(r) \/ s = Start(r) \/ s = Complete(r)
    BY <1>4, Zenon DEF RowOK, JobRecord, Preempt, Start, Complete
  <1>5. CASE s = ApplyFailureOrRetry(r)
    BY <1>5 DEF RowOK, JobRecord, ApplyFailureOrRetry
  <1>6. CASE s = ReportStopped(r)
    BY <1>6 DEF RowStep, RowOK, JobRecord, ReportStopped
  <1>7. CASE s = Recover(r)
    BY <1>5, <1>7 DEF RowStep, RowOK, JobRecord, Recover
  <1> QED BY <1>1, <1>2, <1>3, <1>4, <1>5, <1>6, <1>7, Zenon DEF RowStep, Fail

\* Create's conflict check keeps submission IDs unique.
THEOREM SubmissionIsIdempotent == Spec => []OneJobPerSubmission
  <1>1. Init => OneJobPerSubmission
    BY DEF Init, OneJobPerSubmission, Exists, NoRow
  <1>2. IInv /\ OneJobPerSubmission /\ [Next]_vars => OneJobPerSubmission'
    <2> SUFFICES ASSUME IInv, OneJobPerSubmission, [Next]_vars
                 PROVE  OneJobPerSubmission'
      OBVIOUS
    <2>1. CASE jobs' = jobs
      BY <2>1 DEF OneJobPerSubmission, Exists
    <2>2. ASSUME NEW j \in Job, NEW row, jobs' = [jobs EXCEPT ![j] = row],
                 Creates(j, row) \/ RowStep(jobs[j], row)
          PROVE  OneJobPerSubmission'
      <3>1. \A i \in Job : jobs'[i] = IF i = j THEN row ELSE jobs[i]
        BY <2>2 DEF IInv, TypeOK
      <3>2. CASE Creates(j, row)
        <4>1. PICK sid \in SubmissionID \cup {NoSubmission},
                   limit \in RetryLimits, p \in BOOLEAN :
                 /\ row = NewJob(sid, limit, p)
                 /\ sid # NoSubmission =>
                       \A i \in Job : Exists(i) => jobs[i].submissionID # sid
          BY <3>2 DEF Creates
        <4>2. row.submissionID = sid
          BY <4>1 DEF NewJob
        <4> QED BY <3>1, <4>1, <4>2 DEF OneJobPerSubmission, Exists
      <3>3. CASE RowStep(jobs[j], row)
        <4>1. row.submissionID = jobs[j].submissionID /\ Exists(j)
          BY <3>3, RowStepKeepsIdentity, Zenon DEF IInv, RowStep, Exists
        <4> QED BY <3>1, <4>1 DEF OneJobPerSubmission, Exists
      <3> QED BY <2>2, <3>2, <3>3
    <2> QED BY <2>1, <2>2, OneRowAtATime DEF vars
  <1> QED BY <1>1, <1>2, Invariance, PTL DEF Spec

-----------------------------------------------------------------------------
\* What every step does to any one row, for the action properties below.
LEMMA EachRow ==
    ASSUME IInv, Next, NEW j \in Job
    PROVE  \/ jobs'[j] = jobs[j]
           \/ Creates(j, jobs'[j])
           \/ RowStep(jobs[j], jobs'[j])
  BY OneRowAtATime DEF IInv, TypeOK

\* No callback changes a terminal row.
LEMMA TerminalRow ==
    ASSUME NEW r, NEW s, RowOK(r), RowStep(r, s), Terminal(r.state)
    PROVE  s = r
  <1>1. ~RetryPermits(r)
    BY RowNumbers DEF RowOK, RetryPermits
  <1> QED
    BY <1>1, Zenon DEF RowStep, RowOK, Terminal, Cancel, AssignPermits, PreemptPermits,
                StartPermits, CompletePermits, FailPermits, ReportStopped, Recover

\* No operation touches a finished job again.
THEOREM FinishedIsFinal == Spec => TerminalIsFinal
  <1>1. IInv /\ [Next]_vars =>
          [\A j \in Job : Terminal(jobs[j].state) => jobs'[j] = jobs[j]]_vars
    <2> SUFFICES ASSUME IInv, Next, NEW j \in Job, Terminal(jobs[j].state)
                 PROVE  jobs'[j] = jobs[j]
      OBVIOUS
    <2>1. ~Creates(j, jobs'[j])
      BY DEF Creates, Terminal
    <2> QED BY <2>1, EachRow, TerminalRow DEF IInv
  <1> QED BY <1>1, Invariance, PTL DEF Spec, TerminalIsFinal

\* A callback takes a CANCEL_REQUESTED row nowhere but to CANCELLED.
LEMMA CancelRow ==
    ASSUME NEW r, NEW s, RowOK(r), RowStep(r, s), r.state = "CANCEL_REQUESTED"
    PROVE  s.state \in {"CANCEL_REQUESTED", "CANCELLED"}
  BY Zenon DEF RowStep, RowOK, JobRecord, Cancel, RetryPermits, AssignPermits,
         PreemptPermits, StartPermits, CompletePermits, FailPermits,
         ReportStopped, Recover

\* An accepted cancellation of a running job ends in CANCELLED or nowhere.
THEOREM CancellationSticks == Spec => CancelIsNeverUndone
  <1>1. IInv /\ [Next]_vars =>
          [\A j \in Job : jobs[j].state = "CANCEL_REQUESTED" =>
              jobs'[j].state \in {"CANCEL_REQUESTED", "CANCELLED"}]_vars
    <2> SUFFICES ASSUME IInv, Next, NEW j \in Job,
                        jobs[j].state = "CANCEL_REQUESTED"
                 PROVE  jobs'[j].state \in {"CANCEL_REQUESTED", "CANCELLED"}
      OBVIOUS
    <2>1. ~Creates(j, jobs'[j])
      BY DEF Creates
    <2> QED BY <2>1, EachRow, CancelRow DEF IInv
  <1> QED BY <1>1, Invariance, PTL DEF Spec, CancelIsNeverUndone

\* A callback that changes the attempt requeues a placed row.
LEMMA AttemptRow ==
    ASSUME NEW r, NEW s, RowOK(r), RowStep(r, s),
           s.currentAttempt # r.currentAttempt
    PROVE  /\ r.state \in {"SCHEDULED", "RUNNING"}
           /\ s.state = "QUEUED"
           /\ s.currentAttempt = r.currentAttempt + 1
  <1>1. ~RetryPermits(r)
    BY RowNumbers DEF RowOK, RetryPermits
  <1> QED
    BY <1>1, ZenonT(40) DEF RowStep, RowOK, JobRecord, Cancel, Assign, Preempt, Start,
                Complete, Fail, FailPermits, ReportStopped, Recover,
                ApplyFailureOrRetry

\* Only the failure of a placed job, or of its worker, costs an attempt.
THEOREM PreemptionCostsNothing == Spec => PreemptionIsFree
  <1>1. IInv /\ [Next]_vars =>
          [\A j \in Job :
              Exists(j) /\ jobs'[j].currentAttempt # jobs[j].currentAttempt =>
                  /\ jobs[j].state \in {"SCHEDULED", "RUNNING"}
                  /\ jobs'[j].state = "QUEUED"
                  /\ jobs'[j].currentAttempt = jobs[j].currentAttempt + 1]_vars
    <2> SUFFICES ASSUME IInv, Next, NEW j \in Job, Exists(j),
                        jobs'[j].currentAttempt # jobs[j].currentAttempt
                 PROVE  /\ jobs[j].state \in {"SCHEDULED", "RUNNING"}
                        /\ jobs'[j].state = "QUEUED"
                        /\ jobs'[j].currentAttempt = jobs[j].currentAttempt + 1
      OBVIOUS
    <2>1. ~Creates(j, jobs'[j])
      BY DEF Creates, Exists
    <2>2. RowStep(jobs[j], jobs'[j])
      BY <2>1, EachRow
    <2> QED BY <2>2, AttemptRow DEF IInv
  <1> QED BY <1>1, Invariance, PTL DEF Spec, PreemptionIsFree

-----------------------------------------------------------------------------
\* The step the contract sees when a row r becomes s: none, or one of its own.
ContractRow(r, s) ==
    LET from == PhaseOf(r.state)
        to   == PhaseOf(s.state) IN
    /\ s.retryLimit = r.retryLimit
    /\ \/ /\ s.currentAttempt = r.currentAttempt
          /\ \/ from = to
             \/ from = "waiting" /\ to = "placed"
             \/ from = "placed" /\ to \in {"succeeded", "yielding", "cancelling"}
             \/ from = "yielding" /\ to = "waiting"
             \/ from \in {"waiting", "placed", "cancelling"} /\ to = "cancelled"
             \/ /\ from = "placed" /\ to = "failed"
                /\ r.currentAttempt >= r.retryLimit
       \/ /\ r.currentAttempt < r.retryLimit
          /\ s.currentAttempt = r.currentAttempt + 1
          /\ from = "placed" /\ to = "waiting"

\* Every callback is a step of the contract.
LEMMA RowStepIsContractRow ==
    ASSUME NEW r, NEW s, RowOK(r), RowStep(r, s)
    PROVE  ContractRow(r, s)
  <1>0. r.currentAttempt \in Nat /\ r.retryLimit \in Nat
    BY RowNumbers DEF RowOK
  <1>1. CASE CancelPermits(r) /\ s = Cancel(r)
    BY <1>1 DEF RowStep, RowOK, JobRecord, CancelPermits, Cancel, Terminal,
                ContractRow, PhaseOf
  <1>2. CASE RetryPermits(r) /\ s = Retry(r)
    BY <1>0, <1>2 DEF RowOK, RetryPermits
  <1>3. ASSUME NEW w \in Worker, AssignPermits(r) /\ s = Assign(r, {w})
        PROVE  ContractRow(r, s)
    BY <1>3 DEF RowOK, JobRecord, AssignPermits, Assign, ContractRow, PhaseOf
  <1>4. CASE PreemptPermits(r) /\ s = Preempt(r)
    BY <1>4 DEF RowOK, JobRecord, PreemptPermits, Preempt, ContractRow, PhaseOf
  <1>5. CASE StartPermits(r) /\ s = Start(r)
    BY <1>5 DEF RowOK, JobRecord, StartPermits, Start, ContractRow, PhaseOf
  <1>6. CASE CompletePermits(r) /\ s = Complete(r)
    BY <1>6 DEF RowOK, JobRecord, CompletePermits, Complete, ContractRow, PhaseOf
  <1>7. CASE r.state \in {"SCHEDULED", "RUNNING"} /\ s = ApplyFailureOrRetry(r)
    BY <1>0, <1>7 DEF RowOK, JobRecord, ApplyFailureOrRetry, ContractRow, PhaseOf
  <1>8. CASE s = ReportStopped(r)
    BY <1>8, Zenon DEF RowOK, JobRecord, ReportStopped, ContractRow, PhaseOf
  <1>9. CASE s = Recover(r) /\ r.state \notin {"SCHEDULED", "RUNNING"}
    BY <1>9, Zenon DEF RowOK, JobRecord, Recover, ContractRow, PhaseOf
  <1> QED
    BY <1>1, <1>2, <1>3, <1>4, <1>5, <1>6, <1>7, <1>8, <1>9, Zenon
       DEF RowStep, Fail, FailPermits, Recover

\* Seen through the mapping, a service step is a contract step or a stutter.
LEMMA StepRefines ==
    ASSUME IInv, [Next]_vars
    PROVE  [Contract!Next]_(Contract!vars)
  <1> DEFINE ph == [j \in Job |-> PhaseOf(jobs[j].state)]
             at == [j \in Job |-> jobs[j].currentAttempt]
             bu == [j \in Job |-> jobs[j].retryLimit]
             Stutter == ph' = ph /\ at' = at /\ bu' = bu
  <1>0. Stutter => UNCHANGED Contract!vars
    BY DEF Contract!vars
  <1>1. CASE jobs' = jobs
    BY <1>1 DEF Contract!vars
  <1>2. ASSUME NEW j \in Job, NEW row, jobs' = [jobs EXCEPT ![j] = row],
               Creates(j, row) \/ RowStep(jobs[j], row)
        PROVE  Contract!Next \/ Stutter
    <2>1. \A i \in Job : jobs'[i] = IF i = j THEN row ELSE jobs[i]
      BY <1>2 DEF IInv, TypeOK
    <2>2. /\ ph' = [ph EXCEPT ![j] = PhaseOf(row.state)]
          /\ at' = [at EXCEPT ![j] = row.currentAttempt]
          /\ bu' = [bu EXCEPT ![j] = row.retryLimit]
      BY <2>1, Zenon
    <2>3. CASE Creates(j, row)
      <3>1. PICK sid \in SubmissionID \cup {NoSubmission},
                 limit \in RetryLimits, p \in BOOLEAN : row = NewJob(sid, limit, p)
        BY <2>3 DEF Creates
      <3>2. /\ ph[j] = "absent" /\ PhaseOf(row.state) = "waiting"
            /\ row.currentAttempt = 1 /\ row.retryLimit = limit
        BY <2>3, <3>1 DEF Creates, NewJob, PhaseOf
      <3>3. Contract!Submit(j, limit)
        BY <2>2, <3>2 DEF Contract!Submit, Contract!Become
      <3> QED BY <3>3 DEF Contract!Next
    <2>4. CASE RowStep(jobs[j], row)
      <3>1. ContractRow(jobs[j], row)
        BY <2>4, RowStepIsContractRow DEF IInv
      <3> DEFINE from == ph[j]
                 to == PhaseOf(row.state)
      <3>2. bu' = bu
        BY <2>2, <3>1, Zenon DEF ContractRow
      <3>3. CASE row.currentAttempt = jobs[j].currentAttempt
        <4>1. at' = at
          BY <2>2, <3>3, Zenon
        <4>2. CASE from = to
          BY <2>2, <3>2, <4>1, <4>2, Zenon
        <4>3. CASE from = "waiting" /\ to = "placed"
          <5>1. Contract!Place(j)
            BY <2>2, <3>2, <4>1, <4>3 DEF Contract!Place, Contract!Become, Contract!Keep
          <5> QED BY <5>1 DEF Contract!Next
        <4>4. CASE from = "placed" /\ to \in {"succeeded", "yielding", "cancelling"}
          <5>1. Contract!Succeed(j) \/ Contract!AskToYield(j) \/ Contract!AskToCancel(j)
            BY <2>2, <3>2, <4>1, <4>4, Zenon
               DEF Contract!Succeed, Contract!AskToYield, Contract!AskToCancel,
                   Contract!Become, Contract!Keep
          <5> QED BY <5>1 DEF Contract!Next
        <4>5. CASE from = "yielding" /\ to = "waiting"
          <5>1. Contract!Yield(j)
            BY <2>2, <3>2, <4>1, <4>5 DEF Contract!Yield, Contract!Become, Contract!Keep
          <5> QED BY <5>1 DEF Contract!Next
        <4>6. CASE from \in {"waiting", "placed", "cancelling"} /\ to = "cancelled"
          <5>1. Contract!CancelNow(j)
            BY <2>2, <3>2, <4>1, <4>6
               DEF Contract!CancelNow, Contract!Become, Contract!Keep
          <5> QED BY <5>1 DEF Contract!Next
        <4>7. CASE /\ from = "placed" /\ to = "failed"
                   /\ jobs[j].currentAttempt >= jobs[j].retryLimit
          <5>1. Contract!GiveUp(j)
            BY <2>2, <3>2, <4>1, <4>7
               DEF Contract!GiveUp, Contract!Become, Contract!Keep
          <5> QED BY <5>1 DEF Contract!Next
        <4>8. row.currentAttempt # jobs[j].currentAttempt + 1
          BY <3>3, RowNumbers DEF IInv, TypeOK
        <4> QED BY <3>1, <4>2, <4>3, <4>4, <4>5, <4>6, <4>7, <4>8, Zenon DEF ContractRow
      <3>4. CASE row.currentAttempt # jobs[j].currentAttempt
        <4>1. Contract!TryAgain(j)
          BY <2>2, <3>1, <3>2, <3>4, Zenon DEF ContractRow, Contract!TryAgain, Contract!Become
        <4> QED BY <4>1 DEF Contract!Next
      <3> QED BY <3>3, <3>4
    <2> QED BY <1>2, <2>3, <2>4
  <1> QED BY <1>0, <1>1, <1>2, OneRowAtATime DEF vars

\* The service implements the contract.
THEOREM Refinement == Spec => ImplementsContract
  <1>1. Init => Contract!Init
    BY DEF Init, Contract!Init, NoRow, PhaseOf
  <1>2. IInv /\ [Next]_vars => [Contract!Next]_(Contract!vars)
    BY StepRefines
  <1> QED BY <1>1, <1>2, Invariance, PTL DEF Spec, ImplementsContract, Contract!Spec


\* Every step of the composition is a step of JobService or leaves it alone.
LEMMA ExecStepIsServiceStep == [ExecNext]_execVars => [Next]_vars
<1> SUFFICES ASSUME [ExecNext]_execVars PROVE [Next]_vars
  OBVIOUS
<1> USE DEF vars, Next
<1>1. CASE UNCHANGED execVars
  BY <1>1 DEF execVars
<1>2. CASE ListJobs \/ ListWorkers
  BY <1>2 DEF ListJobs, ListWorkers
<1>3. ASSUME NEW j \in Job, NEW limit \in RetryLimits, NEW preemptible \in BOOLEAN,
             Submit(j, limit, preemptible)
      PROVE  [Next]_vars
  BY <1>3 DEF Submit
<1>4. ASSUME NEW j \in Job, ClientCancels(j) \/ PreemptVictim(j)
      PROVE  [Next]_vars
  BY <1>4 DEF ClientCancels, PreemptVictim
<1>5. ASSUME NEW w \in Worker,
             \/ HeartbeatUpdatesRow(w) \/ ListAssignedToWorker(w)
             \/ ListStoppableForWorker(w) \/ HeartbeatFails(w)
             \/ WorkerDies(w) \/ LeaseExpires(w)
             \/ \E a \in Replica : MarkLost(a, w) \/ MarkLostFails(a, w)
      PROVE  [Next]_vars
  BY <1>5 DEF HeartbeatUpdatesRow, ListAssignedToWorker, ListStoppableForWorker,
              HeartbeatFails, WorkerDies, LeaseExpires, MarkLost, MarkLostFails
<1>6. ASSUME NEW w \in Worker, NEW a \in Replica,
             LoseWorker(a, w) \/ LoseWorkerFails(a, w)
      PROVE  [Next]_vars
  BY <1>6 DEF LoseWorker, LoseWorkerFails
<1>7. ASSUME NEW w \in Worker, NEW j \in Job, AssignJob(j, w)
      PROVE  [Next]_vars
  BY <1>7, Zenon DEF AssignJob
<1>8. ASSUME NEW w \in Worker, NEW j \in Job,
             \/ StartJob(w, j) \/ SignalStop(w, j) \/ ExecutorRaises(w, j)
             \/ ReportOutcomeFails(w, j)
             \/ \E outcome \in Outcome : Execute(w, j, outcome)
      PROVE  [Next]_vars
  BY <1>8 DEF StartJob, SignalStop, ExecutorRaises, ReportOutcomeFails, Execute
<1>9. ASSUME NEW w \in Worker, NEW j \in Job,
             \/ ReportStarted(w, j) \/ ReportStartedFails(w, j)
      PROVE  [Next]_vars
  BY <1>9 DEF ReportStarted, ReportStartedFails
<1>10. ASSUME NEW w \in Worker, NEW j \in Job, ReportOutcome(w, j)
       PROVE  [Next]_vars
  BY <1>10 DEF ReportOutcome, SendOutcome
<1> QED
  BY <1>1, <1>2, <1>3, <1>4, <1>5, <1>6, <1>7, <1>8, <1>9, <1>10, Zenon DEF ExecNext

\* The actions of Execution are built from those of JobService, so that what is
\* proved of the rows of the service can be used below.
LEMMA RowsOfTheService == ExecSpec => []IInv
<1>1. ExecInit => Init
  BY DEF ExecInit
<1> QED
  BY <1>1, ExecStepIsServiceStep, Invariance, PTL DEF ExecSpec, Spec

-----------------------------------------------------------------------------
(***************************************************************************)
(* Threads and rows, as long as no worker has died or is cut off.  What is *)
(* left is hard enough: a heartbeat response may tell a worker to start or *)
(* to stop a job long after that was true, calls fail after the service    *)
(* acted on them and threads end without a report.                         *)
(*                                                                         *)
(* The properties are not inductive.  Orderly says why a stale stop is     *)
(* harmless: a stop is only ever sent to the worker that holds the job,    *)
(* and the job leaves CANCEL_REQUESTED or PREEMPTED only when that very    *)
(* worker's thread ends, so that a stop that comes too late finds no       *)
(* thread, and no start for a new one in the same response.  It needs no   *)
(* call to succeed.  Exclusive does: an agent executes a job even if the   *)
(* report of its start was lost.  Covered needs every report to arrive.    *)
(***************************************************************************)
Busy(w, j) == thread[w][j].pc \in {"executing", "reporting"}

Stopping(j) == jobs[j].state \in {"CANCEL_REQUESTED", "PREEMPTED"}

Live(j) == jobs[j].state = "RUNNING" \/ Stopping(j)

\* Nothing expires and nothing is recovered.
Undisturbed ==
    /\ alive = Worker
    /\ \A a \in Replica : /\ expired[a] = {} /\ marked[a] = {}
                          /\ \A w \in Worker : todo[a][w] = {}

AgentTypes ==
    /\ thread \in [Worker -> [Job -> Thread]]
    /\ heartbeat \in [Worker -> Heartbeat]

\* A set cancel event belongs to a stop that is still wanted, at its holder.
StopsMatchRows ==
    \A w \in Worker, j \in Job :
        /\ thread[w][j].stop => Stopping(j) /\ w \in jobs[j].assigned
        /\ thread[w][j].outcome = "stopped" => thread[w][j].stop

\* What a response that is still being acted on can do.
ResponsesMatchRows ==
    \A w \in Worker, j \in Job :
        /\ j \in heartbeat[w].assigned => ~thread[w][j].stop
        /\ j \in heartbeat[w].stop =>
              \/ Stopping(j) /\ w \in jobs[j].assigned
              \/ thread[w][j] = NoThread /\ j \notin heartbeat[w].assigned

ResponseForms ==
    \A w \in Worker :
        /\ heartbeat[w].pc = "assigned" => heartbeat[w].assigned = {}
        /\ heartbeat[w].pc # "idle" => heartbeat[w].stop = {}

Orderly ==
    /\ Undisturbed /\ AgentTypes /\ StopsMatchRows /\ ResponsesMatchRows
    /\ ResponseForms

\* One thread at most is busy with a job, and only if its row says so.
Exclusive ==
    \A j \in Job :
        /\ \A w \in Worker : Busy(w, j) => Live(j)
        /\ \A v, w \in Worker : Busy(v, j) /\ Busy(w, j) => v = w

\* A RUNNING row has a busy thread.
Covered == \A j \in Job : jobs[j].state = "RUNNING" => \E w \in Worker : Busy(w, j)

\* What every step does in which nothing fails.
Kept == Orderly' /\ (Exclusive => Exclusive') /\ (Covered => Covered')

\* The inductive invariant: what holds until the first worker dies, depending
\* on what can fail.
UntilDeath ==
    alive = Worker =>
        /\ Orderly
        /\ "call_fails" \notin Fault => Exclusive
        /\ "call_fails" \notin Fault /\ "bad_command" \notin Fault => Covered

\* What clients and the scheduler can do to the rows.
OutsideStep ==
    \A j \in Job :
        /\ jobs[j].state = "RUNNING" =>
              jobs'[j].state \in {"RUNNING", "CANCEL_REQUESTED", "PREEMPTED"}
        /\ Stopping(j) => jobs'[j] = jobs[j]
        /\ jobs'[j].state = "RUNNING" => jobs[j].state = "RUNNING"

\* No worker is lost in the step.
Elsewhere == UNCHANGED <<alive, todo, expired, marked>>

\* Repository.Update changes one row, or none if its callback returns an error.
LEMMA OtherRows ==
    ASSUME TypeOK, NEW j \in Job, NEW permitted, NEW row, Update(j, permitted, row)
    PROVE  /\ \A i \in Job \ {j} : jobs'[i] = jobs[i]
           /\ permitted => jobs'[j] = row
           /\ ~permitted => jobs'[j] = jobs[j]
  <1>1. CASE permitted
    <2>1. jobs' = [jobs EXCEPT ![j] = row]
      BY <1>1 DEF Update
    <2> QED BY <1>1, <2>1 DEF TypeOK
  <1>2. CASE ~permitted
    BY <1>2 DEF Update
  <1> QED BY <1>1, <1>2

\* Submitting, cancelling, placing and preempting are such steps.
LEMMA OutsideSteps ==
    ASSUME IInv, NEW j \in Job,
           \/ \E limit \in RetryLimits, p \in BOOLEAN :
                 SubmitJob(j, NoSubmission, limit, p)
           \/ CancelJob(j) \/ PreemptJob(j)
           \/ \E w \in Worker : AssignToWorkers(j, w)
    PROVE  OutsideStep
  <1> USE DEF IInv
  <1>0. jobs[j] \in JobRecord
    BY DEF TypeOK
  <1>1. ASSUME NEW limit \in RetryLimits, NEW p \in BOOLEAN,
               SubmitJob(j, NoSubmission, limit, p)
        PROVE  OutsideStep
    <2> DEFINE row == NewJob(NoSubmission, limit, p)
    <2>1. row.state = "QUEUED"
      BY DEF NewJob
    <2>2. jobs' = jobs \/ jobs' = [jobs EXCEPT ![j] = row]
      BY <1>1 DEF SubmitJob, Create
    <2>3. jobs[j].state = "NONE"
      BY <1>1 DEF SubmitJob, Create, Exists
    <2> HIDE DEF row
    <2> QED BY <2>1, <2>2, <2>3 DEF OutsideStep, Stopping, TypeOK
  <1>2. CASE CancelJob(j)
    <2>1. Update(j, CancelPermits(jobs[j]), Cancel(jobs[j]))
      BY <1>2 DEF CancelJob
    <2>2. jobs[j].state = "RUNNING" => Cancel(jobs[j]).state = "CANCEL_REQUESTED"
      BY <1>0 DEF Cancel, JobRecord
    <2>3. Stopping(j) => Cancel(jobs[j]) = jobs[j]
      BY <1>0 DEF Cancel, Stopping
    <2>4. Cancel(jobs[j]).state = "RUNNING" => jobs[j].state = "RUNNING"
      BY <1>0 DEF Cancel, JobRecord
    <2> QED BY <2>1, <2>2, <2>3, <2>4, OtherRows DEF OutsideStep, Stopping
  <1>3. CASE PreemptJob(j)
    <2>1. Update(j, PreemptPermits(jobs[j]), Preempt(jobs[j]))
      BY <1>3 DEF PreemptJob
    <2>2. Preempt(jobs[j]).state = "PREEMPTED"
      BY <1>0 DEF Preempt, JobRecord
    <2>3. PreemptPermits(jobs[j]) => jobs[j].state = "RUNNING"
      BY DEF PreemptPermits
    <2>4. /\ \A i \in Job \ {j} : jobs'[i] = jobs[i]
          /\ \/ jobs'[j] = jobs[j]
             \/ jobs[j].state = "RUNNING" /\ jobs'[j].state = "PREEMPTED"
      <3>1. CASE PreemptPermits(jobs[j])
        BY <2>1, <2>2, <2>3, <3>1, OtherRows, ZenonT(40)
      <3>2. CASE ~PreemptPermits(jobs[j])
        BY <2>1, <3>2, OtherRows, ZenonT(40)
      <3> QED BY <3>1, <3>2, Zenon
    <2> QED BY <2>4 DEF OutsideStep, Stopping
  <1>4. ASSUME NEW w \in Worker, AssignToWorkers(j, w)
        PROVE  OutsideStep
    <2>1. Update(j, AssignPermits(jobs[j]), Assign(jobs[j], {w}))
      BY <1>4 DEF AssignToWorkers
    <2>2. Assign(jobs[j], {w}).state = "SCHEDULED"
      BY <1>0 DEF Assign, JobRecord
    <2>3. AssignPermits(jobs[j]) => jobs[j].state = "QUEUED"
      BY DEF AssignPermits
    <2> QED BY <2>1, <2>2, <2>3, OtherRows DEF OutsideStep, Stopping
  <1> QED BY <1>1, <1>2, <1>3, <1>4

\* Such a step disturbs no thread and no response.
LEMMA OutsideKeeps ==
    ASSUME Orderly, OutsideStep, Elsewhere, UNCHANGED <<thread, heartbeat>>
    PROVE  Kept
  <1> USE DEF Orderly, OutsideStep, Elsewhere
  <1>1. Undisturbed' /\ AgentTypes' /\ ResponseForms'
    BY DEF Undisturbed, AgentTypes, ResponseForms
  <1>2. \A j \in Job : (Live(j) => Live(j)') /\ (Stopping(j) => Stopping(j)')
    BY DEF Live, Stopping
  <1>3. (Exclusive => Exclusive') /\ (Covered => Covered')
    BY <1>2 DEF Exclusive, Covered, Busy
  <1>4. StopsMatchRows'
    BY <1>2 DEF StopsMatchRows
  <1>5. ResponsesMatchRows'
    BY <1>2 DEF ResponsesMatchRows
  <1> QED BY <1>1, <1>3, <1>4, <1>5, Zenon DEF Kept

-----------------------------------------------------------------------------
\* A step of the heartbeat loop that changes w's response to h.
LEMMA ResponseKeeps ==
    ASSUME Orderly, NEW w \in Worker, NEW h \in Heartbeat,
           heartbeat' = [heartbeat EXCEPT ![w] = h],
           UNCHANGED <<jobs, thread>>, Elsewhere,
           h.pc = "assigned" => h.assigned = {},
           h.pc # "idle" => h.stop = {},
           \A j \in Job :
              /\ j \in h.assigned => ~thread[w][j].stop
              /\ j \in h.stop =>
                    \/ Stopping(j) /\ w \in jobs[j].assigned
                    \/ thread[w][j] = NoThread /\ j \notin h.assigned
    PROVE  Kept
  <1> USE DEF Orderly, Elsewhere
  <1>1. heartbeat' \in [Worker -> Heartbeat]
    BY DEF AgentTypes
  <1>2. heartbeat'[w] = h /\ \A v \in Worker \ {w} : heartbeat'[v] = heartbeat[v]
    BY DEF AgentTypes
  <1>3. Undisturbed' /\ AgentTypes'
    BY <1>1, Zenon DEF Undisturbed, AgentTypes
  <1>4. StopsMatchRows' /\ (Exclusive => Exclusive') /\ (Covered => Covered')
    BY Zenon DEF StopsMatchRows, Exclusive, Covered, Busy, Live, Stopping
  <1>5. ResponseForms'
    BY <1>2 DEF ResponseForms
  <1>6. ResponsesMatchRows'
    BY <1>2 DEF ResponsesMatchRows, Stopping
  <1> QED BY <1>3, <1>4, <1>5, <1>6, Zenon DEF Kept

\* The three steps of WorkerHeartbeat keep the invariant: what they list is
\* true when they list it.  A response cut short holds less.
LEMMA HeartbeatKeeps ==
    ASSUME Orderly, NEW w \in Worker,
           \/ HeartbeatUpdatesRow(w) \/ ListAssignedToWorker(w)
           \/ ListStoppableForWorker(w) \/ HeartbeatFails(w)
    PROVE  Kept
  <1>0. Elsewhere /\ UNCHANGED <<jobs, thread>>
    BY Zenon DEF HeartbeatUpdatesRow, ListAssignedToWorker, ListStoppableForWorker,
           HeartbeatFails, Elsewhere, watcher
  <1>1. heartbeat \in [Worker -> Heartbeat] /\ heartbeat[w] \in Heartbeat
    BY DEF Orderly, AgentTypes
  <1>2. CASE HeartbeatUpdatesRow(w)
    <2> DEFINE h == [heartbeat[w] EXCEPT !.pc = "assigned"]
    <2>1. heartbeat[w] = Quiet
      BY <1>2 DEF HeartbeatUpdatesRow
    <2>2. h \in Heartbeat /\ h.assigned = {} /\ h.stop = {}
      BY <1>1, <2>1 DEF Heartbeat, Quiet
    <2>3. heartbeat' = [heartbeat EXCEPT ![w] = h]
      BY <1>2 DEF HeartbeatUpdatesRow
    <2> HIDE DEF h
    <2> QED BY <1>0, <2>2, <2>3, ResponseKeeps, Zenon
  <1>3. CASE ListAssignedToWorker(w)
    <2> DEFINE S == {j \in Job : jobs[j].state = "SCHEDULED" /\ w \in jobs[j].assigned}
               h == [heartbeat[w] EXCEPT !.pc = "stoppable", !.assigned = S]
    <2>1. heartbeat' = [heartbeat EXCEPT ![w] = h]
      BY <1>3, Zenon DEF ListAssignedToWorker
    <2>2. heartbeat[w].stop = {}
      BY <1>3 DEF ListAssignedToWorker, Orderly, ResponseForms
    <2>3. \A j \in S : ~thread[w][j].stop
      BY DEF Orderly, StopsMatchRows, Stopping
    <2>4. S \in SUBSET Job
      OBVIOUS
    <2> HIDE DEF S
    <2>5. h \in Heartbeat /\ h.pc = "stoppable" /\ h.assigned = S /\ h.stop = {}
      BY <1>1, <2>2, <2>4, Zenon DEF Heartbeat
    <2> HIDE DEF h
    <2> QED BY <1>0, <2>1, <2>3, <2>5, ResponseKeeps, Zenon
  <1>4. CASE ListStoppableForWorker(w)
    <2> DEFINE S == {j \in Job : /\ jobs[j].state \in {"CANCEL_REQUESTED", "PREEMPTED"}
                                 /\ w \in jobs[j].assigned}
               h == [heartbeat[w] EXCEPT !.pc = "idle", !.stop = S]
    <2>1. heartbeat' = [heartbeat EXCEPT ![w] = h]
      BY <1>4, Zenon DEF ListStoppableForWorker
    <2>2. \A j \in S : Stopping(j) /\ w \in jobs[j].assigned
      BY DEF Stopping
    <2>3. \A j \in Job : j \in heartbeat[w].assigned => ~thread[w][j].stop
      BY DEF Orderly, ResponsesMatchRows
    <2>4. S \in SUBSET Job
      OBVIOUS
    <2> HIDE DEF S
    <2>5. h \in Heartbeat /\ h.pc = "idle" /\ h.assigned = heartbeat[w].assigned
          /\ h.stop = S
      BY <1>1, <2>4, Zenon DEF Heartbeat
    <2> HIDE DEF h
    <2> QED BY <1>0, <2>1, <2>2, <2>3, <2>5, ResponseKeeps, Zenon
  <1>5. CASE HeartbeatFails(w)
    <2>1. CASE heartbeat' = [heartbeat EXCEPT ![w] = Quiet]
      <3>1. Quiet \in Heartbeat /\ Quiet.assigned = {} /\ Quiet.stop = {}
        BY Zenon DEF Quiet, Heartbeat
      <3> QED BY <1>0, <2>1, <3>1, ResponseKeeps, Zenon
    <2>2. CASE heartbeat' = [heartbeat EXCEPT ![w].pc = "idle"]
      <3> DEFINE h == [heartbeat[w] EXCEPT !.pc = "idle"]
      <3>1. heartbeat' = [heartbeat EXCEPT ![w] = h]
        BY <2>2, Zenon
      <3>2. h \in Heartbeat /\ h.pc = "idle" /\ h.assigned = heartbeat[w].assigned
            /\ h.stop = heartbeat[w].stop
        BY <1>1, Zenon DEF Heartbeat
      <3>3. heartbeat[w].stop = {}
        BY <1>5, Zenon DEF HeartbeatFails, Orderly, ResponseForms
      <3>4. \A j \in Job : j \in heartbeat[w].assigned => ~thread[w][j].stop
        BY Zenon DEF Orderly, ResponsesMatchRows
      <3> HIDE DEF h
      <3> QED BY <1>0, <3>1, <3>2, <3>3, <3>4, ResponseKeeps, Zenon
    <2> QED BY <1>5, <2>1, <2>2, Zenon DEF HeartbeatFails
  <1> QED BY <1>2, <1>3, <1>4, <1>5, Zenon

-----------------------------------------------------------------------------
\* One entry of one worker's running_jobs changes.
LEMMA OtherThreads ==
    ASSUME thread \in [Worker -> [Job -> Thread]], NEW w \in Worker, NEW j \in Job,
           NEW t \in Thread, thread' = [thread EXCEPT ![w][j] = t]
    PROVE  /\ thread' \in [Worker -> [Job -> Thread]]
           /\ thread'[w][j] = t
           /\ \A v \in Worker, i \in Job :
                 v # w \/ i # j => thread'[v][i] = thread[v][i]
  OBVIOUS

\* The loop creates an entry for an assigned job that has none.
LEMMA StartJobKeeps ==
    ASSUME Orderly, NEW w \in Worker, NEW j \in Job, StartJob(w, j)
    PROVE  Kept
  <1> USE DEF Orderly
  <1> DEFINE h == [heartbeat[w] EXCEPT !.assigned = @ \ {j}]
             t == IF thread[w][j] = NoThread
                  THEN [thread[w][j] EXCEPT !.pc = "starting"] ELSE thread[w][j]
  <1>1. /\ thread \in [Worker -> [Job -> Thread]] /\ thread[w][j] \in Thread
        /\ heartbeat \in [Worker -> Heartbeat] /\ heartbeat[w] \in Heartbeat
    BY DEF AgentTypes
  <1>2. /\ heartbeat' = [heartbeat EXCEPT ![w] = h]
        /\ heartbeat[w].pc = "idle" /\ j \in heartbeat[w].assigned
        /\ UNCHANGED <<jobs, alive, todo, expired, marked>>
    BY DEF StartJob, watcher
  <1>3. h \in Heartbeat /\ h.pc = "idle" /\ h.assigned = heartbeat[w].assigned \ {j}
        /\ h.stop = heartbeat[w].stop
    BY <1>1, <1>2, SMTT(30) DEF Heartbeat
  <1>4. t \in Thread /\ t.stop = thread[w][j].stop /\ t.outcome = thread[w][j].outcome
        /\ (t.pc \in {"executing", "reporting"} <=> Busy(w, j))
    BY <1>1 DEF Thread, NoThread, Busy
  <1>5. thread' = [thread EXCEPT ![w][j] = t]
    <2>1. CASE thread[w][j] = NoThread
      BY <2>1 DEF StartJob
    <2>2. CASE thread[w][j] # NoThread
      <3>1. thread' = thread /\ t = thread[w][j]
        BY <2>2 DEF StartJob
      <3> QED BY <1>1, <3>1
    <2> QED BY <2>1, <2>2
  <1> HIDE DEF h, t
  <1>6. /\ thread' \in [Worker -> [Job -> Thread]] /\ thread'[w][j] = t
        /\ \A v \in Worker, i \in Job : v # w \/ i # j => thread'[v][i] = thread[v][i]
    BY <1>1, <1>4, <1>5, OtherThreads
  <1>7. heartbeat' \in [Worker -> Heartbeat] /\ heartbeat'[w] = h
        /\ \A v \in Worker \ {w} : heartbeat'[v] = heartbeat[v]
    BY <1>1, <1>2, <1>3, Zenon
  <1>8. Undisturbed' /\ AgentTypes' /\ ResponseForms'
    BY <1>2, <1>3, <1>6, <1>7, ZenonT(40) DEF Undisturbed, AgentTypes, ResponseForms
  <1>9. \A v \in Worker, i \in Job : Busy(v, i)' <=> Busy(v, i)
    BY <1>4, <1>6, Zenon DEF Busy
  <1>10. (Exclusive => Exclusive') /\ (Covered => Covered')
    BY <1>2, <1>9, Zenon DEF Exclusive, Covered, Live, Stopping
  <1>11. StopsMatchRows'
    <2>1. \A i \in Job : Stopping(i)' <=> Stopping(i)
      BY <1>2, Zenon DEF Stopping
    <2>2. \A v \in Worker, i \in Job : /\ thread'[v][i].stop = thread[v][i].stop
                                       /\ thread'[v][i].outcome = thread[v][i].outcome
      BY <1>4, <1>6, Zenon
    <2> QED BY <1>2, <2>1, <2>2, ZenonT(40) DEF StopsMatchRows
  <1>12. ResponsesMatchRows'
    <2> SUFFICES ASSUME NEW v \in Worker, NEW i \in Job
                 PROVE  /\ i \in heartbeat'[v].assigned => ~thread'[v][i].stop
                        /\ i \in heartbeat'[v].stop =>
                              \/ Stopping(i)' /\ v \in jobs'[i].assigned
                              \/ thread'[v][i] = NoThread /\ i \notin heartbeat'[v].assigned
      BY Zenon DEF ResponsesMatchRows
    <2>1. CASE v = w /\ i = j
      BY <1>2, <1>3, <1>4, <1>6, <1>7, <2>1 DEF ResponsesMatchRows, Stopping
    <2>2. CASE v = w /\ i # j
      BY <1>2, <1>3, <1>6, <1>7, <2>2 DEF ResponsesMatchRows, Stopping
    <2>3. CASE v # w
      <3>1. /\ jobs'[i] = jobs[i] /\ thread'[v][i] = thread[v][i]
            /\ heartbeat'[v] = heartbeat[v]
        BY <1>2, <1>6, <1>7, <2>3, Zenon
      <3>2. /\ i \in heartbeat[v].assigned => ~thread[v][i].stop
            /\ i \in heartbeat[v].stop =>
                  \/ Stopping(i) /\ v \in jobs[i].assigned
                  \/ thread[v][i] = NoThread /\ i \notin heartbeat[v].assigned
        BY ZenonT(40) DEF ResponsesMatchRows
      <3> QED BY <3>1, <3>2, Zenon DEF Stopping
    <2> QED BY <2>1, <2>2, <2>3, Zenon
  <1> QED BY <1>8, <1>10, <1>11, <1>12, Zenon DEF Kept

\* The loop sets the cancel event of a job to stop.  If the stop is no longer
\* wanted, there is no event to set.
LEMMA SignalStopKeeps ==
    ASSUME Orderly, NEW w \in Worker, NEW j \in Job, SignalStop(w, j)
    PROVE  Kept
  <1> USE DEF Orderly
  <1> DEFINE h == [heartbeat[w] EXCEPT !.stop = @ \ {j}]
             t == IF thread[w][j] # NoThread
                  THEN [thread[w][j] EXCEPT !.stop = TRUE] ELSE thread[w][j]
  <1>1. /\ thread \in [Worker -> [Job -> Thread]] /\ thread[w][j] \in Thread
        /\ heartbeat \in [Worker -> Heartbeat] /\ heartbeat[w] \in Heartbeat
    BY DEF AgentTypes
  <1>2. /\ heartbeat' = [heartbeat EXCEPT ![w] = h]
        /\ heartbeat[w].pc = "idle" /\ heartbeat[w].assigned = {}
        /\ j \in heartbeat[w].stop
        /\ UNCHANGED <<jobs, alive, todo, expired, marked>>
    BY DEF SignalStop, watcher
  <1>3. h \in Heartbeat /\ h.pc = "idle" /\ h.assigned = {}
        /\ h.stop = heartbeat[w].stop \ {j}
    BY <1>1, <1>2, Zenon DEF Heartbeat
  <1>4. /\ t \in Thread /\ t.outcome = thread[w][j].outcome /\ t.pc = thread[w][j].pc
        /\ thread[w][j] = NoThread => t = NoThread
        /\ thread[w][j] # NoThread => t.stop
    BY <1>1, Zenon DEF Thread
  <1>5. thread' = [thread EXCEPT ![w][j] = t]
    <2>1. CASE thread[w][j] # NoThread
      BY <2>1 DEF SignalStop
    <2>2. CASE thread[w][j] = NoThread
      <3>1. thread' = thread /\ t = thread[w][j]
        BY <2>2 DEF SignalStop
      <3> QED BY <1>1, <3>1
    <2> QED BY <2>1, <2>2
  <1> HIDE DEF h, t
  <1>6. /\ thread' \in [Worker -> [Job -> Thread]] /\ thread'[w][j] = t
        /\ \A v \in Worker, i \in Job : v # w \/ i # j => thread'[v][i] = thread[v][i]
    BY <1>1, <1>4, <1>5, OtherThreads
  <1>7. heartbeat' \in [Worker -> Heartbeat] /\ heartbeat'[w] = h
        /\ \A v \in Worker \ {w} : heartbeat'[v] = heartbeat[v]
    BY <1>1, <1>2, <1>3, Zenon
  <1>8. Undisturbed' /\ AgentTypes' /\ ResponseForms'
    BY <1>2, <1>3, <1>6, <1>7, ZenonT(40) DEF Undisturbed, AgentTypes, ResponseForms
  <1>9. \A v \in Worker, i \in Job : Busy(v, i)' <=> Busy(v, i)
    BY <1>4, <1>6 DEF Busy
  <1>10. (Exclusive => Exclusive') /\ (Covered => Covered')
    BY <1>2, <1>9, Zenon DEF Exclusive, Covered, Live, Stopping
  <1>11. t.stop => Stopping(j) /\ w \in jobs[j].assigned
    BY <1>2, <1>4 DEF ResponsesMatchRows, NoThread
  <1>12. t.outcome = "stopped" => t.stop
    BY <1>4, Zenon DEF StopsMatchRows, NoThread
  <1>13. StopsMatchRows'
    <2>1. \A i \in Job : Stopping(i)' <=> Stopping(i)
      BY <1>2, Zenon DEF Stopping
    <2> SUFFICES ASSUME NEW v \in Worker, NEW i \in Job
                 PROVE  /\ thread'[v][i].stop => Stopping(i)' /\ v \in jobs'[i].assigned
                        /\ thread'[v][i].outcome = "stopped" => thread'[v][i].stop
      BY Zenon DEF StopsMatchRows
    <2>2. CASE v = w /\ i = j
      BY <1>2, <1>6, <1>11, <1>12, <2>1, <2>2, Zenon
    <2>3. CASE v # w \/ i # j
      BY <1>2, <1>6, <2>1, <2>3, Zenon DEF StopsMatchRows
    <2> QED BY <2>2, <2>3, Zenon
  <1>14. ResponsesMatchRows'
    <2> SUFFICES ASSUME NEW v \in Worker, NEW i \in Job
                 PROVE  /\ i \in heartbeat'[v].assigned => ~thread'[v][i].stop
                        /\ i \in heartbeat'[v].stop =>
                              \/ Stopping(i)' /\ v \in jobs'[i].assigned
                              \/ thread'[v][i] = NoThread /\ i \notin heartbeat'[v].assigned
      BY Zenon DEF ResponsesMatchRows
    <2>1. CASE v = w /\ i = j
      BY <1>2, <1>3, <1>4, <1>6, <1>7, <2>1 DEF ResponsesMatchRows, Stopping
    <2>2. CASE v = w /\ i # j
      BY <1>2, <1>3, <1>6, <1>7, <2>2 DEF ResponsesMatchRows, Stopping
    <2>3. CASE v # w
      <3>1. /\ jobs'[i] = jobs[i] /\ thread'[v][i] = thread[v][i]
            /\ heartbeat'[v] = heartbeat[v]
        BY <1>2, <1>6, <1>7, <2>3, Zenon
      <3>2. /\ i \in heartbeat[v].assigned => ~thread[v][i].stop
            /\ i \in heartbeat[v].stop =>
                  \/ Stopping(i) /\ v \in jobs[i].assigned
                  \/ thread[v][i] = NoThread /\ i \notin heartbeat[v].assigned
        BY Zenon DEF ResponsesMatchRows
      <3> QED BY <3>1, <3>2, Zenon DEF Stopping
    <2> QED BY <2>1, <2>2, <2>3, Zenon
  <1> QED BY <1>8, <1>10, <1>13, <1>14, Zenon DEF Kept

-----------------------------------------------------------------------------
\* A thread moves on or ends, and its row stays: it sets no cancel event and
\* stops early only if its own is set.
LEMMA ThreadMoves ==
    ASSUME Orderly, NEW w \in Worker, NEW j \in Job, NEW t \in Thread,
           thread' = [thread EXCEPT ![w][j] = t],
           UNCHANGED <<jobs, heartbeat>>, Elsewhere,
           thread[w][j].pc # "none",
           t.stop => thread[w][j].stop, t.outcome = "stopped" => t.stop
    PROVE  /\ Orderly'
           /\ (t.pc \in {"executing", "reporting"} => Busy(w, j))
                 => (Exclusive => Exclusive')
           /\ (Busy(w, j) => t.pc \in {"executing", "reporting"})
                 => (Covered => Covered')
  <1> USE DEF Orderly
  <1>1. /\ thread' \in [Worker -> [Job -> Thread]] /\ thread'[w][j] = t
        /\ \A v \in Worker, i \in Job : v # w \/ i # j => thread'[v][i] = thread[v][i]
    BY OtherThreads DEF AgentTypes
  <1>2. Undisturbed' /\ AgentTypes' /\ ResponseForms'
    BY <1>1, Zenon DEF Undisturbed, AgentTypes, ResponseForms, Elsewhere
  <1>3. \A i \in Job : (Stopping(i)' <=> Stopping(i)) /\ (Live(i)' <=> Live(i))
    BY Zenon DEF Stopping, Live
  <1>4. \A v \in Worker, i \in Job : v # w \/ i # j => (Busy(v, i)' <=> Busy(v, i))
    BY <1>1, Zenon DEF Busy
  <1>5. Busy(w, j)' <=> t.pc \in {"executing", "reporting"}
    BY <1>1, Zenon DEF Busy
  <1>6. ASSUME t.pc \in {"executing", "reporting"} => Busy(w, j), Exclusive
        PROVE  Exclusive'
    <2>1. \A v \in Worker, i \in Job : Busy(v, i)' => Busy(v, i)
      BY <1>4, <1>5, <1>6, Zenon
    <2> QED BY <1>3, <1>6, <2>1, Zenon DEF Exclusive
  <1>7. ASSUME Busy(w, j) => t.pc \in {"executing", "reporting"}, Covered
        PROVE  Covered'
    <2>1. \A v \in Worker, i \in Job : Busy(v, i) => Busy(v, i)'
      BY <1>4, <1>5, <1>7, Zenon
    <2> QED BY <1>7, <2>1, Zenon DEF Covered
  <1>8. StopsMatchRows'
    <2> SUFFICES ASSUME NEW v \in Worker, NEW i \in Job
                 PROVE  /\ thread'[v][i].stop => Stopping(i)' /\ v \in jobs'[i].assigned
                        /\ thread'[v][i].outcome = "stopped" => thread'[v][i].stop
      BY Zenon DEF StopsMatchRows
    <2>1. CASE v = w /\ i = j
      BY <1>1, <1>3, <2>1, Zenon DEF StopsMatchRows
    <2>2. CASE v # w \/ i # j
      BY <1>1, <1>3, <2>2, Zenon DEF StopsMatchRows
    <2> QED BY <2>1, <2>2, Zenon
  <1>9. ResponsesMatchRows'
    <2> SUFFICES ASSUME NEW v \in Worker, NEW i \in Job
                 PROVE  /\ i \in heartbeat'[v].assigned => ~thread'[v][i].stop
                        /\ i \in heartbeat'[v].stop =>
                              \/ Stopping(i)' /\ v \in jobs'[i].assigned
                              \/ thread'[v][i] = NoThread /\ i \notin heartbeat'[v].assigned
      BY Zenon DEF ResponsesMatchRows
    <2>1. /\ i \in heartbeat[v].assigned => ~thread[v][i].stop
          /\ i \in heartbeat[v].stop =>
                \/ Stopping(i) /\ v \in jobs[i].assigned
                \/ thread[v][i] = NoThread /\ i \notin heartbeat[v].assigned
      BY Zenon DEF ResponsesMatchRows
    <2>2. CASE v = w /\ i = j
      <3>1. thread[v][i] # NoThread
        BY <2>2 DEF NoThread
      <3> QED BY <1>1, <1>3, <2>1, <2>2, <3>1, Zenon
    <2>3. CASE v # w \/ i # j
      BY <1>1, <1>3, <2>1, <2>3, Zenon
    <2> QED BY <2>2, <2>3, Zenon
  <1> QED BY <1>2, <1>6, <1>7, <1>8, <1>9, Zenon

\* A thread reports its start.  The service accepts it only from SCHEDULED,
\* where no other thread is busy with the job and no stop is out for it.
LEMMA ReportStartedKeeps ==
    ASSUME IInv, Orderly, NEW w \in Worker, NEW j \in Job, ReportStarted(w, j)
    PROVE  Kept
  <1> USE DEF Orderly
  <1> DEFINE t == IF StartPermits(jobs[j])
                  THEN [thread[w][j] EXCEPT !.pc = "executing"] ELSE NoThread
  <1>1. /\ thread \in [Worker -> [Job -> Thread]] /\ thread[w][j] \in Thread
        /\ jobs[j] \in JobRecord /\ TypeOK
    BY DEF AgentTypes, IInv, TypeOK
  <1>2. /\ thread[w][j].pc = "starting" /\ Elsewhere /\ UNCHANGED heartbeat
        /\ Update(j, StartPermits(jobs[j]), Start(jobs[j]))
        /\ thread' = [thread EXCEPT ![w][j] = t]
    BY DEF ReportStarted, ThreadStep, ReportJobStarted, Elsewhere, watcher
  <1>3. NoThread \in Thread
    BY DEF NoThread, Thread, Outcome
  <1>4. CASE StartPermits(jobs[j])
    <2>1. t \in Thread /\ t.pc = "executing" /\ t.stop = thread[w][j].stop
          /\ t.outcome = thread[w][j].outcome
      BY <1>1, <1>4, Zenon DEF Thread
    <2>2. jobs[j].state = "SCHEDULED"
      BY <1>4 DEF StartPermits
    <2>3. jobs'[j].state = "RUNNING" /\ \A i \in Job \ {j} : jobs'[i] = jobs[i]
      <3>1. Start(jobs[j]).state = "RUNNING"
        BY <1>1 DEF Start, JobRecord
      <3> QED BY <1>1, <1>2, <1>4, <3>1, OtherRows, Zenon
    <2> HIDE DEF t
    <2>4. /\ thread' \in [Worker -> [Job -> Thread]] /\ thread'[w][j] = t
          /\ \A v \in Worker, i \in Job : v # w \/ i # j => thread'[v][i] = thread[v][i]
      BY <1>1, <1>2, <2>1, OtherThreads
    <2>5. Undisturbed' /\ AgentTypes' /\ ResponseForms'
      BY <1>2, <2>4, Zenon DEF Undisturbed, AgentTypes, ResponseForms, Elsewhere
    <2>6. \A v \in Worker : ~thread[v][j].stop
      BY <2>2 DEF StopsMatchRows, Stopping
    <2>7. (Exclusive => Exclusive') /\ (Covered => Covered')
      <3>1. Busy(w, j)' /\ \A v \in Worker \ {w} : Busy(v, j)' <=> Busy(v, j)
        BY <2>1, <2>4 DEF Busy
      <3>2. Live(j)' /\ ~Live(j)
        BY <2>2, <2>3 DEF Live, Stopping
      <3>3. \A i \in Job \ {j} : /\ Live(i)' <=> Live(i)
                                 /\ \A v \in Worker : Busy(v, i)' <=> Busy(v, i)
        BY <2>3, <2>4, Zenon DEF Live, Stopping, Busy
      <3>4. Exclusive => Exclusive'
        BY <3>1, <3>2, <3>3 DEF Exclusive
      <3>5. Covered => Covered'
        BY <2>3, <3>1, <3>3, Zenon DEF Covered
      <3> QED BY <3>4, <3>5
    <2>8. StopsMatchRows'
      BY <2>1, <2>3, <2>4, <2>6 DEF StopsMatchRows, Stopping
    <2>9. ResponsesMatchRows'
      <3>1. \A v \in Worker : j \in heartbeat[v].stop =>
               thread[v][j] = NoThread /\ j \notin heartbeat[v].assigned
        BY <2>2 DEF ResponsesMatchRows, Stopping
      <3>2. j \notin heartbeat[w].stop
        BY <1>2, <3>1 DEF NoThread
      <3>3. ASSUME NEW v \in Worker
            PROVE  /\ j \in heartbeat'[v].assigned => ~thread'[v][j].stop
                   /\ j \in heartbeat'[v].stop =>
                         thread'[v][j] = NoThread /\ j \notin heartbeat'[v].assigned
        BY <1>2, <2>1, <2>4, <2>6, <3>1, <3>2, Zenon
      <3>4. ASSUME NEW v \in Worker, NEW i \in Job \ {j}
            PROVE  /\ jobs'[i] = jobs[i] /\ thread'[v][i] = thread[v][i]
                   /\ heartbeat'[v] = heartbeat[v]
        BY <1>2, <2>3, <2>4, Zenon
      <3> QED BY <3>3, <3>4 DEF ResponsesMatchRows, Stopping
    <2> QED BY <2>5, <2>7, <2>8, <2>9, Zenon DEF Kept
  <1>5. CASE ~StartPermits(jobs[j])
    <2>1. t = NoThread
      BY <1>5
    <2>2. UNCHANGED jobs
      BY <1>2, <1>5 DEF Update
    <2> HIDE DEF t
    <2>3. ~NoThread.stop /\ NoThread.outcome # "stopped" /\ NoThread.pc = "none"
      BY DEF NoThread
    <2>4. ~Busy(w, j)
      BY <1>2, Zenon DEF Busy
    <2> QED BY <1>2, <1>3, <2>1, <2>2, <2>3, <2>4, ThreadMoves, Zenon DEF Kept
  <1> QED BY <1>4, <1>5

\* The executor returns.  It says stopped only if the cancel event is set.
LEMMA ExecuteKeeps ==
    ASSUME Orderly, NEW w \in Worker, NEW j \in Job, NEW outcome \in Outcome,
           Execute(w, j, outcome)
    PROVE  Kept
  <1> DEFINE t == [thread[w][j] EXCEPT !.pc = "reporting", !.outcome = outcome]
  <1>1. thread \in [Worker -> [Job -> Thread]] /\ thread[w][j] \in Thread
    BY DEF Orderly, AgentTypes
  <1>2. /\ thread[w][j].pc = "executing" /\ Elsewhere /\ UNCHANGED <<heartbeat, jobs>>
        /\ outcome = "stopped" => thread[w][j].stop
        /\ thread' = [thread EXCEPT ![w][j] = t]
    BY Zenon DEF Execute, ThreadStep, Elsewhere, watcher
  <1>3. t \in Thread /\ t.pc = "reporting" /\ t.stop = thread[w][j].stop
        /\ t.outcome = outcome
    BY <1>1, Zenon DEF Thread
  <1> HIDE DEF t
  <1> QED BY <1>2, <1>3, ThreadMoves, ZenonT(40) DEF Kept, Busy

\* What the report of a busy thread does to the row: nothing, to a row that is
\* not RUNNING, or it ends the row's run.  A row being stopped is ended only by
\* the worker that holds it.
LEMMA OutcomeRow ==
    ASSUME IInv, Orderly, NEW w \in Worker, NEW j \in Job, ReportOutcome(w, j)
    PROVE  \/ jobs' = jobs /\ jobs[j].state # "RUNNING"
           \/ /\ \A i \in Job \ {j} : jobs'[i] = jobs[i]
              /\ jobs'[j].state \notin {"RUNNING", "CANCEL_REQUESTED", "PREEMPTED"}
              /\ \/ jobs[j].state = "RUNNING"
                 \/ Stopping(j) /\ w \in jobs[j].assigned /\ thread[w][j].stop
  <1>1. jobs[j] \in JobRecord /\ TypeOK
    BY Zenon DEF IInv, TypeOK
  <1>2. CASE thread[w][j].outcome = "completed"
    <2>1. Update(j, CompletePermits(jobs[j]), Complete(jobs[j]))
      BY <1>2 DEF ReportOutcome, SendOutcome, ReportJobCompleted
    <2>2. Complete(jobs[j]).state = "SUCCEEDED"
      BY <1>1 DEF Complete, JobRecord
    <2>3. CompletePermits(jobs[j]) <=> jobs[j].state = "RUNNING"
      BY DEF CompletePermits
    <2>4. ~CompletePermits(jobs[j]) => jobs' = jobs
      BY <2>1, Zenon DEF Update
    <2> QED BY <1>1, <2>1, <2>2, <2>3, <2>4, OtherRows, Zenon
  <1>3. CASE thread[w][j].outcome = "failed"
    <2>1. Update(j, FailPermits(jobs[j]), Fail(jobs[j]))
      BY <1>3 DEF ReportOutcome, SendOutcome, ReportJobFailed
    <2>2. Fail(jobs[j]).state \in {"QUEUED", "FAILED"}
      BY <1>1 DEF Fail, ApplyFailureOrRetry, JobRecord
    <2>3. FailPermits(jobs[j]) <=> jobs[j].state = "RUNNING"
      BY DEF FailPermits
    <2>4. ~FailPermits(jobs[j]) => jobs' = jobs
      BY <2>1 DEF Update
    <2> QED BY <1>1, <2>1, <2>2, <2>3, <2>4, OtherRows, Zenon
  <1>4. CASE thread[w][j].outcome = "stopped"
    <2>1. Update(j, TRUE, ReportStopped(jobs[j]))
      BY <1>4, Zenon DEF ReportOutcome, SendOutcome, ReportJobStopped
    <2>2. thread[w][j].stop /\ Stopping(j) /\ w \in jobs[j].assigned
      BY <1>4 DEF Orderly, StopsMatchRows
    <2>3. ReportStopped(jobs[j]).state \in {"CANCELLED", "QUEUED"}
      BY <1>1, <2>2 DEF ReportStopped, JobRecord, Stopping
    <2> QED BY <1>1, <2>1, <2>2, <2>3, OtherRows, Zenon
  <1> QED BY <1>2, <1>3, <1>4, Zenon DEF ReportOutcome, SendOutcome

\* A thread reports its outcome and drops its entry, accepted or not.
LEMMA ReportOutcomeKeeps ==
    ASSUME IInv, Orderly, NEW w \in Worker, NEW j \in Job, ReportOutcome(w, j)
    PROVE  Kept
  <1> USE DEF Orderly
  <1>1. thread \in [Worker -> [Job -> Thread]]
    BY DEF AgentTypes
  <1>2. /\ Busy(w, j) /\ UNCHANGED <<heartbeat, alive, expired, marked>>
        /\ thread' = [thread EXCEPT ![w][j] = NoThread]
    BY DEF ReportOutcome, ThreadStep, Busy, watcher
  <1>3. UNCHANGED todo
    BY Zenon DEF ReportOutcome, SendOutcome, ReportJobCompleted, ReportJobFailed,
           ReportJobStopped
  <1>4. NoThread \in Thread /\ ~NoThread.stop
        /\ NoThread.pc = "none" /\ NoThread.outcome = "none"
    BY DEF NoThread, Thread, Outcome
  <1>5. /\ thread' \in [Worker -> [Job -> Thread]] /\ thread'[w][j] = NoThread
        /\ \A v \in Worker, i \in Job : v # w \/ i # j => thread'[v][i] = thread[v][i]
    BY <1>1, <1>2, <1>4, OtherThreads, ZenonT(40)
  <1>6. Undisturbed' /\ AgentTypes' /\ ResponseForms'
    BY <1>2, <1>3, <1>5, Zenon DEF Undisturbed, AgentTypes, ResponseForms
  <1>7. Exclusive => \A v \in Worker : ~Busy(v, j)'
    BY <1>2, <1>4, <1>5, Zenon DEF Busy, Exclusive
  <1>8. \A v \in Worker, i \in Job \ {j} : Busy(v, i)' <=> Busy(v, i)
    BY <1>5, Zenon DEF Busy
  <1>9. \A i \in Job \ {j} : jobs'[i] = jobs[i]
    BY OutcomeRow
  <1>10. jobs'[j].state # "RUNNING"
    BY OutcomeRow
  <1>11. \A i \in Job \ {j} : (Live(i)' <=> Live(i)) /\ (Stopping(i)' <=> Stopping(i))
    BY <1>9, Zenon DEF Live, Stopping
  <1>12. Exclusive => Exclusive'
    <2>1. ASSUME Exclusive, NEW i \in Job \ {j}
          PROVE  /\ \A v \in Worker : Busy(v, i)' => Live(i)'
                 /\ \A u, v \in Worker : Busy(u, i)' /\ Busy(v, i)' => u = v
      BY <1>8, <1>11, <2>1, Zenon DEF Exclusive
    <2> QED BY <1>7, <2>1, Zenon DEF Exclusive
  <1>19. Covered => Covered'
    BY <1>8, <1>9, <1>10, Zenon DEF Covered
  <1>13. \/ jobs' = jobs
         \/ \A v \in Worker \ {w} : Stopping(j) => v \notin jobs[j].assigned
    <2>1. Stopping(j) => \E u \in Worker : jobs[j].assigned = {u}
      BY Zenon DEF IInv, RowOK, Stopping
    <2> QED BY <2>1, OutcomeRow, Zenon DEF Stopping
  <1>14. ASSUME NEW v \in Worker
         PROVE  /\ thread'[v][j].stop => Stopping(j)' /\ v \in jobs'[j].assigned
                /\ thread'[v][j].outcome = "stopped" => thread'[v][j].stop
    <2>1. CASE v = w
      BY <1>4, <1>5, <2>1, Zenon
    <2>2. CASE v # w
      BY <1>5, <1>13, <2>2 DEF StopsMatchRows, Stopping
    <2> QED BY <2>1, <2>2, Zenon
  <1>15. ASSUME NEW v \in Worker, NEW i \in Job \ {j}
         PROVE  /\ thread'[v][i].stop => Stopping(i)' /\ v \in jobs'[i].assigned
                /\ thread'[v][i].outcome = "stopped" => thread'[v][i].stop
    BY <1>5, <1>9, <1>11, Zenon DEF StopsMatchRows
  <1>16. StopsMatchRows'
    BY <1>14, <1>15, Zenon DEF StopsMatchRows
  <1>17. ASSUME NEW v \in Worker
         PROVE  /\ j \in heartbeat'[v].assigned => ~thread'[v][j].stop
                /\ j \in heartbeat'[v].stop =>
                      \/ Stopping(j)' /\ v \in jobs'[j].assigned
                      \/ thread'[v][j] = NoThread /\ j \notin heartbeat'[v].assigned
    <2>1. CASE jobs' = jobs
      <3>1. Stopping(j)' <=> Stopping(j)
        BY <2>1, Zenon DEF Stopping
      <3>2. /\ j \in heartbeat[v].assigned => ~thread[v][j].stop
            /\ j \in heartbeat[v].stop =>
                  \/ Stopping(j) /\ v \in jobs[j].assigned
                  \/ thread[v][j] = NoThread /\ j \notin heartbeat[v].assigned
        BY Zenon DEF ResponsesMatchRows
      <3> QED BY <1>2, <1>4, <1>5, <2>1, <3>1, <3>2, Zenon
    <2>2. CASE jobs' # jobs /\ v # w
      BY <1>2, <1>5, <1>13, <2>2, Zenon DEF ResponsesMatchRows
    <2>3. CASE jobs' # jobs /\ v = w
      <3>1. j \in heartbeat[w].assigned => ~thread[w][j].stop
        BY DEF ResponsesMatchRows
      <3>2. j \in heartbeat[w].stop => Stopping(j)
        <4>1. thread[w][j] # NoThread
          BY <1>2, <1>4, Zenon DEF Busy
        <4> QED BY <4>1 DEF ResponsesMatchRows
      <3>3. j \in heartbeat[w].stop => thread[w][j].stop
        BY <2>3, <3>2, OutcomeRow, Zenon DEF Stopping
      <3> QED BY <1>2, <1>4, <1>5, <2>3, <3>1, <3>3, Zenon
    <2> QED BY <2>1, <2>2, <2>3, Zenon
  <1>18. ResponsesMatchRows'
    <2> SUFFICES ASSUME NEW v \in Worker, NEW i \in Job
                 PROVE  /\ i \in heartbeat'[v].assigned => ~thread'[v][i].stop
                        /\ i \in heartbeat'[v].stop =>
                              \/ Stopping(i)' /\ v \in jobs'[i].assigned
                              \/ thread'[v][i] = NoThread /\ i \notin heartbeat'[v].assigned
      BY Zenon DEF ResponsesMatchRows
    <2>1. CASE i = j
      BY <1>17, <2>1, Zenon
    <2>3. /\ i \in heartbeat[v].assigned => ~thread[v][i].stop
          /\ i \in heartbeat[v].stop =>
                \/ Stopping(i) /\ v \in jobs[i].assigned
                \/ thread[v][i] = NoThread /\ i \notin heartbeat[v].assigned
      BY Zenon DEF ResponsesMatchRows
    <2>2. CASE i # j
      BY <1>2, <1>5, <1>9, <1>11, <2>2, <2>3, Zenon
    <2> QED BY <2>1, <2>2, Zenon
  <1> QED BY <1>6, <1>12, <1>16, <1>18, <1>19, Zenon DEF Kept

-----------------------------------------------------------------------------
\* A thread whose start report failed executes, accepted or not.
LEMMA ReportStartedFailsKeeps ==
    ASSUME IInv, Orderly, NEW w \in Worker, NEW j \in Job, ReportStartedFails(w, j)
    PROVE  Orderly'
  <1> DEFINE t == [thread[w][j] EXCEPT !.pc = "executing"]
  <1>1. thread \in [Worker -> [Job -> Thread]] /\ thread[w][j] \in Thread
    BY Zenon DEF Orderly, AgentTypes
  <1>2. /\ thread[w][j].pc = "starting" /\ ThreadStep
        /\ ReportJobStarted(j) \/ UNCHANGED <<jobs, todo>>
        /\ thread' = [thread EXCEPT ![w][j] = t]
    BY Zenon DEF ReportStartedFails
  <1>3. CASE ReportJobStarted(j) /\ StartPermits(jobs[j])
    <2>1. ReportStarted(w, j)
      BY <1>2, <1>3, Zenon DEF ReportStarted
    <2> QED BY <2>1, ReportStartedKeeps, Zenon DEF Kept
  <1>4. CASE UNCHANGED jobs
    <2>1. t \in Thread /\ t.stop = thread[w][j].stop /\ t.outcome = thread[w][j].outcome
      BY <1>1, Zenon DEF Thread
    <2>2. UNCHANGED heartbeat /\ Elsewhere
      BY <1>2, Zenon DEF ThreadStep, Elsewhere, watcher, ReportJobStarted
    <2>3. thread[w][j].outcome = "stopped" => thread[w][j].stop
      BY Zenon DEF Orderly, StopsMatchRows
    <2>4. thread[w][j].pc # "none"
      BY <1>2
    <2> HIDE DEF t
    <2> QED BY <1>2, <1>4, <2>1, <2>2, <2>3, <2>4, ThreadMoves, Zenon
  <1>5. ReportJobStarted(j) /\ ~StartPermits(jobs[j]) => UNCHANGED jobs
    BY Zenon DEF ReportJobStarted, Update
  <1> QED BY <1>2, <1>3, <1>4, <1>5, Zenon

\* A thread ends without a report, and leaves its entry behind or not.
LEMMA ThreadEndsKeeps ==
    ASSUME Orderly, NEW w \in Worker, NEW j \in Job,
           ExecutorRaises(w, j) \/ ReportOutcomeFails(w, j)
    PROVE  Orderly' /\ (Exclusive => Exclusive')
  <1>1. thread \in [Worker -> [Job -> Thread]] /\ thread[w][j] \in Thread
    BY Zenon DEF Orderly, AgentTypes
  <1>2. Busy(w, j) /\ UNCHANGED <<jobs, heartbeat>> /\ Elsewhere
    BY Zenon DEF ExecutorRaises, ReportOutcomeFails, ThreadStep, Busy, Elsewhere, watcher
  <1>3. thread[w][j].pc # "none"
    BY <1>2 DEF Busy
  <1>4. CASE ExecutorRaises(w, j)
    <2> DEFINE t == [thread[w][j] EXCEPT !.pc = "dead"]
    <2>1. thread' = [thread EXCEPT ![w][j] = t]
      BY <1>4, Zenon DEF ExecutorRaises
    <2>2. t \in Thread /\ t.stop = thread[w][j].stop /\ t.outcome = thread[w][j].outcome
      BY <1>1, Zenon DEF Thread
    <2>3. thread[w][j].outcome = "stopped" => thread[w][j].stop
      BY Zenon DEF Orderly, StopsMatchRows
    <2> HIDE DEF t
    <2> QED BY <1>2, <1>3, <2>1, <2>2, <2>3, ThreadMoves, Zenon
  <1>5. CASE ReportOutcomeFails(w, j)
    <2>1. thread' = [thread EXCEPT ![w][j] = NoThread]
      BY <1>5, Zenon DEF ReportOutcomeFails
    <2>2. NoThread \in Thread /\ ~NoThread.stop /\ NoThread.outcome = "none"
      BY DEF NoThread, Thread, Outcome
    <2> QED BY <1>2, <1>3, <2>1, <2>2, ThreadMoves, Zenon
  <1> QED BY <1>4, <1>5, Zenon

-----------------------------------------------------------------------------
\* No agent comes back to life, and only a fault ends one.
LEMMA Deaths ==
    ASSUME [ExecNext]_execVars
    PROVE  \/ alive' = alive
           \/ "worker_dies" \in Fault /\ \E w \in Worker : w \notin alive'
  <1>1. CASE UNCHANGED execVars \/ ListJobs \/ ListWorkers
    BY <1>1, Zenon DEF execVars, ListJobs, ListWorkers, agents
  <1>2. ASSUME NEW j \in Job,
               \/ \E limit \in RetryLimits, p \in BOOLEAN : Submit(j, limit, p)
               \/ ClientCancels(j) \/ PreemptVictim(j)
               \/ \E w \in Worker : AssignJob(j, w)
        PROVE  alive' = alive
    BY <1>2, Zenon DEF Submit, ClientCancels, PreemptVictim, AssignJob, agents
  <1>3. ASSUME NEW w \in Worker,
               \/ HeartbeatUpdatesRow(w) \/ ListAssignedToWorker(w)
               \/ ListStoppableForWorker(w) \/ HeartbeatFails(w) \/ LeaseExpires(w)
               \/ \E a \in Replica : \/ MarkLost(a, w) \/ LoseWorker(a, w)
                                    \/ MarkLostFails(a, w) \/ LoseWorkerFails(a, w)
        PROVE  alive' = alive
    BY <1>3, Zenon DEF HeartbeatUpdatesRow, ListAssignedToWorker,
           ListStoppableForWorker, HeartbeatFails, LeaseExpires, MarkLost, LoseWorker,
           MarkLostFails, LoseWorkerFails, agents
  <1>4. ASSUME NEW w \in Worker, WorkerDies(w)
        PROVE  "worker_dies" \in Fault /\ w \notin alive'
    BY <1>4, Zenon DEF WorkerDies
  <1>5. ASSUME NEW w \in Worker, NEW j \in Job,
               \/ StartJob(w, j) \/ SignalStop(w, j)
               \/ ReportStarted(w, j) \/ ReportStartedFails(w, j)
               \/ \E outcome \in Outcome : Execute(w, j, outcome)
               \/ ExecutorRaises(w, j) \/ ReportOutcome(w, j)
               \/ ReportOutcomeFails(w, j)
        PROVE  alive' = alive
    BY <1>5, Zenon DEF StartJob, SignalStop, ReportStarted, ReportStartedFails,
           Execute, ExecutorRaises, ReportOutcome, ReportOutcomeFails, ThreadStep
  <1> QED BY <1>1, <1>2, <1>3, <1>4, <1>5, Zenon DEF ExecNext

\* Every step that leaves all workers alive keeps what it should, if no
\* running agent is cut off.
LEMMA UntilDeathStep ==
    ASSUME "cut_off" \notin Fault, IInv, Orderly, alive' = Worker, [ExecNext]_execVars
    PROVE  /\ Orderly'
           /\ "call_fails" \notin Fault => (Exclusive => Exclusive')
           /\ "call_fails" \notin Fault /\ "bad_command" \notin Fault
                 => (Covered => Covered')
  <1> DEFINE G == /\ Orderly'
                  /\ "call_fails" \notin Fault => (Exclusive => Exclusive')
                  /\ "call_fails" \notin Fault /\ "bad_command" \notin Fault
                        => (Covered => Covered')
  <1> SUFFICES G
    OBVIOUS
  <1>0. Kept => G
    BY Zenon DEF Kept
  <1>1. CASE UNCHANGED execVars
    <2>1. OutsideStep /\ Elsewhere /\ UNCHANGED <<thread, heartbeat>>
      BY <1>1, Zenon DEF execVars, OutsideStep, Elsewhere, Stopping
    <2> QED BY <1>0, <2>1, OutsideKeeps, Zenon
  <1>2. CASE ListJobs \/ ListWorkers
    <2>1. OutsideStep /\ Elsewhere /\ UNCHANGED <<thread, heartbeat>>
      BY <1>2, Zenon DEF ListJobs, ListWorkers, agents, watcher, OutsideStep, Elsewhere,
                  Stopping
    <2> QED BY <1>0, <2>1, OutsideKeeps, Zenon
  <1>3. ASSUME NEW j \in Job,
               \/ \E limit \in RetryLimits, p \in BOOLEAN : Submit(j, limit, p)
               \/ ClientCancels(j) \/ PreemptVictim(j)
               \/ \E w \in Worker : AssignJob(j, w)
        PROVE  G
    <2>1. OutsideStep
      BY <1>3, OutsideSteps, Zenon DEF Submit, ClientCancels, PreemptVictim, AssignJob
    <2>2. Elsewhere /\ UNCHANGED <<thread, heartbeat>>
      BY <1>3, Zenon DEF Submit, ClientCancels, PreemptVictim, AssignJob, SubmitJob, CancelJob,
                  PreemptJob, AssignToWorkers, Elsewhere, agents, watcher
    <2> QED BY <1>0, <2>1, <2>2, OutsideKeeps, Zenon
  <1>4. ASSUME NEW w \in Worker, WorkerDies(w) \/ LeaseExpires(w)
        PROVE  FALSE
    <2>1. CASE WorkerDies(w)
      BY <2>1, Zenon DEF WorkerDies
    <2>2. CASE LeaseExpires(w)
      BY <2>2, Zenon DEF LeaseExpires, Orderly, Undisturbed
    <2> QED BY <1>4, <2>1, <2>2, Zenon
  <1>5. ASSUME NEW w \in Worker, NEW a \in Replica,
               \/ MarkLost(a, w) \/ LoseWorker(a, w)
               \/ MarkLostFails(a, w) \/ LoseWorkerFails(a, w)
        PROVE  FALSE
    BY <1>5, Zenon DEF MarkLost, LoseWorker, LoseWorkerUpdate, MarkLostFails,
                       LoseWorkerFails, Orderly, Undisturbed
  <1>6. ASSUME NEW w \in Worker, NEW j \in Job, ReportStartedFails(w, j)
        PROVE  G
    BY <1>6, ReportStartedFailsKeeps, Zenon DEF ReportStartedFails
  <1>7. ASSUME NEW w \in Worker, NEW j \in Job,
               ExecutorRaises(w, j) \/ ReportOutcomeFails(w, j)
        PROVE  G
    BY <1>7, ThreadEndsKeeps, Zenon DEF ExecutorRaises, ReportOutcomeFails
  <1>8. ASSUME NEW w \in Worker,
               \/ HeartbeatUpdatesRow(w) \/ ListAssignedToWorker(w)
               \/ ListStoppableForWorker(w) \/ HeartbeatFails(w)
        PROVE  G
    BY <1>0, <1>8, HeartbeatKeeps, Zenon
  <1>9. ASSUME NEW w \in Worker, NEW j \in Job,
               \/ StartJob(w, j) \/ SignalStop(w, j) \/ ReportStarted(w, j)
               \/ \E outcome \in Outcome : Execute(w, j, outcome)
               \/ ReportOutcome(w, j)
        PROVE  G
    BY <1>0, <1>9, StartJobKeeps, SignalStopKeeps, ReportStartedKeeps, ExecuteKeeps,
       ReportOutcomeKeeps, Zenon
  <1> HIDE DEF G
  <1> QED
    BY <1>1, <1>2, <1>3, <1>4, <1>5, <1>6, <1>7, <1>8, <1>9, Zenon DEF ExecNext

\* Nothing has happened yet.
LEMMA UntilDeathInit == ExecInit => UntilDeath
  <1> SUFFICES ASSUME ExecInit PROVE UntilDeath
    OBVIOUS
  <1> USE DEF ExecInit
  <1>1. NoThread \in Thread /\ ~NoThread.stop
        /\ NoThread.pc = "none" /\ NoThread.outcome = "none"
    BY Zenon DEF NoThread, Thread, Outcome
  <1>2. Quiet \in Heartbeat /\ Quiet.assigned = {} /\ Quiet.stop = {}
    BY Zenon DEF Quiet, Heartbeat
  <1>3. \A j \in Job : jobs[j].state = "NONE"
    BY DEF Init, NoRow
  <1>4. /\ \A w \in Worker, j \in Job : thread[w][j] = NoThread
        /\ \A w \in Worker : heartbeat[w] = Quiet
    OBVIOUS
  <1>5. Undisturbed
    BY Zenon DEF Undisturbed, Init
  <1>6. AgentTypes
    BY <1>1, <1>2, Zenon DEF AgentTypes
  <1>7. Exclusive /\ Covered
    BY <1>1, <1>3, <1>4, Zenon DEF Exclusive, Covered, Busy
  <1>8. StopsMatchRows /\ ResponsesMatchRows /\ ResponseForms
    BY <1>1, <1>2, <1>4, Zenon DEF StopsMatchRows, ResponsesMatchRows, ResponseForms
  <1> QED BY <1>5, <1>6, <1>7, <1>8, Zenon DEF UntilDeath, Orderly

\* The invariant holds throughout if no running agent is cut off, whatever
\* the number of jobs and agents and however stale the responses they act on.
THEOREM UntilDeathInvariance ==
    ASSUME "cut_off" \notin Fault PROVE ExecSpec => []UntilDeath
  <1>1. ExecSpec => []IInv
    BY RowsOfTheService
  <1>2. IInv /\ UntilDeath /\ [ExecNext]_execVars => UntilDeath'
    <2> SUFFICES ASSUME IInv, UntilDeath, [ExecNext]_execVars, alive' = Worker
                 PROVE  /\ Orderly'
                        /\ "call_fails" \notin Fault => Exclusive'
                        /\ "call_fails" \notin Fault /\ "bad_command" \notin Fault
                              => Covered'
      BY Zenon DEF UntilDeath
    <2>1. alive = Worker
      BY Deaths, Zenon
    <2> QED BY <2>1, UntilDeathStep, Zenon DEF UntilDeath
  <1> QED BY <1>1, <1>2, UntilDeathInit, PTL DEF ExecSpec

\* Agents that cannot die do not.
LEMMA NobodyDies ==
    ASSUME "worker_dies" \notin Fault PROVE ExecSpec => [](alive = Worker)
  <1>1. ExecInit => alive = Worker
    BY Zenon DEF ExecInit
  <1>2. alive = Worker /\ [ExecNext]_execVars => (alive = Worker)'
    BY Deaths, Zenon
  <1> QED BY <1>1, <1>2, PTL DEF ExecSpec

\* If calls arrive and no worker dies or is cut off, no two agents execute a
\* job at once, even if threads crash.
THEOREM OneExecution ==
    ASSUME Fault \subseteq {"bad_command"} PROVE ExecSpec => []AtMostOneExecution
  <1>1. {"worker_dies", "cut_off", "call_fails"} \cap Fault = {}
    OBVIOUS
  <1>2. alive = Worker /\ UntilDeath => AtMostOneExecution
    BY <1>1, Zenon DEF UntilDeath, Exclusive, AtMostOneExecution, Executing, Busy
  <1>3. "worker_dies" \notin Fault /\ "cut_off" \notin Fault
    BY <1>1
  <1>4. ExecSpec => [](alive = Worker) /\ []UntilDeath
    BY <1>3, NobodyDies, UntilDeathInvariance
  <1> QED BY <1>2, <1>4, PTL

\* If calls arrive and no worker dies or is cut off, an agent executes only a
\* job whose start was accepted and whose end is not recorded, even if threads
\* crash.
THEOREM ExecutionIsRecorded ==
    ASSUME Fault \subseteq {"bad_command"} PROVE ExecSpec => []ExecutingMeansRunning
  <1>1. {"worker_dies", "cut_off", "call_fails"} \cap Fault = {}
    OBVIOUS
  <1>2. alive = Worker /\ UntilDeath => ExecutingMeansRunning
    <2>1. alive = Worker /\ UntilDeath => Exclusive
      BY <1>1, Zenon DEF UntilDeath
    <2>2. Exclusive => ExecutingMeansRunning
      BY DEF Exclusive, ExecutingMeansRunning, Executing, Busy, Live, Stopping
    <2> QED BY <2>1, <2>2
  <1>3. "worker_dies" \notin Fault /\ "cut_off" \notin Fault
    BY <1>1
  <1>4. ExecSpec => [](alive = Worker) /\ []UntilDeath
    BY <1>3, NobodyDies, UntilDeathInvariance
  <1> QED BY <1>2, <1>4, PTL

\* Without faults, a RUNNING row has a thread that will report on it.
THEOREM RunningIsReal ==
    ASSUME Fault = {} PROVE ExecSpec => []RunningHasThread
  <1>1. alive = Worker /\ UntilDeath => RunningHasThread
    BY Zenon DEF UntilDeath, Covered, RunningHasThread, Busy
  <1>2. ExecSpec => [](alive = Worker) /\ []UntilDeath
    BY NobodyDies, UntilDeathInvariance
  <1> QED BY <1>1, <1>2, PTL

\* If no running agent is cut off, then until the first worker dies the report
\* of a thread that stopped early meets the row that asked for the stop,
\* however stale the response that carried it, whichever calls fail and
\* threads crash.
THEOREM StopsAreWanted ==
    ASSUME "cut_off" \notin Fault PROVE ExecSpec => []StopIsStillWanted
  <1>1. UntilDeath => StopIsStillWanted
    <2>1. UntilDeath => (alive = Worker => StopsMatchRows)
      BY Zenon DEF UntilDeath, Orderly
    <2>2. StopsMatchRows => StopIsStillWanted
      BY Zenon DEF StopsMatchRows, StopIsStillWanted, Stopping
    <2> QED BY <2>1, <2>2, Zenon DEF StopIsStillWanted
  <1> QED BY <1>1, UntilDeathInvariance, PTL

-----------------------------------------------------------------------------
\* Of the variables that are not the service's.
ProcessTypes ==
    /\ alive \subseteq Worker
    /\ thread \in [Worker -> [Job -> Thread]]
    /\ heartbeat \in [Worker -> Heartbeat]
    /\ status \in [Worker -> {"ACTIVE", "LOST"}]
    /\ expired \in [Replica -> SUBSET Worker]
    /\ marked \in [Replica -> SUBSET Worker]
    /\ abandoned \in [Replica -> SUBSET Worker]
    /\ pass \in [jobs: SUBSET Job, workers: SUBSET Worker]

\* A step of the heartbeat replaces one worker's response by another.
LEMMA HeartbeatIsTyped ==
    ASSUME heartbeat \in [Worker -> Heartbeat], NEW w \in Worker,
           \/ HeartbeatUpdatesRow(w) \/ ListAssignedToWorker(w)
           \/ ListStoppableForWorker(w) \/ HeartbeatFails(w)
           \/ \E j \in Job : StartJob(w, j) \/ SignalStop(w, j)
    PROVE  heartbeat' \in [Worker -> Heartbeat]
  <1> SUFFICES \E h \in Heartbeat : heartbeat' = [heartbeat EXCEPT ![w] = h]
    OBVIOUS
  <1>1. heartbeat[w] \in Heartbeat /\ Quiet \in Heartbeat
    BY DEF Quiet, Heartbeat
  <1>2. \A pc \in {"idle", "assigned", "stoppable"} :
            [heartbeat[w] EXCEPT !.pc = pc] \in Heartbeat
    BY <1>1 DEF Heartbeat
  <1>3. \A S \in SUBSET Job :
            /\ [heartbeat[w] EXCEPT !.pc = "stoppable", !.assigned = S] \in Heartbeat
            /\ [heartbeat[w] EXCEPT !.pc = "idle", !.stop = S] \in Heartbeat
            /\ [heartbeat[w] EXCEPT !.assigned = S] \in Heartbeat
            /\ [heartbeat[w] EXCEPT !.stop = S] \in Heartbeat
    BY <1>1, Zenon DEF Heartbeat
  <1>4. CASE HeartbeatUpdatesRow(w)
    BY <1>2, <1>4, Zenon DEF HeartbeatUpdatesRow
  <1>5. CASE HeartbeatFails(w)
    <2>1. CASE heartbeat' = [heartbeat EXCEPT ![w] = Quiet]
      BY <1>1, <2>1, Zenon
    <2>2. CASE heartbeat' = [heartbeat EXCEPT ![w].pc = "idle"]
      BY <1>2, <2>2, Zenon
    <2> QED BY <1>5, <2>1, <2>2 DEF HeartbeatFails
  <1>6. CASE ListAssignedToWorker(w)
    <2> DEFINE S == {j \in Job : jobs[j].state = "SCHEDULED" /\ w \in jobs[j].assigned}
    <2>1. heartbeat' = [heartbeat EXCEPT ![w] =
                            [heartbeat[w] EXCEPT !.pc = "stoppable", !.assigned = S]]
      BY <1>6, Zenon DEF ListAssignedToWorker
    <2>2. S \in SUBSET Job
      OBVIOUS
    <2> HIDE DEF S
    <2> QED BY <1>3, <2>1, <2>2, Zenon
  <1>7. CASE ListStoppableForWorker(w)
    <2> DEFINE S == {j \in Job : /\ jobs[j].state \in {"CANCEL_REQUESTED", "PREEMPTED"}
                                 /\ w \in jobs[j].assigned}
    <2>1. heartbeat' = [heartbeat EXCEPT ![w] =
                            [heartbeat[w] EXCEPT !.pc = "idle", !.stop = S]]
      BY <1>7, Zenon DEF ListStoppableForWorker
    <2>2. S \in SUBSET Job
      OBVIOUS
    <2> HIDE DEF S
    <2> QED BY <1>3, <2>1, <2>2, Zenon
  <1>8. ASSUME NEW j \in Job, StartJob(w, j)
        PROVE  \E h \in Heartbeat : heartbeat' = [heartbeat EXCEPT ![w] = h]
    <2> DEFINE S == heartbeat[w].assigned \ {j}
    <2>1. heartbeat' = [heartbeat EXCEPT ![w] = [heartbeat[w] EXCEPT !.assigned = S]]
      BY <1>8 DEF StartJob
    <2>2. S \in SUBSET Job
      BY <1>1, SMTT(30) DEF Heartbeat
    <2> HIDE DEF S
    <2> QED BY <1>3, <2>1, <2>2, Zenon
  <1>9. ASSUME NEW j \in Job, SignalStop(w, j)
        PROVE  \E h \in Heartbeat : heartbeat' = [heartbeat EXCEPT ![w] = h]
    <2> DEFINE S == heartbeat[w].stop \ {j}
    <2>1. heartbeat' = [heartbeat EXCEPT ![w] = [heartbeat[w] EXCEPT !.stop = S]]
      BY <1>9 DEF SignalStop
    <2>2. S \in SUBSET Job
      BY <1>1 DEF Heartbeat
    <2> HIDE DEF S
    <2> QED BY <1>3, <2>1, <2>2, Zenon
  <1> QED BY <1>4, <1>5, <1>6, <1>7, <1>8, <1>9

\* A step of a job's thread, or of the loop on it, changes its entry alone.
LEMMA ThreadIsTyped ==
    ASSUME thread \in [Worker -> [Job -> Thread]], NEW w \in Worker, NEW j \in Job,
           \/ StartJob(w, j) \/ SignalStop(w, j)
           \/ ReportStarted(w, j) \/ ReportStartedFails(w, j) \/ ExecutorRaises(w, j)
           \/ \E outcome \in Outcome : Execute(w, j, outcome)
           \/ ReportOutcome(w, j) \/ ReportOutcomeFails(w, j)
    PROVE  thread' \in [Worker -> [Job -> Thread]]
  <1> DEFINE t == thread[w][j]
  <1>1. t \in Thread /\ NoThread \in Thread
    BY SMTT(30) DEF NoThread, Thread, Outcome
  <1>2. /\ \A pc \in {"none", "starting", "executing", "reporting", "dead"} :
               [t EXCEPT !.pc = pc] \in Thread
        /\ [t EXCEPT !.stop = TRUE] \in Thread
        /\ \A o \in Outcome : [t EXCEPT !.pc = "reporting", !.outcome = o] \in Thread
    BY <1>1, Zenon DEF Thread
  <1>3. thread' = thread \/ \E u \in Thread : thread' = [thread EXCEPT ![w][j] = u]
    <2>1. CASE StartJob(w, j) \/ SignalStop(w, j)
      BY <1>2, <2>1, ZenonT(40) DEF StartJob, SignalStop
    <2>2. CASE ReportStarted(w, j)
      <3>1. \/ thread' = [thread EXCEPT ![w][j] = [t EXCEPT !.pc = "executing"]]
            \/ thread' = [thread EXCEPT ![w][j] = NoThread]
        BY <2>2, ZenonT(40) DEF ReportStarted
      <3> QED BY <1>1, <1>2, <3>1, Zenon
    <2>3. CASE ReportStartedFails(w, j) \/ ExecutorRaises(w, j)
      BY <1>2, <2>3, Zenon DEF ReportStartedFails, ExecutorRaises
    <2>4. ASSUME NEW o \in Outcome, Execute(w, j, o)
          PROVE  \E u \in Thread : thread' = [thread EXCEPT ![w][j] = u]
      <3>1. thread' = [thread EXCEPT ![w][j] = [t EXCEPT !.pc = "reporting", !.outcome = o]]
        BY <2>4, Zenon DEF Execute
      <3> QED BY <1>2, <3>1, Zenon
    <2>5. CASE ReportOutcome(w, j) \/ ReportOutcomeFails(w, j)
      BY <1>1, <2>5 DEF ReportOutcome, ReportOutcomeFails
    <2> QED BY <2>1, <2>2, <2>3, <2>4, <2>5, SMTT(30)
  <1> QED BY <1>3, OtherThreads

\* Whatever fails: agents, watchers and passes only ever hold workers and jobs
\* that exist, in the forms the code gives them.
THEOREM ExecutionIsTyped == ExecSpec => []ExecTypeOK
  <1>1. ExecInit => ProcessTypes
    <2>1. NoThread \in Thread /\ Quiet \in Heartbeat
      BY DEF NoThread, Thread, Outcome, Quiet, Heartbeat
    <2>2. ExecInit => /\ thread \in [Worker -> [Job -> Thread]]
                      /\ heartbeat \in [Worker -> Heartbeat]
      BY <2>1 DEF ExecInit
    <2>3. ExecInit => /\ alive \subseteq Worker
                      /\ status \in [Worker -> {"ACTIVE", "LOST"}]
      BY DEF ExecInit
    <2>4. ExecInit => /\ expired \in [Replica -> SUBSET Worker]
                      /\ marked \in [Replica -> SUBSET Worker]
                      /\ abandoned \in [Replica -> SUBSET Worker]
      BY ZenonT(40) DEF ExecInit
    <2>5. ExecInit => pass \in [jobs: SUBSET Job, workers: SUBSET Worker]
      BY DEF ExecInit
    <2> QED BY <2>2, <2>3, <2>4, <2>5, Zenon DEF ProcessTypes
  <1>2. ProcessTypes /\ [ExecNext]_execVars => ProcessTypes'
    <2> SUFFICES ASSUME ProcessTypes, [ExecNext]_execVars PROVE ProcessTypes'
      OBVIOUS
    <2> USE DEF ProcessTypes, agents, watcher, ThreadStep
    <2>0. NoThread \in Thread /\ Quiet \in Heartbeat
      BY Zenon DEF NoThread, Thread, Outcome, Quiet, Heartbeat
    <2>1. CASE UNCHANGED execVars
      BY <2>1 DEF execVars
    <2>2. CASE ListJobs \/ ListWorkers
      BY <2>2 DEF ListJobs, ListWorkers
    <2>3. ASSUME NEW j \in Job,
                 \/ \E limit \in RetryLimits, p \in BOOLEAN : Submit(j, limit, p)
                 \/ ClientCancels(j) \/ PreemptVictim(j)
          PROVE  ProcessTypes'
      BY <2>3 DEF Submit, ClientCancels, PreemptVictim
    <2>4. ASSUME NEW w \in Worker, NEW j \in Job, AssignJob(j, w)
          PROVE  ProcessTypes'
      BY <2>4, Zenon DEF AssignJob
    <2>5. ASSUME NEW w \in Worker,
                 \/ HeartbeatUpdatesRow(w) \/ ListAssignedToWorker(w)
                 \/ ListStoppableForWorker(w) \/ HeartbeatFails(w)
          PROVE  ProcessTypes'
      <3>1. heartbeat' \in [Worker -> Heartbeat]
        BY <2>5, HeartbeatIsTyped
      <3>2. CASE HeartbeatUpdatesRow(w)
        <4>1. status' \in [Worker -> {"ACTIVE", "LOST"}]
          BY <3>2 DEF HeartbeatUpdatesRow
        <4>2. abandoned' \in [Replica -> SUBSET Worker]
          BY <3>2 DEF HeartbeatUpdatesRow
        <4> QED BY <3>1, <3>2, <4>1, <4>2, Zenon DEF HeartbeatUpdatesRow
      <3>3. CASE ListAssignedToWorker(w) \/ ListStoppableForWorker(w) \/ HeartbeatFails(w)
        BY <3>1, <3>3, Zenon DEF ListAssignedToWorker, ListStoppableForWorker, HeartbeatFails
      <3> QED BY <2>5, <3>2, <3>3, Zenon
    <2>6. ASSUME NEW w \in Worker, WorkerDies(w)
          PROVE  ProcessTypes'
      BY <2>0, <2>6 DEF WorkerDies
    <2>7. ASSUME NEW w \in Worker, LeaseExpires(w)
          PROVE  ProcessTypes'
      BY <2>7 DEF LeaseExpires
    <2>8. ASSUME NEW w \in Worker, NEW a \in Replica,
                 \/ MarkLost(a, w) \/ LoseWorker(a, w)
                 \/ MarkLostFails(a, w) \/ LoseWorkerFails(a, w)
          PROVE  ProcessTypes'
      <3>1. CASE MarkLost(a, w)
        BY <2>8, <3>1, Zenon DEF MarkLost
      <3>2. CASE LoseWorker(a, w)
        <4>1. UNCHANGED <<alive, thread, heartbeat, status, expired, abandoned, pass>>
          BY <3>2 DEF LoseWorker
        <4>2. marked' = marked \/ marked' = [marked EXCEPT ![a] = {}]
          BY <3>2 DEF LoseWorker
        <4> QED BY <4>1, <4>2
      <3>3. CASE MarkLostFails(a, w) \/ LoseWorkerFails(a, w)
        <4>1. UNCHANGED <<alive, thread, heartbeat, status, pass>>
          BY <3>3, Zenon DEF MarkLostFails, LoseWorkerFails
        <4>2. /\ expired' = expired \/ expired' = [expired EXCEPT ![a] = expired[a] \ {w}]
              /\ marked' = marked \/ marked' = [marked EXCEPT ![a] = {}]
              /\ abandoned' = [abandoned EXCEPT ![a] = abandoned[a] \cup {w}]
          BY <3>3, Zenon DEF MarkLostFails, LoseWorkerFails
        <4>3. expired' \in [Replica -> SUBSET Worker]
          BY <4>2
        <4>4. marked' \in [Replica -> SUBSET Worker]
          BY <4>2
        <4>5. abandoned' \in [Replica -> SUBSET Worker]
          BY <4>2
        <4> QED BY <4>1, <4>3, <4>4, <4>5, Zenon
      <3> QED BY <2>8, <3>1, <3>2, <3>3, Zenon
    <2>9. ASSUME NEW w \in Worker, NEW j \in Job, StartJob(w, j) \/ SignalStop(w, j)
          PROVE  ProcessTypes'
      <3>1. /\ heartbeat' \in [Worker -> Heartbeat]
            /\ thread' \in [Worker -> [Job -> Thread]]
        BY <2>9, HeartbeatIsTyped, ThreadIsTyped
      <3> QED BY <2>9, <3>1 DEF StartJob, SignalStop
    <2>10. ASSUME NEW w \in Worker, NEW j \in Job,
                  \/ ReportStarted(w, j) \/ ReportStartedFails(w, j)
                  \/ ExecutorRaises(w, j)
                  \/ \E outcome \in Outcome : Execute(w, j, outcome)
                  \/ ReportOutcome(w, j) \/ ReportOutcomeFails(w, j)
           PROVE  ProcessTypes'
      <3>1. thread' \in [Worker -> [Job -> Thread]]
        BY <2>10, ThreadIsTyped
      <3> QED
        BY <2>10, <3>1 DEF ReportStarted, ReportStartedFails, ExecutorRaises, Execute,
                           ReportOutcome, ReportOutcomeFails
    <2> QED
      BY <2>1, <2>2, <2>3, <2>4, <2>5, <2>6, <2>7, <2>8, <2>9, <2>10, Zenon DEF ExecNext
  <1>3. ExecSpec => []IInv
    BY RowsOfTheService
  <1>4. IInv /\ ProcessTypes => ExecTypeOK
    BY DEF IInv, ProcessTypes, ExecTypeOK
  <1> QED BY <1>1, <1>2, <1>3, <1>4, PTL DEF ExecSpec
=============================================================================
