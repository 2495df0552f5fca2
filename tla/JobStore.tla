------------------------------ MODULE JobStore ------------------------------
(***************************************************************************)
(* The job API over PostgreSQL, at the grain at which calls interleave:    *)
(* the handlers of JobServer, jobs.Service.Submit, and the Create, Get and *)
(* Update of persistence.JobRepository with their transactions, row locks, *)
(* the unique index on submission_id and the connections of a pgx pool.    *)
(*                                                                         *)
(* A caller is a goroutine serving one request (or the scheduler's loop)   *)
(* in some process, its host; a host has one pool.  What a transaction has *)
(* written but not committed is kept in its call: nobody else sees it, so  *)
(* statements between two waits are one step.  Locks and connections are   *)
(* read off the calls that hold them.                                      *)
(*                                                                         *)
(* JobService has the same operations as single steps; that this module    *)
(* implements it (JobStoreService) is what allows the others to use those. *)
(***************************************************************************)
EXTENDS Jobs, Requests, FiniteSets

CONSTANTS
    Job,             \* job IDs; newRandomID never repeats one
    NoJob,           \* the empty ID
    Caller, Server, Scheduler, HostOf, PoolSize,
    Message          \* requests that may arrive

ASSUME StoreAssumption ==
    /\ NoJob \notin Job
    /\ HostOf \in [Caller -> Server \cup Scheduler]
    /\ Server \cap Scheduler = {}
    /\ PoolSize \in Nat \ {0}
    /\ \A msg \in Message :
          /\ msg.rpc \in {"SubmitJob", "GetJob", "CancelJob", "RetryJob", "ReportJobStarted",
                         "ReportJobCompleted", "ReportJobFailed", "ReportJobStopped"}
          /\ msg.pathID \in Job \cup {NoJob} /\ msg.bodyID \in Job \cup {NoJob}
          /\ msg.submissionID \in SubmissionID \cup {NoSubmission}
          /\ msg.in.preemptible \in BOOLEAN
          /\ SubmitInput(msg).resources.gpuCount \in Nat /\ msg.in.priority \in Int
          /\ ValidateSubmit(SubmitInput(msg)) = {} => msg.in.retryLimit \in RetryLimits

VARIABLES
    rows,            \* table jobs, committed
    columns,         \* its columns that only the scheduler computes with
    history,         \* table job_events: per job the newest to_state, and whether
                     \*   every from_state is the to_state before it
    call             \* what each caller is doing

vars == <<rows, columns, history, call>>

Idle == [pc |-> "idle", op |-> "none", job |-> NoJob, worker |-> {},
         row |-> NoRow, from |-> "NONE", columns |-> NoColumns, outcome |-> "none"]

Init ==
    /\ rows = [j \in Job |-> NoRow]
    /\ columns = [j \in Job |-> NoColumns]
    /\ history = [j \in Job |-> [last |-> "NONE", chained |-> TRUE]]
    /\ call = [c \in Caller |-> Idle]

Exists(j) == rows[j].state # "NONE"

-----------------------------------------------------------------------------
\* Preempts whatever runs.
PermitsSlip(op, job) ==
    CASE op = "CancelJob" -> CancelPermits(job)
      [] op = "ReportJobStarted" -> StartPermits(job)
      [] op = "AssignToWorkers" -> AssignPermits(job)
      [] op = "Preempt" -> job.state = "RUNNING"

\* The callbacks that reach Repository.Update, by the operation's name.
Permits(op, job) ==
    CASE op = "CancelJob" -> CancelPermits(job)
      [] op = "RetryJob" -> RetryPermits(job)
      [] op = "ReportJobStarted" -> StartPermits(job)
      [] op = "ReportJobCompleted" -> CompletePermits(job)
      [] op = "ReportJobFailed" -> FailPermits(job)
      [] op = "ReportJobStopped" -> TRUE
      [] op = "AssignToWorkers" -> AssignPermits(job)
      [] op = "Preempt" -> PreemptPermits(job)

Result(op, job, workerIDs) ==
    CASE op = "CancelJob" -> Cancel(job)
      [] op = "RetryJob" -> Retry(job)
      [] op = "ReportJobStarted" -> Start(job)
      [] op = "ReportJobCompleted" -> Complete(job)
      [] op = "ReportJobFailed" -> Fail(job)
      [] op = "ReportJobStopped" -> ReportStopped(job)
      [] op = "AssignToWorkers" -> Assign(job, workerIDs)
      [] op = "Preempt" -> Preempt(job)

Updates == {"CancelJob", "RetryJob", "ReportJobStarted", "ReportJobCompleted",
            "ReportJobFailed", "ReportJobStopped", "AssignToWorkers", "Preempt"}

-----------------------------------------------------------------------------
InTransaction == {"insert", "lookup", "select", "apply", "commit"}

\* Keeps one connection back.
FreeConnectionSlip(c) ==
    Cardinality({d \in Caller : /\ HostOf[d] = HostOf[c]
                                /\ call[d].pc \in InTransaction}) < PoolSize - 1

FreeConnection(c) ==
    Cardinality({d \in Caller : /\ HostOf[d] = HostOf[c]
                                /\ call[d].pc \in InTransaction}) < PoolSize

\* SELECT ... FOR UPDATE and the UPDATE hold the row until the transaction ends.
RowLocked(j) ==
    \E d \in Caller : /\ call[d].job = j
                      /\ call[d].op \in Updates
                      /\ call[d].pc \in {"apply", "commit"}

\* An insert that conflicts with an uncommitted one waits for its outcome.
KeyLocked(sid) ==
    \E d \in Caller : /\ call[d].op = "SubmitJob"
                      /\ call[d].pc = "commit"
                      /\ call[d].row.submissionID = sid

At(c, pc) == call[c].pc = pc
Goto(c, pc) == call' = [call EXCEPT ![c].pc = pc]

\* The call returns; its deferred Rollback has released what it held.
Return(c, outcome, j) ==
    call' = [call EXCEPT ![c] = [Idle EXCEPT !.pc = "answered", !.op = call[c].op,
                 !.job = j, !.outcome = outcome,
                 !.row = [NoRow EXCEPT !.submissionID = call[c].row.submissionID]]]

\* A request arrives.  One that the gateway cannot decode, names no job or
\* fails validation is answered at once; the others go to the repository.
Receive(c, msg) ==
    /\ At(c, "idle") /\ HostOf[c] \in Server
    /\ UNCHANGED <<rows, columns, history>>
    /\ LET refused == [Idle EXCEPT !.pc = "answered", !.op = msg.rpc,
                                   !.outcome = "invalid"] IN
       CASE ~Decodable(msg) -> call' = [call EXCEPT ![c] = refused]
         [] Decodable(msg) /\ msg.rpc = "SubmitJob" ->
              IF ValidateSubmit(SubmitInput(msg)) # {}
              THEN call' = [call EXCEPT ![c] = refused]
              ELSE \E j \in Job :
                     /\ ~Exists(j) /\ \A d \in Caller : call[d].job # j
                     /\ call' = [call EXCEPT ![c] =
                          [Idle EXCEPT !.pc = "begin", !.op = "SubmitJob", !.job = j,
                              !.row = NewJob(msg.submissionID, msg.in.retryLimit,
                                             msg.in.preemptible),
                              !.columns = jobInsertArgs(SubmitInput(msg))]]
         [] Decodable(msg) /\ msg.rpc # "SubmitJob" ->
              IF AddressedJob(msg) = NoJob
              THEN call' = [call EXCEPT ![c] = refused]
              ELSE call' = [call EXCEPT ![c] =
                      [Idle EXCEPT !.pc = IF msg.rpc = "GetJob" THEN "get" ELSE "begin",
                                   !.op = msg.rpc, !.job = AddressedJob(msg)]]

\* The scheduler's loop calls AssignToWorkers and Preempt directly.
Decide(c, op, j, workerIDs) ==
    /\ At(c, "idle") /\ HostOf[c] \in Scheduler /\ Exists(j)
    /\ call' = [call EXCEPT ![c] = [Idle EXCEPT !.pc = "begin", !.op = op, !.job = j,
                                                !.worker = workerIDs]]
    /\ UNCHANGED <<rows, columns, history>>

\* JobRepository.Get: one statement on a connection of its own.
Get(c) ==
    /\ At(c, "get") /\ FreeConnection(c)
    /\ Return(c, IF Exists(call[c].job) THEN "ok" ELSE "not_found", call[c].job)
    /\ UNCHANGED <<rows, columns, history>>

\* pool.Begin.
Begin(c) ==
    /\ At(c, "begin") /\ FreeConnection(c)
    /\ Goto(c, IF call[c].op = "SubmitJob" THEN "insert" ELSE "select")
    /\ UNCHANGED <<rows, columns, history>>

-----------------------------------------------------------------------------
Original(sid) == {j \in Job : Exists(j) /\ rows[j].submissionID = sid}

\* Looks for the submission ID first and inserts without the index.
InsertSlip(c) ==
    LET sid == call[c].row.submissionID IN
    /\ At(c, "insert")
    /\ Goto(c, IF sid # NoSubmission /\ Original(sid) # {} THEN "lookup" ELSE "commit")
    /\ UNCHANGED <<rows, columns, history>>

\* Treats an insert still under way elsewhere as a duplicate found.
InsertEagerSlip(c) ==
    LET sid == call[c].row.submissionID IN
    /\ At(c, "insert")
    /\ Goto(c, IF sid # NoSubmission /\ (KeyLocked(sid) \/ Original(sid) # {})
               THEN "lookup" ELSE "commit")
    /\ UNCHANGED <<rows, columns, history>>

\* INSERT ... ON CONFLICT DO NOTHING, and the SUBMITTED event.
Insert(c) ==
    LET sid == call[c].row.submissionID IN
    /\ At(c, "insert")
    /\ sid # NoSubmission => ~KeyLocked(sid)
    /\ Goto(c, IF sid # NoSubmission /\ Original(sid) # {} THEN "lookup" ELSE "commit")
    /\ UNCHANGED <<rows, columns, history>>

\* getBySubmissionID takes a second connection while the transaction has one.
Lookup(c) ==
    LET found == Original(call[c].row.submissionID) IN
    /\ At(c, "lookup") /\ FreeConnection(c)
    /\ IF found = {} THEN Return(c, "not_found", NoJob)
       ELSE \E j \in found : Return(c, "ok", j)
    /\ UNCHANGED <<rows, columns, history>>

\* SELECT ... FOR UPDATE waits for the row and reads its newest version.
Select(c) ==
    /\ At(c, "select") /\ ~RowLocked(call[c].job)
    /\ IF ~Exists(call[c].job)
       THEN Return(c, "not_found", call[c].job)
       ELSE call' = [call EXCEPT ![c].pc = "apply", ![c].row = rows[call[c].job],
                                 ![c].from = rows[call[c].job].state]
    /\ UNCHANGED <<rows, columns, history>>

\* The callback, and on success the UPDATE and the STATE_CHANGED event.
Apply(c) ==
    LET k == call[c] IN
    /\ At(c, "apply")
    /\ IF ~Permits(k.op, k.row)
       THEN Return(c, IF k.op = "RetryJob" /\ k.row.state = "FAILED"
                      THEN "retry_limit_exceeded" ELSE "invalid_state", k.job)
       ELSE call' = [call EXCEPT ![c].pc = "commit",
                                 ![c].row = Result(k.op, k.row, k.worker)]
    /\ UNCHANGED <<rows, columns, history>>

\* Swaps the two states of the event.
RecordSlip(h, from, to) ==
    IF from = to THEN h ELSE [last |-> from, chained |-> h.chained /\ h.last = to]

\* insertJobEvent, called when the state changed.
Record(h, from, to) ==
    IF from = to THEN h ELSE [last |-> to, chained |-> h.chained /\ h.last = from]

\* tx.Commit makes the row and its event visible together.
Committed(c) ==
    LET k == call[c] IN
    /\ At(c, "commit")
    /\ rows' = [rows EXCEPT ![k.job] = k.row]
    /\ columns' = IF k.op = "SubmitJob"
                  THEN [columns EXCEPT ![k.job] = k.columns] ELSE columns
    /\ history' = [history EXCEPT ![k.job] = Record(@, k.from, k.row.state)]

Commit(c) == Committed(c) /\ Return(c, "ok", call[c].job)

\* The commit took effect but its answer never arrived.
CommitUnanswered(c) == Committed(c) /\ Return(c, "failed", call[c].job)

\* A deadline, a statement error, a lost connection or the death of the
\* process ends the call; an open transaction is rolled back.
Fails(c) ==
    /\ call[c].pc \notin {"idle", "answered"}
    /\ Return(c, "failed", call[c].job)
    /\ UNCHANGED <<rows, columns, history>>

\* The handler sends toStatus(outcome).
Reply(c) ==
    /\ At(c, "answered")
    /\ call' = [call EXCEPT ![c] = Idle]
    /\ UNCHANGED <<rows, columns, history>>

Step(c) ==
    \/ Get(c) \/ Begin(c)
    \/ Insert(c) \/ Lookup(c)
    \/ Select(c) \/ Apply(c)
    \/ Commit(c)
    \/ Reply(c)

Next ==
    \E c \in Caller :
        \/ \E msg \in Message : Receive(c, msg)
        \/ \E j \in Job, w \in Worker : Decide(c, "AssignToWorkers", j, {w})
        \/ \E j \in Job : Decide(c, "Preempt", j, {})
        \/ Step(c)
        \/ CommitUnanswered(c)
        \/ Fails(c)

Spec == Init /\ [][Next]_vars

\* Statements and callbacks return.  A waiting call is served in the end if it
\* can be again and again: pgxpool and PostgreSQL's row locks queue waiters.
Fairness == \A c \in Caller : SF_vars(Step(c))

FairSpec == Spec /\ Fairness

-----------------------------------------------------------------------------
CallRecord ==
    [pc: {"idle", "get", "begin", "insert", "lookup", "select", "apply",
          "commit", "answered"},
     op: Updates \cup {"none", "SubmitJob", "GetJob"},
     job: Job \cup {NoJob}, worker: SUBSET Worker, row: JobRecord, from: State,
     columns: [gpu_count: Int, priority: Int],
     outcome: {"none", "ok", "invalid", "not_found", "invalid_state",
               "retry_limit_exceeded", "failed"}]

StoreTypeOK ==
    /\ rows \in [Job -> JobRecord]
    /\ columns \in [Job -> [gpu_count: Int, priority: Int]]
    /\ history \in [Job -> [last: State, chained: BOOLEAN]]
    /\ call \in [Caller -> CallRecord]

\* job_events and jobs never disagree, whatever fails or overlaps: the newest
\* event of a job carries the state of its row, and each event starts where
\* the one before it ended ("so the two can never disagree", migration 0002).
HistoryTellsTheState ==
    \A j \in Job : history[j].last = rows[j].state /\ history[j].chained

\* A submission that ran into the unique index finds the job it duplicates:
\* Create's second lookup never answers ErrNotFound, since the insert waits
\* until the other transaction has committed or gone.
DuplicateFindsOriginal ==
    \A c \in Caller : At(c, "lookup") => Original(call[c].row.submissionID) # {}

\* What a client was told stays true until it has read it, with other calls
\* running: an OK to SubmitJob names the one stored job of that submission ID,
\* and an OK to CancelJob means the job is over or being stopped.
RepliesAreTrue ==
    \A c \in Caller :
        LET k == call[c] IN
        At(c, "answered") /\ toStatus(k.outcome) = "OK" =>
            /\ k.op = "SubmitJob" =>
                  /\ Exists(k.job)
                  /\ rows[k.job].submissionID = k.row.submissionID
                  /\ k.row.submissionID # NoSubmission =>
                        Original(k.row.submissionID) = {k.job}
            /\ k.op = "CancelJob" =>
                  \/ Terminal(rows[k.job].state)
                  \/ rows[k.job].state = "CANCEL_REQUESTED"

\* What the scheduler later reads back of an accepted request is within the
\* limits the API checks: no wrapped GPU count or stray priority is stored.
StoredRequestsAreSane ==
    \A j \in Job : Exists(j) =>
        /\ scanJob(columns[j]).gpuCount \in 0..MaxGPUCount
        /\ scanJob(columns[j]).priority \in 0..MaxPriority

\* Every connection of the host waits inside a duplicate submission for
\* another connection of the same pool.
Stalled(h) ==
    Cardinality({c \in Caller : HostOf[c] = h /\ At(c, "lookup")}) >= PoolSize

\* A call that is not cut off returns, unless its host's pool stalls: row
\* locks and the index never make callers wait for each other in a circle, so
\* the second connection of a duplicate submission is the only way to hang.
CallsReturnUnlessStalled ==
    \A c \in Caller :
        ~At(c, "idle") ~> At(c, "idle") \/ Stalled(HostOf[c])

\* What the comment in Create promises of a duplicate: "return the existing
\* job instead".
DuplicatesAreAnswered ==
    \A c \in Caller : At(c, "lookup") ~> At(c, "answered")
=============================================================================
