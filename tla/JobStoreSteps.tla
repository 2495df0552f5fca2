---------------------------- MODULE JobStoreSteps ---------------------------
(***************************************************************************)
(* The inductive invariant of JobStore, and that every step of a call but  *)
(* the commit keeps it.  What a call has in hand agrees with the tables    *)
(* (InHand), and no two calls have the same row, the same new ID or the    *)
(* same submission ID in hand (Apart).  A step that writes no table keeps  *)
(* this if the caller's new state has it (QuietStep).                      *)
(***************************************************************************)
EXTENDS JobStore, TLAPS

Submitting(k) == k.op = "SubmitJob" /\ k.pc \in {"begin", "insert", "lookup", "commit"}
Inserted(k) == k.op = "SubmitJob" /\ k.pc = "commit" /\ k.row.submissionID # NoSubmission
Locking(k) == k.op \in Updates /\ k.pc \in {"apply", "commit"}

\* The operation fits the place where the call is.
InPlace(k) ==
    /\ k.pc = "get" => k.op = "GetJob"
    /\ k.pc \in {"insert", "lookup"} => k.op = "SubmitJob"
    /\ k.pc \in {"select", "apply"} => k.op \in Updates
    /\ k.pc \in {"begin", "commit"} => k.op \in Updates \cup {"SubmitJob"}
    /\ k.pc \in InTransaction \cup {"begin", "get"} => k.job \in Job
    /\ k.op = "AssignToWorkers" /\ k.pc \in InTransaction \cup {"begin"} =>
          \E w \in Worker : k.worker = {w}

\* What the scheduler will read back is within the limits.
Sane(cols) ==
    /\ scanJob(cols).gpuCount \in 0..MaxGPUCount
    /\ scanJob(cols).priority \in 0..MaxPriority

\* A submission in progress: its ID is new, and it carries a fresh row.
SubmitInHand(k) ==
    /\ ~Exists(k.job) /\ k.from = "NONE"
    /\ \E sid \in SubmissionID \cup {NoSubmission}, limit \in RetryLimits, p \in BOOLEAN :
          k.row = NewJob(sid, limit, p)
    /\ Sane(k.columns)
    /\ k.pc = "lookup" => Original(k.row.submissionID) # {}
    /\ Inserted(k) => Original(k.row.submissionID) = {}

\* An update that holds the row lock: the row it read is still the row.
RowInHand(k) ==
    /\ Exists(k.job) /\ k.from = rows[k.job].state
    /\ k.pc = "apply" => k.row = rows[k.job]
    /\ k.pc = "commit" => /\ Permits(k.op, rows[k.job])
                          /\ k.row = Result(k.op, rows[k.job], k.worker)

\* An OK that the client has not read yet.
AnswerInHand(k) ==
    /\ k.op = "SubmitJob" => /\ k.job \in Job /\ Exists(k.job)
                             /\ rows[k.job].submissionID = k.row.submissionID
    /\ k.op = "CancelJob" => /\ k.job \in Job
                             /\ \/ Terminal(rows[k.job].state)
                                \/ rows[k.job].state = "CANCEL_REQUESTED"

InHand(k) ==
    /\ InPlace(k)
    /\ Submitting(k) => SubmitInHand(k)
    /\ Locking(k) => RowInHand(k)
    /\ k.pc = "answered" /\ k.outcome = "ok" => AnswerInHand(k)

Apart(k, l) ==
    /\ Submitting(k) /\ Submitting(l) => k.job # l.job
    /\ Locking(k) /\ Locking(l) => k.job # l.job
    /\ Inserted(k) /\ Inserted(l) => k.row.submissionID # l.row.submissionID

\* A FAILED row has no attempt left, a submission ID names one row, and the
\* events and the columns agree with the rows.
TablesOK ==
    /\ \A j \in Job : ~RetryPermits(rows[j])
    /\ \A i, j \in Job : /\ Exists(i) /\ Exists(j)
                         /\ rows[i].submissionID = rows[j].submissionID
                         /\ rows[i].submissionID # NoSubmission
                         => i = j
    /\ \A j \in Job : history[j].last = rows[j].state /\ history[j].chained
    /\ \A j \in Job : Exists(j) => Sane(columns[j])

IInv ==
    /\ StoreTypeOK
    /\ TablesOK
    /\ \A c \in Caller : InHand(call[c])
    /\ \A c, d \in Caller : c # d => Apart(call[c], call[d])

-----------------------------------------------------------------------------
\* A row's attempt and limit are numbers.
LEMMA RowNumbers ==
    ASSUME NEW r \in JobRecord
    PROVE  r.currentAttempt \in Nat /\ r.retryLimit \in Nat
  <1>1. r.currentAttempt \in Nat
    BY DEF JobRecord
  <1>2. r.retryLimit \in RetryLimits \cup {0}
    BY DEF JobRecord
  <1>3. \A x \in RetryLimits \cup {0} : x \in Nat
    BY RetryLimitsAssumption
  <1> QED BY <1>1, <1>2, <1>3, Zenon

\* What a callback of jobs.Service makes of a stored row: a stored row with
\* the same submission ID, which stays cancelled if it was.
LEMMA ResultRow ==
    ASSUME NEW r \in JobRecord, r.state # "NONE", ~RetryPermits(r),
           NEW op \in Updates, Permits(op, r), NEW W \in SUBSET Worker
    PROVE  LET n == Result(op, r, W) IN
           /\ n \in JobRecord /\ n.state # "NONE" /\ ~RetryPermits(n)
           /\ n.submissionID = r.submissionID
           /\ Terminal(r.state) \/ r.state = "CANCEL_REQUESTED" \/ op = "CancelJob" =>
                 Terminal(n.state) \/ n.state = "CANCEL_REQUESTED"
  <1> DEFINE n == Result(op, r, W)
  <1> SUFFICES /\ n \in JobRecord /\ n.state # "NONE" /\ ~RetryPermits(n)
               /\ n.submissionID = r.submissionID
               /\ Terminal(r.state) \/ r.state = "CANCEL_REQUESTED" \/ op = "CancelJob" =>
                     Terminal(n.state) \/ n.state = "CANCEL_REQUESTED"
    OBVIOUS
  <1> HIDE DEF n
  <1>0. r.retryLimit \in Nat /\ r.currentAttempt \in Nat
    BY RowNumbers
  <1> USE DEF JobRecord, State, Terminal, RetryPermits
  <1>1. CASE op = "CancelJob"
    <2>1. n = Cancel(r) /\ CancelPermits(r)
      BY <1>1 DEF n, Result, Permits
    <2> QED BY <1>1, <2>1, Zenon DEF Cancel, CancelPermits
  <1>2. CASE op = "RetryJob"
    <2>1. RetryPermits(r)
      BY <1>2 DEF Permits
    <2> QED BY <2>1
  <1>3. CASE op = "ReportJobStarted"
    <2>1. n = Start(r) /\ StartPermits(r)
      BY <1>3 DEF n, Result, Permits
    <2> QED BY <1>3, <2>1, Zenon DEF Start, StartPermits
  <1>4. CASE op = "ReportJobCompleted"
    <2>1. n = Complete(r) /\ CompletePermits(r)
      BY <1>4 DEF n, Result, Permits
    <2> QED BY <1>4, <2>1, Zenon DEF Complete, CompletePermits
  <1>5. CASE op = "ReportJobFailed"
    <2>1. n = ApplyFailureOrRetry(r) /\ r.state = "RUNNING"
      BY <1>5 DEF n, Result, Permits, Fail, FailPermits
    <2>2. CASE r.currentAttempt < r.retryLimit
      <3>1. n = [r EXCEPT !.state = "QUEUED", !.currentAttempt = @ + 1,
                          !.startedAt = FALSE, !.assigned = {}]
        BY <2>1, <2>2 DEF ApplyFailureOrRetry
      <3>2. r.currentAttempt + 1 \in Nat
        BY <1>0
      <3> QED BY <1>5, <2>1, <3>1, <3>2, ZenonT(40)
    <2>3. CASE ~(r.currentAttempt < r.retryLimit)
      <3>1. n = [r EXCEPT !.state = "FAILED", !.failedAt = TRUE]
        BY <2>1, <2>3 DEF ApplyFailureOrRetry
      <3> QED BY <1>5, <2>1, <1>0, <2>3, <3>1, Zenon
    <2> QED BY <2>2, <2>3
  <1>6. CASE op = "ReportJobStopped"
    <2>1. n = ReportStopped(r)
      BY <1>6 DEF n, Result
    <2> QED BY <1>6, <2>1, Zenon DEF ReportStopped
  <1>7. CASE op = "AssignToWorkers"
    <2>1. n = Assign(r, W) /\ AssignPermits(r)
      BY <1>7 DEF n, Result, Permits
    <2> QED BY <1>7, <2>1, Zenon DEF Assign, AssignPermits
  <1>8. CASE op = "Preempt"
    <2>1. n = Preempt(r) /\ PreemptPermits(r)
      BY <1>8 DEF n, Result, Permits
    <2> QED BY <1>8, <2>1 DEF Preempt, PreemptPermits
  <1> QED BY <1>1, <1>2, <1>3, <1>4, <1>5, <1>6, <1>7, <1>8 DEF Updates

-----------------------------------------------------------------------------
\* What a call has in hand is judged by the job rows alone.
LEMMA SameRows ==
    ASSUME rows' = rows
    PROVE  \A l : InHand(l)' <=> InHand(l)
  <1>1. /\ \A j : Exists(j)' <=> Exists(j)
        /\ \A sid : Original(sid)' = Original(sid)
    BY DEF Exists, Original
  <1>2. \A l : SubmitInHand(l)' <=> SubmitInHand(l)
    BY <1>1 DEF SubmitInHand
  <1>3. \A l : RowInHand(l)' <=> RowInHand(l)
    BY <1>1 DEF RowInHand
  <1>4. \A l : AnswerInHand(l)' <=> AnswerInHand(l)
    BY <1>1 DEF AnswerInHand
  <1> QED BY <1>2, <1>3, <1>4 DEF InHand

\* A step that leaves the tables alone keeps the invariant if what its caller
\* has in hand afterwards agrees with the tables and with the other calls.
LEMMA QuietStep ==
    ASSUME IInv, UNCHANGED <<rows, columns, history>>, NEW c \in Caller,
           NEW k, k \in CallRecord, call' = [call EXCEPT ![c] = k],
           InHand(k), \A d \in Caller \ {c} : Apart(k, call[d])
    PROVE  IInv'
  <1>1. /\ call \in [Caller -> CallRecord] /\ call' \in [Caller -> CallRecord]
        /\ call'[c] = k /\ \A d \in Caller \ {c} : call'[d] = call[d]
    BY DEF IInv, StoreTypeOK
  <1>2. StoreTypeOK'
    BY <1>1 DEF IInv, StoreTypeOK
  <1>3. TablesOK'
    BY DEF IInv, TablesOK, Exists
  <1>4. \A l : InHand(l)' <=> InHand(l)
    BY SameRows
  <1>5. \A d \in Caller : InHand(call'[d])
    BY <1>1 DEF IInv
  <1>6. \A d \in Caller : InHand(call[d])'
    BY <1>4, <1>5
  <1>7. \A k1, k2 : Apart(k1, k2) => Apart(k2, k1)
    BY DEF Apart
  <1>8. \A d, e \in Caller : d # e => Apart(call'[d], call'[e])
    BY <1>1, <1>7 DEF IInv
  <1> QED BY <1>2, <1>3, <1>6, <1>8 DEF IInv

\* The columns of an unused ID are typed.
LEMMA NoColumnsType == NoColumns \in [gpu_count: Int, priority: Int]
  <1>1. 0 \in Int
    OBVIOUS
  <1> QED BY <1>1, Zenon DEF NoColumns

\* A call that has nothing in hand is apart from every other.
LEMMA Detached ==
    ASSUME NEW k, k.pc \in {"idle", "get", "select", "answered"}
                  \/ (k.pc = "begin" /\ k.op \in Updates)
    PROVE  /\ ~Submitting(k) /\ ~Locking(k) /\ ~Inserted(k)
           /\ \A l : Apart(k, l)
  BY DEF Submitting, Locking, Inserted, Apart, Updates

\* What is left of a call that has returned.
Returned(k, was, outcome, j) ==
    /\ k.pc = "answered" /\ k.op = was.op /\ k.job = j /\ k.outcome = outcome
    /\ k.row.submissionID = was.row.submissionID

\* The answer that Return leaves is a well-formed call.
LEMMA ReturnRecord ==
    ASSUME IInv, NEW c \in Caller,
           NEW outcome \in {"ok", "invalid", "not_found", "invalid_state",
                            "retry_limit_exceeded", "failed"},
           NEW j \in Job \cup {NoJob}, Return(c, outcome, j)
    PROVE  \E k \in CallRecord :
              call' = [call EXCEPT ![c] = k] /\ Returned(k, call[c], outcome, j)
  <1> DEFINE r == [NoRow EXCEPT !.submissionID = call[c].row.submissionID]
             k == [Idle EXCEPT !.pc = "answered", !.op = call[c].op,
                       !.job = j, !.outcome = outcome, !.row = r]
  <1>1. call[c] \in CallRecord
    BY DEF IInv, StoreTypeOK
  <1>2. call[c].row \in JobRecord /\ call[c].op \in Updates \cup {"none", "SubmitJob", "GetJob"}
    BY <1>1 DEF CallRecord
  <1>3. r \in JobRecord /\ r.submissionID = call[c].row.submissionID
    BY <1>2, Zenon DEF NoRow, JobRecord, State
  <1> HIDE DEF r
  <1>4. /\ k.pc = "answered" /\ k.op = call[c].op /\ k.job = j
        /\ k.outcome = outcome /\ k.row = r
    BY DEF Idle
  <1>5. k \in CallRecord
    BY <1>2, <1>3, NoColumnsType, Zenon DEF Idle, CallRecord, State
  <1>6. call' = [call EXCEPT ![c] = k]
    BY DEF Return, r
  <1> HIDE DEF k
  <1>7. Returned(k, call[c], outcome, j)
    BY <1>3, <1>4 DEF Returned
  <1> QED BY <1>5, <1>6, <1>7, Zenon

\* The call returns, with or without an error, and has written nothing.
LEMMA ReturnKeeps ==
    ASSUME IInv, UNCHANGED <<rows, columns, history>>, NEW c \in Caller,
           NEW outcome \in {"ok", "invalid", "not_found", "invalid_state",
                            "retry_limit_exceeded", "failed"},
           NEW j \in Job \cup {NoJob}, Return(c, outcome, j),
           outcome = "ok" /\ call[c].op = "SubmitJob" =>
               /\ j \in Job /\ Exists(j)
               /\ rows[j].submissionID = call[c].row.submissionID,
           ~(outcome = "ok" /\ call[c].op = "CancelJob")
    PROVE  IInv'
  <1>1. PICK k \in CallRecord :
              call' = [call EXCEPT ![c] = k] /\ Returned(k, call[c], outcome, j)
    BY ReturnRecord
  <1>2. ~Submitting(k) /\ ~Locking(k) /\ \A l : Apart(k, l)
    BY <1>1, Detached DEF Returned
  <1>3. k.outcome = "ok" => AnswerInHand(k)
    BY <1>1 DEF AnswerInHand, Returned
  <1>4. InHand(k)
    BY <1>1, <1>2, <1>3 DEF InHand, InPlace, InTransaction, Returned
  <1> QED BY <1>1, <1>2, <1>4, QuietStep, Zenon

\* A submission that passed validation keeps its columns within the limits.
LEMMA AcceptedIsSane ==
    ASSUME NEW msg \in Message, ValidateSubmit(SubmitInput(msg)) = {}
    PROVE  /\ Sane(jobInsertArgs(SubmitInput(msg)))
           /\ jobInsertArgs(SubmitInput(msg)) \in [gpu_count: Int, priority: Int]
  <1> DEFINE in == SubmitInput(msg)
             g == in.resources.gpuCount
             half == 2^(IntWidth - 1)
  <1>1. g \in Nat /\ in.priority \in Int
    BY StoreAssumption DEF SubmitInput
  <1>2. g <= MaxGPUCount
    <2>1. "gpu_count" \notin ValidateSubmit(in)
      OBVIOUS
    <2> QED BY <1>1, <2>1 DEF ValidateSubmit, MaxGPUCount
  <1>3. in.priority \in 0..MaxPriority
    <2>1. "priority" \notin ValidateSubmit(in)
      OBVIOUS
    <2> QED BY <1>1, <2>1 DEF ValidateSubmit, MaxPriority
  <1>4. ToSigned(g) = g
    BY <1>1, <1>2, IntWidthAssumption DEF ToSigned, MaxGPUCount
  <1>5. ToUnsigned(g) = g
    BY <1>1 DEF ToUnsigned
  <1> QED BY <1>1, <1>2, <1>3, <1>4, <1>5
          DEF Sane, jobInsertArgs, scanJob, MaxGPUCount, MaxPriority

-----------------------------------------------------------------------------
\* A call starts: it is refused, or goes to the repository with a fresh ID or
\* with the ID of the job it names.
LEMMA StartKeeps ==
    ASSUME IInv, UNCHANGED <<rows, columns, history>>, NEW c \in Caller,
           NEW k \in CallRecord, call' = [call EXCEPT ![c] = k],
           \/ k.pc = "answered" /\ k.outcome # "ok"
           \/ k.pc = "get" /\ k.op = "GetJob" /\ k.job \in Job
           \/ k.pc = "begin" /\ k.op \in Updates /\ k.job \in Job,
           k.op = "AssignToWorkers" => \E w \in Worker : k.worker = {w}
    PROVE  IInv'
  <1>1. InHand(k)
    BY Detached DEF InHand, InPlace, InTransaction
  <1> QED BY <1>1, Detached, QuietStep, Zenon

\* An unused ID has a typed row.
LEMMA NoRowType == NoRow \in JobRecord
  BY DEF NoRow, JobRecord, State

\* An accepted submission has a new ID and sane columns in hand.
LEMMA ReceiveKeeps ==
    ASSUME IInv, NEW c \in Caller, NEW msg \in Message, Receive(c, msg)
    PROVE  IInv'
  <1>0. /\ msg.rpc \in (Updates \ {"AssignToWorkers", "Preempt"}) \cup {"GetJob", "SubmitJob"}
        /\ AddressedJob(msg) \in Job \cup {NoJob}
    BY StoreAssumption, SMTT(30) DEF Updates, AddressedJob
  <1>1. UNCHANGED <<rows, columns, history>>
    BY Zenon DEF Receive
  <1> DEFINE refused == [Idle EXCEPT !.pc = "answered", !.op = msg.rpc,
                                     !.outcome = "invalid"]
             asked == [Idle EXCEPT !.pc = IF msg.rpc = "GetJob" THEN "get" ELSE "begin",
                                   !.op = msg.rpc, !.job = AddressedJob(msg)]
  <1>2. CASE call' = [call EXCEPT ![c] = refused]
    <2>1. /\ refused.pc = "answered" /\ refused.op = msg.rpc /\ refused.outcome = "invalid"
          /\ refused \in CallRecord
      BY <1>0, NoRowType, NoColumnsType, Zenon DEF Idle, CallRecord, State
    <2> HIDE DEF refused
    <2> QED BY <1>0, <1>1, <1>2, <2>1, StartKeeps, Zenon
  <1>3. CASE /\ msg.rpc # "SubmitJob" /\ AddressedJob(msg) # NoJob
             /\ call' = [call EXCEPT ![c] = asked]
    <2> DEFINE pc == IF msg.rpc = "GetJob" THEN "get" ELSE "begin"
    <2>1. /\ pc \in {"get", "begin"}
          /\ pc = "get" => msg.rpc = "GetJob"
          /\ pc = "begin" => msg.rpc \in Updates
      BY <1>0, <1>3
    <2> HIDE DEF pc
    <2>2. /\ asked.pc = pc /\ asked.op = msg.rpc /\ asked.job = AddressedJob(msg)
          /\ asked \in CallRecord
      BY <1>0, <2>1, NoRowType, NoColumnsType, Zenon DEF Idle, CallRecord, State, pc
    <2> HIDE DEF asked
    <2> QED BY <1>0, <1>1, <1>3, <2>1, <2>2, StartKeeps, Zenon
  <1>4. CASE /\ msg.rpc = "SubmitJob" /\ ValidateSubmit(SubmitInput(msg)) = {}
             /\ \E j \in Job :
                   /\ ~Exists(j) /\ \A d \in Caller : call[d].job # j
                   /\ call' = [call EXCEPT ![c] =
                        [Idle EXCEPT !.pc = "begin", !.op = "SubmitJob", !.job = j,
                            !.row = NewJob(msg.submissionID, msg.in.retryLimit,
                                           msg.in.preemptible),
                            !.columns = jobInsertArgs(SubmitInput(msg))]]
    <2>1. PICK j \in Job :
                   /\ ~Exists(j) /\ \A d \in Caller : call[d].job # j
                   /\ call' = [call EXCEPT ![c] =
                        [Idle EXCEPT !.pc = "begin", !.op = "SubmitJob", !.job = j,
                            !.row = NewJob(msg.submissionID, msg.in.retryLimit,
                                           msg.in.preemptible),
                            !.columns = jobInsertArgs(SubmitInput(msg))]]
      BY <1>4, Zenon
    <2> DEFINE r == NewJob(msg.submissionID, msg.in.retryLimit, msg.in.preemptible)
               cols == jobInsertArgs(SubmitInput(msg))
               k == [Idle EXCEPT !.pc = "begin", !.op = "SubmitJob", !.job = j,
                                 !.row = r, !.columns = cols]
    <2>2. /\ msg.submissionID \in SubmissionID \cup {NoSubmission}
          /\ msg.in.retryLimit \in RetryLimits /\ msg.in.preemptible \in BOOLEAN
      BY <1>4, StoreAssumption
    <2>3. r \in JobRecord
      BY <2>2 DEF NewJob, JobRecord, State
    <2>4. \E sid \in SubmissionID \cup {NoSubmission}, limit \in RetryLimits, p \in BOOLEAN :
             r = NewJob(sid, limit, p)
      BY <2>2
    <2>5. Sane(cols) /\ cols \in [gpu_count: Int, priority: Int]
      BY <1>4, AcceptedIsSane
    <2> HIDE DEF r, cols
    <2>6. /\ k.pc = "begin" /\ k.op = "SubmitJob" /\ k.job = j /\ k.from = "NONE"
          /\ k.row = r /\ k.columns = cols
      BY DEF Idle
    <2>7. k \in CallRecord
      BY <2>3, <2>5, Zenon DEF Idle, CallRecord, State
    <2>8. call' = [call EXCEPT ![c] = k]
      BY <2>1 DEF r, cols
    <2> HIDE DEF k
    <2>9. InHand(k)
      BY <2>1, <2>4, <2>5, <2>6
      DEF InHand, InPlace, SubmitInHand, Submitting, Locking, Inserted, Updates
    <2>10. \A d \in Caller \ {c} : Apart(k, call[d])
      BY <2>1, <2>6 DEF Apart, Locking, Inserted
    <2> QED BY <1>1, <2>7, <2>8, <2>9, <2>10, QuietStep, Zenon
  <1> QED BY <1>2, <1>3, <1>4, Zenon DEF Receive

\* The scheduler's call names an existing job.
LEMMA DecideKeeps ==
    ASSUME IInv, NEW c \in Caller, NEW op \in {"AssignToWorkers", "Preempt"},
           NEW j \in Job, NEW W \in SUBSET Worker, Decide(c, op, j, W),
           op = "AssignToWorkers" => \E w \in Worker : W = {w}
    PROVE  IInv'
  <1> DEFINE k == [Idle EXCEPT !.pc = "begin", !.op = op, !.job = j, !.worker = W]
  <1>1. /\ k.pc = "begin" /\ k.op = op /\ k.job = j /\ k.worker = W
        /\ k \in CallRecord
    BY NoRowType, NoColumnsType, Zenon DEF Idle, CallRecord, State, Updates
  <1>2. call' = [call EXCEPT ![c] = k] /\ UNCHANGED <<rows, columns, history>>
    BY DEF Decide
  <1> HIDE DEF k
  <1> QED BY <1>1, <1>2, StartKeeps, Zenon DEF Updates

\* Calls that move on by their program counter alone.
LEMMA GotoRecord ==
    ASSUME IInv, NEW c \in Caller, NEW pc \in {"insert", "lookup", "select", "commit"},
           Goto(c, pc)
    PROVE  \E k \in CallRecord :
              /\ call' = [call EXCEPT ![c] = k]
              /\ k.pc = pc /\ k.op = call[c].op /\ k.job = call[c].job
              /\ k.worker = call[c].worker /\ k.row = call[c].row
              /\ k.from = call[c].from /\ k.columns = call[c].columns
  <1> DEFINE k == [call[c] EXCEPT !.pc = pc]
  <1>1. call[c] \in CallRecord
    BY DEF IInv, StoreTypeOK
  <1>2. /\ k \in CallRecord
        /\ k.pc = pc /\ k.op = call[c].op /\ k.job = call[c].job
        /\ k.worker = call[c].worker /\ k.row = call[c].row
        /\ k.from = call[c].from /\ k.columns = call[c].columns
    BY <1>1 DEF CallRecord
  <1>3. call' = [call EXCEPT ![c] = k]
    BY DEF Goto
  <1> HIDE DEF k
  <1> QED BY <1>2, <1>3, Zenon

\* Taking a connection reads and writes nothing.
LEMMA BeginKeeps ==
    ASSUME IInv, NEW c \in Caller, Begin(c)
    PROVE  IInv'
  <1> DEFINE pc == IF call[c].op = "SubmitJob" THEN "insert" ELSE "select"
  <1>1. UNCHANGED <<rows, columns, history>> /\ Goto(c, pc) /\ call[c].pc = "begin"
    BY DEF Begin, At
  <1>2. PICK k \in CallRecord :
              /\ call' = [call EXCEPT ![c] = k]
              /\ k.pc = pc /\ k.op = call[c].op /\ k.job = call[c].job
              /\ k.worker = call[c].worker /\ k.row = call[c].row
              /\ k.from = call[c].from /\ k.columns = call[c].columns
    BY <1>1, GotoRecord
  <1>3. InHand(call[c]) /\ \A d \in Caller \ {c} : Apart(call[c], call[d])
    BY DEF IInv
  <1>4. InHand(k)
    BY <1>1, <1>2, <1>3
    DEF InHand, InPlace, SubmitInHand, Submitting, Locking, Inserted, Updates, InTransaction
  <1>5. \A d \in Caller \ {c} : Apart(k, call[d])
    BY <1>1, <1>2, <1>3, SMTT(30) DEF Apart, Submitting, Locking, Inserted
  <1> QED BY <1>1, <1>2, <1>4, <1>5, QuietStep, Zenon

\* An insert goes on only if no other call has, or had, its submission ID.
LEMMA InsertKeeps ==
    ASSUME IInv, NEW c \in Caller, Insert(c)
    PROVE  IInv'
  <1> DEFINE sid == call[c].row.submissionID
             pc == IF sid # NoSubmission /\ Original(sid) # {} THEN "lookup" ELSE "commit"
  <1>1. /\ UNCHANGED <<rows, columns, history>> /\ Goto(c, pc) /\ call[c].pc = "insert"
        /\ sid # NoSubmission => ~KeyLocked(sid)
    BY DEF Insert, At
  <1>2. PICK k \in CallRecord :
              /\ call' = [call EXCEPT ![c] = k]
              /\ k.pc = pc /\ k.op = call[c].op /\ k.job = call[c].job
              /\ k.worker = call[c].worker /\ k.row = call[c].row
              /\ k.from = call[c].from /\ k.columns = call[c].columns
    BY <1>1, GotoRecord
  <1>3. InHand(call[c]) /\ \A d \in Caller \ {c} : Apart(call[c], call[d])
    BY DEF IInv
  <1>4. k.op = "SubmitJob" /\ SubmitInHand(call[c]) /\ k.job \in Job
    BY <1>1, <1>2, <1>3 DEF InHand, InPlace, Submitting, InTransaction
  <1>5. SubmitInHand(k)
    BY <1>2, <1>4, SMTT(30) DEF SubmitInHand, Inserted
  <1>6. InHand(k)
    BY <1>2, <1>4, <1>5 DEF InHand, InPlace, Submitting, Locking, Updates
  <1>7. ASSUME NEW d \in Caller \ {c}
        PROVE  Apart(k, call[d])
    <2>1. Submitting(call[c]) /\ ~Locking(k)
      BY <1>1, <1>2, <1>4 DEF Submitting, Locking, Updates
    <2>2. Submitting(call[d]) => k.job # call[d].job
      BY <1>2, <1>3, <2>1 DEF Apart
    <2>3. Inserted(k) /\ Inserted(call[d]) => k.row.submissionID # call[d].row.submissionID
      BY <1>1, <1>2 DEF Inserted, KeyLocked
    <2> QED BY <2>1, <2>2, <2>3 DEF Apart
  <1> QED BY <1>1, <1>2, <1>6, <1>7, QuietStep, Zenon

\* The second lookup answers with the stored original.
LEMMA LookupKeeps ==
    ASSUME IInv, NEW c \in Caller, Lookup(c)
    PROVE  IInv'
  <1>1. UNCHANGED <<rows, columns, history>> /\ call[c].pc = "lookup"
    BY DEF Lookup, At
  <1>2. call[c].op = "SubmitJob"
    BY <1>1 DEF IInv, InHand, InPlace
  <1>3. CASE Return(c, "not_found", NoJob)
    BY <1>1, <1>2, <1>3, ReturnKeeps
  <1>4. CASE \E j \in Original(call[c].row.submissionID) : Return(c, "ok", j)
    <2>1. PICK j \in Original(call[c].row.submissionID) : Return(c, "ok", j)
      BY <1>4
    <2>2. j \in Job /\ Exists(j) /\ rows[j].submissionID = call[c].row.submissionID
      BY DEF Original
    <2> QED BY <1>1, <1>2, <2>1, <2>2, ReturnKeeps
  <1> QED BY <1>3, <1>4 DEF Lookup

\* A read answers with a job's ID, or ErrNotFound.
LEMMA GetKeeps ==
    ASSUME IInv, NEW c \in Caller, Get(c)
    PROVE  IInv'
  <1> DEFINE outcome == IF Exists(call[c].job) THEN "ok" ELSE "not_found"
  <1>1. /\ UNCHANGED <<rows, columns, history>> /\ call[c].pc = "get"
        /\ Return(c, outcome, call[c].job) /\ outcome \in {"ok", "not_found"}
    BY DEF Get, At
  <1>2. call[c].op = "GetJob" /\ call[c].job \in Job
    BY <1>1 DEF IInv, InHand, InPlace
  <1> HIDE DEF outcome
  <1> QED BY <1>1, <1>2, ReturnKeeps

\* A call that fails has rolled back and has nothing in hand.
LEMMA FailsKeeps ==
    ASSUME IInv, NEW c \in Caller, Fails(c)
    PROVE  IInv'
  <1>1. call[c].job \in Job \cup {NoJob}
    BY DEF IInv, StoreTypeOK, CallRecord
  <1> QED BY <1>1, ReturnKeeps DEF Fails

\* An idle caller has nothing in hand.
LEMMA IdleIsQuiet == Idle \in CallRecord /\ InHand(Idle) /\ \A l : Apart(Idle, l)
  <1>1. Idle \in CallRecord /\ Idle.pc = "idle" /\ Idle.op = "none"
    BY NoRowType, NoColumnsType DEF Idle, CallRecord, State
  <1> QED BY <1>1, Detached DEF InHand, InPlace, InTransaction

\* Sending the answer lets go of it.
LEMMA ReplyKeeps ==
    ASSUME IInv, NEW c \in Caller, Reply(c)
    PROVE  IInv'
  BY IdleIsQuiet, QuietStep, Zenon DEF Reply

\* Whoever selects a row reads it while nobody else has it in hand.
LEMMA SelectKeeps ==
    ASSUME IInv, NEW c \in Caller, Select(c)
    PROVE  IInv'
  <1>1. /\ UNCHANGED <<rows, columns, history>> /\ call[c].pc = "select"
        /\ ~RowLocked(call[c].job)
    BY DEF Select, At
  <1>2. /\ call[c] \in CallRecord /\ InHand(call[c])
        /\ call[c].op \in Updates /\ call[c].job \in Job
    BY <1>1, Zenon DEF IInv, StoreTypeOK, InHand, InPlace, InTransaction
  <1>3. CASE Return(c, "not_found", call[c].job)
    BY <1>1, <1>2, <1>3, ReturnKeeps
  <1>4. CASE /\ Exists(call[c].job)
             /\ call' = [call EXCEPT ![c].pc = "apply", ![c].row = rows[call[c].job],
                                     ![c].from = rows[call[c].job].state]
    <2> DEFINE k == [call[c] EXCEPT !.pc = "apply", !.row = rows[call[c].job],
                                    !.from = rows[call[c].job].state]
    <2>1. rows[call[c].job] \in JobRecord /\ rows[call[c].job].state \in State
      BY <1>2 DEF IInv, StoreTypeOK, JobRecord
    <2>2. /\ k \in CallRecord /\ k.pc = "apply" /\ k.op = call[c].op
          /\ k.job = call[c].job /\ k.worker = call[c].worker
          /\ k.row = rows[k.job] /\ k.from = rows[k.job].state
      BY <1>2, <2>1, Zenon DEF CallRecord
    <2>3. call' = [call EXCEPT ![c] = k]
      BY <1>4, Zenon
    <2> HIDE DEF k
    <2>4. InHand(k)
      BY <1>1, <1>2, <1>4, <2>2
      DEF InHand, InPlace, InTransaction, Submitting, Updates, RowInHand
    <2>5. \A d \in Caller \ {c} : Apart(k, call[d])
      BY <1>1, <1>2, <2>2 DEF Apart, RowLocked, Submitting, Locking, Inserted, Updates
    <2> QED BY <1>1, <2>2, <2>3, <2>4, <2>5, QuietStep, Zenon
  <1> QED BY <1>3, <1>4 DEF Select

\* The callback runs on the row that the call has locked.
LEMMA ApplyKeeps ==
    ASSUME IInv, NEW c \in Caller, Apply(c)
    PROVE  IInv'
  <1>1. UNCHANGED <<rows, columns, history>> /\ call[c].pc = "apply"
    BY DEF Apply, At
  <1>2. /\ call[c] \in CallRecord /\ InHand(call[c])
        /\ call[c].op \in Updates /\ call[c].job \in Job
        /\ call[c].worker \in SUBSET Worker
    BY <1>1 DEF IInv, StoreTypeOK, InHand, InPlace, InTransaction, CallRecord
  <1>3. /\ Exists(call[c].job) /\ call[c].from = rows[call[c].job].state
        /\ call[c].row = rows[call[c].job]
    BY <1>1, <1>2, SMTT(30) DEF InHand, RowInHand, Locking
  <1>4. CASE ~Permits(call[c].op, call[c].row)
    <2> DEFINE outcome == IF call[c].op = "RetryJob" /\ call[c].row.state = "FAILED"
                          THEN "retry_limit_exceeded" ELSE "invalid_state"
    <2>1. Return(c, outcome, call[c].job) /\ outcome \in {"retry_limit_exceeded", "invalid_state"}
      BY <1>4 DEF Apply
    <2> HIDE DEF outcome
    <2> QED BY <1>1, <1>2, <2>1, ReturnKeeps
  <1>5. CASE Permits(call[c].op, call[c].row)
    <2> DEFINE n == Result(call[c].op, call[c].row, call[c].worker)
               k == [call[c] EXCEPT !.pc = "commit", !.row = n]
    <2>1. call' = [call EXCEPT ![c] = k]
      BY <1>5, Zenon DEF Apply
    <2>2. rows[call[c].job] \in JobRecord /\ ~RetryPermits(rows[call[c].job])
      BY <1>2, Zenon DEF IInv, StoreTypeOK, TablesOK
    <2>3. n \in JobRecord
      BY <1>2, <1>3, <1>5, <2>2, ResultRow DEF Exists
    <2> HIDE DEF n
    <2>4. /\ k \in CallRecord /\ k.pc = "commit" /\ k.op = call[c].op
          /\ k.job = call[c].job /\ k.worker = call[c].worker
          /\ k.row = n /\ k.from = call[c].from
      BY <1>2, <2>3, Zenon DEF CallRecord
    <2> HIDE DEF k
    <2>5. RowInHand(k)
      BY <1>3, <1>5, <2>4, SMTT(30) DEF RowInHand, n
    <2>6. InHand(k)
      BY <1>1, <1>2, <2>4, <2>5
      DEF InHand, InPlace, InTransaction, Submitting, Updates
    <2>7. \A d \in Caller \ {c} : Apart(call[c], call[d])
      BY SMTT(30) DEF IInv
    <2>8. \A d \in Caller \ {c} : Apart(k, call[d])
      BY <1>1, <1>2, <2>4, <2>7, SMTT(30) DEF Apart, Submitting, Locking, Inserted, Updates
    <2> QED BY <1>1, <2>1, <2>4, <2>6, <2>8, QuietStep, Zenon
  <1> QED BY <1>4, <1>5

=============================================================================
