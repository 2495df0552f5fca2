--------------------------- MODULE JobStoreProofs ---------------------------
(***************************************************************************)
(* Proofs about JobStore, for any jobs, callers, hosts, pool size and      *)
(* messages, from the lemmas of JobStoreSteps: a commit writes the one row *)
(* that its caller has in hand (CommitKeeps), so the invariant holds, and  *)
(* with it the properties of the store and its refinement of JobService.   *)
(***************************************************************************)
EXTENDS JobStoreSteps, JobStoreService

\* Two fields of a new row.
LEMMA NewJobFields ==
    \A sid, limit, p : /\ NewJob(sid, limit, p).state = "QUEUED"
                       /\ NewJob(sid, limit, p).submissionID = sid
  BY DEF NewJob

\* The row that a call is about to commit.
LEMMA CommittedRow ==
    ASSUME IInv, NEW c \in Caller, call[c].pc = "commit"
    PROVE  LET j == call[c].job
               n == call[c].row IN
           /\ j \in Job /\ call[c].op \in Updates \cup {"SubmitJob"}
           /\ n \in JobRecord /\ n.state # "NONE" /\ ~RetryPermits(n)
           /\ call[c].from = rows[j].state
           /\ call[c].op = "SubmitJob" =>
                 /\ ~Exists(j) /\ Sane(call[c].columns)
                 /\ n.submissionID # NoSubmission => Original(n.submissionID) = {}
           /\ call[c].op # "SubmitJob" =>
                 /\ Exists(j) /\ n.submissionID = rows[j].submissionID
                 /\ \/ Terminal(rows[j].state) \/ rows[j].state = "CANCEL_REQUESTED"
                    \/ call[c].op = "CancelJob"
                    => Terminal(n.state) \/ n.state = "CANCEL_REQUESTED"
  <1>1. /\ call[c] \in CallRecord /\ InHand(call[c])
        /\ call[c].op \in Updates \cup {"SubmitJob"} /\ call[c].job \in Job
        /\ call[c].row \in JobRecord /\ call[c].worker \in SUBSET Worker
    BY DEF IInv, StoreTypeOK, InHand, InPlace, InTransaction, CallRecord
  <1>2. CASE call[c].op = "SubmitJob"
    <2>1. SubmitInHand(call[c])
      BY <1>1, <1>2, SMTT(30) DEF InHand, Submitting
    <2>2. call[c].row.state = "QUEUED"
      BY <2>1, NewJobFields, SMTT(30) DEF SubmitInHand
    <2> QED BY <1>1, <1>2, <2>1, <2>2, SMTT(30) DEF SubmitInHand, Inserted, Exists, RetryPermits
  <1>3. CASE call[c].op \in Updates
    <2>1. RowInHand(call[c]) /\ call[c].op # "SubmitJob"
      BY <1>1, <1>3, SMTT(30) DEF InHand, Locking, Updates
    <2>2. rows[call[c].job] \in JobRecord /\ ~RetryPermits(rows[call[c].job])
      BY <1>1 DEF IInv, StoreTypeOK, TablesOK
    <2>3. /\ Exists(call[c].job) /\ call[c].from = rows[call[c].job].state
          /\ Permits(call[c].op, rows[call[c].job])
          /\ call[c].row = Result(call[c].op, rows[call[c].job], call[c].worker)
      BY <2>1, Zenon DEF RowInHand, Committed, At
    <2> DEFINE r == rows[call[c].job]
               m == Result(call[c].op, r, call[c].worker)
    <2>4. /\ m \in JobRecord /\ m.state # "NONE" /\ ~RetryPermits(m)
          /\ m.submissionID = r.submissionID
          /\ Terminal(r.state) \/ r.state = "CANCEL_REQUESTED" \/ call[c].op = "CancelJob"
                => Terminal(m.state) \/ m.state = "CANCEL_REQUESTED"
      BY <1>1, <1>3, <2>2, <2>3, ResultRow, Zenon DEF Exists
    <2>5. call[c].row = m
      BY <2>3, Zenon
    <2> HIDE DEF m
    <2> QED BY <1>1, <2>1, <2>3, <2>4, <2>5, Zenon
  <1> QED BY <1>1, <1>2, <1>3, Zenon

\* A commit writes the row its caller has in hand; nobody else has that row,
\* its ID or its submission ID in hand.
LEMMA CommitKeeps ==
    ASSUME IInv, NEW c \in Caller, Committed(c), NEW outcome \in {"ok", "failed"},
           Return(c, outcome, call[c].job)
    PROVE  IInv'
  <1> DEFINE j == call[c].job
             n == call[c].row
             submit == call[c].op = "SubmitJob"
  <1>1. /\ call[c].pc = "commit"
        /\ rows' = [rows EXCEPT ![j] = n]
        /\ columns' = IF submit THEN [columns EXCEPT ![j] = call[c].columns] ELSE columns
        /\ history' = [history EXCEPT ![j] = Record(@, call[c].from, n.state)]
    BY ZenonT(40) DEF Committed, At
  <1>2. /\ j \in Job /\ call[c].op \in Updates \cup {"SubmitJob"}
        /\ n \in JobRecord /\ n.state # "NONE" /\ ~RetryPermits(n)
        /\ call[c].from = rows[j].state
        /\ submit =>
              /\ ~Exists(j) /\ Sane(call[c].columns)
              /\ n.submissionID # NoSubmission => Original(n.submissionID) = {}
        /\ ~submit =>
              /\ Exists(j) /\ n.submissionID = rows[j].submissionID
              /\ \/ Terminal(rows[j].state) \/ rows[j].state = "CANCEL_REQUESTED"
                 \/ call[c].op = "CancelJob"
                 => Terminal(n.state) \/ n.state = "CANCEL_REQUESTED"
    BY <1>1, CommittedRow, ZenonT(40)
  <1>3. PICK k \in CallRecord :
              call' = [call EXCEPT ![c] = k] /\ Returned(k, call[c], outcome, j)
    <2>1. outcome \in {"ok", "invalid", "not_found", "invalid_state",
                       "retry_limit_exceeded", "failed"}
      OBVIOUS
    <2>2. call[c].job \in Job \cup {NoJob}
      BY <1>2
    <2> QED BY <2>1, <2>2, ReturnRecord
  <1>4. /\ rows \in [Job -> JobRecord] /\ columns \in [Job -> [gpu_count: Int, priority: Int]]
        /\ history \in [Job -> [last: State, chained: BOOLEAN]]
        /\ call \in [Caller -> CallRecord] /\ TablesOK
        /\ \A d \in Caller : InHand(call[d])
        /\ \A d, e \in Caller : d # e => Apart(call[d], call[e])
    BY SMTT(30) DEF IInv, StoreTypeOK
  <1>5. /\ rows'[j] = n /\ \A i \in Job \ {j} : rows'[i] = rows[i]
        /\ call'[c] = k /\ \A d \in Caller \ {c} : call'[d] = call[d]
        /\ \A i \in Job : i # j => columns'[i] = columns[i] /\ history'[i] = history[i]
        /\ columns'[j] = IF submit THEN call[c].columns ELSE columns[j]
    BY <1>1, <1>2, <1>3, <1>4, ZenonT(40)
  <1>6. history'[j] = [last |-> n.state, chained |-> TRUE]
    <2>1. history'[j] = Record(history[j], rows[j].state, n.state)
      BY <1>1, <1>2, <1>4, ZenonT(40)
    <2>2. /\ history[j] \in [last: State, chained: BOOLEAN]
          /\ history[j].last = rows[j].state /\ history[j].chained
      BY <1>2, <1>4, SMTT(30) DEF TablesOK
    <2>3. history[j] = [last |-> rows[j].state, chained |-> TRUE]
      BY <2>2, Zenon
    <2> QED BY <2>1, <2>2, <2>3, ZenonT(40) DEF Record
  <1> HIDE DEF j, n, submit
  <1>7. StoreTypeOK'
    <2>1. rows' \in [Job -> JobRecord]
      BY <1>1, <1>2, <1>4
    <2>2. call[c].columns \in [gpu_count: Int, priority: Int]
      BY <1>4 DEF CallRecord
    <2>3. columns' \in [Job -> [gpu_count: Int, priority: Int]]
      BY <1>1, <1>4, <2>2, Zenon
    <2>4. n.state \in State
      BY <1>2 DEF JobRecord
    <2>5. history' \in [Job -> [last: State, chained: BOOLEAN]]
      <3> DEFINE h == [last |-> n.state, chained |-> TRUE]
      <3>1. h \in [last: State, chained: BOOLEAN]
        BY <2>4
      <3> HIDE DEF h
      <3>2. history' = [history EXCEPT ![j] = h]
        BY <1>1, <1>2, <1>4, <1>6, ZenonT(40) DEF h
      <3> QED BY <1>4, <3>1, <3>2, Zenon
    <2>6. call' \in [Caller -> CallRecord]
      BY <1>3, <1>4
    <2> QED BY <2>1, <2>3, <2>5, <2>6 DEF StoreTypeOK
  <1>8. TablesOK'
    <2>1. \A i \in Job : ~RetryPermits(rows'[i])
      BY <1>2, <1>4, <1>5, SMTT(30) DEF TablesOK
    <2>2. ASSUME NEW i \in Job, i # j, Exists(i), n.submissionID # NoSubmission
          PROVE  rows[i].submissionID # n.submissionID
      <3>1. CASE submit
        BY <1>2, <2>2, <3>1, SMTT(30) DEF Original
      <3>2. CASE ~submit
        BY <1>2, <1>4, <2>2, <3>2, ZenonT(40) DEF TablesOK
      <3> QED BY <3>1, <3>2, SMTT(30)
    <2>3. \A i, l \in Job : /\ rows'[i].state # "NONE" /\ rows'[l].state # "NONE"
                            /\ rows'[i].submissionID = rows'[l].submissionID
                            /\ rows'[i].submissionID # NoSubmission
                            => i = l
      <3>1. \A i \in Job : i # j => rows'[i] = rows[i]
        BY <1>5, Zenon
      <3>2. ASSUME NEW i \in Job, NEW l \in Job, i # l,
                   rows'[i].state # "NONE", rows'[l].state # "NONE",
                   rows'[i].submissionID = rows'[l].submissionID,
                   rows'[i].submissionID # NoSubmission
            PROVE  FALSE
        <4>1. CASE i # j /\ l # j
          BY <1>4, <3>1, <3>2, <4>1, SMTT(30) DEF TablesOK, Exists
        <4>2. CASE i = j
          BY <1>5, <2>2, <3>1, <3>2, <4>2, Zenon DEF Exists
        <4>3. CASE l = j
          BY <1>5, <2>2, <3>1, <3>2, <4>3, Zenon DEF Exists
        <4> QED BY <4>1, <4>2, <4>3, Zenon
      <3> QED BY <3>2, Zenon
    <2>4. \A i \in Job : history'[i].last = rows'[i].state /\ history'[i].chained
      <3> SUFFICES ASSUME NEW i \in Job
                   PROVE  history'[i].last = rows'[i].state /\ history'[i].chained
        OBVIOUS
      <3>1. CASE i = j
        <4>1. history'[j].last = n.state /\ history'[j].chained
          BY <1>6
        <4> QED BY <1>5, <3>1, <4>1, Zenon
      <3>2. CASE i # j
        BY <1>4, <1>5, <1>6, <3>2, Zenon DEF TablesOK
      <3> QED BY <3>1, <3>2, Zenon
    <2>5. \A i \in Job : rows'[i].state # "NONE" => Sane(columns'[i])
      BY <1>2, <1>4, <1>5 DEF TablesOK, Exists
    <2> QED BY <2>1, <2>3, <2>4, <2>5, ZenonT(40) DEF TablesOK, Exists, RetryPermits, Sane
  <1>9. \A i \in Job : Exists(i)' <=> (Exists(i) \/ i = j)
    BY <1>2, <1>5 DEF Exists
  <1>10. \A sid : /\ Original(sid) \subseteq Original(sid)'
                  /\ (~submit \/ sid # n.submissionID) => Original(sid)' \subseteq Original(sid)
    BY <1>2, <1>5, <1>9 DEF Original, Exists
  <1>11. ASSUME NEW d \in Caller \ {c}
         PROVE  InHand(call[d])'
    <2> DEFINE l == call[d]
    <2>1. l' = l /\ InHand(l) /\ l \in CallRecord /\ Apart(call[c], l)
      BY <1>4, <1>5
    <2> HIDE DEF l
    <2>2. InPlace(l)
      BY <2>1 DEF InHand
    <2>3. ASSUME Submitting(l)
          PROVE  SubmitInHand(l)'
      <3>1. SubmitInHand(l) /\ l.job \in Job
        BY <2>1, <2>2, <2>3 DEF InHand, InPlace, Submitting, InTransaction
      <3>2. l.job # j
        <4>1. CASE submit
          BY <1>1, <2>1, <2>3, <4>1, ZenonT(40) DEF Apart, Submitting, submit, j
        <4>2. CASE ~submit
          BY <1>2, <3>1, <4>2 DEF SubmitInHand
        <4> QED BY <4>1, <4>2, SMTT(30)
      <3>3. ~Exists(l.job)'
        BY <1>9, <3>1, <3>2, <2>1, ZenonT(40) DEF SubmitInHand
      <3>4. l.pc = "lookup" => Original(l.row.submissionID)' # {}
        BY <1>10, <2>1, <3>1, SMTT(30) DEF SubmitInHand
      <3>5. Inserted(l) => Original(l.row.submissionID)' = {}
        <4> HAVE Inserted(l)
        <4>1. Original(l.row.submissionID) = {}
          BY <3>1, SMTT(30) DEF SubmitInHand
        <4>2. ~submit \/ l.row.submissionID # n.submissionID
          BY <1>1, <2>1, SMTT(30) DEF Apart, Inserted, submit, n
        <4> QED BY <1>10, <2>1, <4>1, <4>2
      <3> QED BY <2>1, <3>1, <3>3, <3>4, <3>5, ZenonT(40) DEF SubmitInHand, Inserted, Sane
    <2>4. ASSUME Locking(l)
          PROVE  RowInHand(l)'
      <3>1. RowInHand(l) /\ l.job \in Job
        BY <2>1, <2>2, <2>4, ZenonT(40) DEF InHand, InPlace, Locking, InTransaction
      <3>2. l.job # j
        <4>1. CASE submit
          BY <1>2, <3>1, <4>1, SMTT(30) DEF RowInHand
        <4>2. CASE ~submit
          BY <1>1, <1>2, <2>1, <2>4, <4>2, ZenonT(40) DEF Apart, Locking, submit, j
        <4> QED BY <4>1, <4>2
      <3> QED BY <1>5, <2>1, <3>1, <3>2, ZenonT(40) DEF RowInHand, Exists
    <2>5. ASSUME l.pc = "answered", l.outcome = "ok"
          PROVE  AnswerInHand(l)'
      <3>1. AnswerInHand(l)
        BY <2>1, <2>5, ZenonT(40) DEF InHand
      <3>2. CASE l.op = "SubmitJob"
        <4>1. l.job \in Job /\ Exists(l.job) /\ rows[l.job].submissionID = l.row.submissionID
          BY <3>1, <3>2, ZenonT(40) DEF AnswerInHand
        <4>2. rows'[l.job].submissionID = rows[l.job].submissionID
          BY <1>2, <1>5, <4>1, ZenonT(40)
        <4> QED BY <1>9, <2>1, <3>2, <4>1, <4>2, ZenonT(40) DEF AnswerInHand
      <3>3. CASE l.op = "CancelJob"
        <4>1. l.job \in Job /\ (Terminal(rows[l.job].state) \/ rows[l.job].state = "CANCEL_REQUESTED")
          BY <3>1, <3>3 DEF AnswerInHand
        <4>2. Exists(l.job)
          BY <4>1, ZenonT(40) DEF Exists, Terminal
        <4>3. Terminal(rows'[l.job].state) \/ rows'[l.job].state = "CANCEL_REQUESTED"
          BY <1>2, <1>5, <4>1, <4>2, ZenonT(40)
        <4> QED BY <2>1, <3>3, <4>1, <4>3, ZenonT(40) DEF AnswerInHand, Terminal
      <3> QED BY <2>1, <3>1, <3>2, <3>3 DEF AnswerInHand
    <2>6. InHand(l)'
      BY <2>1, <2>2, <2>3, <2>4, <2>5, ZenonT(40) DEF InHand, InPlace, Submitting, Locking
    <2> QED BY <2>6 DEF l
  <1>12. InHand(call[c])'
    <2>1. /\ k.pc = "answered" /\ k.op = call[c].op /\ k.job = j
          /\ k.row.submissionID = n.submissionID
      BY <1>3 DEF Returned, n
    <2>2. ~Submitting(k) /\ ~Locking(k)
      BY <2>1, Detached, SMTT(30)
    <2>3. rows'[j].state # "NONE" /\ rows'[j].submissionID = k.row.submissionID
      BY <1>2, <1>5, <2>1, ZenonT(40)
    <2>4. k.op = "CancelJob" =>
             Terminal(rows'[j].state) \/ rows'[j].state = "CANCEL_REQUESTED"
      <3> HAVE k.op = "CancelJob"
      <3>1. ~submit
        BY <2>1 DEF submit
      <3> QED BY <1>2, <1>5, <2>1, <3>1
    <2>5. InPlace(k)
      BY <2>1, ZenonT(40) DEF InPlace, InTransaction
    <2>6. AnswerInHand(call[c])'
      BY <1>2, <1>5, <2>1, <2>3, <2>4, ZenonT(40) DEF AnswerInHand, Terminal, Exists
    <2>7. InPlace(call[c])' /\ ~Submitting(call[c])' /\ ~Locking(call[c])'
      BY <1>5, <2>2, <2>5, SMTT(30) DEF InPlace, Submitting, Locking
    <2> QED BY <2>6, <2>7 DEF InHand
  <1>13. \A d, e \in Caller : d # e => Apart(call'[d], call'[e])
    <2>1. \A l : Apart(k, l) /\ Apart(l, k)
      <3>1. ~Submitting(k) /\ ~Locking(k) /\ ~Inserted(k)
        BY <1>3, Detached, SMTT(30) DEF Returned
      <3> QED BY <3>1, SMTT(30) DEF Apart
    <2> QED BY <1>4, <1>5, <2>1
  <1> QED BY <1>7, <1>8, <1>11, <1>12, <1>13 DEF IInv

-----------------------------------------------------------------------------
\* The invariant holds at the start.
LEMMA InitKeeps == Init => IInv
  <1> SUFFICES ASSUME Init PROVE IInv
    OBVIOUS
  <1>1. /\ \A j \in Job : /\ rows[j] = NoRow /\ columns[j] = NoColumns
                          /\ history[j] = [last |-> "NONE", chained |-> TRUE]
        /\ \A c \in Caller : call[c] = Idle
    BY SMTT(30) DEF Init
  <1>2. \A j \in Job : rows[j].state = "NONE"
    BY <1>1 DEF NoRow
  <1>3. StoreTypeOK
    BY NoRowType, NoColumnsType, IdleIsQuiet, SMTT(30) DEF Init, StoreTypeOK, State
  <1>4. TablesOK
    BY <1>1, <1>2 DEF TablesOK, Exists, RetryPermits
  <1> QED BY <1>1, <1>3, <1>4, IdleIsQuiet DEF IInv

\* Every step keeps it.
LEMMA NextKeeps == IInv /\ [Next]_vars => IInv'
  <1> SUFFICES ASSUME IInv, [Next]_vars PROVE IInv'
    OBVIOUS
  <1>1. CASE UNCHANGED vars
    <2>1. rows' = rows /\ columns' = columns /\ history' = history /\ call' = call
      BY <1>1 DEF vars
    <2>2. StoreTypeOK' /\ TablesOK'
      BY <2>1 DEF IInv, StoreTypeOK, TablesOK, Exists
    <2>3. \A l : InHand(l)' <=> InHand(l)
      BY <2>1, SameRows
    <2>4. \A c \in Caller : InHand(call[c])'
      BY <2>1, <2>3 DEF IInv
    <2>5. \A c, d \in Caller : c # d => Apart(call'[c], call'[d])
      BY <2>1 DEF IInv
    <2> QED BY <2>2, <2>4, <2>5 DEF IInv
  <1>2. ASSUME NEW c \in Caller, NEW msg \in Message, Receive(c, msg)
        PROVE  IInv'
    BY <1>2, ReceiveKeeps
  <1>3. ASSUME NEW c \in Caller, NEW j \in Job, NEW w \in Worker,
               Decide(c, "AssignToWorkers", j, {w})
        PROVE  IInv'
    BY <1>3, DecideKeeps
  <1>4. ASSUME NEW c \in Caller, NEW j \in Job, Decide(c, "Preempt", j, {})
        PROVE  IInv'
    BY <1>4, DecideKeeps
  <1>5. ASSUME NEW c \in Caller, Step(c)
        PROVE  IInv'
    <2>1. CASE Commit(c)
      BY <2>1, CommitKeeps DEF Commit
    <2> QED BY <1>5, <2>1, GetKeeps, BeginKeeps, InsertKeeps, LookupKeeps, SelectKeeps,
               ApplyKeeps, ReplyKeeps DEF Step
  <1>6. ASSUME NEW c \in Caller, CommitUnanswered(c)
        PROVE  IInv'
    BY <1>6, CommitKeeps DEF CommitUnanswered
  <1>7. ASSUME NEW c \in Caller, Fails(c)
        PROVE  IInv'
    BY <1>7, FailsKeeps
  <1> QED BY <1>1, <1>2, <1>3, <1>4, <1>5, <1>6, <1>7, Zenon DEF Next

\* IInv is an invariant of the job store, whatever overlaps or fails.
THEOREM StoreInvariance == Spec => []IInv
  BY InitKeeps, NextKeeps, PTL DEF Spec

\* The tables and the calls stay well-typed.
THEOREM StoreTypeIsInvariant == Spec => []StoreTypeOK
  <1>1. IInv => StoreTypeOK
    BY SMTT(30) DEF IInv
  <1> QED BY <1>1, StoreInvariance, PTL

\* job_events and jobs never disagree, for any number of calls and failures:
\* insertJobEvent runs in the transaction that changes the row, and the
\* from_state it writes was read under the row lock.
THEOREM HistoryIsTrue == Spec => []HistoryTellsTheState
  <1>1. IInv => HistoryTellsTheState
    BY ZenonT(40) DEF IInv, TablesOK, HistoryTellsTheState
  <1> QED BY <1>1, StoreInvariance, PTL

\* Create's second lookup always finds the job that its insert ran into.
THEOREM DuplicateIsFound == Spec => []DuplicateFindsOriginal
  <1>1. IInv => DuplicateFindsOriginal
    <2> SUFFICES ASSUME IInv, NEW c \in Caller, call[c].pc = "lookup"
                 PROVE  Original(call[c].row.submissionID) # {}
      BY ZenonT(40) DEF DuplicateFindsOriginal, At
    <2>1. Submitting(call[c]) /\ InHand(call[c])
      BY ZenonT(40) DEF IInv, InHand, InPlace, Submitting
    <2> QED BY <2>1 DEF InHand, SubmitInHand
  <1> QED BY <1>1, StoreInvariance, PTL

\* Every OK to SubmitJob or CancelJob is true when the client reads it.
THEOREM RepliesStayTrue == Spec => []RepliesAreTrue
  <1>1. IInv => RepliesAreTrue
    <2> SUFFICES ASSUME IInv, NEW c \in Caller, call[c].pc = "answered",
                        toStatus(call[c].outcome) = "OK"
                 PROVE  /\ call[c].op = "SubmitJob" =>
                              /\ Exists(call[c].job)
                              /\ rows[call[c].job].submissionID = call[c].row.submissionID
                              /\ call[c].row.submissionID # NoSubmission =>
                                    Original(call[c].row.submissionID) = {call[c].job}
                        /\ call[c].op = "CancelJob" =>
                              \/ Terminal(rows[call[c].job].state)
                              \/ rows[call[c].job].state = "CANCEL_REQUESTED"
      BY DEF RepliesAreTrue, At
    <2>1. call[c].outcome = "ok"
      BY DEF toStatus, IInv, StoreTypeOK, CallRecord
    <2>2. AnswerInHand(call[c])
      BY <2>1, ZenonT(40) DEF IInv, InHand
    <2>3. ASSUME call[c].op = "SubmitJob", call[c].row.submissionID # NoSubmission
          PROVE  Original(call[c].row.submissionID) = {call[c].job}
      BY <2>2, <2>3, ZenonT(40) DEF AnswerInHand, IInv, TablesOK, Original
    <2> QED BY <2>2, <2>3, ZenonT(40) DEF AnswerInHand
  <1> QED BY <1>1, StoreInvariance, PTL

\* No stored request exceeds the limits of ValidateSubmit after the trip
\* through the signed columns.
THEOREM StoredIsSane == Spec => []StoredRequestsAreSane
  <1>1. IInv => StoredRequestsAreSane
    BY SMTT(30) DEF IInv, TablesOK, Sane, StoredRequestsAreSane
  <1> QED BY <1>1, StoreInvariance, PTL

-----------------------------------------------------------------------------
\* The atomic service applies the same callbacks.
LEMMA SameCallbacks ==
    /\ Atomic!NoRow = NoRow
    /\ \A sid, limit, p : Atomic!NewJob(sid, limit, p) = NewJob(sid, limit, p)
    /\ \A r : /\ Atomic!CancelPermits(r) <=> CancelPermits(r)
              /\ Atomic!RetryPermits(r) <=> RetryPermits(r)
              /\ Atomic!StartPermits(r) <=> StartPermits(r)
              /\ Atomic!CompletePermits(r) <=> CompletePermits(r)
              /\ Atomic!FailPermits(r) <=> FailPermits(r)
              /\ Atomic!AssignPermits(r) <=> AssignPermits(r)
              /\ Atomic!PreemptPermits(r) <=> PreemptPermits(r)
    /\ \A r : /\ Atomic!Cancel(r) = Cancel(r) /\ Atomic!Retry(r) = Retry(r)
              /\ Atomic!Start(r) = Start(r) /\ Atomic!Complete(r) = Complete(r)
              /\ Atomic!Fail(r) = Fail(r) /\ Atomic!Preempt(r) = Preempt(r)
              /\ Atomic!ReportStopped(r) = ReportStopped(r)
    /\ \A r, W : Atomic!Assign(r, W) = Assign(r, W)
  <1>1. /\ Atomic!NoRow = NoRow
        /\ \A sid, limit, p : Atomic!NewJob(sid, limit, p) = NewJob(sid, limit, p)
    BY DEF Atomic!NoRow, NoRow, Atomic!NewJob, NewJob
  <1>2. \A r : /\ Atomic!CancelPermits(r) <=> CancelPermits(r)
               /\ Atomic!RetryPermits(r) <=> RetryPermits(r)
               /\ Atomic!StartPermits(r) <=> StartPermits(r)
               /\ Atomic!CompletePermits(r) <=> CompletePermits(r)
               /\ Atomic!FailPermits(r) <=> FailPermits(r)
               /\ Atomic!AssignPermits(r) <=> AssignPermits(r)
               /\ Atomic!PreemptPermits(r) <=> PreemptPermits(r)
    BY DEF Atomic!CancelPermits, CancelPermits, Atomic!Terminal, Terminal,
           Atomic!RetryPermits, RetryPermits, Atomic!StartPermits, StartPermits,
           Atomic!CompletePermits, CompletePermits, Atomic!FailPermits, FailPermits,
           Atomic!AssignPermits, AssignPermits, Atomic!PreemptPermits, PreemptPermits
  <1>3. \A r : /\ Atomic!Cancel(r) = Cancel(r) /\ Atomic!Retry(r) = Retry(r)
               /\ Atomic!Start(r) = Start(r) /\ Atomic!Complete(r) = Complete(r)
               /\ Atomic!Fail(r) = Fail(r) /\ Atomic!Preempt(r) = Preempt(r)
               /\ Atomic!ReportStopped(r) = ReportStopped(r)
    BY DEF Atomic!Cancel, Cancel, Atomic!Retry, Retry, Atomic!Start, Start,
           Atomic!Complete, Complete, Atomic!Fail, Fail, Atomic!ApplyFailureOrRetry,
           ApplyFailureOrRetry, Atomic!Preempt, Preempt, Atomic!ReportStopped, ReportStopped
  <1>4. \A r, W : Atomic!Assign(r, W) = Assign(r, W)
    BY DEF Atomic!Assign, Assign
  <1> QED BY <1>1, <1>2, <1>3, <1>4, SMTT(30)

\* A commit is one operation of the atomic service.
LEMMA CommitIsAtomic ==
    ASSUME IInv, NEW c \in Caller, Committed(c)
    PROVE  Atomic!Next
  <1> DEFINE j == call[c].job
             r == rows[j]
  <1>1. rows' = [rows EXCEPT ![j] = call[c].row] /\ call[c].pc = "commit"
    BY SMTT(30) DEF Committed, At
  <1>2. /\ InHand(call[c]) /\ j \in Job /\ call[c].op \in Updates \cup {"SubmitJob"}
    BY <1>1, ZenonT(40) DEF IInv, InHand, InPlace, InTransaction
  <1>3. CASE call[c].op = "SubmitJob"
    <2>1. SubmitInHand(call[c])
      BY <1>1, <1>2, <1>3, SMTT(30) DEF InHand, Submitting
    <2>2. PICK sid \in SubmissionID \cup {NoSubmission}, limit \in RetryLimits, p \in BOOLEAN :
             call[c].row = NewJob(sid, limit, p)
      BY <2>1, ZenonT(40) DEF SubmitInHand
    <2>3. call[c].row.submissionID = sid
      <3>1. NewJob(sid, limit, p).submissionID = sid
        BY NewJobFields, Zenon
      <3> QED BY <2>2, <3>1, Zenon
    <2>4. ~Exists(j) /\ (sid # NoSubmission => Original(sid) = {})
      BY <1>1, <1>3, <2>1, <2>3, ZenonT(40) DEF SubmitInHand, Inserted
    <2>5. Atomic!SubmitJob(j, sid, limit, p)
      BY <1>1, <2>2, <2>3, <2>4, SameCallbacks, Zenon
      DEF Atomic!SubmitJob, Atomic!Create, Atomic!Exists, Exists, Original
    <2> QED BY <1>2, <2>5 DEF Atomic!Next
  <1>4. CASE call[c].op \in Updates
    <2>1. RowInHand(call[c])
      BY <1>1, <1>2, <1>4 DEF InHand, Locking
    <2>2. /\ Exists(j) /\ Permits(call[c].op, r)
          /\ rows' = [rows EXCEPT ![j] = Result(call[c].op, r, call[c].worker)]
      BY <1>1, <2>1, Zenon DEF RowInHand
    <2> HIDE DEF j, r
    <2>3. CASE call[c].op = "CancelJob"
      <3>1. Atomic!CancelJob(j)
        BY <2>2, <2>3, SameCallbacks, Zenon DEF Atomic!CancelJob, Atomic!Update, Atomic!Exists, Exists,
                          Permits, Result, r
      <3> QED BY <1>2, <3>1 DEF Atomic!Next
    <2>4. CASE call[c].op = "RetryJob"
      <3>1. Atomic!RetryJob(j)
        BY <2>2, <2>4, SameCallbacks, Zenon DEF Atomic!RetryJob, Atomic!Update, Atomic!Exists, Exists,
                          Permits, Result, r
      <3> QED BY <1>2, <3>1 DEF Atomic!Next
    <2>5. CASE call[c].op = "ReportJobStarted"
      <3>1. Atomic!ReportJobStarted(j)
        BY <2>2, <2>5, SameCallbacks, Zenon DEF Atomic!ReportJobStarted, Atomic!Update, Atomic!Exists, Exists,
                          Permits, Result, r
      <3> QED BY <1>2, <3>1 DEF Atomic!Next
    <2>6. CASE call[c].op = "ReportJobCompleted"
      <3>1. Atomic!ReportJobCompleted(j)
        BY <2>2, <2>6, SameCallbacks, Zenon DEF Atomic!ReportJobCompleted, Atomic!Update, Atomic!Exists, Exists,
                          Permits, Result, r
      <3> QED BY <1>2, <3>1 DEF Atomic!Next
    <2>7. CASE call[c].op = "ReportJobFailed"
      <3>1. Atomic!ReportJobFailed(j)
        BY <2>2, <2>7, SameCallbacks, Zenon DEF Atomic!ReportJobFailed, Atomic!Update, Atomic!Exists, Exists,
                          Permits, Result, r
      <3> QED BY <1>2, <3>1 DEF Atomic!Next
    <2>8. CASE call[c].op = "ReportJobStopped"
      <3>1. Atomic!ReportJobStopped(j)
        BY <2>2, <2>8, SameCallbacks, ZenonT(40) DEF Atomic!ReportJobStopped, Atomic!Update, Atomic!Exists, Exists,
                          Permits, Result, r
      <3> QED BY <1>2, <3>1 DEF Atomic!Next
    <2>9. CASE call[c].op = "AssignToWorkers"
      <3>1. PICK w \in Worker : call[c].worker = {w}
        BY <1>1, <1>2, <2>9 DEF InHand, InPlace, InTransaction
      <3>2. Atomic!AssignToWorkers(j, w)
        BY <2>2, <2>9, <3>1, SameCallbacks, Zenon DEF Atomic!AssignToWorkers, Atomic!Update, Atomic!Exists,
                                Exists, Permits, Result, r
      <3> QED BY <1>2, <3>2 DEF Atomic!Next
    <2>10. CASE call[c].op = "Preempt"
      <3>1. Atomic!PreemptJob(j)
        BY <2>2, <2>10, SameCallbacks, Zenon DEF Atomic!PreemptJob, Atomic!Update, Atomic!Exists, Exists,
                           Permits, Result, r
      <3> QED BY <1>2, <3>1 DEF Atomic!Next
    <2> QED BY <1>4, <2>3, <2>4, <2>5, <2>6, <2>7, <2>8, <2>9, <2>10, ZenonT(40) DEF Updates
  <1> QED BY <1>2, <1>3, <1>4, SMTT(30)

\* Transactions, locks, failures and lost answers included, the repository is
\* JobService's atomic one, for any number of callers and connections: a
\* commit is one of its operations, every other step changes no row.
THEOREM StoreImplementsService == Spec => ImplementsService
  <1>1. Init => Atomic!Init
    BY SameCallbacks DEF Init, Atomic!Init
  <1>2. IInv /\ [Next]_vars => [Atomic!Next]_(Atomic!vars)
    <2> SUFFICES ASSUME IInv, [Next]_vars
                 PROVE  Atomic!Next \/ UNCHANGED Atomic!vars
      OBVIOUS
    <2>1. CASE \E c \in Caller : Committed(c)
      BY <2>1, CommitIsAtomic
    <2>2. CASE rows' = rows
      BY <2>2, SMTT(30) DEF Atomic!vars
    <2>3. rows' = rows \/ \E c \in Caller : Committed(c)
      BY ZenonT(40) DEF Next, Step, Receive, Decide, Get, Begin, Insert, Lookup, Select, Apply,
             Commit, CommitUnanswered, Fails, Reply, vars
    <2> QED BY <2>1, <2>2, <2>3
  <1> QED BY <1>1, <1>2, StoreInvariance, PTL DEF Spec, ImplementsService, Atomic!Spec

-----------------------------------------------------------------------------
(***************************************************************************)
(* Who waits for whom.  CallsReturnUnlessStalled rests on two facts: a     *)
(* call that cannot go on is at most two waits away from one that can, or  *)
(* its pool is stalled; and a stalled pool recovers only if a call fails.  *)
(***************************************************************************)
INSTANCE FiniteSetTheorems

Connected(h) == {d \in Caller : HostOf[d] = h /\ call[d].pc \in InTransaction}

LookingUp(h) == {d \in Caller : HostOf[d] = h /\ At(d, "lookup")}

\* The call has what its next step needs.
Ready(c) ==
    \/ call[c].pc \in {"apply", "commit", "answered"}
    \/ call[c].pc \in {"get", "begin", "lookup"} /\ FreeConnection(c)
    \/ /\ At(c, "insert")
       /\ call[c].row.submissionID # NoSubmission => ~KeyLocked(call[c].row.submissionID)
    \/ At(c, "select") /\ ~RowLocked(call[c].job)

\* d holds the row, the key or a connection that c waits for.
Holds(d, c) ==
    \/ /\ At(c, "select") /\ call[d].job = call[c].job
       /\ call[d].op \in Updates /\ call[d].pc \in {"apply", "commit"}
    \/ /\ At(c, "insert") /\ call[d].op = "SubmitJob" /\ At(d, "commit")
       /\ call[d].row.submissionID = call[c].row.submissionID
    \/ /\ call[c].pc \in {"get", "begin", "lookup"}
       /\ HostOf[d] = HostOf[c] /\ call[d].pc \in InTransaction

\* No circle of waits, but for a stalled pool.
WaitsEnd ==
    \A c \in Caller : ~At(c, "idle") =>
        \/ Ready(c)
        \/ \E d \in Caller : Holds(d, c) /\ Ready(d)
        \/ \E d, e \in Caller : Holds(d, c) /\ Holds(e, d) /\ Ready(e)
        \/ Stalled(HostOf[c])

\* Only the failure of one of its duplicate submissions ends a host's stall.
StallNeedsFailure ==
    \A h \in Server \cup Scheduler :
        Stalled(h) => \/ Stalled(h)'
                      \/ \E c \in Caller : HostOf[c] = h /\ At(c, "lookup") /\ Fails(c)

\* The pool has a free connection or is in use to its size.
LEMMA Connections ==
    ASSUME IsFiniteSet(Caller), NEW h
    PROVE  /\ IsFiniteSet(Connected(h)) /\ IsFiniteSet(LookingUp(h))
           /\ Cardinality(Connected(h)) \in Nat /\ Cardinality(LookingUp(h)) \in Nat
           /\ LookingUp(h) \in SUBSET Connected(h)
           /\ Cardinality(LookingUp(h)) <= Cardinality(Connected(h))
  <1>1. Connected(h) \in SUBSET Caller /\ LookingUp(h) \in SUBSET Connected(h)
    BY DEF Connected, LookingUp, At, InTransaction
  <1>2. IsFiniteSet(Connected(h))
    BY <1>1, FS_Subset
  <1>3. IsFiniteSet(LookingUp(h)) /\ Cardinality(LookingUp(h)) <= Cardinality(Connected(h))
    BY <1>1, <1>2, FS_Subset
  <1> QED BY <1>1, <1>2, <1>3, FS_CardinalityType

\* A call that waits for a row or for a key waits for one that is ready.
LEMMA LockWait ==
    ASSUME NEW c \in Caller, call[c].pc \in {"insert", "select"}, ~Ready(c)
    PROVE  \E d \in Caller : Holds(d, c) /\ Ready(d)
  <1>1. CASE At(c, "insert")
    <2>1. KeyLocked(call[c].row.submissionID)
      BY <1>1, Zenon DEF Ready
    <2> QED BY <1>1, <2>1, Zenon DEF KeyLocked, Holds, Ready, At
  <1>2. CASE At(c, "select")
    <2>1. RowLocked(call[c].job)
      BY <1>2, Zenon DEF Ready
    <2>2. PICK d \in Caller : /\ call[d].job = call[c].job /\ call[d].op \in Updates
                             /\ call[d].pc \in {"apply", "commit"}
      BY <2>1, Zenon DEF RowLocked
    <2>3. Holds(d, c)
      BY <1>2, <2>2, Zenon DEF Holds
    <2>4. Ready(d)
      BY <2>2, Zenon DEF Ready
    <2> QED BY <2>3, <2>4, Zenon
  <1> QED BY <1>1, <1>2, Zenon DEF At

\* A call that waits for a connection finds one of its pool in a transaction
\* that needs no second connection, or the pool is stalled.
LEMMA PoolWait ==
    ASSUME IsFiniteSet(Caller), NEW c \in Caller,
           call[c].pc \in {"get", "begin", "lookup"}, ~Ready(c), ~Stalled(HostOf[c])
    PROVE  \E d \in Caller : Holds(d, c) /\ call[d].pc \in {"insert", "select", "apply", "commit"}
  <1> DEFINE T == Connected(HostOf[c])
             L == LookingUp(HostOf[c])
  <1>1. ~(Cardinality(T) < PoolSize)
    BY Zenon DEF Ready, FreeConnection, Connected
  <1>2. ~(Cardinality(L) >= PoolSize)
    BY Zenon DEF Stalled, LookingUp
  <1>3. L \in SUBSET T /\ Cardinality(T) \in Nat /\ Cardinality(L) \in Nat
    BY Connections, Zenon
  <1>4. T # L
    <2> HIDE DEF T, L
    <2>1. PoolSize \in Nat
      BY StoreAssumption, Zenon
    <2> QED BY <1>1, <1>2, <1>3, <2>1, SMTT(30)
  <1>5. PICK d : d \in T /\ d \notin L
    BY <1>3, <1>4, Zenon
  <1>6. d \in Caller /\ HostOf[d] = HostOf[c] /\ call[d].pc \in InTransaction /\ ~At(d, "lookup")
    BY <1>5, Zenon DEF Connected, LookingUp
  <1>7. Holds(d, c)
    BY <1>6, Zenon DEF Holds
  <1>8. call[d].pc \in {"insert", "select", "apply", "commit"}
    BY <1>6 DEF InTransaction, At
  <1> QED BY <1>6, <1>7, <1>8, Zenon

\* Rows, keys and connections are never waited for in a circle, for any number
\* of callers, hosts and connections, except where every connection of a pool
\* is in a duplicate submission that waits for a second one.
THEOREM NoCircularWait ==
    ASSUME IsFiniteSet(Caller) PROVE Spec => []WaitsEnd
  <1>1. StoreTypeOK => WaitsEnd
    <2> SUFFICES ASSUME StoreTypeOK, NEW c \in Caller, ~At(c, "idle"), ~Ready(c),
                        ~Stalled(HostOf[c])
                 PROVE  \/ \E d \in Caller : Holds(d, c) /\ Ready(d)
                        \/ \E d, e \in Caller : Holds(d, c) /\ Holds(e, d) /\ Ready(e)
      BY Zenon DEF WaitsEnd
    <2>1. call[c].pc \in {"idle", "get", "begin", "insert", "lookup", "select", "apply",
                          "commit", "answered"}
      BY DEF StoreTypeOK, CallRecord
    <2>2. CASE call[c].pc \in {"insert", "select"}
      BY <2>2, LockWait, ZenonT(40)
    <2>3. CASE call[c].pc \in {"get", "begin", "lookup"}
      <3>1. PICK d \in Caller : /\ Holds(d, c)
                               /\ call[d].pc \in {"insert", "select", "apply", "commit"}
        BY <2>3, PoolWait, Zenon
      <3>2. CASE call[d].pc \in {"apply", "commit"}
        BY <3>1, <3>2, Zenon DEF Ready
      <3>3. CASE call[d].pc \in {"insert", "select"}
        BY <3>1, <3>3, LockWait, Zenon
      <3> QED BY <3>1, <3>2, <3>3, Zenon
    <2>4. CASE call[c].pc \in {"apply", "commit", "answered"}
      BY <2>4, Zenon DEF Ready
    <2> QED BY <2>1, <2>2, <2>3, <2>4, Zenon DEF At
  <1> QED BY <1>1, StoreTypeIsInvariant, PTL

\* A stalled pool stays stalled, however many connections it has, until a
\* deadline or an error ends one of the submissions that stall it.
THEOREM StallsLast ==
    ASSUME IsFiniteSet(Caller) PROVE Spec => [][StallNeedsFailure]_vars
  <1>1. StoreTypeOK /\ [Next]_vars => [StallNeedsFailure]_vars
    <2> SUFFICES ASSUME StoreTypeOK, Next, NEW h \in Server \cup Scheduler, Stalled(h),
                        ~\E c \in Caller : HostOf[c] = h /\ At(c, "lookup") /\ Fails(c)
                 PROVE  Stalled(h)'
      BY Zenon DEF StallNeedsFailure
    <2>1. Cardinality(LookingUp(h)) >= PoolSize
      BY Zenon DEF Stalled, LookingUp
    <2>2. \A c \in LookingUp(h) : ~FreeConnection(c)
      <3>1. ~(Cardinality(Connected(h)) < PoolSize)
        <4>1. PoolSize \in Nat
          BY StoreAssumption, Zenon
        <4>2. /\ Cardinality(Connected(h)) \in Nat /\ Cardinality(LookingUp(h)) \in Nat
              /\ Cardinality(LookingUp(h)) <= Cardinality(Connected(h))
          BY Connections, Zenon
        <4> QED BY <2>1, <4>1, <4>2, SMTT(30)
      <3> QED BY <3>1, Zenon DEF FreeConnection, Connected, LookingUp
    <2>3. PICK c \in Caller :
             \/ \E msg \in Message : Receive(c, msg)
             \/ \E j \in Job, w \in Worker : Decide(c, "AssignToWorkers", j, {w})
             \/ \E j \in Job : Decide(c, "Preempt", j, {})
             \/ Step(c) \/ CommitUnanswered(c) \/ Fails(c)
      BY Zenon DEF Next
    <2>4. c \notin LookingUp(h)
      <3> SUFFICES ASSUME c \in LookingUp(h) PROVE FALSE
        OBVIOUS
      <3>1. call[c].pc = "lookup" /\ HostOf[c] = h /\ ~FreeConnection(c) /\ ~Fails(c)
        BY <2>2, Zenon DEF LookingUp, At
      <3>2. ~Lookup(c)
        BY <3>1, Zenon DEF Lookup
      <3>3. /\ ~At(c, "idle") /\ ~At(c, "get") /\ ~At(c, "begin") /\ ~At(c, "insert")
            /\ ~At(c, "select") /\ ~At(c, "apply") /\ ~At(c, "commit") /\ ~At(c, "answered")
        BY <3>1 DEF At
      <3> QED BY <2>3, <3>1, <3>2, <3>3, ZenonT(40)
              DEF Receive, Decide, Step, Get, Begin, Insert, Select, Apply, Commit,
                  CommitUnanswered, Committed, Reply
    <2>5. \A d \in Caller \ {c} : call'[d] = call[d]
      <3>1. \E k : call' = [call EXCEPT ![c] = k]
        BY <2>3, Zenon DEF Receive, Decide, Step, Get, Begin, Insert, Lookup, Select, Apply,
               Commit, CommitUnanswered, Fails, Reply, Return, Goto
      <3> QED BY <3>1, Zenon DEF StoreTypeOK
    <2>6. LookingUp(h) \in SUBSET LookingUp(h)'
      BY <2>4, <2>5, Zenon DEF LookingUp, At
    <2>7. Cardinality(LookingUp(h)) <= Cardinality(LookingUp(h)')
      <3>1. LookingUp(h)' \in SUBSET Caller
        BY Zenon DEF LookingUp
      <3>2. IsFiniteSet(LookingUp(h)')
        BY <3>1, FS_Subset, Zenon
      <3> QED BY <2>6, <3>2, FS_Subset, Zenon
    <2>8. Cardinality(LookingUp(h)) \in Nat /\ Cardinality(LookingUp(h)') \in Nat
      <3>1. LookingUp(h)' \in SUBSET Caller
        BY Zenon DEF LookingUp
      <3>2. IsFiniteSet(LookingUp(h)')
        BY <3>1, FS_Subset, Zenon
      <3> QED BY <3>2, Connections, FS_CardinalityType, ZenonT(40)
    <2>9. Cardinality(LookingUp(h)') >= PoolSize
      <3>1. PoolSize \in Nat
        BY StoreAssumption, Zenon
      <3> QED BY <2>1, <2>7, <2>8, <3>1, SMTT(30)
    <2> QED BY <2>9, Zenon DEF Stalled, LookingUp
  <1> QED BY <1>1, StoreTypeIsInvariant, PTL DEF Spec
=============================================================================
