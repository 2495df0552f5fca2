----------------------------- MODULE Execution ------------------------------
(***************************************************************************)
(* Jobs being executed: jobs.Service (JobService) composed with the worker *)
(* agents of worker/agent/main.py that run the jobs, the scheduler that    *)
(* places them and the watcher that recovers them from lost workers.       *)
(*                                                                         *)
(* An agent has a heartbeat loop, which learns from each response which    *)
(* jobs to start and which to stop, and one thread per job, which reports  *)
(* to the service.  The service, the loop and the threads only meet in     *)
(* RPCs, so every call is a step of its own.                               *)
(*                                                                         *)
(* The lease behind a worker's status is WorkerRegistry's subject; here it *)
(* runs out when the worker is dead or, as a fault, cut off.  Which job    *)
(* goes to which worker is left open.                                      *)
(*                                                                         *)
(* A name ending in Slip is an action with a plausible mistake; no         *)
(* specification uses it.                                                  *)
(***************************************************************************)
EXTENDS JobService

CONSTANT Fault       \* which of Faults can happen

\* "worker_dies": an agent process exits.  "cut_off": a running agent's lease
\* runs out.  "call_fails": an RPC fails, before or after the service acted on
\* it.  "bad_command": the executor raises on the job's command.  "store_fails":
\* the database returns an error to a replica that recovers a worker's jobs.
Faults == {"worker_dies", "cut_off", "call_fails", "bad_command", "store_fails"}

ASSUME FaultAssumption == Fault \subseteq Faults

VARIABLES
    alive,           \* agents that are running
    thread,          \* thread[w][j]: w's entry for j in running_jobs
    heartbeat,       \* the heartbeat w has outstanding or is acting on
    status,          \* the worker row's status
    expired,         \* lease expirations a replica has yet to handle
    marked,          \* the worker a replica marked LOST and is about to scan for
    abandoned,       \* workers whose last expiration a replica gave up on
    pass             \* what the scheduler read at the start of its pass

agents == <<alive, thread, heartbeat>>
watcher == <<expired, marked, abandoned>>
execVars == <<jobs, todo, alive, thread, heartbeat, status, expired, marked,
              abandoned, pass>>

Outcome == {"completed", "failed", "stopped"}

\* "dead" is an entry whose thread ended with an exception and left it behind.
Thread == [pc: {"none", "starting", "executing", "reporting", "dead"},
           stop: BOOLEAN, outcome: Outcome \cup {"none"}]

NoThread == [pc |-> "none", stop |-> FALSE, outcome |-> "none"]

Heartbeat == [pc: {"idle", "assigned", "stoppable"},
              assigned: SUBSET Job, stop: SUBSET Job]

Quiet == [pc |-> "idle", assigned |-> {}, stop |-> {}]

ExecTypeOK ==
    /\ TypeOK
    /\ alive \subseteq Worker
    /\ thread \in [Worker -> [Job -> Thread]]
    /\ heartbeat \in [Worker -> Heartbeat]
    /\ status \in [Worker -> {"ACTIVE", "LOST"}]
    /\ expired \in [Replica -> SUBSET Worker]
    /\ marked \in [Replica -> SUBSET Worker]
    /\ abandoned \in [Replica -> SUBSET Worker]
    /\ pass \in [jobs: SUBSET Job, workers: SUBSET Worker]

ExecInit ==
    /\ Init
    /\ alive = Worker
    /\ thread = [w \in Worker |-> [j \in Job |-> NoThread]]
    /\ heartbeat = [w \in Worker |-> Quiet]
    /\ status = [w \in Worker |-> "ACTIVE"]
    /\ expired = [a \in Replica |-> {}]
    /\ marked = [a \in Replica |-> {}]
    /\ abandoned = [a \in Replica |-> {}]
    /\ pass = [jobs |-> {}, workers |-> {}]

-----------------------------------------------------------------------------
\* Clients.
Submit(j, limit, preemptible) ==
    /\ SubmitJob(j, NoSubmission, limit, preemptible)
    /\ UNCHANGED <<agents, status, watcher, pass>>

ClientCancels(j) == CancelJob(j) /\ UNCHANGED <<agents, status, watcher, pass>>

\* RunOnce reads the jobs, then the workers, then writes its decisions one by
\* one; AssignToWorkers checks the job again, nothing checks the worker again.
ListJobs ==
    /\ pass' = [jobs |-> {j \in Job : jobs[j].state = "QUEUED"}, workers |-> {}]
    /\ UNCHANGED <<jobs, todo, agents, status, watcher>>

ListWorkers ==
    /\ pass.jobs # {} /\ pass.workers = {}
    /\ pass' = [pass EXCEPT !.workers = {w \in Worker : status[w] = "ACTIVE"}]
    /\ UNCHANGED <<jobs, todo, agents, status, watcher>>

AssignJob(j, w) ==
    /\ j \in pass.jobs /\ w \in pass.workers
    /\ AssignToWorkers(j, w)
    /\ pass' = [pass EXCEPT !.jobs = @ \ {j}]
    /\ UNCHANGED <<agents, status, watcher>>

PreemptVictim(j) == PreemptJob(j) /\ UNCHANGED <<agents, status, watcher, pass>>

-----------------------------------------------------------------------------
\* WorkerHeartbeat: refresh the row, list what is assigned, list what to stop.
\* A worker whose lease has expired gets a new one, which can expire again.
HeartbeatUpdatesRow(w) ==
    /\ w \in alive /\ heartbeat[w] = Quiet
    /\ heartbeat' = [heartbeat EXCEPT ![w].pc = "assigned"]
    /\ status' = [status EXCEPT ![w] = "ACTIVE"]
    /\ abandoned' = [a \in Replica |-> abandoned[a] \ {w}]
    /\ UNCHANGED <<jobs, todo, alive, thread, expired, marked, pass>>

ListAssignedToWorker(w) ==
    /\ heartbeat[w].pc = "assigned"
    /\ heartbeat' = [heartbeat EXCEPT
           ![w].pc = "stoppable",
           ![w].assigned = {j \in Job : /\ jobs[j].state = "SCHEDULED"
                                        /\ w \in jobs[j].assigned}]
    /\ UNCHANGED <<jobs, todo, alive, thread, status, watcher, pass>>

ListStoppableForWorker(w) ==
    /\ heartbeat[w].pc = "stoppable"
    /\ heartbeat' = [heartbeat EXCEPT
           ![w].pc = "idle",
           ![w].stop = {j \in Job :
                           /\ jobs[j].state \in {"CANCEL_REQUESTED", "PREEMPTED"}
                           /\ w \in jobs[j].assigned}]
    /\ UNCHANGED <<jobs, todo, alive, thread, status, watcher, pass>>

\* A listing fails: the response goes out with what it has.  Or the whole call
\* fails: the agent gets nothing.
HeartbeatFails(w) ==
    /\ "call_fails" \in Fault
    /\ heartbeat[w].pc # "idle"
    /\ \/ heartbeat' = [heartbeat EXCEPT ![w] = Quiet]
       \/ heartbeat' = [heartbeat EXCEPT ![w].pc = "idle"]
    /\ UNCHANGED <<jobs, todo, alive, thread, status, watcher, pass>>

\* The loop acts on the response: start the assigned jobs that have no entry,
\* then set the cancel event of the ones to stop that have one.
StartJob(w, j) ==
    /\ heartbeat[w].pc = "idle" /\ j \in heartbeat[w].assigned
    /\ heartbeat' = [heartbeat EXCEPT ![w].assigned = @ \ {j}]
    /\ thread' = IF thread[w][j] = NoThread
                 THEN [thread EXCEPT ![w][j].pc = "starting"] ELSE thread
    /\ UNCHANGED <<jobs, todo, alive, status, watcher, pass>>

SignalStop(w, j) ==
    /\ heartbeat[w].pc = "idle" /\ heartbeat[w].assigned = {}
    /\ j \in heartbeat[w].stop
    /\ heartbeat' = [heartbeat EXCEPT ![w].stop = @ \ {j}]
    /\ thread' = IF thread[w][j] # NoThread
                 THEN [thread EXCEPT ![w][j].stop = TRUE] ELSE thread
    /\ UNCHANGED <<jobs, todo, alive, status, watcher, pass>>

-----------------------------------------------------------------------------
\* The thread of j: report the start, execute, report the outcome, drop the
\* entry.
ThreadStep == UNCHANGED <<alive, heartbeat, status, watcher, pass>>

\* Executes a job whose start was rejected.
ReportStartedAnywaySlip(w, j) ==
    /\ thread[w][j].pc = "starting"
    /\ ReportJobStarted(j)
    /\ thread' = [thread EXCEPT ![w][j].pc = "executing"]
    /\ ThreadStep

\* Returns from a rejected start without dropping the entry.
ReportStartedLeakSlip(w, j) ==
    /\ thread[w][j].pc = "starting"
    /\ ReportJobStarted(j)
    /\ thread' = [thread EXCEPT ![w][j].pc = IF StartPermits(jobs[j])
                                             THEN "executing" ELSE "dead"]
    /\ ThreadStep

ReportStarted(w, j) ==
    /\ thread[w][j].pc = "starting"
    /\ ReportJobStarted(j)
    /\ thread' = [thread EXCEPT ![w][j] =
                     IF StartPermits(jobs[j]) THEN [@ EXCEPT !.pc = "executing"]
                     ELSE NoThread]
    /\ ThreadStep

\* Any failure but a rejection: execute anyway.
ReportStartedFails(w, j) ==
    /\ "call_fails" \in Fault
    /\ thread[w][j].pc = "starting"
    /\ ReportJobStarted(j) \/ UNCHANGED <<jobs, todo>>
    /\ thread' = [thread EXCEPT ![w][j].pc = "executing"]
    /\ ThreadStep

\* executors.fake.run: should_stop is polled between two steps only, so that a
\* job told to stop may still complete or fail.
Execute(w, j, outcome) ==
    /\ thread[w][j].pc = "executing"
    /\ outcome = "stopped" => thread[w][j].stop
    /\ thread' = [thread EXCEPT ![w][j].pc = "reporting",
                                ![w][j].outcome = outcome]
    /\ UNCHANGED <<jobs, todo>> /\ ThreadStep

\* parse_command raises ValueError, which nothing catches.
ExecutorRaises(w, j) ==
    /\ "bad_command" \in Fault
    /\ thread[w][j].pc = "executing"
    /\ thread' = [thread EXCEPT ![w][j].pc = "dead"]
    /\ UNCHANGED <<jobs, todo>> /\ ThreadStep

\* Reports every unsuccessful run as stopped.
SendOutcomeSlip(j, outcome) ==
    IF outcome = "completed" THEN ReportJobCompleted(j) ELSE ReportJobStopped(j)

SendOutcome(j, outcome) ==
    \/ outcome = "completed" /\ ReportJobCompleted(j)
    \/ outcome = "failed" /\ ReportJobFailed(j)
    \/ outcome = "stopped" /\ ReportJobStopped(j)

\* The entry goes whether the service accepted the report or rejected it.
ReportOutcome(w, j) ==
    /\ thread[w][j].pc = "reporting"
    /\ SendOutcome(j, thread[w][j].outcome)
    /\ thread' = [thread EXCEPT ![w][j] = NoThread]
    /\ ThreadStep

ReportOutcomeFails(w, j) ==
    /\ "call_fails" \in Fault
    /\ thread[w][j].pc = "reporting"
    /\ UNCHANGED <<jobs, todo>>
    /\ thread' = [thread EXCEPT ![w][j] = NoThread]
    /\ ThreadStep

-----------------------------------------------------------------------------
\* The agent exits: its threads are daemon threads and end with it.
WorkerDies(w) ==
    /\ "worker_dies" \in Fault
    /\ w \in alive
    /\ alive' = alive \ {w}
    /\ thread' = [thread EXCEPT ![w] = [j \in Job |-> NoThread]]
    /\ heartbeat' = [heartbeat EXCEPT ![w] = Quiet]
    /\ UNCHANGED <<jobs, todo, status, watcher, pass>>

LeaseExpires(w) ==
    /\ w \notin alive \/ "cut_off" \in Fault
    /\ status[w] = "ACTIVE"
    /\ \A a \in Replica : w \notin expired[a] \cup abandoned[a]
    /\ expired' = [a \in Replica |-> expired[a] \cup {w}]
    /\ UNCHANGED <<jobs, todo, agents, status, marked, abandoned, pass>>

\* WatchExpirations in replica a: MarkLost, then LoseWorker, then the next one.
MarkLost(a, w) ==
    /\ w \in expired[a] /\ marked[a] = {}
    /\ \A v \in Worker : todo[a][v] = {}
    /\ status' = [status EXCEPT ![w] = "LOST"]
    /\ expired' = [expired EXCEPT ![a] = @ \ {w}]
    /\ marked' = [marked EXCEPT ![a] = {w}]
    /\ UNCHANGED <<jobs, todo, agents, abandoned, pass>>

\* MarkLost returns an error: onError logs it, and LoseWorker is not called.
MarkLostFails(a, w) ==
    /\ "store_fails" \in Fault
    /\ w \in expired[a] /\ marked[a] = {}
    /\ \A v \in Worker : todo[a][v] = {}
    /\ expired' = [expired EXCEPT ![a] = @ \ {w}]
    /\ abandoned' = [abandoned EXCEPT ![a] = @ \cup {w}]
    /\ UNCHANGED <<jobs, todo, agents, status, marked, pass>>

LoseWorker(a, w) ==
    \/ /\ w \in marked[a]
       /\ LoseWorkerScan(a, w)
       /\ marked' = [marked EXCEPT ![a] = {}]
       /\ UNCHANGED <<agents, status, expired, abandoned, pass>>
    \/ /\ \E j \in Job : LoseWorkerUpdate(a, w, j)
       /\ UNCHANGED <<agents, status, watcher, pass>>

\* Its listing or one of its updates fails: onLost logs it, and the rest of the
\* jobs stay as they are.
LoseWorkerFails(a, w) ==
    /\ "store_fails" \in Fault
    /\ \/ w \in marked[a] /\ UNCHANGED <<jobs, todo>>
       \/ todo[a][w] # {} /\ LoseWorkerAbort(a)
    /\ marked' = [marked EXCEPT ![a] = {}]
    /\ abandoned' = [abandoned EXCEPT ![a] = @ \cup {w}]
    /\ UNCHANGED <<agents, status, expired, pass>>

ExecNext ==
    \/ ListJobs
    \/ ListWorkers
    \/ \E j \in Job :
        \/ \E limit \in RetryLimits, preemptible \in BOOLEAN :
              Submit(j, limit, preemptible)
        \/ ClientCancels(j)
        \/ PreemptVictim(j)
    \/ \E w \in Worker :
        \/ HeartbeatUpdatesRow(w)
        \/ ListAssignedToWorker(w)
        \/ ListStoppableForWorker(w)
        \/ HeartbeatFails(w)
        \/ WorkerDies(w)
        \/ LeaseExpires(w)
        \/ \E a \in Replica :
            \/ MarkLost(a, w)
            \/ MarkLostFails(a, w)
            \/ LoseWorker(a, w)
            \/ LoseWorkerFails(a, w)
    \/ \E w \in Worker, j \in Job :
        \/ AssignJob(j, w)
        \/ StartJob(w, j)
        \/ SignalStop(w, j)
        \/ ReportStarted(w, j)
        \/ ReportStartedFails(w, j)
        \/ \E outcome \in Outcome : Execute(w, j, outcome)
        \/ ExecutorRaises(w, j)
        \/ ReportOutcome(w, j)
        \/ ReportOutcomeFails(w, j)

ExecSpec == ExecInit /\ [][ExecNext]_execVars

\* etcd reports a lease that nobody renews, and the watchers go on as long as
\* their process runs.
RecoveryFairness ==
    \A w \in Worker :
        /\ WF_execVars(w \notin alive /\ LeaseExpires(w))
        /\ \A a \in Replica :
              WF_execVars(MarkLost(a, w)) /\ WF_execVars(LoseWorker(a, w))

RecoverySpec == ExecSpec /\ RecoveryFairness

\* So do the agent loop, its threads and the scheduler's passes, and calls
\* return.  Clients, preemption and faults are free.  A pass that has read its
\* snapshot places each job of it somewhere; SF because passes that find
\* nothing come in between.
Fairness ==
    /\ RecoveryFairness
    /\ WF_execVars(ListJobs) /\ SF_execVars(ListWorkers)
    /\ \A j \in Job : SF_execVars(\E w \in Worker : AssignJob(j, w))
    /\ \A w \in Worker :
        /\ WF_execVars(HeartbeatUpdatesRow(w))
        /\ WF_execVars(ListAssignedToWorker(w) \/ ListStoppableForWorker(w))
        /\ \A j \in Job :
            /\ WF_execVars(StartJob(w, j)) /\ WF_execVars(SignalStop(w, j))
            /\ WF_execVars(ReportStarted(w, j)) /\ WF_execVars(ReportOutcome(w, j))
            /\ WF_execVars(\E outcome \in Outcome : Execute(w, j, outcome))

FairExecSpec == ExecSpec /\ Fairness

-----------------------------------------------------------------------------
Executing(w, j) == thread[w][j].pc = "executing"

\* No two workers execute the same job at once.
AtMostOneExecution ==
    \A j \in Job, v, w \in Worker : Executing(v, j) /\ Executing(w, j) => v = w

\* Only a job whose start the service accepted, and whose end it has not
\* recorded, is executed.
ExecutingMeansRunning ==
    \A j \in Job, w \in Worker :
        Executing(w, j)
        => jobs[j].state \in {"RUNNING", "CANCEL_REQUESTED", "PREEMPTED"}

\* A RUNNING row has a thread somewhere that will report on it: no rejected or
\* stale call leaves a job running on paper only.
RunningHasThread ==
    \A j \in Job : jobs[j].state = "RUNNING" =>
        \E w \in Worker : thread[w][j].pc \in {"executing", "reporting"}

\* Until the first worker dies, a thread stops early only for a stop that is
\* still wanted: its report meets the CANCEL_REQUESTED or PREEMPTED row that
\* asked for it, so the service never ignores it, whichever calls fail and
\* threads crash.  After a death LoseWorker may act on a list that is out of
\* date and end a stop that another worker is about to confirm.
StopIsStillWanted ==
    alive = Worker =>
        \A j \in Job, w \in Worker :
            thread[w][j].outcome = "stopped"
            => jobs[j].state \in {"CANCEL_REQUESTED", "PREEMPTED"}

\* A submitted job ends, or is asked to stop, however often it fails and moves.
EveryJobIsSettled ==
    \A j \in Job :
        Exists(j) ~> \/ Terminal(jobs[j].state)
                     \/ jobs[j].state \in {"CANCEL_REQUESTED", "PREEMPTED"}

\* j is placed on w and not finished.
Holds(w, j) == w \in jobs[j].assigned /\ Recoverable(jobs[j])

\* What a worker holds when it dies, or is given afterwards by a pass that has
\* not heard of it, is taken from it in the end, if it is placed there before
\* the row says LOST: WatchExpirations writes LOST first and lists the jobs
\* after that.  Only an error at every replica breaks the recovery off.
HeldJobsAreRecovered ==
    \A j \in Job, w \in Worker :
        w \notin alive /\ status[w] = "ACTIVE" /\ Holds(w, j)
        ~> ~Holds(w, j) \/ \A a \in Replica : w \in abandoned[a]

-----------------------------------------------------------------------------
\* What the repository's README says of a placed job: the assigned worker's
\* heartbeat picks it up and executes it.  The row names the worker that
\* executes the job.
ExecutorHoldsJob ==
    \A j \in Job, w \in Worker : Executing(w, j) => jobs[j].assigned = {w}

\* What the comment above LoseWorker says: a LOST worker is not executing
\* anything.
LostWorkerIsIdle ==
    \A j \in Job, w \in Worker : status[w] = "LOST" => ~Executing(w, j)

\* What the comment in the agent's loop says of a stop that finds no thread:
\* nothing is lost.  A job asked to stop is stopped in the end.
StopIsConfirmed ==
    \A j \in Job : jobs[j].state \in {"CANCEL_REQUESTED", "PREEMPTED"}
                   ~> jobs[j].state \notin {"CANCEL_REQUESTED", "PREEMPTED"}

\* What the agent relies on when it executes although the start report failed:
\* the outcome report is what decides.  A job whose outcome is being reported
\* is in a state in which the service takes it, or is being stopped.
OutcomeDecides ==
    \A j \in Job, w \in Worker :
        thread[w][j].outcome \in {"completed", "failed"}
        => jobs[j].state \in {"RUNNING", "CANCEL_REQUESTED", "PREEMPTED"}

\* What the comment above LoseWorker promises: the jobs of a crashed worker do
\* not sit stuck forever.
DeadWorkersJobsMoveOn ==
    \A j \in Job, w \in Worker :
        w \notin alive /\ Holds(w, j) ~> ~Holds(w, j)

\* What _start_job's comment says of its thread: it reports after executing and
\* then removes itself from running_jobs.
ThreadRemovesItself ==
    \A j \in Job, w \in Worker : thread[w][j] # NoThread ~> thread[w][j] = NoThread
=============================================================================
