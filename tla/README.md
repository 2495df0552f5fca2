# OrionQueue in TLA+

OrionQueue is a GPU job queue: clients submit jobs to an API server, a
scheduler places them on workers, and worker agents execute them and report
back. This directory specifies the parts that change shared state, model-checks
them with TLC on small instances, and proves the main properties with TLAPS for
every number of jobs, workers and API replicas.

## The system and its parts

| Part | Code | Module |
|---|---|---|
| Job rows and the operations on them | `internal/jobs` | `Jobs`, `JobService` |
| Job API over PostgreSQL: requests, transactions, event log, connection pool | `internal/api/job_server.go`, `internal/persistence/job_repository.go` | `Requests`, `JobStore`, `JobStoreService` |
| Worker and GPU tables, and the paging of every listing | `internal/persistence/worker_repository.go`, the memory repositories | `Inventory` |
| What a client is promised | (the operations' doc comments) | `JobContract` |
| Worker registry over PostgreSQL and etcd leases | `internal/workers`, `internal/leases/etcd.go` | `WorkerRegistry` |
| Worker agent, job threads, fake executor, expiry watcher | `worker/agent`, `worker/executors`, `cmd/api`, `internal/api/worker_server.go` | `Execution` |
| Placement and preemption decisions | `internal/scheduler/{plan,capacity,fairness}.go` | `Planner`, `PlanningPass` |
| Waiting and aging in a queue that keeps being filled | `internal/scheduler/fairness.go` | `Aging` |
| Life of a process: configuration, start-up, serving, shutdown | `cmd/api`, `cmd/scheduler`, `internal/config` | `Config`, `Process` |
| Scheduler processes and leader election | `internal/scheduler/service.go`, `internal/leases/election.go`, `cmd/scheduler` | `Scheduler`, `Overlap` |

How they interact. Every change of a job goes through one callback of
`jobs.Service`, run on one row under its lock. The scheduler reads jobs and
workers, decides, and writes row by row. A worker learns of its jobs, and of the
ones to stop, from heartbeat responses; it reports starts and outcomes with
separate calls. A worker is ACTIVE while heartbeats renew its etcd lease; each
API replica watches for expired lease keys, marks the worker LOST and recovers
its jobs. No transaction spans two rows, or PostgreSQL and etcd, and no call
carries a version: stale snapshots, responses and events are the normal case,
and most of the properties are about them.

`PROJECT.json` lists every component, what is left out, the hazards with the
properties that cover them, and the source lines of each definition.

## Modules and their correspondence to the code

**Jobs** is the row (`JobRecord`) and one pair of operators per callback:
`XPermits` is its guard, `X` the row it stores. Timestamps are reduced to
whether they are set, payloads are dropped. States that the package declares
and never stores (CHECKPOINTING, RETRYING, LOST) are kept in `State`, since
guards name them.

**JobService** holds the repository (`jobs`) and one action per RPC or internal
call. A rejected call is a step that changes nothing. `Create` returns the
existing job for a known submission ID. `LoseWorker` is not atomic in the code,
so `todo[a][w]` holds what replica `a` still has to update after its scan, and
anything may happen between the scan and each update, an error that abandons the
rest included. Reports may come at any time, from anyone, any number of times.

**JobContract** is the client's view: phases (waiting, placed, yielding,
cancelling, and the three ends), attempts and budget. `JobService` implements it
under the mapping `PhaseOf`.

**Requests** is the way of a request into the database: what the gateway can
decode and which job it addresses, the conversion that replaces missing
resources by zeros, `ValidateSubmit` rule by rule on lengths and numbers, the
narrowing of `gpu_count` to a signed column, and the status code an outcome
becomes. `IntWidth` is the column's width; the run makes it 8 bits.

**JobStore** splits the operations of `JobService` where they can interleave:
waiting for a connection, `INSERT ... ON CONFLICT` (which waits for a
conflicting transaction), the second lookup of a duplicate, `SELECT ... FOR
UPDATE`, callback, commit. Every call may fail at every point, and a commit may
take effect without its answer arriving. `history` keeps of `job_events` the
newest state and whether the events form a chain. **JobStoreService** states
that `JobStore` implements `JobService` (with no recovery in progress), which is
why the other modules may use the operations as single steps.

**Inventory** has the two worker tables as committed, and per writer the
transaction it has open: the row's INSERT or `SELECT ... FOR UPDATE` with the
callback, then `replaceGPUs`' DELETE and its INSERTs one by one on the
transaction's own version of the rows (`write[b].rows`), then COMMIT. A listing
reads the rows and then the GPUs of each outside any transaction, between any
two of these statements. `reported` remembers the last GPU list that took effect
for each worker, which is what a reader should get. One client walks the list, through PostgreSQL by key or
through the memory repository by offset, while writers register workers, take
heartbeats and mark workers LOST. `walk.due` is what the listing still owes the
client, `walk.calm` whether nothing changed behind its position. The job
listings page in the same two ways.

**WorkerRegistry** models `Register` and `Heartbeat` call by call: `call[w]` is
the handler's position with the lease ID it read and the one it was granted.
etcd (external) is the set of living leases, the lease each key is bound to, and
the DELETE events each replica's watch has not handled. `Fault` selects what
else may go wrong: handlers slower than a lease's TTL, replicas that stop or
fail to write LOST, an etcd that loses its data. Calls may always fail. The
constant `MaxLease` bounds the leases granted. `Grant`'s two etcd calls are one
step: an unbound lease left by a failed second call has no effect. A call that
fails for its agent is over at the server too: the agent sets no deadline on its
calls, so one breaks off only with the connection or the replica, which ends the
handler's context. A handler that still completes a store call it has in flight
is not modelled.

**Execution** extends `JobService` with what calls it: the scheduler's passes
(snapshot of queued jobs, then of ACTIVE workers, then single writes), the
three stages of `WorkerHeartbeat`, the agent's loop over the response, one
thread per job, and the watchers. Capacity is left to `Scheduler`, so a pass may
place a job on any worker of its snapshot. The executor is reduced to its
outcomes. `Fault` selects dying workers, workers that are cut off, failing calls,
commands that `parse_command` rejects, and database errors that end a recovery:
in MarkLost, which drops the expiry event, or in LoseWorker, which leaves the
rest of its jobs as they are. `abandoned[a]` is the set of workers that replica
`a` gave up on in this way.

**Planner** has `Plan` and `PlanPreemptions` as operators over a snapshot, with
their sort orders, aging, GPU memory bars and the clamp in `freeGPUCount`. Each
loop is a function of the number of rounds done, with the body an operator of
its own (`Place`, `Help`); a sort puts an element behind as many others as
precede it (`SortedBy`), which is the one result since IDs break all ties.
**PlanningPass** fills in every small snapshot and lets them decide.

**Aging** runs `Plan` pass after pass while clients refill the queue. Ages are
counted back from now and, once they exceed what aging can add, only keep their
order; so time needs no bound. Jobs that fail are not requeued there.

**Config** is `Defaults`, `Load` and `Validate`, and the multiplication that
turns the interval into a `time.Duration` of `DurationWidth` bits. **Process**
is one process from `main` to its exit: the retry loops for PostgreSQL and etcd,
servers and background goroutine, signals, failing servers, the drain with its
timeouts, and the deferred closing of the pool. Requests are followed as far as
the connection they hold; a handler may wait for etcd for ever.

**Scheduler** runs `RunOnce` in several instances: campaign, a session that
expires before its instance notices, snapshot and plan, one write per step.
Workers stay ACTIVE here, and all jobs have the same age. Retry limits are a
constant; the proofs hold for all, the run has the limit 1, so that a failed job
does not come back there and only a preempted one does (a limit of 2 takes TLC
beyond its time). RetryJob is left out of it, being always rejected (see the
proofs). **Overlap** adds a history
variable: whether two instances have ever run at once.

Operators whose names end in `Slip` are versions of an operation with a
plausible mistake. No specification uses them; they show that the properties
can fail.

## Runs

| Run | Bounds | Shows |
|---|---|---|
| `job_service` | 2 jobs, 2 workers, 2 replicas, limits 1 and 2, 1 submission ID | rows consistent, budget kept, ends final, cancellations in force, preemption free, contract implemented (160,275 states) |
| `job_store` | 3 jobs, 2 API callers on 2 connections, 1 scheduler caller, 18 requests | rows, events and answers agree under overlap and failure; `JobService` implemented; only exhaustion by duplicates hangs a call (106,897 states) |
| `pool_stall` | the same | duplicate submissions can wait for each other's connections; see below |
| `registry` | 2 workers, 2 replicas, 4 leases, no faults, fair | an ACTIVE worker's death can always be noticed, and is |
| `registry_faults` | 2 workers, 1 replica, 4 leases, all faults | the row's living lease is the one that holds the key (125,788 states) |
| `inventory` | 3 workers, 2 writers, pages of 1 row | listings skip and repeat nothing, readers get the last reported inventory as a whole, MarkLost undoes no heartbeat (570,363 states) |
| `execution` | 1 job, 3 workers, no faults, fair | one execution at a time, row and threads agree, every job is settled (133,888 states) |
| `execution_faults` | 1 job, 2 workers, 2 replicas, limit 3; deaths, failing calls, bad commands, database errors; fair recovery | until a worker dies, stops are confirmed only while wanted; what a dead worker holds before it is LOST is taken from it unless every replica fails (574,140 states) |
| `planning` | every snapshot of up to 3 jobs on 2 workers | capacity, queue order and legality of victims (366,210 states) |
| `scheduler` | 3 jobs, 2 workers, 2 instances, preemption on | over-commitment takes two instances running at once; no job is placed twice (791,571 states) |
| `starvation` | 2 IDs, 1 GPU, priorities 0 and 21, the code's cap of 20 | a low-priority job waits for ever; see below |
| `process` | 2 requests, 6 environments, 10 attempts | clean exits, closed pool, bounded start-up, every signal ends the process (143,860 states) |

Why the bounds are enough for the cases of interest. Two jobs and two replicas
let a recovery race another recovery, a report and a new placement; a retry
limit of 2 lets a job fail, move and fail again, and one of 3 in
`execution_faults` lets it also be stopped elsewhere while a watcher still goes
through an old list. Four leases let a worker lose
and regain its lease twice. Three workers let a job move twice while two old
responses about it are still unread. The clusters have a worker with a small and
a large GPU, so that the GPU memory bar matters, and an aging bonus of at most
one step, so that a job can reach the cap. Two connections and two API callers
are the smallest pool of more than one that duplicates can exhaust. Three workers and pages of
one row leave a walk twice between pages, with rows before and behind it; all
have the same `registered_at`, so that IDs break every tie. The asked page size
is above the maximum, hence the default. Two transactions overlap in `inventory`
only between walks (`OneWriterDuringWalk`): a walk sees committed rows alone, so
that what happens to it depends on the order of the commits, which one writer at
a time produces as well. Three job IDs are an original and two duplicates, which
is what it takes to exhaust the pool of two. Of the requests, twelve break one rule
of validation each. The environments are one that is accepted and one for each
way to be refused or to overflow. Worker, job and replica names are
symmetric and are declared so where no liveness property is checked; job IDs in
the planner models are numbers and are not, for they break ties. In `scheduler`
states that differ only in how a job ended count as one (`VIEW Unfinished`): no
action and no property looks at a finished row again.

Deadlock is not checked where all jobs may be finished, all leases used up, the
one decision made, or the process over.

### Fairness

`WorkerRegistry!Fairness`: a handler that has begun goes on or fails, a lease
whose worker is dead runs out, a running replica reads its watch and a stopped
one is restarted. Nothing makes a worker register or heartbeat.

`Execution!Fairness`: the agent's loop and threads, the watchers and the
scheduler's ticker go on as long as their process runs. Weak fairness suffices
but for the scheduler's second listing and its writes: passes that find nothing
come in between, so each is only enabled again and again. In the code they
follow in the same `RunOnce`. It also says that a queued job is placed in the
end, which takes capacity: starvation is not excluded by this run. Clients,
preemption and faults are never forced.

`JobStore!Fairness`: a call goes on whenever it can again and again (strong
fairness), for pgxpool and PostgreSQL's row locks queue those who wait. Failures
are never forced, so a stalled call is not saved by its deadline.

`Execution!RecoveryFairness`, all that `execution_faults` assumes: etcd reports
the lease of a dead worker, and the watchers go on. Database errors are free.

`Aging!Fairness`: the leader's ticker, time and the ends of jobs. Clients are
never forced, and never stopped.

`Process!Fairness`: the main goroutine, timeouts included, and queries return.
Nothing makes a handler return from etcd, nor a request or a signal arrive.
That queries return leaves out the submissions that stall each other in the pool
(`pool_stall`): they hold connections until their contexts end, and `pool.Close`
would wait for them as well.

## What is proved

All from the named assumptions of the modules, for any sets of jobs, workers,
replicas, callers and requests: `RetryLimitsAssumption` and
`SubmissionAssumption` in `Jobs`, `IntWidthAssumption` (the column can hold 64)
in `Requests`, `StoreAssumption`, `RegistryAssumption`, `InventoryAssumption`,
`FaultAssumption`, `DurationAssumption`, `ProcessAssumption`,
`PlannerAssumption`, `PassAssumption` and `SchedulerAssumption` in the modules
that declare the constants. Type correctness is proved for every module with a
state but `Aging`, and asked of TLC again only for `Scheduler`.

**ExecutionProofs, first part: JobService.** The properties are read off an invariant on each row,
`RowOK`. It adds to the checked properties that CHECKPOINTING, RETRYING and LOST
are never stored, without which they are not inductive: Cancel of a stored
CHECKPOINTING row would give a CANCEL_REQUESTED row that never ran.
`OneRowAtATime` shows that a step changes at most one row, by one callback;
`RowStepKeepsRowOK` goes through the callbacks. From these follow type
correctness, the five state invariants, the action properties
(`FinishedIsFinal`, `CancellationSticks`, `PreemptionCostsNothing`) and
`Refinement`, that the service implements the contract.
`RetryIsAlwaysRejected` is a consequence worth knowing: a job is FAILED only
with its retry limit used up, and Retry demands an attempt left, so `RetryJob`
never succeeds (`internal/jobs/service.go:254` says it "remains available").

**WorkerRegistryProofs.** `LeaseInv` follows the lease IDs on the row, read by
the handler and granted to the handler: whichever of them lives is the one the
key is bound to. It holds under all faults and gives `HeartbeatHoldsTheKey`.
Without faults `DetectInv` adds that a handler about to write a row has a bound
key in hand, which gives `DeathStaysDetectable`.

**ExecutionProofs, second part: Execution.** The actions of `Execution` are built
from those of `JobService`, so that `RowOK` holds here as well
(`RowsOfTheService`). The theorems are about rows and threads until the first
worker dies, with no running agent cut off. The invariant `UntilDeath` has three parts, from what
needs least to what needs most. `Orderly` explains why stale responses are
harmless: a stop is only sent to the worker that holds the job, and the job
leaves its stopping state only when that worker's thread ends, so a late stop
finds no thread. It survives failing calls and crashing threads, and gives
`StopsAreWanted`. `Exclusive` says that one thread at most is busy with a job,
and only while its row says so. It needs calls to arrive, since an agent executes
although its start report failed, but no thread to report: `OneExecution` and
`ExecutionIsRecorded` allow `bad_command`. `Covered` says that a RUNNING row has
a busy thread. Any lost report ends it, so `RunningIsReal` allows no fault.

After a death, `StopIsStillWanted` is not true, and the definition says so
(`alive = Worker =>`): LoseWorker lists the dead worker's jobs once and updates
them one by one. A job of the list may by then be placed and told to stop on
another worker; LoseWorker recovers it all the same, as its re-check looks only
at the state (`RecoversOnlyItsOwnJobs` below), and the confirmation meets a row
that no longer asks for a stop. TLC finds this, in 27 states, when the condition
on `alive` is left out: both replicas saw the lease expire and listed the job.

**JobStoreSteps, JobStoreProofs.** The first holds the invariant and the steps
that write no table, the second the commit and the theorems. What a call has in
hand agrees with the tables (`InHand`): an update that holds the lock has the
row as it is, a submission past its insert has an unused submission ID. No two
calls have the same in hand (`Apart`). The second is needed because a commit
changes a row under the eyes of all other calls. From it follow that history and
rows agree, that the second lookup finds the original, that answers stay true
and stored numbers are sane, and `StoreImplementsService`: a commit is the
atomic operation, everything else stutters. With `Refinement` this chains the
SQL statements to the contract.

Two more theorems, for any finite set of callers, are the safety half of
`CallsReturnUnlessStalled`. `NoCircularWait`: a call that cannot go on waits for
one that can, or for one that waits for such a one, or its pool is stalled. Row
and key are held only by calls that wait for nothing; a connection also by those
that wait for a row, a key or, in `lookup`, for a second connection. `StallsLast`
says what a stall means: whatever else happens, it ends only if one of the
duplicate submissions in it fails. `Ready` there spells out when `Step` can be
taken.

**InventoryProofs.** `WriteInv`: no two transactions are on one worker; one that
is about to write back what it read still finds it unchanged; the rows inserted
so far are the beginning of the list to insert; and the committed rows of every
worker are the list reported last. The last part is why `InventoriesAreWhole`
holds between any two statements, and it needs the others: the rows that a
COMMIT publishes are complete, and not older than what they replace. `WalkInv`: everything seen lies at or before the token,
everything owed after it. A page is the prefix of the remaining keys
(`PageIsPrefix`), which carries `WalkInv` over a page for any table and any page
size; a write in between adds or removes only keys whose place the invariant
knows. For offsets, `OffsetInv` says the same by counting, as long as the walk is
calm: what was seen is a prefix of the matching keys, and the offset is its size
(`Positioned`). A write ahead of the position leaves the prefix as it is; the
page at an offset starts with the first key behind the prefix, because ranks in
the sorted list and sizes of prefixes agree (`PrefixRanks`). That gives
`OffsetIsExact`. `RegistrationsFit` adds that a validated registration never
violates the unique device index.

**PlannerProofs.** What `Plan` and `PlanPreemptions` decide, for any cluster and
snapshots of any size. Both are loops, and induction over their rounds is not
available as a rule; instead, a formula says what holds after `n` rounds, and
the least `n` that refutes it is led to a contradiction. For `Plan` the formula
is `Partial`: the assignments so far are of the jobs at the head of the queue,
`committed` is the total of what each worker holds and was given, each worker
can serve all of that together, and a job ahead was placed exactly if it had
room. The step is `ServesOneMore`: a job that passes `Fits` can join the others
on a worker although nobody knows which GPUs they use, because `freeGPUCount`
subtracts all committed GPUs from those above the new job's bar. For
`PlanPreemptions` it is `Sparing`: victims are running, preemptible, of lower
effective priority than their pending job, and never named twice.

Five facts are assumed by name there and proved in `SchedulerProofs` with the
library's theorems on finite sets: a set of numbers has a least one
(`LeastNumbers`), totals are sums (`TotalsAdd`: the order in which the fold
takes elements out does not matter), GPUs and lists are counted (`UsableCounts`,
`Counts`), and `SortedBy` sorts (`Sorts`). Keeping the library out of
`PlannerProofs` keeps its obligations small.

**SchedulerProofs.** `PlacedStaysPlaced`: no placed job is given to another
worker, whatever `Plan` decides and however many instances write at once. The
invariant is that a queued row is on no worker, and the check under the row lock
does the rest. `SingleLeaderRespectsCapacity`: without overlap no worker is
over-committed. `CapacityIsRespected` is not inductive, since it says nothing of
decisions not yet written. `LoadInv` counts as a worker's load what it holds
and what the running instance has yet to write to it, and says that the worker
can serve its load. `ListAndPlan` makes it true by `Plan`'s theorem; every other
step leaves the load or takes something away: a callback frees capacity or
keeps it, a write moves a job from the list to the row, a skipped write or an
end of the pass drops it. `SchedulerIsTyped` comes from the same invariant.
`PlansRespectCapacity`, `PlansServeInOrder` and `VictimsAreFairGame` are
`PlannerProofs`' results as theorems on `PlanningPass`.

**ProcessProofs.** `PInv` says at each place of `run` and `serve` what may be
running, what the pool is and what the clients have seen. It gives `ExitIsClean`,
`PoolGetsClosed`, and with a lemma on wrapped products `PanicIsOverflow`.

Only model-checked: the liveness properties (`DeadWorkerIsLost`,
`EveryJobIsSettled`, `CallsReturnUnlessStalled`, `StartupEnds`,
`SignalEndsProcess`, `HeldJobsAreRecovered`), which the prover does not reach. Every
invariant and action property of the runs has a theorem.

## Where code and comments disagree

Kept as runs. `starvation`: aging adds at most 20 to a priority between 0 and
100, and `fairness.go:5` and ADR-0002:43 say that it prevents starvation. Behind
a stream of jobs whose priority is 21 higher a job gains its 20 and is never
placed. A smaller gap does not settle it, for those ahead age too: with a gap of
20 the same instance has no starvation, but with a third ID, so that the stream
has a backlog of its own, TLC finds it again.

`pool_stall`: `Create` looks a duplicate up on a second
connection while its transaction holds the first. With as many duplicates under
way as the pool has connections, each waits for another's. `job_store` shows
that this is the only way for a call to hang.

The modules also state the claims below; TLC refutes each when it is made the
only INVARIANT or PROPERTY of the setting named here.

| Definition | Claim | Setting | Counterexample |
|---|---|---|---|
| `JobService!RecoversOnlyItsOwnJobs` | `jobs/service.go:337`, jobs assigned to the lost worker | `MCJobService.cfg` | the re-check looks at the state and not at the assignment, and takes a job from a healthy worker |
| `JobService!RetryRemainsAvailable` | `jobs/service.go:254` | `MCJobService.cfg` | any FAILED job |
| `WorkerRegistry!DeadWorkerIsLost` | `workers/service.go:217`, detection is automatic | `MCWorkerRegistry.cfg` with `Fault = {"replica_down"}` | a lease expires while no replica watches, or MarkLost fails |
| `WorkerRegistry!DeadWorkerIsLost` | ADR-0001:41, lost workers are re-detected after loss of etcd's data | `MCWorkerRegistry.cfg` with `Fault = {"etcd_wiped"}` | the keys vanish without an event while a worker is dead |
| `WorkerRegistry!LostMeansKeyExpired` | `workers/worker.go:51` | `MCWorkerRegistry.cfg` | an expiry event handled after a heartbeat granted a new lease |
| `Execution!ExecutorHoldsJob` | repository README:124, the assigned worker executes | `MCExecution.cfg` | an old offer is started after the job was placed elsewhere; Start ignores the reporter |
| `Execution!LostWorkerIsIdle` | `jobs/service.go:347` | `MCExecutionFaults.cfg` with `Fault = {"cut_off"}` | a cut-off agent goes on executing |
| `Execution!OutcomeDecides` | `worker/agent/main.py:222` | `MCExecutionFaults.cfg` | the start report is lost, so the outcome meets a SCHEDULED row |
| `Execution!StopIsConfirmed` | `worker/agent/main.py:166`, nothing is lost | `MCExecution.cfg` with one worker | a job ends by itself after it was told to stop; nobody confirms the stop |
| `Execution!DeadWorkersJobsMoveOn` | `jobs/service.go:337`, jobs "don't sit stuck forever" | `MCExecution.cfg` with one worker, `Fault = {"worker_dies"}` | a pass places the job after LoseWorker ran |
| `Execution!ThreadRemovesItself` | `worker/agent/main.py:188` | `MCExecution.cfg` with one worker, `Fault = {"bad_command"}` | the executor raises outside the `try` |
| `PlanningPass!PreemptionMakesRoom` | `scheduler/plan.go:181` | `MCPlanningPass.cfg` | victims' GPUs are added to a count clamped at zero |
| `PlanningPass!PreemptsNoMoreThanNecessary` | ADR-0005:22 | `MCPlanningPass.cfg` | a victim taken early is not needed once a later one is taken |
| `Scheduler!OneLeaderRuns` | `leases/election.go:21` | `MCScheduler.cfg` | the session expires before its instance notices |
| `Scheduler!CapacityIsRespected` | ADR-0002:59, the write reserves resources | `MCScheduler.cfg` | two overlapping passes place different jobs on the same GPUs |
| `Scheduler!CapacityIsGenuinelyFree` | `scheduler/plan.go:169` | `MCScheduler.cfg` with `Instance = {p1}` | PREEMPTED jobs are not counted as holding capacity |
| `Inventory!OffsetWalkIsStable` | `jobs/repository.go:44`, paging "is stable even as new jobs are created" | `MCInventory.cfg` | a row leaves the filter, or one with an older key appears, behind an offset |
| `Process!FailureIsGraceful` | `cmd/api/main.go:139` | `MCProcess.cfg` | one server fails, and the other's requests are broken off |
| `Process!RecoveryIsFinished` | `cmd/api/main.go:156` | `MCProcess.cfg` | nothing waits for LoseWorker at shutdown |
| `Process!AcceptedConfigRuns` | `config/config.go:133`, misconfiguration fails fast | `MCProcess.cfg` | an interval that overflows passes Validate and panics once elected |
| `Process!KeyIsGivenUp` | `leases/election.go:16`, resigns | `MCProcess.cfg` | Resign fails |

## Not modelled

Logging middleware, log formatting, health probes, migrations, the agent's
configuration, the generated protobuf code (but for the gateway's decoding) and
the frontend are stateless or pure I/O; no property of shared state depends on
them. Checkpoints are designed (ADR-0004) but not implemented. GPU discovery is
a stub. The fields RunningJobIDs, labels and GPU utilisation steer nothing, and
nothing reads the decision log. `leases.Manager.Revoke` has no caller.

Abstractions to keep in mind: random IDs never collide; a lease grant is one
step; passes in `Aging` are atomic, and in `Execution` they know no capacity;
`Process` has one process, and the effects of its death on others are the faults
of the other modules.

What could be added: `Execution`'s expiry replaced by `WorkerRegistry` as a
refinement.
