------------------------------ MODULE Process -------------------------------
(***************************************************************************)
(* One process of cmd/api or cmd/scheduler, from main to exit: run loads   *)
(* the configuration, waits for PostgreSQL and etcd, and hands over to     *)
(* serve, which runs the servers and the background goroutine (the lease   *)
(* watcher of the API, the election of the scheduler) until a signal       *)
(* arrives or a server fails; then it winds down, and run's deferred calls *)
(* close the etcd client and the connection pool.                          *)
(*                                                                         *)
(* Requests are followed as far as the connection they hold.  A handler    *)
(* that is not in a query may wait for etcd for as long as etcd likes.     *)
(***************************************************************************)
EXTENDS Config, FiniteSets

CONSTANTS
    Environment,     \* the environments a process may be started in
    MaxAttempts,     \* connectMaxAttempts and waitForEtcdMaxAttempts
    Request

ASSUME ProcessAssumption ==
    /\ MaxAttempts \in Nat \ {0}
    /\ \A env \in Environment :
          Parses(env) /\ env.interval # <<>> => env.interval[1] \in Int

VARIABLES
    pc,              \* where run and serve are
    cfg,             \* the configuration Load returned
    attempt,         \* of the retry loop in progress
    code,            \* the exit code, or how else the process ended
    ctx,             \* ShutdownContext: "live" or "done"
    up,              \* the servers that accept requests
    pool,            \* the connection pool
    req,             \* req[r]: a request, as its handler and its client see it
    watcher,         \* the API's lease watcher
    election,        \* the scheduler's election loop
    key,             \* whether the election key is held in this session
    timedOut         \* the waits of the shutdown that ran into their timeout

vars == <<pc, cfg, attempt, code, ctx, up, pool, req, watcher, election, key, timedOut>>
startup == <<ctx, up, req, watcher, election, key, timedOut>>
background == <<pc, cfg, attempt, code, ctx, up, pool, req, timedOut>>

NoRequest == [via |-> "none", at |-> "none", got |-> "nothing"]

Init ==
    /\ pc = "load" /\ cfg = Defaults("") /\ attempt = 0 /\ code = "none"
    /\ ctx = "live" /\ up = {} /\ pool = "none"
    /\ req = [r \in Request |-> NoRequest]
    /\ watcher = "off" /\ election = "off" /\ key = FALSE /\ timedOut = {}

IsAPI == cfg.service = "orionqueue-api"

Active(v) == {r \in Request : req[r].via = v /\ req[r].at \in {"handler", "query"}}

\* What the clients of S see when their connections break.
Cut(S) ==
    req' = [r \in Request |->
        IF r \in S /\ req[r].got = "nothing" THEN [req[r] EXCEPT !.got = "cut"] ELSE req[r]]

Unfinished == Active("http") \cup Active("grpc")

-----------------------------------------------------------------------------
\* Startup.
Load(service, env) ==
    /\ pc = "load"
    /\ IF Loads(service, env)
       THEN /\ pc' = "connect" /\ cfg' = Overridden(service, env) /\ attempt' = 1
            /\ UNCHANGED code
       ELSE pc' = "exited" /\ code' = "error" /\ UNCHANGED <<cfg, attempt>>
    /\ UNCHANGED <<pool, startup>>

\* Connect: configures the pool, which a malformed URL prevents, and pings until
\* one ping succeeds; the pool is closed when none did.
Connect ==
    /\ pc = "connect"
    /\ \/ attempt = 1 /\ pc' = "exited" /\ code' = "error" /\ UNCHANGED <<pool, attempt>>
       \/ pc' = "probe" /\ pool' = "open" /\ attempt' = 1 /\ UNCHANGED code
       \/ /\ attempt < MaxAttempts /\ attempt' = attempt + 1
          /\ UNCHANGED <<pc, pool, code>>
       \/ /\ attempt = MaxAttempts
          /\ pc' = "exited" /\ pool' = "closed" /\ code' = "error" /\ UNCHANGED attempt
    /\ UNCHANGED <<cfg, startup>>

\* Retries without counting.
WaitForEtcdSlip ==
    /\ pc = "probe"
    /\ \/ pc' = "listen" /\ UNCHANGED <<code, attempt, pool>>
       \/ attempt' = (attempt % MaxAttempts) + 1 /\ UNCHANGED <<pc, code, pool>>
    /\ UNCHANGED <<cfg, startup>>

\* Exits at once, past the deferred calls.
WaitForEtcdExitSlip ==
    /\ pc = "probe"
    /\ \/ pc' = "listen" /\ UNCHANGED <<code, attempt, pool>>
       \/ pc' = "exited" /\ code' = "error" /\ UNCHANGED <<attempt, pool>>
    /\ UNCHANGED <<cfg, startup>>

\* The etcd client is created, or cannot be, and probed.
WaitForEtcd ==
    /\ pc = "probe"
    /\ \/ pc' = "listen" /\ UNCHANGED <<code, attempt, pool>>
       \/ /\ attempt < MaxAttempts /\ attempt' = attempt + 1
          /\ UNCHANGED <<pc, code, pool>>
       \/ /\ attempt \in {1, MaxAttempts}
          /\ pc' = "close" /\ pool' = "closing" /\ code' = "error" /\ UNCHANGED attempt
    /\ UNCHANGED <<cfg, startup>>

\* The API's gRPC address cannot be bound, or its gateway not be built.
ListenFails ==
    /\ pc = "listen" /\ IsAPI
    /\ pc' = "close" /\ pool' = "closing" /\ code' = "error"
    /\ UNCHANGED <<cfg, attempt, startup>>

\* serve starts the servers and the background goroutine.
Serve ==
    /\ pc = "listen"
    /\ pc' = "serve"
    /\ up' = IF IsAPI THEN {"http", "grpc"} ELSE {"http"}
    /\ watcher' = IF IsAPI THEN "watching" ELSE "off"
    /\ election' = IF IsAPI THEN "off" ELSE "session"
    /\ UNCHANGED <<cfg, attempt, code, ctx, pool, req, key, timedOut>>

-----------------------------------------------------------------------------
\* Requests.  The REST gateway calls the handlers in-process, so an HTTP
\* request is never one of the gRPC server's.
Arrive(r, v) ==
    /\ req[r].at = "none" /\ v \in up /\ pc # "exited"
    /\ req' = [req EXCEPT ![r] = [via |-> v, at |-> "handler", got |-> "nothing"]]
    /\ UNCHANGED <<pc, cfg, attempt, code, ctx, up, pool, watcher, election, key, timedOut>>

Finish(r, got) ==
    req' = [req EXCEPT ![r].at = "done", ![r].got = IF @ = "nothing" THEN got ELSE @]

\* The handler asks for a connection; a pool that is closing has none to give.
Acquire(r) ==
    /\ req[r].at = "handler" /\ pc # "exited"
    /\ IF pool = "open" THEN req' = [req EXCEPT ![r].at = "query"]
       ELSE Finish(r, "error")
    /\ UNCHANGED <<pc, cfg, attempt, code, ctx, up, pool, watcher, election, key, timedOut>>

QueryReturns(r) ==
    /\ req[r].at = "query" /\ pc # "exited"
    /\ req' = [req EXCEPT ![r].at = "handler"]
    /\ UNCHANGED <<pc, cfg, attempt, code, ctx, up, pool, watcher, election, key, timedOut>>

Reply(r) ==
    /\ req[r].at = "handler" /\ pc # "exited"
    /\ Finish(r, "answer")
    /\ UNCHANGED <<pc, cfg, attempt, code, ctx, up, pool, watcher, election, key, timedOut>>
-----------------------------------------------------------------------------
\* The lease watcher: a lease expires and MarkLost commits; LoseWorker then
\* recovers the worker's jobs, one transaction each, on a context of its own.
LeaseExpires ==
    /\ watcher = "watching" /\ ctx = "live" /\ pool = "open"
    /\ watcher' = "marked"
    /\ UNCHANGED <<background, election, key>>

LoseWorkerBegins ==
    /\ watcher = "marked" /\ pc # "exited"
    /\ watcher' = IF pool = "open" THEN "recovering" ELSE "abandoned"
    /\ UNCHANGED <<background, election, key>>

LoseWorkerReturns ==
    /\ watcher = "recovering" /\ pc # "exited"
    /\ watcher' \in {"marked", "watching"}
    /\ UNCHANGED <<background, election, key>>

WatcherEnds ==
    /\ watcher = "watching" /\ ctx = "done" /\ pc # "exited"
    /\ watcher' = "ended"
    /\ UNCHANGED <<background, election, key>>

-----------------------------------------------------------------------------
\* The election loop: RunElection, with runSchedulingLoop as its onLeader.
Campaign ==
    /\ election = "session" /\ ctx = "live"
    /\ election' = "pass" /\ key' = TRUE
    /\ UNCHANGED <<background, watcher>>

\* What /leader reports.
IsLeader == election \in {"pass", "idle"}

\* The context ends while no leader: the loop returns.
ElectionReturns ==
    /\ election = "session" /\ ctx = "done" /\ pc # "exited"
    /\ election' = "done"
    /\ UNCHANGED <<background, watcher, key>>

Tick ==
    /\ election = "idle" /\ key /\ ctx = "live" /\ pool = "open"
    /\ election' = "pass"
    /\ UNCHANGED <<background, watcher, key>>

\* RunOnce returns; after the first pass the ticker is made, and NewTicker
\* panics on an interval that is not positive.
PassEnds ==
    /\ election = "pass" /\ pc # "exited"
    /\ IF Duration(cfg.interval) > 0
       THEN election' = "idle" /\ UNCHANGED background
       ELSE /\ pc' = "exited" /\ code' = "panic" /\ Cut(Unfinished)
            /\ UNCHANGED <<cfg, attempt, ctx, up, pool, election, timedOut>>
    /\ UNCHANGED <<watcher, key>>

\* The session is lost; onLeader's context is cancelled, its pass runs out, and
\* the loop campaigns again.
SessionLost ==
    /\ IsLeader /\ key /\ pc # "exited"
    /\ key' = FALSE
    /\ UNCHANGED <<background, watcher, election>>

StepDown ==
    /\ election = "idle" /\ ~key /\ pc # "exited"
    /\ election' = "session"
    /\ UNCHANGED <<background, watcher, key>>

\* The shutdown: the pass runs out, and Resign deletes the key, if it succeeds
\* in time.
Resign ==
    /\ election = "idle" /\ ctx = "done" /\ pc # "exited"
    /\ election' = "done"
    /\ key' \in {FALSE, key}
    /\ UNCHANGED <<background, watcher>>

-----------------------------------------------------------------------------
\* The way down.
Signal ==
    /\ pc = "serve" /\ ctx = "live"
    /\ ctx' = "done"
    /\ UNCHANGED <<pc, cfg, attempt, code, up, pool, req, watcher, election, key, timedOut>>

\* Before ShutdownContext and after its stop, a signal has its default effect.
Kill ==
    /\ pc \in {"load", "connect", "probe", "listen", "close"}
    /\ pc' = "exited" /\ code' = "killed" /\ Cut(Unfinished)
    /\ UNCHANGED <<cfg, attempt, ctx, up, pool, watcher, election, key, timedOut>>

\* serve returns with code c: stop ends the context, and the pool is closed.
Returns(c) == pc' = "close" /\ code' = c /\ ctx' = "done" /\ pool' = "closing"

\* A server fails: serve returns at once.
ServerFails(v) ==
    /\ pc = "serve" /\ v \in up
    /\ up' = up \ {v}
    /\ Returns("error")
    /\ UNCHANGED <<cfg, attempt, req, watcher, election, key, timedOut>>

\* Shutdown closes the HTTP listener and waits for the handlers.
BeginShutdown ==
    /\ pc = "serve" /\ ctx = "done"
    /\ pc' = "drain" /\ up' = up \ {"http"}
    /\ UNCHANGED <<cfg, attempt, code, ctx, pool, req, watcher, election, key, timedOut>>

\* Then GracefulStop does the same for gRPC; the scheduler waits for its
\* election loop instead.
HTTPDrained ==
    /\ pc = "drain" /\ Active("http") = {}
    /\ pc' = "stop" /\ up' = {}
    /\ UNCHANGED <<cfg, attempt, code, ctx, pool, req, watcher, election, key, timedOut>>

HTTPTimesOut ==
    /\ pc = "drain" /\ Active("http") # {}
    /\ pc' = "stop" /\ up' = {} /\ timedOut' = timedOut \cup {"http"}
    /\ UNCHANGED <<cfg, attempt, code, ctx, pool, req, watcher, election, key>>

\* Does not wait for the handlers.
StoppedSlip ==
    /\ pc = "stop"
    /\ Returns("ok")
    /\ UNCHANGED <<cfg, attempt, up, req, watcher, election, key, timedOut>>

Stopped ==
    /\ pc = "stop"
    /\ IF IsAPI THEN Active("grpc") = {} ELSE election = "done"
    /\ Returns("ok")
    /\ UNCHANGED <<cfg, attempt, up, req, watcher, election, key, timedOut>>

\* Waits for as long as it takes.
StopTimesOutSlip == FALSE /\ UNCHANGED vars

\* The API forces its gRPC server to stop, which breaks the connections.
StopTimesOut ==
    /\ pc = "stop"
    /\ IF IsAPI THEN Active("grpc") # {} /\ Cut(Active("grpc"))
       ELSE election # "done" /\ UNCHANGED req
    /\ timedOut' = timedOut \cup {IF IsAPI THEN "grpc" ELSE "election"}
    /\ Returns("ok")
    /\ UNCHANGED <<cfg, attempt, up, watcher, election, key>>

\* Who has a connection of the pool.
Holders ==
    {r \in Request : req[r].at = "query"}
        \cup (IF watcher = "recovering" THEN {"watcher"} ELSE {})
        \cup (IF election = "pass" THEN {"election"} ELSE {})

\* dbPool.Close returns once every connection is back, and the process exits.
Exit ==
    /\ pc = "close" /\ Holders = {}
    /\ pc' = "exited" /\ pool' = "closed" /\ Cut(Unfinished)
    /\ UNCHANGED <<cfg, attempt, code, ctx, up, watcher, election, key, timedOut>>

-----------------------------------------------------------------------------
Main ==
    \/ \E service \in {"orionqueue-api", "orionqueue-scheduler"}, env \in Environment :
            Load(service, env)
    \/ Connect \/ WaitForEtcd \/ ListenFails \/ Serve
    \/ BeginShutdown \/ HTTPDrained \/ HTTPTimesOut \/ Stopped \/ StopTimesOut
    \/ Exit

Election == Campaign \/ ElectionReturns \/ Tick \/ PassEnds \/ StepDown \/ Resign

Next ==
    \/ Main
    \/ Election
    \/ SessionLost
    \/ LeaseExpires \/ LoseWorkerBegins \/ LoseWorkerReturns \/ WatcherEnds
    \/ \E r \in Request :
        \/ \E v \in {"http", "grpc"} : Arrive(r, v)
        \/ Acquire(r) \/ QueryReturns(r) \/ Reply(r)
    \/ Signal \/ Kill
    \/ \E v \in {"http", "grpc"} : ServerFails(v)

Spec == Init /\ [][Next]_vars

\* The main goroutine runs, time passes, and a query returns.  A handler that
\* waits for etcd need not get anywhere.
Fairness ==
    /\ WF_vars(Main)
    /\ WF_vars(PassEnds)
    /\ WF_vars(LoseWorkerReturns)
    /\ \A r \in Request : WF_vars(QueryReturns(r))

FairSpec == Spec /\ Fairness

-----------------------------------------------------------------------------
ProcessTypeOK ==
    /\ pc \in {"load", "connect", "probe", "listen", "serve", "drain", "stop", "close", "exited"}
    /\ attempt \in 0..MaxAttempts
    /\ code \in {"none", "ok", "error", "killed", "panic"} /\ ctx \in {"live", "done"}
    /\ up \subseteq {"http", "grpc"} /\ pool \in {"none", "open", "closing", "closed"}
    /\ \A r \in Request :
        /\ req[r].via \in {"none", "http", "grpc"}
        /\ req[r].at \in {"none", "handler", "query", "done"}
        /\ req[r].got \in {"nothing", "answer", "error", "cut"}
    /\ watcher \in {"off", "watching", "marked", "recovering", "abandoned", "ended"}
    /\ election \in {"off", "session", "pass", "idle", "done"} /\ key \in BOOLEAN
    /\ timedOut \subseteq {"http", "grpc", "election"}

\* A process that exits with code 0, and none of whose waits timed out, has
\* answered every request it accepted over either transport, and its scheduling
\* loop is over: serve drains HTTP, then gRPC or the election, before anything
\* they use is closed.
CleanExit ==
    pc = "exited" /\ code = "ok" /\ timedOut = {} =>
        /\ \A r \in Request : req[r].at # "none" => req[r].got = "answer"
        /\ election \in {"off", "done"}

\* A process that returns from run, on whichever path, has closed its pool, and
\* nobody still holds a connection of it then: the deferred calls.
PoolIsClosed ==
    pc = "exited" /\ code \in {"ok", "error"} =>
        pool \in {"none", "closed"} /\ Holders = {}

\* Only an interval too large for a time.Duration gets past Validate and makes
\* the process panic once it is elected.
PanicNeedsOverflow ==
    code = "panic" => cfg.interval * NanosPerSecond >= 2^(DurationWidth - 1)

\* Waiting for PostgreSQL and etcd ends: the process serves, or it exits.
StartupEnds == pc = "load" ~> pc \in {"serve", "exited"}

\* A signal ends the process even if no handler ever returns from etcd: every
\* wait of the shutdown has a timeout, but for the one on queries in progress.
SignalEndsProcess == pc = "serve" /\ ctx = "done" ~> pc = "exited"

-----------------------------------------------------------------------------
\* Not so: "shuts everything down gracefully on the first OS interrupt/SIGTERM
\* or the first component to fail" (cmd/api/main.go:139).  A request is broken
\* off only by a timeout or by the death of the process.
FailureIsGraceful ==
    \A r \in Request :
        req[r].got = "cut" => timedOut # {} \/ code \in {"killed", "panic"}

\* Not so: recovery of a lost worker's jobs "so a crashed worker's in-flight
\* jobs don't sit stuck forever" (cmd/api/main.go:156) outlives a shutdown.
RecoveryIsFinished ==
    pc = "exited" /\ code = "ok" => watcher \notin {"marked", "recovering", "abandoned"}

\* Not so: "misconfiguration fails fast at startup instead of surfacing later as
\* a confusing runtime error" (config.go:133).
AcceptedConfigRuns == code # "panic"

\* Not so: RunElection "keeps running until ctx is canceled, at which point it
\* resigns" (election.go:16).
KeyIsGivenUp == pc = "exited" /\ code = "ok" /\ timedOut = {} => ~key
=============================================================================
