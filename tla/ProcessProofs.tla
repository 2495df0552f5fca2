---------------------------- MODULE ProcessProofs ---------------------------
(***************************************************************************)
(* Proofs about Process, for any environments, requests and retry bounds.  *)
(* The argument follows main: what may be running, what the pool is and    *)
(* what the clients have seen is known at each place of run and serve      *)
(* (PInv), and nothing that could break it runs after the exit.            *)
(***************************************************************************)
EXTENDS Process, TLAPS

Starting == {"load", "connect", "probe", "listen"}
Serving == {"serve", "drain", "stop"}

RequestRecord ==
    [via: {"none", "http", "grpc"}, at: {"none", "handler", "query", "done"},
     got: {"nothing", "answer", "error", "cut"}]

Typed == ProcessTypeOK /\ req \in [Request -> RequestRecord]

\* An elected scheduler has an interval that Validate let through.
SoundConfig == ~IsAPI => cfg.interval \in Int /\ cfg.interval > 0

\* Nothing runs before serve.
Unstarted ==
    pc \in Starting => /\ up = {} /\ watcher = "off" /\ election = "off"
                       /\ \A r \in Request : req[r] = NoRequest

\* The pool and the exit code follow run.
PoolFollows ==
    /\ pc \in {"load", "connect"} => pool = "none"
    /\ pc \in {"probe", "listen"} \cup Serving => pool = "open"
    /\ pc \in Starting \cup Serving => code = "none"
    /\ pc = "close" => pool = "closing" /\ code \in {"ok", "error"}

\* Which of the two processes this is decides what it runs.
Roles ==
    /\ IsAPI => election = "off"
    /\ ~IsAPI => "grpc" \notin up /\ \A r \in Request : req[r].via # "grpc"
    /\ pc \notin {"load", "exited"} \/ election # "off" => SoundConfig

\* While it serves, a request has an answer or none yet, and those that came
\* over HTTP are over when the drain was.
Draining ==
    /\ pc \in Serving => \A r \in Request :
          /\ req[r].at = "done" => req[r].got = "answer"
          /\ req[r].at \in {"handler", "query"} => req[r].got = "nothing"
    /\ \A r \in Request : req[r].at \in {"handler", "query"} => req[r].via \in {"http", "grpc"}
    /\ pc = "stop" => up = {} /\ (timedOut = {} => Active("http") = {})

\* After serve has returned.
Over ==
    /\ pc \in {"close", "exited"} /\ code = "ok" =>
          /\ up = {}
          /\ timedOut = {} =>
                /\ election \in {"off", "done"}
                /\ \A r \in Request : \/ req[r].at = "none"
                                      \/ req[r].at = "done" /\ req[r].got = "answer"
    /\ pc \in {"close", "exited"} /\ code \in {"ok", "error"} =>
          ctx = "done" \/ election = "off"
    /\ PoolIsClosed

PInv ==
    /\ Typed /\ Unstarted /\ PoolFollows /\ Roles /\ Draining /\ Over
    /\ PanicNeedsOverflow

-----------------------------------------------------------------------------
\* A Duration computed from a positive number of seconds is not positive only
\* if it wrapped.
LEMMA WrappedDuration ==
    ASSUME NEW n \in Int, n > 0, ~(Duration(n) > 0)
    PROVE  n * NanosPerSecond >= 2^(DurationWidth - 1)
  <1> DEFINE half == 2^(DurationWidth - 1)
             m == n * NanosPerSecond
  <1>1. half \in Nat \ {0} /\ NanosPerSecond \in Nat \ {0}
    BY DurationAssumption
  <1>2. m \in Int /\ m > 0
    BY <1>1
  <1>3. Duration(n) = IF m % (2 * half) < half THEN m % (2 * half)
                      ELSE (m % (2 * half)) - 2 * half
    BY DEF Duration
  <1> HIDE DEF half, m
  <1>4. m < half => m % (2 * half) = m
    BY <1>1, <1>2
  <1>5. ~(m < half)
    BY <1>1, <1>2, <1>3, <1>4
  <1> QED BY <1>1, <1>2, <1>5 DEF half, m

\* What Load accepts.
LEMMA LoadedConfig ==
    ASSUME NEW service \in {"orionqueue-api", "orionqueue-scheduler"},
           NEW env \in Environment, Loads(service, env)
    PROVE  LET c == Overridden(service, env) IN
           /\ c.service = service
           /\ service = "orionqueue-scheduler" => c.interval \in Int /\ c.interval > 0
  <1> DEFINE c == Overridden(service, env)
  <1>1. /\ c.service = service
        /\ c.interval = Override(5, env.interval)
    BY DEF Overridden, Defaults
  <1> HIDE DEF c
  <1>2. c.interval \in Int
    BY <1>1, ProcessAssumption DEF Override, Loads
  <1>3. service = "orionqueue-scheduler" => c.interval > 0
    BY <1>1, Zenon DEF Loads, Validate, c
  <1> QED BY <1>1, <1>2, <1>3 DEF c

-----------------------------------------------------------------------------
\* Nothing runs in the beginning.
LEMMA InitKeeps == Init => PInv
  <1> SUFFICES ASSUME Init PROVE PInv
    OBVIOUS
  <1>1. /\ pc = "load" /\ attempt = 0 /\ code = "none" /\ ctx = "live" /\ up = {}
        /\ pool = "none" /\ req = [r \in Request |-> NoRequest] /\ watcher = "off"
        /\ election = "off" /\ key = FALSE /\ timedOut = {}
    BY Zenon DEF Init
  <1>2. \A r \in Request : req[r] = NoRequest
    BY <1>1
  <1>3. Typed
    <2>1. /\ NoRequest \in RequestRecord /\ NoRequest.via = "none" /\ NoRequest.at = "none"
          /\ NoRequest.got = "nothing"
      BY DEF NoRequest, RequestRecord
    <2>2. req \in [Request -> RequestRecord]
      BY <1>1, <2>1
    <2>3. attempt \in 0..MaxAttempts
      BY <1>1, ProcessAssumption
    <2>4. key \in BOOLEAN
      BY <1>1, Zenon
    <2> QED BY <1>1, <1>2, <2>1, <2>2, <2>3, <2>4 DEF Typed, ProcessTypeOK
  <1>4. Unstarted /\ PoolFollows /\ PanicNeedsOverflow
    BY <1>1, <1>2 DEF Unstarted, PoolFollows, PanicNeedsOverflow, Starting, Serving
  <1>5. Roles /\ Draining
    BY <1>1, <1>2 DEF Roles, Draining, Serving, NoRequest
  <1>6. Over
    BY <1>1 DEF Over, PoolIsClosed
  <1> QED BY <1>3, <1>4, <1>5, <1>6 DEF PInv

\* Load.
LEMMA LoadKeeps ==
    ASSUME PInv, NEW service \in {"orionqueue-api", "orionqueue-scheduler"},
           NEW env \in Environment, Load(service, env)
    PROVE  PInv'
  <1>1. /\ pc = "load" /\ pool' = pool /\ UNCHANGED startup
        /\ \/ /\ pc' = "connect" /\ cfg' = Overridden(service, env) /\ attempt' = 1
              /\ code' = code /\ Loads(service, env)
           \/ pc' = "exited" /\ code' = "error" /\ UNCHANGED <<cfg, attempt>>
    BY DEF Load
  <1>2. /\ ctx' = ctx /\ up' = {} /\ req' = req /\ watcher' = "off" /\ election' = "off"
        /\ key' = key /\ timedOut' = timedOut /\ up = {} /\ pool = "none"
        /\ \A r \in Request : req[r] = NoRequest
    BY <1>1 DEF startup, PInv, Unstarted, PoolFollows, Starting
  <1>3. Typed'
    BY <1>1, <1>2, ProcessAssumption DEF PInv, Typed, ProcessTypeOK
  <1>4. Unstarted' /\ PoolFollows'
    BY <1>1, <1>2 DEF PInv, Unstarted, PoolFollows, Starting, Serving
  <1>5. Roles'
    BY <1>1, <1>2, LoadedConfig DEF Roles, IsAPI, SoundConfig, NoRequest
  <1>6. Draining'
    BY <1>1, <1>2 DEF Draining, Serving, NoRequest
  <1>7. Over'
    BY <1>1, <1>2 DEF Over, PoolIsClosed, Holders, NoRequest, PInv, PoolFollows, Starting
  <1>8. PanicNeedsOverflow'
    BY <1>1 DEF PanicNeedsOverflow, PInv, PoolFollows, Starting
  <1> QED BY <1>3, <1>4, <1>5, <1>6, <1>7, <1>8 DEF PInv

\* The rest of the startup.
LEMMA StartupKeeps ==
    ASSUME PInv, Connect \/ WaitForEtcd \/ ListenFails
    PROVE  PInv'
  <1>1. /\ pc \in Starting \ {"load"} /\ cfg' = cfg /\ UNCHANGED startup
        /\ attempt' \in 0..MaxAttempts
        /\ \/ UNCHANGED <<pc, pool, code>>
           \/ /\ pc = "connect" /\ pc' = "exited" /\ code' = "error"
              /\ pool' \in {"none", "closed"}
           \/ pc = "connect" /\ pc' = "probe" /\ pool' = "open" /\ code' = code
           \/ pc = "probe" /\ pc' = "listen" /\ UNCHANGED <<pool, code>>
           \/ pc' = "close" /\ pool' = "closing" /\ code' = "error"
    BY ProcessAssumption
    DEF Connect, WaitForEtcd, ListenFails, Starting, PInv, Typed, ProcessTypeOK, PoolFollows
  <1>2. /\ ctx' = ctx /\ up' = {} /\ req' = req /\ watcher' = "off" /\ election' = "off"
        /\ key' = key /\ timedOut' = timedOut /\ up = {} /\ election = "off" /\ watcher = "off"
        /\ \A r \in Request : req[r] = NoRequest
    BY <1>1 DEF startup, PInv, Unstarted, Starting
  <1>3. Typed'
    BY <1>1, <1>2 DEF PInv, Typed, ProcessTypeOK
  <1>4. Unstarted' /\ PoolFollows'
    BY <1>1, <1>2 DEF PInv, Unstarted, PoolFollows, Starting, Serving
  <1>5. Roles'
    BY <1>1, <1>2 DEF PInv, Roles, IsAPI, SoundConfig, NoRequest, Starting
  <1>6. Draining'
    BY <1>1, <1>2 DEF Draining, Serving, NoRequest, Starting
  <1>7. Over'
    BY <1>1, <1>2 DEF Over, PoolIsClosed, Holders, NoRequest, PInv, PoolFollows, Starting
  <1>8. PanicNeedsOverflow'
    BY <1>1 DEF PanicNeedsOverflow, PInv, PoolFollows, Starting
  <1> QED BY <1>3, <1>4, <1>5, <1>6, <1>7, <1>8 DEF PInv

\* serve starts what the role of the process calls for.
LEMMA ServeKeeps ==
    ASSUME PInv, Serve
    PROVE  PInv'
  <1>1. /\ pc = "listen" /\ pc' = "serve" /\ pool = "open" /\ code = "none"
        /\ up' = IF IsAPI THEN {"http", "grpc"} ELSE {"http"}
        /\ watcher' \in {"watching", "off"}
        /\ election' = IF IsAPI THEN "off" ELSE "session"
        /\ UNCHANGED <<cfg, attempt, code, ctx, pool, req, key, timedOut>>
        /\ \A r \in Request : req[r] = NoRequest
    BY DEF Serve, PInv, PoolFollows, Unstarted, Starting
  <1>2. Typed'
    BY <1>1 DEF PInv, Typed, ProcessTypeOK
  <1>3. Unstarted' /\ PoolFollows'
    BY <1>1 DEF Unstarted, PoolFollows, Starting, Serving
  <1>4. Roles'
    BY <1>1 DEF PInv, Roles, IsAPI, SoundConfig, NoRequest
  <1>5. Draining'
    BY <1>1 DEF Draining, Serving, NoRequest
  <1>6. Over' /\ PanicNeedsOverflow'
    BY <1>1 DEF Over, PoolIsClosed, PanicNeedsOverflow
  <1> QED BY <1>2, <1>3, <1>4, <1>5, <1>6 DEF PInv

-----------------------------------------------------------------------------
\* What a step of a handler does to its request.
Handled(r, new) ==
    /\ req' = [req EXCEPT ![r] = new] /\ new \in RequestRecord
    /\ pc # "exited"
    /\ \/ /\ req[r].at = "none" /\ new.via \in up /\ new.at = "handler" /\ new.got = "nothing"
       \/ /\ req[r].at \in {"handler", "query"} /\ new.via = req[r].via
          /\ \/ new.at = "query" /\ new.got = req[r].got /\ pool = "open"
             \/ new.at = "handler" /\ new.got = req[r].got
             \/ new.at = "done" /\ (pool = "open" /\ req[r].got = "nothing" => new.got = "answer")

\* What a step of a request may do to it.
LEMMA RequestSteps ==
    ASSUME PInv, NEW r \in Request,
           (\E v \in {"http", "grpc"} : Arrive(r, v)) \/ Acquire(r) \/ QueryReturns(r) \/ Reply(r)
    PROVE  /\ \E new : Handled(r, new)
           /\ UNCHANGED <<pc, cfg, attempt, code, ctx, up, pool, watcher, election, key, timedOut>>
  <1>1. req \in [Request -> RequestRecord] /\ req[r] \in RequestRecord
    BY DEF PInv, Typed
  <1>2. UNCHANGED <<pc, cfg, attempt, code, ctx, up, pool, watcher, election, key, timedOut>>
    BY DEF Arrive, Acquire, QueryReturns, Reply
  <1>3. CASE \E v \in {"http", "grpc"} : Arrive(r, v)
    <2>1. PICK v \in {"http", "grpc"} : Arrive(r, v)
      BY <1>3
    <2> DEFINE new == [via |-> v, at |-> "handler", got |-> "nothing"]
    <2>2. new \in RequestRecord /\ new.via = v /\ new.at = "handler" /\ new.got = "nothing"
      BY DEF RequestRecord
    <2>3. req' = [req EXCEPT ![r] = new] /\ req[r].at = "none" /\ v \in up /\ pc # "exited"
      BY <2>1 DEF Arrive
    <2> HIDE DEF new
    <2>4. Handled(r, new)
      BY <2>2, <2>3 DEF Handled
    <2> QED BY <1>2, <2>4
  <1>4. ASSUME NEW g \in {"answer", "error"}, Finish(r, g), req[r].at = "handler",
               pc # "exited", pool = "open" => g = "answer"
        PROVE  \E new : Handled(r, new)
    <2> DEFINE new == [req[r] EXCEPT !.at = "done", !.got = IF @ = "nothing" THEN g ELSE @]
    <2>1. /\ new \in RequestRecord /\ new.via = req[r].via /\ new.at = "done"
          /\ req[r].got = "nothing" => new.got = g
      BY <1>1, Zenon DEF RequestRecord
    <2>2. req' = [req EXCEPT ![r] = new]
      BY <1>4, Zenon DEF Finish
    <2> HIDE DEF new
    <2>3. Handled(r, new)
      BY <1>4, <2>1, <2>2 DEF Handled
    <2> QED BY <2>3
  <1>5. ASSUME NEW place \in {"handler", "query"}, req' = [req EXCEPT ![r].at = place],
               req[r].at \in {"handler", "query"}, pc # "exited",
               place = "query" => pool = "open"
        PROVE  \E new : Handled(r, new)
    <2> DEFINE new == [req[r] EXCEPT !.at = place]
    <2>1. /\ new \in RequestRecord /\ new.via = req[r].via /\ new.at = place
          /\ new.got = req[r].got
      BY <1>1 DEF RequestRecord
    <2>2. req' = [req EXCEPT ![r] = new]
      BY <1>5
    <2> HIDE DEF new
    <2>3. Handled(r, new)
      BY <1>5, <2>1, <2>2, Zenon DEF Handled
    <2> QED BY <2>3
  <1>6. CASE Acquire(r)
    BY <1>2, <1>4, <1>5, <1>6 DEF Acquire
  <1>7. CASE QueryReturns(r)
    BY <1>2, <1>5, <1>7 DEF QueryReturns
  <1>8. CASE Reply(r)
    BY <1>2, <1>4, <1>8 DEF Reply
  <1> QED BY <1>3, <1>6, <1>7, <1>8

\* Requests keep PInv while they are handled.
LEMMA RequestsKeep ==
    ASSUME PInv, NEW r \in Request, NEW new, Handled(r, new),
           UNCHANGED <<pc, cfg, attempt, code, ctx, up, pool, watcher, election, key, timedOut>>
    PROVE  PInv'
  <1>1. /\ req \in [Request -> RequestRecord] /\ req' \in [Request -> RequestRecord]
        /\ req'[r] = new /\ \A q \in Request \ {r} : req'[q] = req[q]
        /\ new \in RequestRecord /\ pc # "exited" /\ up \subseteq {"http", "grpc"}
    BY DEF PInv, Typed, ProcessTypeOK, Handled
  <1>2. Typed'
    BY <1>1 DEF PInv, Typed, ProcessTypeOK, RequestRecord
  <1>3. req[r].at # "none" \/ up # {}
    BY DEF Handled
  <1>4. Unstarted' /\ PoolFollows'
    <2>1. pc \notin Starting
      BY <1>3 DEF PInv, Unstarted, NoRequest
    <2> QED BY <2>1 DEF PInv, Unstarted, PoolFollows
  <1>5. Roles'
    BY <1>1 DEF PInv, Roles, IsAPI, SoundConfig, Handled
  <1>6. Draining'
    <2>1. pc \in Serving => pool = "open"
      BY DEF PInv, PoolFollows
    <2>2. pc = "stop" => up = {} /\ (timedOut = {} => Active("http")' = {})
      BY <1>1 DEF PInv, Draining, Active, Handled
    <2> QED BY <1>1, <2>1, <2>2, Zenon DEF PInv, Draining, Handled
  <1>7. Over'
    <2>1. pc = "close" /\ code = "ok" /\ timedOut = {} => FALSE
      BY DEF PInv, Over, Handled
    <2> QED BY <1>1, <2>1 DEF PInv, Over, PoolIsClosed
  <1>8. PanicNeedsOverflow'
    BY DEF PInv, PanicNeedsOverflow
  <1> QED BY <1>2, <1>4, <1>5, <1>6, <1>7, <1>8 DEF PInv

\* The lease watcher.
LEMMA WatcherKeeps ==
    ASSUME PInv, LeaseExpires \/ LoseWorkerBegins \/ LoseWorkerReturns \/ WatcherEnds
    PROVE  PInv'
  <1>1. /\ UNCHANGED <<pc, cfg, attempt, code, ctx, up, pool, req, timedOut, election, key>>
        /\ watcher # "off"
        /\ watcher' \in {"watching", "marked", "recovering", "abandoned", "ended"}
        /\ watcher' = "recovering" => pc # "exited"
    BY DEF LeaseExpires, LoseWorkerBegins, LoseWorkerReturns, WatcherEnds, background
  <1>2. Typed'
    BY <1>1 DEF PInv, Typed, ProcessTypeOK
  <1>3. Unstarted' /\ PoolFollows' /\ PanicNeedsOverflow'
    BY <1>1 DEF PInv, Unstarted, PoolFollows, PanicNeedsOverflow
  <1>4. Roles' /\ Draining'
    BY <1>1 DEF PInv, Roles, IsAPI, SoundConfig, Draining, Active
  <1>5. Over'
    BY <1>1 DEF PInv, Over, PoolIsClosed, Holders
  <1> QED BY <1>2, <1>3, <1>4, <1>5 DEF PInv

\* The election loop, as long as it does not panic.
LEMMA ElectionKeeps ==
    ASSUME PInv, UNCHANGED background, UNCHANGED watcher, key' \in BOOLEAN,
           election # "off", election' \in {"session", "pass", "idle", "done"},
           election' = "pass" => (pc # "exited" \/ ctx = "live" \/ pool = "open"),
           election = "done" => election' = "done"
    PROVE  PInv'
  <1>1. UNCHANGED <<pc, cfg, attempt, code, ctx, up, pool, req, timedOut>>
    BY DEF background
  <1>2. Typed'
    BY <1>1 DEF PInv, Typed, ProcessTypeOK
  <1>3. Unstarted' /\ PoolFollows' /\ PanicNeedsOverflow'
    BY <1>1 DEF PInv, Unstarted, PoolFollows, PanicNeedsOverflow
  <1>4. Roles' /\ Draining'
    BY <1>1 DEF PInv, Roles, IsAPI, SoundConfig, Draining, Active
  <1>5. Over'
    <2>1. PoolIsClosed'
      BY <1>1 DEF PInv, Over, PoolIsClosed, Holders
    <2> QED BY <1>1, <2>1 DEF PInv, Over
  <1> QED BY <1>2, <1>3, <1>4, <1>5 DEF PInv

\* The process ends at once: by a signal or a panic.
LEMMA DeathKeeps ==
    ASSUME PInv, pc' = "exited", code' \in {"killed", "panic"},
           code' = "panic" => cfg.interval * NanosPerSecond >= 2^(DurationWidth - 1),
           Cut(Unfinished),
           UNCHANGED <<cfg, attempt, ctx, up, pool, watcher, election, key, timedOut>>
    PROVE  PInv'
  <1>1. /\ req' \in [Request -> RequestRecord]
        /\ \A r \in Request : req'[r].via = req[r].via /\ req'[r].at = req[r].at
    BY DEF PInv, Typed, RequestRecord, Cut
  <1>2. Typed'
    BY <1>1 DEF PInv, Typed, ProcessTypeOK, RequestRecord
  <1>3. Unstarted' /\ PoolFollows' /\ PanicNeedsOverflow'
    BY DEF Unstarted, PoolFollows, PanicNeedsOverflow, Starting, Serving
  <1>4. Roles' /\ Draining'
    BY <1>1 DEF PInv, Roles, IsAPI, SoundConfig, Draining, Serving
  <1>5. Over'
    BY DEF Over, PoolIsClosed
  <1> QED BY <1>2, <1>3, <1>4, <1>5 DEF PInv

\* What the steps of the election loop may do.
LEMMA ElectionSteps ==
    ASSUME PInv, Election \/ SessionLost
    PROVE  PInv'
  <1>0. key \in BOOLEAN /\ election \in {"off", "session", "pass", "idle", "done"}
    BY DEF PInv, Typed, ProcessTypeOK
  <1>1. CASE PassEnds /\ ~(Duration(cfg.interval) > 0)
    <2>1. election = "pass" /\ SoundConfig /\ ~IsAPI
      BY <1>1 DEF PassEnds, PInv, Roles
    <2>2. cfg.interval * NanosPerSecond >= 2^(DurationWidth - 1)
      BY <1>1, <2>1, WrappedDuration DEF SoundConfig
    <2> QED BY <1>1, <2>2, DeathKeeps DEF PassEnds
  <1>2. CASE PassEnds /\ Duration(cfg.interval) > 0
    BY <1>0, <1>2, ElectionKeeps DEF PassEnds
  <1>3. CASE Campaign \/ ElectionReturns \/ Tick \/ StepDown
    BY <1>0, <1>3, ElectionKeeps, Zenon DEF Campaign, ElectionReturns, Tick, StepDown
  <1>4. CASE Resign
    BY <1>0, <1>4, ElectionKeeps, Zenon DEF Resign
  <1>5. CASE SessionLost
    BY <1>0, <1>5, ElectionKeeps, Zenon DEF SessionLost, IsLeader
  <1> QED BY <1>1, <1>2, <1>3, <1>4, <1>5 DEF Election

-----------------------------------------------------------------------------
\* The way down.
LEMMA SignalKeeps ==
    ASSUME PInv, Signal \/ BeginShutdown
    PROVE  PInv'
  <1>1. /\ pc = "serve" /\ pc' \in {"serve", "drain"} /\ ctx' \in {"live", "done"}
        /\ up' \subseteq up
        /\ UNCHANGED <<cfg, attempt, code, pool, req, watcher, election, key, timedOut>>
    BY DEF Signal, BeginShutdown, PInv, Typed, ProcessTypeOK
  <1>2. Typed'
    BY <1>1 DEF PInv, Typed, ProcessTypeOK
  <1>3. Unstarted' /\ PoolFollows' /\ PanicNeedsOverflow'
    BY <1>1 DEF PInv, Unstarted, PoolFollows, PanicNeedsOverflow, Starting, Serving
  <1>4. Roles' /\ Draining'
    BY <1>1 DEF PInv, Roles, IsAPI, SoundConfig, Draining, Serving
  <1>5. Over'
    BY <1>1 DEF Over, PoolIsClosed
  <1> QED BY <1>2, <1>3, <1>4, <1>5 DEF PInv

\* The HTTP drain ends with no HTTP request active, or with a timeout.
LEMMA DrainKeeps ==
    ASSUME PInv, HTTPDrained \/ HTTPTimesOut
    PROVE  PInv'
  <1>1. /\ pc = "drain" /\ pc' = "stop" /\ up' = {}
        /\ timedOut' \subseteq {"http", "grpc", "election"}
        /\ timedOut' = {} => Active("http") = {}
        /\ UNCHANGED <<cfg, attempt, code, ctx, pool, req, watcher, election, key>>
    BY Zenon DEF HTTPDrained, HTTPTimesOut, PInv, Typed, ProcessTypeOK
  <1>2. Typed'
    BY <1>1 DEF PInv, Typed, ProcessTypeOK
  <1>3. Unstarted' /\ PoolFollows' /\ PanicNeedsOverflow'
    BY <1>1 DEF PInv, Unstarted, PoolFollows, PanicNeedsOverflow, Starting, Serving
  <1>4. Roles' /\ Draining'
    BY <1>1 DEF PInv, Roles, IsAPI, SoundConfig, Draining, Serving, Active
  <1>5. Over'
    BY <1>1 DEF Over, PoolIsClosed
  <1> QED BY <1>2, <1>3, <1>4, <1>5 DEF PInv

\* A signal before or after serve ends the process at once.
LEMMA KillKeeps == ASSUME PInv, Kill PROVE PInv'
  BY DeathKeeps DEF Kill

\* serve returns: because a server failed, or at the end of the shutdown.
LEMMA ServerFailsKeeps ==
    ASSUME PInv, NEW v \in {"http", "grpc"}, ServerFails(v)
    PROVE  PInv'
  <1>1. /\ pc = "serve" /\ pc' = "close" /\ code' = "error" /\ ctx' = "done"
        /\ pool' = "closing" /\ up' \subseteq up
        /\ UNCHANGED <<cfg, attempt, req, watcher, election, key, timedOut>>
    BY DEF ServerFails, Returns
  <1>2. Typed'
    BY <1>1 DEF PInv, Typed, ProcessTypeOK
  <1>3. Unstarted' /\ PoolFollows' /\ PanicNeedsOverflow'
    BY <1>1 DEF Unstarted, PoolFollows, PanicNeedsOverflow, Starting, Serving
  <1>4. Roles' /\ Draining'
    BY <1>1 DEF PInv, Roles, IsAPI, SoundConfig, Draining, Serving
  <1>5. Over'
    BY <1>1 DEF Over, PoolIsClosed
  <1> QED BY <1>2, <1>3, <1>4, <1>5 DEF PInv

\* GracefulStop, or the wait for the election, ends with nothing active.
LEMMA StoppedKeeps ==
    ASSUME PInv, Stopped
    PROVE  PInv'
  <1>1. /\ pc = "stop" /\ pc' = "close" /\ code' = "ok" /\ ctx' = "done"
        /\ pool' = "closing"
        /\ IF IsAPI THEN Active("grpc") = {} ELSE election = "done"
        /\ UNCHANGED <<cfg, attempt, up, req, watcher, election, key, timedOut>>
    BY DEF Stopped, Returns
  <1>2. Typed'
    BY <1>1 DEF PInv, Typed, ProcessTypeOK
  <1>3. Unstarted' /\ PoolFollows' /\ PanicNeedsOverflow'
    BY <1>1 DEF Unstarted, PoolFollows, PanicNeedsOverflow, Starting, Serving
  <1>4. Roles' /\ Draining'
    BY <1>1 DEF PInv, Roles, IsAPI, SoundConfig, Draining, Serving
  <1>5. up = {}
    BY <1>1 DEF PInv, Draining
  <1>6. ASSUME timedOut = {}, NEW r \in Request
        PROVE  \/ req[r].at = "none"
               \/ req[r].at = "done" /\ req[r].got = "answer"
    <2>1. Active("http") = {} /\ Active("grpc") = {}
      BY <1>1, <1>6 DEF PInv, Draining, Roles, Active
    <2>2. req[r].at \in {"none", "done"}
      BY <2>1 DEF Active, PInv, Draining, Typed, ProcessTypeOK
    <2> QED BY <1>1, <2>2 DEF PInv, Draining, Serving
  <1>7. election \in {"off", "done"}
    BY <1>1 DEF PInv, Roles
  <1>8. Over'
    BY <1>1, <1>5, <1>6, <1>7 DEF Over, PoolIsClosed
  <1> QED BY <1>2, <1>3, <1>4, <1>8 DEF PInv

\* A stop that times out is recorded in timedOut.
LEMMA StopTimesOutKeeps ==
    ASSUME PInv, StopTimesOut
    PROVE  PInv'
  <1>1. /\ pc = "stop" /\ pc' = "close" /\ code' = "ok" /\ ctx' = "done"
        /\ pool' = "closing" /\ (Cut(Active("grpc")) \/ req' = req)
        /\ timedOut' # {} /\ timedOut' \subseteq {"http", "grpc", "election"}
        /\ UNCHANGED <<cfg, attempt, up, watcher, election, key>>
    BY DEF StopTimesOut, Returns, PInv, Typed, ProcessTypeOK
  <1>2. /\ req' \in [Request -> RequestRecord]
        /\ \A r \in Request : req'[r].via = req[r].via /\ req'[r].at = req[r].at
    BY <1>1 DEF PInv, Typed, RequestRecord, Cut
  <1>3. Typed'
    BY <1>1, <1>2 DEF PInv, Typed, ProcessTypeOK, RequestRecord
  <1>4. Unstarted' /\ PoolFollows' /\ PanicNeedsOverflow'
    BY <1>1 DEF Unstarted, PoolFollows, PanicNeedsOverflow, Starting, Serving
  <1>5. Roles' /\ Draining'
    BY <1>1, <1>2 DEF PInv, Roles, IsAPI, SoundConfig, Draining, Serving
  <1>6. Over'
    BY <1>1, Zenon DEF PInv, Draining, Over, PoolIsClosed
  <1> QED BY <1>3, <1>4, <1>5, <1>6 DEF PInv

\* The exit finds nobody on the pool.
LEMMA ExitKeeps ==
    ASSUME PInv, Exit
    PROVE  PInv'
  <1>1. /\ pc = "close" /\ pc' = "exited" /\ pool' = "closed" /\ Holders = {}
        /\ Cut(Unfinished)
        /\ UNCHANGED <<cfg, attempt, code, ctx, up, watcher, election, key, timedOut>>
    BY DEF Exit
  <1>2. /\ req' \in [Request -> RequestRecord]
        /\ \A r \in Request : /\ req'[r].via = req[r].via /\ req'[r].at = req[r].at
                              /\ req[r].got # "nothing" => req'[r].got = req[r].got
    BY <1>1 DEF PInv, Typed, RequestRecord, Cut
  <1>3. Typed'
    BY <1>1, <1>2 DEF PInv, Typed, ProcessTypeOK, RequestRecord
  <1>4. Unstarted' /\ PoolFollows' /\ PanicNeedsOverflow'
    BY <1>1 DEF PInv, Unstarted, PoolFollows, PanicNeedsOverflow, Starting, Serving
  <1>5. Roles' /\ Draining'
    BY <1>1, <1>2 DEF PInv, Roles, IsAPI, SoundConfig, Draining, Serving
  <1>6. Holders' = {}
    BY <1>1, <1>2 DEF Holders
  <1>7. Over'
    BY <1>1, <1>2, <1>6 DEF PInv, Over, PoolIsClosed
  <1> QED BY <1>3, <1>4, <1>5, <1>7 DEF PInv

\* Every step of Next keeps PInv.
LEMMA NextKeeps == PInv /\ [Next]_vars => PInv'
  <1> SUFFICES ASSUME PInv, [Next]_vars PROVE PInv'
    OBVIOUS
  <1>1. CASE UNCHANGED vars
    <2>1. UNCHANGED <<pc, cfg, attempt, code, ctx, up, pool, req, watcher, election, key, timedOut>>
      BY <1>1 DEF vars
    <2>2. Typed' /\ Unstarted' /\ PoolFollows' /\ PanicNeedsOverflow'
      BY <2>1 DEF PInv, Typed, ProcessTypeOK, Unstarted, PoolFollows, PanicNeedsOverflow
    <2>3. Roles' /\ Draining'
      BY <2>1 DEF PInv, Roles, IsAPI, SoundConfig, Draining, Active
    <2>4. Over'
      BY <2>1 DEF PInv, Over, PoolIsClosed, Holders
    <2> QED BY <2>2, <2>3, <2>4 DEF PInv
  <1>2. CASE Main
    BY <1>2, LoadKeeps, StartupKeeps, ServeKeeps, SignalKeeps, DrainKeeps, StoppedKeeps,
       StopTimesOutKeeps, ExitKeeps DEF Main
  <1>3. CASE Election \/ SessionLost
    BY <1>3, ElectionSteps
  <1>4. CASE LeaseExpires \/ LoseWorkerBegins \/ LoseWorkerReturns \/ WatcherEnds
    BY <1>4, WatcherKeeps
  <1>5. ASSUME NEW r \in Request,
               \/ \E v \in {"http", "grpc"} : Arrive(r, v)
               \/ Acquire(r) \/ QueryReturns(r) \/ Reply(r)
        PROVE  PInv'
    BY <1>5, RequestSteps, RequestsKeep
  <1>6. CASE Signal \/ Kill
    BY <1>6, SignalKeeps, KillKeeps
  <1>7. ASSUME NEW v \in {"http", "grpc"}, ServerFails(v)
        PROVE  PInv'
    BY <1>7, ServerFailsKeeps
  <1> QED BY <1>1, <1>2, <1>3, <1>4, <1>5, <1>6, <1>7 DEF Next

\* What is known at each place of main stays known.
THEOREM ProcessInvariance == Spec => []PInv
  BY InitKeeps, NextKeeps, PTL DEF Spec

\* The process's state stays well-typed; the retry loops of Connect and
\* waitForEtcd never count past their bound.
THEOREM ProcessIsTyped == Spec => []ProcessTypeOK
  <1>1. PInv => ProcessTypeOK
    BY DEF PInv, Typed
  <1> QED BY <1>1, ProcessInvariance, PTL

\* serve's drain works for any number of requests: exit code 0 without a
\* timeout means that all of them were answered and scheduling is over.
THEOREM ExitIsClean == Spec => []CleanExit
  <1>1. PInv => CleanExit
    BY DEF PInv, Over, CleanExit
  <1> QED BY <1>1, ProcessInvariance, PTL

\* run's deferred calls close the pool on every path that returns.
THEOREM PoolGetsClosed == Spec => []PoolIsClosed
  <1>1. PInv => PoolIsClosed
    BY DEF PInv, Over
  <1> QED BY <1>1, ProcessInvariance, PTL

\* NewTicker panics only on an interval whose Duration wrapped: Validate keeps
\* every other value that is not positive out.
THEOREM PanicIsOverflow == Spec => []PanicNeedsOverflow
  <1>1. PInv => PanicNeedsOverflow
    BY DEF PInv
  <1> QED BY <1>1, ProcessInvariance, PTL
=============================================================================
