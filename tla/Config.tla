------------------------------- MODULE Config -------------------------------
(***************************************************************************)
(* Package config: Defaults, Load and Validate, and the one value that is  *)
(* computed with later, the scheduling interval.                           *)
(*                                                                         *)
(* env maps a variable to <<>> when it is missing or empty, and to <<v>>   *)
(* otherwise.  An address is its port, NoPort standing for one that has no *)
(* numeric port; a database URL is its scheme.                             *)
(***************************************************************************)
EXTENDS Integers, Sequences

CONSTANTS
    NanosPerSecond,  \* units of time.Duration in a second
    DurationWidth,   \* bits of a time.Duration; few in a run, so that it wraps
    Garbage          \* a supplied number or flag that does not parse

ASSUME DurationAssumption ==
    /\ NanosPerSecond \in Nat \ {0} /\ DurationWidth \in Nat \ {0, 1}
    /\ 2^(DurationWidth - 1) \in Nat \ {0}

NoPort == -1

usesClusterDeps(service) == service \in {"orionqueue-api", "orionqueue-scheduler"}

Defaults(service) ==
    [service |-> service,
     httpAddr |-> IF service = "orionqueue-scheduler" THEN 7081 ELSE 7080,
     grpcAddr |-> <<IF service = "orionqueue-scheduler" THEN 9081 ELSE 9080>>,
     databaseURL |-> IF usesClusterDeps(service) THEN "postgres" ELSE "",
     etcdEndpoints |-> IF usesClusterDeps(service) THEN <<"localhost">> ELSE <<>>,
     interval |-> 5,
     preemption |-> FALSE,
     logLevel |-> "info"]

Override(default, value) == IF value = <<>> THEN default ELSE value[1]

\* The configuration Load builds, when every supplied value parses.
Overridden(service, env) ==
    LET d == Defaults(service) IN
    [d EXCEPT !.httpAddr = Override(@, env.httpAddr),
              !.grpcAddr = IF env.grpcAddr = <<>> THEN @ ELSE env.grpcAddr,
              !.databaseURL = Override(@, env.databaseURL),
              !.etcdEndpoints = Override(@, env.etcdEndpoints),
              !.interval = Override(@, env.interval),
              !.preemption = Override(@, env.preemption),
              !.logLevel = Override(@, env.logLevel)]

Parses(env) == env.interval # <<Garbage>> /\ env.preemption # <<Garbage>>

portOf(addr) == addr \in 0..65535

\* Lets an interval of zero pass.
ValidateSlip(c) ==
    /\ portOf(c.httpAddr)
    /\ c.service = "orionqueue-scheduler" => c.interval >= 0

Validate(c) ==
    /\ c.logLevel \in {"debug", "info", "warn", "error"}
    /\ portOf(c.httpAddr)
    /\ c.grpcAddr # <<>> => portOf(c.grpcAddr[1])
    /\ usesClusterDeps(c.service) =>
        /\ c.databaseURL \in {"postgres", "postgresql"}
        /\ c.etcdEndpoints # <<>>
        /\ \A i \in DOMAIN c.etcdEndpoints : c.etcdEndpoints[i] # ""
    /\ c.service = "orionqueue-scheduler" => c.interval > 0

Loads(service, env) == Parses(env) /\ Validate(Overridden(service, env))

\* time.Duration(n) * time.Second.
Duration(n) ==
    LET half == 2^(DurationWidth - 1)
        d == (n * NanosPerSecond) % (2 * half)
    IN IF d < half THEN d ELSE d - 2 * half
=============================================================================
