----------------------------- MODULE MCProcess ------------------------------
(* One process, two requests, and an environment of each kind. *)
EXTENDS Process

Unset == [httpAddr |-> <<>>, grpcAddr |-> <<>>, databaseURL |-> <<>>,
          etcdEndpoints |-> <<>>, interval |-> <<>>, preemption |-> <<>>,
          logLevel |-> <<>>]

\* Nothing set; an interval of zero; one whose Duration wraps; one that does
\* not parse; a port out of range; an empty endpoint.
MCEnvironment ==
    {Unset,
     [Unset EXCEPT !.interval = <<0>>],
     [Unset EXCEPT !.interval = <<15>>],
     [Unset EXCEPT !.interval = <<Garbage>>],
     [Unset EXCEPT !.httpAddr = <<65536>>, !.logLevel = <<"debug">>],
     [Unset EXCEPT !.etcdEndpoints = <<<<"localhost", "">>>>]}
=============================================================================
