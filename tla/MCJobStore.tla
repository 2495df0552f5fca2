----------------------------- MODULE MCJobStore -----------------------------
(* Small instances of JobStore for TLC. *)
EXTENDS JobStoreService, TLC

CONSTANTS s1, sc, j1

MCHostOf == [c \in Caller |-> IF c = sc THEN "scheduler" ELSE "api"]

Zero == [name |-> 0, owner |-> 0, image |-> 0, command |-> <<>>,
         resources |-> NoResources, priority |-> 0, preemptible |-> FALSE,
         retryLimit |-> 0, timeout |-> 0, checkpoint |-> 0, submissionLength |-> 0]

Good == [Zero EXCEPT !.name = 8, !.owner = 4, !.image = 20, !.command = <<2, 300>>,
                     !.resources.gpuCount = 64, !.priority = 100, !.retryLimit = 1]

\* Each breaks one rule of ValidateSubmit, most of them by one.
Bad == {[Zero EXCEPT !.resources = Omitted], [Good EXCEPT !.name = 254], [Good EXCEPT !.owner = 254],
        [Good EXCEPT !.command = <<4097>>], [Good EXCEPT !.resources.gpuCount = 65],
        [Good EXCEPT !.resources.gpuCount = 255], [Good EXCEPT !.priority = 101],
        [Good EXCEPT !.priority = -1], [Good EXCEPT !.retryLimit = -1],
        [Good EXCEPT !.resources.memory = -1], [Good EXCEPT !.timeout = -1],
        [Good EXCEPT !.submissionLength = 257]}

Plain(rpc) == [rpc |-> rpc, transport |-> "grpc", body |-> "ok", pathID |-> NoJob,
               bodyID |-> NoJob, submissionID |-> NoSubmission, in |-> Zero]

MCMessage ==
    {[Plain("SubmitJob") EXCEPT !.in = Good, !.submissionID = s1]}
    \cup {[Plain("SubmitJob") EXCEPT !.in = in] : in \in Bad}
    \cup {[Plain("CancelJob") EXCEPT !.transport = "rest", !.body = b] :
             b \in {"malformed", "empty"}}
    \cup {[Plain("CancelJob") EXCEPT !.transport = "rest", !.pathID = j1],
          [Plain("GetJob") EXCEPT !.bodyID = j1],
          [Plain("ReportJobStarted") EXCEPT !.bodyID = j1]}
=============================================================================
