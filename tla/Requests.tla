------------------------------ MODULE Requests ------------------------------
(***************************************************************************)
(* What the API server makes of an incoming job request before it touches  *)
(* the store, and how it names the outcome afterwards: the REST gateway's  *)
(* decoding, the conversion to a SubmitInput, ValidateSubmit, the column   *)
(* values written and read back, and toStatus.                             *)
(*                                                                         *)
(* A string is its length, 0 standing for every blank one; a command is    *)
(* the lengths of its arguments.                                           *)
(***************************************************************************)
EXTENDS Integers, Sequences

CONSTANT IntWidth    \* bits of an int32; fewer in a run, so that wrapping is in reach

ASSUME IntWidthAssumption == IntWidth \in Nat \ {0} /\ 64 < 2^(IntWidth - 1)

MaxNameLength == 253
MaxOwnerLength == 253
MaxCommandArgs == 256
MaxCommandArgLength == 4096
MaxSubmissionIDLength == 256
MaxGPUCount == 64
MaxPriority == 100
MaxRetryLimit == 100

NoResources == [gpuCount |-> 0, minMemory |-> 0, cpu |-> 0, memory |-> 0]

\* A nil message field: the request leaves its resources out.
Omitted == [omitted |-> TRUE]

resourcesToDomain(r) == IF r = Omitted THEN NoResources ELSE r

\* What the SubmitJob handler passes to the service.
SubmitInput(msg) == [msg.in EXCEPT !.resources = resourcesToDomain(@)]

\* Takes MaxGPUCount for the scheduler's business.
ValidateSubmitSlip(in) ==
    {p \in {"priority", "retry_limit"} :
        CASE p = "priority" -> in.priority \notin 0..MaxPriority
          [] p = "retry_limit" -> in.retryLimit \notin 0..MaxRetryLimit}

\* The problems ValidateSubmit collects; none means the request is accepted.
ValidateSubmit(in) ==
    {p \in {"name", "owner", "image", "command", "gpu_count",
            "min_gpu_memory_bytes", "cpu_cores", "memory_bytes", "priority",
            "retry_limit", "timeout_seconds", "checkpoint_interval_seconds",
            "submission_id"} :
        CASE p = "name" -> in.name \notin 1..MaxNameLength
          [] p = "owner" -> in.owner \notin 1..MaxOwnerLength
          [] p = "image" -> in.image = 0
          [] p = "command" ->
                \/ Len(in.command) > MaxCommandArgs
                \/ \E i \in DOMAIN in.command : in.command[i] > MaxCommandArgLength
          [] p = "gpu_count" -> in.resources.gpuCount > MaxGPUCount
          [] p = "min_gpu_memory_bytes" -> in.resources.minMemory < 0
          [] p = "cpu_cores" -> in.resources.cpu < 0
          [] p = "memory_bytes" -> in.resources.memory < 0
          [] p = "priority" -> in.priority \notin 0..MaxPriority
          [] p = "retry_limit" -> in.retryLimit \notin 0..MaxRetryLimit
          [] p = "timeout_seconds" -> in.timeout < 0
          [] p = "checkpoint_interval_seconds" -> in.checkpoint < 0
          [] p = "submission_id" -> in.submissionLength > MaxSubmissionIDLength}

-----------------------------------------------------------------------------
\* Go's int32(n) of a uint32, and uint32(n) of an int32.
ToSigned(n) == IF n < 2^(IntWidth - 1) THEN n ELSE n - 2^IntWidth
ToUnsigned(n) == IF n >= 0 THEN n ELSE n + 2^IntWidth

\* The columns of a row that the scheduler later computes with: gpu_count is
\* signed in the table and unsigned in jobs.Job.
jobInsertArgs(in) == [gpu_count |-> ToSigned(in.resources.gpuCount),
                      priority |-> in.priority]

scanJob(columns) == [gpuCount |-> ToUnsigned(columns.gpu_count),
                     priority |-> columns.priority]

NoColumns == [gpu_count |-> 0, priority |-> 0]

-----------------------------------------------------------------------------
\* The gateway decodes a body (an empty one is the zero message) and lets the
\* path's ID overwrite the body's; a gRPC message arrives as it is.
Decodable(msg) ==
    msg.transport = "grpc" \/ msg.rpc = "GetJob" \/ msg.body # "malformed"

AddressedJob(msg) ==
    IF msg.transport = "rest" /\ msg.rpc \in {"GetJob", "CancelJob", "RetryJob"}
    THEN msg.pathID
    ELSE msg.bodyID

\* Outcome of a call -> gRPC code.
toStatus(outcome) ==
    CASE outcome = "ok" -> "OK"
      [] outcome = "invalid" -> "InvalidArgument"
      [] outcome = "not_found" -> "NotFound"
      [] outcome \in {"invalid_state", "retry_limit_exceeded"} -> "FailedPrecondition"
      [] OTHER -> "Internal"
=============================================================================
