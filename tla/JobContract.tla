---------------------------- MODULE JobContract -----------------------------
(***************************************************************************)
(* What the job API promises a client about one job, without workers,      *)
(* rows or recovery loops: a job waits, is placed, and ends in exactly one *)
(* outcome that is final; a failure costs one attempt of its budget, and   *)
(* the job is given up only when no attempt is left; preemption sends it   *)
(* back to waiting for free; a cancellation under way ends in cancelled.   *)
(***************************************************************************)
EXTENDS Naturals

CONSTANTS Job, RetryLimits

VARIABLES
    phase,           \* where the job stands
    attempt,         \* attempts begun so far
    budget           \* the retry limit it was submitted with

vars == <<phase, attempt, budget>>

Init ==
    /\ phase = [j \in Job |-> "absent"]
    /\ attempt = [j \in Job |-> 0]
    /\ budget = [j \in Job |-> 0]

Become(j, from, to) == phase[j] \in from /\ phase' = [phase EXCEPT ![j] = to]

Keep == UNCHANGED <<attempt, budget>>

Submit(j, limit) ==
    /\ Become(j, {"absent"}, "waiting")
    /\ attempt' = [attempt EXCEPT ![j] = 1]
    /\ budget' = [budget EXCEPT ![j] = limit]

Place(j) == Become(j, {"waiting"}, "placed") /\ Keep

Succeed(j) == Become(j, {"placed"}, "succeeded") /\ Keep

TryAgain(j) ==
    /\ attempt[j] < budget[j]
    /\ Become(j, {"placed"}, "waiting")
    /\ attempt' = [attempt EXCEPT ![j] = @ + 1]
    /\ UNCHANGED budget

GiveUp(j) ==
    /\ attempt[j] >= budget[j]
    /\ Become(j, {"placed"}, "failed")
    /\ Keep

AskToYield(j) == Become(j, {"placed"}, "yielding") /\ Keep

Yield(j) == Become(j, {"yielding"}, "waiting") /\ Keep

AskToCancel(j) == Become(j, {"placed"}, "cancelling") /\ Keep

CancelNow(j) == Become(j, {"waiting", "placed", "cancelling"}, "cancelled") /\ Keep

Next ==
    \E j \in Job :
        \/ \E limit \in RetryLimits : Submit(j, limit)
        \/ Place(j)
        \/ Succeed(j)
        \/ TryAgain(j)
        \/ GiveUp(j)
        \/ AskToYield(j)
        \/ Yield(j)
        \/ AskToCancel(j)
        \/ CancelNow(j)

Spec == Init /\ [][Next]_vars
=============================================================================
