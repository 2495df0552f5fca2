------------------------------- MODULE Aging --------------------------------
(***************************************************************************)
(* Who is served when there is always more to do: RunOnce's passes over a  *)
(* queue that clients keep filling, with Plan and the aging of             *)
(* EffectivePriority.  One instance leads throughout, passes are atomic    *)
(* (Scheduler interleaves them) and the workers stay.  An ID whose job is  *)
(* over is used for another job.                                           *)
(*                                                                         *)
(* Time is kept as ages, counted from now backwards, so that it need not   *)
(* be bounded: once waiting adds MaxAgingBonus, an age serves only to tell *)
(* who came first.                                                         *)
(***************************************************************************)
EXTENDS Jobs, Planner, TLC

CONSTANTS
    Job,             \* job IDs, numbers
    MaxRun           \* the longest that a placed job takes to finish

VARIABLES
    jobs,            \* job ID -> row
    age,             \* job ID -> ticks since it was created
    ran,             \* job ID -> ticks since it was placed
    passed           \* a pass has seen the jobs as they are

vars == <<jobs, age, ran, passed>>

\* From this age on waiting adds nothing.
FullAge == AgingInterval * MaxAgingBonus

Init ==
    /\ jobs = [j \in Job |-> NoRow]
    /\ age = [j \in Job |-> 0]
    /\ ran = [j \in Job |-> 0]
    /\ passed = TRUE

Present == {j \in Job : jobs[j].state # "NONE"}

\* The snapshot a pass reads; now is 0.
Active == [j \in Present |-> jobs[j] @@ [createdAt |-> -age[j]]]

Submit(j, r) ==
    /\ jobs[j].state = "NONE"
    /\ jobs' = [jobs EXCEPT ![j] =
           NewJob(NoSubmission, 0, FALSE)
           @@ [priority |-> r.priority, need |-> r.need, minGPUMemory |-> r.minGPUMemory]]
    /\ age' = [age EXCEPT ![j] = 0]
    /\ passed' = FALSE
    /\ UNCHANGED ran

\* RunOnce: what Plan places is written.
RunOnce ==
    /\ ~passed
    /\ LET placed == Plan(Active, 0)
           w(j) == {placed[i].worker : i \in {k \in DOMAIN placed : placed[k].job = j}}
       IN jobs' = [j \in Job |-> IF w(j) = {} THEN jobs[j] ELSE Assign(jobs[j], w(j))]
    /\ passed' = TRUE
    /\ UNCHANGED <<age, ran>>

\* A placed job runs for a while and is over.
Finish(j) ==
    /\ jobs[j].state = "SCHEDULED" /\ ran[j] > 0
    /\ jobs' = [jobs EXCEPT ![j] = NoRow]
    /\ age' = [age EXCEPT ![j] = 0]
    /\ ran' = [ran EXCEPT ![j] = 0]
    /\ passed' = FALSE

\* One tick older; full ages keep their order and are numbered afresh.
Older(j) ==
    IF age[j] + 1 < FullAge THEN age[j] + 1
    ELSE FullAge + Cardinality({age[k] : k \in {i \in Present : /\ age[i] + 1 >= FullAge
                                                               /\ age[i] < age[j]}})

\* Time passes: passes are more frequent than ticks, so no room is left idle,
\* and a job is over after MaxRun.
Tick ==
    /\ passed
    /\ \A j \in Job : ran[j] < MaxRun
    /\ age' = [j \in Job |-> IF j \in Present THEN Older(j) ELSE 0]
    /\ ran' = [j \in Job |-> IF jobs[j].state = "SCHEDULED" THEN ran[j] + 1 ELSE 0]
    /\ UNCHANGED <<jobs, passed>>

Next ==
    \/ \E j \in Job : Finish(j) \/ \E r \in Requests : Submit(j, r)
    \/ RunOnce
    \/ Tick

Spec == Init /\ [][Next]_vars

\* The leader's loop comes round again and again, time passes, and jobs finish.
\* Clients submit when they please.  RunOnce is enabled until it is taken, and
\* nothing else makes passed true: []<>passed says what WF_vars(RunOnce) does.
Fairness ==
    /\ []<>passed
    /\ WF_vars(Tick)
    /\ \A j \in Job : WF_vars(Finish(j))

FairSpec == Spec /\ Fairness

-----------------------------------------------------------------------------
\* What the comment on the aging parameters says: a steady stream of submissions
\* of higher priority cannot starve a job forever.  Every job that waits is
\* placed eventually.  It is not so: no job gains more than MaxAgingBonus by
\* waiting, and a priority may exceed another by more than that.
NoStarvation ==
    \A j \in Job : jobs[j].state = "QUEUED" ~> jobs[j].state # "QUEUED"
=============================================================================
