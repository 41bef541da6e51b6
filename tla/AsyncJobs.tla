----------------------------- MODULE AsyncJobs ------------------------------
(***************************************************************************)
(* Asynchronous jobs (job.service.ts, job.repository.ts).  A job runs in   *)
(* the process that took the request, and tells the user's webhooks how it *)
(* ended: its executor is one of the dispatchers of module Webhooks.       *)
(***************************************************************************)
EXTENDS Webhooks

CONSTANTS
    Jobs,               \* rows of async_jobs; Jobs \subseteq Dispatchers
    MaxJobs,            \* MAX_ACTIVE_JOBS_PER_USER
    Submitters          \* concurrent requests for a job

JobStates == {"PENDING", "PROCESSING", "COMPLETED", "FAILED"}

ASSUME JobsAssumption ==
    /\ IsFiniteSet(Jobs) /\ Jobs \subseteq Dispatchers /\ MaxJobs \in Nat \ {0}
    /\ IsFiniteSet(Submitters) /\ Submitters # {}
    /\ None \notin JobStates \cup {"begin", "complete", "completed", "fail", "failed"}

VARIABLES
    job,                \* job[j]: its status, or None
    submitting,         \* submitters that have passed the count of jobs
    executor,           \* executor[j]: the next step of executeJob, or None
    lostJobs            \* jobs whose executor died or failed in writing a status

jobVars == <<job, submitting, executor, lostJobs>>

InitJobs ==
    /\ job = [j \in Jobs |-> None]
    /\ submitting = {} /\ lostJobs = {}
    /\ executor = [j \in Jobs |-> None]

ActiveJobs == {j \in Jobs : job[j] \in {"PENDING", "PROCESSING"}}

RoomForJob == Cardinality(ActiveJobs) < MaxJobs

CountJobs(q) ==
    /\ q \notin submitting /\ RoomForJob
    /\ submitting' = submitting \cup {q}
    /\ UNCHANGED <<job, executor, lostJobs>> /\ UNCHANGED hookVars

CreateJob(q, j) ==
    /\ q \in submitting /\ job[j] = None
    /\ job' = [job EXCEPT ![j] = "PENDING"]
    /\ executor' = [executor EXCEPT ![j] = "begin"]
    /\ submitting' = submitting \ {q}
    /\ UNCHANGED lostJobs /\ UNCHANGED hookVars

\* Where executeJob goes when a step succeeds and when it throws: the first
\* step and those of the catch are outside the try.
Steps == [begin     |-> [status |-> "PROCESSING", then |-> "complete", catch |-> None],
          complete  |-> [status |-> "COMPLETED", then |-> "completed", catch |-> "fail"],
          fail      |-> [status |-> "FAILED", then |-> "failed", catch |-> None]]

WriteStatus(j) ==
    /\ executor[j] \in DOMAIN Steps
    /\ job' = [job EXCEPT ![j] = Steps[executor[j]].status]
    /\ executor' = [executor EXCEPT ![j] = Steps[@].then]
    /\ UNCHANGED <<submitting, lostJobs>> /\ UNCHANGED hookVars

WriteStatusFails(j) ==
    /\ executor[j] \in DOMAIN Steps
    /\ executor' = [executor EXCEPT ![j] = Steps[@].catch]
    /\ lostJobs' = IF executor'[j] = None THEN lostJobs \cup {j} ELSE lostJobs
    /\ UNCHANGED <<job, submitting>> /\ UNCHANGED hookVars

\* 'job.completed' or 'job.failed' for the user's webhooks.
Announce(j, targets) ==
    /\ executor[j] \in {"completed", "failed"} /\ dispatch[j] = None
    /\ Dispatch(j, targets)
    /\ executor' = IF targets = {} THEN [executor EXCEPT ![j] = None] ELSE executor
    /\ UNCHANGED <<job, submitting, lostJobs>>

Announcing(j) ==
    /\ (\E d \in Deliveries : CreateDelivery(j, d)) \/ Enqueue(j) \/ EnqueueDirectly(j)
    /\ executor' = IF dispatch'[j] = None THEN [executor EXCEPT ![j] = None] ELSE executor
    /\ UNCHANGED <<job, submitting, lostJobs>>

\* A completed job whose event cannot be sent goes to the catch of executeJob.
AnnouncingFails(j) ==
    /\ executor[j] \in {"completed", "failed"}
    /\ IF dispatch[j] = None THEN UNCHANGED hookVars ELSE DispatchFails(j)
    /\ executor' = [executor EXCEPT ![j] = IF @ = "completed" THEN "fail" ELSE None]
    /\ UNCHANGED <<job, submitting, lostJobs>>

JobCrash ==
    /\ HookCrash
    /\ submitting' = {}
    /\ executor' = [j \in Jobs |-> None]
    /\ lostJobs' = lostJobs \cup {j \in Jobs : executor[j] # None}
    /\ UNCHANGED job

JobStep ==
    \/ \E q \in Submitters : CountJobs(q) \/ \E j \in Jobs : CreateJob(q, j)
    \/ \E j \in Jobs : \/ WriteStatus(j) \/ WriteStatusFails(j)
                       \/ \E targets \in SUBSET Endpoints : Announce(j, targets)
                       \/ Announcing(j) \/ AnnouncingFails(j)
    \/ JobCrash

\* Events of other requests, such as 'transaction.created'.
OtherDispatch ==
    /\ \E x \in Dispatchers \ Jobs :
          \/ \E targets \in SUBSET Endpoints : Dispatch(x, targets)
          \/ Dispatching(x) \/ RetryOrPing(x)
    /\ UNCHANGED jobVars

-----------------------------------------------------------------------------
TypeOKJobs ==
    /\ job \in [Jobs -> JobStates \cup {None}]
    /\ executor \in [Jobs -> {None, "begin", "complete", "completed", "fail", "failed"}]
    /\ submitting \subseteq Submitters /\ lostJobs \subseteq Jobs
    /\ \A j \in Jobs : dispatch[j] # None => executor[j] \in {"completed", "failed"}

\* However requests overlap, a user has at most one active job too many for
\* each further request that runs at the same time.
JobsWithinLimit ==
    Cardinality(ActiveJobs) <= MaxJobs + Cardinality(Submitters) - 1

\* A job counts against the limit only while something executes it, unless
\* its process died or could not write its status; then it counts for ever.
ActiveIsExecuted == \A j \in ActiveJobs : executor[j] # None \/ j \in lostJobs
=============================================================================
