----------------------------- MODULE BatchRunner -----------------------------
(***************************************************************************)
(* The Azure Batch task runner (run/task/batch.py) with its client         *)
(* (run/batch/client.py): one workflow job, whose Batch job the executor's *)
(* main thread creates, and the threads that submit tasks to it and ask    *)
(* which of them have failed.  The threads share two caches whose entries  *)
(* expire and the lock over the second.  The Batch service goes on by      *)
(* itself: tasks start and end, and operators terminate or delete the job, *)
(* or restart tasks with the client's own methods.                         *)
(***************************************************************************)
EXTENDS Naturals, FiniteSets

CONSTANTS
  Pollers,         \* threads, each with one task of its own name
  TaskDefs,        \* task definitions of the job: calls of prepare_task_info
  BatchCallsRaise, \* may a call of the Batch API fail, with or without effect?
  OperatorActs     \* may an operator terminate, delete or restart?

ASSUME BatchAssumption ==
  /\ IsFiniteSet(Pollers) /\ Pollers # {} /\ "free" \notin Pollers
  /\ TaskDefs \in Nat \ {0}
  /\ BatchCallsRaise \in BOOLEAN /\ OperatorActs \in BOOLEAN

VARIABLES
  poolFound,   \* the pool of the task's tag exists
  prepared,    \* task definitions prepared so far
  mainAt,      \* main thread: "prepare", "get", "add", "run", "raised", "ended"
  createCache, \* response_cache holds create_batch_job
  batchJob,    \* "absent", "active", "terminated", "deleted"
  batchTask,   \* state of each task in the service
  pollerAt,    \* where each thread is
  failedLock,  \* holder of failed_task_lock, or "free"
  jobFailedAt, \* job_failed, read by the holder of the lock
  failedCache, \* the cached answer, [tasks, job], if there is one: a set
  told,        \* what a thread was told of its task: "nothing", "failed", "job failed"
  listings,    \* listings of failed tasks in the cache period at hand
  failedInPeriod \* tasks the service had as failed at some time of the period

azure == <<batchJob, batchTask, poolFound>>
mainVars == <<prepared, mainAt, createCache>>
pollVars == <<pollerAt, failedLock, jobFailedAt, failedCache, told, listings>>
batchVars == <<azure, mainVars, pollVars, failedInPeriod>>

BatchTaskState == {"absent", "active", "running", "succeeded", "failed"}
Answers == [tasks : SUBSET Pollers, job : BOOLEAN]

BatchTypeOK ==
  /\ poolFound \in BOOLEAN
  /\ prepared \in 0..TaskDefs
  /\ mainAt \in {"prepare", "get", "add", "run", "raised", "ended"}
  /\ createCache \in BOOLEAN
  /\ batchJob \in {"absent", "active", "terminated", "deleted"}
  /\ batchTask \in [Pollers -> BatchTaskState]
  /\ pollerAt \in [Pollers -> {"idle", "polling", "listing", "done"}]
  /\ failedLock \in Pollers \union {"free"}
  /\ jobFailedAt \in BOOLEAN
  /\ failedCache \in SUBSET Answers /\ Cardinality(failedCache) <= 1
  /\ told \in [Pollers -> {"nothing", "failed", "job failed"}]
  /\ listings \in Nat
  /\ failedInPeriod \subseteq Pollers

BatchInit ==
  /\ poolFound \in BOOLEAN
  /\ prepared = 0 /\ mainAt = "prepare" /\ createCache = FALSE
  /\ batchJob = "absent"
  /\ batchTask = [t \in Pollers |-> "absent"]
  /\ pollerAt = [t \in Pollers |-> "idle"]
  /\ failedLock = "free" /\ jobFailedAt = FALSE /\ failedCache = {}
  /\ told = [t \in Pollers |-> "nothing"]
  /\ listings = 0 /\ failedInPeriod = {}

(***************************************************************************)
(* prepare_task_info and _create_job_if_needed, of the main thread         *)
(***************************************************************************)
DefPrepared ==
  /\ prepared' = prepared + 1
  /\ mainAt' = IF prepared + 1 = TaskDefs THEN "run" ELSE "prepare"

CreationCached ==
  /\ mainAt = "prepare" /\ createCache
  /\ DefPrepared
  /\ UNCHANGED <<azure, createCache, pollVars, failedInPeriod>>

\* get_job answers None for a job that is not there, and for every error with
\* a code of its own as well.
GetJob ==
  /\ mainAt = "prepare" /\ ~createCache
  /\ \/ /\ batchJob \in {"active", "terminated"}
        /\ DefPrepared /\ createCache' = TRUE
     \/ /\ batchJob \in {"absent", "deleted"} \/ BatchCallsRaise
        /\ mainAt' = IF poolFound THEN "add" ELSE "raised"
        /\ UNCHANGED <<prepared, createCache>>
  /\ UNCHANGED <<azure, pollVars, failedInPeriod>>

\* Adding a job that exists raises.
AddJob ==
  /\ mainAt = "add" /\ batchJob \in {"absent", "deleted"}
  /\ batchJob' = "active" /\ createCache' = TRUE
  /\ DefPrepared
  /\ UNCHANGED <<batchTask, poolFound, pollVars, failedInPeriod>>

AddJobRaises ==
  /\ mainAt = "add"
  /\ \/ batchJob \in {"active", "terminated"} /\ UNCHANGED batchJob
     \/ BatchCallsRaise /\ batchJob' \in {batchJob, "active"}
  /\ mainAt' = "raised"
  /\ UNCHANGED <<prepared, createCache, batchTask, poolFound, pollVars, failedInPeriod>>

\* The service ends what runs in a job that is terminated; what is queued stays.
EndRunning ==
  /\ batchTask' = [t \in Pollers |-> IF batchTask[t] = "running" THEN "failed" ELSE batchTask[t]]
  /\ failedInPeriod' = failedInPeriod \union {t \in Pollers : batchTask[t] = "running"}

\* The end of the job's threads, or a failing preparation: cleanup terminates the
\* job of the tasks that were prepared, if any was, and passes over one that is gone.
Cleanup ==
  /\ \/ mainAt = "run" /\ \A t \in Pollers : pollerAt[t] = "done"
     \/ mainAt = "raised"
  /\ mainAt' = "ended"
  /\ IF prepared > 0 /\ batchJob = "active"
     THEN batchJob' = "terminated" /\ EndRunning
     ELSE UNCHANGED <<batchJob, batchTask, failedInPeriod>>
  /\ UNCHANGED <<poolFound, prepared, createCache, pollVars>>

(***************************************************************************)
(* submit_tasks: one task, added while the thread holds the job's lock     *)
(***************************************************************************)
SubmitTask(t) ==
  /\ mainAt = "run" /\ pollerAt[t] = "idle"
  /\ \/ /\ batchJob = "active"
        /\ batchTask' = [batchTask EXCEPT ![t] = "active"]
        /\ \E heard \in IF BatchCallsRaise THEN BOOLEAN ELSE {TRUE} :
             pollerAt' = [pollerAt EXCEPT ![t] = IF heard THEN "polling" ELSE "done"]
     \/ /\ batchJob # "active" \/ BatchCallsRaise
        /\ pollerAt' = [pollerAt EXCEPT ![t] = "done"]
        /\ UNCHANGED batchTask
  /\ UNCHANGED <<batchJob, poolFound, mainVars, failedLock, jobFailedAt, failedCache,
                 told, listings, failedInPeriod>>

\* The thread has read its task's output.
TaskDone(t) ==
  /\ pollerAt[t] = "polling" /\ batchTask[t] = "succeeded"
  /\ pollerAt' = [pollerAt EXCEPT ![t] = "done"]
  /\ UNCHANGED <<azure, mainVars, failedLock, jobFailedAt, failedCache, told, listings,
                 failedInPeriod>>

(***************************************************************************)
(* get_failed_tasks and _get_failed_tasks                                  *)
(***************************************************************************)
\* get_failed_tasks: what the answer says of one's own task.
Report(t, answer) ==
  LET verdict == IF t \in answer.tasks THEN "failed"
                 ELSE IF answer.job THEN "job failed" ELSE "nothing"
  IN  /\ told' = [told EXCEPT ![t] = verdict]
      /\ pollerAt' = [pollerAt EXCEPT ![t] = IF verdict = "nothing" THEN "polling" ELSE "done"]

PollCached(t) ==
  /\ pollerAt[t] = "polling" /\ failedLock = "free"
  /\ \E answer \in failedCache : Report(t, answer)
  /\ UNCHANGED <<azure, mainVars, failedLock, jobFailedAt, failedCache, listings, failedInPeriod>>

FailedTasks == {t \in Pollers : batchTask[t] = "failed"}

\* Wrong version of JobFailed: one failed task is taken for a failed job
JobFailedEarly == batchJob # "absent" /\ FailedTasks # {}

\* BatchJobState.from_batch
JobFailed == batchJob = "terminated" /\ FailedTasks # {}

\* Wrong version of TakeLock: the cache is looked up before the lock is taken
TakeLockLate(t) ==
  /\ pollerAt[t] = "polling" /\ failedCache = {}
  /\ failedLock' = t
  /\ pollerAt' = [pollerAt EXCEPT ![t] = "listing"]
  /\ UNCHANGED <<azure, mainVars, failedCache, told, listings, failedInPeriod>>

TakeLock(t) ==
  /\ pollerAt[t] = "polling" /\ failedLock = "free" /\ failedCache = {}
  /\ failedLock' = t
  /\ pollerAt' = [pollerAt EXCEPT ![t] = "listing"]
  /\ UNCHANGED <<azure, mainVars, failedCache, told, listings, failedInPeriod>>

\* get_job_info; a missing job has failed.
PollJob(t) == TakeLock(t) /\ jobFailedAt' = (JobFailed \/ batchJob = "deleted")

\* Any other error says nothing of the job.
PollJobRaises(t) == TakeLock(t) /\ BatchCallsRaise /\ jobFailedAt' = FALSE

\* An error that is none of the service's answers (no connection, no more waits) is
\* not caught: the lock is given back, and the thread ends with its group.
PollJobBreaks(t) ==
  /\ pollerAt[t] = "polling" /\ failedLock = "free" /\ failedCache = {} /\ BatchCallsRaise
  /\ pollerAt' = [pollerAt EXCEPT ![t] = "done"]
  /\ UNCHANGED <<azure, mainVars, failedLock, jobFailedAt, failedCache, told, listings, failedInPeriod>>

Listed(t, tasks) ==
  /\ pollerAt[t] = "listing"
  /\ LET answer == [tasks |-> tasks, job |-> jobFailedAt]
     IN  failedCache' = {answer} /\ Report(t, answer)
  /\ failedLock' = "free"
  /\ listings' = listings + 1
  /\ UNCHANGED <<azure, mainVars, jobFailedAt, failedInPeriod>>

ListFailed(t) == Listed(t, IF batchJob = "deleted" THEN {} ELSE FailedTasks)

\* "Don't let a Batch API error fail the job": no failures, and that is cached.
ListRaises(t) == BatchCallsRaise /\ Listed(t, {})

(***************************************************************************)
(* TTLCache: an entry is dropped batch_cache_seconds after it was made     *)
(***************************************************************************)
\* Wrong version of FailedExpires: reading an entry keeps it alive for ever
FailedExpiresNever ==
  /\ failedCache # {} /\ \A t \in Pollers : pollerAt[t] = "done"
  /\ failedCache' = {}
  /\ listings' = 0 /\ failedInPeriod' = FailedTasks
  /\ UNCHANGED <<azure, mainVars, pollerAt, failedLock, jobFailedAt, told>>

FailedExpires ==
  /\ failedCache # {}
  /\ failedCache' = {}
  /\ listings' = 0 /\ failedInPeriod' = FailedTasks
  /\ UNCHANGED <<azure, mainVars, pollerAt, failedLock, jobFailedAt, told>>

CreationExpires ==
  /\ createCache /\ mainAt = "prepare"
  /\ createCache' = FALSE
  /\ UNCHANGED <<azure, prepared, mainAt, pollVars, failedInPeriod>>

(***************************************************************************)
(* Azure Batch, and its operators                                          *)
(***************************************************************************)
BecomesTask(t, from, to) ==
  /\ batchTask[t] \in from
  /\ batchTask' = [batchTask EXCEPT ![t] = to]
  /\ failedInPeriod' = IF to = "failed" THEN failedInPeriod \union {t} ELSE failedInPeriod
  /\ UNCHANGED <<batchJob, poolFound, mainVars, pollVars>>

TaskStarts(t) == batchJob = "active" /\ BecomesTask(t, {"active"}, "running")
TaskSucceeds(t) == BecomesTask(t, {"running"}, "succeeded")
TaskFails(t) == BecomesTask(t, {"running"}, "failed")

OperatorTerminates ==
  /\ OperatorActs /\ batchJob = "active"
  /\ batchJob' = "terminated"
  /\ EndRunning
  /\ UNCHANGED <<poolFound, mainVars, pollVars>>

OperatorDeletes ==
  /\ OperatorActs /\ batchJob \in {"active", "terminated"}
  /\ batchJob' = "deleted"
  /\ batchTask' = [t \in Pollers |-> "absent"]
  /\ UNCHANGED <<poolFound, mainVars, pollVars, failedInPeriod>>

\* restart_hanging_tasks and restart_silent_tasks end a running task first,
\* which is then a failed one until it is reactivated.
OperatorEndsTask(t) ==
  OperatorActs /\ batchJob = "active" /\ BecomesTask(t, {"running"}, "failed")

\* ... and resubmit_failed_tasks of a job that is not completed.
OperatorReactivates(t) ==
  OperatorActs /\ batchJob = "active" /\ BecomesTask(t, {"failed"}, "active")

(***************************************************************************)
(* The specification                                                       *)
(***************************************************************************)
MainSteps == CreationCached \/ GetJob \/ AddJob \/ AddJobRaises \/ Cleanup

PollerSteps(t) ==
  \/ SubmitTask(t) \/ TaskDone(t) \/ PollCached(t)
  \/ PollJob(t) \/ PollJobRaises(t) \/ PollJobBreaks(t) \/ ListFailed(t) \/ ListRaises(t)

AzureSteps ==
  \/ OperatorTerminates \/ OperatorDeletes
  \/ \E t \in Pollers : TaskStarts(t) \/ TaskSucceeds(t) \/ TaskFails(t)
                        \/ OperatorEndsTask(t) \/ OperatorReactivates(t)

BatchNext ==
  \/ MainSteps \/ FailedExpires \/ CreationExpires \/ AzureSteps
  \/ \E t \in Pollers : PollerSteps(t)

BatchSpec == BatchInit /\ [][BatchNext]_batchVars

\* Threads are scheduled, entries expire, and the service answers now and then.
BatchFairness ==
  /\ WF_batchVars(FailedExpires)
  /\ \A t \in Pollers :
       /\ WF_batchVars(PollerSteps(t))
       /\ SF_batchVars(PollJob(t)) /\ SF_batchVars(ListFailed(t))

(***************************************************************************)
(* Properties                                                              *)
(***************************************************************************)
\* A thread is told that its task failed only if the service had it as failed
\* at some time of the cache's period (an operator may have restarted it since),
\* and that its job failed only if the job is deleted, or terminated with a
\* task that failed in it: no error of the API is ever taken for a failure.
FailuresHold ==
  [][\A t \in Pollers : told'[t] # told[t] =>
       \/ told'[t] = "failed" /\ t \in failedInPeriod
       \/ told'[t] = "job failed" /\ batchJob = "deleted"
       \/ told'[t] = "job failed" /\ batchJob = "terminated" /\ failedInPeriod # {}]_batchVars

\* However many threads ask, Batch is asked once in a period of the cache.
OneListingPerPeriod == listings <= 1

\* What the service will not finish: a failed task, and every task of a job
\* that is gone or has ended with failures.
Lost(t) == batchTask[t] = "failed" \/ batchJob = "deleted" \/ JobFailed

\* A thread that polls for such a task ends, whatever the caches hold and
\* however often calls raise.  (A job that is terminated with its tasks still
\* queued and none failed is polled for ever.)
FailuresSurface ==
  \A t \in Pollers : (pollerAt[t] = "polling" /\ Lost(t)) ~> (pollerAt[t] = "done" \/ ~Lost(t))

=============================================================================
