--------------------------- MODULE Runners_proofs ---------------------------
(***************************************************************************)
(* The Batch runner never takes an error of the API for a failure, and     *)
(* asks once in a period of its cache; the local and the Argo runner tell  *)
(* the executor of no failure that is none.  All of it for any number of   *)
(* threads, tasks and launched runs, whatever raises, is lost or restarts. *)
(***************************************************************************)
EXTENDS BatchRunner, TaskRunners, FiniteSetTheorems, TLAPS

-----------------------------------------------------------------------------
(* The Batch runner.                                                       *)

\* Why a job may be said to have failed.
JobHasFailed == batchJob = "deleted" \/ (batchJob = "terminated" /\ failedInPeriod # {})

\* The job is not created again once a thread has submitted to it.
MainInv ==
  /\ mainAt \in {"prepare", "get", "add"} => prepared < TaskDefs
  /\ (\E t \in Pollers : pollerAt[t] # "idle") => mainAt \in {"run", "ended"}
  /\ failedLock # "free" \/ failedCache # {} => mainAt \in {"run", "ended"}

\* The lock admits one thread at a time to an empty cache.
LockInv ==
  /\ \A t \in Pollers : pollerAt[t] = "listing" => failedLock = t
  /\ failedLock # "free" => failedCache = {}
  /\ failedCache = {} => listings = 0
  /\ listings <= 1

\* What a thread is about to answer, or has put in the cache, is true of the cache's
\* period; and a thread that has been told goes on no more.
VerdictInv ==
  /\ failedLock # "free" /\ jobFailedAt => JobHasFailed
  /\ FailedTasks \subseteq failedInPeriod
  /\ \A answer \in failedCache :
       answer.tasks \subseteq failedInPeriod /\ (answer.job => JobHasFailed)
  /\ \A t \in Pollers : pollerAt[t] \in {"idle", "polling", "listing"} => told[t] = "nothing"

BatchInv == BatchTypeOK /\ MainInv /\ LockInv /\ VerdictInv

LEMMA BatchInvInit ==
  ASSUME BatchInit
  PROVE  BatchInv
<1>1. BatchTypeOK
  <2>1. Cardinality(failedCache) <= 1 /\ failedCache \in SUBSET Answers
    BY FS_EmptySet DEF BatchInit
  <2>2. prepared \in 0..TaskDefs
    BY BatchAssumption DEF BatchInit
  <2>3. QED
    BY <2>1, <2>2 DEF BatchInit, BatchTypeOK, BatchTaskState
<1>2. QED
  BY <1>1, BatchAssumption DEF BatchInit, BatchInv, MainInv, LockInv, VerdictInv, FailedTasks

\* One task definition more has been prepared.
LEMMA DefPreparedKeeps ==
  ASSUME BatchInv, mainAt \in {"prepare", "add"}, DefPrepared
  PROVE  /\ prepared' \in 0..TaskDefs
         /\ mainAt' \in {"run", "prepare"}
         /\ mainAt' = "prepare" => prepared' < TaskDefs
<1>1. TaskDefs \in Nat /\ prepared \in Nat /\ prepared < TaskDefs
  <2>1. prepared \in 0..TaskDefs /\ MainInv
    BY DEF BatchInv, BatchTypeOK
  <2>2. TaskDefs \in Nat
    BY BatchAssumption
  <2>3. QED
    BY <2>1, <2>2 DEF MainInv
<1>2. prepared' = prepared + 1 /\ mainAt' = IF prepared + 1 = TaskDefs THEN "run" ELSE "prepare"
  BY DEF DefPrepared
<1>3. QED
  BY <1>1, <1>2

LEMMA BatchInvMain ==
  ASSUME BatchInv, MainSteps
  PROVE  BatchInv'
<1> USE BatchAssumption
<1>1. CASE CreationCached
  <2> prepared' \in 0..TaskDefs /\ mainAt' \in {"run", "prepare"}
      /\ (mainAt' = "prepare" => prepared' < TaskDefs)
    BY <1>1, DefPreparedKeeps DEF CreationCached
  <2>1. BatchTypeOK'
    BY <1>1 DEF BatchTypeOK, Answers, BatchTaskState, BatchInv, CreationCached, azure, mainVars,
             pollVars, MainInv
  <2>2. MainInv'
    BY <1>1 DEF BatchTypeOK, MainInv, BatchInv, CreationCached, azure, mainVars, pollVars
  <2>3. LockInv'
    BY <1>1 DEF BatchTypeOK, LockInv, BatchInv, CreationCached, azure, mainVars, pollVars
  <2>4. VerdictInv'
    BY <1>1 DEF BatchTypeOK, LockInv, MainInv, VerdictInv, JobHasFailed, FailedTasks, Answers,
             BatchInv, CreationCached, azure, mainVars, pollVars
  <2>5. QED
    BY <2>1, <2>2, <2>3, <2>4 DEF BatchInv
<1>2. CASE GetJob
  <2>0. CASE DefPrepared /\ createCache' = TRUE
    <3> /\ prepared' \in 0..TaskDefs /\ mainAt' \in {"run", "prepare"}
        /\ mainAt' = "prepare" => prepared' < TaskDefs
      BY <1>2, <2>0, DefPreparedKeeps DEF GetJob
    <3>1. BatchTypeOK'
      BY <1>2, <2>0 DEF BatchTypeOK, BatchInv, GetJob, azure, pollVars
    <3>2. MainInv' /\ LockInv' /\ VerdictInv'
      BY <1>2, <2>0 DEF MainInv, LockInv, VerdictInv, JobHasFailed, FailedTasks, BatchInv, GetJob,
               azure, pollVars
    <3>3. QED
      BY <3>1, <3>2 DEF BatchInv
  <2>1. CASE mainAt' = (IF poolFound THEN "add" ELSE "raised") /\ UNCHANGED <<prepared, createCache>>
    <3>1. BatchTypeOK'
      BY <1>2, <2>1 DEF BatchTypeOK, BatchInv, GetJob, azure, pollVars
    <3>2. MainInv' /\ LockInv' /\ VerdictInv'
      BY <1>2, <2>1 DEF MainInv, LockInv, VerdictInv, JobHasFailed, FailedTasks, BatchInv, GetJob,
               azure, pollVars
    <3>3. QED
      BY <3>1, <3>2 DEF BatchInv
  <2>2. QED
    BY <1>2, <2>0, <2>1 DEF GetJob
<1>3. CASE AddJob
  <2> prepared' \in 0..TaskDefs /\ mainAt' \in {"run", "prepare"}
      /\ (mainAt' = "prepare" => prepared' < TaskDefs)
    BY <1>3, DefPreparedKeeps DEF AddJob
  <2>1. BatchTypeOK'
    BY <1>3 DEF BatchTypeOK, Answers, BatchTaskState, BatchInv, AddJob, azure, mainVars, pollVars, MainInv
  <2>2. MainInv'
    BY <1>3 DEF BatchTypeOK, MainInv, BatchInv, AddJob, azure, mainVars, pollVars
  <2>3. LockInv'
    BY <1>3 DEF BatchTypeOK, LockInv, BatchInv, AddJob, azure, mainVars, pollVars
  <2>4. VerdictInv'
    BY <1>3 DEF BatchTypeOK, LockInv, MainInv, VerdictInv, JobHasFailed, FailedTasks, Answers,
             BatchInv, AddJob, azure, mainVars, pollVars
  <2>5. QED
    BY <2>1, <2>2, <2>3, <2>4 DEF BatchInv
<1>4. CASE AddJobRaises
  <2>1. BatchTypeOK'
    BY <1>4 DEF BatchTypeOK, Answers, BatchTaskState, BatchInv, AddJobRaises, azure, mainVars,
             pollVars, MainInv
  <2>2. MainInv'
    BY <1>4 DEF BatchTypeOK, MainInv, BatchInv, AddJobRaises, azure, mainVars, pollVars
  <2>3. LockInv'
    BY <1>4 DEF BatchTypeOK, LockInv, BatchInv, AddJobRaises, azure, mainVars, pollVars
  <2>4. VerdictInv'
    BY <1>4 DEF BatchTypeOK, LockInv, MainInv, VerdictInv, JobHasFailed, FailedTasks, Answers,
             BatchInv, AddJobRaises, azure, mainVars, pollVars
  <2>5. QED
    BY <2>1, <2>2, <2>3, <2>4 DEF BatchInv
<1>5. CASE Cleanup
  <2>1. BatchTypeOK'
    BY <1>5 DEF BatchTypeOK, Answers, BatchTaskState, BatchInv, Cleanup, EndRunning, azure,
             mainVars, pollVars, MainInv
  <2>2. MainInv'
    BY <1>5 DEF BatchTypeOK, MainInv, BatchInv, Cleanup, EndRunning, azure, mainVars, pollVars
  <2>3. LockInv'
    BY <1>5 DEF BatchTypeOK, LockInv, BatchInv, Cleanup, EndRunning, azure, mainVars, pollVars
  <2>4. VerdictInv'
    <3>1. /\ UNCHANGED pollVars /\ failedInPeriod \subseteq failedInPeriod'
          /\ (JobHasFailed => JobHasFailed')
      BY <1>5 DEF Cleanup, EndRunning, JobHasFailed
    <3>2. FailedTasks' \subseteq failedInPeriod'
      <4>1. batchTask \in [Pollers -> BatchTaskState] /\ FailedTasks \subseteq failedInPeriod
        BY DEF BatchInv, BatchTypeOK, VerdictInv
      <4>2. QED
        BY <1>5, <4>1 DEF Cleanup, EndRunning, FailedTasks
    <3>3. QED
      BY <3>1, <3>2 DEF VerdictInv, BatchInv, pollVars
  <2>5. QED
    BY <2>1, <2>2, <2>3, <2>4 DEF BatchInv
<1>6. QED
  BY <1>1, <1>2, <1>3, <1>4, <1>5 DEF MainSteps

LEMMA BatchInvAzure ==
  ASSUME BatchInv, AzureSteps \/ FailedExpires \/ CreationExpires
  PROVE  BatchInv'
<1> USE BatchAssumption
<1>1. CASE OperatorTerminates
  <2>1. BatchTypeOK'
    BY <1>1 DEF BatchTypeOK, Answers, BatchTaskState, BatchInv, OperatorTerminates, EndRunning,
             azure, mainVars, pollVars, MainInv
  <2>2. MainInv'
    BY <1>1 DEF BatchTypeOK, MainInv, BatchInv, OperatorTerminates, EndRunning, azure, mainVars, pollVars
  <2>3. LockInv'
    BY <1>1 DEF BatchTypeOK, LockInv, BatchInv, OperatorTerminates, EndRunning, azure, mainVars, pollVars
  <2>4. VerdictInv'
    BY <1>1 DEF BatchTypeOK, LockInv, MainInv, VerdictInv, JobHasFailed, FailedTasks, Answers,
             BatchInv, OperatorTerminates, EndRunning, azure, mainVars, pollVars
  <2>5. QED
    BY <2>1, <2>2, <2>3, <2>4 DEF BatchInv
<1>2. CASE OperatorDeletes
  <2>1. BatchTypeOK'
    BY <1>2 DEF BatchTypeOK, Answers, BatchTaskState, BatchInv, OperatorDeletes, azure, mainVars,
             pollVars, MainInv
  <2>2. MainInv'
    BY <1>2 DEF BatchTypeOK, MainInv, BatchInv, OperatorDeletes, azure, mainVars, pollVars
  <2>3. LockInv'
    BY <1>2 DEF BatchTypeOK, LockInv, BatchInv, OperatorDeletes, azure, mainVars, pollVars
  <2>4. VerdictInv'
    BY <1>2 DEF BatchTypeOK, LockInv, MainInv, VerdictInv, JobHasFailed, FailedTasks, Answers,
             BatchInv, OperatorDeletes, azure, mainVars, pollVars
  <2>5. QED
    BY <2>1, <2>2, <2>3, <2>4 DEF BatchInv
<1>3. ASSUME NEW t \in Pollers,
             TaskStarts(t) \/ TaskSucceeds(t) \/ TaskFails(t)
               \/ OperatorEndsTask(t) \/ OperatorReactivates(t)
      PROVE  BatchInv'
  <2>1. BatchTypeOK'
    <3> USE DEF BatchTypeOK, Answers, BatchTaskState, BecomesTask, azure, mainVars, pollVars
    <3>1. BatchTypeOK
      BY DEF BatchInv
    <3>2. CASE TaskStarts(t) \/ TaskSucceeds(t)
      BY <3>1, <3>2 DEF TaskStarts, TaskSucceeds
    <3>3. CASE TaskFails(t)
      BY <3>1, <3>3 DEF TaskFails
    <3>4. CASE OperatorEndsTask(t)
      BY <3>1, <3>4 DEF OperatorEndsTask
    <3>5. CASE OperatorReactivates(t)
      BY <3>1, <3>5 DEF OperatorReactivates
    <3>6. QED
      BY <1>3, <3>2, <3>3, <3>4, <3>5
  <2>2. MainInv'
    BY <1>3 DEF BatchTypeOK, MainInv, BatchInv, TaskStarts, TaskSucceeds, TaskFails, OperatorEndsTask,
       OperatorReactivates, BecomesTask, azure, mainVars, pollVars
  <2>3. LockInv'
    BY <1>3 DEF BatchTypeOK, LockInv, BatchInv, TaskStarts, TaskSucceeds, TaskFails, OperatorEndsTask,
       OperatorReactivates, BecomesTask, azure, mainVars, pollVars
  <2>4. VerdictInv'
    <3>1. failedInPeriod \subseteq failedInPeriod' /\ batchJob' = batchJob
      BY <1>3 DEF TaskStarts, TaskSucceeds, TaskFails, OperatorEndsTask, OperatorReactivates, BecomesTask
    <3>2. FailedTasks' \subseteq failedInPeriod'
      <4>1. batchTask \in [Pollers -> BatchTaskState] /\ FailedTasks \subseteq failedInPeriod
        BY DEF BatchInv, BatchTypeOK, VerdictInv
      <4>2. ASSUME NEW from, NEW to, BecomesTask(t, from, to)
            PROVE  FailedTasks' \subseteq failedInPeriod'
        BY <4>1, <4>2 DEF BecomesTask, FailedTasks
      <4>3. QED
        BY <1>3, <4>2 DEF TaskStarts, TaskSucceeds, TaskFails, OperatorEndsTask, OperatorReactivates
    <3>3. UNCHANGED pollVars
      BY <1>3 DEF TaskStarts, TaskSucceeds, TaskFails, OperatorEndsTask, OperatorReactivates, BecomesTask
    <3>4. QED
      BY <3>1, <3>2, <3>3 DEF VerdictInv, JobHasFailed, BatchInv, pollVars
  <2>5. QED
    BY <2>1, <2>2, <2>3, <2>4 DEF BatchInv
<1>4. CASE FailedExpires
  <2>1. BatchTypeOK'
    <3>1. Cardinality(failedCache') = 0 /\ failedCache' \in SUBSET Answers
      BY <1>4, FS_EmptySet DEF FailedExpires
    <3>2. listings' \in Nat /\ Cardinality(failedCache') <= 1
      BY <1>4, <3>1 DEF FailedExpires
    <3>3. QED
      BY <1>4, <3>1, <3>2 DEF FailedExpires, FailedTasks, BatchTypeOK, BatchInv, azure, mainVars
  <2>2. MainInv'
    BY <1>4 DEF BatchTypeOK, MainInv, BatchInv, FailedExpires, azure, mainVars, pollVars
  <2>3. LockInv'
    BY <1>4 DEF LockInv, BatchInv, FailedExpires
  <2>4. VerdictInv'
    BY <1>4 DEF BatchTypeOK, LockInv, MainInv, VerdictInv, JobHasFailed, FailedTasks, Answers,
             BatchInv, FailedExpires, azure, mainVars, pollVars
  <2>5. QED
    BY <2>1, <2>2, <2>3, <2>4 DEF BatchInv
<1>5. CASE CreationExpires
  <2>1. BatchTypeOK'
    BY <1>5 DEF BatchTypeOK, Answers, BatchTaskState, BatchInv, CreationExpires, azure, mainVars,
             pollVars, MainInv
  <2>2. MainInv'
    BY <1>5 DEF BatchTypeOK, MainInv, BatchInv, CreationExpires, azure, mainVars, pollVars
  <2>3. LockInv'
    BY <1>5 DEF BatchTypeOK, LockInv, BatchInv, CreationExpires, azure, mainVars, pollVars
  <2>4. VerdictInv'
    BY <1>5 DEF BatchTypeOK, LockInv, MainInv, VerdictInv, JobHasFailed, FailedTasks, Answers,
             BatchInv, CreationExpires, azure, mainVars, pollVars
  <2>5. QED
    BY <2>1, <2>2, <2>3, <2>4 DEF BatchInv
<1>6. QED
  BY <1>1, <1>2, <1>3, <1>4, <1>5 DEF AzureSteps

LEMMA BatchInvPoller ==
  ASSUME BatchInv, NEW t \in Pollers, PollerSteps(t)
  PROVE  BatchInv'
<1> USE BatchAssumption
<1>1. CASE SubmitTask(t)
  <2>1. BatchTypeOK'
    BY <1>1 DEF BatchTypeOK, Answers, BatchTaskState, BatchInv, SubmitTask, azure, mainVars,
             pollVars, MainInv
  <2>2. MainInv'
    BY <1>1 DEF BatchTypeOK, MainInv, BatchInv, SubmitTask, azure, mainVars, pollVars
  <2>3. LockInv'
    BY <1>1 DEF BatchTypeOK, LockInv, BatchInv, SubmitTask, azure, mainVars, pollVars
  <2>4. VerdictInv'
    BY <1>1 DEF BatchTypeOK, LockInv, MainInv, VerdictInv, JobHasFailed, FailedTasks, Answers,
             BatchInv, SubmitTask, azure, mainVars, pollVars
  <2>5. QED
    BY <2>1, <2>2, <2>3, <2>4 DEF BatchInv
<1>2. CASE TaskDone(t)
  <2>1. BatchTypeOK'
    BY <1>2 DEF BatchTypeOK, Answers, BatchTaskState, BatchInv, TaskDone, azure, mainVars, pollVars,
             MainInv
  <2>2. MainInv'
    BY <1>2 DEF BatchTypeOK, MainInv, BatchInv, TaskDone, azure, mainVars, pollVars
  <2>3. LockInv'
    BY <1>2 DEF BatchTypeOK, LockInv, BatchInv, TaskDone, azure, mainVars, pollVars
  <2>4. VerdictInv'
    BY <1>2 DEF BatchTypeOK, LockInv, MainInv, VerdictInv, JobHasFailed, FailedTasks, Answers,
             BatchInv, TaskDone, azure, mainVars, pollVars
  <2>5. QED
    BY <2>1, <2>2, <2>3, <2>4 DEF BatchInv
<1>3. CASE PollCached(t)
  <2>1. BatchTypeOK'
    BY <1>3 DEF BatchTypeOK, Answers, BatchTaskState, BatchInv, PollCached, Report, azure, mainVars,
             pollVars, MainInv
  <2>2. MainInv'
    BY <1>3 DEF BatchTypeOK, MainInv, BatchInv, PollCached, Report, azure, mainVars, pollVars
  <2>3. LockInv'
    BY <1>3 DEF BatchTypeOK, LockInv, BatchInv, PollCached, Report, azure, mainVars, pollVars
  <2>4. VerdictInv'
    BY <1>3 DEF BatchTypeOK, LockInv, MainInv, VerdictInv, JobHasFailed, FailedTasks, Answers,
             BatchInv, PollCached, Report, azure, mainVars, pollVars
  <2>5. QED
    BY <2>1, <2>2, <2>3, <2>4 DEF BatchInv
<1>4. CASE PollJob(t) \/ PollJobRaises(t)
  <2>1. BatchTypeOK'
    BY <1>4 DEF BatchTypeOK, Answers, BatchTaskState, BatchInv, PollJob, PollJobRaises, TakeLock,
             JobFailed, azure, mainVars, pollVars, MainInv
  <2>2. MainInv'
    BY <1>4 DEF BatchTypeOK, MainInv, BatchInv, PollJob, PollJobRaises, TakeLock, JobFailed, azure,
             mainVars, pollVars
  <2>3. LockInv'
    BY <1>4 DEF BatchTypeOK, LockInv, BatchInv, PollJob, PollJobRaises, TakeLock, JobFailed, azure,
             mainVars, pollVars
  <2>4. VerdictInv'
    BY <1>4 DEF BatchTypeOK, LockInv, MainInv, VerdictInv, JobHasFailed, FailedTasks, Answers,
             BatchInv, PollJob, PollJobRaises, TakeLock, JobFailed, azure, mainVars, pollVars
  <2>5. QED
    BY <2>1, <2>2, <2>3, <2>4 DEF BatchInv
<1>5. CASE ListFailed(t) \/ ListRaises(t)
  <2> PICK tasks \in SUBSET FailedTasks : Listed(t, tasks)
    BY <1>5 DEF ListFailed, ListRaises
  <2> DEFINE answer == [tasks |-> tasks, job |-> jobFailedAt]
  <2>0. answer \in Answers /\ failedCache' = {answer}
    BY DEF Listed, Answers, FailedTasks, BatchInv, BatchTypeOK
  <2>1. BatchTypeOK'
    <3>1. Cardinality(failedCache') = 1 /\ failedCache' \in SUBSET Answers
      BY <2>0, FS_Singleton
    <3>2. listings' \in Nat /\ Cardinality(failedCache') <= 1
      <4>1. listings \in Nat
        BY DEF BatchInv, BatchTypeOK
      <4>2. listings' = listings + 1
        BY DEF Listed
      <4>3. QED
        BY <3>1, <4>1, <4>2
    <3>3. told' \in [Pollers -> {"nothing", "failed", "job failed"}]
            /\ pollerAt' \in [Pollers -> {"idle", "polling", "listing", "done"}]
      BY DEF Listed, Report, BatchInv, BatchTypeOK
    <3>4. QED
      BY <3>1, <3>2, <3>3 DEF Listed, BatchTypeOK, BatchInv, azure, mainVars
  <2>2. MainInv'
    BY DEF Listed, Report, MainInv, BatchInv, BatchTypeOK, azure, mainVars
  <2>3. LockInv'
    <3>1. listings = 0 /\ listings' = listings + 1 /\ failedLock' = "free"
      BY DEF Listed, LockInv, BatchInv, BatchTypeOK
    <3>2. ASSUME NEW u \in Pollers, pollerAt'[u] = "listing"
          PROVE  FALSE
      <4>1. pollerAt[t] = "listing" /\ u = t
        BY <3>2, BatchAssumption DEF Listed, Report, LockInv, BatchInv, BatchTypeOK
      <4>2. QED
        BY <3>2, <4>1 DEF Report, Listed, BatchInv, BatchTypeOK
    <3>3. QED
      BY <2>0, <3>1, <3>2 DEF LockInv
  <2>4. VerdictInv'
    <3>1. \A a \in failedCache' : a.tasks \subseteq failedInPeriod' /\ (a.job => JobHasFailed')
      <4>1. failedLock # "free" /\ tasks \subseteq failedInPeriod
        BY BatchAssumption DEF Listed, LockInv, VerdictInv, BatchInv, BatchTypeOK
      <4>2. JobHasFailed' <=> JobHasFailed
        BY DEF Listed, JobHasFailed, azure
      <4>3. failedInPeriod' = failedInPeriod /\ (jobFailedAt => JobHasFailed)
        BY <4>1 DEF Listed, VerdictInv, BatchInv
      <4>4. QED
        BY <2>0, <4>1, <4>2, <4>3
    <3>2. \A u \in Pollers : pollerAt'[u] \in {"idle", "polling", "listing"} => told'[u] = "nothing"
      BY DEF Listed, Report, VerdictInv, BatchInv, BatchTypeOK
    <3>3. QED
      BY <3>1, <3>2 DEF Listed, VerdictInv, BatchInv, FailedTasks, azure
  <2>5. QED
    BY <2>1, <2>2, <2>3, <2>4 DEF BatchInv
<1>6. CASE PollJobBreaks(t)
  <2>1. BatchTypeOK'
    BY <1>6 DEF BatchTypeOK, Answers, BatchTaskState, BatchInv, PollJobBreaks, azure, mainVars
  <2>2. MainInv'
    BY <1>6 DEF BatchTypeOK, MainInv, BatchInv, PollJobBreaks, mainVars
  <2>3. LockInv'
    BY <1>6 DEF BatchTypeOK, LockInv, BatchInv, PollJobBreaks
  <2>4. VerdictInv'
    BY <1>6 DEF BatchTypeOK, VerdictInv, JobHasFailed, FailedTasks, BatchInv, PollJobBreaks, azure
  <2>5. QED
    BY <2>1, <2>2, <2>3, <2>4 DEF BatchInv
<1>7. QED
  BY <1>1, <1>2, <1>3, <1>4, <1>5, <1>6 DEF PollerSteps

LEMMA BatchInvStep ==
  ASSUME BatchInv, [BatchNext]_batchVars
  PROVE  BatchInv'
<1>1. CASE UNCHANGED batchVars
  BY <1>1 DEF batchVars, azure, mainVars, pollVars, BatchInv, BatchTypeOK, MainInv, LockInv, VerdictInv,
              JobHasFailed, FailedTasks
<1>2. QED
  BY <1>1, BatchInvMain, BatchInvAzure, BatchInvPoller DEF BatchNext

\* The cache, its lock and what its readers hold agree, for any number of threads.
THEOREM BatchInvInvariant == BatchSpec => []BatchInv
  BY BatchInvInit, BatchInvStep, PTL DEF BatchSpec

\* Batch is asked for its failed tasks at most once in a period of the cache, by
\* whatever number of threads: what failed_task_lock is for.
THEOREM ListedOnce == BatchSpec => []OneListingPerPeriod
<1>1. BatchInv => OneListingPerPeriod
  BY DEF BatchInv, LockInv, OneListingPerPeriod
<1>2. QED
  BY BatchInvInvariant, <1>1, PTL

\* What a report of an answer tells the thread that asked.
LEMMA ReportTells ==
  ASSUME BatchInv, NEW t \in Pollers, NEW answer, Report(t, answer),
         pollerAt[t] \in {"polling", "listing"}, NEW u \in Pollers, told'[u] # told[u]
  PROVE  \/ told'[u] = "failed" /\ u \in answer.tasks
         \/ told'[u] = "job failed" /\ answer.job
<1>1. told \in [Pollers -> {"nothing", "failed", "job failed"}] /\ told[t] = "nothing"
  BY DEF BatchInv, BatchTypeOK, VerdictInv
<1>2. QED
  BY <1>1 DEF Report

\* A thread is told that its task or its job failed only when it did: no error of
\* the Batch API, and no stale entry of the cache, is taken for a failure.
THEOREM FailuresAreReal == BatchSpec => FailuresHold
<1> DEFINE Real(t) ==
      told'[t] # told[t] =>
        \/ told'[t] = "failed" /\ t \in failedInPeriod
        \/ told'[t] = "job failed" /\ batchJob = "deleted"
        \/ told'[t] = "job failed" /\ batchJob = "terminated" /\ failedInPeriod # {}
<1>1. ASSUME BatchInv, [BatchNext]_batchVars, NEW u \in Pollers
      PROVE  Real(u)
  <2>1. CASE UNCHANGED told
    BY <2>1
  <2>2. ASSUME NEW t \in Pollers, PollCached(t)
        PROVE  Real(u)
    <3>1. PICK answer \in failedCache : Report(t, answer)
      BY <2>2 DEF PollCached
    <3>2. answer.tasks \subseteq failedInPeriod /\ (answer.job => JobHasFailed)
      BY <1>1 DEF BatchInv, VerdictInv
    <3>3. pollerAt[t] \in {"polling", "listing"}
      BY <2>2 DEF PollCached
    <3>4. QED
      BY <1>1, <3>1, <3>2, <3>3, ReportTells DEF JobHasFailed
  <2>3. ASSUME NEW t \in Pollers, NEW tasks \in SUBSET FailedTasks, Listed(t, tasks)
        PROVE  Real(u)
    <3> DEFINE answer == [tasks |-> tasks, job |-> jobFailedAt]
    <3>1. pollerAt[t] = "listing" /\ Report(t, answer)
      BY <2>3 DEF Listed
    <3>2. failedLock # "free"
      BY <1>1, <3>1, BatchAssumption DEF BatchInv, LockInv
    <3>3. answer.tasks \subseteq failedInPeriod /\ (answer.job => JobHasFailed)
      BY <1>1, <3>2 DEF BatchInv, VerdictInv
    <3>4. QED
      <4> HIDE DEF answer
      <4> QED
        BY <1>1, <3>1, <3>3, ReportTells DEF JobHasFailed
  <2>4. ASSUME NEW t \in Pollers, PollerSteps(t)
        PROVE  Real(u)
    <3>1. CASE ListFailed(t) \/ ListRaises(t)
      BY <2>3, <3>1 DEF ListFailed, ListRaises
    <3>2. CASE ~(ListFailed(t) \/ ListRaises(t) \/ PollCached(t))
      BY <2>1, <2>4, <3>2 DEF PollerSteps, SubmitTask, TaskDone, PollJob, PollJobRaises, PollJobBreaks, TakeLock
    <3>3. QED
      BY <2>2, <3>1, <3>2
  <2>5. CASE MainSteps
    BY <2>1, <2>5 DEF MainSteps, CreationCached, GetJob, AddJob, AddJobRaises, Cleanup, pollVars
  <2>6. CASE AzureSteps \/ FailedExpires \/ CreationExpires
    BY <2>1, <2>6 DEF AzureSteps, FailedExpires, CreationExpires, OperatorTerminates, OperatorDeletes,
          TaskStarts, TaskSucceeds, TaskFails, OperatorEndsTask, OperatorReactivates, BecomesTask, pollVars
  <2>7. CASE UNCHANGED batchVars
    BY <2>1, <2>7 DEF batchVars, pollVars
  <2>8. QED
    BY <1>1, <2>4, <2>5, <2>6, <2>7 DEF BatchNext
<1>2. BatchInv /\ [BatchNext]_batchVars => [\A t \in Pollers : Real(t)]_batchVars
  BY <1>1
<1>3. QED
  BY BatchInvInvariant, <1>2, PTL DEF BatchSpec, FailuresHold

-----------------------------------------------------------------------------
(* The local and the Argo runner.                                          *)

\* Why a task may be taken for failed.
HasFailed(t) == work[t] = "failed" \/ t \in terminated \union raisedPolls

\* A service's word for a failure is true; what has been found failed has failed; and a
\* task that is new to the executor is not being asked for.
AnswerTypes ==
  /\ known \in [RunnerTasks -> {"new", "submitted", "refused", "completed", "failed"}]
  /\ service \in [RunnerTasks -> {"none", "created", "pending", "running"} \union Ended]
  /\ work \in [RunnerTasks -> {"none", "queued", "runs", "completed", "failed", "dead"}]
  /\ tags \in [RunnerTasks -> {"", "fail_submit", "wait_and_fail"}]
  /\ Argo => \A t \in RunnerTasks : tags[t] = ""

AnswerPart(t) ==
  /\ known[t] = "new" => /\ t \notin found \union polls \union unpullable
                         /\ work[t] = "none" /\ service[t] = "none"
  /\ service[t] \in {"failed", "error"} => work[t] = "failed"
  /\ Argo /\ service[t] \in {"created", "pending", "running"} => work[t] # "failed"
  /\ t \in found \/ known[t] = "failed" => HasFailed(t)

AnswerInv == AnswerTypes /\ \A t \in RunnerTasks : AnswerPart(t)

\* The first local submission makes the pool, which is never shut down, as the count of
\* workflows never comes back to zero; so every local run has the same pool.
PoolInv ==
  /\ launch \in [LaunchedRuns -> {"none", "file", "queued", "runs", "ended", "refused"}]
  /\ poolOf \in [LaunchedRuns -> Int]
  /\ workflowCount \in Int /\ workflowCount <= 0
  /\ Local => \A r \in LaunchedRuns : launch[r] \in {"queued", "runs"} =>
       /\ poolOf[r] = pool /\ pool # 0
       /\ \A s \in LaunchedRuns : launch[r] = "runs" /\ launch[s] = "runs" => r = s

LEMMA AnswerInvInit ==
  ASSUME RunnerInit
  PROVE  AnswerInv
<1>1. AnswerTypes
  <2>1. PICK type \in {"local", "argo"}, tag \in [RunnerTasks -> {"", "fail_submit", "wait_and_fail"}] :
          /\ type = "argo" => \A t \in RunnerTasks : tag[t] = ""
          /\ RunnerBegins(type, tag)
    BY DEF RunnerInit
  <2>2. tags = tag /\ runnerType = type
    BY <2>1 DEF RunnerBegins
  <2>3. /\ known \in [RunnerTasks -> {"new", "submitted", "refused", "completed", "failed"}]
        /\ service \in [RunnerTasks -> {"none", "created", "pending", "running"} \union Ended]
        /\ work \in [RunnerTasks -> {"none", "queued", "runs", "completed", "failed", "dead"}]
    BY <2>1 DEF RunnerBegins
  <2>4. QED
    BY <2>1, <2>2, <2>3 DEF AnswerTypes, Argo
<1>2. ASSUME NEW t \in RunnerTasks
      PROVE  AnswerPart(t)
  BY DEF RunnerInit, RunnerBegins, AnswerPart
<1>3. QED
  BY <1>1, <1>2 DEF AnswerInv

\* A step about one task.
TaskStep(t) ==
  \/ SubmitCurrentTask(t) \/ SubmitUnheard(t) \/ SubmitRefused(t)
  \/ BackgroundBegins(t) \/ (\E end \in {"completed", "failed"} : BackgroundEnds(t, end))
  \/ WaitAndFail(t) \/ EntryLost(t) \/ ArgoMoves(t) \/ ImagePull(t)
  \/ ReadTaskOutput(t) \/ PollTask(t) \/ TerminateWorkflow(t) \/ PollRaises(t)

\* It leaves the other tasks as they are.
LEMMA TaskStepIsLocal ==
  ASSUME AnswerTypes, NEW t \in RunnerTasks, TaskStep(t)
  PROVE  /\ AnswerTypes'
         /\ UNCHANGED runnerType
         /\ \A u \in RunnerTasks \ {t} :
              /\ known'[u] = known[u] /\ service'[u] = service[u] /\ work'[u] = work[u]
              /\ u \in found' <=> u \in found
              /\ u \in polls' => u \in polls
              /\ u \in unpullable' => u \in unpullable
              /\ u \in terminated' <=> u \in terminated
              /\ u \in raisedPolls' <=> u \in raisedPolls
<1> USE DEF AnswerTypes, SetEntry, Becomes, askVars, taskVars, Ended, Local, Argo
<1>1. CASE SubmitCurrentTask(t)
  BY <1>1 DEF SubmitCurrentTask, TaskAccepted
<1>2. CASE SubmitUnheard(t)
  BY <1>2 DEF SubmitUnheard, TaskAccepted
<1>3. CASE SubmitRefused(t)
  BY <1>3 DEF SubmitRefused
<1>4. CASE BackgroundBegins(t)
  BY <1>4 DEF BackgroundBegins
<1>5. ASSUME NEW end \in {"completed", "failed"}, BackgroundEnds(t, end)
      PROVE  /\ AnswerTypes'
             /\ UNCHANGED <<runnerType, known, askVars, terminated>>
             /\ \A u \in RunnerTasks \ {t} : service'[u] = service[u] /\ work'[u] = work[u]
  BY <1>5 DEF BackgroundEnds
<1>6. CASE WaitAndFail(t)
  BY <1>6 DEF WaitAndFail
<1>7. CASE EntryLost(t)
  BY <1>7 DEF EntryLost
<1>8. CASE ArgoMoves(t)
  <2>1. UNCHANGED <<runnerType, tags, known, terminated, found, polls, unpullable, raisedPolls>>
    BY <1>8 DEF ArgoMoves
  <2>2. PICK s \in {"pending", "running"} \union Ended,
             x \in {"none", "queued", "runs", "completed", "failed", "dead"} :
          service' = [service EXCEPT ![t] = s] /\ work' = [work EXCEPT ![t] = x]
    <3>1. work = [work EXCEPT ![t] = work[t]] /\ work[t] \in {"none", "queued", "runs", "completed",
                                                               "failed", "dead"}
      OBVIOUS
    <3>2. QED
      BY <1>8, <3>1 DEF ArgoMoves
  <2>3. QED
    BY <2>1, <2>2
<1>9. CASE ImagePull(t)
  BY <1>9 DEF ImagePull
<1>10. CASE ReadTaskOutput(t)
  BY <1>10 DEF ReadTaskOutput
<1>11. CASE PollTask(t)
  BY <1>11 DEF PollTask, Polled
<1>12. CASE TerminateWorkflow(t)
  BY <1>12 DEF TerminateWorkflow
<1>13. CASE PollRaises(t)
  BY <1>13 DEF PollRaises, Polled
<1>14. CASE \E end \in {"completed", "failed"} : BackgroundEnds(t, end)
  <2>1. /\ AnswerTypes'
        /\ UNCHANGED <<runnerType, known, found, polls, unpullable, raisedPolls, terminated>>
        /\ \A u \in RunnerTasks \ {t} : service'[u] = service[u] /\ work'[u] = work[u]
    BY <1>5, <1>14
  <2> HIDE DEF AnswerTypes
  <2>2. QED
    BY <2>1
<1> HIDE DEF AnswerTypes, SetEntry, Becomes, askVars, taskVars, Ended, Local, Argo
<1>15. QED
  BY <1>1, <1>2, <1>3, <1>4, <1>6, <1>7, <1>8, <1>9, <1>10, <1>11, <1>12, <1>13, <1>14 DEF TaskStep

LEMMA AnswerInvTask ==
  ASSUME AnswerInv, NEW t \in RunnerTasks, TaskStep(t)
  PROVE  AnswerInv'
<1>1. AnswerTypes' /\ UNCHANGED runnerType
  BY TaskStepIsLocal DEF AnswerInv
<1>2. ASSUME NEW u \in RunnerTasks \ {t}
      PROVE  AnswerPart(u)'
  BY TaskStepIsLocal DEF AnswerInv, AnswerPart, HasFailed, Argo
<1>3. AnswerPart(t)'
  <2> USE DEF AnswerInv, AnswerPart, AnswerTypes, HasFailed, SetEntry, Becomes, askVars, taskVars,
           Ended, Local, Argo
  <2>1. CASE SubmitCurrentTask(t)
    BY <2>1 DEF SubmitCurrentTask, TaskAccepted
  <2>2. CASE SubmitUnheard(t)
    BY <2>2 DEF SubmitUnheard, TaskAccepted
  <2>3. CASE SubmitRefused(t)
    BY <2>3 DEF SubmitRefused
  <2>4. CASE BackgroundBegins(t)
    BY <2>4 DEF BackgroundBegins
  <2>5. ASSUME NEW end \in {"completed", "failed"}, BackgroundEnds(t, end)
        PROVE  AnswerPart(t)'
    BY <2>5 DEF BackgroundEnds
  <2>6. CASE WaitAndFail(t)
    BY <2>6 DEF WaitAndFail
  <2>7. CASE EntryLost(t)
    BY <2>7 DEF EntryLost
  <2>8. CASE ArgoMoves(t)
    <3>1. /\ UNCHANGED <<runnerType, known, terminated, found, polls, unpullable, raisedPolls>>
          /\ Argo /\ service[t] # "none"
      BY <2>8 DEF ArgoMoves
    <3>2. \/ service'[t] = "pending" /\ work'[t] = work[t] /\ service[t] = "created"
          \/ service'[t] = "running" /\ work'[t] = "runs"
          \/ service'[t] = "completed" /\ work'[t] = "completed" /\ service[t] = "running"
          \/ service'[t] \in {"failed", "error"} /\ work'[t] = "failed"
      BY <2>8 DEF ArgoMoves
    <3>3. known[t] # "new" /\ (service[t] \in {"created", "pending", "running"} => work[t] # "failed")
      BY <3>1
    <3>4. QED
      BY <1>1, <2>8, <3>1, <3>2, <3>3 DEF ArgoMoves
  <2>9. CASE ImagePull(t)
    BY <2>9 DEF ImagePull
  <2>10. CASE ReadTaskOutput(t)
    BY <2>10 DEF ReadTaskOutput
  <2>11. CASE PollTask(t)
    BY <2>11 DEF PollTask, Polled
  <2>12. CASE TerminateWorkflow(t)
    BY <2>12 DEF TerminateWorkflow
  <2>13. CASE PollRaises(t)
    BY <2>13 DEF PollRaises, Polled
  <2>14. QED
    BY <2>1, <2>2, <2>3, <2>4, <2>5, <2>6, <2>7, <2>8, <2>9, <2>10, <2>11, <2>12, <2>13 DEF TaskStep
<1>4. QED
  BY <1>1, <1>2, <1>3 DEF AnswerInv

LEMMA AnswerInvOther ==
  ASSUME AnswerInv, EndpointsRestart \/ BeginGetFailed \/ ArgoRaises \/ EndGetFailed \/ LaunchNext
                      \/ UNCHANGED runnerVars
  PROVE  AnswerInv'
<1> USE DEF AnswerInv, AnswerTypes, AnswerPart, HasFailed, askVars, taskVars, Ended, Local, Argo
<1>1. CASE EndpointsRestart
  BY <1>1 DEF EndpointsRestart
<1>2. CASE BeginGetFailed
  BY <1>2 DEF BeginGetFailed
<1>3. CASE ArgoRaises
  BY <1>3 DEF ArgoRaises
<1>4. CASE EndGetFailed
  BY <1>4 DEF EndGetFailed
<1>5. CASE LaunchNext
  <2>1. UNCHANGED <<runnerType, taskVars, askVars>>
    BY <1>5 DEF LaunchNext, WriteWorkflowFile, CreateArgoWorkflow, LaunchRefused, SubmitToPool,
                RunBegins, RunDone, LaunchIn
  <2>2. QED
    BY <2>1
<1>6. CASE UNCHANGED runnerVars
  BY <1>6 DEF runnerVars
<1>7. QED
  BY <1>1, <1>2, <1>3, <1>4, <1>5, <1>6

LEMMA PoolInvInit ==
  ASSUME RunnerInit
  PROVE  PoolInv
<1>1. /\ launch = [r \in LaunchedRuns |-> "none"] /\ poolOf = [r \in LaunchedRuns |-> 0]
      /\ workflowCount = 0
  BY DEF RunnerInit, RunnerBegins
<1>2. QED
  BY <1>1 DEF PoolInv

LEMMA PoolInvLaunch ==
  ASSUME PoolInv, NEW r \in LaunchedRuns,
         \/ WriteWorkflowFile(r) \/ CreateArgoWorkflow(r) \/ LaunchRefused(r)
         \/ SubmitToPool(r) \/ RunBegins(r) \/ RunDone(r)
  PROVE  PoolInv'
<1> USE DEF PoolInv, LaunchIn, Local, Argo
<1>1. CASE WriteWorkflowFile(r)
  BY <1>1 DEF WriteWorkflowFile
<1>2. CASE CreateArgoWorkflow(r)
  BY <1>2 DEF CreateArgoWorkflow
<1>3. CASE LaunchRefused(r)
  BY <1>3 DEF LaunchRefused
<1>4. CASE SubmitToPool(r)
  <2> DEFINE Pooled == {s \in LaunchedRuns : poolOf[s] # 0}
  <2>1. Cardinality(Pooled) \in Nat
    BY RunnerAssumption, FS_Subset, FS_CardinalityType
  <2>2. pool' # 0 /\ pool' \in Int
    BY <1>4, <2>1 DEF SubmitToPool
  <2>3. \A s \in LaunchedRuns : launch[s] \in {"queued", "runs"} => pool' = pool
    BY <1>4 DEF SubmitToPool
  <2>4. /\ launch' = [launch EXCEPT ![r] = "queued"] /\ poolOf' = [poolOf EXCEPT ![r] = pool']
        /\ launch[r] = "none" /\ UNCHANGED <<workflowCount, runnerType>>
    BY <1>4 DEF SubmitToPool
  <2>5. QED
    <3> HIDE DEF Pooled
    <3> QED
      BY <2>2, <2>3, <2>4
<1>5. CASE RunBegins(r)
  BY <1>5 DEF RunBegins
<1>6. CASE RunDone(r)
  BY <1>6 DEF RunDone
<1>7. QED
  BY <1>1, <1>2, <1>3, <1>4, <1>5, <1>6

LEMMA PoolInvOther ==
  ASSUME PoolInv, RunnerTaskNext \/ UNCHANGED runnerVars
  PROVE  PoolInv'
<1>1. UNCHANGED <<launchVars, runnerType>>
  BY DEF RunnerTaskNext, runnerVars, SubmitCurrentTask, SubmitUnheard, TaskAccepted, SubmitRefused,
           BackgroundBegins,
         BackgroundEnds, WaitAndFail, EntryLost, ArgoMoves, ImagePull, ReadTaskOutput, PollTask, Polled,
         TerminateWorkflow, PollRaises, EndpointsRestart, BeginGetFailed, ArgoRaises, EndGetFailed
<1>2. QED
  BY <1>1 DEF PoolInv, launchVars, Local

LEMMA RunnerInvStep ==
  ASSUME AnswerInv /\ PoolInv, [RunnerNext]_runnerVars
  PROVE  (AnswerInv /\ PoolInv)'
<1>1. CASE RunnerTaskNext
  BY <1>1, AnswerInvTask, AnswerInvOther, PoolInvOther DEF RunnerTaskNext, TaskStep
<1>2. CASE LaunchNext
  BY <1>2, AnswerInvOther, PoolInvLaunch DEF LaunchNext
<1>3. CASE UNCHANGED runnerVars
  BY <1>3, AnswerInvOther, PoolInvOther
<1>4. QED
  BY <1>1, <1>2, <1>3 DEF RunnerNext

\* What each task's caller knows, and who has the local pool's one thread, holds all the time.
THEOREM RunnerInvInvariant == RunnerSpec => [](AnswerInv /\ PoolInv)
<1>1. RunnerInit => AnswerInv /\ PoolInv
  BY AnswerInvInit, PoolInvInit
<1>2. QED
  BY <1>1, RunnerInvStep, PTL DEF RunnerSpec

\* A failure that the local or the Argo runner tells the executor of is a failure, an
\* asked-for termination or a poll that raised; and local runs go one at a time, as
\* there is one pool, with one thread.
THEOREM RunnerAnswersAreReal == RunnerSpec => []RunnerAnswersHold
<1>1. ASSUME AnswerInv, PoolInv
      PROVE  RunnerAnswersHold
  <2>1. \A t \in RunnerTasks :
          known[t] = "failed" => work[t] = "failed" \/ t \in terminated \union raisedPolls
    BY <1>1 DEF AnswerInv, AnswerPart, HasFailed
  <2>2. ASSUME Local
        PROVE  Cardinality({r \in LaunchedRuns : launch[r] = "runs"}) <= 1
    <3> DEFINE Running == {r \in LaunchedRuns : launch[r] = "runs"}
    <3>1. \A r, s \in Running : r = s
      BY <1>1, <2>2 DEF PoolInv
    <3>2. CASE Running = {}
      BY <3>2, FS_EmptySet
    <3>3. CASE Running # {}
      <4>1. PICK r \in Running : TRUE
        BY <3>3
      <4>2. Running = {r}
        BY <3>1, <4>1
      <4>3. QED
        BY <4>2, FS_Singleton
    <3>4. QED
      BY <3>2, <3>3
  <2>3. QED
    BY <2>1, <2>2 DEF RunnerAnswersHold
<1>2. QED
  BY RunnerInvInvariant, <1>1, PTL

=============================================================================
