---------------------------- MODULE WorkflowRun ----------------------------
(***************************************************************************)
(* One run of a workflow: its submission by the server                     *)
(* (server/routes/workflows.py) through the Argo workflow runner, the      *)
(* executor that Argo starts (execute_workflow_internal and                *)
(* execute_job_partitions in executor/remote.py), the threads that         *)
(* complete the groups of partitions of a job, and the WorkflowRunRecord   *)
(* that all of them leave behind in Cosmos DB.                             *)
(*                                                                         *)
(* A group is what GroupPromise, which PartitionGroup implements, lets its *)
(* caller see: it returns with or without a FAILED partition, or raises.   *)
(***************************************************************************)
EXTENDS Naturals

CONSTANTS
  NumJobs,          \* jobs of the workflow, numbered in sort_jobs order
  NumGroups,        \* groups a job's partitions are split into
  CallsMayRaise,    \* may a call outside the job's own handlers raise?
  AnswersMayBeLost, \* may a record update take effect and yet raise?
  ProcessesMayDie   \* may the server's or the executor's pod be killed?

Jobs == 1..NumJobs
Groups == 1..NumGroups

ASSUME RunAssumption ==
  /\ NumJobs \in Nat
  /\ NumGroups \in Nat \ {0}
  /\ {CallsMayRaise, AnswersMayBeLost, ProcessesMayDie} \subseteq BOOLEAN

VARIABLES
  server,     \* where the submission handler is
  told,       \* the status in the answer to the client: "none", "running", "failed", "error"
  record,     \* WorkflowRunRecord, built with the request and in Cosmos DB
              \* once server # "new": [status, jobs, errors], errors being
              \* the jobs whose JobRunRecord has any
  pc,         \* where the executor is
  job,        \* index of the job at hand
  runFailed,  \* workflow_failed
  outputs,    \* keys of job_outputs
  group,      \* state of each job's groups
  collected,  \* groups of the job at hand whose futures have been looked at
  jobFailed   \* job_failed

submission == <<server, told>>
local == <<job, runFailed, outputs>>
threads == <<group, collected, jobFailed>>
vars == <<submission, record, pc, local, threads>>

RunStatus == {"submitted", "running", "completed", "failed"}
JobStatus == {"pending", "running", "completed", "failed", "skipped", "cancelled"}
GroupState == {"idle", "active", "succeeded", "failed", "raised"}
Records == [status : RunStatus, jobs : [Jobs -> JobStatus], errors : SUBSET Jobs]

TypeOK ==
  /\ server \in {"new", "recorded", "raised", "answered", "aborted", "dead"}
  /\ told \in {"none", "running", "failed", "error"}
  /\ record \in Records
  /\ pc \in {"none", "start", "head", "prepare", "collect", "except", "exited", "raised", "dead"}
  /\ job \in 1..(NumJobs + 1)
  /\ runFailed \in BOOLEAN
  /\ outputs \subseteq Jobs
  /\ group \in [Jobs -> [Groups -> GroupState]]
  /\ collected \subseteq Groups
  /\ jobFailed \in BOOLEAN

(***************************************************************************)
(* Record updates: update_workflow_run_status, update_job_run_status       *)
(***************************************************************************)
SetWorkflow(r, s) == [r EXCEPT !.status = s]

\* Wrong version of SetJob: the jobs to come stay pending
SetJobLeavesPending(r, j, s) ==
  [r EXCEPT !.status = IF s = "failed" THEN s ELSE @, !.jobs[j] = s]

SetJob(r, j, s) ==
  IF r.jobs[j] = s THEN r
  ELSE IF s = "failed"
       THEN [status |-> "failed",
             jobs   |-> [i \in Jobs |-> IF i = j THEN s
                                        ELSE IF r.jobs[i] = "pending" THEN "cancelled"
                                        ELSE r.jobs[i]],
             errors |-> r.errors]
  ELSE [r EXCEPT !.jobs[j] = s]

WithErrors(r, j) == [r EXCEPT !.errors = @ \union {j}]

(***************************************************************************)
(* Submission (server/routes/workflows.py, workflow/argo.py)               *)
(***************************************************************************)
\* WorkflowRunRecord.from_submit_message
NewRecord == [status |-> "submitted", jobs |-> [j \in Jobs |-> "pending"], errors |-> {}]

PutRecord ==
  /\ server = "new"
  /\ server' = "recorded"
  /\ UNCHANGED <<told, record, pc, local, threads>>

\* The put takes effect and raises.  (One without effect leaves no run.)
PutRaises ==
  /\ AnswersMayBeLost /\ server = "new"
  /\ server' = "aborted" /\ told' = "error"
  /\ UNCHANGED <<record, pc, local, threads>>

\* Argo creates the executor's workflow, rejects it, or creates it and its
\* answer is lost: an ArgoClient exception becomes a FAILED result.
Launch ==
  /\ server = "recorded"
  /\ \E created, heard \in BOOLEAN :
       /\ heard => created
       /\ pc' = IF created THEN "start" ELSE pc
       /\ told' = IF heard THEN "running" ELSE "failed"
  /\ server' = "answered"
  /\ UNCHANGED <<record, local, threads>>

\* The Argo host, token or image is not configured: the runner raises.
LaunchRaises ==
  /\ server = "recorded"
  /\ server' = "raised"
  /\ UNCHANGED <<told, record, pc, local, threads>>

\* The handler re-reads the record, marks it FAILED and raises on.
RecordLaunchFailure ==
  /\ server = "raised"
  /\ record' = SetWorkflow(record, "failed")
  /\ server' = "answered" /\ told' = "error"
  /\ UNCHANGED <<pc, local, threads>>

\* The handler's own read or put raises.
RecordLaunchFailureRaises ==
  /\ CallsMayRaise /\ server = "raised"
  /\ server' = "aborted" /\ told' = "error"
  /\ record' \in {record} \union (IF AnswersMayBeLost THEN {SetWorkflow(record, "failed")} ELSE {})
  /\ UNCHANGED <<pc, local, threads>>

\* The record has been put, the answer not given.
ServerDies ==
  /\ ProcessesMayDie
  /\ server \in {"recorded", "raised"}
  /\ server' = "dead"
  /\ UNCHANGED <<told, record, pc, local, threads>>

(***************************************************************************)
(* Executor                                                                *)
(***************************************************************************)
\* The end of an iteration over the jobs.
NextJob(failed) ==
  /\ job' = job + 1
  /\ runFailed' = (runFailed \/ failed)
  /\ pc' = "head"

Start ==
  /\ pc = "start"
  /\ record' = SetWorkflow(record, "running")
  /\ pc' = "head"
  /\ UNCHANGED <<submission, local, threads>>

\* Reading the record or marking it RUNNING raises, before the try block.
StartRaises ==
  /\ CallsMayRaise /\ pc = "start"
  /\ pc' = "raised"
  /\ record' \in {record} \union (IF AnswersMayBeLost THEN {SetWorkflow(record, "running")} ELSE {})
  /\ UNCHANGED <<submission, local, threads>>

CancelJob ==
  /\ pc = "head" /\ job <= NumJobs /\ runFailed
  /\ record' = SetJob(record, job, "cancelled")
  /\ NextJob(FALSE)
  /\ UNCHANGED <<submission, outputs, threads>>

BeginJob ==
  /\ pc = "head" /\ job <= NumJobs /\ ~runFailed
  /\ record' = SetJob(record, job, "running")
  /\ pc' = "prepare"
  /\ UNCHANGED <<submission, local, threads>>

RejectJob(newRecord) ==
  /\ pc = "prepare"
  /\ record' = newRecord
  /\ NextJob(TRUE)
  /\ UNCHANGED <<submission, outputs, threads>>

\* The errors are added to the copy of the record read at the start, which is
\* never written: PrepareFails and TemplateFails.
PrepareFails == RejectJob(SetJob(record, job, "failed"))

TemplateFails == RejectJob(SetJob(record, job, "failed"))

CreateFails == RejectJob(WithErrors(SetJob(record, job, "failed"), job))

\* A partition has no tasks; no errors are given.
NoTasks == RejectJob(SetJob(record, job, "failed"))

\* foreach has no items
SkipJob ==
  /\ pc = "prepare"
  /\ outputs' = outputs \union {job}
  /\ record' = WithErrors(SetJob(record, job, "skipped"), job)
  /\ NextJob(FALSE)
  /\ UNCHANGED <<submission, threads>>

StartGroups ==
  /\ pc = "prepare"
  /\ group' = [group EXCEPT ![job] = [g \in Groups |-> "active"]]
  /\ collected' = {} /\ jobFailed' = FALSE
  /\ pc' = "collect"
  /\ UNCHANGED <<submission, record, local>>

\* The pool takes some of the groups and then raises.
StartGroupsRaises ==
  /\ CallsMayRaise /\ pc = "prepare"
  /\ \E gs \in SUBSET Groups :
       group' = [group EXCEPT ![job] = [g \in Groups |-> IF g \in gs THEN "active" ELSE "idle"]]
  /\ pc' = "except"
  /\ UNCHANGED <<submission, record, local, collected, jobFailed>>

\* Wrong version of Collect: a thread that raised is not counted as a failure
CollectIgnoresRaised(g) ==
  /\ pc = "collect" /\ g \notin collected
  /\ group[job][g] \in {"succeeded", "failed", "raised"}
  /\ collected' = collected \union {g}
  /\ jobFailed' = (jobFailed \/ group[job][g] = "failed")
  /\ UNCHANGED <<submission, record, pc, local, group>>

\* Futures are looked at as they complete.
Collect(g) ==
  /\ pc = "collect" /\ g \notin collected
  /\ group[job][g] \in {"succeeded", "failed", "raised"}
  /\ collected' = collected \union {g}
  /\ jobFailed' = (jobFailed \/ group[job][g] # "succeeded")
  /\ UNCHANGED <<submission, record, pc, local, group>>

\* The verdict carries the exceptions of the threads, and nothing of the
\* partitions that failed.
JobVerdict ==
  LET r == SetJob(record, job, IF jobFailed THEN "failed" ELSE "completed")
  IN  IF \E g \in Groups : group[job][g] = "raised" THEN WithErrors(r, job) ELSE r

\* Wrong versions of ConcludeJob: the first failure is the verdict, or the
\* None of a failed job is taken for outputs
ConcludeJobEarly ==
  /\ pc = "collect" /\ (jobFailed \/ collected = Groups)
  /\ record' = JobVerdict
  /\ outputs' = IF jobFailed THEN outputs ELSE outputs \union {job}
  /\ NextJob(jobFailed)
  /\ UNCHANGED <<submission, threads>>

ConcludeJobForgetsFailure ==
  /\ pc = "collect" /\ collected = Groups
  /\ record' = JobVerdict
  /\ outputs' = outputs \union {job}
  /\ NextJob(FALSE)
  /\ UNCHANGED <<submission, threads>>

ConcludeJob ==
  /\ pc = "collect" /\ collected = Groups
  /\ record' = JobVerdict
  /\ outputs' = IF jobFailed THEN outputs ELSE outputs \union {job}
  /\ NextJob(jobFailed)
  /\ UNCHANGED <<submission, threads>>

CompleteRun ==
  /\ pc = "head" /\ job > NumJobs /\ ~runFailed
  /\ record' = SetWorkflow(record, "completed")
  /\ pc' = "exited"
  /\ UNCHANGED <<submission, local, threads>>

\* WorkflowFailedError
FailRun ==
  /\ pc = "head" /\ job > NumJobs /\ runFailed
  /\ pc' = "except"
  /\ UNCHANGED <<submission, record, local, threads>>

\* What the step at hand may be putting into Cosmos DB when it raises.
Writing ==
  IF pc = "head" /\ job > NumJobs
    THEN IF runFailed THEN {} ELSE {SetWorkflow(record, "completed")}
  ELSE IF pc = "head"
    THEN {SetJob(record, job, IF runFailed THEN "cancelled" ELSE "running")}
  ELSE IF pc = "prepare"
    THEN {SetJob(record, job, "failed"), WithErrors(SetJob(record, job, "failed"), job),
          WithErrors(SetJob(record, job, "skipped"), job)}
  ELSE IF pc = "collect" /\ collected = Groups
    THEN {JobVerdict}
  ELSE {}

\* A record update or a cleanup of the runner raises inside the try block.
CallRaises ==
  /\ CallsMayRaise
  /\ pc \in {"head", "prepare"} \/ (pc = "collect" /\ collected = Groups)
  /\ record' \in {record} \union (IF AnswersMayBeLost THEN Writing ELSE {})
  /\ pc' = "except"
  /\ UNCHANGED <<submission, local, threads>>

\* The finally block's cleanup raises after the job's verdict was recorded.
CleanupRaises ==
  /\ CallsMayRaise
  /\ pc = "collect" /\ collected = Groups
  /\ record' = JobVerdict
  /\ pc' = "except"
  /\ UNCHANGED <<submission, local, threads>>

\* Wrong version of Except: the failure is logged and not recorded
ExceptForgets ==
  /\ pc = "except"
  /\ pc' = "exited"
  /\ UNCHANGED <<submission, record, local, threads>>

Except ==
  /\ pc = "except"
  /\ record' = SetWorkflow(record, "failed")
  /\ pc' = "exited"
  /\ UNCHANGED <<submission, local, threads>>

ExceptRaises ==
  /\ CallsMayRaise /\ pc = "except"
  /\ pc' = "raised"
  /\ record' \in {record} \union (IF AnswersMayBeLost THEN {SetWorkflow(record, "failed")} ELSE {})
  /\ UNCHANGED <<submission, local, threads>>

ExecutorDies ==
  /\ ProcessesMayDie
  /\ pc \notin {"none", "exited", "raised", "dead"}
  /\ pc' = "dead"
  /\ UNCHANGED <<submission, record, local, threads>>

(***************************************************************************)
(* Groups, as GroupPromise describes them: their threads end with their    *)
(* process, and outlive an exception of the executor's main thread.        *)
(***************************************************************************)
GroupEnds(j, g) ==
  /\ pc # "dead"
  /\ group[j][g] = "active"
  /\ \E s \in {"succeeded", "failed", "raised"} : group' = [group EXCEPT ![j][g] = s]
  /\ UNCHANGED <<submission, record, pc, local, collected, jobFailed>>

(***************************************************************************)
(* The specification                                                       *)
(***************************************************************************)
Init ==
  /\ server = "new" /\ told = "none"
  /\ record = NewRecord
  /\ pc = "none"
  /\ job = 1
  /\ runFailed = FALSE
  /\ outputs = {}
  /\ group = [j \in Jobs |-> [g \in Groups |-> "idle"]]
  /\ collected = {}
  /\ jobFailed = FALSE

Server ==
  \/ PutRecord \/ PutRaises \/ Launch \/ LaunchRaises
  \/ RecordLaunchFailure \/ RecordLaunchFailureRaises

Executor ==
  \/ Start \/ StartRaises \/ CancelJob \/ BeginJob
  \/ PrepareFails \/ TemplateFails \/ CreateFails \/ NoTasks \/ SkipJob
  \/ StartGroups \/ StartGroupsRaises \/ (\E g \in Groups : Collect(g))
  \/ ConcludeJob \/ CompleteRun \/ FailRun \/ CallRaises \/ CleanupRaises
  \/ Except \/ ExceptRaises

Next ==
  \/ Server \/ ServerDies \/ Executor \/ ExecutorDies
  \/ \E j \in Jobs, g \in Groups : GroupEnds(j, g)

Spec == Init /\ [][Next]_vars

\* The server's handler and the executor are scheduled, and every group ends
\* (GroupEnds of PartitionGroup).
Fairness ==
  /\ WF_vars(Server) /\ WF_vars(Executor)
  /\ \A j \in Jobs, g \in Groups : WF_vars(GroupEnds(j, g))

FairSpec == Spec /\ Fairness

(***************************************************************************)
(* Properties                                                              *)
(***************************************************************************)
Finished == {"completed", "skipped"}
Ended == record.status \in {"completed", "failed"}

\* A COMPLETED run has only jobs that are COMPLETED or SKIPPED, and a
\* COMPLETED job had every group return without a FAILED partition: no
\* exception, of a thread or of the executor, is ever taken for a success.
VerdictSupported ==
  /\ record.status = "completed" => \A j \in Jobs : record.jobs[j] \in Finished
  /\ \A j \in Jobs : record.jobs[j] = "completed" =>
       \A g \in Groups : group[j][g] = "succeeded"

\* A job's tasks are started only when every job before it has finished in
\* the record and has left its outputs for templating.
JobsRunInOrder ==
  \A j \in Jobs : (\E g \in Groups : group[j][g] # "idle") =>
    \A i \in 1..(j - 1) : record.jobs[i] \in Finished /\ i \in outputs

\* A job gets its verdict only when none of its threads still runs tasks, and
\* the same holds of a COMPLETED run.  (A FAILED run may still run tasks: see
\* StartGroupsRaises.)
VerdictWaitsForThreads ==
  \A j \in Jobs : (\E g \in Groups : group[j][g] = "active") =>
    record.jobs[j] = "running" /\ record.status # "completed"

\* The record keeps the lifecycle its readers rely on: jobs one at a time and
\* in order, a failing job taking the run and the jobs to come with it in one
\* update, verdicts that never change.
Lifecycle == INSTANCE RunLifecycle WITH
  record <- [status |-> record.status, jobs |-> record.jobs]

LifecycleKept == Lifecycle!Spec

\* A recorded run gets a verdict, unless the handler's or the executor's
\* process dies, a record access of theirs raises outside every handler, or Argo
\* did not start an executor: ArgoClient failures are answered to the client
\* and leave the record SUBMITTED.
RunEnds ==
  server # "new" ~>
    \/ Ended
    \/ pc \in {"raised", "dead"} \/ server \in {"aborted", "dead"}
    \/ told = "failed" /\ pc = "none"

\* A job whose partitions cannot be templated says so in the record
\* (templating.md: "the workflow will fail with a templating error").
TemplatingErrorRecorded == [][TemplateFails => job \in record'.errors]_vars

=============================================================================
