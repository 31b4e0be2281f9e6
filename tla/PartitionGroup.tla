--------------------------- MODULE PartitionGroup ---------------------------
(***************************************************************************)
(* One thread of the remote workflow executor: the blocking loop           *)
(* complete_job_partition_group (executor/remote.py), the TaskState and    *)
(* JobPartitionState objects it drives (executor/models.py), the           *)
(* JobPartitionRunRecords it writes to Cosmos DB, and the task instances   *)
(* it submits, which run elsewhere and answer only through an output blob, *)
(* a status blob and the task runner's list of failed tasks.               *)
(*                                                                         *)
(* The thread visits the partitions of its group in order, again and       *)
(* again.  A visit reads the output blob (phase "output"), the status blob *)
(* and the runner's failures ("status"), then acts on the task's status    *)
(* ("act", and one further phase for each later call that can raise).      *)
(***************************************************************************)
EXTENDS Integers, FiniteSets

CONSTANTS
  NumPartitions,         \* partitions in this group
  NumTasks,              \* tasks of the job, run in sequence by a partition
  MaxConcurrent,         \* max_concurrent_partition_tasks
  MaxWaitRetries,        \* RunSettings.max_wait_retries
  WaitTasks,             \* tasks whose code may return a WaitTaskResult
  UnpreparableTasks,     \* tasks whose preparation may raise
  CompletionMayRaise,    \* may completing a partition (notifications) raise?
  SubmitAnswerMayBeLost, \* may a submission be accepted and yet look failed?
  IsLastJob,             \* is_last_job
  RunningFloor           \* bound: running_task_count saturates at its negation

Partitions == 1..NumPartitions
Tasks == 1..NumTasks
Attempts == 1..(MaxWaitRetries + 1)

ASSUME GroupAssumption ==
  /\ NumPartitions \in Nat \ {0}
  /\ NumTasks \in Nat \ {0}
  /\ MaxConcurrent \in Nat \ {0}
  /\ MaxWaitRetries \in Nat
  /\ RunningFloor \in Nat
  /\ WaitTasks \subseteq Tasks
  /\ UnpreparableTasks \subseteq Tasks
  /\ {CompletionMayRaise, SubmitAnswerMayBeLost, IsLastJob} \subseteq BOOLEAN

VARIABLES
  pc,           \* where the thread is
  at,           \* the partition being visited
  running,      \* running_task_count
  completed,    \* completed_job_count
  failed,       \* failed_job_count
  runnerFailed, \* runner_failed_tasks, as <<partition, task>> pairs
  part,         \* JobPartitionState.status
  cur,          \* index of JobPartitionState.current_task, 0 for None
  task,         \* that TaskState
  outputs,      \* keys of JobPartitionState.task_outputs
  record,       \* the JobPartitionRunRecords in Cosmos DB
  inst,         \* task instances: [partition][task][attempt]
  output,       \* output blob of a task: the last result written
  blob          \* status blob of a task

counters == <<running, completed, failed>>
memory   == <<part, cur, task, outputs>>
external == <<inst, output, blob>>
vars == <<pc, at, counters, runnerFailed, memory, record, external>>

TaskStatus == {"new", "submitted", "running", "completed", "failed", "waiting"}
PartStatus == {"new", "succeeded", "failed"}
TaskRunStatus == {"pending", "submitting", "submitted", "running", "waiting",
                  "completed", "failed", "cancelled"}
Result == {"none", "completed", "failed", "wait"}
InstPhase == {"none", "queued", "running", "wrote", "exited", "crashed"}
Phases == {"loop", "output", "status", "act", "submit", "submitted",
           "prepare", "finish", "notify", "done", "aborted"}

TaskStates == [status : TaskStatus, updated : BOOLEAN, retries : 0..MaxWaitRetries,
               runnerId : BOOLEAN, submitted : BOOLEAN]
Records == [status : {"running", "completed", "failed"}, tasks : [Tasks -> TaskRunStatus]]
Instances == [phase : InstPhase, wrote : Result]

TypeOK ==
  /\ pc \in Phases
  /\ at \in Partitions
  /\ running \in Int
  /\ completed \in Nat
  /\ failed \in Nat
  /\ runnerFailed \subseteq Partitions \X Tasks
  /\ part \in [Partitions -> PartStatus]
  /\ cur \in [Partitions -> 0..NumTasks]
  /\ task \in [Partitions -> TaskStates]
  /\ outputs \in [Partitions -> SUBSET Tasks]
  /\ record \in [Partitions -> Records]
  /\ inst \in [Partitions -> [Tasks -> [Attempts -> Instances]]]
  /\ output \in [Partitions -> [Tasks -> Result]]
  /\ blob \in [Partitions -> [Tasks -> {"none", "running", "completing", "failed"}]]

(***************************************************************************)
(* TaskState (models.py)                                                   *)
(***************************************************************************)
NewTask == [status |-> "new", updated |-> FALSE, retries |-> 0,
            runnerId |-> FALSE, submitted |-> FALSE]

IsActive(ts) == ts.status \in {"submitted", "running"}

ChangeStatus(ts, s) ==
  IF ts.status = s THEN ts ELSE [ts EXCEPT !.status = s, !.updated = FALSE]

SetFailed(ts) == ChangeStatus(ts, "failed")

SetWaiting(ts) ==
  [ChangeStatus(ts, "waiting") EXCEPT !.retries = @ + 1, !.submitted = FALSE]

SetSubmitted(ts) ==
  [ChangeStatus(ts, "submitted") EXCEPT !.submitted = TRUE, !.runnerId = TRUE]

SetSubmitFailed(ts) == [SetFailed(ts) EXCEPT !.submitted = TRUE]

\* update_if_waiting, when the wait has expired
EndWait(ts) == [ChangeStatus(ts, "new") EXCEPT !.submitted = FALSE]

\* process_output_if_available: the effect of the result found in the blob
AfterOutput(ts, result) ==
  IF result = "completed" THEN ChangeStatus(ts, "completed")
  ELSE IF result = "failed" THEN SetFailed(ts)
  ELSE IF result = "wait"
       THEN IF ts.retries >= MaxWaitRetries THEN SetFailed(ts) ELSE SetWaiting(ts)
  ELSE ts

\* Wrong version of AfterStatusBlob: completing taken for completed
AfterStatusBlobTrusting(ts, s) ==
  IF s = "completing" THEN ChangeStatus(ts, "completed")
  ELSE IF s = "running" THEN ChangeStatus(ts, "running") ELSE ts

\* process_status_blob_if_available: nothing but running and completing, both
\* read as running, is believed.
AfterStatusBlob(ts, s) ==
  IF s \in {"running", "completing"} THEN ChangeStatus(ts, "running") ELSE ts

\* The runner's verdict overrides whatever the blobs said.
AfterRunnerPoll(ts, reported) == IF reported THEN SetFailed(ts) ELSE ts

(***************************************************************************)
(* update_task_run_status and update_job_partition_run_status (remote.py). *)
(* Only this thread writes the records of its partitions.                  *)
(***************************************************************************)
\* Wrong versions of RecordTask: a failure leaves the pending tasks pending,
\* or cancels the finished ones too
RecordTaskLeavesPending(r, t, s) ==
  [status |-> IF s = "failed" THEN s ELSE r.status, tasks |-> [r.tasks EXCEPT ![t] = s]]

RecordTaskCancelsAll(r, t, s) ==
  IF s = "failed"
  THEN [status |-> s, tasks |-> [u \in Tasks |-> IF u = t THEN s ELSE "cancelled"]]
  ELSE [r EXCEPT !.tasks[t] = s]

RecordTask(r, t, s) ==
  IF r.tasks[t] = s THEN r
  ELSE IF s \in {"failed", "cancelled"}
       THEN [status |-> "failed",
             tasks  |-> [u \in Tasks |-> IF u = t THEN s
                                         ELSE IF r.tasks[u] = "pending" THEN "cancelled"
                                         ELSE r.tasks[u]]]
  ELSE [r EXCEPT !.tasks[t] = s]

RecordPartition(r, s) == [r EXCEPT !.status = s]

(***************************************************************************)
(* Thread steps                                                            *)
(***************************************************************************)
Visiting(p, phase) == pc = phase /\ at = p

Goto(phase) == pc' = phase /\ UNCHANGED at

\* The end of a visit: the next partition, or the sleep and the loop's head.
NextPartition(p) ==
  IF p = NumPartitions THEN pc' = "loop" /\ at' = 1
                       ELSE pc' = "output" /\ at' = p + 1

\* Wrong version of Decrement: the slot is never given back
DecrementForgotten(n) == n

Decrement(n) == IF n > -RunningFloor THEN n - 1 ELSE n

\* Wrong version of JobsLeft: one job too few
JobsLeftOffByOne == NumPartitions - completed - failed - 1

JobsLeft == NumPartitions - completed - failed

\* The attempt that the runner id of the current task stands for.
LastAttempt(p) == IF task[p].submitted THEN task[p].retries + 1 ELSE task[p].retries

CurrentTasks == {p \in Partitions : cur[p] # 0 /\ task[p].runnerId}

Executing(i) == i.phase \in {"queued", "running"}

EnterLoopBody == pc = "loop" /\ JobsLeft > 0 /\ Goto("output")

\* task_poll_seconds have not passed: the runner's last answer stays in force.
SkipPoll ==
  /\ EnterLoopBody
  /\ UNCHANGED <<counters, runnerFailed, memory, record, external>>

\* The runner lists the tasks whose instance ended in failure.
PollRunner ==
  /\ EnterLoopBody
  /\ runnerFailed' = {<<p, cur[p]>> : p \in
        {q \in CurrentTasks : inst[q][cur[q]][LastAttempt(q)].phase = "crashed"}}
  /\ UNCHANGED <<counters, memory, record, external>>

\* The runner's job failed or is gone: nothing runs any more and every
\* current task is reported, those that have already written output included.
PollRunnerJobFailed ==
  /\ EnterLoopBody
  /\ runnerFailed' = {<<p, cur[p]>> : p \in CurrentTasks}
  /\ inst' = [p \in Partitions |-> [t \in Tasks |-> [k \in Attempts |->
                 IF Executing(inst[p][t][k])
                 THEN [inst[p][t][k] EXCEPT !.phase = "crashed"]
                 ELSE inst[p][t][k]]]]
  /\ UNCHANGED <<counters, memory, record, output, blob>>

Finish ==
  /\ pc = "loop" /\ JobsLeft <= 0
  /\ Goto("done")
  /\ UNCHANGED <<counters, runnerFailed, memory, record, external>>

SkipSettled(p) ==
  /\ Visiting(p, "output") /\ cur[p] = 0
  /\ NextPartition(p)
  /\ UNCHANGED <<counters, runnerFailed, memory, record, external>>

ExpireWait(p) ==
  /\ Visiting(p, "output") /\ cur[p] # 0 /\ task[p].status = "waiting"
  /\ task' = [task EXCEPT ![p] = EndWait(@)]
  /\ Goto("status")
  /\ UNCHANGED <<counters, runnerFailed, part, cur, outputs, record, external>>

ReadOutput(p) ==
  /\ Visiting(p, "output") /\ cur[p] # 0 /\ IsActive(task[p])
  /\ task' = [task EXCEPT ![p] = AfterOutput(@, output[p][cur[p]])]
  /\ Goto("status")
  /\ UNCHANGED <<counters, runnerFailed, part, cur, outputs, record, external>>

\* Not time yet to look, or nothing to look for.
SkipOutput(p) ==
  /\ Visiting(p, "output") /\ cur[p] # 0
  /\ Goto("status")
  /\ UNCHANGED <<counters, runnerFailed, memory, record, external>>

ReadStatusBlob(p) ==
  /\ Visiting(p, "status") /\ IsActive(task[p])
  /\ task' = [task EXCEPT ![p] = AfterRunnerPoll(AfterStatusBlob(@, blob[p][cur[p]]),
                                                 <<p, cur[p]>> \in runnerFailed)]
  /\ Goto("act")
  /\ UNCHANGED <<counters, runnerFailed, part, cur, outputs, record, external>>

SkipStatusBlob(p) ==
  /\ Visiting(p, "status")
  /\ task' = [task EXCEPT ![p] = AfterRunnerPoll(@, <<p, cur[p]>> \in runnerFailed)]
  /\ Goto("act")
  /\ UNCHANGED <<counters, runnerFailed, part, cur, outputs, record, external>>

\* A new task is left for a later pass when the group is at its limit.
HoldBack(p) ==
  /\ Visiting(p, "act") /\ task[p].status = "new" /\ running >= MaxConcurrent
  /\ NextPartition(p)
  /\ UNCHANGED <<counters, runnerFailed, memory, record, external>>

\* Wrong version of BeginSubmit: one task over the limit
BeginSubmitOverLimit(p) ==
  /\ Visiting(p, "act") /\ task[p].status = "new" /\ running <= MaxConcurrent
  /\ running' = running + 1
  /\ record' = [record EXCEPT ![p] = RecordTask(@, cur[p], "submitting")]
  /\ Goto("submit")
  /\ UNCHANGED <<completed, failed, runnerFailed, memory, external>>

BeginSubmit(p) ==
  /\ Visiting(p, "act") /\ task[p].status = "new" /\ running < MaxConcurrent
  /\ running' = running + 1
  /\ record' = [record EXCEPT ![p] = RecordTask(@, cur[p], "submitting")]
  /\ Goto("submit")
  /\ UNCHANGED <<completed, failed, runnerFailed, memory, external>>

\* TaskState.submit: an instance is queued unless the runner rejects the task;
\* an exception or an error answer becomes a FailedTaskSubmitResult.
Submit(p) ==
  /\ Visiting(p, "submit")
  /\ \E accepted, answered \in BOOLEAN :
       /\ ~answered => SubmitAnswerMayBeLost
       /\ inst' = IF accepted
                  THEN [inst EXCEPT ![p][cur[p]][task[p].retries + 1].phase = "queued"]
                  ELSE inst
       /\ task' = [task EXCEPT ![p] = IF accepted /\ answered
                                      THEN SetSubmitted(@) ELSE SetSubmitFailed(@)]
  /\ Goto("submitted")
  /\ UNCHANGED <<counters, runnerFailed, part, cur, outputs, record, output, blob>>

\* update_submit_result
RecordSubmit(p) ==
  /\ Visiting(p, "submitted")
  /\ record' = [record EXCEPT ![p] = RecordTask(@, cur[p], task[p].status)]
  /\ NextPartition(p)
  /\ UNCHANGED <<counters, runnerFailed, memory, external>>

StillActive(p) ==
  /\ Visiting(p, "act")
  /\ \/ task[p].status = "submitted"
     \/ task[p].status = "running" /\ task[p].updated
  /\ NextPartition(p)
  /\ UNCHANGED <<counters, runnerFailed, memory, record, external>>

RecordRunning(p) ==
  /\ Visiting(p, "act") /\ task[p].status = "running" /\ ~task[p].updated
  /\ record' = [record EXCEPT ![p] = RecordTask(@, cur[p], "running")]
  /\ task' = [task EXCEPT ![p].updated = TRUE]
  /\ NextPartition(p)
  /\ UNCHANGED <<counters, runnerFailed, part, cur, outputs, external>>

\* Every visit to a waiting task lowers the count, not only the first one.
Waiting(p) ==
  /\ Visiting(p, "act") /\ task[p].status = "waiting"
  /\ running' = Decrement(running)
  /\ record' = IF task[p].updated THEN record
               ELSE [record EXCEPT ![p] = RecordTask(@, cur[p], "waiting")]
  /\ task' = [task EXCEPT ![p].updated = TRUE]
  /\ NextPartition(p)
  /\ UNCHANGED <<completed, failed, runnerFailed, part, cur, outputs, external>>

FailPartition(p) ==
  /\ Visiting(p, "act") /\ task[p].status = "failed"
  /\ running' = Decrement(running)
  /\ failed' = failed + 1
  /\ part' = [part EXCEPT ![p] = "failed"]
  /\ cur' = [cur EXCEPT ![p] = 0]
  /\ task' = [task EXCEPT ![p] = NewTask]
  /\ record' = [record EXCEPT ![p] = RecordTask(@, cur[p], "failed")]
  /\ NextPartition(p)
  /\ UNCHANGED <<completed, runnerFailed, outputs, external>>

CompleteTask(p) ==
  /\ Visiting(p, "act") /\ task[p].status = "completed"
  /\ running' = Decrement(running)
  /\ outputs' = IF IsLastJob /\ cur[p] = NumTasks THEN outputs
                ELSE [outputs EXCEPT ![p] = @ \union {cur[p]}]
  /\ record' = [record EXCEPT ![p] = RecordTask(@, cur[p], "completed")]
  /\ Goto("prepare")
  /\ UNCHANGED <<completed, failed, runnerFailed, part, cur, task, external>>

\* prepare_next_task with a task left in the queue
PrepareNext(p) ==
  /\ Visiting(p, "prepare") /\ cur[p] < NumTasks
  /\ cur' = [cur EXCEPT ![p] = @ + 1]
  /\ task' = [task EXCEPT ![p] = NewTask]
  /\ NextPartition(p)
  /\ UNCHANGED <<counters, runnerFailed, part, outputs, record, external>>

\* Wrong version of PrepareRaises: the partition's state is not marked
PrepareRaisesUnmarked(p) ==
  /\ Visiting(p, "prepare") /\ cur[p] < NumTasks /\ cur[p] + 1 \in UnpreparableTasks
  /\ failed' = failed + 1
  /\ record' = [record EXCEPT ![p] = RecordPartition(@, "failed")]
  /\ NextPartition(p)
  /\ UNCHANGED <<running, completed, runnerFailed, part, cur, task, outputs, external>>

\* prepare_next_task raises before it replaces current_task.
PrepareRaises(p) ==
  /\ Visiting(p, "prepare") /\ cur[p] < NumTasks /\ cur[p] + 1 \in UnpreparableTasks
  /\ part' = [part EXCEPT ![p] = "failed"]
  /\ failed' = failed + 1
  /\ record' = [record EXCEPT ![p] = RecordPartition(@, "failed")]
  /\ NextPartition(p)
  /\ UNCHANGED <<running, completed, runnerFailed, cur, task, outputs, external>>

\* Wrong version of NoNextTask: a FAILED partition is completed all the same
NoNextTaskUnguarded(p) ==
  /\ Visiting(p, "prepare") /\ cur[p] = NumTasks
  /\ cur' = [cur EXCEPT ![p] = 0]
  /\ task' = [task EXCEPT ![p] = NewTask]
  /\ Goto("finish")
  /\ UNCHANGED <<counters, runnerFailed, part, outputs, record, external>>

\* prepare_next_task with an empty queue
NoNextTask(p) ==
  /\ Visiting(p, "prepare") /\ cur[p] = NumTasks
  /\ cur' = [cur EXCEPT ![p] = 0]
  /\ task' = [task EXCEPT ![p] = NewTask]
  /\ IF part[p] = "failed" THEN NextPartition(p) ELSE Goto("finish")
  /\ UNCHANGED <<counters, runnerFailed, part, outputs, record, external>>

RecordCompletion(p) ==
  /\ Visiting(p, "finish")
  /\ part' = [part EXCEPT ![p] = "succeeded"]
  /\ record' = [record EXCEPT ![p] = RecordPartition(@, "completed")]
  /\ Goto("notify")
  /\ UNCHANGED <<counters, runnerFailed, cur, task, outputs, external>>

\* handle_job_part_notifications returned
Notified(p) ==
  /\ Visiting(p, "notify")
  /\ outputs' = IF IsLastJob THEN [outputs EXCEPT ![p] = {}] ELSE outputs
  /\ completed' = completed + 1
  /\ NextPartition(p)
  /\ UNCHANGED <<running, failed, runnerFailed, part, cur, task, record, external>>

\* The record update or the notifications raised: counted as failed and,
\* after the handler, as completed too.
CompletionRaises(p) ==
  /\ CompletionMayRaise
  /\ Visiting(p, "finish") \/ Visiting(p, "notify")
  /\ part' = [part EXCEPT ![p] = "failed"]
  /\ failed' = failed + 1
  /\ completed' = completed + 1
  /\ record' = [record EXCEPT ![p] = RecordPartition(@, "failed")]
  /\ NextPartition(p)
  /\ UNCHANGED <<running, runnerFailed, cur, task, outputs, external>>

\* Any call to Cosmos DB, to blob storage or to the runner that raises
\* outside a handler ends the thread; what it had written stays.
ThreadRaises ==
  /\ pc \notin {"done", "aborted"}
  /\ Goto("aborted")
  /\ UNCHANGED <<counters, runnerFailed, memory, record, external>>

Visit(p) ==
  \/ SkipSettled(p) \/ ExpireWait(p) \/ ReadOutput(p) \/ SkipOutput(p)
  \/ ReadStatusBlob(p) \/ SkipStatusBlob(p)
  \/ HoldBack(p) \/ BeginSubmit(p) \/ Submit(p) \/ RecordSubmit(p)
  \/ StillActive(p) \/ RecordRunning(p) \/ Waiting(p) \/ FailPartition(p)
  \/ CompleteTask(p) \/ PrepareNext(p) \/ PrepareRaises(p) \/ NoNextTask(p)
  \/ RecordCompletion(p) \/ Notified(p) \/ CompletionRaises(p)

Head == SkipPoll \/ PollRunner \/ PollRunnerJobFailed \/ Finish

Thread == Head \/ ThreadRaises \/ \E p \in Partitions : Visit(p)

(***************************************************************************)
(* Task instances (run_task in pctasks/task/run.py), each on its own node  *)
(***************************************************************************)
SetInst(p, t, k, phase, wrote) ==
  inst' = [inst EXCEPT ![p][t][k] = [phase |-> phase, wrote |-> wrote]]

UnchangedThread == UNCHANGED <<pc, at, counters, runnerFailed, memory, record>>

InstanceStarts(p, t, k) ==
  /\ inst[p][t][k].phase = "queued"
  /\ SetInst(p, t, k, "running", "none")
  /\ blob' = [blob EXCEPT ![p][t] = "running"]
  /\ UnchangedThread /\ UNCHANGED output

InstanceWritesOutput(p, t, k) ==
  /\ inst[p][t][k].phase = "running"
  /\ \E r \in {"completed", "failed"} \union (IF t \in WaitTasks THEN {"wait"} ELSE {}) :
       /\ SetInst(p, t, k, "wrote", r)
       /\ output' = [output EXCEPT ![p][t] = r]
  /\ UnchangedThread /\ UNCHANGED blob

InstanceExits(p, t, k) ==
  /\ inst[p][t][k].phase = "wrote"
  /\ SetInst(p, t, k, "exited", inst[p][t][k].wrote)
  /\ blob' = [blob EXCEPT ![p][t] = "completing"]
  /\ UnchangedThread /\ UNCHANGED output

\* The task raises, is killed with its node, or cannot write COMPLETING.
InstanceCrashes(p, t, k) ==
  /\ inst[p][t][k].phase \in {"queued", "running", "wrote"}
  /\ SetInst(p, t, k, "crashed", inst[p][t][k].wrote)
  /\ \/ UNCHANGED blob
     \/ inst[p][t][k].phase # "queued" /\ blob' = [blob EXCEPT ![p][t] = "failed"]
  /\ UnchangedThread /\ UNCHANGED output

Instance(p, t, k) ==
  \/ InstanceStarts(p, t, k) \/ InstanceWritesOutput(p, t, k)
  \/ InstanceExits(p, t, k) \/ InstanceCrashes(p, t, k)

(***************************************************************************)
(* The specification.  The group starts from the states and records that   *)
(* create_job_partition_states made: first task prepared and its record,   *)
(* not yet its submission, marked SUBMITTING.                              *)
(***************************************************************************)
Init ==
  /\ pc = "loop" /\ at = 1
  /\ running = 0 /\ completed = 0 /\ failed = 0
  /\ runnerFailed = {}
  /\ part = [p \in Partitions |-> "new"]
  /\ cur = [p \in Partitions |-> 1]
  /\ task = [p \in Partitions |-> NewTask]
  /\ outputs = [p \in Partitions |-> {}]
  /\ record = [p \in Partitions |->
        [status |-> "running",
         tasks  |-> [t \in Tasks |-> IF t = 1 THEN "submitting" ELSE "pending"]]]
  /\ inst = [p \in Partitions |-> [t \in Tasks |-> [k \in Attempts |->
                [phase |-> "none", wrote |-> "none"]]]]
  /\ output = [p \in Partitions |-> [t \in Tasks |-> "none"]]
  /\ blob = [p \in Partitions |-> [t \in Tasks |-> "none"]]

Next ==
  \/ Thread
  \/ \E p \in Partitions, t \in Tasks, k \in Attempts : Instance(p, t, k)

Spec == Init /\ [][Next]_vars

(***************************************************************************)
(* Fairness: the thread is scheduled; the poll and check intervals and the *)
(* wait time elapse, so a look that is due again and again is taken; every *)
(* instance that a node runs ends sometime.                                *)
(***************************************************************************)
Fairness ==
  /\ WF_vars(Thread)
  /\ SF_vars(PollRunner)
  /\ \A p \in Partitions : SF_vars(ReadOutput(p)) /\ SF_vars(ExpireWait(p))
  /\ \A p \in Partitions, t \in Tasks, k \in Attempts : WF_vars(Instance(p, t, k))

FairSpec == Spec /\ Fairness

(***************************************************************************)
(* Properties                                                              *)
(***************************************************************************)

ExecutingInstances ==
  {i \in Partitions \X Tasks \X Attempts : Executing(inst[i[1]][i[2]][i[3]])}

\* The partitions whose current task holds one of the group's slots: counted
\* from BeginSubmit until its end has been acted on.
Occupied ==
  {p \in Partitions :
     /\ cur[p] # 0
     /\ \/ Visiting(p, "submit")
        \/ task[p].status \notin {"new", "waiting"} /\ ~Visiting(p, "prepare")}

\* running_task_count is the number of tasks that hold a slot, at every
\* point of the loop and whatever order the answers arrive in.
SlotsAccounted == pc # "aborted" => running = Cardinality(Occupied)

\* The group never has more than max_concurrent_partition_tasks task instances
\* queued or running (remote.py: "wait if max concurrent tasks are already
\* running"): none outlives its slot, and none is submitted without one.
ConcurrencyRespected == Cardinality(ExecutingInstances) <= MaxConcurrent

\* A task is submitted only once the task before it has been recorded as
\* completed and its output kept for templating, its output having been
\* written by an instance that completed.
TaskOrder ==
  \A p \in Partitions : \A t \in Tasks \ {1} :
    (\E k \in Attempts : inst[p][t][k].phase # "none") =>
      /\ record[p].tasks[t - 1] = "completed"
      /\ part[p] = "succeeded" \/ t - 1 \in outputs[p]
      /\ \E k \in Attempts : inst[p][t - 1][k].wrote = "completed"

\* The loop ends normally only when every partition of the group is settled,
\* in memory and in its record, and nothing of the group still executes
\* ("Complete job partitions and return the results").
DoneMeansSettled ==
  pc = "done" =>
    /\ \A p \in Partitions : cur[p] = 0 /\ record[p].status # "running"
    /\ ExecutingInstances = {}

\* A group that ends normally with no partition marked FAILED has completed
\* every partition.  execute_job_partitions takes the job for COMPLETED on
\* that ground alone, so an early end must always leave a FAILED partition.
NeverFalselyComplete ==
  pc = "done" /\ (\A p \in Partitions : part[p] # "failed") =>
    \A p \in Partitions : part[p] = "succeeded" /\ record[p].status = "completed"

\* What the record of a current task may say, given the task's state.
RecordedAs(s) ==
  IF s = "new" THEN {"submitting", "pending", "waiting"} ELSE {s}

\* Between passes, the Cosmos DB record of a partition agrees with the
\* thread's memory: the same outcome, the current task's status, completed
\* tasks before it and, unless the partition failed, pending ones after it.
RecordAgrees ==
  pc = "loop" => \A p \in Partitions :
    /\ part[p] = "succeeded" <=> record[p].status = "completed"
    /\ part[p] = "failed" => record[p].status = "failed"
    /\ record[p].status = "failed" =>
         part[p] = "failed" \/ (cur[p] # 0 /\ task[p].status = "failed")
    /\ cur[p] # 0 =>
         /\ record[p].tasks[cur[p]] \in RecordedAs(task[p].status)
         /\ \A t \in Tasks : t < cur[p] => record[p].tasks[t] = "completed"
         /\ \A t \in Tasks : t > cur[p] =>
              record[p].tasks[t] = IF task[p].status = "failed" THEN "cancelled" ELSE "pending"

Terminal == {"completed", "failed", "cancelled"}

\* Once written, an end is final: a task's terminal status in the record
\* never changes, and a FAILED partition never becomes anything else.
EndsAreFinal ==
  [][\A p \in Partitions :
       /\ part[p] = "failed" => part'[p] = "failed"
       /\ record[p].status = "failed" => record'[p].status = "failed"
       /\ \A t \in Tasks : record[p].tasks[t] \in Terminal =>
            record'[p].tasks[t] = record[p].tasks[t]]_vars

WaitRequests(p, t) == Cardinality({k \in Attempts : inst[p][t][k].wrote = "wait"})

\* A task is failed for waiting too often only if its instances did ask to
\* wait more than max_wait_retries times.
WaitLimitHonest ==
  [][\A p \in Partitions :
       ReadOutput(p) /\ output[p][cur[p]] = "wait" /\ task'[p].status = "failed" =>
         WaitRequests(p, cur[p]) > MaxWaitRetries]_vars

\* The loop ends, whatever fails: it never polls for ever for an answer that
\* does not come, nor holds a task back for ever.
GroupEnds == <>(pc \in {"done", "aborted"})

\* The detailed loop keeps the promise execute_job_partitions relies on: the
\* thread, its records, the runner and the task instances hidden, every step
\* is a step of GroupPromise or changes nothing in it.
Promise == INSTANCE GroupPromise WITH
  phase   <- IF pc \in {"done", "aborted"} THEN pc ELSE "active",
  verdict <- part

PromiseKept == Promise!Spec

=============================================================================
