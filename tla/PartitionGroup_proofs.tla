------------------------ MODULE PartitionGroup_proofs ------------------------
(***************************************************************************)
(* Proofs about the group loop for every number of partitions and tasks,   *)
(* every limit and every combination of faults.                            *)
(***************************************************************************)
EXTENDS PartitionGroup, FiniteSetTheorems, TLAPS

-----------------------------------------------------------------------------
(* The operators on task states and records keep their types.              *)

\* Every operation on a TaskState yields a TaskState, the retry count kept
\* within max_wait_retries by process_output_if_available.
LEMMA TaskOpsType ==
  ASSUME NEW ts \in TaskStates
  PROVE  /\ SetFailed(ts) \in TaskStates
         /\ SetSubmitted(ts) \in TaskStates
         /\ SetSubmitFailed(ts) \in TaskStates
         /\ EndWait(ts) \in TaskStates
         /\ NewTask \in TaskStates
         /\ \A r \in Result : AfterOutput(ts, r) \in TaskStates
         /\ \A s : AfterStatusBlob(ts, s) \in TaskStates
<1>1. \A s \in TaskStatus : ChangeStatus(ts, s) \in TaskStates
  BY DEF ChangeStatus, TaskStates, TaskStatus
<1>2. SetFailed(ts) \in TaskStates
  BY <1>1 DEF SetFailed, TaskStatus
<1>3. /\ SetSubmitted(ts) \in TaskStates
      /\ SetSubmitFailed(ts) \in TaskStates
      /\ EndWait(ts) \in TaskStates
  <2>1. /\ ChangeStatus(ts, "submitted") \in TaskStates
        /\ ChangeStatus(ts, "new") \in TaskStates
    BY <1>1 DEF TaskStatus
  <2>2. QED
    BY <1>2, <2>1 DEF SetSubmitted, SetSubmitFailed, EndWait, TaskStates
<1>4. NewTask \in TaskStates
  BY GroupAssumption DEF NewTask, TaskStates, TaskStatus
<1>5. ASSUME NEW r \in Result PROVE AfterOutput(ts, r) \in TaskStates
  <2>1. ChangeStatus(ts, "completed") \in TaskStates
    BY <1>1 DEF TaskStatus
  <2>2. ts.retries < MaxWaitRetries => SetWaiting(ts) \in TaskStates
    <3> DEFINE w == ChangeStatus(ts, "waiting")
    <3>1. w \in TaskStates
      BY <1>1 DEF TaskStatus
    <3>2. w.retries = ts.retries
      BY DEF ChangeStatus, TaskStates
    <3>3. SetWaiting(ts) = [w EXCEPT !.retries = @ + 1, !.submitted = FALSE]
      BY DEF SetWaiting
    <3> HIDE DEF w
    <3>4. ts.retries < MaxWaitRetries => w.retries + 1 \in 0..MaxWaitRetries
      BY <3>1, <3>2, GroupAssumption DEF TaskStates
    <3>5. QED
      BY <3>1, <3>3, <3>4 DEF TaskStates
  <2>3. ~(ts.retries >= MaxWaitRetries) => ts.retries < MaxWaitRetries
    BY GroupAssumption DEF TaskStates
  <2>4. QED
    BY <1>2, <2>1, <2>2, <2>3 DEF AfterOutput
<1>6. \A s : AfterStatusBlob(ts, s) \in TaskStates
  BY <1>1 DEF AfterStatusBlob, TaskStatus
<1>7. QED
  BY <1>2, <1>3, <1>4, <1>5, <1>6

\* The record updates yield records.
LEMMA RecordOpsType ==
  ASSUME NEW r \in Records, NEW t
  PROVE  /\ \A s \in TaskRunStatus : RecordTask(r, t, s) \in Records
         /\ \A s \in {"running", "completed", "failed"} : RecordPartition(r, s) \in Records
<1>1. ASSUME NEW s \in TaskRunStatus PROVE RecordTask(r, t, s) \in Records
  BY DEF RecordTask, Records, TaskRunStatus
<1>2. QED
  BY <1>1 DEF RecordPartition, Records

-----------------------------------------------------------------------------
(* Where the thread is tells what it is looking at.                        *)

\* The thread acts on a partition only with a current task, of the status the
\* branch it is in was chosen by; a completed partition has none.
PhaseOK ==
  /\ pc \in {"status", "act", "submit", "submitted", "prepare"} => cur[at] # 0
  /\ pc = "submit" => task[at].status = "new"
  /\ pc = "submitted" => task[at].status \in {"submitted", "failed"}
  /\ pc = "prepare" => task[at].status = "completed"
  /\ pc \in {"finish", "notify"} => cur[at] = 0

TypeInv == TypeOK /\ PhaseOK

\* The next partition of the pass is one of the group.
LEMMA NextPartitionType ==
  ASSUME NEW p \in Partitions, NextPartition(p)
  PROVE  /\ pc' \in {"loop", "output"}
         /\ at' \in Partitions
BY GroupAssumption DEF NextPartition, Partitions

\* The group starts with the right types.
LEMMA TypeInvInit == Init => TypeInv
<1> SUFFICES ASSUME Init PROVE TypeInv
  OBVIOUS
<1>1. task \in [Partitions -> TaskStates]
  BY GroupAssumption DEF Init, NewTask, TaskStates, TaskStatus
<1>2. record \in [Partitions -> Records]
  BY DEF Init, Records, TaskRunStatus
<1>3. inst \in [Partitions -> [Tasks -> [Attempts -> Instances]]]
  BY DEF Init, Instances, InstPhase, Result
<1>4. /\ pc \in Phases /\ at \in Partitions
      /\ cur \in [Partitions -> 0..NumTasks]
  BY GroupAssumption DEF Init, Phases, Partitions
<1>5. /\ runnerFailed \subseteq Partitions \X Tasks
      /\ part \in [Partitions -> PartStatus]
      /\ outputs \in [Partitions -> SUBSET Tasks]
      /\ output \in [Partitions -> [Tasks -> Result]]
      /\ blob \in [Partitions -> [Tasks -> {"none", "running", "completing", "failed"}]]
      /\ running \in Int /\ completed \in Nat /\ failed \in Nat
  BY DEF Init, PartStatus, Result
<1>6. PhaseOK
  BY DEF Init, PhaseOK
<1>7. QED
  BY <1>1, <1>2, <1>3, <1>4, <1>5, <1>6 DEF TypeInv, TypeOK

\* One step of the thread's visit to a partition keeps the types and the phase.
LEMMA TypeInvVisit ==
  ASSUME TypeInv, NEW p \in Partitions, Visit(p)
  PROVE  TypeInv'
<1> USE DEF TypeInv, Visiting, Goto, counters, memory, external
<1>0. /\ TypeOK /\ PhaseOK
      /\ task[p] \in TaskStates /\ record[p] \in Records
      /\ cur[p] \in 0..NumTasks
  BY DEF TypeOK
<1>1. CASE SkipSettled(p)
  <2>1. pc' \in {"loop", "output"} /\ at' \in Partitions
    BY <1>1, NextPartitionType DEF SkipSettled
  <2>2. QED
    BY <1>0, <1>1, <2>1 DEF SkipSettled, TypeOK, PhaseOK, Phases
<1>2. CASE ExpireWait(p)
  BY <1>0, <1>2, TaskOpsType DEF ExpireWait, TypeOK, PhaseOK, Phases
<1>3. CASE ReadOutput(p)
  <2>1. cur[p] \in Tasks
    BY <1>0, <1>3, GroupAssumption DEF ReadOutput, Tasks
  <2>2. output[p][cur[p]] \in Result
    BY <1>0, <2>1 DEF TypeOK
  <2>3. AfterOutput(task[p], output[p][cur[p]]) \in TaskStates
    BY <1>0, <2>2, TaskOpsType
  <2>4. QED
    BY <1>0, <1>3, <2>3 DEF ReadOutput, TypeOK, PhaseOK, Phases
<1>4. CASE SkipOutput(p)
  BY <1>0, <1>4 DEF SkipOutput, TypeOK, PhaseOK, Phases
<1>5. CASE ReadStatusBlob(p)
  <2>1. AfterStatusBlob(task[p], blob[p][cur[p]]) \in TaskStates
    BY <1>0, TaskOpsType
  <2>2. AfterRunnerPoll(AfterStatusBlob(task[p], blob[p][cur[p]]),
                        <<p, cur[p]>> \in runnerFailed) \in TaskStates
    BY <2>1, TaskOpsType DEF AfterRunnerPoll
  <2>3. QED
    BY <1>0, <1>5, <2>2 DEF ReadStatusBlob, TypeOK, PhaseOK, Phases
<1>6. CASE SkipStatusBlob(p)
  <2>1. AfterRunnerPoll(task[p], <<p, cur[p]>> \in runnerFailed) \in TaskStates
    BY <1>0, TaskOpsType DEF AfterRunnerPoll
  <2>2. QED
    BY <1>0, <1>6, <2>1 DEF SkipStatusBlob, TypeOK, PhaseOK, Phases
<1>7. CASE HoldBack(p)
  <2>1. pc' \in {"loop", "output"} /\ at' \in Partitions
    BY <1>7, NextPartitionType DEF HoldBack
  <2>2. QED
    BY <1>0, <1>7, <2>1 DEF HoldBack, TypeOK, PhaseOK, Phases
<1>8. CASE BeginSubmit(p)
  <2>1. RecordTask(record[p], cur[p], "submitting") \in Records
    BY <1>0, RecordOpsType DEF TaskRunStatus
  <2>2. QED
    BY <1>0, <1>8, <2>1 DEF BeginSubmit, TypeOK, PhaseOK, Phases
<1>9. CASE Submit(p)
  <2>1. cur[p] \in Tasks
    BY <1>0, <1>9, GroupAssumption DEF Submit, Tasks, PhaseOK
  <2>2. task' \in [Partitions -> TaskStates]
    BY <1>0, <1>9, TaskOpsType DEF Submit, TypeOK
  <2>3. task'[p].status \in {"submitted", "failed"}
    BY <1>0, <1>9 DEF Submit, TypeOK, SetSubmitted, SetSubmitFailed, SetFailed,
         ChangeStatus, TaskStates
  <2>4. inst' \in [Partitions -> [Tasks -> [Attempts -> Instances]]]
    <3>1. \A i \in Instances : [i EXCEPT !.phase = "queued"] \in Instances
      BY DEF Instances, InstPhase
    <3>2. inst[p] \in [Tasks -> [Attempts -> Instances]]
      BY <1>0 DEF TypeOK
    <3>3. [inst[p] EXCEPT ![cur[p]][task[p].retries + 1].phase = "queued"]
            \in [Tasks -> [Attempts -> Instances]]
      BY <2>1, <3>1, <3>2
    <3>4. QED
      BY <1>0, <1>9, <3>3 DEF Submit, TypeOK
  <2>5. QED
    BY <1>0, <1>9, <2>2, <2>3, <2>4 DEF Submit, TypeOK, PhaseOK, Phases
<1>10. CASE RecordSubmit(p)
  <2>1. pc' \in {"loop", "output"} /\ at' \in Partitions
    BY <1>10, NextPartitionType DEF RecordSubmit
  <2>2. task[p].status \in TaskRunStatus
    BY <1>0, <1>10 DEF RecordSubmit, PhaseOK, TaskRunStatus
  <2>3. RecordTask(record[p], cur[p], task[p].status) \in Records
    BY <1>0, <2>2, RecordOpsType
  <2>4. QED
    BY <1>0, <1>10, <2>1, <2>3 DEF RecordSubmit, TypeOK, PhaseOK, Phases
<1>11. CASE StillActive(p)
  <2>1. pc' \in {"loop", "output"} /\ at' \in Partitions
    BY <1>11, NextPartitionType DEF StillActive
  <2>2. QED
    BY <1>0, <1>11, <2>1 DEF StillActive, TypeOK, PhaseOK, Phases
<1>12. CASE RecordRunning(p)
  <2>1. pc' \in {"loop", "output"} /\ at' \in Partitions
    BY <1>12, NextPartitionType DEF RecordRunning
  <2>2. RecordTask(record[p], cur[p], "running") \in Records
    BY <1>0, RecordOpsType DEF TaskRunStatus
  <2>3. [task[p] EXCEPT !.updated = TRUE] \in TaskStates
    BY <1>0 DEF TaskStates
  <2>4. QED
    BY <1>0, <1>12, <2>1, <2>2, <2>3 DEF RecordRunning, TypeOK, PhaseOK, Phases
<1>13. CASE Waiting(p)
  <2>1. pc' \in {"loop", "output"} /\ at' \in Partitions
    BY <1>13, NextPartitionType DEF Waiting
  <2>2. RecordTask(record[p], cur[p], "waiting") \in Records
    BY <1>0, RecordOpsType DEF TaskRunStatus
  <2>3. [task[p] EXCEPT !.updated = TRUE] \in TaskStates
    BY <1>0 DEF TaskStates
  <2>4. Decrement(running) \in Int
    BY <1>0, GroupAssumption DEF Decrement, TypeOK
  <2>5. record' \in [Partitions -> Records]
    BY <1>0, <1>13, <2>2 DEF Waiting, TypeOK
  <2>6. task' \in [Partitions -> TaskStates]
    BY <1>0, <1>13, <2>3 DEF Waiting, TypeOK
  <2>7. QED
    BY <1>0, <1>13, <2>1, <2>4, <2>5, <2>6 DEF Waiting, TypeOK, PhaseOK, Phases
<1>14. CASE FailPartition(p)
  <2>1. pc' \in {"loop", "output"} /\ at' \in Partitions
    BY <1>14, NextPartitionType DEF FailPartition
  <2>2. RecordTask(record[p], cur[p], "failed") \in Records
    BY <1>0, RecordOpsType DEF TaskRunStatus
  <2>3. Decrement(running) \in Int
    BY <1>0, GroupAssumption DEF Decrement, TypeOK
  <2>4. /\ record' \in [Partitions -> Records]
        /\ task' \in [Partitions -> TaskStates]
    BY <1>0, <1>14, <2>2, TaskOpsType DEF FailPartition, TypeOK
  <2>5. /\ cur' \in [Partitions -> 0..NumTasks]
        /\ part' \in [Partitions -> PartStatus]
        /\ failed' \in Nat
    BY <1>0, <1>14, GroupAssumption DEF FailPartition, TypeOK, PartStatus
  <2>6. QED
    BY <1>0, <1>14, <2>1, <2>3, <2>4, <2>5 DEF FailPartition, TypeOK, PhaseOK, Phases
<1>15. CASE CompleteTask(p)
  <2>1. RecordTask(record[p], cur[p], "completed") \in Records
    BY <1>0, RecordOpsType DEF TaskRunStatus
  <2>2. Decrement(running) \in Int
    BY <1>0, GroupAssumption DEF Decrement, TypeOK
  <2>3. cur[p] \in Tasks
    BY <1>0, <1>15, GroupAssumption DEF CompleteTask, Tasks, PhaseOK
  <2>4. outputs' \in [Partitions -> SUBSET Tasks]
    BY <1>0, <1>15, <2>3 DEF CompleteTask, TypeOK
  <2>5. record' \in [Partitions -> Records]
    BY <1>0, <1>15, <2>1 DEF CompleteTask, TypeOK
  <2>6. QED
    BY <1>0, <1>15, <2>2, <2>4, <2>5 DEF CompleteTask, TypeOK, PhaseOK, Phases
<1>16. CASE PrepareNext(p)
  <2>1. pc' \in {"loop", "output"} /\ at' \in Partitions
    BY <1>16, NextPartitionType DEF PrepareNext
  <2>2. cur[p] + 1 \in 0..NumTasks
    BY <1>0, <1>16, GroupAssumption DEF PrepareNext
  <2>3. QED
    BY <1>0, <1>16, <2>1, <2>2, TaskOpsType DEF PrepareNext, TypeOK, PhaseOK, Phases
<1>17. CASE PrepareRaises(p)
  <2>1. pc' \in {"loop", "output"} /\ at' \in Partitions
    BY <1>17, NextPartitionType DEF PrepareRaises
  <2>2. RecordPartition(record[p], "failed") \in Records
    BY <1>0, RecordOpsType
  <2>3. failed' \in Nat
    BY <1>0, <1>17 DEF PrepareRaises, TypeOK
  <2>4. QED
    BY <1>0, <1>17, <2>1, <2>2, <2>3 DEF PrepareRaises, TypeOK, PhaseOK, Phases, PartStatus
<1>18. CASE NoNextTask(p)
  <2>1. \/ pc' \in {"loop", "output"} /\ at' \in Partitions
        \/ pc' = "finish" /\ at' = p
    BY <1>18, NextPartitionType DEF NoNextTask
  <2>2. cur' \in [Partitions -> 0..NumTasks] /\ cur'[p] = 0
    BY <1>0, <1>18, GroupAssumption DEF NoNextTask, TypeOK
  <2>3. QED
    BY <1>0, <1>18, <2>1, <2>2, TaskOpsType DEF NoNextTask, TypeOK, PhaseOK, Phases
<1>19. CASE RecordCompletion(p)
  <2>1. RecordPartition(record[p], "completed") \in Records
    BY <1>0, RecordOpsType
  <2>2. QED
    BY <1>0, <1>19, <2>1 DEF RecordCompletion, TypeOK, PhaseOK, Phases, PartStatus
<1>20. CASE Notified(p)
  <2>1. pc' \in {"loop", "output"} /\ at' \in Partitions
    BY <1>20, NextPartitionType DEF Notified
  <2>2. completed' \in Nat /\ outputs' \in [Partitions -> SUBSET Tasks]
    BY <1>0, <1>20 DEF Notified, TypeOK
  <2>3. QED
    BY <1>0, <1>20, <2>1, <2>2 DEF Notified, TypeOK, PhaseOK, Phases
<1>21. CASE CompletionRaises(p)
  <2>1. pc' \in {"loop", "output"} /\ at' \in Partitions
    BY <1>21, NextPartitionType DEF CompletionRaises
  <2>2. RecordPartition(record[p], "failed") \in Records
    BY <1>0, RecordOpsType
  <2>3. completed' \in Nat /\ failed' \in Nat
    BY <1>0, <1>21 DEF CompletionRaises, TypeOK
  <2>4. QED
    BY <1>0, <1>21, <2>1, <2>2, <2>3 DEF CompletionRaises, TypeOK, PhaseOK, Phases, PartStatus
<1>22. QED
  BY <1>1, <1>2, <1>3, <1>4, <1>5, <1>6, <1>7, <1>8, <1>9, <1>10, <1>11, <1>12, <1>13,
     <1>14, <1>15, <1>16, <1>17, <1>18, <1>19, <1>20, <1>21 DEF Visit

\* The loop's head and an exception keep the types and the phase.
LEMMA TypeInvHead ==
  ASSUME TypeInv, Head \/ ThreadRaises
  PROVE  TypeInv'
<1> USE DEF TypeInv, Goto, counters, memory, external, EnterLoopBody
<1>0. TypeOK /\ PhaseOK
  OBVIOUS
<1>1. CASE SkipPoll
  BY <1>0, <1>1 DEF SkipPoll, TypeOK, PhaseOK, Phases
<1>2. /\ \A p \in CurrentTasks : <<p, cur[p]>> \in Partitions \X Tasks
      /\ CurrentTasks \subseteq Partitions
  BY <1>0, GroupAssumption DEF CurrentTasks, TypeOK, Tasks
<1>3. CASE PollRunner
  <2>1. runnerFailed' \subseteq Partitions \X Tasks
    BY <1>2, <1>3 DEF PollRunner
  <2>2. QED
    BY <1>0, <1>3, <2>1 DEF PollRunner, TypeOK, PhaseOK, Phases
<1>4. CASE PollRunnerJobFailed
  <2>1. runnerFailed' \subseteq Partitions \X Tasks
    BY <1>2, <1>4 DEF PollRunnerJobFailed
  <2>2. inst' \in [Partitions -> [Tasks -> [Attempts -> Instances]]]
    <3>1. \A i \in Instances : [i EXCEPT !.phase = "crashed"] \in Instances
      BY DEF Instances, InstPhase
    <3>2. \A p \in Partitions, t \in Tasks, k \in Attempts : inst[p][t][k] \in Instances
      BY <1>0 DEF TypeOK
    <3>3. QED
      BY <1>4, <3>1, <3>2 DEF PollRunnerJobFailed
  <2>3. QED
    BY <1>0, <1>4, <2>1, <2>2 DEF PollRunnerJobFailed, TypeOK, PhaseOK, Phases
<1>5. CASE Finish
  BY <1>0, <1>5 DEF Finish, TypeOK, PhaseOK, Phases
<1>6. CASE ThreadRaises
  BY <1>0, <1>6 DEF ThreadRaises, TypeOK, PhaseOK, Phases
<1>7. QED
  BY <1>1, <1>3, <1>4, <1>5, <1>6 DEF Head

\* An instance's step keeps the types and does not touch the thread.
LEMMA TypeInvInstance ==
  ASSUME TypeInv, NEW p \in Partitions, NEW t \in Tasks, NEW k \in Attempts,
         Instance(p, t, k)
  PROVE  TypeInv'
<1> USE DEF TypeInv, UnchangedThread, counters, memory, SetInst
<1>0. /\ TypeOK /\ PhaseOK
      /\ inst[p][t][k] \in Instances
  BY DEF TypeOK
<1>1. /\ inst' \in [Partitions -> [Tasks -> [Attempts -> Instances]]]
      /\ output' \in [Partitions -> [Tasks -> Result]]
      /\ blob' \in [Partitions -> [Tasks -> {"none", "running", "completing", "failed"}]]
  <2>1. CASE InstanceStarts(p, t, k)
    BY <1>0, <2>1 DEF InstanceStarts, TypeOK, Instances, InstPhase, Result
  <2>2. CASE InstanceWritesOutput(p, t, k)
    BY <1>0, <2>2 DEF InstanceWritesOutput, TypeOK, Instances, InstPhase, Result
  <2>3. CASE InstanceExits(p, t, k)
    BY <1>0, <2>3 DEF InstanceExits, TypeOK, Instances, InstPhase, Result
  <2>4. CASE InstanceCrashes(p, t, k)
    <3>1. [phase |-> "crashed", wrote |-> inst[p][t][k].wrote] \in Instances
      BY <1>0 DEF Instances, InstPhase
    <3>2. inst' \in [Partitions -> [Tasks -> [Attempts -> Instances]]]
      BY <1>0, <2>4, <3>1 DEF InstanceCrashes, TypeOK
    <3>3. /\ output' \in [Partitions -> [Tasks -> Result]]
          /\ blob' \in [Partitions -> [Tasks -> {"none", "running", "completing", "failed"}]]
      <4>1. output' = output
        BY <2>4 DEF InstanceCrashes
      <4>2. \/ blob' = blob
            \/ blob' = [blob EXCEPT ![p][t] = "failed"]
        BY <2>4 DEF InstanceCrashes
      <4>3. /\ output \in [Partitions -> [Tasks -> Result]]
            /\ blob \in [Partitions -> [Tasks -> {"none", "running", "completing", "failed"}]]
        BY <1>0 DEF TypeOK
      <4>4. CASE blob' = blob
        BY <4>1, <4>3, <4>4
      <4>5. CASE blob' = [blob EXCEPT ![p][t] = "failed"]
        BY <4>1, <4>3, <4>5
      <4>6. QED
        BY <4>2, <4>4, <4>5
    <3>4. QED
      BY <3>2, <3>3
  <2>5. QED
    BY <2>1, <2>2, <2>3, <2>4 DEF Instance
<1>2. UNCHANGED <<pc, at, running, completed, failed, runnerFailed,
                  part, cur, task, outputs, record>>
  BY DEF Instance, InstanceStarts, InstanceWritesOutput, InstanceExits, InstanceCrashes
<1>3. QED
  BY <1>0, <1>1, <1>2 DEF TypeOK, PhaseOK

\* Types and phase are inductive.
LEMMA TypeInvStep ==
  ASSUME TypeInv, [Next]_vars
  PROVE  TypeInv'
<1>1. CASE Next
  BY <1>1, TypeInvVisit, TypeInvHead, TypeInvInstance DEF Next, Thread
<1>2. CASE UNCHANGED vars
  BY <1>2 DEF vars, counters, memory, external, TypeInv, TypeOK, PhaseOK
<1>3. QED
  BY <1>1, <1>2

\* The variables of the model keep their types, for any group, under any fault.
THEOREM TypeCorrect == Spec => []TypeOK
<1>1. TypeInv /\ [Next]_vars => TypeInv'
  BY TypeInvStep
<1>2. TypeInv => TypeOK
  BY DEF TypeInv
<1>3. QED
  BY TypeInvInit, <1>1, <1>2, PTL DEF Spec

-----------------------------------------------------------------------------
(* An early end of the loop always leaves a FAILED partition.  The counters  *)
(* may count a partition several times, but only one that is marked FAILED;  *)
(* as long as none is, completed_job_count is exactly the number of          *)
(* partitions that succeeded.                                                *)

AnyFailed == \E p \in Partitions : part[p] = "failed"

\* The partitions that completed_job_count has counted.
Counted == {p \in Partitions : part[p] = "succeeded" /\ ~(pc = "notify" /\ at = p)}

\* The strengthening of NeverFalselyComplete that every step preserves.
OutcomeInv ==
  /\ \A p \in Partitions : part[p] = "succeeded" => cur[p] = 0 /\ record[p].status = "completed"
  /\ pc = "finish" => part[at] = "new"
  /\ pc = "notify" => part[at] = "succeeded"
  /\ pc = "aborted" \/ AnyFailed \/ (failed = 0 /\ completed = Cardinality(Counted))
  /\ pc = "done" => JobsLeft <= 0

\* A group has NumPartitions partitions, so its subsets can be counted.
LEMMA PartitionsFinite ==
  /\ IsFiniteSet(Partitions)
  /\ Cardinality(Partitions) = NumPartitions
  /\ \A S \in SUBSET Partitions : IsFiniteSet(S) /\ Cardinality(S) \in Nat
<1>1. /\ IsFiniteSet(Partitions)
      /\ Cardinality(Partitions) = NumPartitions
  BY FS_Interval, GroupAssumption DEF Partitions
<1>2. QED
  BY <1>1, FS_Subset, FS_CardinalityType

\* No partition is settled at the start.
LEMMA OutcomeInvInit == Init => OutcomeInv
<1> SUFFICES ASSUME Init PROVE OutcomeInv
  OBVIOUS
<1>1. Counted = {}
  BY DEF Init, Counted
<1>2. Cardinality(Counted) = 0
  BY <1>1, FS_EmptySet
<1>3. QED
  BY <1>2 DEF Init, OutcomeInv

\* A step that settles no partition: whatever else it does, it cannot touch
\* the outcome.
LEMMA OutcomeQuiet ==
  ASSUME OutcomeInv,
         UNCHANGED <<part, completed, failed>>,
         pc \notin {"notify", "done", "aborted"},
         pc' \notin {"finish", "notify", "done"},
         \A q \in Partitions : part[q] = "succeeded" => cur'[q] = cur[q] /\ record'[q] = record[q]
  PROVE  OutcomeInv'
<1>1. Counted' = Counted
  BY DEF Counted
<1>2. AnyFailed' <=> AnyFailed
  BY DEF AnyFailed
<1>3. QED
  BY <1>1, <1>2 DEF OutcomeInv

\* A visit settles partitions and counts them in one go.
LEMMA OutcomeInvVisit ==
  ASSUME TypeInv, OutcomeInv, NEW p \in Partitions, Visit(p)
  PROVE  OutcomeInv'
<1> USE DEF Visiting, Goto, counters, memory, external
<1>0. /\ TypeOK /\ PhaseOK
      /\ cur[p] # 0 => part[p] # "succeeded"
  BY DEF TypeInv, OutcomeInv
<1>1. CASE SkipSettled(p)
  <2>1. pc' \in {"loop", "output"}
    BY <1>1, NextPartitionType DEF SkipSettled
  <2>2. QED
    BY <1>0, <1>1, <2>1, OutcomeQuiet DEF SkipSettled, TypeOK, PhaseOK
<1>2. CASE ExpireWait(p)
  BY <1>0, <1>2, OutcomeQuiet DEF ExpireWait, TypeOK, PhaseOK
<1>3. CASE ReadOutput(p)
  BY <1>0, <1>3, OutcomeQuiet DEF ReadOutput, TypeOK, PhaseOK
<1>4. CASE SkipOutput(p)
  BY <1>0, <1>4, OutcomeQuiet DEF SkipOutput, TypeOK, PhaseOK
<1>5. CASE ReadStatusBlob(p)
  BY <1>0, <1>5, OutcomeQuiet DEF ReadStatusBlob, TypeOK, PhaseOK
<1>6. CASE SkipStatusBlob(p)
  BY <1>0, <1>6, OutcomeQuiet DEF SkipStatusBlob, TypeOK, PhaseOK
<1>7. CASE HoldBack(p)
  <2>1. pc' \in {"loop", "output"}
    BY <1>7, NextPartitionType DEF HoldBack
  <2>2. QED
    BY <1>0, <1>7, <2>1, OutcomeQuiet DEF HoldBack, TypeOK, PhaseOK
<1>8. CASE BeginSubmit(p)
  BY <1>0, <1>8, OutcomeQuiet DEF BeginSubmit, TypeOK, PhaseOK
<1>9. CASE Submit(p)
  BY <1>0, <1>9, OutcomeQuiet DEF Submit, TypeOK, PhaseOK
<1>10. CASE RecordSubmit(p)
  <2>1. pc' \in {"loop", "output"}
    BY <1>10, NextPartitionType DEF RecordSubmit
  <2>2. QED
    BY <1>0, <1>10, <2>1, OutcomeQuiet DEF RecordSubmit, TypeOK, PhaseOK
<1>11. CASE StillActive(p)
  <2>1. pc' \in {"loop", "output"}
    BY <1>11, NextPartitionType DEF StillActive
  <2>2. QED
    BY <1>0, <1>11, <2>1, OutcomeQuiet DEF StillActive, TypeOK, PhaseOK
<1>12. CASE RecordRunning(p)
  <2>1. pc' \in {"loop", "output"}
    BY <1>12, NextPartitionType DEF RecordRunning
  <2>2. QED
    BY <1>0, <1>12, <2>1, OutcomeQuiet DEF RecordRunning, TypeOK, PhaseOK
<1>13. CASE Waiting(p)
  <2>1. pc' \in {"loop", "output"}
    BY <1>13, NextPartitionType DEF Waiting
  <2>2. QED
    BY <1>0, <1>13, <2>1, OutcomeQuiet DEF Waiting, TypeOK, PhaseOK
<1>14. CASE CompleteTask(p)
  BY <1>0, <1>14, OutcomeQuiet DEF CompleteTask, TypeOK, PhaseOK
<1>15. CASE PrepareNext(p)
  <2>1. pc' \in {"loop", "output"}
    BY <1>15, NextPartitionType DEF PrepareNext
  <2>2. QED
    BY <1>0, <1>15, <2>1, OutcomeQuiet DEF PrepareNext, TypeOK, PhaseOK
<1>16. CASE FailPartition(p)
  <2>1. pc' \in {"loop", "output"}
    BY <1>16, NextPartitionType DEF FailPartition
  <2>2. part' = [part EXCEPT ![p] = "failed"]
    BY <1>16 DEF FailPartition
  <2>3. AnyFailed'
    BY <1>0, <2>2 DEF AnyFailed, TypeOK
  <2>4. \A q \in Partitions \ {p} :
          part'[q] = part[q] /\ cur'[q] = cur[q] /\ record'[q] = record[q]
    BY <1>0, <1>16 DEF FailPartition, TypeOK
  <2>5. part'[p] # "succeeded"
    BY <1>0, <2>2 DEF TypeOK
  <2>6. QED
    BY <2>1, <2>3, <2>4, <2>5 DEF OutcomeInv
<1>17. CASE PrepareRaises(p)
  <2>1. pc' \in {"loop", "output"}
    BY <1>17, NextPartitionType DEF PrepareRaises
  <2>2. part' = [part EXCEPT ![p] = "failed"]
    BY <1>17 DEF PrepareRaises
  <2>3. AnyFailed'
    BY <1>0, <2>2 DEF AnyFailed, TypeOK
  <2>4. \A q \in Partitions \ {p} :
          part'[q] = part[q] /\ cur'[q] = cur[q] /\ record'[q] = record[q]
    BY <1>0, <1>17 DEF PrepareRaises, TypeOK
  <2>5. part'[p] # "succeeded"
    BY <1>0, <2>2 DEF TypeOK
  <2>6. QED
    BY <2>1, <2>3, <2>4, <2>5 DEF OutcomeInv
<1>18. CASE CompletionRaises(p)
  <2>1. pc' \in {"loop", "output"}
    BY <1>18, NextPartitionType DEF CompletionRaises
  <2>2. part' = [part EXCEPT ![p] = "failed"]
    BY <1>18 DEF CompletionRaises
  <2>3. AnyFailed'
    BY <1>0, <2>2 DEF AnyFailed, TypeOK
  <2>4. \A q \in Partitions \ {p} :
          part'[q] = part[q] /\ cur'[q] = cur[q] /\ record'[q] = record[q]
    BY <1>0, <1>18 DEF CompletionRaises, TypeOK
  <2>5. part'[p] # "succeeded"
    BY <1>0, <2>2 DEF TypeOK
  <2>6. QED
    BY <2>1, <2>3, <2>4, <2>5 DEF OutcomeInv
<1>19. CASE NoNextTask(p)
  <2>1. /\ cur[p] # 0 /\ part[p] # "succeeded"
        /\ pc = "prepare" /\ at = p
        /\ UNCHANGED <<part, completed, failed, record>>
    BY <1>0, <1>19 DEF NoNextTask, PhaseOK
  <2>2. CASE part[p] = "failed"
    <3>1. pc' \in {"loop", "output"}
      BY <1>19, <2>2, NextPartitionType DEF NoNextTask
    <3>2. QED
      BY <1>0, <1>19, <2>1, <3>1, OutcomeQuiet DEF NoNextTask, TypeOK
  <2>3. CASE part[p] # "failed"
    <3>1. pc' = "finish" /\ at' = p
      BY <1>19, <2>1, <2>3 DEF NoNextTask
    <3>2. part[p] = "new"
      BY <1>0, <2>1, <2>3 DEF TypeOK, PartStatus
    <3>3. Counted' = Counted
      BY <2>1, <3>1 DEF Counted
    <3>4. \A q \in Partitions : part[q] = "succeeded" => cur'[q] = cur[q]
      BY <1>0, <1>19, <2>1 DEF NoNextTask, TypeOK
    <3>5. QED
      BY <2>1, <3>1, <3>2, <3>3, <3>4 DEF OutcomeInv, AnyFailed
  <2>4. QED
    BY <2>2, <2>3
<1>20. CASE RecordCompletion(p)
  <2>1. /\ pc = "finish" /\ at = p /\ pc' = "notify" /\ at' = p
        /\ part[p] = "new" /\ cur[p] = 0
        /\ UNCHANGED <<completed, failed, cur>>
    BY <1>0, <1>20 DEF RecordCompletion, PhaseOK, OutcomeInv
  <2>2. /\ part' = [part EXCEPT ![p] = "succeeded"]
        /\ record' = [record EXCEPT ![p] = RecordPartition(@, "completed")]
    BY <1>20 DEF RecordCompletion
  <2>3. Counted' = Counted
    BY <1>0, <2>1, <2>2 DEF Counted, TypeOK
  <2>4. record'[p].status = "completed"
    BY <1>0, <2>2 DEF RecordPartition, TypeOK, Records
  <2>5. AnyFailed' <=> AnyFailed
    BY <1>0, <2>1, <2>2 DEF AnyFailed, TypeOK
  <2>6. QED
    BY <1>0, <2>1, <2>2, <2>3, <2>4, <2>5 DEF OutcomeInv, TypeOK
<1>21. CASE Notified(p)
  <2>1. /\ pc = "notify" /\ at = p /\ part[p] = "succeeded"
        /\ completed' = completed + 1
        /\ UNCHANGED <<failed, part, cur, record>>
    BY <1>21 DEF Notified, OutcomeInv
  <2>2. pc' \in {"loop", "output"}
    BY <1>21, NextPartitionType DEF Notified
  <2>3. Counted' = Counted \union {p} /\ p \notin Counted
    BY <2>1, <2>2 DEF Counted
  <2>4. IsFiniteSet(Counted) /\ Cardinality(Counted) \in Nat
    BY PartitionsFinite DEF Counted
  <2>5. Cardinality(Counted') = Cardinality(Counted) + 1
    BY <2>3, <2>4, FS_AddElement
  <2>6. AnyFailed' <=> AnyFailed
    BY <2>1 DEF AnyFailed
  <2>7. QED
    BY <2>1, <2>2, <2>5, <2>6 DEF OutcomeInv
<1>22. QED
  BY <1>1, <1>2, <1>3, <1>4, <1>5, <1>6, <1>7, <1>8, <1>9, <1>10, <1>11, <1>12, <1>13, <1>14, <1>15, <1>16, <1>17, <1>18, <1>19, <1>20, <1>21 DEF Visit

\* The head of the loop, an exception and the instances settle nothing.
LEMMA OutcomeInvOther ==
  ASSUME TypeInv, OutcomeInv,
         \/ Head \/ ThreadRaises
         \/ \E p \in Partitions, t \in Tasks, k \in Attempts : Instance(p, t, k)
         \/ UNCHANGED vars
  PROVE  OutcomeInv'
<1> USE DEF Goto, counters, memory, external, EnterLoopBody
<1>1. CASE Head
  <2>1. /\ pc = "loop" /\ UNCHANGED <<at, completed, failed, part, cur, record>>
        /\ pc' = "output" \/ (pc' = "done" /\ JobsLeft <= 0)
    BY <1>1 DEF Head, SkipPoll, PollRunner, PollRunnerJobFailed, Finish
  <2>2. /\ Counted' = Counted
        /\ AnyFailed' <=> AnyFailed
        /\ JobsLeft' = JobsLeft
    BY <2>1 DEF Counted, AnyFailed, JobsLeft
  <2>3. QED
    BY <2>1, <2>2 DEF OutcomeInv
<1>2. CASE ThreadRaises
  BY <1>2 DEF ThreadRaises, OutcomeInv
<1>3. ASSUME UNCHANGED <<pc, at, completed, failed, part, cur, record>>
      PROVE  OutcomeInv'
  <2>1. /\ Counted' = Counted
        /\ AnyFailed' <=> AnyFailed
        /\ JobsLeft' = JobsLeft
    BY <1>3 DEF Counted, AnyFailed, JobsLeft
  <2>2. QED
    BY <1>3, <2>1 DEF OutcomeInv
<1>4. CASE \E p \in Partitions, t \in Tasks, k \in Attempts : Instance(p, t, k)
  <2>1. UNCHANGED <<pc, at, completed, failed, part, cur, record>>
    BY <1>4 DEF Instance, InstanceStarts, InstanceWritesOutput, InstanceExits,
                InstanceCrashes, UnchangedThread
  <2>2. QED
    BY <1>3, <2>1
<1>5. CASE UNCHANGED vars
  BY <1>3, <1>5 DEF vars
<1>6. QED
  BY <1>1, <1>2, <1>4, <1>5

\* The types and the outcome invariant together are inductive.
LEMMA OutcomeInvInvariant == Spec => [](TypeInv /\ OutcomeInv)
<1>1. TypeInv /\ OutcomeInv /\ [Next]_vars => (TypeInv /\ OutcomeInv)'
  <2> SUFFICES ASSUME TypeInv, OutcomeInv, [Next]_vars PROVE (TypeInv /\ OutcomeInv)'
    OBVIOUS
  <2>1. TypeInv'
    BY TypeInvStep
  <2>2. OutcomeInv'
    BY OutcomeInvVisit, OutcomeInvOther DEF Next, Thread
  <2>3. QED
    BY <2>1, <2>2
<1>2. QED
  BY TypeInvInit, OutcomeInvInit, <1>1, PTL DEF Spec

\* Counting every partition as settled means that every one is.
LEMMA OutcomeInvSuffices == TypeInv /\ OutcomeInv => NeverFalselyComplete
<1> SUFFICES ASSUME TypeInv, OutcomeInv, pc = "done",
                    \A p \in Partitions : part[p] # "failed",
                    NEW p \in Partitions
             PROVE  part[p] = "succeeded" /\ record[p].status = "completed"
  BY DEF NeverFalselyComplete
<1>1. failed = 0 /\ completed = Cardinality(Counted) /\ JobsLeft <= 0
  BY DEF OutcomeInv, AnyFailed
<1>2. Counted \in SUBSET Partitions /\ Cardinality(Counted) \in Nat
  BY PartitionsFinite DEF Counted
<1>3. Cardinality(Counted) >= NumPartitions
  BY <1>1, <1>2, GroupAssumption DEF JobsLeft
<1>4. Counted = Partitions
  <2>1. Cardinality(Counted) <= Cardinality(Partitions)
    BY <1>2, PartitionsFinite, FS_Subset
  <2>2. Cardinality(Counted) = Cardinality(Partitions)
    BY <1>2, <1>3, <2>1, PartitionsFinite, GroupAssumption
  <2>3. QED
    BY <1>2, <2>2, PartitionsFinite, FS_Subset
<1>5. QED
  BY <1>4 DEF Counted, OutcomeInv

\* execute_job_partitions takes a job for COMPLETED when no thread raised and
\* no partition is FAILED: that is right, because a loop that has ended
\* normally without a FAILED partition has completed them all, in their
\* records too.
THEOREM OutcomeCorrect == Spec => []NeverFalselyComplete
BY OutcomeInvInvariant, OutcomeInvSuffices, PTL

\* No partition that failed is taken for a success: the partition whose
\* completion is recorded had not been settled before.
THEOREM PromiseIsKept == Spec => PromiseKept
<1> DEFINE phase == IF pc \in {"done", "aborted"} THEN pc ELSE "active"
<1>1. Init => Promise!Init
  BY DEF Init, Promise!Init
<1>2. TypeInv /\ OutcomeInv /\ (TypeInv /\ OutcomeInv)' /\ [Next]_vars => [Promise!Next]_(Promise!vars)
  <2> SUFFICES ASSUME TypeInv, OutcomeInv, TypeInv', OutcomeInv', [Next]_vars
               PROVE  [Promise!Next]_(Promise!vars)
    OBVIOUS
  <2> USE DEF Visiting, Goto, counters, memory, external, Promise!vars
  <2>0. /\ part \in [Partitions -> PartStatus]
        /\ pc = "finish" => part[at] = "new"
        /\ pc' = "finish" => pc' # "done"
    BY DEF TypeInv, TypeOK, OutcomeInv
  <2>1. ASSUME UNCHANGED part, pc \notin {"done", "aborted"}, pc' \notin {"done", "aborted"}
        PROVE  UNCHANGED Promise!vars
    BY <2>1
  <2>2. ASSUME NEW p \in Partitions, Visit(p)
        PROVE  [Promise!Next]_(Promise!vars)
    <3>0. pc \notin {"done", "aborted"} /\ pc' \notin {"done", "aborted"}
      BY <2>2 DEF Visit, SkipSettled, ExpireWait, ReadOutput, SkipOutput, ReadStatusBlob,
         SkipStatusBlob, HoldBack, BeginSubmit, Submit, RecordSubmit, StillActive,
         RecordRunning, Waiting, FailPartition, CompleteTask, PrepareNext, PrepareRaises,
         NoNextTask, RecordCompletion, Notified, CompletionRaises, NextPartition
    <3>1. CASE part' = [part EXCEPT ![p] = "failed"]
      BY <3>0, <3>1 DEF Promise!Next, Promise!Fail
    <3>2. CASE RecordCompletion(p)
      BY <2>0, <3>0, <3>2 DEF RecordCompletion, Promise!Next, Promise!Succeed
    <3>3. CASE UNCHANGED part
      BY <2>1, <3>0, <3>3
    <3>4. QED
      BY <2>2, <3>1, <3>2, <3>3 DEF Visit, SkipSettled, ExpireWait, ReadOutput, SkipOutput,
         ReadStatusBlob, SkipStatusBlob, HoldBack, BeginSubmit, Submit, RecordSubmit,
         StillActive, RecordRunning, Waiting, FailPartition, CompleteTask, PrepareNext,
         PrepareRaises, NoNextTask, Notified, CompletionRaises
  <2>3. CASE Finish
    <3>1. pc' = "done" /\ UNCHANGED part /\ pc = "loop"
      BY <2>3 DEF Finish
    <3>2. (\E p \in Partitions : part[p] = "failed") \/ \A p \in Partitions : part[p] = "succeeded"
      <4>1. NeverFalselyComplete'
        BY OutcomeInvSuffices, PTL
      <4>2. QED
        BY <3>1, <4>1 DEF NeverFalselyComplete
    <3>3. QED
      BY <3>1, <3>2 DEF Promise!Next, Promise!Return
  <2>4. CASE ThreadRaises
    BY <2>4 DEF ThreadRaises, Promise!Next, Promise!Raise
  <2>5. CASE SkipPoll \/ PollRunner \/ PollRunnerJobFailed
    BY <2>5, <2>1 DEF SkipPoll, PollRunner, PollRunnerJobFailed, EnterLoopBody
  <2>6. CASE \E p \in Partitions, t \in Tasks, k \in Attempts : Instance(p, t, k)
    <3>1. UNCHANGED <<pc, part>>
      BY <2>6 DEF Instance, InstanceStarts, InstanceWritesOutput, InstanceExits,
                  InstanceCrashes, UnchangedThread
    <3>2. QED
      BY <3>1
  <2>7. CASE UNCHANGED vars
    BY <2>7 DEF vars
  <2>8. QED
    BY <2>2, <2>3, <2>4, <2>5, <2>6, <2>7 DEF Next, Thread, Head
<1>3. QED
  BY <1>1, <1>2, OutcomeInvInvariant, PTL DEF Spec, PromiseKept, Promise!Spec

-----------------------------------------------------------------------------
(* What the operations on a TaskState do to its fields.                    *)

\* The fields of a TaskState after each operation: what a look at the blobs and at
\* the runner's list, a submission or the end of a wait may change.
LEMMA TaskOpsFields ==
  ASSUME NEW ts \in TaskStates
  PROVE  /\ NewTask.status = "new" /\ NewTask.retries = 0
         /\ ~NewTask.runnerId /\ ~NewTask.submitted /\ ~NewTask.updated
         /\ EndWait(ts).status = "new" /\ EndWait(ts).retries = ts.retries
         /\ SetSubmitted(ts).status = "submitted" /\ SetSubmitted(ts).retries = ts.retries
         /\ SetSubmitted(ts).submitted
         /\ SetSubmitFailed(ts).status = "failed" /\ SetSubmitFailed(ts).retries = ts.retries
         /\ SetSubmitFailed(ts).runnerId = ts.runnerId
         /\ SetFailed(ts).status = "failed" /\ SetFailed(ts).retries = ts.retries
         /\ SetFailed(ts).runnerId = ts.runnerId /\ SetFailed(ts).submitted = ts.submitted
         /\ SetWaiting(ts).status = "waiting" /\ SetWaiting(ts).retries = ts.retries + 1
         /\ ChangeStatus(ts, "completed").status = "completed"
         /\ ChangeStatus(ts, "completed").retries = ts.retries
         /\ ChangeStatus(ts, "completed").runnerId = ts.runnerId
         /\ ChangeStatus(ts, "completed").submitted = ts.submitted
         /\ ChangeStatus(ts, "running").status = "running"
         /\ ChangeStatus(ts, "running").retries = ts.retries
         /\ ChangeStatus(ts, "running").runnerId = ts.runnerId
         /\ ChangeStatus(ts, "running").submitted = ts.submitted
         /\ ts.status # "running" => ~ChangeStatus(ts, "running").updated
         /\ ts.status # "waiting" => ~SetWaiting(ts).updated
         /\ ts.status = "running" => ChangeStatus(ts, "running") = ts
<1> USE DEF TaskStates
<1>1. /\ NewTask.status = "new" /\ NewTask.retries = 0
      /\ ~NewTask.runnerId /\ ~NewTask.submitted /\ ~NewTask.updated
  BY DEF NewTask
<1>2. \A s : /\ ChangeStatus(ts, s).status = s
             /\ ChangeStatus(ts, s).retries = ts.retries
             /\ ChangeStatus(ts, s).runnerId = ts.runnerId
             /\ ChangeStatus(ts, s).submitted = ts.submitted
             /\ ts.status = s => ChangeStatus(ts, s) = ts
             /\ ts.status # s => ~ChangeStatus(ts, s).updated
  BY DEF ChangeStatus
<1>3. \A s \in TaskStatus : ChangeStatus(ts, s) \in TaskStates
  BY DEF ChangeStatus, TaskStatus
<1>4. /\ ChangeStatus(ts, "new") \in TaskStates
      /\ ChangeStatus(ts, "submitted") \in TaskStates
      /\ ChangeStatus(ts, "failed") \in TaskStates
      /\ ChangeStatus(ts, "waiting") \in TaskStates
  BY <1>3 DEF TaskStatus
<1>5. /\ EndWait(ts).status = "new" /\ EndWait(ts).retries = ts.retries
      /\ SetSubmitted(ts).status = "submitted" /\ SetSubmitted(ts).retries = ts.retries
      /\ SetSubmitted(ts).submitted
  BY <1>2, <1>4 DEF EndWait, SetSubmitted
<1>6. /\ SetSubmitFailed(ts).status = "failed" /\ SetSubmitFailed(ts).retries = ts.retries
      /\ SetSubmitFailed(ts).runnerId = ts.runnerId
  BY <1>2, <1>4 DEF SetSubmitFailed, SetFailed
<1>7. /\ SetWaiting(ts).status = "waiting" /\ SetWaiting(ts).retries = ts.retries + 1
      /\ ts.status # "waiting" => ~SetWaiting(ts).updated
  BY <1>2, <1>4 DEF SetWaiting
<1>8. QED
  BY <1>1, <1>2, <1>5, <1>6, <1>7 DEF SetFailed

\* A look at the output blob: active tasks only, and what was found decides.
LEMMA AfterOutputFields ==
  ASSUME NEW ts \in TaskStates, NEW r \in Result
  PROVE  \/ AfterOutput(ts, r) = ts /\ r = "none"
         \/ AfterOutput(ts, r) = ChangeStatus(ts, "completed") /\ r = "completed"
         \/ AfterOutput(ts, r) = SetFailed(ts) /\ r \in {"failed", "wait"}
         \/ /\ AfterOutput(ts, r) = SetWaiting(ts) /\ r = "wait"
            /\ ts.retries < MaxWaitRetries
BY GroupAssumption DEF AfterOutput, Result, TaskStates

\* A look at the status blob and at the runner's list.
LEMMA AfterStatusFields ==
  ASSUME NEW ts, NEW s, NEW reported
  PROVE  /\ AfterRunnerPoll(AfterStatusBlob(ts, s), reported)
              \in {ts, ChangeStatus(ts, "running"), SetFailed(ts),
                   SetFailed(ChangeStatus(ts, "running"))}
         /\ AfterRunnerPoll(ts, reported) \in {ts, SetFailed(ts)}
BY DEF AfterRunnerPoll, AfterStatusBlob

-----------------------------------------------------------------------------
(* A visit touches its own partition only.                                 *)

\* The thread visits one partition at a time: everything it keeps about the others,
\* their records and their instances stay as they are, and a visit that ends goes on
\* to the next partition or to the loop's head.
LEMMA VisitIsLocal ==
  ASSUME TypeInv, NEW p \in Partitions, Visit(p)
  PROVE  /\ at = p /\ pc \notin {"loop", "done", "aborted"}
         /\ pc' \notin {"done", "aborted"}
         /\ at' = p \/ pc' \in {"loop", "output"}
         /\ UNCHANGED <<output, blob, runnerFailed>>
         /\ \A q \in Partitions \ {p} :
              /\ part'[q] = part[q] /\ cur'[q] = cur[q] /\ task'[q] = task[q]
              /\ outputs'[q] = outputs[q] /\ record'[q] = record[q] /\ inst'[q] = inst[q]
<1> USE DEF Visiting, Goto, NextPartition, memory, external, TypeOK
<1>0. TypeOK
  BY DEF TypeInv
<1>1. CASE SkipSettled(p) \/ SkipOutput(p) \/ HoldBack(p) \/ StillActive(p)
  BY <1>0, <1>1 DEF SkipSettled, SkipOutput, HoldBack, StillActive
<1>2. CASE ExpireWait(p) \/ ReadOutput(p) \/ ReadStatusBlob(p) \/ SkipStatusBlob(p)
  BY <1>0, <1>2 DEF ExpireWait, ReadOutput, ReadStatusBlob, SkipStatusBlob
<1>3. CASE BeginSubmit(p) \/ RecordSubmit(p) \/ RecordRunning(p)
  BY <1>0, <1>3 DEF BeginSubmit, RecordSubmit, RecordRunning
<1>4. CASE Submit(p)
  BY <1>0, <1>4 DEF Submit
<1>5. CASE Waiting(p)
  BY <1>0, <1>5 DEF Waiting
<1>6. CASE FailPartition(p) \/ CompleteTask(p)
  BY <1>0, <1>6 DEF FailPartition, CompleteTask
<1>7. CASE PrepareNext(p) \/ PrepareRaises(p) \/ NoNextTask(p)
  BY <1>0, <1>7 DEF PrepareNext, PrepareRaises, NoNextTask
<1>8. CASE RecordCompletion(p) \/ Notified(p) \/ CompletionRaises(p)
  BY <1>0, <1>8 DEF RecordCompletion, Notified, CompletionRaises
<1>9. QED
  BY <1>1, <1>2, <1>3, <1>4, <1>5, <1>6, <1>7, <1>8 DEF Visit

\* What a visit may do to an instance: queue the next attempt of the current task,
\* which is the one the state says has not been submitted yet.
LEMMA SubmitQueues ==
  ASSUME TypeInv, NEW p \in Partitions, Submit(p)
  PROVE  /\ cur[p] \in Tasks /\ task[p].status = "new" /\ task[p].retries + 1 \in Attempts
         /\ UNCHANGED <<cur, output, outputs, part, record>>
         /\ \A t \in Tasks, k \in Attempts :
              \/ inst'[p][t][k] = inst[p][t][k]
              \/ /\ t = cur[p] /\ k = task[p].retries + 1
                 /\ inst'[p][t][k].phase = "queued"
                 /\ inst'[p][t][k].wrote = inst[p][t][k].wrote
         /\ task'[p] \in {SetSubmitted(task[p]), SetSubmitFailed(task[p])}
         /\ ~SubmitAnswerMayBeLost =>
              \/ task'[p] = SetSubmitFailed(task[p]) /\ inst' = inst
              \/ /\ task'[p] = SetSubmitted(task[p])
                 /\ inst'[p][cur[p]][task[p].retries + 1].phase = "queued"
<1> USE DEF Submit, Visiting, TypeInv, TypeOK, PhaseOK
<1>1. /\ cur[p] \in Tasks /\ task[p].status = "new"
      /\ task[p] \in TaskStates /\ task[p].retries + 1 \in Attempts
      /\ UNCHANGED <<cur, output, outputs, part, record>>
  BY GroupAssumption DEF Tasks, Attempts, TaskStates
<1>2. PICK accepted, answered \in BOOLEAN :
        /\ ~answered => SubmitAnswerMayBeLost
        /\ inst' = IF accepted
                   THEN [inst EXCEPT ![p][cur[p]][task[p].retries + 1].phase = "queued"]
                   ELSE inst
        /\ task' = [task EXCEPT ![p] = IF accepted /\ answered
                                       THEN SetSubmitted(@) ELSE SetSubmitFailed(@)]
  OBVIOUS
<1>3. task'[p] = IF accepted /\ answered THEN SetSubmitted(task[p]) ELSE SetSubmitFailed(task[p])
  BY <1>2
<1>4. CASE accepted
  <2> DEFINE row == [inst[p][cur[p]] EXCEPT ![task[p].retries + 1].phase = "queued"]
  <2>1. inst'[p] = [inst[p] EXCEPT ![cur[p]] = row]
    BY <1>2, <1>4
  <2>2. /\ inst[p] \in [Tasks -> [Attempts -> Instances]]
        /\ inst[p][cur[p]] \in [Attempts -> Instances]
    BY <1>1
  <2>3. row = [inst[p][cur[p]] EXCEPT ![task[p].retries + 1] =
                  [inst[p][cur[p]][task[p].retries + 1] EXCEPT !.phase = "queued"]]
    OBVIOUS
  <2>4. \A i \in Instances : /\ [i EXCEPT !.phase = "queued"].phase = "queued"
                             /\ [i EXCEPT !.phase = "queued"].wrote = i.wrote
    BY DEF Instances
  <2>5. \A k \in Attempts :
          \/ row[k] = inst[p][cur[p]][k]
          \/ /\ k = task[p].retries + 1 /\ row[k].phase = "queued"
             /\ row[k].wrote = inst[p][cur[p]][k].wrote
    BY <1>1, <2>2, <2>3, <2>4
  <2>6. row[task[p].retries + 1].phase = "queued"
    BY <1>1, <2>2, <2>3, <2>4
  <2> HIDE DEF row, Submit, Visiting, TypeInv, TypeOK, PhaseOK
  <2>7. \A t \in Tasks, k \in Attempts :
          \/ inst'[p][t][k] = inst[p][t][k]
          \/ /\ t = cur[p] /\ k = task[p].retries + 1
             /\ inst'[p][t][k].phase = "queued"
             /\ inst'[p][t][k].wrote = inst[p][t][k].wrote
    BY <1>1, <2>1, <2>2, <2>5
  <2>8. inst'[p][cur[p]][task[p].retries + 1].phase = "queued"
    BY <1>1, <2>1, <2>2, <2>6
  <2>9. ~SubmitAnswerMayBeLost => task'[p] = SetSubmitted(task[p])
    BY <1>2, <1>3, <1>4
  <2>10. QED
    BY <1>1, <1>3, <2>7, <2>8, <2>9
<1>5. CASE ~accepted
  BY <1>1, <1>2, <1>3, <1>5
<1>6. QED
  BY <1>4, <1>5

-----------------------------------------------------------------------------
(* The order of the tasks.                                                 *)

\* The attempts of the current task that have been submitted.
Submitted(p) == task[p].retries + IF task[p].status \in {"new", "waiting"} THEN 0 ELSE 1

\* No attempt is submitted before its turn, and what an output says has been
\* written by an attempt.
AttemptsInv(p) ==
  /\ cur[p] # 0 => \A t \in Tasks, k \in Attempts :
       t > cur[p] \/ (t = cur[p] /\ k > Submitted(p)) => inst[p][t][k].phase = "none"
  /\ \A t \in Tasks, k \in Attempts :
       inst[p][t][k].phase \in {"none", "queued", "running"} => inst[p][t][k].wrote = "none"
  /\ \A t \in Tasks : output[p][t] = "completed" =>
       \E k \in Attempts : inst[p][t][k].wrote = "completed"
  /\ cur[p] # 0 /\ task[p].status = "completed" =>
       \E k \in Attempts : inst[p][cur[p]][k].wrote = "completed"

\* Visiting a partition keeps its attempts in order.
LEMMA AttemptsVisit ==
  ASSUME TypeInv, NEW p \in Partitions, AttemptsInv(p), Visit(p)
  PROVE  AttemptsInv(p)'
<1> USE DEF Visiting, memory, external
<1>0. /\ TypeOK /\ PhaseOK
      /\ task \in [Partitions -> TaskStates] /\ task[p] \in TaskStates
      /\ cur \in [Partitions -> 0..NumTasks] /\ cur[p] \in 0..NumTasks
      /\ output[p] \in [Tasks -> Result]
      /\ inst[p] \in [Tasks -> [Attempts -> Instances]]
  BY DEF TypeOK, TypeInv
<1>1. ASSUME UNCHANGED <<cur, output, inst>>, cur[p] # 0 => Submitted(p)' >= Submitted(p),
             task'[p].retries \in Nat,
             task'[p].status = "completed" =>
               task[p].status = "completed" \/ cur[p] = 0 \/ output[p][cur[p]] = "completed"
      PROVE  AttemptsInv(p)'
  <2>1. cur[p] # 0 => cur[p] \in Tasks
    BY <1>0, GroupAssumption DEF Tasks
  <2>2. Submitted(p) \in Int /\ Submitted(p)' \in Int
    BY <1>0, <1>1 DEF Submitted, TaskStates
  <2>3. cur[p] # 0 => \A k \in Attempts : k > Submitted(p)' => k > Submitted(p)
    BY <1>1, <2>2, GroupAssumption DEF Attempts
  <2>4. QED
    BY <1>1, <2>1, <2>3 DEF AttemptsInv
<1>2. CASE UNCHANGED <<cur, output, inst, task>>
  BY <1>2 DEF AttemptsInv, Submitted
<1>3. CASE ExpireWait(p)
  <2>1. task'[p] = EndWait(task[p])
    BY <1>0, <1>3 DEF ExpireWait
  <2>2. QED
    BY <1>0, <1>1, <1>3, <2>1, TaskOpsFields DEF ExpireWait, Submitted, TaskStates
<1>4. CASE ReadOutput(p)
  <2>1. task'[p] = AfterOutput(task[p], output[p][cur[p]]) /\ cur[p] \in Tasks
    BY <1>0, <1>4, GroupAssumption DEF ReadOutput, Tasks
  <2>2. output[p][cur[p]] \in Result
    BY <1>0, <2>1
  <2>3. /\ Submitted(p)' >= Submitted(p) /\ task'[p].retries \in Nat
        /\ task'[p].status = "completed" => output[p][cur[p]] = "completed"
    BY <1>0, <1>4, <2>1, <2>2, AfterOutputFields, TaskOpsFields
       DEF ReadOutput, Submitted, IsActive, TaskStates
  <2>4. QED
    BY <1>1, <1>4, <2>3 DEF ReadOutput
<1>5. CASE ReadStatusBlob(p)
  <2> DEFINE found == AfterRunnerPoll(AfterStatusBlob(task[p], blob[p][cur[p]]),
                                      <<p, cur[p]>> \in runnerFailed)
  <2>1. task'[p] = found
    BY <1>0, <1>5 DEF ReadStatusBlob
  <2>2. found \in {task[p], ChangeStatus(task[p], "running"), SetFailed(task[p]),
                   SetFailed(ChangeStatus(task[p], "running"))}
    BY AfterStatusFields
  <2>3. ChangeStatus(task[p], "running") \in TaskStates
    BY <1>0 DEF ChangeStatus, TaskStates, TaskStatus
  <2> HIDE DEF found
  <2>4. /\ Submitted(p)' >= Submitted(p) /\ task'[p].retries \in Nat
        /\ task'[p].status # "completed"
    BY <1>0, <1>5, <2>1, <2>2, <2>3, TaskOpsFields DEF ReadStatusBlob, Submitted, IsActive, TaskStates
  <2>5. QED
    BY <1>1, <1>5, <2>4 DEF ReadStatusBlob
<1>6. CASE SkipStatusBlob(p)
    <2>1. task'[p] \in {task[p], SetFailed(task[p])} /\ UNCHANGED <<cur, output, inst>>
    BY <1>0, <1>6, AfterStatusFields DEF SkipStatusBlob
  <2>2. /\ Submitted(p)' >= Submitted(p) /\ task'[p].retries \in Nat
        /\ task'[p].status = "completed" => task[p].status = "completed"
    BY <1>0, <2>1, TaskOpsFields DEF Submitted, TaskStates
  <2>3. QED
    BY <1>1, <2>1, <2>2
<1>7. CASE Submit(p)
  <2>1. /\ task'[p].status \in {"submitted", "failed"} /\ task'[p].retries = task[p].retries
        /\ UNCHANGED <<cur, output>>
        /\ Submitted(p) = task[p].retries /\ Submitted(p)' = task[p].retries + 1
    BY <1>0, <1>7, SubmitQueues, TaskOpsFields DEF Submitted, TaskStates
  <2>2. \A t \in Tasks, k \in Attempts :
          \/ inst'[p][t][k] = inst[p][t][k]
          \/ /\ t = cur[p] /\ k = task[p].retries + 1 /\ inst[p][t][k].wrote = "none"
             /\ inst'[p][t][k].phase = "queued" /\ inst'[p][t][k].wrote = "none"
    <3>1. task[p].retries + 1 > Submitted(p) /\ cur[p] # 0
      BY <1>0, <1>7, <2>1, SubmitQueues, GroupAssumption DEF TaskStates, Tasks
    <3>2. QED
      BY <1>7, <3>1, SubmitQueues DEF AttemptsInv
  <2>3. task[p].retries \in 0..MaxWaitRetries
    BY <1>0 DEF TaskStates
  <2>4. ASSUME NEW t \in Tasks, NEW k \in Attempts,
               t > cur'[p] \/ (t = cur'[p] /\ k > Submitted(p)')
        PROVE  inst'[p][t][k].phase = "none"
    <3>1. t > cur[p] \/ (t = cur[p] /\ k > Submitted(p) /\ k # task[p].retries + 1)
      BY <2>1, <2>3, <2>4 DEF Attempts
    <3>2. cur[p] # 0 /\ inst[p][t][k].phase = "none" /\ ~(t = cur[p] /\ k = task[p].retries + 1)
      BY <1>0, <1>7, <3>1, SubmitQueues DEF AttemptsInv, Tasks
    <3>3. QED
      BY <2>2, <3>2
  <2>5. \A t \in Tasks : (\E k \in Attempts : inst[p][t][k].wrote = "completed") =>
                        \E k \in Attempts : inst'[p][t][k].wrote = "completed"
    BY <2>2
  <2>6. QED
    BY <2>1, <2>2, <2>4, <2>5 DEF AttemptsInv
<1>8. CASE RecordRunning(p) \/ Waiting(p)
  <2>1. task'[p] = [task[p] EXCEPT !.updated = TRUE] /\ UNCHANGED <<cur, output, inst>>
    BY <1>0, <1>8 DEF RecordRunning, Waiting
  <2>2. task'[p].status = task[p].status /\ task'[p].retries = task[p].retries
    BY <1>0, <2>1 DEF TaskStates
  <2>3. Submitted(p)' >= Submitted(p) /\ task'[p].retries \in Nat
    BY <1>0, <2>2 DEF Submitted, TaskStates
  <2>4. QED
    BY <1>1, <2>1, <2>2, <2>3
<1>9. CASE FailPartition(p) \/ NoNextTask(p)
  BY <1>0, <1>9 DEF FailPartition, NoNextTask, AttemptsInv
<1>10. CASE PrepareNext(p)
  <2>1. /\ cur'[p] = cur[p] + 1 /\ task'[p] = NewTask /\ UNCHANGED <<output, inst>>
        /\ cur[p] # 0 /\ cur[p] < NumTasks
    BY <1>0, <1>10 DEF PrepareNext, PhaseOK
  <2>2. \A t \in Tasks : t >= cur[p] + 1 => t > cur[p]
    BY <1>0, GroupAssumption DEF Tasks
  <2>3. task'[p].status = "new"
    BY <1>0, <2>1, TaskOpsFields
  <2>4. ASSUME NEW t \in Tasks, NEW k \in Attempts,
               t > cur'[p] \/ (t = cur'[p] /\ k > Submitted(p)')
        PROVE  inst'[p][t][k].phase = "none"
    <3>1. t > cur[p]
      BY <1>0, <2>1, <2>4, GroupAssumption DEF Tasks
    <3>2. QED
      BY <2>1, <3>1 DEF AttemptsInv
  <2>5. QED
    BY <2>1, <2>3, <2>4 DEF AttemptsInv
<1>11. QED
  BY <1>2, <1>3, <1>4, <1>5, <1>6, <1>7, <1>8, <1>9, <1>10
     DEF Visit, SkipSettled, SkipOutput, HoldBack, BeginSubmit, RecordSubmit, StillActive,
         CompleteTask, PrepareRaises, RecordCompletion, Notified, CompletionRaises

\* The task has completed, in the record and in memory.
Done(p, t) ==
  /\ record[p].tasks[t] = "completed"
  /\ t \in outputs[p] \/ (part[p] = "succeeded" /\ ~(pc = "notify" /\ at = p))
  /\ \E k \in Attempts : inst[p][t][k].wrote = "completed"

\* The tasks before the current one are done; so is the current one when the next
\* is about to be prepared; and a settled partition stopped after done tasks only.
OrderInv(p) ==
  /\ \A t \in Tasks : t < cur[p] => Done(p, t)
  /\ cur[p] = 0 => \A t \in Tasks \ {1} :
       (\E k \in Attempts : inst[p][t][k].phase # "none") => Done(p, t - 1)
  /\ pc = "prepare" /\ at = p /\ cur[p] < NumTasks => Done(p, cur[p])

\* A record update sets the task's entry; only a failure touches anything else: the
\* record's status, and the entries of the tasks that have not begun.
LEMMA RecordTaskFields ==
  ASSUME NEW r \in Records, NEW t \in Tasks, NEW s \in TaskRunStatus \ {"cancelled"}
  PROVE  /\ RecordTask(r, t, s).tasks[t] = s
         /\ RecordTask(r, t, s).status =
              IF s = "failed" /\ r.tasks[t] # s THEN "failed" ELSE r.status
         /\ \A u \in Tasks \ {t} : RecordTask(r, t, s).tasks[u] =
              IF s = "failed" /\ r.tasks[t] # s /\ r.tasks[u] = "pending"
              THEN "cancelled" ELSE r.tasks[u]
<1>1. CASE r.tasks[t] = s
  BY <1>1 DEF RecordTask
<1>2. CASE r.tasks[t] # s /\ s = "failed"
  BY <1>2 DEF RecordTask
<1>3. CASE r.tasks[t] # s /\ s # "failed"
  <2>1. RecordTask(r, t, s) = [r EXCEPT !.tasks = [r.tasks EXCEPT ![t] = s]]
    BY <1>3 DEF RecordTask
  <2>2. QED
    BY <1>3, <2>1 DEF Records
<1>4. QED
  BY <1>1, <1>2, <1>3

\* What a visit to a partition with a current task needs: the parts of the state it
\* looks at.
LEMMA VisitTypes ==
  ASSUME TypeInv, NEW p \in Partitions
  PROVE  /\ task \in [Partitions -> TaskStates] /\ task[p] \in TaskStates
         /\ record \in [Partitions -> Records] /\ record[p] \in Records
         /\ cur \in [Partitions -> 0..NumTasks] /\ cur[p] \in Nat /\ cur[p] <= NumTasks
         /\ cur[p] # 0 => cur[p] \in Tasks
         /\ outputs \in [Partitions -> SUBSET Tasks] /\ outputs[p] \subseteq Tasks
         /\ part \in [Partitions -> PartStatus] /\ part[p] \in PartStatus
         /\ inst[p] \in [Tasks -> [Attempts -> Instances]]
         /\ at = p => /\ pc \in {"status", "act", "submit", "submitted", "prepare"} => cur[p] # 0
                      /\ pc = "submit" => task[p].status = "new"
                      /\ pc = "submitted" => task[p].status \in {"submitted", "failed"}
                      /\ pc = "prepare" => task[p].status = "completed"
                      /\ pc \in {"finish", "notify"} => cur[p] = 0
BY GroupAssumption DEF TypeInv, TypeOK, PhaseOK, Tasks

\* What is done stays done.
LEMMA OrderKept ==
  ASSUME NEW p \in Partitions, OrderInv(p), cur'[p] = cur[p],
         \A t \in Tasks : Done(p, t) => Done(p, t)',
         \A t \in Tasks : cur[p] = 0 =>
           \A k \in Attempts : inst[p][t][k].phase = "none" => inst'[p][t][k].phase = "none",
         pc' = "prepare" /\ at' = p /\ cur[p] < NumTasks =>
           cur[p] \in Tasks /\ (Done(p, cur[p])' \/ (pc = "prepare" /\ at = p))
  PROVE  OrderInv(p)'
<1>1. \A t \in Tasks \ {1} : t - 1 \in Tasks
  BY GroupAssumption DEF Tasks
<1>2. QED
  BY <1>1 DEF OrderInv

\* Visiting a partition keeps its tasks in order.
LEMMA OrderVisit ==
  ASSUME TypeInv, OutcomeInv, NEW p \in Partitions, AttemptsInv(p), OrderInv(p), Visit(p)
  PROVE  OrderInv(p)'
<1> USE DEF Visiting, Goto, NextPartition, memory, external
<1>0. /\ task \in [Partitions -> TaskStates] /\ task[p] \in TaskStates
      /\ record \in [Partitions -> Records] /\ record[p] \in Records
      /\ cur \in [Partitions -> 0..NumTasks] /\ cur[p] \in Nat /\ cur[p] <= NumTasks
      /\ cur[p] # 0 => cur[p] \in Tasks /\ part[p] # "succeeded"
      /\ outputs \in [Partitions -> SUBSET Tasks]
      /\ part \in [Partitions -> PartStatus]
      /\ at = p => /\ pc \in {"status", "act", "submit", "submitted", "prepare"} => cur[p] # 0
                   /\ pc = "submitted" => task[p].status \in {"submitted", "failed"}
      /\ at = p /\ pc = "finish" => part[p] = "new"
      /\ at = p /\ pc = "notify" => part[p] = "succeeded"
  BY VisitTypes DEF OutcomeInv
<1>1. \A t \in Tasks : t > cur[p] \/ t = cur[p] \/ t < cur[p]
  BY <1>0, GroupAssumption DEF Tasks
<1>2. CASE SkipSettled(p) \/ SkipOutput(p) \/ HoldBack(p) \/ StillActive(p)
  BY <1>0, <1>2, OrderKept DEF SkipSettled, SkipOutput, HoldBack, StillActive, Done
<1>3. CASE ExpireWait(p) \/ ReadOutput(p) \/ ReadStatusBlob(p) \/ SkipStatusBlob(p)
  BY <1>0, <1>3, OrderKept DEF ExpireWait, ReadOutput, ReadStatusBlob, SkipStatusBlob, Done
<1>4. CASE Submit(p)
  <2>1. /\ cur[p] # 0 /\ UNCHANGED <<cur, part, record, outputs>>
        /\ pc = "submit" /\ pc' = "submitted"
    BY <1>0, <1>4 DEF Submit
  <2>2. \A t \in Tasks, k \in Attempts : inst'[p][t][k].wrote = inst[p][t][k].wrote
    BY <1>4, SubmitQueues
  <2>3. \A t \in Tasks : Done(p, t) => Done(p, t)'
    BY <2>1, <2>2 DEF Done
  <2>4. QED
    BY <2>1, <2>3, OrderKept
<1>5. ASSUME cur[p] # 0, NEW s \in TaskRunStatus \ {"cancelled", "completed"},
             record'[p] \in {record[p], RecordTask(record[p], cur[p], s)},
             cur'[p] = 0 \/ cur'[p] = cur[p], UNCHANGED <<outputs, inst>>,
             pc # "notify", pc' \notin {"prepare", "notify"}
      PROVE  OrderInv(p)'
  <2>1. \A t \in Tasks : t # cur[p] /\ Done(p, t) => Done(p, t)'
    BY <1>0, <1>5, RecordTaskFields DEF Done
  <2>2. \A t \in Tasks : t < cur[p] => t # cur[p] /\ Done(p, t)
    BY <1>0 DEF OrderInv, Tasks
  <2>3. \A t \in Tasks \ {1} : (\E k \in Attempts : inst[p][t][k].phase # "none") =>
           t - 1 \in Tasks /\ t - 1 < cur[p]
    BY <1>0, <1>1, <1>5, GroupAssumption DEF AttemptsInv, Tasks
  <2>4. CASE cur'[p] = cur[p]
    BY <1>5, <2>1, <2>2, <2>4 DEF OrderInv
  <2>5. CASE cur'[p] = 0
    <3>1. \A t \in Tasks : ~(t < cur'[p])
      BY <2>5 DEF Tasks
    <3>2. \A t \in Tasks \ {1} : (\E k \in Attempts : inst[p][t][k].phase # "none") => Done(p, t - 1)'
      BY <2>1, <2>2, <2>3
    <3>3. QED
      BY <1>5, <3>1, <3>2 DEF OrderInv
  <2>6. QED
    BY <1>5, <2>4, <2>5
<1>6. CASE BeginSubmit(p) \/ RecordSubmit(p) \/ RecordRunning(p) \/ Waiting(p) \/ FailPartition(p)
  BY <1>0, <1>5, <1>6
     DEF BeginSubmit, RecordSubmit, RecordRunning, Waiting, FailPartition, TaskRunStatus
<1>7. CASE CompleteTask(p)
  <2>1. /\ cur[p] \in Tasks /\ cur' = cur /\ inst' = inst /\ part' = part
        /\ pc # "notify" /\ pc' # "notify"
        /\ record'[p] = RecordTask(record[p], cur[p], "completed")
        /\ outputs[p] \subseteq outputs'[p]
        /\ cur[p] < NumTasks => cur[p] \in outputs'[p]
    BY <1>0, <1>7, GroupAssumption DEF CompleteTask
  <2>2. /\ record'[p].tasks[cur[p]] = "completed"
        /\ \A t \in Tasks : record[p].tasks[t] = "completed" => record'[p].tasks[t] = "completed"
    BY <1>0, <2>1, RecordTaskFields DEF TaskRunStatus
  <2>3. \E k \in Attempts : inst[p][cur[p]][k].wrote = "completed"
    BY <1>0, <1>7 DEF CompleteTask, AttemptsInv
  <2>4. \A t \in Tasks : Done(p, t) => Done(p, t)'
    BY <2>1, <2>2 DEF Done
  <2>5. cur[p] < NumTasks => Done(p, cur[p])'
    BY <2>1, <2>2, <2>3 DEF Done
  <2>6. QED
    BY <2>1, <2>4, <2>5, OrderKept
<1>8. CASE PrepareNext(p)
  <2>1. /\ cur'[p] = cur[p] + 1 /\ UNCHANGED <<inst, part, record, outputs>>
        /\ pc # "notify" /\ pc' \notin {"notify", "prepare"}
        /\ cur[p] \in Tasks /\ Done(p, cur[p])
    BY <1>0, <1>8 DEF PrepareNext, OrderInv
  <2>2. \A t \in Tasks : Done(p, t) => Done(p, t)'
    BY <2>1 DEF Done
  <2>3. \A t \in Tasks : t < cur[p] + 1 => t = cur[p] \/ t < cur[p]
    BY <1>0 DEF Tasks
  <2>4. QED
    BY <1>0, <2>1, <2>2, <2>3 DEF OrderInv
<1>9. CASE PrepareRaises(p)
  <2>1. record'[p].tasks = record[p].tasks
    BY <1>0, <1>9 DEF PrepareRaises, RecordPartition, Records
  <2>2. \A t \in Tasks : Done(p, t) => Done(p, t)'
    BY <1>0, <1>9, <2>1 DEF PrepareRaises, Done
  <2>3. QED
    BY <1>0, <1>9, <2>2, OrderKept DEF PrepareRaises
<1>10. CASE NoNextTask(p)
  <2>1. /\ cur[p] = NumTasks /\ cur[p] # 0 /\ cur'[p] = 0
        /\ UNCHANGED <<inst, part, record, outputs>>
        /\ pc # "notify" /\ pc' \notin {"notify", "prepare"}
    BY <1>0, <1>10 DEF NoNextTask
  <2>2. \A t \in Tasks : Done(p, t) => Done(p, t)'
    BY <2>1 DEF Done
  <2>3. \A t \in Tasks \ {1} : t - 1 \in Tasks /\ t - 1 < cur[p]
    BY <2>1, GroupAssumption DEF Tasks
  <2>4. QED
    BY <1>0, <2>1, <2>2, <2>3 DEF OrderInv, Tasks
<1>11. CASE RecordCompletion(p) \/ CompletionRaises(p)
  <2>1. /\ record'[p].tasks = record[p].tasks
        /\ at = p /\ UNCHANGED <<cur, inst, outputs>> /\ pc' # "prepare"
    BY <1>0, <1>11 DEF RecordCompletion, CompletionRaises, RecordPartition, Records
  <2>2. \A t \in Tasks : Done(p, t) => t \in outputs[p]
    BY <1>0, <1>11 DEF RecordCompletion, CompletionRaises, Done
  <2>3. \A t \in Tasks : Done(p, t) => Done(p, t)'
    BY <2>1, <2>2 DEF Done
  <2>4. QED
    BY <2>1, <2>3, OrderKept
<1>12. CASE Notified(p)
  <2>1. /\ part'[p] = "succeeded" /\ UNCHANGED <<cur, inst, record>>
        /\ pc' \notin {"prepare", "notify"}
    BY <1>0, <1>12 DEF Notified
  <2>2. \A t \in Tasks : Done(p, t) => Done(p, t)'
    BY <2>1 DEF Done
  <2>3. QED
    BY <2>1, <2>2, OrderKept
<1>13. QED
  BY <1>2, <1>3, <1>4, <1>6, <1>7, <1>8, <1>9, <1>10, <1>11, <1>12 DEF Visit

-----------------------------------------------------------------------------
(* The agreement of the records with the thread's memory.                  *)

\* At most one partition is ahead of its record: the one at hand, from the look at
\* its blobs to the update of its record.
Ahead(p) == at = p /\ pc \in {"status", "act", "submitted"}

\* The record's entry of the current task c, given its TaskState ts.
EntryAgrees(entry, ts, ahead) ==
  /\ entry = "failed" => ts.status = "failed"
  /\ entry # "cancelled"
  /\ ~ahead \/ ts.status \in {"new", "submitted"} => entry \in RecordedAs(ts.status)
  /\ ahead /\ ts.status \in {"running", "waiting"} /\ ts.updated => entry = ts.status

AgreeInv(p) ==
  /\ record[p].status = "completed" => part[p] = "succeeded"
  /\ part[p] = "failed" => record[p].status = "failed"
  /\ record[p].status = "failed" =>
       part[p] = "failed" \/ (cur[p] # 0 /\ task[p].status = "failed")
  /\ cur[p] # 0 =>
       LET entry == record[p].tasks[cur[p]] IN
       /\ \A t \in Tasks : t > cur[p] =>
            record[p].tasks[t] = IF entry = "failed" THEN "cancelled" ELSE "pending"
       /\ entry = "failed" => record[p].status = "failed"
       /\ IF pc = "submitted" /\ at = p
          THEN entry = "submitting"
          ELSE EntryAgrees(entry, task[p], Ahead(p))
       /\ pc = "submit" /\ at = p => entry = "submitting"

\* Visiting a partition keeps its record in agreement.
LEMMA AgreeVisit ==
  ASSUME TypeInv, OutcomeInv, NEW p \in Partitions, AgreeInv(p), Visit(p)
  PROVE  AgreeInv(p)'
<1> USE DEF Visiting, Goto, NextPartition, memory, external, Ahead, EntryAgrees, RecordedAs
<1> DEFINE entry == record[p].tasks[cur[p]]
<1>0. /\ task \in [Partitions -> TaskStates] /\ task[p] \in TaskStates
      /\ record \in [Partitions -> Records] /\ record[p] \in Records
      /\ cur \in [Partitions -> 0..NumTasks] /\ cur[p] \in Nat /\ cur[p] <= NumTasks
      /\ cur[p] # 0 => cur[p] \in Tasks /\ part[p] # "succeeded"
      /\ part \in [Partitions -> PartStatus]
      /\ at = p => /\ pc \in {"status", "act", "submit", "submitted", "prepare"} => cur[p] # 0
                   /\ pc = "submit" => task[p].status = "new"
                   /\ pc = "submitted" => task[p].status \in {"submitted", "failed"}
                   /\ pc = "prepare" => task[p].status = "completed"
                   /\ pc \in {"finish", "notify"} => cur[p] = 0
      /\ at = p /\ pc = "finish" => part[p] = "new"
      /\ at = p /\ pc = "notify" => part[p] = "succeeded"
  BY VisitTypes DEF OutcomeInv
<1>1. CASE SkipSettled(p) \/ SkipOutput(p) \/ HoldBack(p) \/ StillActive(p)
  BY <1>0, <1>1 DEF SkipSettled, SkipOutput, HoldBack, StillActive, AgreeInv
\* A look at the blobs: the record is left for the action that follows.
<1>2. ASSUME cur[p] # 0, UNCHANGED <<part, cur, record>>, at = p, at' = p,
             pc \in {"output", "status"}, pc' \in {"status", "act"},
             \/ task'[p] = task[p]
             \/ task'[p].status = "failed"
             \/ pc = "output" /\ task[p].status = "waiting" /\ task'[p].status = "new"
             \/ task[p].status = "submitted" /\ task'[p].status = "running" /\ ~task'[p].updated
             \/ IsActive(task[p]) /\ task'[p].status = "waiting" /\ ~task'[p].updated
             \/ IsActive(task[p]) /\ task'[p].status = "completed"
      PROVE  AgreeInv(p)'
  <2>1. task[p].status = "failed" => task'[p].status = "failed"
    BY <1>2 DEF IsActive
  <2>2. EntryAgrees(entry, task[p], Ahead(p)) => EntryAgrees(entry, task'[p], Ahead(p)')
    BY <1>2 DEF IsActive
  <2>3. QED
    BY <1>2, <2>1, <2>2 DEF AgreeInv
<1>3. CASE ExpireWait(p)
  <2>1. task'[p] = EndWait(task[p])
    BY <1>0, <1>3 DEF ExpireWait
  <2>2. QED
    BY <1>0, <1>2, <1>3, <2>1, TaskOpsFields DEF ExpireWait
<1>4. CASE ReadOutput(p)
  <2>1. task'[p] = AfterOutput(task[p], output[p][cur[p]]) /\ output[p][cur[p]] \in Result
    BY <1>0, <1>4 DEF ReadOutput, TypeInv, TypeOK
  <2>2. QED
    BY <1>0, <1>2, <1>4, <2>1, AfterOutputFields, TaskOpsFields DEF ReadOutput, IsActive
<1>5. CASE ReadStatusBlob(p)
  <2> DEFINE found == AfterRunnerPoll(AfterStatusBlob(task[p], blob[p][cur[p]]),
                                      <<p, cur[p]>> \in runnerFailed)
  <2>1. task'[p] = found
    BY <1>0, <1>5 DEF ReadStatusBlob
  <2>2. found \in {task[p], ChangeStatus(task[p], "running"), SetFailed(task[p]),
                   SetFailed(ChangeStatus(task[p], "running"))}
    BY AfterStatusFields
  <2>3. ChangeStatus(task[p], "running") \in TaskStates
    BY <1>0 DEF ChangeStatus, TaskStates, TaskStatus
  <2> HIDE DEF found
  <2>4. QED
    BY <1>0, <1>2, <1>5, <2>1, <2>2, <2>3, TaskOpsFields DEF ReadStatusBlob, IsActive
<1>6. CASE SkipStatusBlob(p)
  <2>1. task'[p] \in {task[p], SetFailed(task[p])}
    BY <1>0, <1>6, AfterStatusFields DEF SkipStatusBlob
  <2>2. QED
    BY <1>0, <1>2, <1>6, <2>1, TaskOpsFields DEF SkipStatusBlob
\* An update of the current task's entry to the status in memory.
<1>7. ASSUME cur[p] # 0, entry # "failed", UNCHANGED <<part, cur>>,
             ~Ahead(p)', ~(at' = p /\ pc' = "submitted"),
             NEW s \in TaskRunStatus \ {"cancelled", "failed"},
             record'[p] = RecordTask(record[p], cur[p], s),
             s \in RecordedAs(task'[p].status), task[p].status # "failed",
             pc' = "submit" => s = "submitting"
      PROVE  AgreeInv(p)'
  <2>1. /\ record'[p].tasks[cur[p]] = s /\ record'[p].status = record[p].status
        /\ \A t \in Tasks : t # cur[p] => record'[p].tasks[t] = record[p].tasks[t]
    BY <1>0, <1>7, RecordTaskFields
  <2>2. \A t \in Tasks : t > cur[p] => t # cur[p]
    BY <1>0 DEF Tasks
  <2>3. QED
    BY <1>7, <2>1, <2>2 DEF AgreeInv
<1>8. CASE BeginSubmit(p) \/ CompleteTask(p)
  <2>1. record'[p] = RecordTask(record[p], cur[p], task'[p].status) \/ task'[p].status = "new"
    BY <1>0, <1>8 DEF BeginSubmit, CompleteTask
  <2>2. QED
    BY <1>0, <1>7, <1>8 DEF BeginSubmit, CompleteTask, TaskRunStatus, AgreeInv
<1>9. CASE Submit(p)
  <2>1. /\ UNCHANGED <<part, cur, record, at>> /\ pc = "submit" /\ pc' = "submitted" /\ at = p
    BY <1>9 DEF Submit
  <2>2. task[p].status = "new" /\ cur[p] # 0
    BY <1>0, <2>1
  <2>3. QED
    BY <2>1, <2>2 DEF AgreeInv
<1>10. CASE RecordSubmit(p)
  <2>1. /\ record'[p] = RecordTask(record[p], cur[p], task[p].status)
        /\ UNCHANGED <<part, cur, task>> /\ cur[p] \in Tasks /\ cur[p] # 0
        /\ at = p /\ pc = "submitted" /\ pc' \in {"loop", "output"}
        /\ task[p].status \in {"submitted", "failed"} /\ entry = "submitting"
    BY <1>0, <1>10 DEF RecordSubmit, AgreeInv
  <2>2. CASE task[p].status = "submitted"
    BY <1>7, <2>1, <2>2 DEF TaskRunStatus
  <2>3. CASE task[p].status = "failed"
    <3>1. /\ record'[p].tasks[cur[p]] = "failed" /\ record'[p].status = "failed"
          /\ \A t \in Tasks \ {cur[p]} : record'[p].tasks[t] =
               IF record[p].tasks[t] = "pending" THEN "cancelled" ELSE record[p].tasks[t]
      BY <1>0, <2>1, <2>3, RecordTaskFields DEF TaskRunStatus
    <3>2. \A t \in Tasks : t > cur[p] => t # cur[p]
      BY <1>0 DEF Tasks
    <3>3. QED
      BY <2>1, <2>3, <3>1, <3>2 DEF AgreeInv
  <2>4. QED
    BY <2>1, <2>2, <2>3
<1>11. CASE RecordRunning(p)
  <2>1. /\ record'[p] = RecordTask(record[p], cur[p], "running")
        /\ task'[p] = [task[p] EXCEPT !.updated = TRUE]
        /\ UNCHANGED <<part, cur>> /\ cur[p] # 0
        /\ at = p /\ pc = "act" /\ pc' \in {"loop", "output"} /\ task[p].status = "running"
    BY <1>0, <1>11 DEF RecordRunning
  <2>2. task'[p].status = "running" /\ entry # "failed"
    BY <1>0, <2>1 DEF TaskStates, AgreeInv
  <2>3. QED
    BY <1>7, <2>1, <2>2 DEF TaskRunStatus
<1>12. CASE Waiting(p)
  <2>1. /\ \/ record'[p] = RecordTask(record[p], cur[p], "waiting")
           \/ record' = record /\ task[p].updated
        /\ task'[p] = [task[p] EXCEPT !.updated = TRUE]
        /\ UNCHANGED <<part, cur>> /\ cur[p] # 0
        /\ at = p /\ pc = "act" /\ pc' \in {"loop", "output"} /\ task[p].status = "waiting"
    BY <1>0, <1>12 DEF Waiting
  <2>2. task'[p].status = "waiting" /\ entry # "failed"
    BY <1>0, <2>1 DEF TaskStates, AgreeInv
  <2>3. CASE record'[p] = RecordTask(record[p], cur[p], "waiting")
    BY <1>7, <2>1, <2>2, <2>3 DEF TaskRunStatus
  <2>4. CASE record' = record /\ task[p].updated
    BY <2>1, <2>2, <2>4 DEF AgreeInv
  <2>5. QED
    BY <2>1, <2>3, <2>4
<1>13. CASE FailPartition(p)
  <2>1. /\ record'[p] = RecordTask(record[p], cur[p], "failed") /\ cur[p] \in Tasks
        /\ part'[p] = "failed" /\ cur'[p] = 0 /\ pc = "act" /\ at = p /\ cur[p] # 0
    BY <1>0, <1>13 DEF FailPartition
  <2>2. record'[p].status = "failed"
    BY <1>0, <2>1, RecordTaskFields DEF TaskRunStatus, AgreeInv
  <2>3. QED
    BY <2>1, <2>2 DEF AgreeInv
<1>14. CASE PrepareNext(p)
  <2>1. /\ cur[p] \in Tasks /\ cur'[p] = cur[p] + 1 /\ task'[p] = NewTask /\ cur[p] # 0
        /\ cur[p] + 1 \in Tasks
        /\ UNCHANGED <<part, record>> /\ pc = "prepare" /\ at = p /\ pc' \in {"loop", "output"}
        /\ task[p].status = "completed"
    BY <1>0, <1>14, GroupAssumption DEF PrepareNext, Tasks
  <2>2. entry = "completed"
    BY <2>1 DEF AgreeInv
  <2>3. \A t \in Tasks : t > cur[p] => record[p].tasks[t] = "pending"
    BY <2>1, <2>2 DEF AgreeInv
  <2>4. cur[p] + 1 > cur[p] /\ \A t \in Tasks : t > cur[p] + 1 => t > cur[p]
    BY <1>0 DEF Tasks
  <2>5. task'[p].status = "new"
    BY <1>0, <2>1, TaskOpsFields
  <2>6. QED
    BY <2>1, <2>3, <2>4, <2>5 DEF AgreeInv
<1>15. CASE PrepareRaises(p) \/ CompletionRaises(p)
  <2>1. /\ record'[p] = [record[p] EXCEPT !.status = "failed"] /\ part'[p] = "failed"
        /\ at = p /\ UNCHANGED <<cur, task>> /\ pc' \in {"loop", "output"}
        /\ cur[p] # 0 => pc = "prepare" /\ task[p].status = "completed"
    BY <1>0, <1>15 DEF PrepareRaises, CompletionRaises, RecordPartition
  <2>2. record'[p].status = "failed" /\ record'[p].tasks = record[p].tasks
    BY <1>0, <2>1 DEF Records
  <2>3. QED
    BY <2>1, <2>2 DEF AgreeInv
<1>16. CASE NoNextTask(p)
  <2>1. /\ cur'[p] = 0 /\ UNCHANGED <<part, record>> /\ at = p /\ pc = "prepare"
        /\ task[p].status = "completed"
    BY <1>0, <1>16 DEF NoNextTask
  <2>2. QED
    BY <2>1 DEF AgreeInv
<1>17. CASE RecordCompletion(p)
  <2>1. /\ record'[p] = [record[p] EXCEPT !.status = "completed"] /\ part'[p] = "succeeded"
        /\ at = p /\ UNCHANGED cur /\ cur[p] = 0
    BY <1>0, <1>17 DEF RecordCompletion, RecordPartition
  <2>2. record'[p].status = "completed"
    BY <1>0, <2>1 DEF Records
  <2>3. QED
    BY <2>1, <2>2 DEF AgreeInv
<1>18. CASE Notified(p)
  BY <1>0, <1>18 DEF Notified, AgreeInv
<1>19. QED
  BY <1>1, <1>3, <1>4, <1>5, <1>6, <1>8, <1>9, <1>10, <1>11, <1>12, <1>13, <1>14,
     <1>15, <1>16, <1>17, <1>18 DEF Visit

-----------------------------------------------------------------------------
(* The loop invariant.                                                     *)

LoopInv == \A p \in Partitions :
  AttemptsInv(p) /\ OrderInv(p) /\ (pc # "aborted" => AgreeInv(p))

\* What a step that is not the thread's visit may do to an instance: it never begins
\* one, and what it had written stays, but for the output of a running one.
InstanceKept(i, j) ==
  /\ i.phase = "none" <=> j.phase = "none"
  /\ j.phase \in {"none", "queued", "running"} => j.wrote = "none"
  /\ i.wrote # "none" => j.wrote = i.wrote

\* No task has begun when the group starts.
LEMMA LoopInvInit == Init => LoopInv
<1> SUFFICES ASSUME Init, NEW p \in Partitions
             PROVE  AttemptsInv(p) /\ OrderInv(p) /\ AgreeInv(p)
  BY DEF LoopInv
<1>1. /\ pc = "loop" /\ cur[p] = 1 /\ task[p].status = "new" /\ part[p] = "new"
      /\ \A t \in Tasks, k \in Attempts :
           inst[p][t][k].phase = "none" /\ inst[p][t][k].wrote = "none"
      /\ \A t \in Tasks : output[p][t] = "none"
      /\ record[p].status = "running"
      /\ \A t \in Tasks : record[p].tasks[t] = IF t = 1 THEN "submitting" ELSE "pending"
  BY DEF Init, NewTask
<1>2. 1 \in Tasks /\ \A t \in Tasks : ~(t < 1) /\ (t > 1 => t # 1)
  BY GroupAssumption DEF Tasks
<1>3. AttemptsInv(p)
  BY <1>1 DEF AttemptsInv
<1>4. OrderInv(p)
  BY <1>1, <1>2 DEF OrderInv
<1>5. AgreeInv(p)
  BY <1>1, <1>2 DEF AgreeInv, EntryAgrees, Ahead, RecordedAs
<1>6. QED
  BY <1>3, <1>4, <1>5

\* A step of the thread keeps the invariant of the partitions it does not visit.
LEMMA LoopInvElsewhere ==
  ASSUME NEW q \in Partitions,
         at # q \/ pc \in {"loop", "output"},
         at' # q \/ pc' \in {"loop", "output", "done"},
         UNCHANGED <<part[q], cur[q], task[q], outputs[q], record[q], inst[q], output[q]>>,
         AttemptsInv(q), OrderInv(q), pc # "aborted" => AgreeInv(q), pc # "aborted"
  PROVE  AttemptsInv(q)' /\ OrderInv(q)' /\ AgreeInv(q)'
<1>1. AttemptsInv(q)'
  BY DEF AttemptsInv, Submitted
<1>2. OrderInv(q)'
  BY DEF OrderInv, Done
<1>3. AgreeInv(q)'
  BY DEF AgreeInv, EntryAgrees, Ahead
<1>4. QED
  BY <1>1, <1>2, <1>3

\* Nor does the visited partition's.
LEMMA LoopInvVisit ==
  ASSUME TypeInv, OutcomeInv, LoopInv, NEW p \in Partitions, Visit(p)
  PROVE  LoopInv'
<1>1. /\ at = p /\ pc \notin {"loop", "done", "aborted"}
      /\ pc' \notin {"done", "aborted"}
      /\ at' = p \/ pc' \in {"loop", "output"}
      /\ \A q \in Partitions \ {p} :
           /\ part'[q] = part[q] /\ cur'[q] = cur[q] /\ task'[q] = task[q]
           /\ outputs'[q] = outputs[q] /\ record'[q] = record[q] /\ inst'[q] = inst[q]
           /\ output'[q] = output[q]
  BY VisitIsLocal
<1>2. AttemptsInv(p)' /\ OrderInv(p)' /\ AgreeInv(p)'
  BY <1>1, AttemptsVisit, OrderVisit, AgreeVisit DEF LoopInv
<1>3. ASSUME NEW q \in Partitions \ {p}
      PROVE  AttemptsInv(q)' /\ OrderInv(q)' /\ AgreeInv(q)'
  BY <1>1, LoopInvElsewhere DEF LoopInv
<1>4. QED
  BY <1>2, <1>3 DEF LoopInv

\* Where the thread's memory and records stay, the instances may go on as they like.
LEMMA LoopInvInstances ==
  ASSUME TypeInv, LoopInv, UNCHANGED <<part, cur, task, outputs, record>>,
         \/ UNCHANGED <<pc, at>>
         \/ pc = "loop" /\ pc' \in {"output", "done"}
         \/ pc' = "aborted" /\ UNCHANGED at,
         \A p \in Partitions, t \in Tasks, k \in Attempts :
           InstanceKept(inst[p][t][k], inst'[p][t][k]),
         \A p \in Partitions, t \in Tasks :
           \/ output'[p][t] = output[p][t]
           \/ \E k \in Attempts : inst'[p][t][k].wrote = output'[p][t]
  PROVE  LoopInv'
<1> SUFFICES ASSUME NEW p \in Partitions
             PROVE  /\ AttemptsInv(p)' /\ OrderInv(p)'
                    /\ pc' # "aborted" => AgreeInv(p)'
  BY DEF LoopInv
<1>1. /\ AttemptsInv(p) /\ OrderInv(p)
      /\ pc # "aborted" => AgreeInv(p)
      /\ cur[p] # 0 => cur[p] \in Tasks
  BY VisitTypes DEF LoopInv
<1>2. \A t \in Tasks, k \in Attempts :
        /\ inst'[p][t][k].phase = "none" <=> inst[p][t][k].phase = "none"
        /\ inst'[p][t][k].phase \in {"none", "queued", "running"} => inst'[p][t][k].wrote = "none"
        /\ inst[p][t][k].wrote = "completed" => inst'[p][t][k].wrote = "completed"
  BY DEF InstanceKept
<1>3. AttemptsInv(p)'
  <2>1. UNCHANGED Submitted(p)
    BY DEF Submitted
  <2>2. QED
    BY <1>1, <1>2, <2>1 DEF AttemptsInv
<1>4. \A t : t \in Tasks => (Done(p, t) => Done(p, t)')
  BY <1>2 DEF Done
<1>5. OrderInv(p)'
  <2>1. \A t \in Tasks \ {1} : t - 1 \in Tasks
    BY GroupAssumption DEF Tasks
  <2>2. pc' = "prepare" /\ at' = p => pc = "prepare" /\ at = p /\ cur[p] \in Tasks
    BY <1>1, VisitTypes
  <2>3. QED
    BY <1>1, <1>2, <1>4, <2>1, <2>2 DEF OrderInv
<1>6. ASSUME pc' # "aborted"
      PROVE  AgreeInv(p)'
  BY <1>1, <1>6 DEF AgreeInv, EntryAgrees, Ahead
<1>7. QED
  BY <1>3, <1>5, <1>6

\* The head of the loop, an exception and the instances keep the loop invariant.
LEMMA LoopInvOther ==
  ASSUME TypeInv, LoopInv,
         \/ Head \/ ThreadRaises
         \/ \E p \in Partitions, t \in Tasks, k \in Attempts : Instance(p, t, k)
         \/ UNCHANGED vars
  PROVE  LoopInv'
<1> USE DEF Goto, counters, memory, external, EnterLoopBody
<1>0. \A p \in Partitions, t \in Tasks, k \in Attempts :
        /\ inst[p][t][k] \in Instances
        /\ InstanceKept(inst[p][t][k], inst[p][t][k])
  BY DEF TypeInv, TypeOK, LoopInv, AttemptsInv, InstanceKept
<1>1. ASSUME UNCHANGED <<part, cur, task, outputs, record, inst, output>>,
             \/ UNCHANGED <<pc, at>>
             \/ pc = "loop" /\ pc' \in {"output", "done"}
             \/ pc' = "aborted" /\ UNCHANGED at
      PROVE  LoopInv'
  <2>1. \A p \in Partitions, t \in Tasks, k \in Attempts :
          InstanceKept(inst[p][t][k], inst'[p][t][k])
    BY <1>0, <1>1
  <2>2. QED
    BY <1>1, <2>1, LoopInvInstances
<1>2. CASE SkipPoll \/ PollRunner \/ Finish \/ ThreadRaises
  BY <1>1, <1>2 DEF SkipPoll, PollRunner, Finish, ThreadRaises
<1>3. CASE PollRunnerJobFailed
  <2>1. ASSUME NEW p \in Partitions, NEW t \in Tasks, NEW k \in Attempts
        PROVE  InstanceKept(inst[p][t][k], inst'[p][t][k])
    <3>1. inst'[p][t][k] = IF Executing(inst[p][t][k])
                           THEN [inst[p][t][k] EXCEPT !.phase = "crashed"]
                           ELSE inst[p][t][k]
      BY <1>3 DEF PollRunnerJobFailed
    <3>2. \A i \in Instances : /\ [i EXCEPT !.phase = "crashed"].phase = "crashed"
                               /\ [i EXCEPT !.phase = "crashed"].wrote = i.wrote
      BY DEF Instances
    <3>3. QED
      BY <1>0, <3>1, <3>2 DEF InstanceKept, Executing
  <2>2. QED
    BY <1>3, <2>1, LoopInvInstances DEF PollRunnerJobFailed
<1>4. ASSUME NEW p \in Partitions, NEW t \in Tasks, NEW k \in Attempts, Instance(p, t, k)
      PROVE  LoopInv'
  <2>1. UNCHANGED <<pc, at, part, cur, task, outputs, record>>
    BY <1>4 DEF Instance, InstanceStarts, InstanceWritesOutput, InstanceExits,
                InstanceCrashes, UnchangedThread
  <2>2. /\ \E phase \in InstPhase, wrote \in Result : SetInst(p, t, k, phase, wrote)
        /\ InstanceKept(inst[p][t][k], inst'[p][t][k])
        /\ \/ output' = output
           \/ output' = [output EXCEPT ![p][t] = inst'[p][t][k].wrote]
    <3>1. /\ inst[p] \in [Tasks -> [Attempts -> Instances]]
          /\ inst \in [Partitions -> [Tasks -> [Attempts -> Instances]]]
          /\ inst[p][t][k].phase \in {"none", "queued", "running"} => inst[p][t][k].wrote = "none"
          /\ inst[p][t][k].wrote \in Result
      BY <1>0 DEF TypeInv, TypeOK, LoopInv, AttemptsInv, Instances
    <3>2. \A phase, wrote : SetInst(p, t, k, phase, wrote) =>
            inst'[p][t][k].phase = phase /\ inst'[p][t][k].wrote = wrote
      BY <3>1 DEF SetInst
    <3>3. CASE InstanceStarts(p, t, k)
      BY <3>1, <3>2, <3>3 DEF InstanceStarts, InstanceKept, InstPhase, Result
    <3>4. CASE InstanceWritesOutput(p, t, k)
      <4>1. PICK r \in {"completed", "failed", "wait"} :
              SetInst(p, t, k, "wrote", r) /\ output' = [output EXCEPT ![p][t] = r]
        BY <3>4 DEF InstanceWritesOutput
      <4>2. inst[p][t][k].phase = "running"
        BY <3>4 DEF InstanceWritesOutput
      <4>3. inst'[p][t][k].phase = "wrote" /\ inst'[p][t][k].wrote = r
        BY <3>2, <4>1
      <4>4. InstanceKept(inst[p][t][k], inst'[p][t][k])
        BY <3>1, <4>2, <4>3 DEF InstanceKept
      <4>5. output' = [output EXCEPT ![p][t] = inst'[p][t][k].wrote]
        BY <4>1, <4>3
      <4>6. QED
        BY <4>1, <4>4, <4>5 DEF InstPhase, Result
    <3>5. CASE InstanceExits(p, t, k)
      BY <3>1, <3>2, <3>5 DEF InstanceExits, InstanceKept, InstPhase
    <3>6. CASE InstanceCrashes(p, t, k)
      BY <3>1, <3>2, <3>6 DEF InstanceCrashes, InstanceKept, InstPhase
    <3>7. QED
      BY <1>4, <3>3, <3>4, <3>5, <3>6 DEF Instance
  <2>3. \A q \in Partitions, u \in Tasks, l \in Attempts :
          InstanceKept(inst[q][u][l], inst'[q][u][l])
    BY <1>0, <2>2 DEF SetInst, TypeInv, TypeOK
  <2>4. \A q \in Partitions, u \in Tasks :
          \/ output'[q][u] = output[q][u]
          \/ \E l \in Attempts : inst'[q][u][l].wrote = output'[q][u]
    BY <2>2 DEF TypeInv, TypeOK
  <2>5. QED
    BY <2>1, <2>3, <2>4, LoopInvInstances
<1>5. CASE UNCHANGED vars
  BY <1>1, <1>5 DEF vars
<1>6. QED
  BY <1>2, <1>3, <1>4, <1>5 DEF Head

\* The loop invariant holds throughout, whatever fails.
LEMMA LoopInvInvariant == Spec => [](TypeInv /\ OutcomeInv /\ LoopInv)
<1>1. TypeInv /\ OutcomeInv /\ LoopInv /\ [Next]_vars => LoopInv'
  BY LoopInvVisit, LoopInvOther DEF Next, Thread
<1>2. QED
  BY OutcomeInvInvariant, LoopInvInit, <1>1, PTL DEF Spec

\* A task is submitted only after the task before it has been recorded as completed,
\* its output kept and an instance of it seen to complete: for any number of partitions
\* and tasks, and whichever calls fail, time out or lose their answer.
THEOREM TasksInOrder == Spec => []TaskOrder
<1>1. TypeInv /\ LoopInv => TaskOrder
  <2> SUFFICES ASSUME TypeInv, LoopInv, NEW p \in Partitions, NEW t \in Tasks \ {1},
                      NEW k \in Attempts, inst[p][t][k].phase # "none"
               PROVE  Done(p, t - 1)
    BY DEF TaskOrder, Done
  <2>1. /\ AttemptsInv(p) /\ OrderInv(p) /\ cur[p] \in Nat
        /\ t - 1 \in Tasks
    BY VisitTypes, GroupAssumption DEF LoopInv, Tasks
  <2>2. CASE cur[p] = 0
    BY <2>1, <2>2 DEF OrderInv
  <2>3. CASE cur[p] # 0
    <3>1. ~(t > cur[p])
      BY <2>1, <2>3 DEF AttemptsInv
    <3>2. t - 1 < cur[p]
      BY <2>1, <3>1 DEF Tasks
    <3>3. QED
      BY <2>1, <3>2 DEF OrderInv
  <2>4. QED
    BY <2>2, <2>3
<1>2. QED
  BY LoopInvInvariant, <1>1, PTL

\* Between passes, the records of a group say what its thread knows: for any group and
\* under any fault, a lost answer and a task that cannot be prepared included.
THEOREM RecordsAgree == Spec => []RecordAgrees
<1>1. TypeInv /\ OutcomeInv /\ LoopInv => RecordAgrees
  <2> SUFFICES ASSUME TypeInv, OutcomeInv, LoopInv, pc = "loop", NEW p \in Partitions
               PROVE  /\ part[p] = "succeeded" <=> record[p].status = "completed"
                      /\ part[p] = "failed" => record[p].status = "failed"
                      /\ record[p].status = "failed" =>
                           part[p] = "failed" \/ (cur[p] # 0 /\ task[p].status = "failed")
                      /\ cur[p] # 0 =>
                           /\ record[p].tasks[cur[p]] \in RecordedAs(task[p].status)
                           /\ \A t \in Tasks : t < cur[p] => record[p].tasks[t] = "completed"
                           /\ \A t \in Tasks : t > cur[p] => record[p].tasks[t] =
                                IF task[p].status = "failed" THEN "cancelled" ELSE "pending"
    BY DEF RecordAgrees
  <2>1. OrderInv(p) /\ AgreeInv(p) /\ ~Ahead(p)
    BY DEF LoopInv, Ahead
  <2>2. cur[p] # 0 =>
          /\ record[p].tasks[cur[p]] \in RecordedAs(task[p].status)
          /\ record[p].tasks[cur[p]] = "failed" <=> task[p].status = "failed"
    BY <2>1 DEF AgreeInv, EntryAgrees, RecordedAs
  <2>3. QED
    BY <2>1, <2>2 DEF AgreeInv, OrderInv, Done, OutcomeInv
<1>2. QED
  BY LoopInvInvariant, <1>1, PTL

-----------------------------------------------------------------------------
(* The finality of ends, where every task can be prepared.                 *)

\* A task recorded as completed is not visited again: the thread goes straight on to
\* prepare the next one.  (A preparation that raises leaves the completed task in place.)
OnwardInv ==
  \A p \in Partitions : cur[p] # 0 /\ record[p].tasks[cur[p]] = "completed" =>
    pc = "aborted" \/ (pc = "prepare" /\ at = p)

\* What EndsAreFinal says of a partition's step.
EndsKept(p) ==
  /\ part[p] = "failed" => part'[p] = "failed"
  /\ record[p].status = "failed" => record'[p].status = "failed"
  /\ \A t \in Tasks : record[p].tasks[t] \in Terminal =>
       record'[p].tasks[t] = record[p].tasks[t]

\* What a visit leaves: no end is written over, and a completed task is left only to
\* prepare the next.
EndsVisited(p) ==
  /\ EndsKept(p)
  /\ cur'[p] # 0 /\ record'[p].tasks[cur'[p]] = "completed" => pc' = "prepare" /\ at' = p

\* A visit writes over no end of its partition.
LEMMA EndsVisitedKept ==
  ASSUME UnpreparableTasks = {}, TypeInv, OutcomeInv, LoopInv, OnwardInv,
         NEW p \in Partitions, Visit(p)
  PROVE  EndsVisited(p)
<1> USE DEF Visiting, Goto, NextPartition, memory, external
<1> DEFINE entry == record[p].tasks[cur[p]]
<1>0. /\ task \in [Partitions -> TaskStates] /\ task[p] \in TaskStates
      /\ record \in [Partitions -> Records] /\ record[p] \in Records
      /\ cur \in [Partitions -> 0..NumTasks] /\ cur[p] \in Nat /\ cur[p] <= NumTasks
      /\ cur[p] # 0 => cur[p] \in Tasks /\ part[p] # "succeeded"
      /\ part \in [Partitions -> PartStatus]
      /\ at = p => /\ pc \in {"status", "act", "submit", "submitted", "prepare"} => cur[p] # 0
                   /\ pc = "submitted" => task[p].status \in {"submitted", "failed"}
                   /\ pc = "prepare" => task[p].status = "completed"
                   /\ pc \in {"finish", "notify"} => cur[p] = 0
      /\ at = p /\ pc = "finish" => part[p] = "new"
      /\ at = p /\ pc = "notify" => part[p] = "succeeded"
  BY VisitTypes DEF OutcomeInv
<1>1. /\ at = p /\ pc \notin {"loop", "done", "aborted"}
      /\ \A q \in Partitions \ {p} :
           part'[q] = part[q] /\ cur'[q] = cur[q] /\ record'[q] = record[q]
      /\ AgreeInv(p) /\ OrderInv(p)
      /\ pc # "prepare" /\ cur[p] # 0 => entry # "completed"
  BY VisitIsLocal DEF LoopInv, OnwardInv
<1>2. ASSUME UNCHANGED <<part, record>>, cur'[p] = 0 \/ cur'[p] = cur[p], pc # "prepare" \/ cur'[p] = 0
      PROVE  EndsVisited(p)
  BY <1>1, <1>2 DEF EndsVisited, EndsKept
<1>3. CASE SkipSettled(p) \/ SkipOutput(p) \/ HoldBack(p) \/ StillActive(p)
  BY <1>1, <1>2, <1>3 DEF SkipSettled, SkipOutput, HoldBack, StillActive
<1>4. CASE ExpireWait(p) \/ ReadOutput(p) \/ ReadStatusBlob(p) \/ SkipStatusBlob(p) \/ Submit(p)
  BY <1>1, <1>2, <1>4 DEF ExpireWait, ReadOutput, ReadStatusBlob, SkipStatusBlob, Submit
\* An update of the entry of a task that has not ended, or that has failed already
<1>5. ASSUME cur[p] # 0, pc # "prepare", cur'[p] = 0 \/ cur'[p] = cur[p],
             part' = part \/ part'[p] = "failed",
             NEW s \in TaskRunStatus \ {"cancelled"}, entry = "failed" => s = "failed",
             record'[p] \in {record[p], RecordTask(record[p], cur[p], s)},
             s = "completed" => pc' = "prepare" /\ at' = p
      PROVE  EndsVisited(p)
  <2>1. entry \notin {"completed", "cancelled"}
    BY <1>1, <1>5 DEF AgreeInv, EntryAgrees, RecordedAs
  <2>2. CASE record'[p] = record[p]
    BY <1>5, <2>1, <2>2 DEF EndsVisited, EndsKept
  <2>3. CASE record'[p] = RecordTask(record[p], cur[p], s)
    <3>1. /\ record'[p].tasks[cur[p]] = s
          /\ record[p].status = "failed" => record'[p].status = "failed"
          /\ \A u \in Tasks \ {cur[p]} : record[p].tasks[u] # "pending" =>
               record'[p].tasks[u] = record[p].tasks[u]
      BY <1>0, <1>5, <2>3, RecordTaskFields
    <3>2. QED
      BY <1>5, <2>1, <3>1 DEF EndsVisited, EndsKept, Terminal
  <2>4. QED
    BY <1>5, <2>2, <2>3
<1>6. entry = "failed" /\ pc = "act" /\ cur[p] # 0 => task[p].status = "failed"
  BY <1>1 DEF AgreeInv, EntryAgrees
<1>7. CASE BeginSubmit(p) \/ RecordRunning(p) \/ Waiting(p) \/ FailPartition(p) \/ CompleteTask(p)
  BY <1>0, <1>5, <1>6, <1>7
     DEF BeginSubmit, RecordRunning, Waiting, FailPartition, CompleteTask, TaskRunStatus
<1>8. CASE RecordSubmit(p)
  <2>1. /\ cur[p] # 0 /\ pc = "submitted" /\ UNCHANGED <<cur, part>>
        /\ record'[p] = RecordTask(record[p], cur[p], task[p].status)
        /\ task[p].status \in {"submitted", "failed"}
        /\ entry = "submitting"
    BY <1>0, <1>1, <1>8 DEF RecordSubmit, AgreeInv
  <2>2. QED
    BY <1>5, <2>1 DEF TaskRunStatus
<1>9. CASE PrepareNext(p)
  <2>1. /\ cur'[p] = cur[p] + 1 /\ cur[p] # 0 /\ UNCHANGED <<part, record>>
        /\ cur[p] + 1 \in Tasks /\ cur[p] + 1 > cur[p]
    BY <1>0, <1>9, GroupAssumption DEF PrepareNext, Tasks
  <2>2. record[p].tasks[cur[p] + 1] \in {"pending", "cancelled"}
    BY <1>1, <2>1 DEF AgreeInv
  <2>3. QED
    BY <2>1, <2>2 DEF EndsVisited, EndsKept
<1>10. ~PrepareRaises(p)
  BY DEF PrepareRaises
<1>11. CASE NoNextTask(p)
  BY <1>0, <1>2, <1>11 DEF NoNextTask
<1>12. CASE RecordCompletion(p)
  <2>1. /\ record'[p] = [record[p] EXCEPT !.status = "completed"]
        /\ part[p] = "new" /\ cur[p] = 0 /\ cur'[p] = 0
    BY <1>0, <1>12 DEF RecordCompletion, RecordPartition
  <2>2. record[p].status # "failed" /\ record'[p].tasks = record[p].tasks
    BY <1>0, <1>1, <2>1 DEF AgreeInv, Records
  <2>3. QED
    BY <2>1, <2>2 DEF EndsVisited, EndsKept
<1>13. CASE CompletionRaises(p)
  <2>1. /\ record'[p] = [record[p] EXCEPT !.status = "failed"]
        /\ part'[p] = "failed" /\ cur'[p] = 0
    BY <1>0, <1>13 DEF CompletionRaises, RecordPartition
  <2>2. record'[p].status = "failed" /\ record'[p].tasks = record[p].tasks
    BY <1>0, <2>1 DEF Records
  <2>3. QED
    BY <2>1, <2>2 DEF EndsVisited, EndsKept
<1>14. CASE Notified(p)
  BY <1>1, <1>2, <1>14 DEF Notified
<1>15. QED
  BY <1>3, <1>4, <1>7, <1>8, <1>9, <1>10, <1>11, <1>12, <1>13, <1>14 DEF Visit

\* Nor of any other.
LEMMA EndsVisit ==
  ASSUME UnpreparableTasks = {}, TypeInv, OutcomeInv, LoopInv, OnwardInv,
         NEW p \in Partitions, Visit(p)
  PROVE  OnwardInv' /\ \A q \in Partitions : EndsKept(q)
<1>1. /\ at = p /\ pc # "aborted"
      /\ \A q \in Partitions \ {p} :
           part'[q] = part[q] /\ cur'[q] = cur[q] /\ record'[q] = record[q]
  BY VisitIsLocal
<1>2. ASSUME NEW q \in Partitions \ {p}
      PROVE  /\ EndsKept(q)
             /\ ~(cur'[q] # 0 /\ record'[q].tasks[cur'[q]] = "completed")
  BY <1>1 DEF EndsKept, OnwardInv
<1>3. QED
  BY <1>2, EndsVisitedKept DEF OnwardInv, EndsVisited

\* Every other step leaves the records alone.
LEMMA EndsOther ==
  ASSUME OnwardInv,
         \/ Head \/ ThreadRaises
         \/ \E p \in Partitions, t \in Tasks, k \in Attempts : Instance(p, t, k)
         \/ UNCHANGED vars
  PROVE  OnwardInv' /\ \A q \in Partitions : EndsKept(q)
<1> USE DEF Goto, counters, memory, external, EnterLoopBody
<1>1. /\ UNCHANGED <<part, cur, record>>
      /\ UNCHANGED <<pc, at>> \/ pc = "loop" \/ pc' = "aborted"
  <2>1. CASE Head
    BY <2>1 DEF Head, SkipPoll, PollRunner, PollRunnerJobFailed, Finish
  <2>2. CASE ThreadRaises
    BY <2>2 DEF ThreadRaises
  <2>3. CASE \E p \in Partitions, t \in Tasks, k \in Attempts : Instance(p, t, k)
    BY <2>3 DEF Instance, InstanceStarts, InstanceWritesOutput, InstanceExits,
                InstanceCrashes, UnchangedThread
  <2>4. CASE UNCHANGED vars
    BY <2>4 DEF vars
  <2>5. QED
    BY <2>1, <2>2, <2>3, <2>4
<1>2. QED
  BY <1>1 DEF OnwardInv, EndsKept

\* Where every task can be prepared, an end once written in a record is never written
\* over, whatever else fails.
THEOREM EndsStayFinal ==
  ASSUME UnpreparableTasks = {}
  PROVE  Spec => EndsAreFinal
<1>1. Init => OnwardInv
  <2>1. 1 \in Tasks
    BY GroupAssumption DEF Tasks
  <2>2. QED
    BY <2>1 DEF Init, OnwardInv
<1>2. TypeInv /\ OutcomeInv /\ LoopInv /\ OnwardInv /\ [Next]_vars =>
        OnwardInv' /\ \A p \in Partitions : EndsKept(p)
  BY EndsVisit, EndsOther DEF Next, Thread
<1>3. (\A p \in Partitions : EndsKept(p)) =>
        [\A p \in Partitions :
           /\ part[p] = "failed" => part'[p] = "failed"
           /\ record[p].status = "failed" => record'[p].status = "failed"
           /\ \A t \in Tasks : record[p].tasks[t] \in Terminal =>
                record'[p].tasks[t] = record[p].tasks[t]]_vars
  BY DEF EndsVisited, EndsKept
<1>4. QED
  BY LoopInvInvariant, <1>1, <1>2, <1>3, PTL DEF Spec, EndsAreFinal

-----------------------------------------------------------------------------
(* The slots.  They are accounted for where no task waits (a waiting task    *)
(* gives its slot back at every visit), no preparation raises (a completed   *)
(* task then gives it back again) and no answer to a submission is lost      *)
(* (the instance then runs without one).                                     *)

PromptTasks == WaitTasks = {} /\ UnpreparableTasks = {} /\ ~SubmitAnswerMayBeLost

Ended(i) == i.phase \in {"wrote", "exited", "crashed"}

\* Each task has one attempt; while it executes it is the current task, and the thread
\* takes it for active; what says that it ended says so truly.
SlotPart(p) ==
  /\ \A t \in Tasks : output[p][t] # "none" => Ended(inst[p][t][1]) /\ output[p][t] # "wait"
  /\ \A t \in Tasks : <<p, t>> \in runnerFailed => Ended(inst[p][t][1])
  /\ \A t \in Tasks, k \in Attempts : Executing(inst[p][t][k]) =>
       t = cur[p] /\ k = 1 /\ task[p].status \in {"submitted", "running"}
  /\ cur[p] # 0 =>
       /\ task[p].retries = 0 /\ task[p].status # "waiting"
       /\ task[p].status = "new" => ~task[p].runnerId
       /\ task[p].runnerId => task[p].submitted /\ inst[p][cur[p]][1].phase # "none"

SlotInv ==
  /\ \A p \in Partitions : SlotPart(p)
  /\ pc # "aborted" => running = Cardinality(Occupied)
  /\ running <= MaxConcurrent
  /\ pc = "aborted" => ConcurrencyRespected

\* Whether the partition's task holds a slot.
Holds(p) ==
  /\ cur[p] # 0
  /\ \/ Visiting(p, "submit")
     \/ task[p].status \notin {"new", "waiting"} /\ ~Visiting(p, "prepare")

\* No task holds a slot when the group starts.
LEMMA SlotInvInit == Init => SlotInv
<1> SUFFICES ASSUME Init PROVE SlotInv
  OBVIOUS
<1>1. Occupied = {}
  BY DEF Init, Occupied, NewTask, Visiting
<1>2. Cardinality(Occupied) = 0
  BY <1>1, FS_EmptySet
<1>3. 1 \in Attempts
  BY GroupAssumption DEF Attempts
<1>4. ASSUME NEW p \in Partitions PROVE SlotPart(p)
  BY <1>3 DEF Init, SlotPart, NewTask, Executing
<1>5. QED
  BY <1>2, <1>4, GroupAssumption DEF Init, SlotInv

\* Where no slot is over the limit and each executing instance holds one, no more than
\* max_concurrent_partition_tasks instances execute.
LEMMA SlotsBoundInstances ==
  ASSUME TypeInv, \A p \in Partitions : SlotPart(p),
         pc # "aborted", running = Cardinality(Occupied), running <= MaxConcurrent
  PROVE  ConcurrencyRespected
<1> DEFINE f == [i \in ExecutingInstances |-> i[1]]
<1>1. ASSUME NEW i \in ExecutingInstances
      PROVE  i[1] \in Occupied /\ i = <<i[1], cur[i[1]], 1>>
  <2>1. /\ i[1] \in Partitions /\ i[2] \in Tasks /\ i[3] \in Attempts /\ i = <<i[1], i[2], i[3]>>
        /\ Executing(inst[i[1]][i[2]][i[3]])
    BY DEF ExecutingInstances
  <2>2. /\ i[2] = cur[i[1]] /\ i[3] = 1
        /\ task[i[1]].status \in {"submitted", "running"}
    BY <2>1 DEF SlotPart
  <2>3. cur[i[1]] # 0
    BY <2>1, <2>2 DEF Tasks
  <2>4. ~Visiting(i[1], "prepare")
    BY <2>1, <2>2 DEF Visiting, TypeInv, PhaseOK
  <2>5. QED
    BY <2>1, <2>2, <2>3, <2>4 DEF Occupied
<1>2. f \in Injection(ExecutingInstances, Occupied)
  BY <1>1 DEF Injection, IsInjective
<1>3. IsFiniteSet(Occupied)
  BY PartitionsFinite DEF Occupied
<1>4. Cardinality(ExecutingInstances) <= Cardinality(Occupied) /\ Cardinality(Occupied) \in Nat
  BY <1>2, <1>3, FS_Injection, FS_CardinalityType
<1>5. IsFiniteSet(ExecutingInstances) /\ Cardinality(ExecutingInstances) \in Nat
  BY <1>2, <1>3, FS_Injection, FS_CardinalityType
<1>6. QED
  BY <1>4, <1>5, GroupAssumption DEF ConcurrencyRespected

\* A visit that leaves the partition's task in its slot, or without one, leaves the count;
\* one that takes a slot or gives it back changes the count by one.
LEMMA SlotsCounted ==
  ASSUME TypeInv, pc # "aborted", pc' # "aborted", running = Cardinality(Occupied),
         running <= MaxConcurrent, NEW p \in Partitions,
         \A q \in Partitions \ {p} : Holds(q)' <=> Holds(q),
         \/ (Holds(p)' <=> Holds(p)) /\ running' = running
         \/ ~Holds(p) /\ Holds(p)' /\ running' = running + 1 /\ running < MaxConcurrent
         \/ Holds(p) /\ ~Holds(p)' /\ running' = Decrement(running)
  PROVE  running' = Cardinality(Occupied)' /\ running' <= MaxConcurrent
<1>1. /\ \A q \in Partitions : q \in Occupied <=> Holds(q)
      /\ \A q \in Partitions : q \in Occupied' <=> Holds(q)'
      /\ Occupied \subseteq Partitions /\ Occupied' \subseteq Partitions
  BY DEF Occupied, Holds
<1>2. IsFiniteSet(Occupied) /\ Cardinality(Occupied) \in Nat
  BY <1>1, PartitionsFinite
<1>3. CASE (Holds(p)' <=> Holds(p)) /\ running' = running
  <2>1. Occupied' = Occupied
    BY <1>1, <1>3
  <2>2. QED
    BY <1>3, <2>1
<1>4. CASE ~Holds(p) /\ Holds(p)' /\ running' = running + 1 /\ running < MaxConcurrent
  <2>1. Occupied' = Occupied \union {p} /\ p \notin Occupied
    BY <1>1, <1>4
  <2>2. Cardinality(Occupied') = Cardinality(Occupied) + 1
    BY <1>2, <2>1, FS_AddElement
  <2>3. QED
    BY <1>2, <1>4, <2>2, GroupAssumption
<1>5. CASE Holds(p) /\ ~Holds(p)' /\ running' = Decrement(running)
  <2>1. Occupied' = Occupied \ {p} /\ p \in Occupied
    BY <1>1, <1>5
  <2>2. Cardinality(Occupied') = Cardinality(Occupied) - 1
    BY <1>2, <2>1, FS_RemoveElement
  <2>3. Cardinality(Occupied) # 0
    BY <1>2, <2>1, FS_EmptySet
  <2>4. running > -RunningFloor
    BY <1>2, <2>3, GroupAssumption
  <2>5. QED
    BY <1>2, <1>5, <2>2, <2>4, GroupAssumption DEF Decrement
<1>6. QED
  BY <1>3, <1>4, <1>5

\* What a visit does to its partition's part of the slots.
SlotVisited(p) ==
  /\ SlotPart(p)'
  /\ \/ (Holds(p)' <=> Holds(p)) /\ running' = running
     \/ ~Holds(p) /\ Holds(p)' /\ running' = running + 1 /\ running < MaxConcurrent
     \/ Holds(p) /\ ~Holds(p)' /\ running' = Decrement(running)

\* A visit takes a slot when it submits and gives it back when it has seen the end.
LEMMA SlotsVisited ==
  ASSUME PromptTasks, TypeInv, LoopInv, NEW p \in Partitions, SlotPart(p), Visit(p)
  PROVE  SlotVisited(p)
<1> USE DEF Visiting, Goto, NextPartition, memory, external, counters, Holds
<1>0. /\ task \in [Partitions -> TaskStates] /\ task[p] \in TaskStates
      /\ cur \in [Partitions -> 0..NumTasks] /\ cur[p] \in Nat
      /\ cur[p] # 0 => cur[p] \in Tasks
      /\ inst[p] \in [Tasks -> [Attempts -> Instances]]
      /\ at = p => /\ pc \in {"status", "act", "submit", "submitted", "prepare"} => cur[p] # 0
                   /\ pc = "submit" => task[p].status = "new"
                   /\ pc = "submitted" => task[p].status \in {"submitted", "failed"}
                   /\ pc = "prepare" => task[p].status = "completed"
                   /\ pc \in {"finish", "notify"} => cur[p] = 0
      /\ UNCHANGED <<output, runnerFailed>>
      /\ 1 \in Attempts
  BY VisitTypes, VisitIsLocal, GroupAssumption DEF Attempts
\* Nothing of a new task has ended, or executes.
<1>1. cur[p] # 0 /\ task[p].status = "new" =>
        /\ inst[p][cur[p]][1].phase = "none"
        /\ output[p][cur[p]] = "none" /\ <<p, cur[p]>> \notin runnerFailed
  <2>1. SUFFICES ASSUME cur[p] # 0, task[p].status = "new"
                 PROVE  inst[p][cur[p]][1].phase = "none"
    BY <1>0 DEF SlotPart, Ended
  <2>2. cur[p] \in Tasks /\ 1 > Submitted(p)
    BY <1>0, <2>1 DEF SlotPart, Submitted
  <2>3. QED
    BY <1>0, <2>1, <2>2 DEF LoopInv, AttemptsInv
<1>2. CASE SkipSettled(p) \/ SkipOutput(p) \/ HoldBack(p) \/ StillActive(p)
  BY <1>0, <1>2 DEF SkipSettled, SkipOutput, HoldBack, StillActive, SlotPart, SlotVisited
\* A look at the blobs or at the runner's list
<1>3. ASSUME cur[p] # 0, UNCHANGED <<cur, inst, running>>, at = p, at' = p,
             pc \in {"output", "status"}, pc' \in {"status", "act"},
             task'[p].retries = 0, task'[p].runnerId = task[p].runnerId,
             task'[p].submitted = task[p].submitted,
             \/ task'[p].status = task[p].status
             \/ task[p].status # "new" /\ task'[p].status \notin {"new", "waiting"}
                /\ (task'[p].status \in {"submitted", "running"} \/ Ended(inst[p][cur[p]][1]))
      PROVE  SlotVisited(p)
  <2>1. task[p].status # "waiting"
    BY <1>3 DEF SlotPart
  <2>2. Holds(p)' <=> Holds(p)
    BY <1>3, <2>1
  <2>3. SlotPart(p)'
    BY <1>0, <1>3 DEF SlotPart, Ended, Executing
  <2>4. QED
    BY <1>3, <2>2, <2>3 DEF SlotVisited
<1>4. ~ExpireWait(p)
  BY DEF ExpireWait, SlotPart
<1>5. CASE ReadOutput(p)
  <2>1. /\ task'[p] = AfterOutput(task[p], output[p][cur[p]]) /\ cur[p] # 0 /\ cur[p] \in Tasks
        /\ output[p][cur[p]] \in Result /\ task[p].status \in {"submitted", "running"}
    BY <1>0, <1>5 DEF ReadOutput, TypeInv, TypeOK, IsActive
  <2>2. /\ output[p][cur[p]] # "wait" /\ task[p].retries = 0
        /\ output[p][cur[p]] # "none" => Ended(inst[p][cur[p]][1])
    BY <2>1 DEF SlotPart
  <2>3. \/ task'[p] = task[p]
        \/ /\ task'[p] \in {ChangeStatus(task[p], "completed"), SetFailed(task[p])}
           /\ Ended(inst[p][cur[p]][1])
    BY <1>0, <2>1, <2>2, AfterOutputFields
  <2>4. QED
    BY <1>0, <1>3, <1>5, <2>1, <2>2, <2>3, TaskOpsFields DEF ReadOutput
<1>6. <<p, cur[p]>> \in runnerFailed /\ cur[p] # 0 =>
        Ended(inst[p][cur[p]][1]) /\ task[p].status # "new"
  BY <1>0, <1>1 DEF SlotPart
<1>7. CASE ReadStatusBlob(p)
  <2> DEFINE found == AfterRunnerPoll(AfterStatusBlob(task[p], blob[p][cur[p]]),
                                      <<p, cur[p]>> \in runnerFailed)
  <2>1. task'[p] = found /\ cur[p] # 0 /\ task[p].status \in {"submitted", "running"}
    BY <1>0, <1>7 DEF ReadStatusBlob, IsActive
  <2>2. task[p].retries = 0
    BY <2>1 DEF SlotPart
  <2>3. \/ found \in {task[p], ChangeStatus(task[p], "running")}
        \/ /\ found \in {SetFailed(task[p]), SetFailed(ChangeStatus(task[p], "running"))}
           /\ <<p, cur[p]>> \in runnerFailed
    BY DEF AfterRunnerPoll, AfterStatusBlob
  <2>4. ChangeStatus(task[p], "running") \in TaskStates
    BY <1>0 DEF ChangeStatus, TaskStates, TaskStatus
  <2> HIDE DEF found
  <2>5. /\ task'[p].retries = 0 /\ task'[p].runnerId = task[p].runnerId
        /\ task'[p].submitted = task[p].submitted
        /\ task'[p].status \in {"submitted", "running", "failed"}
        /\ task'[p].status = "failed" => <<p, cur[p]>> \in runnerFailed
    BY <1>0, <2>1, <2>2, <2>3, <2>4, TaskOpsFields
  <2>6. QED
    BY <1>3, <1>6, <1>7, <2>1, <2>5 DEF ReadStatusBlob
<1>8. CASE SkipStatusBlob(p)
  <2>1. /\ cur[p] # 0 /\ task[p].retries = 0
        /\ task'[p] = IF <<p, cur[p]>> \in runnerFailed THEN SetFailed(task[p]) ELSE task[p]
    BY <1>0, <1>8 DEF SkipStatusBlob, AfterRunnerPoll, SlotPart
  <2>2. QED
    BY <1>0, <1>3, <1>6, <1>8, <2>1, TaskOpsFields DEF SkipStatusBlob
<1>9. CASE BeginSubmit(p)
  <2>1. /\ running' = running + 1 /\ running < MaxConcurrent /\ UNCHANGED <<cur, task, inst>>
        /\ pc = "act" /\ pc' = "submit" /\ at = p /\ at' = p /\ task[p].status = "new" /\ cur[p] # 0
    BY <1>0, <1>9 DEF BeginSubmit
  <2>2. SlotPart(p)'
    BY <1>0, <2>1 DEF SlotPart
  <2>3. ~Holds(p) /\ Holds(p)'
    BY <2>1
  <2>4. QED
    BY <2>1, <2>2, <2>3 DEF SlotVisited
<1>10. CASE Submit(p)
  <2>1. /\ cur[p] # 0 /\ cur[p] \in Tasks /\ task[p].status = "new" /\ task[p].retries = 0
        /\ ~task[p].runnerId
        /\ pc = "submit" /\ pc' = "submitted" /\ at = p /\ at' = p
        /\ UNCHANGED <<cur, running>>
    BY <1>0, <1>10 DEF Submit, SlotPart
  <2>2. /\ \A t \in Tasks, k \in Attempts :
              t # cur[p] \/ k # 1 => inst'[p][t][k] = inst[p][t][k]
        /\ \/ task'[p] = SetSubmitFailed(task[p]) /\ inst' = inst
           \/ /\ task'[p] = SetSubmitted(task[p])
              /\ inst'[p][cur[p]][1].phase = "queued"
    BY <1>10, <2>1, SubmitQueues DEF PromptTasks
  <2>3. /\ task'[p].retries = 0 /\ task'[p].status \in {"submitted", "failed"}
        /\ task'[p].runnerId => task'[p].submitted /\ inst'[p][cur[p]][1].phase = "queued"
        /\ inst'[p][cur[p]][1].phase # "none" => task'[p].status = "submitted"
    BY <1>0, <1>1, <2>1, <2>2, TaskOpsFields
  <2>4. \A t \in Tasks : output[p][t] # "none" \/ <<p, t>> \in runnerFailed => t # cur[p]
    BY <1>1, <2>1
  <2>5. SlotPart(p)'
    <3>1. \A t \in Tasks : t # cur[p] => inst'[p][t][1] = inst[p][t][1]
      BY <1>0, <2>2
    <3>2. \A t \in Tasks, k \in Attempts : Executing(inst'[p][t][k]) =>
            t = cur[p] /\ k = 1 /\ task'[p].status = "submitted"
      <4>1. ASSUME NEW t \in Tasks, NEW k \in Attempts, Executing(inst'[p][t][k])
            PROVE  t = cur[p] /\ k = 1
        BY <1>1, <2>1, <2>2, <4>1 DEF SlotPart
      <4>2. QED
        BY <2>3, <4>1 DEF Executing
    <3>3. QED
      BY <1>0, <2>1, <2>3, <2>4, <3>1, <3>2 DEF SlotPart
  <2>6. Holds(p) /\ Holds(p)'
    BY <2>1, <2>3
  <2>7. QED
    BY <2>1, <2>5, <2>6 DEF SlotVisited
<1>11. CASE RecordSubmit(p)
  <2>1. SlotPart(p)'
    BY <1>0, <1>11 DEF RecordSubmit, SlotPart
  <2>2. QED
    BY <1>0, <1>11, <2>1 DEF RecordSubmit, SlotVisited
<1>12. CASE RecordRunning(p)
  <2>1. /\ UNCHANGED <<cur, inst, running>> /\ pc = "act" /\ pc' \in {"loop", "output"}
        /\ task'[p] = [task[p] EXCEPT !.updated = TRUE]
    BY <1>0, <1>12 DEF RecordRunning
  <2>2. /\ task'[p].status = task[p].status /\ task'[p].retries = task[p].retries
        /\ task'[p].runnerId = task[p].runnerId /\ task'[p].submitted = task[p].submitted
    BY <1>0, <2>1 DEF TaskStates
  <2>3. SlotPart(p)'
    BY <1>0, <2>1, <2>2 DEF SlotPart
  <2>4. QED
    BY <2>1, <2>2, <2>3 DEF SlotVisited
<1>13. ~Waiting(p)
  BY <1>0 DEF Waiting, SlotPart
\* The end of a task, after which nothing of the partition executes
<1>14. ASSUME cur[p] # 0, task[p].status \in {"completed", "failed"}, UNCHANGED inst,
              \/ cur'[p] = 0
              \/ UNCHANGED <<cur, task>>
              \/ cur'[p] = cur[p] + 1 /\ task'[p] = NewTask
       PROVE  SlotPart(p)'
  <2>1. \A t \in Tasks, k \in Attempts : ~Executing(inst'[p][t][k])
    BY <1>14 DEF SlotPart
  <2>2. CASE cur'[p] = 0
    BY <1>0, <1>14, <2>1, <2>2 DEF SlotPart
  <2>3. CASE UNCHANGED <<cur, task>>
    BY <1>0, <1>14, <2>1, <2>3 DEF SlotPart
  <2>4. CASE cur'[p] = cur[p] + 1 /\ task'[p] = NewTask
    BY <1>0, <1>14, <2>1, <2>4, TaskOpsFields DEF SlotPart
  <2>5. QED
    BY <1>14, <2>2, <2>3, <2>4
<1>15. CASE FailPartition(p)
  <2>1. /\ cur[p] # 0 /\ cur'[p] = 0 /\ task[p].status = "failed" /\ UNCHANGED inst
        /\ running' = Decrement(running) /\ pc = "act"
    BY <1>0, <1>15 DEF FailPartition
  <2>2. QED
    BY <1>14, <2>1 DEF SlotVisited
<1>16. CASE CompleteTask(p)
  <2>1. /\ cur[p] # 0 /\ UNCHANGED <<cur, task, inst>> /\ task[p].status = "completed"
        /\ running' = Decrement(running) /\ pc = "act" /\ pc' = "prepare" /\ at = p /\ at' = p
    BY <1>0, <1>16 DEF CompleteTask
  <2>2. QED
    BY <1>14, <2>1 DEF SlotVisited
<1>17. CASE PrepareNext(p)
  <2>1. /\ cur[p] # 0 /\ cur'[p] = cur[p] + 1 /\ task'[p] = NewTask /\ UNCHANGED <<inst, running>>
        /\ task[p].status = "completed" /\ pc = "prepare" /\ at = p /\ pc' \in {"loop", "output"}
    BY <1>0, <1>17 DEF PrepareNext
  <2>2. task'[p].status = "new"
    BY <1>0, <2>1, TaskOpsFields
  <2>3. QED
    BY <1>14, <2>1, <2>2 DEF SlotVisited
<1>18. ~PrepareRaises(p)
  BY DEF PrepareRaises, PromptTasks
<1>19. CASE NoNextTask(p)
  <2>1. /\ cur[p] # 0 /\ cur'[p] = 0 /\ UNCHANGED <<inst, running>>
        /\ task[p].status = "completed" /\ pc = "prepare" /\ at = p
    BY <1>0, <1>19 DEF NoNextTask
  <2>2. QED
    BY <1>14, <2>1 DEF SlotVisited
<1>20. CASE RecordCompletion(p) \/ Notified(p) \/ CompletionRaises(p)
  <2>1. cur[p] = 0 /\ UNCHANGED <<cur, task, inst, running>>
    BY <1>0, <1>20 DEF RecordCompletion, Notified, CompletionRaises
  <2>2. SlotPart(p)'
    BY <1>0, <2>1 DEF SlotPart
  <2>3. QED
    BY <2>1, <2>2 DEF SlotVisited
<1>21. QED
  BY <1>2, <1>4, <1>5, <1>7, <1>8, <1>9, <1>10, <1>11, <1>12, <1>13, <1>15, <1>16, <1>17,
     <1>18, <1>19, <1>20 DEF Visit

\* A visit keeps the slots accounted for.
LEMMA SlotInvVisit ==
  ASSUME PromptTasks, TypeInv, LoopInv, SlotInv, NEW p \in Partitions, Visit(p)
  PROVE  SlotInv'
<1>1. /\ at = p /\ pc \notin {"loop", "done", "aborted"}
      /\ pc' \notin {"done", "aborted"}
      /\ at' = p \/ pc' \in {"loop", "output"}
      /\ UNCHANGED <<output, runnerFailed>>
      /\ \A q \in Partitions \ {p} :
           /\ cur'[q] = cur[q] /\ task'[q] = task[q] /\ inst'[q] = inst[q]
  BY VisitIsLocal
<1>2. SlotVisited(p)
  BY SlotsVisited DEF SlotInv
<1>3. ASSUME NEW q \in Partitions \ {p}
      PROVE  SlotPart(q)' /\ (Holds(q)' <=> Holds(q))
  <2>1. SlotPart(q)
    BY DEF SlotInv
  <2>2. SlotPart(q)'
    BY <1>1, <2>1 DEF SlotPart
  <2>3. Holds(q)' <=> Holds(q)
    BY <1>1 DEF Holds, Visiting
  <2>4. QED
    BY <2>2, <2>3
<1>4. \A q \in Partitions : SlotPart(q)'
  BY <1>2, <1>3 DEF SlotVisited
<1>5. running' = Cardinality(Occupied)' /\ running' <= MaxConcurrent
  BY <1>1, <1>2, <1>3, SlotsCounted DEF SlotVisited, SlotInv
<1>6. QED
  BY <1>1, <1>4, <1>5 DEF SlotInv

\* Executing instances only become fewer where none is queued.
LEMMA FewerInstances ==
  ASSUME ConcurrencyRespected,
         \A p \in Partitions, t \in Tasks, k \in Attempts :
           Executing(inst'[p][t][k]) => Executing(inst[p][t][k])
  PROVE  ConcurrencyRespected'
<1>1. ExecutingInstances' \in SUBSET ExecutingInstances
  BY DEF ExecutingInstances
<1>2. IsFiniteSet(Partitions \X (Tasks \X Attempts))
  <2>1. IsFiniteSet(Partitions) /\ IsFiniteSet(Tasks) /\ IsFiniteSet(Attempts)
    BY FS_Interval, GroupAssumption DEF Partitions, Tasks, Attempts
  <2>2. IsFiniteSet(Tasks \X Attempts)
    BY <2>1, FS_Product
  <2>3. QED
    BY <2>1, <2>2, FS_Product
<1>3. IsFiniteSet(ExecutingInstances)
  <2> DEFINE S == Partitions \X (Tasks \X Attempts)
             f == [i \in ExecutingInstances |-> <<i[1], <<i[2], i[3]>>>>]
  <2>1. \A i \in ExecutingInstances : f[i] \in S /\ i = <<i[1], i[2], i[3]>>
    BY DEF ExecutingInstances
  <2>2. f \in Injection(ExecutingInstances, S)
    <3>1. f \in [ExecutingInstances -> S]
      BY <2>1
    <3>2. ASSUME NEW a \in ExecutingInstances, NEW b \in ExecutingInstances, f[a] = f[b]
          PROVE  a = b
      BY <2>1, <3>2
    <3>3. QED
      BY <3>1, <3>2 DEF Injection, IsInjective
  <2>3. QED
    BY <1>2, <2>2, FS_Injection
<1>4. /\ Cardinality(ExecutingInstances') <= Cardinality(ExecutingInstances)
      /\ IsFiniteSet(ExecutingInstances')
  BY <1>1, <1>3, FS_Subset
<1>5. Cardinality(ExecutingInstances') \in Nat /\ Cardinality(ExecutingInstances) \in Nat
  BY <1>3, <1>4, FS_CardinalityType
<1>6. QED
  BY <1>4, <1>5, GroupAssumption DEF ConcurrencyRespected

\* The thread's head, an exception and the instances take and give back no slot; the
\* runner reports what has ended, and instances go on to their end.
LEMMA SlotInvOther ==
  ASSUME PromptTasks, TypeInv, LoopInv, SlotInv,
         \/ Head \/ ThreadRaises
         \/ \E p \in Partitions, t \in Tasks, k \in Attempts : Instance(p, t, k)
         \/ UNCHANGED vars
  PROVE  SlotInv'
<1> USE DEF Goto, counters, memory, external, EnterLoopBody
<1>0. /\ \A p \in Partitions : SlotPart(p) /\ AttemptsInv(p)
      /\ inst \in [Partitions -> [Tasks -> [Attempts -> Instances]]]
      /\ \A p \in Partitions, t \in Tasks, k \in Attempts : inst[p][t][k] \in Instances
      /\ \A p \in Partitions : cur[p] # 0 => cur[p] \in Tasks
      /\ 1 \in Attempts
  BY VisitTypes, GroupAssumption DEF TypeInv, TypeOK, LoopInv, SlotInv, Attempts
<1>1. ASSUME UNCHANGED <<running, cur, task>>,
             \/ UNCHANGED <<pc, at>>
             \/ pc = "loop" /\ pc' \in {"output", "done"}
             \/ pc' = "aborted" /\ pc # "aborted",
             \A p \in Partitions : SlotPart(p)',
             \A p \in Partitions, t \in Tasks, k \in Attempts :
               Executing(inst'[p][t][k]) => Executing(inst[p][t][k])
      PROVE  SlotInv'
  <2>1. pc # "aborted" => ConcurrencyRespected
    BY SlotsBoundInstances DEF SlotInv
  <2>2. ConcurrencyRespected'
    BY <1>1, <2>1, FewerInstances DEF SlotInv
  <2>3. pc' # "aborted" => Occupied' = Occupied
    BY <1>1 DEF Occupied, Visiting
  <2>4. QED
    BY <1>1, <2>2, <2>3 DEF SlotInv
<1>2. ASSUME UNCHANGED <<cur, task, inst, output>>,
             \A p \in Partitions, t \in Tasks : <<p, t>> \in runnerFailed' =>
               <<p, t>> \in runnerFailed \/ Ended(inst[p][t][1])
      PROVE  \A p \in Partitions : SlotPart(p)'
  BY <1>0, <1>2 DEF SlotPart
<1>3. CASE SkipPoll \/ Finish \/ ThreadRaises
  <2>1. /\ UNCHANGED <<running, cur, task, inst, output, runnerFailed>>
        /\ \/ pc = "loop" /\ pc' \in {"output", "done"}
           \/ pc' = "aborted" /\ pc # "aborted"
    BY <1>3 DEF SkipPoll, Finish, ThreadRaises
  <2>2. \A p \in Partitions : SlotPart(p)'
    BY <1>2, <2>1
  <2>3. QED
    BY <1>1, <2>1, <2>2
<1>4. CASE PollRunner
  <2>1. /\ UNCHANGED <<running, cur, task, inst, output>> /\ pc = "loop" /\ pc' = "output"
        /\ runnerFailed' = {<<q, cur[q]>> : q \in
             {r \in CurrentTasks : inst[r][cur[r]][LastAttempt(r)].phase = "crashed"}}
    BY <1>4 DEF PollRunner
  <2>2. ASSUME NEW q \in CurrentTasks, inst[q][cur[q]][LastAttempt(q)].phase = "crashed"
        PROVE  Ended(inst[q][cur[q]][1])
    <3>1. LastAttempt(q) = 1
      BY <1>0 DEF CurrentTasks, LastAttempt, SlotPart
    <3>2. QED
      BY <2>2, <3>1 DEF Ended
  <2>3. \A p \in Partitions : SlotPart(p)'
    BY <1>2, <2>1, <2>2
  <2>4. QED
    BY <1>1, <2>1, <2>3
<1>5. CASE PollRunnerJobFailed
  <2>1. /\ UNCHANGED <<running, cur, task, output>> /\ pc = "loop" /\ pc' = "output"
        /\ runnerFailed' = {<<q, cur[q]>> : q \in CurrentTasks}
        /\ \A p \in Partitions, t \in Tasks, k \in Attempts : inst'[p][t][k] =
             IF Executing(inst[p][t][k]) THEN [inst[p][t][k] EXCEPT !.phase = "crashed"]
                                         ELSE inst[p][t][k]
    BY <1>5 DEF PollRunnerJobFailed
  <2>2. \A i \in Instances : [i EXCEPT !.phase = "crashed"].phase = "crashed"
    BY DEF Instances
  <2>3. ASSUME NEW p \in Partitions, NEW t \in Tasks, NEW k \in Attempts
        PROVE  /\ ~Executing(inst'[p][t][k])
               /\ inst[p][t][k].phase # "none" => Ended(inst'[p][t][k])
    <3>1. inst[p][t][k] \in Instances /\ inst[p][t][k].phase \in InstPhase
      BY <1>0 DEF Instances
    <3>2. CASE Executing(inst[p][t][k])
      <4>1. inst'[p][t][k] = [inst[p][t][k] EXCEPT !.phase = "crashed"]
        BY <2>1, <3>2
      <4>2. inst'[p][t][k].phase = "crashed"
        BY <2>2, <3>1, <4>1
      <4>3. QED
        BY <4>2 DEF Executing, Ended
    <3>3. CASE ~Executing(inst[p][t][k])
      <4>1. inst'[p][t][k] = inst[p][t][k]
        BY <2>1, <3>3
      <4>2. QED
        BY <3>1, <3>3, <4>1 DEF Executing, Ended, InstPhase
    <3>4. QED
      BY <3>2, <3>3
  <2>4. ASSUME NEW q \in CurrentTasks
        PROVE  inst[q][cur[q]][1].phase # "none" /\ cur[q] \in Tasks
    <3>1. q \in Partitions /\ cur[q] # 0 /\ task[q].runnerId
      BY DEF CurrentTasks
    <3>2. SlotPart(q)
      BY <1>0, <3>1
    <3>3. QED
      BY <1>0, <3>1, <3>2 DEF SlotPart
  <2>5. ASSUME NEW p \in Partitions
        PROVE  SlotPart(p)'
    <3>1. \A t \in Tasks : <<p, t>> \in runnerFailed' => Ended(inst'[p][t][1])
      BY <1>0, <2>1, <2>3, <2>4 DEF CurrentTasks
    <3>2. \A t \in Tasks : output[p][t] # "none" => Ended(inst'[p][t][1]) /\ output[p][t] # "wait"
      BY <1>0, <2>3 DEF SlotPart, Ended
    <3>3. cur[p] # 0 /\ task[p].runnerId => inst'[p][cur[p]][1].phase # "none"
      <4>1. SlotPart(p) /\ 1 \in Attempts /\ (cur[p] # 0 => cur[p] \in Tasks)
        BY <1>0
      <4>2. cur[p] # 0 /\ task[p].runnerId => inst[p][cur[p]][1].phase # "none"
        BY <4>1 DEF SlotPart
      <4>3. \A t \in Tasks : inst[p][t][1].phase # "none" => inst'[p][t][1].phase # "none"
        BY <2>3, <4>1 DEF Ended
      <4>4. QED
        BY <4>1, <4>2, <4>3
    <3>4. QED
      BY <1>0, <2>1, <2>3, <3>1, <3>2, <3>3 DEF SlotPart
  <2>6. \A p \in Partitions, t \in Tasks, k \in Attempts :
          Executing(inst'[p][t][k]) => Executing(inst[p][t][k])
    BY <2>3
  <2>7. \A p \in Partitions : SlotPart(p)'
    BY <2>5
  <2>8. UNCHANGED <<running, cur, task>> /\ pc = "loop" /\ pc' \in {"output", "done"}
    BY <2>1
  <2>9. QED
    BY <1>1, <2>6, <2>7, <2>8
<1>6. ASSUME NEW p \in Partitions, NEW t \in Tasks, NEW k \in Attempts, Instance(p, t, k)
      PROVE  SlotInv'
  <2>1. UNCHANGED <<pc, at, running, cur, task, runnerFailed>>
    BY <1>6 DEF Instance, InstanceStarts, InstanceWritesOutput, InstanceExits,
                InstanceCrashes, UnchangedThread
  <2>2. /\ \E phase, wrote : SetInst(p, t, k, phase, wrote)
        /\ Executing(inst'[p][t][k]) => Executing(inst[p][t][k])
        /\ Ended(inst[p][t][k]) => Ended(inst'[p][t][k])
        /\ inst'[p][t][k].phase # "none"
        /\ \/ output' = output
           \/ /\ k = 1 /\ Ended(inst'[p][t][k])
              /\ \E r \in {"completed", "failed"} : output' = [output EXCEPT ![p][t] = r]
    <3>1. \A phase, wrote : SetInst(p, t, k, phase, wrote) =>
            inst'[p][t][k].phase = phase /\ inst'[p][t][k].wrote = wrote
      BY <1>0 DEF SetInst
    <3>2. Executing(inst[p][t][k]) => k = 1
      BY <1>0 DEF SlotPart
    <3>3. CASE InstanceStarts(p, t, k)
      BY <3>1, <3>3 DEF InstanceStarts, Executing, Ended
    <3>4. CASE InstanceWritesOutput(p, t, k)
      <4>1. PICK r \in {"completed", "failed"} :
              SetInst(p, t, k, "wrote", r) /\ output' = [output EXCEPT ![p][t] = r]
        BY <3>4 DEF InstanceWritesOutput, PromptTasks
      <4>2. inst[p][t][k].phase = "running"
        BY <3>4 DEF InstanceWritesOutput
      <4>3. inst'[p][t][k].phase = "wrote"
        BY <3>1, <4>1
      <4>4. QED
        BY <3>2, <4>1, <4>2, <4>3 DEF Executing, Ended
    <3>5. CASE InstanceExits(p, t, k)
      BY <3>1, <3>5 DEF InstanceExits, Executing, Ended
    <3>6. CASE InstanceCrashes(p, t, k)
      BY <3>1, <3>6 DEF InstanceCrashes, Executing, Ended
    <3>7. QED
      BY <1>6, <3>3, <3>4, <3>5, <3>6 DEF Instance
  <2>3. \A q \in Partitions, u \in Tasks, l \in Attempts :
          \/ inst'[q][u][l] = inst[q][u][l]
          \/ q = p /\ u = t /\ l = k
    BY <1>0, <2>2 DEF SetInst
  <2>4. \A q \in Partitions, u \in Tasks, l \in Attempts :
          /\ Executing(inst'[q][u][l]) => Executing(inst[q][u][l])
          /\ Ended(inst[q][u][l]) => Ended(inst'[q][u][l])
          /\ inst[q][u][l].phase # "none" => inst'[q][u][l].phase # "none"
    BY <2>2, <2>3
  <2>5. \A q \in Partitions, u \in Tasks :
          \/ output'[q][u] = output[q][u]
          \/ output'[q][u] \in {"completed", "failed"} /\ Ended(inst'[q][u][1])
    <3>1. output \in [Partitions -> [Tasks -> Result]]
      BY DEF TypeInv, TypeOK
    <3>2. CASE output' = output
      BY <3>2
    <3>3. ASSUME k = 1, Ended(inst'[p][t][k]), NEW r \in {"completed", "failed"},
                 output' = [output EXCEPT ![p][t] = r]
          PROVE  \A q \in Partitions, u \in Tasks :
                   \/ output'[q][u] = output[q][u]
                   \/ output'[q][u] \in {"completed", "failed"} /\ Ended(inst'[q][u][1])
      BY <3>1, <3>3
    <3>4. QED
      BY <2>2, <3>2, <3>3
  <2>6. ASSUME NEW q \in Partitions
        PROVE  SlotPart(q)'
    <3>1. SlotPart(q) /\ 1 \in Attempts /\ (cur[q] # 0 => cur[q] \in Tasks)
      BY <1>0
    <3>2. \A u \in Tasks : output'[q][u] # "none" => Ended(inst'[q][u][1]) /\ output'[q][u] # "wait"
      BY <2>4, <2>5, <3>1 DEF SlotPart
    <3>3. QED
      BY <2>1, <2>4, <3>1, <3>2 DEF SlotPart
  <2>7. QED
    BY <1>1, <2>1, <2>4, <2>6
<1>7. CASE UNCHANGED vars
  <2>1. /\ UNCHANGED <<pc, at, running, cur, task, inst, output, runnerFailed>>
    BY <1>7 DEF vars
  <2>2. \A p \in Partitions : SlotPart(p)'
    BY <1>2, <2>1
  <2>3. QED
    BY <1>1, <2>1, <2>2
<1>8. QED
  BY <1>3, <1>4, <1>5, <1>6, <1>7 DEF Head

\* The slots are accounted for throughout.
LEMMA SlotInvInvariant ==
  ASSUME PromptTasks
  PROVE  Spec => []SlotInv
<1>1. TypeInv /\ LoopInv /\ SlotInv /\ [Next]_vars => SlotInv'
  BY SlotInvVisit, SlotInvOther DEF Next, Thread
<1>2. QED
  BY LoopInvInvariant, SlotInvInit, <1>1, PTL DEF Spec

\* A group never has more than max_concurrent_partition_tasks instances queued or running,
\* whatever its size and limit: when the runner loses them all, tasks fail or the thread
\* ends early too.
THEOREM LimitRespected ==
  ASSUME PromptTasks
  PROVE  Spec => []ConcurrencyRespected
<1>1. TypeInv /\ SlotInv => ConcurrencyRespected
  BY SlotsBoundInstances DEF SlotInv
<1>2. QED
  BY LoopInvInvariant, SlotInvInvariant, <1>1, PTL

\* Under the same hypotheses the count is exact at every point of the loop.
THEOREM CountIsExact ==
  ASSUME PromptTasks
  PROVE  Spec => []SlotsAccounted
<1>1. SlotInv => SlotsAccounted
  BY DEF SlotInv, SlotsAccounted
<1>2. QED
  BY SlotInvInvariant, <1>1, PTL

-----------------------------------------------------------------------------
(* The end of the loop.                                                    *)

\* The partitions that one of the two counters has counted.
Settled(p) == cur[p] = 0 /\ ~(at = p /\ pc \in {"finish", "notify"})
SettledPartitions == {p \in Partitions : Settled(p)}

\* Each settled partition has been counted once, and none with a task has.
CountInv ==
  /\ pc # "aborted" => completed + failed = Cardinality(SettledPartitions)
  /\ pc # "aborted" => \A p \in Partitions :
       /\ Settled(p) => part[p] # "new"
       /\ cur[p] # 0 => part[p] = "new"
  /\ pc = "done" => JobsLeft <= 0

\* A visit settles its partition when it counts it.
LEMMA CountInvVisit ==
  ASSUME PromptTasks, ~CompletionMayRaise, TypeInv, OutcomeInv, CountInv,
         NEW p \in Partitions, Visit(p)
  PROVE  CountInv'
<1> USE DEF Visiting, Goto, NextPartition, memory, external, counters
<1>0. /\ task \in [Partitions -> TaskStates]
      /\ cur \in [Partitions -> 0..NumTasks] /\ cur[p] \in Nat
      /\ part \in [Partitions -> PartStatus]
      /\ at = p => /\ pc \in {"status", "act", "submit", "submitted", "prepare"} => cur[p] # 0
                   /\ pc \in {"finish", "notify"} => cur[p] = 0
      /\ at = p /\ pc = "finish" => part[p] = "new"
      /\ at = p /\ pc = "notify" => part[p] = "succeeded"
      /\ completed \in Nat /\ failed \in Nat
  BY VisitTypes DEF TypeInv, TypeOK, OutcomeInv
<1>1. /\ at = p /\ pc \notin {"loop", "done", "aborted"}
      /\ pc' \notin {"done", "aborted"}
      /\ at' = p \/ pc' \in {"loop", "output"}
      /\ \A q \in Partitions \ {p} : cur'[q] = cur[q] /\ part'[q] = part[q]
  BY VisitIsLocal
<1>2. \A q \in Partitions \ {p} : Settled(q)' <=> Settled(q)
  BY <1>1 DEF Settled
<1>3. IsFiniteSet(SettledPartitions) /\ Cardinality(SettledPartitions) \in Nat
  BY PartitionsFinite DEF SettledPartitions
<1>4. SUFFICES /\ \/ (Settled(p)' <=> Settled(p)) /\ UNCHANGED <<completed, failed>>
                  \/ ~Settled(p) /\ Settled(p)' /\ completed' + failed' = completed + failed + 1
               /\ Settled(p)' => part'[p] # "new"
               /\ cur'[p] # 0 => part'[p] = "new"
  <2>1. ASSUME Settled(p)' <=> Settled(p), UNCHANGED <<completed, failed>>
        PROVE  completed' + failed' = Cardinality(SettledPartitions)'
    <3>1. SettledPartitions' = SettledPartitions
      BY <1>2, <2>1 DEF SettledPartitions
    <3>2. QED
      BY <1>1, <2>1, <3>1 DEF CountInv
  <2>2. ASSUME ~Settled(p), Settled(p)', completed' + failed' = completed + failed + 1
        PROVE  completed' + failed' = Cardinality(SettledPartitions)'
    <3>1. SettledPartitions' = SettledPartitions \union {p} /\ p \notin SettledPartitions
      BY <1>2, <2>2 DEF SettledPartitions
    <3>2. Cardinality(SettledPartitions') = Cardinality(SettledPartitions) + 1
      BY <1>3, <3>1, FS_AddElement
    <3>3. QED
      BY <1>1, <2>2, <3>2 DEF CountInv
  <2>3. \A q \in Partitions \ {p} :
          /\ Settled(q)' => part'[q] # "new"
          /\ cur'[q] # 0 => part'[q] = "new"
    BY <1>1, <1>2 DEF CountInv
  <2>4. QED
    BY <1>1, <1>4, <2>1, <2>2, <2>3 DEF CountInv
<1>5. /\ Settled(p) => part[p] # "new"
      /\ cur[p] # 0 => part[p] = "new"
  BY <1>1 DEF CountInv
<1>6. CASE SkipSettled(p) \/ SkipOutput(p) \/ HoldBack(p) \/ StillActive(p) \/ ExpireWait(p)
           \/ ReadOutput(p) \/ ReadStatusBlob(p) \/ SkipStatusBlob(p)
  BY <1>0, <1>5, <1>6 DEF SkipSettled, SkipOutput, HoldBack, StillActive, ExpireWait,
     ReadOutput, ReadStatusBlob, SkipStatusBlob, Settled
<1>7. CASE BeginSubmit(p) \/ Submit(p) \/ RecordSubmit(p) \/ RecordRunning(p) \/ Waiting(p)
           \/ CompleteTask(p)
  BY <1>0, <1>5, <1>7 DEF BeginSubmit, Submit, RecordSubmit, RecordRunning, Waiting,
     CompleteTask, Settled
<1>8. CASE FailPartition(p)
  <2>1. /\ cur[p] # 0 /\ cur'[p] = 0 /\ pc' \in {"loop", "output"} /\ part'[p] = "failed"
        /\ failed' = failed + 1 /\ completed' = completed
    BY <1>0, <1>8 DEF FailPartition
  <2>2. QED
    BY <1>0, <2>1 DEF Settled
<1>9. CASE PrepareNext(p)
  BY <1>0, <1>5, <1>9 DEF PrepareNext, Settled
<1>10. ~PrepareRaises(p) /\ ~CompletionRaises(p)
  BY DEF PrepareRaises, CompletionRaises, PromptTasks
<1>11. CASE NoNextTask(p)
  <2>1. /\ cur[p] # 0 /\ cur'[p] = 0 /\ pc' = "finish" /\ at' = p
        /\ UNCHANGED <<completed, failed>>
    BY <1>0, <1>5, <1>11 DEF NoNextTask
  <2>2. QED
    BY <2>1 DEF Settled
<1>12. CASE RecordCompletion(p)
  BY <1>0, <1>12 DEF RecordCompletion, Settled
<1>13. CASE Notified(p)
  <2>1. /\ cur[p] = 0 /\ UNCHANGED <<cur, part>> /\ pc = "notify" /\ pc' \in {"loop", "output"}
        /\ completed' = completed + 1 /\ failed' = failed /\ part[p] = "succeeded"
    BY <1>0, <1>1, <1>13 DEF Notified
  <2>2. QED
    BY <1>0, <1>1, <2>1 DEF Settled
<1>14. QED
  BY <1>6, <1>7, <1>8, <1>9, <1>10, <1>11, <1>12, <1>13 DEF Visit

\* Every other step settles nothing.
LEMMA CountInvOther ==
  ASSUME CountInv,
         \/ Head \/ ThreadRaises
         \/ \E p \in Partitions, t \in Tasks, k \in Attempts : Instance(p, t, k)
         \/ UNCHANGED vars
  PROVE  CountInv'
<1> USE DEF Goto, counters, memory, external, EnterLoopBody
<1>1. /\ UNCHANGED <<part, cur, completed, failed, at>>
      /\ \/ UNCHANGED pc
         \/ pc = "loop" /\ pc' = "output"
         \/ pc = "loop" /\ pc' = "done" /\ JobsLeft <= 0
         \/ pc' = "aborted"
  <2>1. CASE Head
    BY <2>1 DEF Head, SkipPoll, PollRunner, PollRunnerJobFailed, Finish
  <2>2. CASE ThreadRaises
    BY <2>2 DEF ThreadRaises
  <2>3. CASE \E p \in Partitions, t \in Tasks, k \in Attempts : Instance(p, t, k)
    BY <2>3 DEF Instance, InstanceStarts, InstanceWritesOutput, InstanceExits,
                InstanceCrashes, UnchangedThread
  <2>4. CASE UNCHANGED vars
    BY <2>4 DEF vars
  <2>5. QED
    BY <2>1, <2>2, <2>3, <2>4
<1>2. JobsLeft' = JobsLeft
  BY <1>1 DEF JobsLeft
<1>3. CASE pc' = "aborted"
  BY <1>3 DEF CountInv
<1>4. CASE pc' # "aborted"
  <2>1. \A p \in Partitions : Settled(p)' <=> Settled(p)
    BY <1>1, <1>4 DEF Settled
  <2>2. SettledPartitions' = SettledPartitions
    BY <2>1 DEF SettledPartitions
  <2>3. QED
    BY <1>1, <1>2, <1>4, <2>1, <2>2 DEF CountInv
<1>5. QED
  BY <1>3, <1>4

\* The loop ends normally only with every partition settled, in memory and in its record,
\* and nothing executing: for any group, where no completion raises either.  (One that
\* raises is counted twice.)
THEOREM EndMeansSettled ==
  ASSUME PromptTasks, ~CompletionMayRaise
  PROVE  Spec => []DoneMeansSettled
<1>1. Init => CountInv
  <2> SUFFICES ASSUME Init PROVE CountInv
    OBVIOUS
  <2>1. SettledPartitions = {} /\ Cardinality({}) = 0
    BY FS_EmptySet DEF Init, SettledPartitions, Settled
  <2>2. QED
    BY <2>1 DEF Init, CountInv, Settled
<1>2. TypeInv /\ OutcomeInv /\ CountInv /\ [Next]_vars => CountInv'
  BY CountInvVisit, CountInvOther DEF Next, Thread
<1>3. TypeInv /\ OutcomeInv /\ LoopInv /\ SlotInv /\ CountInv => DoneMeansSettled
  <2> SUFFICES ASSUME TypeInv, OutcomeInv, LoopInv, SlotInv, CountInv, pc = "done"
               PROVE  /\ \A p \in Partitions : cur[p] = 0 /\ record[p].status # "running"
                      /\ ExecutingInstances = {}
    BY DEF DoneMeansSettled
  <2>1. /\ completed + failed = Cardinality(SettledPartitions) /\ JobsLeft <= 0
        /\ completed \in Nat /\ failed \in Nat
    BY DEF CountInv, TypeInv, TypeOK
  <2>2. /\ SettledPartitions \in SUBSET Partitions
        /\ Cardinality(SettledPartitions) \in Nat
        /\ Cardinality(SettledPartitions) <= Cardinality(Partitions)
    BY PartitionsFinite, FS_Subset DEF SettledPartitions
  <2>3. Cardinality(SettledPartitions) = Cardinality(Partitions)
    BY <2>1, <2>2, PartitionsFinite, GroupAssumption DEF JobsLeft
  <2>4. SettledPartitions = Partitions
    BY <2>2, <2>3, PartitionsFinite, FS_Subset
  <2>5. \A p \in Partitions : cur[p] = 0 /\ part[p] \in {"succeeded", "failed"}
    BY <2>4 DEF SettledPartitions, Settled, CountInv, TypeInv, TypeOK, PartStatus
  <2>6. \A p \in Partitions : record[p].status # "running"
    BY <2>5 DEF LoopInv, AgreeInv, OutcomeInv
  <2>7. ASSUME NEW p \in Partitions, NEW t \in Tasks, NEW k \in Attempts
        PROVE  ~Executing(inst[p][t][k])
    BY <2>5 DEF SlotInv, SlotPart, Tasks
  <2>8. ExecutingInstances = {}
    BY <2>7 DEF ExecutingInstances
  <2>9. QED
    BY <2>5, <2>6, <2>8
<1>4. QED
  BY LoopInvInvariant, SlotInvInvariant, <1>1, <1>2, <1>3, PTL DEF Spec

=============================================================================
