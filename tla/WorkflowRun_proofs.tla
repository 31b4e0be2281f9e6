------------------------ MODULE WorkflowRun_proofs ------------------------
(***************************************************************************)
(* Proofs about WorkflowRun, for any number of jobs and of groups and any  *)
(* of the faults: the inductive invariant RunInv, the safety properties    *)
(* of the runs, and, unless answers may be lost, the implementation of     *)
(* RunLifecycle.                                                           *)
(***************************************************************************)
EXTENDS WorkflowRun, TLAPS

Idle(j) == \A g \in Groups : group[j][g] = "idle"

\* The job has not been reached yet.
Untouched(j) == record.jobs[j] = "pending" /\ Idle(j)

\* Before the executor's loop: nothing but the submission may have happened.
BeforeLoop ==
  /\ server \in {"new", "recorded", "raised", "dead"} =>
       pc = "none" /\ record.status = "submitted"
  /\ server = "aborted" => pc = "none"
  /\ pc \in {"none", "start"} =>
       /\ job = 1 /\ ~runFailed
       /\ \A j \in Jobs : Untouched(j)
  /\ pc = "start" => record.status = "submitted"
  /\ pc = "none" => record.status # "completed"

\* The jobs before the one at hand, that one and those to come.
InLoop ==
  /\ pc \in {"head", "prepare", "collect"} /\ ~runFailed =>
       /\ record.status = "running"
       /\ \A i \in Jobs : i < job => record.jobs[i] \in Finished /\ i \in outputs
       /\ \A i \in Jobs : i > job => Untouched(i)
  /\ pc = "head" =>
       \A i \in Jobs : i >= job =>
         /\ Idle(i)
         /\ runFailed => record.jobs[i] = "cancelled"
         /\ ~runFailed => record.jobs[i] = "pending"
  /\ pc = "head" /\ runFailed => record.status = "failed"
  /\ pc \in {"prepare", "collect"} =>
       job \in Jobs /\ ~runFailed /\ record.jobs[job] = "running"
  /\ pc = "prepare" => Idle(job)
  /\ pc = "collect" => \A g \in collected :
       /\ group[job][g] # "active"
       /\ ~jobFailed => group[job][g] = "succeeded"

RunInv ==
  /\ TypeOK /\ BeforeLoop /\ InLoop
  /\ VerdictSupported /\ JobsRunInOrder /\ VerdictWaitsForThreads

\* The record after an update of one job: that job has its new status, and
\* nothing else changes unless the job fails, which also fails the run and
\* cancels the pending jobs.
LEMMA SetJobFacts ==
  ASSUME NEW r \in Records, NEW j \in Jobs, NEW s \in JobStatus
  PROVE  /\ SetJob(r, j, s) \in Records
         /\ SetJob(r, j, s).jobs[j] = s
         /\ SetJob(r, j, s).errors = r.errors
         /\ s # "failed" => /\ SetJob(r, j, s).status = r.status
                            /\ \A i \in Jobs \ {j} : SetJob(r, j, s).jobs[i] = r.jobs[i]
         /\ s = "failed" /\ r.jobs[j] # s =>
              /\ SetJob(r, j, s).status = "failed"
              /\ \A i \in Jobs \ {j} :
                   SetJob(r, j, s).jobs[i] = IF r.jobs[i] = "pending" THEN "cancelled" ELSE r.jobs[i]
         /\ r.jobs[j] = s => SetJob(r, j, s) = r
<1>1. CASE r.jobs[j] = s
  BY <1>1 DEF SetJob
<1>2. CASE r.jobs[j] # s /\ s = "failed"
  BY <1>2 DEF SetJob, Records, RunStatus, JobStatus
<1>3. CASE r.jobs[j] # s /\ s # "failed"
  <2>1. SetJob(r, j, s) = [r EXCEPT !.jobs[j] = s]
    BY <1>3 DEF SetJob
  <2>2. QED
    BY <1>3, <2>1 DEF Records
<1>4. QED
  BY <1>1, <1>2, <1>3

\* An update of the run's status, or of a job's errors, changes nothing else.
LEMMA SetWorkflowFacts ==
  ASSUME NEW r \in Records
  PROVE  /\ \A s \in RunStatus : /\ SetWorkflow(r, s) \in Records
                                 /\ SetWorkflow(r, s).status = s
                                 /\ SetWorkflow(r, s).jobs = r.jobs
         /\ \A j \in Jobs : /\ WithErrors(r, j) \in Records
                            /\ WithErrors(r, j).status = r.status
                            /\ WithErrors(r, j).jobs = r.jobs
BY DEF SetWorkflow, WithErrors, Records, RunStatus

\* A run starts with nothing done.
LEMMA RunInvInit == Init => RunInv
<1> SUFFICES ASSUME Init PROVE RunInv
  OBVIOUS
<1>1. NewRecord \in Records /\ NewRecord.status = "submitted" /\ \A j \in Jobs : NewRecord.jobs[j] = "pending"
  <2>1. [j \in Jobs |-> "pending"] \in [Jobs -> JobStatus] /\ {} \in SUBSET Jobs
    BY DEF JobStatus
  <2>2. QED
    BY <2>1 DEF NewRecord, Records, RunStatus
<1>2. group \in [Jobs -> [Groups -> GroupState]] /\ \A j \in Jobs : Idle(j)
  BY DEF Init, Idle, GroupState
<1>3. TypeOK
  <2>1. 1 \in 1..(NumJobs + 1)
    BY RunAssumption
  <2>2. QED
    BY <1>1, <1>2, <2>1 DEF Init, TypeOK
<1>4. BeforeLoop /\ InLoop
  BY <1>1, <1>2 DEF Init, BeforeLoop, InLoop, Untouched
<1>5. VerdictSupported /\ JobsRunInOrder /\ VerdictWaitsForThreads
  BY <1>1, <1>2 DEF Init, VerdictSupported, JobsRunInOrder, VerdictWaitsForThreads, Idle
<1>6. QED
  BY <1>3, <1>4, <1>5 DEF RunInv

\* The submission touches the record only while there is no executor.
LEMMA RunInvServer ==
  ASSUME RunInv, Server \/ ServerDies
  PROVE  RunInv'
<1> USE DEF RunInv, TypeOK, BeforeLoop, InLoop, VerdictSupported, JobsRunInOrder,
        VerdictWaitsForThreads, Untouched, Idle, local, threads, RunStatus
<1>1. CASE PutRecord
  BY <1>1 DEF PutRecord
<1>2. CASE Launch
  BY <1>2 DEF Launch
<1>3. CASE LaunchRaises
  BY <1>3 DEF LaunchRaises
<1>4. CASE RecordLaunchFailure
  <2>1. /\ record' \in Records /\ record'.status = "failed" /\ record'.jobs = record.jobs
    BY <1>4, SetWorkflowFacts DEF RecordLaunchFailure
  <2>2. QED
    BY <1>4, <2>1 DEF RecordLaunchFailure
<1>5. CASE ServerDies
  BY <1>5 DEF ServerDies
<1>6. CASE PutRaises
  BY <1>6 DEF PutRaises
<1>7. CASE RecordLaunchFailureRaises
  <2>1. /\ record' \in Records /\ record'.status # "completed" /\ record'.jobs = record.jobs
    BY <1>7, SetWorkflowFacts DEF RecordLaunchFailureRaises
  <2>2. QED
    BY <1>7, <2>1 DEF RecordLaunchFailureRaises
<1>8. QED
  BY <1>1, <1>2, <1>3, <1>4, <1>5, <1>6, <1>7 DEF Server

\* The executor's steps that take no verdict on the job at hand.
LEMMA RunInvQuiet ==
  ASSUME RunInv,
         \/ Start \/ CancelJob \/ BeginJob \/ StartGroups \/ StartGroupsRaises
         \/ FailRun \/ ExecutorDies \/ \E g \in Groups : Collect(g)
  PROVE  RunInv'
<1> USE DEF submission, local, threads
<1>0. /\ TypeOK /\ BeforeLoop /\ InLoop
      /\ VerdictSupported /\ JobsRunInOrder /\ VerdictWaitsForThreads
  BY DEF RunInv
<1> USE DEF TypeOK, BeforeLoop, InLoop, VerdictSupported, JobsRunInOrder,
        VerdictWaitsForThreads, Untouched, Idle, RunStatus
<1>1. CASE Start
  <2>1. /\ record' \in Records /\ record'.status = "running" /\ record'.jobs = record.jobs
    BY <1>0, <1>1, SetWorkflowFacts DEF Start
  <2>2. TypeOK' /\ BeforeLoop'
    BY <1>0, <1>1, <2>1 DEF Start
  <2>3. InLoop'
    BY <1>0, <1>1, <2>1, RunAssumption DEF Start, Jobs
  <2>4. VerdictSupported' /\ JobsRunInOrder' /\ VerdictWaitsForThreads'
    BY <1>0, <1>1, <2>1 DEF Start
  <2>5. QED
    BY <2>2, <2>3, <2>4 DEF RunInv
<1>2. CASE CancelJob
  <2>1. job \in Jobs /\ record' = record
    BY <1>0, <1>2, SetJobFacts DEF CancelJob, Jobs, JobStatus
  <2>2. TypeOK' /\ BeforeLoop'
    BY <1>0, <1>2, <2>1, RunAssumption DEF CancelJob, NextJob, Jobs
  <2>3. /\ pc = "head" /\ pc' = "head" /\ job \in Nat /\ job' = job + 1
    BY <1>0, <1>2, <2>1 DEF CancelJob, NextJob, Jobs
  <2>7. runFailed /\ runFailed' /\ UNCHANGED group
    BY <1>2, Zenon DEF CancelJob, NextJob
  <2>6. InLoop'
    BY <1>0, <2>1, <2>3, <2>7, RunAssumption DEF Jobs
  <2>4. VerdictSupported' /\ JobsRunInOrder' /\ VerdictWaitsForThreads'
    BY <1>0, <1>2, <2>1 DEF CancelJob
  <2>5. QED
    BY <2>2, <2>4, <2>6 DEF RunInv
<1>3. CASE BeginJob
  <2>0. job \in Jobs /\ record \in Records /\ "running" \in JobStatus /\ record' = SetJob(record, job, "running")
    BY <1>0, <1>3 DEF BeginJob, Jobs, JobStatus
  <2>1. /\ job \in Jobs
        /\ record' \in Records /\ record'.status = record.status
        /\ record'.jobs[job] = "running"
        /\ \A i \in Jobs \ {job} : record'.jobs[i] = record.jobs[i]
    BY <2>0, SetJobFacts
  <2>2. TypeOK' /\ BeforeLoop' /\ InLoop'
    BY <1>0, <1>3, <2>1 DEF BeginJob, Jobs
  <2>3. VerdictSupported' /\ JobsRunInOrder' /\ VerdictWaitsForThreads'
    BY <1>0, <1>3, <2>1 DEF BeginJob, Jobs, Finished
  <2>4. QED
    BY <2>2, <2>3 DEF RunInv
<1>4. CASE StartGroups
  <2>1. /\ group' \in [Jobs -> [Groups -> GroupState]]
        /\ \A i \in Jobs \ {job} : group'[i] = group[i]
        /\ job \in Jobs /\ record.jobs[job] = "running" /\ record.status = "running"
        /\ \A g \in Groups : group'[job][g] = "active"
    BY <1>0, <1>4 DEF StartGroups, GroupState
  <2>2. TypeOK' /\ BeforeLoop'
    BY <1>0, <1>4, <2>1 DEF StartGroups
  <2>3. InLoop'
    BY <1>0, <1>4, <2>1 DEF StartGroups, Jobs
  <2>4. VerdictSupported' /\ VerdictWaitsForThreads'
    BY <1>0, <1>4, <2>1 DEF StartGroups
  <2>6. JobsRunInOrder'
    <3>1. \A i \in 1..(job - 1) : record.jobs[i] \in Finished /\ i \in outputs
      BY <1>0, <1>4, <2>1, RunAssumption DEF StartGroups, Jobs
    <3>2. UNCHANGED <<record, outputs>>
      BY <1>4 DEF StartGroups
    <3>3. QED
      BY <1>0, <2>1, <3>1, <3>2
  <2>5. QED
    BY <2>2, <2>3, <2>4, <2>6 DEF RunInv
<1>5. CASE StartGroupsRaises
  <2>1. /\ group' \in [Jobs -> [Groups -> GroupState]]
        /\ \A i \in Jobs \ {job} : group'[i] = group[i]
        /\ job \in Jobs /\ record.jobs[job] = "running" /\ record.status = "running"
    BY <1>0, <1>5 DEF StartGroupsRaises, GroupState
  <2>2. TypeOK' /\ BeforeLoop'
    BY <1>0, <1>5, <2>1 DEF StartGroupsRaises
  <2>3. InLoop'
    BY <1>0, <1>5, <2>1 DEF StartGroupsRaises, Jobs
  <2>4. VerdictSupported' /\ VerdictWaitsForThreads'
    BY <1>0, <1>5, <2>1 DEF StartGroupsRaises
  <2>6. JobsRunInOrder'
    <3>1. \A i \in 1..(job - 1) : record.jobs[i] \in Finished /\ i \in outputs
      BY <1>0, <1>5, <2>1, RunAssumption DEF StartGroupsRaises, Jobs
    <3>2. UNCHANGED <<record, outputs>>
      BY <1>5 DEF StartGroupsRaises
    <3>3. QED
      BY <1>0, <2>1, <3>1, <3>2
  <2>5. QED
    BY <2>2, <2>3, <2>4, <2>6 DEF RunInv
<1>6. CASE FailRun
  BY <1>0, <1>6 DEF FailRun, RunInv
<1>7. CASE ExecutorDies
  BY <1>0, <1>7 DEF ExecutorDies, RunInv
<1>8. CASE \E g \in Groups : Collect(g)
  <2>1. PICK g \in Groups : Collect(g)
    BY <1>8
  <2>2. TypeOK' /\ BeforeLoop'
    BY <1>0, <2>1 DEF Collect
  <2>3. InLoop'
    <3>1. \A h \in collected' : group[job][h] # "active" /\ (~jobFailed' => group[job][h] = "succeeded")
      BY <1>0, <2>1 DEF Collect
    <3>2. QED
      BY <1>0, <2>1, <3>1 DEF Collect
  <2>4. VerdictSupported' /\ JobsRunInOrder' /\ VerdictWaitsForThreads'
    BY <1>0, <2>1 DEF Collect
  <2>5. QED
    BY <2>2, <2>3, <2>4 DEF RunInv
<1>9. QED
  BY <1>1, <1>2, <1>3, <1>4, <1>5, <1>6, <1>7, <1>8

\* The record of this step is the last one with status s for the job at hand.
Updated(s) ==
  /\ record' \in Records
  /\ record'.jobs[job] = s
  /\ s # "failed" => /\ record'.status = record.status
                     /\ \A i \in Jobs \ {job} : record'.jobs[i] = record.jobs[i]
  /\ s = "failed" =>
       /\ record'.status = "failed"
       /\ \A i \in Jobs \ {job} :
            record'.jobs[i] = IF record.jobs[i] = "pending" THEN "cancelled" ELSE record.jobs[i]

\* The record may say s of the job at hand.
MaySay(s) ==
  /\ pc \in {"head", "prepare", "collect"} /\ ~runFailed
  /\ job \in Jobs /\ s \in JobStatus
  /\ s # "running" => \A g \in Groups : group[job][g] # "active"
  /\ s = "completed" => \A g \in Groups : group[job][g] = "succeeded"

\* An update of the job at hand that is justified keeps the safety properties.
LEMMA UpdateIsSafe ==
  ASSUME RunInv, NEW s, MaySay(s), Updated(s),
         UNCHANGED group, outputs \subseteq outputs'
  PROVE  VerdictSupported' /\ JobsRunInOrder' /\ VerdictWaitsForThreads'
<1>1. /\ record \in Records /\ job \in Jobs /\ record.status = "running"
      /\ record'.status # "completed"
  BY DEF RunInv, TypeOK, InLoop, MaySay, Updated
<1>2. /\ \A i \in Jobs : i < job => record.jobs[i] \in Finished /\ i \in outputs
      /\ \A i \in Jobs : i > job => Idle(i)
  BY <1>1 DEF RunInv, InLoop, MaySay, Untouched
<1>3. \A i \in Jobs \ {job} : record.jobs[i] # "pending" => record'.jobs[i] = record.jobs[i]
  BY DEF Updated
<1>4. \A i \in Jobs \ {job} : record'.jobs[i] = "completed" => record.jobs[i] = "completed"
  BY DEF Updated
<1>5. VerdictSupported'
  BY <1>1, <1>4 DEF RunInv, VerdictSupported, MaySay, Updated
<1>6. VerdictWaitsForThreads'
  BY <1>1, <1>3 DEF RunInv, VerdictWaitsForThreads, MaySay, Updated
<1>7. JobsRunInOrder'
  <2> SUFFICES ASSUME NEW j \in Jobs, NEW g \in Groups, group[j][g] # "idle", NEW i \in 1..(j - 1)
               PROVE  record'.jobs[i] \in Finished /\ i \in outputs'
    BY DEF JobsRunInOrder
  <2>1. i \in Jobs /\ i < j /\ j <= job
    BY <1>1, <1>2, RunAssumption DEF Jobs, Idle
  <2>2. i # job /\ record.jobs[i] \in Finished /\ i \in outputs
    BY <1>1, <1>2, <2>1 DEF Jobs
  <2>3. QED
    BY <1>3, <2>1, <2>2 DEF Finished
<1>8. QED
  BY <1>5, <1>6, <1>7

\* The end of an iteration: a verdict on the job at hand, and the next job.
LEMMA RunInvAdvance ==
  ASSUME RunInv, NEW s \in {"completed", "skipped", "failed"}, MaySay(s), Updated(s),
         pc \in {"prepare", "collect"}, NextJob(s = "failed"),
         outputs' = IF s = "failed" THEN outputs ELSE outputs \union {job},
         UNCHANGED <<submission, threads>>
  PROVE  RunInv'
<1> USE DEF submission, threads
<1>1. VerdictSupported' /\ JobsRunInOrder' /\ VerdictWaitsForThreads'
  BY UpdateIsSafe
<1>2. /\ TypeOK /\ job \in Jobs /\ ~runFailed /\ job \in Nat
      /\ pc' = "head" /\ job' = job + 1 /\ (runFailed' <=> s = "failed")
      /\ runFailed' \in BOOLEAN
  <2>1. TypeOK /\ job \in Jobs /\ ~runFailed /\ pc' = "head" /\ job' = job + 1
    BY DEF RunInv, MaySay, NextJob
  <2>2. (runFailed' <=> s = "failed") /\ runFailed' \in BOOLEAN
    BY <2>1, Zenon DEF NextJob
  <2>3. QED
    BY <2>1, <2>2 DEF Jobs
<1>3. TypeOK'
  BY <1>2, RunAssumption DEF TypeOK, Updated, Jobs
<1>4. BeforeLoop'
  BY <1>2 DEF RunInv, BeforeLoop
<1>5. \A i \in Jobs : i > job => Untouched(i)
  BY <1>2 DEF RunInv, InLoop
<1>6. \A i \in Jobs : i >= job' => i > job /\ i # job
  BY <1>2 DEF Jobs
<1>7. \A i \in Jobs : i >= job' =>
        /\ Idle(i)'
        /\ runFailed' => record'.jobs[i] = "cancelled"
        /\ ~runFailed' => record'.jobs[i] = "pending"
  BY <1>2, <1>5, <1>6 DEF Untouched, Updated, Idle
<1>8. s # "failed" =>
        /\ record'.status = "running"
        /\ \A i \in Jobs : i < job' => record'.jobs[i] \in Finished /\ i \in outputs'
  <2> SUFFICES ASSUME s # "failed"
               PROVE  /\ record'.status = "running"
                      /\ \A i \in Jobs : i < job' => record'.jobs[i] \in Finished /\ i \in outputs'
    OBVIOUS
  <2>1. /\ record.status = "running"
        /\ \A i \in Jobs : i < job => record.jobs[i] \in Finished /\ i \in outputs
    BY <1>2 DEF RunInv, InLoop
  <2>2. \A i \in Jobs : i < job' => i < job \/ i = job
    BY <1>2 DEF Jobs
  <2>3. QED
    BY <1>2, <2>1, <2>2 DEF Updated, Finished
<1>9. runFailed' => record'.status = "failed"
  BY <1>2 DEF Updated
<1>10. InLoop'
  BY <1>2, <1>6, <1>7, <1>8, <1>9 DEF InLoop, Untouched
<1>11. QED
  BY <1>1, <1>3, <1>4, <1>10 DEF RunInv

\* A group's end leaves the verdicts alone: its job is still RUNNING.
LEMMA RunInvGroup ==
  ASSUME RunInv, NEW j \in Jobs, NEW g \in Groups, GroupEnds(j, g)
  PROVE  RunInv'
<1> USE DEF submission, local, threads
<1>0. /\ TypeOK /\ BeforeLoop /\ InLoop
      /\ VerdictSupported /\ JobsRunInOrder /\ VerdictWaitsForThreads
  BY DEF RunInv
<1>1. PICK s \in {"succeeded", "failed", "raised"} : group' = [group EXCEPT ![j][g] = s]
  BY DEF GroupEnds
<1>2. /\ group' \in [Jobs -> [Groups -> GroupState]]
      /\ group'[j][g] = s
      /\ \A i \in Jobs, h \in Groups : i # j \/ h # g => group'[i][h] = group[i][h]
  BY <1>0, <1>1 DEF TypeOK, GroupState
<1>3. group[j][g] = "active" /\ record.jobs[j] = "running" /\ record.status # "completed"
  BY <1>0 DEF GroupEnds, VerdictWaitsForThreads
<1>4. QED
  BY <1>0, <1>2, <1>3 DEF GroupEnds, RunInv, TypeOK, BeforeLoop, InLoop, VerdictSupported,
     JobsRunInOrder, VerdictWaitsForThreads, Untouched, Idle

\* The updates of the code are such records.
LEMMA SetJobUpdates ==
  ASSUME RunInv, job \in Jobs, NEW s \in JobStatus, record.jobs[job] # s,
         record' \in {SetJob(record, job, s), WithErrors(SetJob(record, job, s), job)}
  PROVE  Updated(s)
<1> DEFINE r == SetJob(record, job, s)
<1>1. record \in Records
  BY DEF RunInv, TypeOK
<1>2. /\ r \in Records /\ r.jobs[job] = s
      /\ s # "failed" => /\ r.status = record.status
                         /\ \A i \in Jobs \ {job} : r.jobs[i] = record.jobs[i]
      /\ s = "failed" =>
           /\ r.status = "failed"
           /\ \A i \in Jobs \ {job} :
                r.jobs[i] = IF record.jobs[i] = "pending" THEN "cancelled" ELSE record.jobs[i]
  BY <1>1, SetJobFacts
<1> HIDE DEF r
<1>3. record' \in Records /\ record'.status = r.status /\ record'.jobs = r.jobs
  <2>1. record' = r \/ record' = WithErrors(r, job)
    BY DEF r
  <2>2. QED
    BY <1>2, <2>1, SetWorkflowFacts
<1>4. QED
  BY <1>2, <1>3 DEF Updated

\* Until its groups are started, a job may be said to have failed or to be
\* skipped.
LEMMA PrepareMaySay ==
  ASSUME RunInv, pc = "prepare", NEW s \in {"failed", "skipped"}
  PROVE  /\ MaySay(s) /\ s \in JobStatus
         /\ job \in Jobs /\ record.jobs[job] # s
BY DEF RunInv, InLoop, MaySay, JobStatus, Idle

\* Once all futures have been looked at, the verdict on the job is justified.
LEMMA VerdictMaySay ==
  ASSUME RunInv, pc = "collect", collected = Groups, record' = JobVerdict
  PROVE  /\ MaySay(IF jobFailed THEN "failed" ELSE "completed")
         /\ Updated(IF jobFailed THEN "failed" ELSE "completed")
<1> DEFINE s == IF jobFailed THEN "failed" ELSE "completed"
<1>1. /\ job \in Jobs /\ ~runFailed /\ record.jobs[job] = "running"
      /\ \A g \in Groups : group[job][g] # "active" /\ (~jobFailed => group[job][g] = "succeeded")
  BY DEF RunInv, InLoop
<1>2. s \in JobStatus /\ record.jobs[job] # s /\ (s = "completed" => ~jobFailed)
  BY <1>1 DEF JobStatus
<1>3. record' \in {SetJob(record, job, s), WithErrors(SetJob(record, job, s), job)}
  BY DEF JobVerdict
<1> HIDE DEF s
<1>4. MaySay(s)
  BY <1>1, <1>2 DEF MaySay
<1>5. Updated(s)
  BY <1>1, <1>2, <1>3, SetJobUpdates
<1>6. QED
  BY <1>4, <1>5 DEF s

\* The steps that end an iteration keep the invariant.
LEMMA RunInvJobEnds ==
  ASSUME RunInv,
         PrepareFails \/ TemplateFails \/ CreateFails \/ NoTasks \/ SkipJob \/ ConcludeJob
  PROVE  RunInv'
<1>1. CASE PrepareFails \/ TemplateFails \/ CreateFails \/ NoTasks
  <2>1. /\ pc = "prepare" /\ NextJob(TRUE) /\ outputs' = outputs
        /\ UNCHANGED <<submission, threads>>
        /\ record' \in {SetJob(record, job, "failed"), WithErrors(SetJob(record, job, "failed"), job)}
    BY <1>1 DEF PrepareFails, TemplateFails, CreateFails, NoTasks, RejectJob
  <2>2. MaySay("failed") /\ Updated("failed")
    BY <2>1, PrepareMaySay, SetJobUpdates
  <2>3. NextJob("failed" = "failed")
    BY <2>1 DEF NextJob
  <2>4. QED
    BY <2>1, <2>2, <2>3, RunInvAdvance
<1>2. CASE SkipJob
  <2>1. /\ pc = "prepare" /\ NextJob(FALSE) /\ outputs' = outputs \union {job}
        /\ UNCHANGED <<submission, threads>>
        /\ record' = WithErrors(SetJob(record, job, "skipped"), job)
    BY <1>2 DEF SkipJob
  <2>2. MaySay("skipped") /\ Updated("skipped")
    BY <2>1, PrepareMaySay, SetJobUpdates
  <2>3. NextJob("skipped" = "failed")
    BY <2>1 DEF NextJob
  <2>4. QED
    BY <2>1, <2>2, <2>3, RunInvAdvance
<1>3. CASE ConcludeJob
  <2> DEFINE s == IF jobFailed THEN "failed" ELSE "completed"
  <2>1. /\ pc = "collect" /\ collected = Groups /\ NextJob(jobFailed)
        /\ outputs' = IF jobFailed THEN outputs ELSE outputs \union {job}
        /\ UNCHANGED <<submission, threads>>
        /\ record' = JobVerdict
    BY <1>3 DEF ConcludeJob
  <2>2. MaySay(s) /\ Updated(s)
    BY <2>1, VerdictMaySay
  <2>3. /\ s \in {"completed", "skipped", "failed"}
        /\ outputs' = IF s = "failed" THEN outputs ELSE outputs \union {job}
    BY <2>1
  <2>4. jobFailed \in BOOLEAN /\ (jobFailed <=> s = "failed")
    BY DEF RunInv, TypeOK
  <2>5. NextJob(s = "failed")
    <3>1. (s = "failed") = jobFailed
      BY <2>4, Zenon
    <3>2. QED
      BY <2>1, <3>1, Zenon DEF NextJob
  <2> HIDE DEF s
  <2>6. QED
    BY <2>1, <2>2, <2>3, <2>5, RunInvAdvance
<1>4. QED
  BY <1>1, <1>2, <1>3

\* An executor that leaves its loop, with a record that is safe.
LEMMA RunInvStop ==
  ASSUME RunInv, pc # "none", pc' \in {"except", "exited", "raised"},
         record' \in Records,
         VerdictSupported', JobsRunInOrder', VerdictWaitsForThreads',
         UNCHANGED <<submission, local, threads>>
  PROVE  RunInv'
BY DEF RunInv, TypeOK, BeforeLoop, InLoop, submission, local, threads

\* A change of the run's status that is no unjustified COMPLETED is safe.
LEMMA StatusIsSafe ==
  ASSUME RunInv, NEW s \in RunStatus, record' = SetWorkflow(record, s),
         s = "completed" => \A j \in Jobs : record.jobs[j] \in Finished,
         UNCHANGED <<group, outputs>>
  PROVE  record' \in Records /\ VerdictSupported' /\ JobsRunInOrder' /\ VerdictWaitsForThreads'
<1>1. record' \in Records /\ record'.status = s /\ record'.jobs = record.jobs
  BY SetWorkflowFacts DEF RunInv, TypeOK
<1>2. VerdictSupported' /\ JobsRunInOrder'
  BY <1>1 DEF RunInv, VerdictSupported, JobsRunInOrder
<1>3. VerdictWaitsForThreads'
  BY <1>1 DEF RunInv, VerdictWaitsForThreads, Finished
<1>4. QED
  BY <1>1, <1>2, <1>3

\* What a call that raises may have written is safe as well.
LEMMA WritingIsSafe ==
  ASSUME RunInv,
         pc \in {"head", "prepare"} \/ (pc = "collect" /\ collected = Groups),
         record' \in Writing, UNCHANGED <<group, outputs>>
  PROVE  record' \in Records /\ VerdictSupported' /\ JobsRunInOrder' /\ VerdictWaitsForThreads'
<1>0. record \in Records
  BY DEF RunInv, TypeOK
<1>1. CASE pc = "head" /\ job > NumJobs
  <2>1. ~runFailed /\ record' = SetWorkflow(record, "completed")
    BY <1>1 DEF Writing
  <2>2. \A i \in Jobs : i < job
    BY <1>1, RunAssumption DEF RunInv, TypeOK, Jobs
  <2>3. \A j \in Jobs : record.jobs[j] \in Finished
    BY <1>1, <2>1, <2>2 DEF RunInv, InLoop
  <2>4. "completed" \in RunStatus
    BY DEF RunStatus
  <2>5. QED
    BY <2>1, <2>3, <2>4, StatusIsSafe
<1>2. CASE pc = "head" /\ ~(job > NumJobs)
  <2>1. job \in Jobs
    BY <1>2, RunAssumption DEF RunInv, TypeOK, Jobs
  <2>2. CASE runFailed
    <3>1. record' = SetJob(record, job, "cancelled") /\ record.jobs[job] = "cancelled"
      BY <1>2, <2>1, <2>2 DEF Writing, RunInv, InLoop, Jobs
    <3>2. record' = record
      BY <1>0, <2>1, <3>1, SetJobFacts DEF JobStatus
    <3>3. QED
      BY <1>0, <3>2 DEF RunInv, VerdictSupported, JobsRunInOrder, VerdictWaitsForThreads
  <2>3. CASE ~runFailed
    <3>1. record' = SetJob(record, job, "running") /\ record.jobs[job] = "pending"
      BY <1>2, <2>1, <2>3 DEF Writing, RunInv, InLoop, Jobs
    <3>2. MaySay("running") /\ "running" \in JobStatus
      BY <1>2, <2>1, <2>3 DEF MaySay, JobStatus
    <3>3. Updated("running")
      BY <2>1, <3>1, <3>2, SetJobUpdates
    <3>4. QED
      BY <3>2, <3>3, UpdateIsSafe DEF Updated
  <2>4. QED
    BY <2>2, <2>3
<1>3. CASE pc = "prepare"
  <2>1. PICK s \in {"failed", "skipped"} :
          record' \in {SetJob(record, job, s), WithErrors(SetJob(record, job, s), job)}
    BY <1>3 DEF Writing
  <2>2. MaySay(s) /\ Updated(s)
    BY <1>3, <2>1, PrepareMaySay, SetJobUpdates
  <2>3. QED
    BY <2>2, UpdateIsSafe DEF Updated
<1>4. CASE pc = "collect" /\ collected = Groups
  <2> DEFINE s == IF jobFailed THEN "failed" ELSE "completed"
  <2>1. record' = JobVerdict
    BY <1>4 DEF Writing
  <2>2. MaySay(s) /\ Updated(s)
    BY <1>4, <2>1, VerdictMaySay
  <2> HIDE DEF s
  <2>3. QED
    BY <2>2, UpdateIsSafe DEF Updated
<1>5. QED
  BY <1>1, <1>2, <1>3, <1>4

\* The steps that leave the loop, or are taken after it.
LEMMA RunInvLeaves ==
  ASSUME RunInv,
         StartRaises \/ CompleteRun \/ CallRaises \/ CleanupRaises \/ Except \/ ExceptRaises
  PROVE  RunInv'
<1>0. /\ record \in Records
      /\ VerdictSupported /\ JobsRunInOrder /\ VerdictWaitsForThreads
      /\ {"running", "completed", "failed"} \subseteq RunStatus
  BY DEF RunInv, TypeOK, RunStatus
<1>1. /\ pc # "none" /\ pc' \in {"except", "exited", "raised"}
      /\ UNCHANGED <<submission, local, threads>> /\ UNCHANGED <<group, outputs>>
  BY DEF StartRaises, CompleteRun, CallRaises, CleanupRaises, Except, ExceptRaises, local, threads
<1>2. CASE record' = record
  <2>1. VerdictSupported' /\ JobsRunInOrder' /\ VerdictWaitsForThreads'
    BY <1>0, <1>1, <1>2 DEF VerdictSupported, JobsRunInOrder, VerdictWaitsForThreads
  <2>2. QED
    BY <1>0, <1>1, <1>2, <2>1, RunInvStop
<1>3. CASE \E s \in {"running", "failed"} : record' = SetWorkflow(record, s)
  BY <1>0, <1>1, <1>3, StatusIsSafe, RunInvStop
<1>4. CASE /\ record' \in Writing
           /\ pc \in {"head", "prepare"} \/ (pc = "collect" /\ collected = Groups)
  BY <1>1, <1>4, WritingIsSafe, RunInvStop
<1>5. CompleteRun \/ CleanupRaises =>
        /\ record' \in Writing
        /\ pc \in {"head", "prepare"} \/ (pc = "collect" /\ collected = Groups)
  BY DEF CompleteRun, CleanupRaises, Writing
<1>6. QED
  BY <1>2, <1>3, <1>4, <1>5 DEF StartRaises, CallRaises, Except, ExceptRaises

\* RunInv is an invariant.
LEMMA RunInvInvariant == Spec => []RunInv
<1>1. Init => RunInv
  BY RunInvInit
<1>2. RunInv /\ [Next]_vars => RunInv'
  <2> SUFFICES ASSUME RunInv, [Next]_vars PROVE RunInv'
    OBVIOUS
  <2>1. CASE UNCHANGED vars
    BY <2>1 DEF RunInv, TypeOK, BeforeLoop, InLoop, VerdictSupported, JobsRunInOrder,
       VerdictWaitsForThreads, Untouched, Idle, vars, submission, local, threads
  <2>2. CASE Server \/ ServerDies
    BY <2>2, RunInvServer
  <2>3. CASE Executor \/ ExecutorDies
    BY <2>3, RunInvQuiet, RunInvJobEnds, RunInvLeaves DEF Executor
  <2>4. CASE \E j \in Jobs, g \in Groups : GroupEnds(j, g)
    BY <2>4, RunInvGroup
  <2>5. QED
    BY <2>1, <2>2, <2>3, <2>4 DEF Next
<1>3. QED
  BY <1>1, <1>2, PTL DEF Spec

\* Every reachable state of the run, of the record and of the threads has its
\* type (execute_workflow_internal, submit_workflow, WorkflowRunRecord).
THEOREM RunTypeCorrect == Spec => []TypeOK
<1>1. RunInv => TypeOK
  BY DEF RunInv
<1>2. QED
  BY <1>1, RunInvInvariant, PTL

\* Whatever raises, dies or is lost, a COMPLETED run has only finished jobs,
\* and a COMPLETED job only groups that returned without a FAILED partition.
THEOREM RunVerdictCorrect == Spec => []VerdictSupported
<1>1. RunInv => VerdictSupported
  BY DEF RunInv
<1>2. QED
  BY <1>1, RunInvInvariant, PTL

\* No job's tasks are started before all jobs ahead of it have finished and
\* their outputs are there to be templated (the loop over sort_jobs).
THEOREM RunOrderCorrect == Spec => []JobsRunInOrder
<1>1. RunInv => JobsRunInOrder
  BY DEF RunInv
<1>2. QED
  BY <1>1, RunInvInvariant, PTL

\* A job has no verdict, and the run is not COMPLETED, while a thread of the
\* job still runs tasks (the loop over as_completed).
THEOREM RunVerdictWaits == Spec => []VerdictWaitsForThreads
<1>1. RunInv => VerdictWaitsForThreads
  BY DEF RunInv
<1>2. QED
  BY <1>1, RunInvInvariant, PTL

\* RunLifecycle's view of the record.
Seen == [status |-> record.status, jobs |-> record.jobs]

\* The handler of the run's exceptions never meets a COMPLETED record.
NotCompletedYet == pc = "except" => record.status # "completed"

\* Without lost answers no exception follows the update to COMPLETED.
LEMMA NotCompletedYetInvariant ==
  ASSUME ~AnswersMayBeLost
  PROVE  Spec => []NotCompletedYet
<1>1. Init => NotCompletedYet
  BY DEF Init, NotCompletedYet
<1>2. RunInv /\ NotCompletedYet /\ [Next]_vars => NotCompletedYet'
  <2> SUFFICES ASSUME RunInv, NotCompletedYet, [Next]_vars, pc' = "except"
               PROVE  record'.status # "completed"
    BY DEF NotCompletedYet
  <2> USE DEF submission, local, threads
  <2>1. CASE UNCHANGED vars
    BY <2>1 DEF NotCompletedYet, vars
  <2>2. CASE Server \/ ServerDies
    <3>1. record' = record \/ record' = SetWorkflow(record, "failed")
      BY <2>2 DEF Server, PutRecord, PutRaises, Launch, LaunchRaises, RecordLaunchFailure,
         RecordLaunchFailureRaises, ServerDies
    <3>2. record \in Records /\ "failed" \in RunStatus
      BY DEF RunInv, TypeOK, RunStatus
    <3>3. pc = "except"
      BY <2>2 DEF Server, PutRecord, PutRaises, Launch, LaunchRaises, RecordLaunchFailure,
         RecordLaunchFailureRaises, ServerDies
    <3>4. QED
      BY <3>1, <3>2, <3>3, SetWorkflowFacts DEF NotCompletedYet
  <2>3. CASE StartGroupsRaises \/ FailRun \/ CallRaises
    <3>1. record' = record /\ pc \in {"head", "prepare", "collect"}
      BY <2>3 DEF StartGroupsRaises, FailRun, CallRaises
    <3>2. record.status \in {"running", "failed"}
      BY <3>1 DEF RunInv, InLoop, TypeOK
    <3>3. QED
      BY <3>1, <3>2
  <2>4. CASE CleanupRaises
    <3>1. Updated(IF jobFailed THEN "failed" ELSE "completed") /\ record.status = "running"
      BY <2>4, VerdictMaySay DEF CleanupRaises, RunInv, InLoop
    <3>2. QED
      BY <3>1 DEF Updated
  <2>5. CASE \E j \in Jobs, g \in Groups : GroupEnds(j, g)
    BY <2>5 DEF GroupEnds, NotCompletedYet
  <2>6. CASE \E g \in Groups : Collect(g)
    BY <2>6 DEF Collect, NotCompletedYet
  <2>7. CASE \/ Start \/ StartRaises \/ CancelJob \/ BeginJob \/ PrepareFails \/ TemplateFails
             \/ CreateFails \/ NoTasks \/ SkipJob \/ StartGroups \/ ConcludeJob \/ CompleteRun
             \/ Except \/ ExceptRaises \/ ExecutorDies
    <3>1. pc' # "except"
      BY <2>7 DEF Start, StartRaises, CancelJob, BeginJob, PrepareFails, TemplateFails, CreateFails,
         NoTasks, RejectJob, SkipJob, StartGroups, ConcludeJob, CompleteRun, Except, ExceptRaises,
         ExecutorDies, NextJob
    <3>2. QED
      BY <3>1
  <2>8. QED
    BY <2>1, <2>2, <2>3, <2>4, <2>5, <2>6, <2>7 DEF Next, Executor
<1>3. QED
  BY <1>1, <1>2, RunInvInvariant, PTL DEF Spec

\* A change of the run's status is a step of RunLifecycle, or shows nothing.
LEMMA StatusIsStep ==
  ASSUME RunInv, NEW s \in RunStatus, record' = SetWorkflow(record, s),
         s = "running" => record.status = "submitted",
         s = "failed" => AnswersMayBeLost \/ record.status # "completed",
         s = "completed" =>
           record.status = "running" /\ \A j \in Jobs : record.jobs[j] \in Finished,
         s # "submitted"
  PROVE  Lifecycle!Next \/ Seen' = Seen
<1>1. record \in Records /\ record'.status = s /\ record'.jobs = record.jobs
  BY SetWorkflowFacts DEF RunInv, TypeOK
<1>2. Seen' = [Seen EXCEPT !.status = s]
  BY <1>1 DEF Seen
<1>3. CASE s = "running"
  BY <1>2, <1>3 DEF Lifecycle!Next, Lifecycle!Begin, Seen
<1>4. CASE s = "completed"
  BY <1>2, <1>4 DEF Lifecycle!Next, Lifecycle!Complete, Lifecycle!Jobs, Lifecycle!Finished, Seen,
     Jobs, Finished
<1>5. CASE s = "failed" /\ record.status # "failed"
  BY <1>1, <1>2, <1>5 DEF Lifecycle!Next, Lifecycle!GiveUp, Seen, Records, RunStatus
<1>6. CASE s = "failed" /\ record.status = "failed"
  BY <1>1, <1>6 DEF Seen
<1>7. QED
  BY <1>3, <1>4, <1>5, <1>6 DEF RunStatus

\* A justified update of the job at hand is a step of RunLifecycle.
LEMMA UpdateIsStep ==
  ASSUME RunInv, NEW s \in {"running", "completed", "skipped", "failed"}, MaySay(s), Updated(s),
         record.jobs[job] = IF s = "running" THEN "pending" ELSE "running"
  PROVE  Lifecycle!Next
<1>1. /\ job \in Jobs /\ record \in Records /\ record' \in Records /\ record.status = "running"
      /\ \A i \in Jobs : i < job => record.jobs[i] \in Finished
  BY DEF RunInv, TypeOK, InLoop, MaySay, Updated
<1>2. CASE s # "failed"
  <2>1. record'.jobs = [record.jobs EXCEPT ![job] = s] /\ record'.status = record.status
    BY <1>1, <1>2 DEF Records, Updated
  <2>2. Seen' = [Seen EXCEPT !.jobs[job] = s]
    BY <2>1 DEF Seen
  <2>3. CASE s = "running"
    <3>1. \A i \in 1..(job - 1) : record.jobs[i] \in Lifecycle!Finished
      BY <1>1, RunAssumption DEF Jobs, Finished, Lifecycle!Finished
    <3>2. Lifecycle!StartJob(job)
      BY <1>1, <2>2, <2>3, <3>1 DEF Lifecycle!StartJob, Seen
    <3>3. QED
      BY <1>1, <3>2 DEF Lifecycle!Next, Lifecycle!Jobs, Jobs
  <2>4. CASE s # "running"
    <3>1. Lifecycle!FinishJob(job)
      BY <1>1, <1>2, <2>2, <2>4 DEF Lifecycle!FinishJob, Lifecycle!Finished, Seen
    <3>2. QED
      BY <1>1, <3>1 DEF Lifecycle!Next, Lifecycle!Jobs, Jobs
  <2>5. QED
    BY <2>3, <2>4
<1>3. CASE s = "failed"
  <2>1. record'.jobs = [i \in Jobs |-> IF i = job THEN "failed"
                                       ELSE IF record.jobs[i] = "pending" THEN "cancelled"
                                       ELSE record.jobs[i]]
    BY <1>1, <1>3 DEF Records, Updated
  <2>2. record'.status = "failed" /\ record.jobs[job] = "running"
    BY <1>3 DEF Updated
  <2>3. Lifecycle!FailJob(job)
    BY <1>1, <2>1, <2>2 DEF Lifecycle!FailJob, Lifecycle!Jobs, Jobs, Seen
  <2>4. QED
    BY <1>1, <2>3 DEF Lifecycle!Next, Lifecycle!Jobs, Jobs
<1>4. QED
  BY <1>2, <1>3

\* What the executor may be writing shows a step of RunLifecycle, or nothing:
\* whether the call that writes it returns or raises.
LEMMA WritingIsStep ==
  ASSUME RunInv, record' \in Writing
  PROVE  Lifecycle!Next \/ Seen' = Seen
<1>0. record \in Records /\ {"running", "completed", "failed"} \subseteq RunStatus
  BY DEF RunInv, TypeOK, RunStatus
<1>1. CASE pc = "head" /\ job > NumJobs
  <2>1. record' = SetWorkflow(record, "completed") /\ record.status = "running" /\ ~runFailed
    BY <1>1 DEF Writing, RunInv, InLoop
  <2>2. \A i \in Jobs : i < job
    BY <1>1, RunAssumption DEF RunInv, TypeOK, Jobs
  <2>3. \A j \in Jobs : record.jobs[j] \in Finished
    BY <1>1, <2>1, <2>2 DEF RunInv, InLoop
  <2>4. QED
    BY <1>0, <2>1, <2>3, StatusIsStep
<1>2. CASE pc = "head" /\ ~(job > NumJobs) /\ runFailed
  <2>1. job \in Jobs
    BY <1>2, RunAssumption DEF RunInv, TypeOK, Jobs
  <2>2. record' = SetJob(record, job, "cancelled") /\ record.jobs[job] = "cancelled"
    BY <1>2, <2>1 DEF Writing, RunInv, InLoop, Jobs
  <2>3. record' = record
    BY <1>0, <2>1, <2>2, SetJobFacts DEF JobStatus
  <2>4. QED
    BY <2>3 DEF Seen
<1>3. CASE pc = "head" /\ ~(job > NumJobs) /\ ~runFailed
  <2>1. job \in Jobs
    BY <1>3, RunAssumption DEF RunInv, TypeOK, Jobs
  <2>2. record' = SetJob(record, job, "running") /\ record.jobs[job] = "pending"
    BY <1>3, <2>1 DEF Writing, RunInv, InLoop, Jobs
  <2>3. MaySay("running") /\ "running" \in JobStatus
    BY <1>3, <2>1 DEF MaySay, JobStatus
  <2>4. Updated("running")
    BY <2>1, <2>2, <2>3, SetJobUpdates
  <2>5. QED
    BY <2>2, <2>3, <2>4, UpdateIsStep
<1>4. CASE pc = "prepare"
  <2>1. PICK s \in {"failed", "skipped"} :
          record' \in {SetJob(record, job, s), WithErrors(SetJob(record, job, s), job)}
    BY <1>4 DEF Writing
  <2>2. record.jobs[job] = "running"
    BY <1>4 DEF RunInv, InLoop
  <2>3. MaySay(s) /\ Updated(s)
    BY <1>4, <2>1, PrepareMaySay, SetJobUpdates
  <2>4. QED
    BY <2>2, <2>3, UpdateIsStep
<1>5. CASE pc = "collect" /\ collected = Groups
  <2> DEFINE s == IF jobFailed THEN "failed" ELSE "completed"
  <2>1. record' = JobVerdict
    BY <1>5 DEF Writing
  <2>2. MaySay(s) /\ Updated(s) /\ s \in {"running", "completed", "skipped", "failed"} /\ s # "running"
    BY <1>5, <2>1, VerdictMaySay
  <2>3. record.jobs[job] = "running"
    BY <1>5 DEF RunInv, InLoop
  <2> HIDE DEF s
  <2>4. QED
    BY <2>2, <2>3, UpdateIsStep
<1>6. QED
  BY <1>1, <1>2, <1>3, <1>4, <1>5 DEF Writing

\* Every step of a run is one of RunLifecycle, or shows nothing.
LEMMA RunStepIsStep ==
  ASSUME RunInv, AnswersMayBeLost \/ NotCompletedYet, [Next]_vars
  PROVE  Lifecycle!Next \/ Seen' = Seen
<1>0. record \in Records /\ {"running", "completed", "failed"} \subseteq RunStatus
  BY DEF RunInv, TypeOK, RunStatus
<1>1. CASE UNCHANGED record
  BY <1>1 DEF Seen
<1>2. CASE RecordLaunchFailure \/ RecordLaunchFailureRaises \/ Except \/ ExceptRaises
  <2>1. AnswersMayBeLost \/ record.status # "completed"
    BY <1>2 DEF RecordLaunchFailure, RecordLaunchFailureRaises, Except, ExceptRaises,
       NotCompletedYet, RunInv, BeforeLoop
  <2>2. record' = SetWorkflow(record, "failed") \/ record' = record
    BY <1>2 DEF RecordLaunchFailure, RecordLaunchFailureRaises, Except, ExceptRaises
  <2>3. QED
    BY <1>0, <1>1, <2>1, <2>2, StatusIsStep
<1>3. CASE Start \/ StartRaises
  <2>1. record' \in {record, SetWorkflow(record, "running")} /\ record.status = "submitted"
    BY <1>3 DEF Start, StartRaises, RunInv, BeforeLoop
  <2>2. QED
    BY <1>0, <1>1, <2>1, StatusIsStep
<1>4. CASE CompleteRun \/ CancelJob \/ BeginJob \/ ConcludeJob \/ CleanupRaises
  <2>1. CASE CompleteRun \/ ConcludeJob \/ CleanupRaises
    BY <2>1, WritingIsStep DEF CompleteRun, ConcludeJob, CleanupRaises, Writing
  <2>2. CASE CancelJob \/ BeginJob
    <3>1. job <= NumJobs
      BY <2>2 DEF CancelJob, BeginJob
    <3>2. job \in Nat /\ NumJobs \in Nat
      BY RunAssumption DEF RunInv, TypeOK
    <3>3. ~(job > NumJobs)
      BY <3>1, <3>2
    <3>4. QED
      BY <2>2, <3>3, WritingIsStep DEF CancelJob, BeginJob, Writing
  <2>3. QED
    BY <1>4, <2>1, <2>2
<1>5. CASE CallRaises
  BY <1>1, <1>5, WritingIsStep DEF CallRaises
<1>7. CASE PrepareFails \/ TemplateFails \/ CreateFails \/ NoTasks \/ SkipJob
  <2>1. PICK s \in {"failed", "skipped"} :
          record' \in {SetJob(record, job, s), WithErrors(SetJob(record, job, s), job)}
    BY <1>7 DEF PrepareFails, TemplateFails, CreateFails, NoTasks, RejectJob, SkipJob
  <2>2. pc = "prepare" /\ record.jobs[job] = "running"
    BY <1>7 DEF PrepareFails, TemplateFails, CreateFails, NoTasks, RejectJob, SkipJob, RunInv, InLoop
  <2>3. MaySay(s) /\ Updated(s)
    BY <2>1, <2>2, PrepareMaySay, SetJobUpdates
  <2>4. QED
    BY <2>2, <2>3, UpdateIsStep
<1>9. QED
  <2> USE DEF submission, local, threads
  <2>1. CASE Server \/ ServerDies
    BY <1>1, <1>2, <2>1 DEF Server, PutRecord, PutRaises, Launch, LaunchRaises, ServerDies
  <2>3. CASE StartGroups \/ StartGroupsRaises \/ FailRun \/ ExecutorDies \/ \E g \in Groups : Collect(g)
    BY <1>1, <2>3 DEF StartGroups, StartGroupsRaises, FailRun, ExecutorDies, Collect
  <2>4. CASE \E j \in Jobs, g \in Groups : GroupEnds(j, g)
    BY <1>1, <2>4 DEF GroupEnds
  <2>5. CASE UNCHANGED vars
    BY <1>1, <2>5 DEF vars
  <2>6. QED
    BY <1>2, <1>3, <1>4, <1>5, <1>7, <2>1, <2>3, <2>4, <2>5 DEF Next, Executor

\* The record keeps the lifecycle of RunLifecycle: nothing that can go wrong in
\* the executor makes a reader see a job out of turn, a verdict revoked, or a
\* FAILED job in a run that goes on; but COMPLETED may turn FAILED where the
\* record store loses answers.
THEOREM LifecycleIsKept == Spec => LifecycleKept
<1>1. Init => Lifecycle!Init
  BY DEF Init, NewRecord, Lifecycle!Init, Lifecycle!Jobs, Jobs
<1>2. RunInv /\ (AnswersMayBeLost \/ NotCompletedYet) /\ [Next]_vars => [Lifecycle!Next]_Seen
  BY RunStepIsStep
<1>3. CASE AnswersMayBeLost
  <2>1. RunInv /\ [Next]_vars => [Lifecycle!Next]_Seen
    BY <1>2, <1>3
  <2>2. QED
    BY <1>1, <2>1, RunInvInvariant, PTL DEF Spec, LifecycleKept, Lifecycle!Spec, Seen
<1>4. CASE ~AnswersMayBeLost
  <2>1. Spec => []NotCompletedYet
    BY <1>4, NotCompletedYetInvariant
  <2>2. QED
    BY <1>1, <1>2, <2>1, RunInvInvariant, PTL DEF Spec, LifecycleKept, Lifecycle!Spec, Seen
<1>5. QED
  BY <1>3, <1>4

=============================================================================
