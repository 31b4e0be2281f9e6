------------------------------ MODULE TaskRunners ------------------------------
(***************************************************************************)
(* The runners besides Batch.  LocalTaskRunner sends the tasks to the      *)
(* development endpoints, a server that runs them in the background and    *)
(* keeps their status in a cache; ArgoTaskRunner makes each a workflow of  *)
(* Argo's.  A thread of the executor asks them which tasks have failed, one*)
(* after the other.  Runs of workflows are launched on a thread of the     *)
(* process (LocalWorkflowRunner), or in Argo too.                          *)
(***************************************************************************)
EXTENDS Naturals, Integers, FiniteSets

CONSTANTS
  RunnerTasks,     \* current tasks of a group
  LaunchedRuns,    \* submissions of workflows
  MaxRunnerFaults  \* bound: lost answers, raising calls, restarts, and lost entries

ASSUME RunnerAssumption ==
  IsFiniteSet(RunnerTasks) /\ IsFiniteSet(LaunchedRuns) /\ MaxRunnerFaults \in Nat

VARIABLES
  runnerType,    \* "local" or "argo"
  tags,          \* of each task: "", "fail_submit" or "wait_and_fail"
  known,         \* what the executor knows of a task
  service,       \* what the endpoints' cache or Argo answers of it, "none" if unknown there
  work,          \* what has become of it: "none", "queued", "runs", "completed", "failed", "dead"
  badImage,      \* tasks whose image can't be pulled (Argo)
  terminated,    \* tasks whose termination has been asked for (Argo)
  polls,         \* tasks get_failed_tasks has yet to ask for
  asking,        \* whether it is under way
  found,         \* tasks it has found failed so far
  unpullable,    \* the task it is about to terminate
  raisedPolls,   \* history: tasks whose poll raised (local)
  threadRaised,
  launch,        \* of each run: "none", "file", "queued", "runs", "ended", "refused"
  pool,          \* the thread pool of LocalWorkflowRunner: 0 if none, or its number
  poolOf,
  workflowCount,
  runnerFaults

taskVars == <<tags, known, service, work, badImage, terminated>>
askVars == <<polls, asking, found, unpullable, raisedPolls, threadRaised>>
launchVars == <<launch, pool, poolOf, workflowCount>>
runnerVars == <<runnerType, taskVars, askVars, launchVars, runnerFaults>>

Ended == {"failed", "error", "completed"}

RunnerTypeOK ==
  /\ known \in [RunnerTasks -> {"new", "submitted", "refused", "completed", "failed"}]
  /\ service \in [RunnerTasks -> {"none", "created", "pending", "running"} \union Ended]
  /\ work \in [RunnerTasks -> {"none", "queued", "runs", "completed", "failed", "dead"}]
  /\ polls \union found \union unpullable \subseteq RunnerTasks
  /\ launch \in [LaunchedRuns -> {"none", "file", "queued", "runs", "ended", "refused"}]
  /\ runnerFaults \in 0..MaxRunnerFaults

RunnerBegins(type, tag) ==
  /\ runnerType = type /\ tags = tag
  /\ known = [t \in RunnerTasks |-> "new"] /\ service = [t \in RunnerTasks |-> "none"]
  /\ work = [t \in RunnerTasks |-> "none"] /\ badImage = {} /\ terminated = {}
  /\ polls = {} /\ asking = FALSE /\ found = {} /\ unpullable = {} /\ raisedPolls = {}
  /\ threadRaised = FALSE
  /\ launch = [r \in LaunchedRuns |-> "none"] /\ pool = 0
  /\ poolOf = [r \in LaunchedRuns |-> 0] /\ workflowCount = 0
  /\ runnerFaults = 0

RunnerInit ==
  \E type \in {"local", "argo"}, tag \in [RunnerTasks -> {"", "fail_submit", "wait_and_fail"}] :
    /\ type = "argo" => \A t \in RunnerTasks : tag[t] = ""
    /\ RunnerBegins(type, tag)

Fault == runnerFaults < MaxRunnerFaults /\ runnerFaults' = runnerFaults + 1
Local == runnerType = "local"
Argo == runnerType = "argo"
SetEntry(t, status) == service' = [service EXCEPT ![t] = status]
Becomes(t, end) == work' = [work EXCEPT ![t] = end]

(***************************************************************************)
(* Submission and the services                                             *)
(***************************************************************************)
TaskAccepted(t) ==
  /\ known[t] = "new" /\ ~asking /\ ~threadRaised
  /\ SetEntry(t, IF Argo THEN "created" ELSE IF tags[t] = "fail_submit" THEN "failed" ELSE "pending")
  /\ Becomes(t, IF tags[t] = "fail_submit" THEN "failed" ELSE "queued")
  /\ UNCHANGED <<runnerType, tags, badImage, terminated, askVars, launchVars>>

SubmitCurrentTask(t) ==
  /\ TaskAccepted(t) /\ known' = [known EXCEPT ![t] = "submitted"]
  /\ UNCHANGED runnerFaults

\* The answer is lost: the task is taken for refused, and runs.
SubmitUnheard(t) ==
  TaskAccepted(t) /\ known' = [known EXCEPT ![t] = "refused"] /\ Fault

SubmitRefused(t) ==
  /\ known[t] = "new" /\ ~asking /\ ~threadRaised /\ Fault
  /\ known' = [known EXCEPT ![t] = "refused"]
  /\ UNCHANGED <<runnerType, tags, service, work, badImage, terminated, askVars, launchVars>>

\* submit_task of the endpoints, in the background
BackgroundBegins(t) ==
  /\ Local /\ work[t] = "queued" /\ Becomes(t, "runs") /\ SetEntry(t, "running")
  /\ UNCHANGED <<runnerType, tags, known, badImage, terminated, askVars, launchVars, runnerFaults>>

BackgroundEnds(t, end) ==
  /\ Local /\ work[t] = "runs" /\ tags[t] # "wait_and_fail"
  /\ Becomes(t, end) /\ SetEntry(t, end)
  /\ UNCHANGED <<runnerType, tags, known, badImage, terminated, askVars, launchVars, runnerFaults>>

\* The seconds to wait are the tag's name, which is no number: the task stays
\* RUNNING in the cache.
WaitAndFail(t) ==
  /\ Local /\ work[t] = "runs" /\ tags[t] = "wait_and_fail" /\ Becomes(t, "dead")
  /\ UNCHANGED <<runnerType, tags, known, service, badImage, terminated, askVars, launchVars, runnerFaults>>

\* The cache drops its oldest entry; or Argo's workflow is deleted.
EntryLost(t) ==
  /\ service[t] # "none" /\ Fault /\ SetEntry(t, "none")
  /\ Becomes(t, IF Argo /\ work[t] \in {"queued", "runs"} THEN "dead" ELSE work[t])
  /\ UNCHANGED <<runnerType, tags, known, badImage, terminated, askVars, launchVars>>

EndpointsRestart ==
  /\ Local /\ Fault
  /\ service' = [t \in RunnerTasks |-> "none"]
  /\ work' = [t \in RunnerTasks |-> IF work[t] \in {"queued", "runs"} THEN "dead" ELSE work[t]]
  /\ UNCHANGED <<runnerType, tags, known, badImage, terminated, askVars, launchVars>>

ArgoMoves(t) ==
  /\ Argo
  /\ \/ service[t] = "created" /\ SetEntry(t, "pending") /\ UNCHANGED work
     \/ service[t] = "pending" /\ SetEntry(t, "running") /\ Becomes(t, "runs")
     \/ service[t] = "running" /\ t \notin badImage /\ SetEntry(t, "completed") /\ Becomes(t, "completed")
     \/ /\ service[t] \in {"pending", "running"} /\ Becomes(t, "failed")
        /\ \E phase \in {"failed", "error"} : SetEntry(t, phase)
     \/ service[t] \in {"created", "pending", "running"} /\ t \in terminated
        /\ SetEntry(t, "failed") /\ Becomes(t, "failed")
  /\ UNCHANGED <<runnerType, tags, known, badImage, terminated, askVars, launchVars, runnerFaults>>

\* Pulling the image fails, or works after all.
ImagePull(t) ==
  /\ Argo /\ service[t] = "running"
  /\ \/ t \notin badImage /\ Fault /\ badImage' = badImage \union {t}
     \/ t \in badImage /\ UNCHANGED runnerFaults /\ badImage' = badImage \ {t}
  /\ UNCHANGED <<runnerType, tags, known, service, work, terminated, askVars, launchVars>>

(***************************************************************************)
(* The executor's thread: outputs and get_failed_tasks                     *)
(***************************************************************************)
ReadTaskOutput(t) ==
  /\ ~asking /\ ~threadRaised /\ known[t] = "submitted" /\ work[t] = "completed"
  /\ known' = [known EXCEPT ![t] = "completed"]
  /\ UNCHANGED <<runnerType, tags, service, work, badImage, terminated, askVars, launchVars, runnerFaults>>

BeginGetFailed ==
  /\ ~asking /\ ~threadRaised /\ asking' = TRUE
  /\ polls' = {t \in RunnerTasks : known[t] = "submitted"} /\ polls' # {} /\ found' = {}
  /\ UNCHANGED <<runnerType, taskVars, unpullable, raisedPolls, threadRaised, launchVars, runnerFaults>>

Polled(t) ==
  /\ t \in polls /\ unpullable = {} /\ polls' = polls \ {t}
  /\ UNCHANGED <<runnerType, taskVars, asking, launchVars>>

\* Wrong version of PollTask: a task that is not found is a failed one
PollTaskMissingFails(t) ==
  /\ Polled(t) /\ found' = IF service[t] \in {"failed", "error", "none"} THEN found \union {t} ELSE found
  /\ UNCHANGED <<unpullable, raisedPolls, threadRaised, runnerFaults>>

\* Wrong version of PollTask: Argo's error is none of the phases
PollTaskIgnoresError(t) ==
  /\ Polled(t) /\ found' = IF service[t] = "failed" THEN found \union {t} ELSE found
  /\ UNCHANGED <<unpullable, raisedPolls, threadRaised, runnerFaults>>

\* poll_task with a count of no previous polls: a task that is not found is a
\* pending one.
PollTask(t) ==
  /\ Polled(t)
  /\ IF service[t] \in {"failed", "error"} THEN found' = found \union {t} /\ UNCHANGED unpullable
     ELSE /\ unpullable' = IF service[t] = "running" /\ t \in badImage THEN {t} ELSE {}
          /\ UNCHANGED found
  /\ UNCHANGED <<raisedPolls, threadRaised, runnerFaults>>

\* An unpullable image: the workflow of the task is terminated.
TerminateWorkflow(t) ==
  /\ t \in unpullable /\ unpullable' = {}
  /\ terminated' = terminated \union {t} /\ found' = found \union {t}
  /\ UNCHANGED <<runnerType, tags, known, service, work, badImage, polls, asking, raisedPolls,
                 threadRaised, launchVars, runnerFaults>>

\* LocalTaskRunner takes any exception for a failed task, ArgoTaskRunner lets it
\* out of the thread.
PollRaises(t) ==
  /\ Local /\ Polled(t) /\ Fault
  /\ found' = found \union {t} /\ raisedPolls' = raisedPolls \union {t}
  /\ UNCHANGED <<unpullable, threadRaised>>

ArgoRaises ==
  /\ Argo /\ polls \union unpullable # {} /\ Fault
  /\ threadRaised' = TRUE /\ asking' = FALSE /\ polls' = {} /\ unpullable' = {} /\ found' = {}
  /\ UNCHANGED <<runnerType, taskVars, raisedPolls, launchVars>>

EndGetFailed ==
  /\ asking /\ polls \union unpullable = {} /\ asking' = FALSE
  /\ known' = [t \in RunnerTasks |-> IF t \in found THEN "failed" ELSE known[t]]
  /\ UNCHANGED <<runnerType, tags, service, work, badImage, terminated, polls, found, unpullable,
                 raisedPolls, threadRaised, launchVars, runnerFaults>>

(***************************************************************************)
(* Launching runs                                                          *)
(***************************************************************************)
LaunchIn(r, from, to) ==
  /\ launch[r] = from /\ launch' = [launch EXCEPT ![r] = to]
  /\ UNCHANGED <<runnerType, taskVars, askVars>>

\* Argo: the submission is written to storage, and then the workflow created.
WriteWorkflowFile(r) ==
  Argo /\ LaunchIn(r, "none", "file") /\ UNCHANGED <<pool, poolOf, workflowCount, runnerFaults>>

CreateArgoWorkflow(r) ==
  Argo /\ LaunchIn(r, "file", "queued") /\ UNCHANGED <<pool, poolOf, workflowCount, runnerFaults>>

LaunchRefused(r) ==
  /\ Argo /\ Fault /\ LaunchIn(r, launch[r], "refused") /\ launch[r] \in {"none", "file"}
  /\ UNCHANGED <<pool, poolOf, workflowCount>>

SubmitToPool(r) ==
  /\ Local /\ LaunchIn(r, "none", "queued")
  /\ pool' = IF pool = 0 THEN 1 + Cardinality({s \in LaunchedRuns : poolOf[s] # 0}) ELSE pool
  /\ poolOf' = [poolOf EXCEPT ![r] = pool']
  /\ UNCHANGED <<workflowCount, runnerFaults>>

\* A pool has one thread.
RunBegins(r) ==
  /\ LaunchIn(r, "queued", "runs")
  /\ Local => \A s \in LaunchedRuns : launch[s] = "runs" => poolOf[s] # poolOf[r]
  /\ UNCHANGED <<pool, poolOf, workflowCount, runnerFaults>>

\* _shutdown_pool: nothing has counted the workflow before, so the count is
\* below zero and the pool stays.
RunDone(r) ==
  /\ LaunchIn(r, "runs", "ended")
  /\ workflowCount' = IF Local THEN workflowCount - 1 ELSE workflowCount
  /\ pool' = IF workflowCount' = 0 /\ Local THEN 0 ELSE pool
  /\ UNCHANGED <<poolOf, runnerFaults>>

RunnerTaskNext ==
  \/ \E t \in RunnerTasks :
       \/ SubmitCurrentTask(t) \/ SubmitUnheard(t) \/ SubmitRefused(t)
       \/ BackgroundBegins(t) \/ (\E end \in {"completed", "failed"} : BackgroundEnds(t, end))
       \/ WaitAndFail(t) \/ EntryLost(t) \/ ArgoMoves(t) \/ ImagePull(t)
       \/ ReadTaskOutput(t) \/ PollTask(t) \/ TerminateWorkflow(t) \/ PollRaises(t)
  \/ EndpointsRestart \/ BeginGetFailed \/ ArgoRaises \/ EndGetFailed

LaunchNext ==
  \E r \in LaunchedRuns :
    \/ WriteWorkflowFile(r) \/ CreateArgoWorkflow(r) \/ LaunchRefused(r)
    \/ SubmitToPool(r) \/ RunBegins(r) \/ RunDone(r)

RunnerNext == RunnerTaskNext \/ LaunchNext

\* The thread goes on: in particular it asks again while a task is submitted.
AskSteps ==
  \/ BeginGetFailed \/ EndGetFailed
  \/ \E t \in RunnerTasks : PollTask(t) \/ TerminateWorkflow(t)

RunnerSpec == RunnerInit /\ [][RunnerNext]_runnerVars /\ WF_runnerVars(AskSteps)

(***************************************************************************)
(* Properties                                                              *)
(***************************************************************************)
\* A task that the executor takes for failed has failed, or its termination has
\* been asked for, or the local runner's poll raised; it is not enough that the
\* service has lost it.  Local runs go one at a time.
RunnerAnswersHold ==
  /\ \A t \in RunnerTasks :
       known[t] = "failed" => work[t] = "failed" \/ t \in terminated \union raisedPolls
  /\ Local => Cardinality({r \in LaunchedRuns : launch[r] = "runs"}) <= 1

\* A failed task that was submitted becomes known as failed, unless the service
\* loses it or the thread is gone.
RunnersTellFailures ==
  \A t \in RunnerTasks :
    known[t] = "submitted" /\ work[t] = "failed" ~>
      known[t] = "failed" \/ service[t] = "none" \/ threadRaised

=============================================================================
