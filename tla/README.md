# Planetary Computer Tasks: specifications

TLA+ specifications of the parts of Planetary Computer Tasks (PCTasks) whose
correctness depends on the order of events, TLC configurations that check them
on small instances, and TLAPS proofs of what matters most for every size. Paths
are relative to the repository, mostly under `pctasks/`.

## 1. The system

A client submits a *workflow*: jobs that run one after another, each job split
into *partitions*, each partition a sequence of *tasks*. The server stores a
record of the run and asks Argo to start an executor. The executor runs the
jobs, submits their tasks to Azure Batch, and follows them through blobs. A
*streaming* workflow instead deploys workers that read a queue for ever.

| component | state it keeps | operations | talks to |
|---|---|---|---|
| Server (`server/routes/`, `run/workflow/argo.py`) | `WorkflowRecord`s and `WorkflowRunRecord`s in Cosmos DB, uploaded code | create, update, list and submit workflows, store code | Cosmos DB, Argo, blob storage |
| Executor, main thread (`executor/remote.py:849-1338`) | position in the job list, `workflow_failed`, `job_outputs`, futures of the groups; run and job statuses in the record | start the run, cancel, prepare, split into groups, collect, conclude each job, conclude the run | Cosmos DB, the group threads |
| Executor, one thread per group (`complete_job_partition_group`, `remote.py:500-830`, `executor/models.py`) | three counters, the runner's failed tasks, a `JobPartitionState` with a `TaskState` per partition; `JobPartitionRunRecord`s | poll, read output and status blobs, submit, wait and resubmit, complete, fail, notify | task runner, blob storage, Cosmos DB |
| Simple and streaming executors (`executor/simple.py`, `streaming.py`) | outputs of tasks and jobs; Deployments and scalers | run tasks in the process; deploy a task for a queue | Kubernetes, blob storage |
| Task instance (`task/run.py`) | output blob, status blob | write RUNNING, run the task, write output, write the end | blob storage |
| Task runners (`run/task/batch.py`, `argo.py`, `local.py`, `run/batch/`, `run/argo/`, `run/workflow/local.py`) | Batch jobs and tasks, caches and locks; Argo workflows; the development server's cache; a pool of local runs | submit, list failed tasks, clean up, launch a run | Azure Batch, Argo |
| Streaming worker (`task/streaming.py`, `dataset/streaming.py`) | message at hand, message count; queue, item/update/error records | receive, create items, put records, delete the message | storage queue, Cosmos DB |
| Cosmos DB access (`core/cosmos/`, `core/utils/backoff.py`) | - | put, bulk put by stored procedure, paged queries, retries | Cosmos DB |
| Record counters (`deployment/cosmosdb/scripts`, `pctasks_funcs/*CF`) | a run in its workflow's record, copies of records in other containers | triggers and change feed functions | Cosmos DB |
| Storage event pipeline (`pctasks_funcs/StorageEvents*`, `PublishItemsCF`, `ingest_task/streaming.py`) | events container, dispatch queues, ingest queue, pgstac | record, dispatch, publish, ingest | queues, Cosmos DB, pgstac |
| Datasets' tasks (`dataset/`, `ingest_task/`) | chunk files, item files, pgstac | split, list, chunk, create items, ingest items and collections | blob storage, pgstac |
| Storage (`core/storage/`) | blobs or files | walk, list, read, write, delete; names and URIs | Azure Storage, file system |
| Summaries (`core/utils/summary.py`, `task/common/summarize.py`) | - | summarize JSON documents, merge | blob storage |
| Templating and preparation (`run/template.py`, `run/task/prepare.py`) | none | substitute, build the task's input | table storage, key vault |
| Clients, command lines, development server (`client/`, `dev/`) | the request at hand | one call at a time, repeated when throttled | the server |
| Router, notifications | none | one message at a time | queues |
| `datasets/` | none | per data set item code | - |

What is hard in it:

* **Several writers without transactions.** Records are read, changed and put
  back without etags by the server, the main thread and the group threads.
* **Answers out of order.** The output blob, the status blob and the runner's
  list of failures are three channels about one task, read at different times;
  the list may be from before a resubmission.
* **Retries.** A task may ask to wait and is submitted again under the same id
  and output path. A queue message reappears while it is still processed.
* **Partial failure.** Any storage or database call may raise, possibly after
  it took effect; handlers catch some of it, in places where part of the work
  is done and recorded.
* **Crashes.** The server, the executor, task instances, streaming workers and
  hosts of functions end anywhere; nothing resumes an executor.
* **Delivery.** Queues redeliver, change feeds read a batch again after a death
  and pass over one that raised.
* **Limits and counters.** Slots of a group, waits of a task, deliveries of a
  message.

What makes each part correct: a group's loop ends, and only with all its
partitions settled and recorded; it never exceeds its slots; tasks of a
partition run in order on recorded outputs; a run is COMPLETED only on
completed jobs, a job only on completed groups, and verdicts wait for threads;
readers of the record see a fixed lifecycle; every submitted run gets a
verdict; no message leaves the queue without its records; records do not go
back in time. The code lines where these are at risk are the hazards listed in
`PROJECT.json`.

## 2. The modules

```
GroupPromise  <--refines-- PartitionGroup        (+ PartitionGroup_proofs)
     | (a group, as its caller sees it)
     v
WorkflowRun   --refines--> RunLifecycle          (+ WorkflowRun_proofs)
StreamingTask                                    (+ StreamingTask_proofs)

MC_services:   BatchRunner  TaskRunners              (+ Runners_proofs)
               RecordFeeds  EventDispatch            (+ Feeds_proofs)
               ItemIngest  CollectionIngest          (+ Ingest_proofs)
MC_libraries:  DatasetPipeline                       (+ Ingest_proofs)
               CosmosWrites  StorageFiles            (+ Storage_proofs)
               StorageWalk <-- DatasetSplits         (+ Storage_proofs)
               StreamSubmission  WorkflowApi         (+ Submission_proofs)
               Summaries  SimpleWorkflow
```

The modules below the line are specifications of their own with `Init`, `Next`
and fairness; `MC_services` and `MC_libraries` only put several of them into
one run. A behaviour of such a run is one of the part it chooses at the start.

### PartitionGroup

One thread in `complete_job_partition_group` and the task instances it
submitted. The thread's `pc` is the phase of a *visit*: `output` (read the
output blob), `status` (status blob and runner's failures), `act` (the
`if`/`elif` chain on the task's status), and `submit`, `submitted`, `prepare`,
`finish`, `notify` where a call that can raise, or that others can observe,
splits the handling. `loop` is the head of the `while`. The thread runs to its
next read of shared state in one action, because nothing else reads its memory.

| state | code |
|---|---|
| `running`, `completed`, `failed` | `running_task_count`, `completed_job_count`, `failed_job_count` |
| `runnerFailed` | `runner_failed_tasks`, kept between polls |
| `part`, `cur`, `task`, `outputs` | `JobPartitionState.status`, `.current_task`, `TaskState`, `.task_outputs` |
| `record` | `JobPartitionRunRecord` and its task records |
| `inst`, `output`, `blob` | instances by attempt, the output blob, the status blob |

`PollRunner` and `PollRunnerJobFailed` are the due poll, `SkipPoll` one that is
not due; `ReadOutput`/`SkipOutput`, `ReadStatusBlob`/`SkipStatusBlob` likewise:
elapsed time is a choice. `ExpireWait` is `update_if_waiting`. `Submit` has the
outcomes accepted, rejected and accepted-with-a-lost-answer. `CompletionRaises`
and `PrepareRaises` are the two inner `except` blocks; an exception outside
them is `ThreadRaises`. The
operators on task states (`AfterOutput`, `AfterStatusBlob`, `SetWaiting` and so
on) are the methods of `TaskState`, those on records the functions
`update_*_status`. `InstanceStarts/WritesOutput/Exits/Crashes` is `run_task`.

`GroupPromise` is the abstract specification: each partition is undecided,
succeeded or failed; the group returns or raises; only a group whose partitions
have all succeeded may return without a failed one.

### WorkflowRun

The submission handler (`server`, `told`), the executor's main thread (`pc`,
`job`, `runFailed`, `outputs`) and the groups of the job at hand (`group`,
`collected`, `jobFailed`), around one `record`. A group is what `GroupPromise`
shows: it ends succeeded, failed or raised. `Start` to `CompleteRun`/`FailRun`
are the branches of `execute_workflow_internal`, in its order; `StartGroups`,
`Collect`, `ConcludeJob`, `CleanupRaises` those of `execute_job_partitions`;
`Except` the handler that marks the run FAILED. Every call outside the inner
handlers may raise (`CallRaises`), after a write that took effect when
`AnswersMayBeLost`. `ServerDies`, `ExecutorDies` end a process; the threads die
with the executor's process but outlive an exception of its main thread.
Argo failures come back as a result (`Launch` with `told = "failed"`), since
`ArgoWorkflowRunner.submit_workflow` catches them.

`RunLifecycle` is the abstract specification of the record its readers see: the
run is submitted, running, completed or failed; jobs run one at a time in
order; a failing job fails the run and cancels the jobs to come in the same
update; verdicts are final.

Jobs are numbered in the order `sort_jobs` returns; its algorithm is not part
of this module. `JobStatus` has the values the executor writes.

### StreamingTask

`StreamingTaskMixin.run` with `StreamingCreateItemsTask`, several workers on one
queue. Message m is the storage event of version m of one blob, whose items are
keyed as `StacItemRecord.get_id` keys them when items carry no version: all
versions share the record. `Receive` hides a message and raises its
`dequeue_count`; its pop receipt is valid until the next delivery.
`CreateItems` reads the blob *as it then is*; `CreateRaises` is the `except` of
`process_message`, which returns an error record; `ParseRaises` an exception
that reaches the loop of `run`. `PutItem`, `PutUpdate` and `PutError` are the
puts of `finalize_message`, one action each; `PutRaises` one that raises, with
or without effect. `FinishMessage`, `DropMessage` and `LeaveMessage` are the
`else` and `except` branches with the counting against `message_limit`; a
deletion with an old receipt raises out of `run`, as it is outside (or in the
handler of) the `try`. `Reappear` is the visibility timeout, `WorkerDies` and
`Restart` the Kubernetes deployment.

With `TimelyProcessing` a message does not reappear while the worker that holds
it works on it: the visibility timeout is configured above the processing time,
as the warning at `streaming.py:178` asks.

### Around the executor: the parts of MC_services

* **`BatchRunner`** (`run/task/batch.py`, `run/batch/client.py`). The main
  thread prepares and makes the Batch job (`GetJob`, `AddJob`); each poller submits
  its task and polls. `createCache` and `failedCache` are the two TTL caches, which
  `CreationExpires` and `FailedExpires` empty. A thread that finds no cached answer
  takes the lock with its look at the job (`TakeLock`, `PollJob`) and lists with it
  held (`ListFailed`). A look at the job that raises anything but an error response
  ends the thread with the lock released (`PollJobBreaks`). The service moves by itself,
  operators terminate, delete or restart. `Cleanup` terminates a job only if it was
  prepared: one that an `AddJob` with a lost answer made is left active.
* **`TaskRunners`** (`run/task/local.py`, `argo.py`, `run/argo/client.py`,
  `dev/local_dev_endpoints.py`, `run/workflow/local.py`). `work` is what a task does,
  `service` what the runner's service knows of it, `known` what the executor
  knows; `PollTask` is the answer of one poll, `PollRaises` and `ArgoRaises` its
  exceptions. `LaunchNext` is the launching of runs, which shares nothing with
  the tasks.
* **`RecordFeeds`** (`deployment/cosmosdb/scripts`, `pctasks_funcs/WorkflowRunsCF`,
  `WorkflowsCF`). Documents are versions. A trigger replaces the record one
  level up in the transaction of the put; a feed hands over the latest version
  of what changed, in batches, and the function copies it.
* **`EventDispatch`** (`StorageEventsQueue`, `StorageEventsCF`) and **`ItemIngest`**
  (`PublishItemsCF`, `ingest_task/streaming.py`): a storage event's way to the
  queues of its rules, and an item's way from the records to pgstac.
* **`CollectionIngest`** (`ingest_task/task.py`, `collection.py`): concurrent
  ingests of one collection, whose existence is asked before the load.

### The libraries and what is built on them: the parts of MC_libraries

* **`CosmosWrites`** (`core/cosmos/container.py`, `backoff.py`,
  `bulkput-workflowruns.js`): one `bulk_put`, with throttled calls that took effect, in
  full or in part, and a procedure that runs out of time; the documents it did not come to
  are the history `unreached`.
* **`StorageWalk`** (`core/storage/base.py`, `blob.py`, `local.py`): `walk` with all its
  options, level by level in a pool's order for blobs, depth first for
  directories. `name_starts_with` is where a blob storage begins (`start`), and what a
  local one asks of each folder while it goes through all of them (`named`).
  `folder_matches_at_depth` is a set of at most one depth (`atDepth`): an explicit 0, which no
  folder has, is not the same as none. **`DatasetSplits`** (`dataset/splits/`) extends it:
  `create-splits` runs one such walk for each split of each asset storage, of either kind.
* **`StorageFiles`**: reads, writes, deletions and listings by several clients of
  one container, and the names, URIs and substorages they are addressed by. A page of a
  listing is a set of places in the order of the names.
* **`DatasetPipeline`** (`dataset/chunks`, `dataset/items`, `dataset/workflow.py`,
  `ingest_task/items.py`, `pgstac.py`): create-chunks, list-chunks, create-items,
  ingest-items over a chunkset in several runs of the workflow, and the ingest
  of a folder of files. A run of create-items has a limit (`ItemLimits`); an asset beyond
  it is `left`. Each run is assumed to find the same assets. A file's lines are a function from the places of the assets
  it was made of to their items, and the lines of several files are ordered by file and
  place: which group of an insert a line falls into is a number, not a fold.
* **`Summaries`**: summaries of JSON documents and every kind of merge; neighbours
  are merged in any grouping.
* **`SimpleWorkflow`** (`executor/simple.py`, `run/template.py`): order of jobs,
  `foreach`, references to arguments, items and outputs.
* **`StreamSubmission`** (`executor/streaming.py`, `run/workflow/kubernetes.py`,
  `run/task/prepare.py`): submissions at the same time. Each prepares a task and writes its
  input; the remote executor hands it to a runner (`HandToRunner`), the streaming one deploys
  it with a scaler, per queue. `PreparedTask` has the image, environment, tags and the tokens
  of its blobs; what gives the task access to each blob is a token under the remote executor,
  which asks for them, and the principal in a Deployment, which does not. Kubernetes is
  external: it refuses a container without an image, before it looks whether the Deployment
  is there, and merges a patch into what is there (`Merged`; of what an earlier
  submission left, an environment variable that is no longer given stays too, which is left out).
* **`WorkflowApi`** (`client/client.py`, `server/routes/workflows.py`, `code.py`): a
  client's phases (ask, get, confirm, upload, send) and the handlers of its
  requests. `AnswerLost` repeats the request while its handler goes on, so
  that one call may have several handlers at work. The handler of a submission puts the
  run's record, launches the run and, if the launch raises, looks the record up and puts it as
  FAILED before it answers 500 (`HandlerPuts`, `HandlerLaunches`, `HandlerRaises`: each put
  may raise before or after its effect). `launched` is what the runner has taken, `failedRuns`
  what is recorded as failed. Argo's refusal is an answer of 200 that tells of it (`refused`). `wasThere` is the history of the
  records during a call, which the answers are compared with.

## 3. What is checked

| run | instance | properties |
|---|---|---|
| `group_slots` | 2 partitions x 2 tasks, 1 slot; tasks and runner fail | `ConcurrencyRespected`, `DoneMeansSettled`, `GroupEnds` |
| `group_outcome` | the same, with unpreparable tasks, raising notifications, lost submission answers | `TaskOrder`, `NeverFalselyComplete`, `RecordAgrees`, `PromiseKept` |
| `group_waits` | 1 partition x 2 tasks that wait, 1 retry; raising notifications, lost answers; last job | `EndsAreFinal` |
| `run_verdict` | 3 jobs x 2 groups, all faults | `VerdictSupported`, `JobsRunInOrder`, `VerdictWaitsForThreads`, `LifecycleKept`, `RunEnds` |
| `stream_loss` | 2 workers, 2 messages (1 malformed), 2 items, late and repeated deliveries, dying workers | `NoSilentLoss`, `UpdatesFollowItems` |
| `stream_fresh` | 1 worker, 2 messages, 2 items, the same faults | `RecordsAreFresh` |
| `stream_ends` | 2 workers, 2 messages (1 without items), message limit 2, raising calls, timely processing | `DeletionsAreAccepted`, `MessagesAreSettled` |
| `services` | per part: 2 pollers with raising calls and operators; 2 tasks of either runner, 2 launched runs; 2 runs and 3 puts; 2 events and 2 rules of one queue; 2 items, 1 worker; 3 ingests of a collection, 2 broken connections; one further fault each | `OneListingPerPeriod`, `FailuresHold`, `FailuresSurface`; `RunnerAnswersHold`, `RunnersTellFailures`; `CopiesGoForward`, `ListsCatchUp`; `EventsArrive`, `DuplicatesExplained`; `NoItemVanishes`, `ItemsSettle`; `CollectionCreatedOnce` |
| `libraries` | per part: 4 documents of 2 partition keys in groups of 2; every tree of 4 folders with every option up to 2, on both storages; splits over the same trees; 2 clients of 3 files; any 4 of 7 documents; 3 assets in chunks of 2 and 2 runs, with a limit of 1 or none; 49 workflows of up to 3 jobs; 2 submissions; 2 clients of the server; throttles and one or two faults each | `BulkPutHonest`; `WalkIsComplete`; `SplitsCover`; `StorageAnswersHold`; `SummariesCount`; `IngestsComplete`; `ReferencesResolve`; `TasksFindTheirs`, `StreamsPaired`; `ApiCallsHold` |

Each property is stated in words above its definition. Every one is also
checked against at least one *wrong version* of the code: operators such as
`DecrementForgotten` or `DropMessageEarly`, kept next to the definition they
vary and commented as such, under which TLC finds the property violated.

Runs that are expected to find a violation, because the code departs from what
its comments and documents say:

| run | what it shows |
|---|---|
| `group_wait_slots` | `remote.py:659` lowers `running_task_count` on every visit to a waiting task, so a group runs more tasks than `max_concurrent_partition_tasks`. |
| `group_stale_wait` | The output blob of an attempt that asked to wait is read again for the next attempt (`models.py:291`); a task that asked once is failed for waiting "more than 1 times". |
| `run_lost_errors` | Errors of templating are added to a stale copy of the record (`remote.py:1183`) and never stored. |

Disagreements noted without a run of their own:

* *Group loop.* A partition whose next task cannot be prepared is counted as
  failed in every pass (`remote.py:758-771`); the loop may end with another
  partition's task running and its record RUNNING.
* *Streaming worker.* The log at `streaming.py:167` says "Deleting message after 3
  failures", but `dequeue_count` counts deliveries, including those to workers
  that died, so a message may be dropped at its first failure.
  `docs/user_guide/streaming.md:221` says messages are deleted "when they're
  successfully processed", but an exception of `create_items_function` becomes a
  record and the message is deleted at once, never tried again.
* *Runners.* `LocalWorkflowRunner` lowers `_workflow_count` without ever raising it, so
  its pool is never shut down. `get_failed_tasks` of the local and the Argo runner
  polls with a count of 0: a lost task is pending for ever. `int("wait_and_fail")`
  in the development endpoint raises, and the task is RUNNING for ever. An
  exception of Argo's API ends the group's thread.
* *Launches.* A launch that Argo refuses is answered 200 with the record left SUBMITTED, and
  the command line (`client/workflow/commands.py:210-213`) prints "Submitted workflow" without a look
  at the result's status. A put of the run's record that raises after its effect, or a
  server that dies after it, leaves a SUBMITTED run that nobody launched.
* *Client and server.* A retried upload sends a file that has been read to its end.
  A retried creation is answered 409 after its effect; a retried submission starts
  a second run. Two concurrent creations both succeed. Arguments are checked by the
  client only, against the record it has read. With `max_pages`, `_yield_page_results`
  starts over after the last page. An update replaces the record with its run counts.
* *Storage.* `blob.py:447` keeps files modified *before* `since_date`, which
  `base.py:51` documents as the opposite. `with_backoff(fetch_blobs)` is given a
  generator and never retries. A retried download appends to what is there; a
  retried deletion, or upload without overwriting, fails on its own effect. A local
  walk never counts files; a blob walk looks at `walk_limit` between levels only; a
  limit of 0 is none. `folder_matches` is asked of the prefix itself, and of what is above it, on
  a local storage only. `delete_folder` on blobs deletes siblings whose names begin
  with the folder's.
* *Splits.* `splits/task.py:57-60` means to "avoid walking through the same prefix
  twice", but removes names from a list the walk does not go by; nested prefixes
  give targets twice. A depth of 0 makes every folder a target. The limit does not
  leave the loop over the splits of an input, and is not looked at after an input without
  splits (`task.py:78-83`). An option given with its default
  value does not go over the storage's (`splits/models.py:91`).
* *Templates and preparation.* `template.py:64` tests an index for truth, so
  `child[0]` selects nothing. A `foreach` over one item gives a dict, over none
  makes references to it fail. `prepare.py:90` merges an image's tags only if it has
  an environment. Names after the first in an image table begin with a blank.
* *Summaries.* A top-level merge drops keys that only its first summary has, a merge
  with a mixed summary its counts; key sets are cut before they are sorted.
* *Image keys of streaming tasks.* `prepare.py:208` says that an image key is translated to
  an image, and `docs/user_guide/workflows.md:134-152` offers the key in place of the image; but the
  Deployment takes the definition's `image` (`kubernetes.py:239`), which is None with a key. Kubernetes
  refuses it: such a workflow is never deployed. `TasksFindTheirs` says what holds: what is
  deployed runs the image that was prepared, hence none with a key is.
* *Items.* When `create_item` raises, the result of the asset before is used again
  (`items/task.py:206`). `create_chunks_workflow` lets create-chunks refer to
  create-splits without `needs`. `bulk_put` ignores the answer of its procedure.
* `SplitsCover`, `StorageAnswersHold`, `ApiCallsHold`, `SummariesCount` and
  `ReferencesResolve` say what holds in spite of these; their comments name the
  exceptions.

Limits of the properties, all found with TLC:

* `ConcurrencyRespected`: not when tasks wait (`group_wait_slots`).
* `DoneMeansSettled`: not when preparation may raise (see above).
* `EndsAreFinal`: not when preparation may raise. If preparing fails once and
  then succeeds, tasks of a FAILED partition are submitted.
* `GroupEnds` is checked without failing preparations.
* `EndsAreFinal`: a completion that raises after its COMPLETED was recorded has it
  overwritten with FAILED; the formula excepts that.
* `LifecycleKept`: when answers may be lost, COMPLETED may be stored and then
  overwritten with FAILED by the handler; `RunLifecycle` allows that step then.
* `RunEnds`: a run may keep its status when a process dies, when the handler's
  own record access raises, or when Argo rejects the submission.
* A FAILED run may still run tasks: `StartGroupsRaises` leaves threads behind.
* `RecordsAreFresh`: not with several workers. One reads version 1, another
  puts the items of version 2, the first then puts those of version 1.
* `MessagesAreSettled`, `DeletionsAreAccepted`: only with timely processing.
* `BulkPutHonest`: the documents before which the procedure ran out of time are lost, as
  `bulk_put` ignores its answer; the property says that exactly those are.
* `StreamsPaired`: submissions for one queue that overlap, or one that fails between its two
  objects, leave a Deployment and a scaler of different submissions.
* `ApiCallsHold`: two creations at the same time may both succeed.
* `FailuresSurface`: a job terminated with queued tasks and no failed one is polled
  for ever; `RunnersTellFailures` excepts tasks the service has lost.
* `ListsCatchUp`, `EventsArrive`, `ItemsSettle`: but for batches in which a function
  raised, which a change feed does not read again.

### Bounds

* Partitions, tasks, jobs, groups: two of each (three jobs) give every
  relation the properties speak of: a task before another, a partition beside
  another that competes for its slot, a job before, at and after the one that
  fails, a group that ends before another.
* `RunningFloor` saturates `running_task_count` at -2. Only the comparison with
  the limit reads it, and it goes below zero only when tasks wait.
* `Attempts` is 1..`MaxWaitRetries`+1, the most the code submits. One retry
  distinguishes an attempt from its predecessor.
* `MaxDequeues` is 3 or more, so that every message can reach the third delivery,
  where the handling changes. A message is not received again beyond the bound.
* `NumItems` = 2 separates the two loops of puts; 2 messages let a late one
  overlap its successor.
* In `services` and `libraries`: two of what competes (threads, clients, submissions,
  events, items), three where a third could see two others at work (ingests of a
  collection) or a group must have a rest (documents, assets, chunks). Faults are
  one or two per behaviour: each property excepts or survives a fault at every
  point, and a second one of the same kind finds the retries used up: `MaxApiFaults` is 2
  with two tries of a request, so that a call can lose both answers, and a launch that raises
  can meet a repair that does. Four folders give a tree with a branch and a depth of three,
  below and above every limit. At most one limit of a walk is given, and at most one
  folder fails `folder_matches`: the tests do not read each other's outcome.
* Sizes: `services` has 88,109 distinct states (depth 27), `libraries` 1,671,590 (depth 41, two
  minutes with two workers), of which walks are 101,820, splits 15,909 and the dataset's
  workflow 28,452.
* Deadlock is not checked: loops and runs end, and the specifications then stop.

### Fairness

* The group's thread is scheduled (`WF`). The poll of the runner, the read of
  an output that is there and the end of a wait are guarded in the code by
  elapsed intervals; the loop comes by again and again and the interval does
  elapse, hence `SF`. Instances end (`WF`): the code sets no task timeout,
  so this is an assumption on the tasks.
* The server's handler and the executor's thread are scheduled (`WF`); every
  group ends, which is `GroupEnds`. Deaths and raising calls are never required.
* The visibility timeout ends (`WF` on `Reappear`; a worker that holds the
  message is done before it). Workers are scheduled and Kubernetes restarts
  those that end (`WF` on `Work`).

* Batch: threads are scheduled and the cache expires (`WF`); a call of the API that
  may raise does not raise for ever (`SF` on `PollJob` and `ListFailed`): pollers
  ask again each period. Change feeds and queues deliver (`WF` on the functions'
  steps), as Azure Functions promise; ingesting workers are restarted. Faults
  are never required.

## 4. What is proved

For all values of the constants, within the named assumptions of the modules.

* **`PartitionGroup_proofs`.** `TypeCorrect` (`TypeOK`; a task is never resubmitted
  beyond `max_wait_retries`) from `TypeInv == TypeOK /\ PhaseOK`; `PhaseOK`
  says what the phase of a visit implies about the task at hand, without which
  the task operations could be applied to the wrong status. `OutcomeCorrect`
  (`NeverFalselyComplete`) from `OutcomeInv`: until some partition has failed
  (or the thread aborted), the failure count is 0 and the completion count is
  the number of completed partitions, so a loop that ends has completed all.
  The counters do *not* count partitions afterwards (a partition whose task cannot
  be prepared is counted in every pass); the disjunct `AnyFailed` is what remains
  true. `PromiseIsKept`: each step of the loop is a step of `GroupPromise` or a stutter.

  `TasksInOrder` (`TaskOrder`) and `RecordsAgree` (`RecordAgrees`), under every fault of
  the model, from `LoopInv`: for each partition, what its record, its outputs and its
  instances say of the tasks before the one at hand, of that one by the phase of
  the visit, and of those to come. `EndsStayFinal` (`EndsAreFinal`) from `OnwardInv`,
  if every task can be prepared (`UnpreparableTasks = {}`). Three theorems about the
  count of slots, from `SlotInv` and `CountInv`, which relate the counters to the set of
  partitions that hold a slot: `LimitRespected` (`ConcurrencyRespected`) and `CountIsExact` under
  `PromptTasks`, `EndMeansSettled` (`DoneMeansSettled`) under `PromptTasks` and
  `~CompletionMayRaise`. The hypotheses are those under which the code's counting is right,
  and TLC has a counterexample without each: a waiting task gives its slot
  back on every visit, an unpreparable one on every pass, an instance whose
  submission lost its answer has no slot, and a completion that raises is counted twice.
* **`WorkflowRun_proofs`.** `RunTypeCorrect`, `RunVerdictCorrect`,
  `RunOrderCorrect`, `RunVerdictWaits` from `RunInv`: the types, `BeforeLoop`
  (until the executor starts, nothing has been touched), `InLoop` (jobs before
  the one at hand have finished, those after it are untouched, or cancelled after
  a failure) and the three safety properties. An update of the record is
  split from the step that makes it (`UpdateIsSafe`, `WritingIsSafe`), so one
  argument covers the update that succeeds and the one that raises after it
  took effect. `LifecycleIsKept` proves, by the same split (`WritingIsStep`), that the
  server and the executor implement `RunLifecycle` under every fault.
* **`StreamingTask_proofs`.** `StreamTypeCorrect`, `StreamLosesNothing`
  (`NoSilentLoss`) and `StreamUpdatesFollow` (`UpdatesFollowItems`), for any
  number of workers, from `StreamInv`: the properties and `WorkerInv`, which
  says what has been put for the message at hand at each step of a worker.
  Records are only added (`Grow`), so a step of one worker preserves what the
  others rely on (`StepKeepsInv`).

  `OneWorkerKeepsFresh` (`RecordsAreFresh`), if there is one worker, from
  `FreshInv`: the version being put is that of the message or newer, and the items put
  for it are. `TimelyDeletionsAccepted` (`DeletionsAreAccepted`), under `TimelyProcessing`, from
  `HoldInv`: a message in work is hidden, is its worker's only, and the receipt is valid.
* **`Runners_proofs`.** `ListedOnce` (`OneListingPerPeriod`) and `FailuresAreReal` (`FailuresHold`)
  from `BatchInv`: what the main thread has made of the job, that the cache of failed
  tasks is filled only by the holder of the lock, once between two expiries, and that what
  is in it or in a thread's hands has failed. `RunnerAnswersAreReal` (`RunnerAnswersHold`)
  from `AnswerInv`, what each answer says of the task, and `PoolInv`, the pool's one thread.
* **`Feeds_proofs`.** `CopiesAreExplained` (`DuplicatesExplained`) from `EventInv`: for each
  event and queue, the copies made, one more if the batch at hand still owes one, and one
  more if the event is still to be read, together do not exceed puts and deaths. The
  property alone, a bound on the copies, is not inductive.
  `CopiesNeverGoBack` (`CopiesGoForward`) from `FeedInv`: the versions in a batch
  that has been read are not behind the copies and not ahead of the records.
* **`Ingest_proofs`.** `ItemsAreKept` (`NoItemVanishes`) from `ItemInv`, the property with what
  a worker has made of the message it holds. `CreatedAtMostOnce` (`CollectionCreatedOnce`)
  from `CollectionInv`: what a task has seen of the collection, by its phase, and
  who may have inserted a row that was not there before.
  `IngestsAreComplete` (`IngestsComplete`) and `DatasetIsTyped` from `DatasetIInv`: what is
  true of a chunk by where its tasks are (`ChunkOK`), a file never written again within
  the run that loads it, and for the folder (`FolderOK`) that each file is in the database, still
  to be prepared, in the group at hand or named as failed. Two lemmas carry it: every line of a
  file has a number, whose group is one of those loaded (`LoadFacts`, with `GroupOfPlace`
  on the division that makes the groups), and every asset is in exactly one chunk
  (`ChunkOfAsset`, `ChunksDisjoint`).
* **`Storage_proofs`.** `BulkPutIsHonest` (`BulkPutHonest`) from `PutPart`: what is stored or
  unreached is a prefix of the documents that ends where a group does (`GroupEndFacts`), also
  while a call is repeated that took effect in part. The end of a group is the least of
  a set of numbers; that it has one is `LeastOf`, by well-founded induction.

  `WalkComplete` (`WalkIsComplete`) and `WalkIsTyped`, for any tree, options and order of the
  listings, from `WalkIInv`. The depth of a folder and whether folder_matches lets the walk
  get to it are recursive functions over the tree; that they exist and satisfy their equation
  is `RecursionExists` and `RecursionSame`, proved from `LeastOf` once for every function that
  climbs to smaller numbers. The invariant has a set of folders that were visited
  (`Visits`): with those in `todo` it is closed under matching children; what
  was yielded is what of it lies between the depths (`Yields`); a blob storage's
  levels are of one depth each (`Levels`), the stack of a local one is of disjoint sets
  (`LocalStack`), and the files yielded are what `file_limit` counts (`Sums`). A folder that is
  reached and was not visited has, at the least of them, a parent that was.

  `SplitsAreCovered` (`SplitsCover`) and `SplitsAreTyped`, for any tree, collection and limit, from
  `SplitsIInv`, which has `WalkIInv` in it: a walk that is done has yielded the folders at
  which its split divides the tree (`WalkDivides`); what the walks so far should have made
  targets (`Due`) are the targets, each of them once, where `from` tells which walk a target is of
  (`TargetsOK`); and the targets beyond the limit are counted (`LimitOK`). Above a folder
  there is one folder of a depth (`OneAtDepth`), so the targets that take it in are in bijection
  with the splits that divide it (`CoveringCounts`). The attempt to prove it showed that the
  property had been wrong: it said that only the further splits of the last input may pass the limit,
  but the code counts targets in the walks only (`splits/task.py:69-74`), so inputs without
  splits pass it too. TLC finds that with two of them before one with splits; the property now
  counts them (`Undivided`), and the run has such a collection.

  `StorageAnswers` (`StorageAnswersHold`) and `FilesAreTyped`, for any names, prefixes, number of
  clients and throttled requests, from `FilesIInv`: for each client what its phase says
  of what it has seen (`AnswerOK`), and that each name of its folder that the pages have passed is on
  the page, listed, or was missing at some time (`PagesOK`). `seen` only grows while a call
  runs (`SeenKept`), so the steps of the others preserve both. That a listed path leads
  back to its file is a fact about the operators on names (`PathsLeadBack`, from `RelPathFacts` and
  `SpelledFacts`), which the states do not enter.
* **`Submission_proofs`.** `SubmittedTasksFindTheirs` (`TasksFindTheirs`) and `StreamsArePaired`
  (`StreamsPaired`) from `SubmissionInv`: what is prepared of a definition
  (`PreparedEnvironment`, `PreparedBlobs` and their like: lemmas about the operators
  that merge the image table's values, substitute secrets and choose the access to each
  blob), that what is deployed or handed over is of a submission that wrote its input, that no
  Deployment is there without the image prepared for it, so that a patch leaves none
  either, and why a queue's scaler may be of another submission than its Deployment (`ScalerPart`).
  The assumptions about the constants say what the code's models validate: a value of an
  environment is a text or a secret, code is a source or requirements.
  `ApiAnswersAreTrue` (`ApiCallsHold`) from `ApiInv`, which says of each client
  what its phase implies (`CallOK`), of each of its requests, the lost ones
  included, what its handler's stage implies for the run's record and its launch
  (`HandlerDone`, `SubmitOnly`), of its runs
  (`RunsOK`) and of its listing (`ListOK`). A step of one client changes
  for the others only the records, which `wasThere` keeps (`BystanderKeeps`).
  The attempt to prove it showed that the property had been wrong: a run of a *lost*
  request may fit none but a record stored after its client had given up on it. The
  property now says that the arguments fit some record of the call's time, and the run has
  the calls that tell the two apart.

Only model-checked, and why:

* Liveness, which the prover cannot treat: `GroupEnds`, `RunEnds`, `MessagesAreSettled`,
  `FailuresSurface`, `RunnersTellFailures`, `ListsCatchUp`, `EventsArrive`, `ItemsSettle`.
* `SummariesCount` and `ReferencesResolve`: what `Merge`, `SummarizeDict` and `Fetch` compute is
  defined by recursion over documents and values nested to any depth (`RECURSIVE`
  operators), and what holds of it for every input takes an induction over that data.

Type invariants are proved where there are theorems (`TypeOK` of the first three modules,
`WalkTypeOK`, `SplitsTypeOK` and those of `StorageFiles` and `DatasetPipeline` as theorems of
their own, the others as parts of the invariants named above) and so in no run; those of the
remaining modules were model-checked by themselves.

## 5. What is not modelled

* Logging, tracing, the lifetime of tokens, and the wording of errors. One log line
  is a step that can raise: `PublishItemsCF/__init__.py:38-39` reads the item's collection after
  the send, and a KeyError there is `PublishRaises` after its effect.
* Paged queries (`query_paged`). What a repeated fetch of a page gives depends on whether the
  iterator of azure-core keeps its continuation token when a fetch raises; that is not in
  this repository, and a model would assume what it should show.
* Two writers of one run's record at the same instant: a record is read, changed and put
  without an etag, but the server writes before the launch or after one that raised, the
  executor is the only writer of a run once it has started, and each partition belongs
  to one thread.
  (`bulk_put` of the partition records is part of creating a job's partitions; its
  failure is `CreateFails` or `CallRaises`, its inside is `CosmosWrites`.)
* `TaskState.poll` and `BatchClient.get_task_status`, which nothing calls from the
  loop; `cancel_tasks`, reachable only for a status nothing writes.
* The router and the notification functions: nothing calls the router's handlers. Its
  dispatch could not reach them either: a message of type `EventGrid` goes to a
  handler that expects a type beginning with `Microsoft.Storage`, and a webhook has no
  registration key. (`validate_table_key` asks for the category of the prohibited
  characters, not of the key's.)
* Reads of one record, of logs, and authentication in the server; commands of
  profiles, settings and storage in the command lines: one call, no state kept.
* A streaming message without a time at which it is visible again (`next_visible_on`): the
  queue always gives one to a message it hands out.
* Counts in workflow and run records: their own comments call them not correct.
* `datasets/`: data, not protocol.

## 6. Plan

Done: the executor and its group loop, the streaming worker, the services, the libraries
and the API around them, checked; proofs about all but what section 4 names. What is left:

1. `SummariesCount` and `ReferencesResolve`, for which the recursive operators must become
   recursive functions over numbered documents and templates.
2. That `BatchRunner` gives what `PartitionGroup` assumes of `Submit` and `PollRunner`.
3. The shares of the concurrency limit and the order of collected outputs in
   `execute_job_partitions`; `sort_jobs` of the remote executor.
4. Update workflows (`modify_for_update`), whose chunksets are named for a date.
