---------------------------- MODULE SimpleWorkflow ----------------------------
(***************************************************************************)
(* SimpleWorkflowExecutor: the jobs of a workflow in an order of their     *)
(* dependencies, one task after the other in this process, each with its   *)
(* references to outputs, items and arguments replaced by their values.    *)
(*                                                                         *)
(* A value is a leaf, a dict [kind, keys] or a list [kind, items]; a       *)
(* reference is a path of [name, index], its index NoIndex if not given.   *)
(***************************************************************************)
EXTENDS Naturals, Integers, Sequences, FiniteSets
LOCAL INSTANCE TLC
LOCAL INSTANCE SequencesExt

CONSTANT
  Workflows  \* definitions to choose from: [args, jobs], jobs a function to
             \* [needs, foreach, tasks], tasks a sequence of [id, arg, makes],
             \* makes the numbers of items that the output may have

NoIndex == -1
None == [kind |-> "none"]
Error == [kind |-> "error"]
Leaf(x) == [kind |-> "leaf", of |-> x]
Dict(f) == [kind |-> "dict", keys |-> f]
ListOf(seq) == [kind |-> "list", items |-> seq]

ASSUME SimpleAssumption ==
  \A w \in Workflows : \A j \in DOMAIN w.jobs : w.jobs[j].tasks # <<>>

VARIABLES
  workflow,     \* the definition
  givenArgs,    \* arguments of the call
  simpleState,  \* "new", "running", "done", "raised"
  jobOrder,     \* base jobs to run, the first one at hand
  items,        \* items of its foreach; one None if it has none
  results,      \* task outputs of the instances that have run
  taskOutputs,  \* and those of the instance at hand
  jobOutputs,
  ran           \* history: tasks that have run, [job, item, task, ref, value, output]

simpleVars ==
  <<workflow, givenArgs, simpleState, jobOrder, items, results, taskOutputs, jobOutputs, ran>>

(***************************************************************************)
(* Templates                                                               *)
(***************************************************************************)
Indexed(v, index) ==
  IF v.kind # "list" \/ Len(v.items) <= index THEN Error ELSE v.items[index + 1]

RECURSIVE Fetch(_, _, _)

\* What a path leads to behind the element at its head
Follow(v, tail) ==
  CASE v.kind = "error" \/ tail = <<>> -> v
    [] v.kind = "dict" -> Fetch(v, tail, TRUE)
    [] v.kind = "list" ->
         IF v.items = <<>> \/ \E i \in DOMAIN v.items : v.items[i].kind # "dict" THEN Error
         ELSE LET values == [i \in DOMAIN v.items |-> Fetch(v.items[i], tail, TRUE)]
              IN  IF Error \in ToSet(values) THEN Error ELSE ListOf(values)
    [] OTHER -> Error

\* Wrong version of Fetch: the index counts from one
FetchFromOne(dict, path, fails) ==
  LET head == Head(path)
  IN  IF head.name \notin DOMAIN dict.keys THEN IF fails THEN Error ELSE None
      ELSE LET v == dict.keys[head.name]
           IN  Follow(IF head.index > 0 THEN Indexed(v, head.index - 1) ELSE v, Tail(path))

\* find_value.  An index is taken if it is true, so not if it is 0.
Fetch(dict, path, fails) ==
  LET head == Head(path)
  IN  IF head.name \notin DOMAIN dict.keys THEN IF fails THEN Error ELSE None
      ELSE LET v == dict.keys[head.name]
           IN  Follow(IF head.index > 0 THEN Indexed(v, head.index) ELSE v, Tail(path))

NoRef == <<>>
Root(ref) == Head(ref).name

\* The value a reference is replaced by; None if it stays as it is.  Arguments
\* are templated first, then the item, then the outputs.
TemplateArg(ref, item) ==
  CASE ref = NoRef -> None
    [] Root(ref) = "args" ->
         IF givenArgs = {} THEN None
         ELSE Fetch(Dict("args" :> Dict([a \in givenArgs |-> Leaf(a)])), ref, FALSE)
    [] Root(ref) = "item" -> IF item.kind = "none" THEN None ELSE Fetch(Dict("item" :> item), ref, FALSE)
    [] Root(ref) = "jobs" -> Fetch(Dict(jobOutputs), Tail(ref), FALSE)
    [] Root(ref) = "tasks" -> Fetch(Dict(taskOutputs), Tail(ref), FALSE)

RECURSIVE Flattened(_)
Flattened(seq) ==
  FlattenSeq([i \in DOMAIN seq |->
    IF seq[i].kind = "list" THEN Flattened(seq[i].items) ELSE <<seq[i]>>])

\* Strict: a job that is not there is an error.
TemplateForeach(foreach) ==
  LET v == IF foreach.ref = NoRef THEN foreach.list
           ELSE IF Root(foreach.ref) = "jobs" THEN Fetch(Dict(jobOutputs), Tail(foreach.ref), TRUE)
           ELSE Error
  IN  IF v.kind # "list" THEN Error
      ELSE IF foreach.ref # NoRef /\ foreach.flatten THEN ListOf(Flattened(v.items)) ELSE v

(***************************************************************************)
(* The executor                                                            *)
(***************************************************************************)
Job(j) == workflow.jobs[j]
Before(seq, j) == {seq[i] : i \in {k \in DOMAIN seq : \E l \in DOMAIN seq : k < l /\ seq[l] = j}}

\* sort_jobs; what a job needs need not be a job of the workflow.
SortJobs ==
  {seq \in SetToSeqs(DOMAIN workflow.jobs) :
     \A j \in DOMAIN workflow.jobs : Job(j).needs \intersect DOMAIN workflow.jobs \subseteq Before(seq, j)}

SimpleTypeOK ==
  /\ workflow \in Workflows /\ givenArgs \subseteq UNION {w.args : w \in Workflows}
  /\ simpleState \in {"new", "running", "done", "raised"}
  /\ jobOrder \in Seq(DOMAIN workflow.jobs)
  /\ DOMAIN jobOutputs \subseteq DOMAIN workflow.jobs
  /\ Len(results) <= Len(items)

SimpleBegins(definition, args) ==
  /\ workflow = definition /\ givenArgs = args /\ simpleState = "new"
  /\ jobOrder = <<>> /\ items = <<>> /\ results = <<>>
  /\ taskOutputs = <<>> /\ jobOutputs = <<>> /\ ran = <<>>

SimpleInit ==
  \E w \in Workflows : \E args \in {w.args} \union {{a} : a \in w.args} : SimpleBegins(w, args)

Raises ==
  /\ simpleState' = "raised"
  /\ UNCHANGED <<workflow, givenArgs, jobOrder, items, results, taskOutputs, jobOutputs, ran>>

\* The next job, if there is one, is prepared: an instance for each item.
PrepareJob(order, outputs) ==
  /\ jobOrder' = order /\ jobOutputs' = outputs
  /\ items' = <<>> /\ results' = <<>> /\ taskOutputs' = <<>>
  /\ simpleState' = IF order = <<>> THEN "done" ELSE "running"
  /\ UNCHANGED <<workflow, givenArgs, ran>>

RunWorkflow ==
  /\ simpleState = "new"
  /\ IF workflow.args # givenArgs \/ SortJobs = {} THEN Raises
     ELSE \E order \in SortJobs : PrepareJob(order, <<>>)

TemplateItems ==
  /\ simpleState = "running" /\ items = <<>> /\ Job(Head(jobOrder)).foreach # None
  /\ LET v == TemplateForeach(Job(Head(jobOrder)).foreach)
     IN  IF v.kind = "error" THEN Raises
         ELSE IF v.items = <<>>
         THEN PrepareJob(Tail(jobOrder), (Head(jobOrder) :> ListOf(<<>>)) @@ jobOutputs)
         ELSE /\ items' = v.items
              /\ UNCHANGED <<workflow, givenArgs, simpleState, jobOrder, results, taskOutputs, jobOutputs, ran>>

NoForeach ==
  /\ simpleState = "running" /\ items = <<>> /\ Job(Head(jobOrder)).foreach = None
  /\ items' = <<None>>
  /\ UNCHANGED <<workflow, givenArgs, simpleState, jobOrder, results, taskOutputs, jobOutputs, ran>>

Instance == Len(results) + 1
TaskAtHand == Job(Head(jobOrder)).tasks[Cardinality(DOMAIN taskOutputs) + 1]

\* An output names the task it is of, and has some items.
Output(task, n) ==
  LET name == <<Head(jobOrder), Instance, task.id>>
  IN  Dict("uri" :> Leaf(name) @@ "items" :> ListOf([i \in 1..n |-> Leaf(Append(name, i))]))

\* Of one instance the outputs of the job are a dict, of several a list of them.
JobOutput(all) ==
  LET entries == [i \in DOMAIN all |-> Dict("tasks" :> Dict(all[i]))]
  IN  IF Len(all) = 1 THEN entries[1] ELSE ListOf(entries)

\* The task completes; with the last one of an instance that has run, and with
\* the last instance the job.
CompleteTask(n) ==
  LET task == TaskAtHand
      value == TemplateArg(task.arg, items[Instance])
      outputs == (task.id :> Dict("output" :> Output(task, n))) @@ taskOutputs
      instanceDone == Cardinality(DOMAIN outputs) = Len(Job(Head(jobOrder)).tasks)
      all == Append(results, outputs)
  IN  /\ value.kind # "error"
      /\ ran' = Append(ran, [job |-> Head(jobOrder), item |-> Instance, task |-> task.id, ref |-> task.arg,
                             value |-> value, given |-> items[Instance], output |-> Output(task, n)])
      /\ IF instanceDone /\ Len(all) = Len(items)
         THEN /\ jobOrder' = Tail(jobOrder)
              /\ jobOutputs' = (Head(jobOrder) :> JobOutput(all)) @@ jobOutputs
              /\ items' = <<>> /\ results' = <<>> /\ taskOutputs' = <<>>
              /\ simpleState' = IF Len(jobOrder) = 1 THEN "done" ELSE "running"
         ELSE /\ results' = IF instanceDone THEN all ELSE results
              /\ taskOutputs' = IF instanceDone THEN <<>> ELSE outputs
              /\ UNCHANGED <<jobOrder, jobOutputs, items, simpleState>>
      /\ UNCHANGED <<workflow, givenArgs>>

RunTask ==
  /\ simpleState = "running" /\ items # <<>>
  /\ \E n \in TaskAtHand.makes : CompleteTask(n)

\* An error of the templates, a task that raises, or a result that is not
\* completed: failed, or to wait
TaskFails ==
  /\ simpleState = "running" /\ items # <<>>
  /\ Raises

SimpleNext == RunWorkflow \/ TemplateItems \/ NoForeach \/ RunTask \/ TaskFails

SimpleSpec == SimpleInit /\ [][SimpleNext]_simpleVars

(***************************************************************************)
(* Properties                                                              *)
(***************************************************************************)
RECURSIVE Ancestors(_)
Ancestors(j) == Job(j).needs \union UNION {Ancestors(k) : k \in Job(j).needs \intersect DOMAIN workflow.jobs}

\* The runs of a task of a job, one for each item, in their order
RunsOf(j, t) == SelectSeq(ran, LAMBDA r : r.job = j /\ r.task = t)
Uris(rs) == [i \in DOMAIN rs |-> rs[i].output.keys["uri"]]

\* What a reference to jobs.J[index].tasks.T.output.uri stands for: the output of
\* the instance of that index, or the outputs of all, or of the one there is.
\* (An index of 0 selects nothing.)
Stands(ref) ==
  LET uris == Uris(RunsOf(ref[2].name, ref[4].name))
  IN  IF ref[2].index > 0 THEN uris[ref[2].index + 1]
      ELSE IF Len(uris) = 1 THEN uris[1] ELSE ListOf(uris)

\* A task that has run got what its reference stands for: the outputs of jobs it
\* needs, those of the tasks before it in the same instance, and its own item.
ReferencesResolve ==
  \A i \in DOMAIN ran : LET r == ran[i] IN r.ref # NoRef =>
    CASE Root(r.ref) = "jobs" ->
           r.ref[2].name \in Ancestors(r.job) /\ r.ref[2].name \in DOMAIN workflow.jobs
             => r.value = Stands(r.ref)
      [] Root(r.ref) = "tasks" ->
           \E k \in 1..(i - 1) : /\ ran[k].job = r.job /\ ran[k].item = r.item
                                 /\ ran[k].task = r.ref[2].name
                                 /\ r.value = ran[k].output.keys["uri"]
      [] Root(r.ref) = "item" -> r.value = r.given
      [] Root(r.ref) = "args" -> r.value = Leaf(r.ref[2].name)

=============================================================================
