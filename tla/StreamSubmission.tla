--------------------------- MODULE StreamSubmission ---------------------------
(***************************************************************************)
(* What is prepared for a task, and how a streaming task is submitted.     *)
(* Each submission, in a process of its own, prepares one task and writes  *)
(* its input.  The remote executor then hands the task to its runner, the  *)
(* StreamingWorkflowExecutor creates or updates a Deployment that runs it, *)
(* and the scaler of that Deployment.  Both are named for the queue the    *)
(* task reads.  Kubernetes looks at what it is to create before it looks   *)
(* whether it is there: a container without an image is refused, and       *)
(* create_or_update raises.                                                *)
(***************************************************************************)
EXTENDS Naturals, Sequences, FiniteSets

CONSTANTS
  Submissions,     \* tasks of runs
  StreamQueues,
  Definitions,     \* task definitions to choose from: [streaming, queue, image, environment,
                   \* tags, code, resources], image given or "" for the image key,
                   \* code a set of "src" and "requirements"
  ImageTable,      \* what was set for the image key: [environment, tags], each a
                   \* sequence of [name, value], or NoImage
  Secrets,         \* the secrets there are
  PrincipalSet,    \* whether the settings have the TaskIO service principal
  MaxSubmitFaults  \* bound: processes that die and requests that fail

NoImage == [image |-> ""]
NoOne == "none"

\* A value of an environment is [secret] to be replaced or [text].
ASSUME StreamSubmissionAssumption ==
  /\ MaxSubmitFaults \in Nat /\ PrincipalSet \in BOOLEAN /\ NoOne \notin Submissions
  /\ \A d \in Definitions :
       /\ d.streaming \in BOOLEAN /\ d.queue \in StreamQueues /\ d.code \subseteq {"src", "requirements"}
       /\ \A n \in DOMAIN d.environment : DOMAIN d.environment[n] \in {{"secret"}, {"text"}}
  /\ ImageTable # NoImage =>
       \A list \in {ImageTable.environment, ImageTable.tags} : list \in Seq({list[i] : i \in DOMAIN list})

VARIABLES
  definition,   \* of each submission
  submitState,
  runMessage,   \* what each has prepared
  inputs,       \* submissions whose input is in the Task IO container
  deployments, scalers,  \* by queue: [of, image] and [of], [of |-> NoOne] if none
  submitFaults,
  endedBefore   \* history: submissions that had ended when this one began

submissionVars ==
  <<definition, submitState, runMessage, inputs, deployments, scalers, submitFaults, endedBefore>>

Absent == [of |-> NoOne]
Queue(s) == definition[s].queue

(***************************************************************************)
(* The blobs of a task: prepare_task, run_cmd and run_task                 *)
(***************************************************************************)
NoToken == [blob |-> "none"]
Principal == [blob |-> "any"]

\* A token is for one blob of one task and for reading or for writing.  (That it
\* ends after seven days is left out.)
Sas(s, blob, permission) == [blob |-> blob, of |-> s, permission |-> permission]

\* Requirements without code are not looked at.
CodeBlobs(d) == IF "src" \in d.code THEN d.code ELSE {}

\* Wrong version of BlobConfigs: every token is for writing
BlobConfigsWriteAll(s, generateSasTokens) ==
  [blob \in {"status", "log", "output"} \union CodeBlobs(definition[s]) |->
     IF generateSasTokens THEN Sas(s, blob, "write") ELSE NoToken]

\* The configs of the blobs a task uses beside its input
BlobConfigs(s, generateSasTokens) ==
  LET code == CodeBlobs(definition[s])
  IN  [blob \in {"status", "log", "output"} \union code |->
         IF ~generateSasTokens THEN NoToken
         ELSE Sas(s, blob, IF blob \in code THEN "read" ELSE "write")]

\* The command of a Deployment names the input only.
InputToken(s) == IF definition[s].streaming THEN NoToken ELSE Sas(s, "input", "read")

\* A Deployment's container has the principal in its environment.
HasPrincipal(s) == definition[s].streaming /\ PrincipalSet

\* What gives access to a blob.  get_storage, by which the input and the log are
\* opened, looks for a principal first, BlobStorage for a token.
PrincipalFirst(blob) == blob \in {"input", "log"}
Access(blob, token, principal) ==
  IF principal /\ (PrincipalFirst(blob) \/ token = NoToken) THEN Principal ELSE token

\* What the task does with a blob
Use(blob) == IF blob \in {"status", "log", "output"} THEN "write" ELSE "read"
Opens(s, blob, token) ==
  Access(blob, token, HasPrincipal(s)) \in {Principal, Sas(s, blob, Use(blob))}

(***************************************************************************)
(* prepare_task_data                                                       *)
(***************************************************************************)
\* A list is written with blanks about its separators and read without them, and
\* only what follows the equals sign is stripped: a name that is not the first
\* one of its list begins with a blank.
ParsedName(list, i) == <<list[i].name, i > 1>>
Plain(name) == <<name, FALSE>>

FromTable(list) ==
  [n \in {ParsedName(list, i) : i \in DOMAIN list} |->
     list[CHOOSE i \in DOMAIN list : ParsedName(list, i) = n].value]
EnvironmentGiven(f) == [n \in {Plain(name) : name \in DOMAIN f} |-> f[n[1]]]

Over(f, g) == [n \in DOMAIN f \union DOMAIN g |-> IF n \in DOMAIN f THEN f[n] ELSE g[n]]

\* What the task says goes before what the table says.  Tags are merged if the
\* table has an environment.
MergedEnvironment(d) == Over(EnvironmentGiven(d.environment), FromTable(ImageTable.environment))
MergedTags(d) ==
  IF DOMAIN d.tags = {} THEN FromTable(ImageTable.tags)
  ELSE IF ImageTable.environment = <<>> THEN EnvironmentGiven(d.tags)
  ELSE Over(EnvironmentGiven(d.tags), FromTable(ImageTable.tags))

SecretsKnown(env) == \A n \in DOMAIN env : "secret" \in DOMAIN env[n] => env[n].secret \in Secrets
Substituted(env) ==
  [n \in DOMAIN env |->
     IF "secret" \in DOMAIN env[n] THEN [text |-> <<"value of", env[n].secret>>] ELSE env[n]]

UsesTable(d) == d.image = ""
Environment(d) == IF UsesTable(d) THEN MergedEnvironment(d) ELSE EnvironmentGiven(d.environment)

\* Wrong version of PreparedTask: the table's environment goes first
PreparedTaskTableFirst(s) ==
  LET d == definition[s]
      env == IF UsesTable(d) THEN Over(FromTable(ImageTable.environment), EnvironmentGiven(d.environment))
             ELSE EnvironmentGiven(d.environment)
  IN  [of |-> s, image |-> IF UsesTable(d) THEN ImageTable.image ELSE d.image,
       environment |-> Substituted(env),
       tags |-> IF UsesTable(d) THEN MergedTags(d) ELSE EnvironmentGiven(d.tags),
       blobs |-> BlobConfigs(s, ~d.streaming)]

PreparedTask(s) ==
  LET d == definition[s]
  IN  [of |-> s, image |-> IF UsesTable(d) THEN ImageTable.image ELSE d.image,
       environment |-> Substituted(Environment(d)),
       tags |-> IF UsesTable(d) THEN MergedTags(d) ELSE EnvironmentGiven(d.tags),
       blobs |-> BlobConfigs(s, ~d.streaming)]

Preparable(d) == (UsesTable(d) => ImageTable # NoImage) /\ SecretsKnown(Environment(d))

(***************************************************************************)
(* Submissions                                                             *)
(***************************************************************************)
SubmissionTypeOK ==
  /\ definition \in [Submissions -> Definitions]
  /\ submitState \in [Submissions -> {"new", "prepared", "written", "built", "patch deployment",
                                      "deployed", "patch scaler", "scaled", "done", "raised", "dead"}]
  /\ inputs \subseteq Submissions /\ submitFaults \in 0..MaxSubmitFaults
  /\ \A q \in StreamQueues : {deployments[q].of, scalers[q].of} \subseteq Submissions \union {NoOne}

SubmissionBegins(defs) ==
  /\ definition = defs
  /\ submitState = [s \in Submissions |-> "new"] /\ runMessage = [s \in Submissions |-> Absent]
  /\ inputs = {} /\ submitFaults = 0
  /\ deployments = [q \in StreamQueues |-> Absent] /\ scalers = [q \in StreamQueues |-> Absent]
  /\ endedBefore = [s \in Submissions |-> {}]

SubmissionInit == \E defs \in [Submissions -> Definitions] : SubmissionBegins(defs)

Goes(s, from, to) == submitState[s] = from /\ submitState' = [submitState EXCEPT ![s] = to]
Ended(s) == submitState[s] \in {"done", "raised", "dead"}

PrepareTask(s) ==
  /\ Goes(s, "new", IF Preparable(definition[s]) THEN "prepared" ELSE "raised")
  /\ runMessage' = IF Preparable(definition[s])
                   THEN [runMessage EXCEPT ![s] = PreparedTask(s)] ELSE runMessage
  /\ endedBefore' = [endedBefore EXCEPT ![s] = {t \in Submissions : Ended(t)}]
  /\ UNCHANGED <<definition, inputs, deployments, scalers, submitFaults>>

WriteTaskRunMsg(s) ==
  /\ Goes(s, "prepared", "written")
  /\ inputs' = inputs \union {s}
  /\ UNCHANGED <<definition, runMessage, deployments, scalers, submitFaults, endedBefore>>

\* The remote executor's task goes to its runner, with the image prepared for it.
HandToRunner(s) ==
  /\ ~definition[s].streaming /\ Goes(s, "written", "done")
  /\ UNCHANGED <<definition, runMessage, inputs, deployments, scalers, submitFaults, endedBefore>>

\* Both objects are built before the first one is submitted.
BuildObjects(s) ==
  /\ definition[s].streaming
  /\ Goes(s, "written", IF PrincipalSet /\ definition[s].resources THEN "built" ELSE "raised")
  /\ UNCHANGED <<definition, runMessage, inputs, deployments, scalers, submitFaults, endedBefore>>

\* The container's image is that of the definition, given or not: the one that was
\* prepared for an image key is not looked at.
Deployment(s) == [of |-> s, image |-> definition[s].image]

\* Wrong version of CreateDeployment: a container without an image is taken
CreateDeploymentAnyway(s) ==
  /\ \/ /\ deployments[Queue(s)] = Absent /\ Goes(s, "built", "deployed")
        /\ deployments' = [deployments EXCEPT ![Queue(s)] = Deployment(s)]
     \/ /\ deployments[Queue(s)] # Absent /\ Goes(s, "built", "patch deployment")
        /\ UNCHANGED deployments
  /\ UNCHANGED <<definition, runMessage, inputs, scalers, submitFaults, endedBefore>>

\* Refused for want of an image, created, or in conflict with what is there
CreateDeployment(s) ==
  /\ \/ definition[s].image = "" /\ Goes(s, "built", "raised") /\ UNCHANGED deployments
     \/ /\ definition[s].image # "" /\ deployments[Queue(s)] = Absent
        /\ Goes(s, "built", "deployed")
        /\ deployments' = [deployments EXCEPT ![Queue(s)] = Deployment(s)]
     \/ /\ definition[s].image # "" /\ deployments[Queue(s)] # Absent
        /\ Goes(s, "built", "patch deployment") /\ UNCHANGED deployments
  /\ UNCHANGED <<definition, runMessage, inputs, scalers, submitFaults, endedBefore>>

\* A patch is merged into what is there: the command, with the input, is replaced,
\* and an image that is not given is left as it was.
Merged(old, new) == [new EXCEPT !.image = IF new.image = "" THEN old.image ELSE new.image]

PatchDeployment(s) ==
  /\ Goes(s, "patch deployment", "deployed")
  /\ deployments' = [deployments EXCEPT ![Queue(s)] = Merged(@, Deployment(s))]
  /\ UNCHANGED <<definition, runMessage, inputs, scalers, submitFaults, endedBefore>>

\* Wrong version of CreateScaler: a scaler that is there is left as it is
CreateScalerOnce(s) ==
  /\ Goes(s, "deployed", "scaled")
  /\ scalers' = IF scalers[Queue(s)] = Absent
                THEN [scalers EXCEPT ![Queue(s)] = [of |-> s]] ELSE scalers
  /\ UNCHANGED <<definition, runMessage, inputs, deployments, submitFaults, endedBefore>>

CreateScaler(s) ==
  /\ IF scalers[Queue(s)] = Absent
     THEN /\ Goes(s, "deployed", "scaled")
          /\ scalers' = [scalers EXCEPT ![Queue(s)] = [of |-> s]]
     ELSE Goes(s, "deployed", "patch scaler") /\ UNCHANGED scalers
  /\ UNCHANGED <<definition, runMessage, inputs, deployments, submitFaults, endedBefore>>

PatchScaler(s) ==
  /\ Goes(s, "patch scaler", "scaled")
  /\ scalers' = [scalers EXCEPT ![Queue(s)] = [of |-> s]]
  /\ UNCHANGED <<definition, runMessage, inputs, deployments, submitFaults, endedBefore>>

SubmitReturns(s) ==
  /\ Goes(s, "scaled", "done")
  /\ UNCHANGED <<definition, runMessage, inputs, deployments, scalers, submitFaults, endedBefore>>

\* A request is refused, or its answer is lost after its effect, or the process dies
SubmissionFails(s, how) ==
  /\ submitState[s] # "new" /\ ~Ended(s) /\ submitFaults < MaxSubmitFaults
  /\ submitState' = [submitState EXCEPT ![s] = how]
  /\ submitFaults' = submitFaults + 1
  /\ UNCHANGED <<definition, runMessage, inputs, deployments, scalers, endedBefore>>

SubmissionNext ==
  \E s \in Submissions :
    \/ PrepareTask(s) \/ WriteTaskRunMsg(s) \/ HandToRunner(s) \/ BuildObjects(s)
    \/ CreateDeployment(s) \/ PatchDeployment(s) \/ CreateScaler(s) \/ PatchScaler(s)
    \/ SubmitReturns(s)
    \/ \E how \in {"raised", "dead"} : SubmissionFails(s, how)

SubmissionSpec == SubmissionInit /\ [][SubmissionNext]_submissionVars

(***************************************************************************)
(* Properties                                                              *)
(***************************************************************************)
Overlap(s, t) == s \notin endedBefore[t] /\ t \notin endedBefore[s]
Partly(s) == submitState[s] \in {"deployed", "patch scaler", "raised", "dead"}

\* The task finds what its definition says, secrets replaced, and of the image
\* table's environment what the definition does not say.  (Of that only the first
\* name is what was set: see ParsedName.)
EnvironmentRight(s) ==
  LET env == runMessage[s].environment
      d == definition[s]
  IN  /\ \A name \in DOMAIN d.environment :
           /\ Plain(name) \in DOMAIN env
           /\ "text" \in DOMAIN d.environment[name] => env[Plain(name)] = d.environment[name]
      /\ \A n \in DOMAIN env : "secret" \notin DOMAIN env[n]
      /\ UsesTable(d) /\ ImageTable.environment # <<>> =>
           LET first == ImageTable.environment[1]
           IN  \/ first.name \in DOMAIN d.environment
               \/ env[Plain(first.name)] = Substituted([n \in {Plain(first.name)} |-> first.value])[Plain(first.name)]

\* So do its tags find theirs, unless the table has tags only and the task its own.
TagsRight(s) ==
  LET tags == runMessage[s].tags
      d == definition[s]
  IN  /\ \A name \in DOMAIN d.tags :
           Plain(name) \in DOMAIN tags /\ tags[Plain(name)] = d.tags[name]
      /\ UsesTable(d) /\ ImageTable.tags # <<>>
           /\ (DOMAIN d.tags # {} => ImageTable.environment # <<>>) =>
           LET first == ImageTable.tags[1]
           IN  first.name \in DOMAIN d.tags \/ tags[Plain(first.name)] = first.value

\* The process can do what it does with each blob: with the tokens it was given by the
\* remote executor, or with the principal of its Deployment.
BlobsInReach(s) ==
  /\ Opens(s, "input", InputToken(s))
  /\ CodeBlobs(definition[s]) \subseteq DOMAIN runMessage[s].blobs
  /\ \A blob \in DOMAIN runMessage[s].blobs : Opens(s, blob, runMessage[s].blobs[blob])

Deployed(s) == \E q \in StreamQueues : deployments[q].of = s
Handed(s) == ~definition[s].streaming /\ submitState[s] = "done"

\* What has been set going finds what it needs, by whichever executor: its input is
\* written, with the environment and tags of its definition, its blobs open for what it
\* does with them, and a Deployment runs the image that was prepared for its task.  (So no
\* task with an image key is ever deployed.)
TasksFindTheirs ==
  /\ \A s \in Submissions : Deployed(s) \/ Handed(s) =>
       s \in inputs /\ EnvironmentRight(s) /\ TagsRight(s) /\ BlobsInReach(s)
  /\ \A q \in StreamQueues :
       LET d == deployments[q] IN d.of # NoOne => d.image = runMessage[d.of].image /\ d.image # ""

\* A queue's scaler has a Deployment to scale, and both are of one submission, unless
\* the Deployment's own has not come to its scaler, or the two were at it at a time.
StreamsPaired ==
  \A q \in StreamQueues :
    LET d == deployments[q].of
        c == scalers[q].of
    IN  /\ c # NoOne => d # NoOne
        /\ d # c => Partly(d) \/ (c # NoOne /\ Overlap(d, c))

=============================================================================
