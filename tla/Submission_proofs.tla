------------------------- MODULE Submission_proofs --------------------------
(***************************************************************************)
(* What is set going for a task finds what its definition says, and what   *)
(* the client's calls return is true of the server's records: for any      *)
(* number of submissions, clients, workflows and repeated requests, any    *)
(* definitions, image table and page size.                                 *)
(***************************************************************************)
EXTENDS StreamSubmission, WorkflowApi, TLAPS, WellFoundedInduction, FiniteSetTheorems

-----------------------------------------------------------------------------
(* What a task is prepared with                                            *)

\* A name that the definition gives is that of its own value.
LEMMA GivenFacts ==
  ASSUME NEW f, NEW name \in DOMAIN f
  PROVE  Plain(name) \in DOMAIN EnvironmentGiven(f) /\ EnvironmentGiven(f)[Plain(name)] = f[name]
BY DEF Plain, EnvironmentGiven

\* The first name of a list of the table is the one that has no blank before it.
LEMMA FirstOfTable ==
  ASSUME NEW list, list \in Seq({list[i] : i \in DOMAIN list}), list # <<>>
  PROVE  /\ Plain(list[1].name) \in DOMAIN FromTable(list)
         /\ FromTable(list)[Plain(list[1].name)] = list[1].value
<1> DEFINE n == Plain(list[1].name)
<1>1. DOMAIN list = 1..Len(list) /\ Len(list) \in Nat /\ Len(list) # 0
  OBVIOUS
<1>2. 1 \in DOMAIN list
  BY <1>1
<1>3. \A i \in DOMAIN list : i # 1 => i > 1
  BY <1>1
<1>4. ~(1 > 1)
  OBVIOUS
<1>5. ParsedName(list, 1) = n
  <2>1. (1 > 1) = FALSE
    BY <1>4
  <2>2. QED
    BY <2>1 DEF ParsedName, Plain
<1>6. ASSUME NEW i \in DOMAIN list, ParsedName(list, i) = n
      PROVE  i = 1
  <2>1. (i > 1) = FALSE
    BY <1>6 DEF ParsedName, Plain
  <2>2. QED
    BY <1>3, <2>1
<1>7. (CHOOSE i \in DOMAIN list : ParsedName(list, i) = n) = 1
  BY <1>2, <1>5, <1>6
<1>8. n \in {ParsedName(list, i) : i \in DOMAIN list}
  BY <1>2, <1>5
<1> HIDE DEF n
<1>9. FromTable(list)[n] = list[1].value /\ n \in DOMAIN FromTable(list)
  BY <1>7, <1>8 DEF FromTable
<1>10. QED
  BY <1>9 DEF n

\* A task that could be prepared has the environment its definition asks for.
LEMMA PreparedEnvironment ==
  ASSUME NEW s \in Submissions, definition[s] \in Definitions,
         Preparable(definition[s]), runMessage[s] = PreparedTask(s)
  PROVE  EnvironmentRight(s)
<1> DEFINE d == definition[s]
           env == Environment(d)
<1>1. runMessage[s].environment = Substituted(env)
  BY DEF PreparedTask
<1>2. /\ DOMAIN Substituted(env) = DOMAIN env
      /\ \A n \in DOMAIN env : Substituted(env)[n] =
           IF "secret" \in DOMAIN env[n] THEN [text |-> <<"value of", env[n].secret>>] ELSE env[n]
  BY DEF Substituted
<1>3. \A n \in DOMAIN env : "secret" \notin DOMAIN Substituted(env)[n]
  <2> SUFFICES ASSUME NEW n \in DOMAIN env
               PROVE  "secret" \notin DOMAIN Substituted(env)[n]
    OBVIOUS
  <2>1. CASE "secret" \in DOMAIN env[n]
    <3>1. Substituted(env)[n] = [text |-> <<"value of", env[n].secret>>]
      BY <1>2, <2>1
    <3>2. QED
      BY <3>1
  <2>2. CASE "secret" \notin DOMAIN env[n]
    BY <1>2, <2>2
  <2>3. QED
    BY <2>1, <2>2
<1>4. ASSUME NEW name \in DOMAIN d.environment
      PROVE  Plain(name) \in DOMAIN env /\ env[Plain(name)] = d.environment[name]
  <2>1. /\ Plain(name) \in DOMAIN EnvironmentGiven(d.environment)
        /\ EnvironmentGiven(d.environment)[Plain(name)] = d.environment[name]
    BY <1>4, GivenFacts
  <2>2. QED
    BY <2>1 DEF Environment, MergedEnvironment, Over
<1>5. ASSUME NEW name \in DOMAIN d.environment, "text" \in DOMAIN d.environment[name]
      PROVE  Substituted(env)[Plain(name)] = d.environment[name]
  <2>1. DOMAIN d.environment[name] \in {{"secret"}, {"text"}}
    BY StreamSubmissionAssumption
  <2>2. "secret" \notin DOMAIN d.environment[name]
    BY <1>5, <2>1
  <2>3. QED
    BY <1>2, <1>4, <2>2
<1>6. ASSUME UsesTable(d), ImageTable.environment # <<>>,
             ImageTable.environment[1].name \notin DOMAIN d.environment
      PROVE  LET first == ImageTable.environment[1]
             IN  Substituted(env)[Plain(first.name)] =
                   Substituted([n \in {Plain(first.name)} |-> first.value])[Plain(first.name)]
  <2> DEFINE list == ImageTable.environment
             n == Plain(list[1].name)
  <2>1. list \in Seq({list[i] : i \in DOMAIN list})
    BY <1>6, StreamSubmissionAssumption DEF Preparable
  <2>2. n \in DOMAIN FromTable(list) /\ FromTable(list)[n] = list[1].value
    BY <1>6, <2>1, FirstOfTable
  <2>3. n \notin DOMAIN EnvironmentGiven(d.environment)
    BY <1>6 DEF EnvironmentGiven, Plain
  <2>4. n \in DOMAIN env /\ env[n] = list[1].value
    BY <1>6, <2>2, <2>3 DEF Environment, MergedEnvironment, Over
  <2>5. QED
    BY <1>2, <2>4 DEF Substituted
<1>7. QED
  BY <1>1, <1>2, <1>3, <1>4, <1>5, <1>6 DEF EnvironmentRight

\* So it has the tags.
LEMMA PreparedTags ==
  ASSUME NEW s \in Submissions, definition[s] \in Definitions,
         Preparable(definition[s]), runMessage[s] = PreparedTask(s)
  PROVE  TagsRight(s)
<1> DEFINE d == definition[s]
           tags == runMessage[s].tags
<1>1. tags = IF UsesTable(d) THEN MergedTags(d) ELSE EnvironmentGiven(d.tags)
  BY DEF PreparedTask
<1>2. ASSUME NEW name \in DOMAIN d.tags
      PROVE  Plain(name) \in DOMAIN tags /\ tags[Plain(name)] = d.tags[name]
  <2>1. /\ Plain(name) \in DOMAIN EnvironmentGiven(d.tags)
        /\ EnvironmentGiven(d.tags)[Plain(name)] = d.tags[name]
    BY <1>2, GivenFacts
  <2>2. DOMAIN d.tags # {}
    BY <1>2
  <2>3. QED
    BY <1>1, <2>1, <2>2 DEF MergedTags, Over
<1>3. ASSUME UsesTable(d), ImageTable.tags # <<>>,
             DOMAIN d.tags # {} => ImageTable.environment # <<>>,
             ImageTable.tags[1].name \notin DOMAIN d.tags
      PROVE  tags[Plain(ImageTable.tags[1].name)] = ImageTable.tags[1].value
  <2> DEFINE list == ImageTable.tags
             n == Plain(list[1].name)
  <2>1. list \in Seq({list[i] : i \in DOMAIN list})
    BY <1>3, StreamSubmissionAssumption DEF Preparable
  <2>2. n \in DOMAIN FromTable(list) /\ FromTable(list)[n] = list[1].value
    BY <1>3, <2>1, FirstOfTable
  <2>3. n \notin DOMAIN EnvironmentGiven(d.tags)
    BY <1>3 DEF EnvironmentGiven, Plain
  <2>4. Over(EnvironmentGiven(d.tags), FromTable(list))[n] = list[1].value
    BY <2>2, <2>3 DEF Over
  <2>5. tags = FromTable(list) \/ tags = Over(EnvironmentGiven(d.tags), FromTable(list))
    BY <1>1, <1>3 DEF MergedTags
  <2>6. QED
    BY <2>2, <2>4, <2>5
<1>4. QED
  BY <1>2, <1>3 DEF TagsRight

\* And it can use its blobs: by tokens, or by the principal of its Deployment.
LEMMA PreparedBlobs ==
  ASSUME NEW s \in Submissions, definition[s] \in Definitions,
         definition[s].streaming => PrincipalSet, runMessage[s] = PreparedTask(s)
  PROVE  BlobsInReach(s)
<1> DEFINE d == definition[s]
<1>1. CodeBlobs(d) \subseteq {"src", "requirements"} /\ d.streaming \in BOOLEAN
  BY StreamSubmissionAssumption DEF CodeBlobs
<1>2. runMessage[s].blobs = BlobConfigs(s, ~d.streaming)
  BY DEF PreparedTask
<1>3. DOMAIN BlobConfigs(s, ~d.streaming) = {"status", "log", "output"} \union CodeBlobs(d)
  BY DEF BlobConfigs
<1>4. ASSUME d.streaming
      PROVE  /\ Opens(s, "input", InputToken(s))
             /\ \A blob \in DOMAIN runMessage[s].blobs : Opens(s, blob, runMessage[s].blobs[blob])
  <2>1. InputToken(s) = NoToken /\ HasPrincipal(s)
    BY <1>4 DEF InputToken, HasPrincipal
  <2>2. \A blob \in DOMAIN runMessage[s].blobs : runMessage[s].blobs[blob] = NoToken
    BY <1>2, <1>4 DEF BlobConfigs
  <2>3. \A blob : Opens(s, blob, NoToken)
    BY <2>1 DEF Opens, Access
  <2>4. QED
    BY <2>1, <2>2, <2>3
<1>5. ASSUME ~d.streaming
      PROVE  /\ Opens(s, "input", InputToken(s))
             /\ \A blob \in DOMAIN runMessage[s].blobs : Opens(s, blob, runMessage[s].blobs[blob])
  <2>1. InputToken(s) = Sas(s, "input", Use("input")) /\ ~HasPrincipal(s)
    BY <1>5 DEF InputToken, HasPrincipal, Use
  <2>2. \A blob \in DOMAIN runMessage[s].blobs : runMessage[s].blobs[blob] = Sas(s, blob, Use(blob))
    BY <1>1, <1>2, <1>3, <1>5 DEF BlobConfigs, Use
  <2>3. \A blob : Opens(s, blob, Sas(s, blob, Use(blob)))
    BY <2>1 DEF Opens, Access
  <2>4. QED
    BY <2>1, <2>2, <2>3
<1>6. QED
  BY <1>2, <1>3, <1>4, <1>5 DEF BlobsInReach

-----------------------------------------------------------------------------
(* What is deployed                                                        *)

\* What a submission has done by the state it is in
Begun(s) == submitState[s] # "new"
Deploying(s) == submitState[s] \in {"deployed", "patch scaler"}
Deploys == {"built", "patch deployment", "deployed", "patch scaler"}
Written == Deploys \union {"written", "scaled", "done"}
SubmissionPart(s) ==
  /\ definition[s] \in Definitions
  /\ submitState[s] \in Written \union {"prepared"} =>
       runMessage[s] = PreparedTask(s) /\ Preparable(definition[s])
  /\ submitState[s] \in Written => s \in inputs
  /\ submitState[s] \in Deploys => definition[s].streaming /\ PrincipalSet
  /\ submitState[s] = "patch deployment" => definition[s].image # ""
  /\ endedBefore[s] \subseteq {t \in Submissions : Ended(t)}

\* The Deployment of a queue is that of a submission that has got there, and one
\* that is between its Deployment and its scaler has been overtaken by an
\* overlapping one if the Deployment is not its own.
Overlapping(s, t) == s # t /\ Begun(s) /\ Begun(t) /\ Overlap(s, t)
DeploymentPart(q) ==
  LET d == deployments[q].of
  IN  /\ deployments[q] # Absent =>
           /\ d \in Submissions /\ Queue(d) = q /\ Begun(d) /\ d \in inputs
           /\ definition[d].streaming /\ PrincipalSet
           /\ deployments[q].image = definition[d].image /\ definition[d].image # ""
           /\ runMessage[d] = PreparedTask(d) /\ Preparable(definition[d])
      /\ \A s \in Submissions : Queue(s) = q /\ Deploying(s) =>
           deployments[q] # Absent /\ (d = s \/ Overlapping(s, d))

\* A scaler is that of a submission, too, and of another one than the Deployment
\* for a reason that does not pass.
ScalerPart(q) ==
  LET d == deployments[q].of
      c == scalers[q].of
  IN  /\ scalers[q] # Absent => c \in Submissions /\ deployments[q] # Absent
      /\ d # c => d \in Submissions /\ (Partly(d) \/ (c \in Submissions /\ Overlapping(c, d)))

SubmissionInv ==
  /\ submitState = [s \in Submissions |-> submitState[s]]
  /\ runMessage = [s \in Submissions |-> runMessage[s]]
  /\ endedBefore = [s \in Submissions |-> endedBefore[s]]
  /\ deployments = [q \in StreamQueues |-> deployments[q]]
  /\ scalers = [q \in StreamQueues |-> scalers[q]]
  /\ \A s \in Submissions : SubmissionPart(s)
  /\ \A q \in StreamQueues : DeploymentPart(q) /\ ScalerPart(q)

SubmissionStep(s) ==
  \/ PrepareTask(s) \/ WriteTaskRunMsg(s) \/ HandToRunner(s) \/ BuildObjects(s)
  \/ CreateDeployment(s) \/ PatchDeployment(s) \/ CreateScaler(s) \/ PatchScaler(s)
  \/ SubmitReturns(s)
  \/ \E how \in {"raised", "dead"} : SubmissionFails(s, how)

\* A step is of one submission and undoes nothing.
LEMMA StepFacts ==
  ASSUME SubmissionInv, NEW s \in Submissions, SubmissionStep(s)
  PROVE  /\ definition' = definition /\ inputs \subseteq inputs'
         /\ \A t \in Submissions : t # s => submitState'[t] = submitState[t]
         /\ ~Ended(s) /\ Begun(s)'
         /\ \A t \in Submissions : Begun(t) =>
              runMessage'[t] = runMessage[t] /\ endedBefore'[t] = endedBefore[t]
         /\ \A t \in Submissions : endedBefore'[t] \in {endedBefore[t], {u \in Submissions : Ended(u)}}
<1>1. /\ submitState = [t \in Submissions |-> submitState[t]]
      /\ runMessage = [t \in Submissions |-> runMessage[t]]
      /\ endedBefore = [t \in Submissions |-> endedBefore[t]]
  BY DEF SubmissionInv
<1>2. CASE PrepareTask(s)
  <2>1. /\ submitState[s] = "new" /\ submitState'[s] \in {"prepared", "raised"}
        /\ \A t \in Submissions : t # s =>
             submitState'[t] = submitState[t] /\ runMessage'[t] = runMessage[t]
               /\ endedBefore'[t] = endedBefore[t]
        /\ endedBefore'[s] = {u \in Submissions : Ended(u)}
    BY <1>1, <1>2 DEF PrepareTask, Goes
  <2>2. UNCHANGED <<definition, inputs>>
    BY <1>2 DEF PrepareTask
  <2>3. QED
    BY <2>1, <2>2 DEF Begun, Ended
<1>3. ASSUME NEW from \in {"prepared", "written", "built", "patch deployment", "deployed", "patch scaler",
                           "scaled"},
             NEW to \in {"written", "built", "patch deployment", "deployed", "patch scaler", "scaled",
                         "done", "raised", "dead"},
             submitState[s] = from, submitState' = [submitState EXCEPT ![s] = to],
             UNCHANGED <<definition, runMessage, endedBefore>>, inputs \subseteq inputs'
      PROVE  /\ definition' = definition /\ inputs \subseteq inputs'
             /\ \A t \in Submissions : t # s => submitState'[t] = submitState[t]
             /\ ~Ended(s) /\ Begun(s)'
             /\ \A t \in Submissions : Begun(t) =>
                  runMessage'[t] = runMessage[t] /\ endedBefore'[t] = endedBefore[t]
             /\ \A t \in Submissions : endedBefore'[t] \in {endedBefore[t], {u \in Submissions : Ended(u)}}
  <2>1. submitState'[s] = to /\ \A t \in Submissions : t # s => submitState'[t] = submitState[t]
    BY <1>1, <1>3
  <2>2. QED
    BY <1>3, <2>1 DEF Begun, Ended
<1>4. CASE WriteTaskRunMsg(s)
  BY <1>3, <1>4 DEF WriteTaskRunMsg, Goes
<1>5. CASE HandToRunner(s) \/ BuildObjects(s) \/ SubmitReturns(s)
  BY <1>3, <1>5 DEF HandToRunner, BuildObjects, SubmitReturns, Goes
<1>6. CASE CreateDeployment(s)
  BY <1>3, <1>6 DEF CreateDeployment, Goes
<1>7. CASE PatchDeployment(s)
  BY <1>3, <1>7 DEF PatchDeployment, Goes
<1>8. CASE CreateScaler(s)
  BY <1>3, <1>8 DEF CreateScaler, Goes
<1>9. CASE PatchScaler(s)
  BY <1>3, <1>9 DEF PatchScaler, Goes
<1>10. ASSUME NEW how \in {"raised", "dead"}, SubmissionFails(s, how)
       PROVE  submitState[s] # "new" /\ ~Ended(s)
  BY <1>10 DEF SubmissionFails
<1>11. ASSUME NEW how \in {"raised", "dead"}, SubmissionFails(s, how)
       PROVE  /\ definition' = definition /\ inputs \subseteq inputs'
              /\ \A t \in Submissions : t # s => submitState'[t] = submitState[t]
              /\ ~Ended(s) /\ Begun(s)'
              /\ \A t \in Submissions : Begun(t) =>
                   runMessage'[t] = runMessage[t] /\ endedBefore'[t] = endedBefore[t]
              /\ \A t \in Submissions : endedBefore'[t] \in {endedBefore[t], {u \in Submissions : Ended(u)}}
  BY <1>1, <1>11 DEF SubmissionFails, Begun
<1>12. QED
  BY <1>2, <1>4, <1>5, <1>6, <1>7, <1>8, <1>9, <1>11 DEF SubmissionStep

\* What has been reached stays so.
LEMMA StepKeeps ==
  ASSUME SubmissionInv, NEW s \in Submissions, SubmissionStep(s)
  PROVE  /\ \A t \in Submissions : Begun(t) => Begun(t)'
         /\ \A t \in Submissions : Ended(t) => Ended(t)'
         /\ \A t \in Submissions : Queue(t)' = Queue(t)
         /\ \A t, u \in Submissions : Overlapping(t, u) => Overlapping(t, u)'
         /\ \A t \in Submissions : Begun(t) /\ runMessage[t] = PreparedTask(t) =>
              runMessage'[t] = PreparedTask(t)'
         /\ \A t \in Submissions : Preparable(definition[t])' <=> Preparable(definition[t])
         /\ \A t \in Submissions : PreparedTask(t)' = PreparedTask(t)
<1>1. /\ definition' = definition /\ inputs \subseteq inputs'
      /\ \A t \in Submissions : t # s => submitState'[t] = submitState[t]
      /\ ~Ended(s) /\ Begun(s)'
      /\ \A t \in Submissions : Begun(t) =>
           runMessage'[t] = runMessage[t] /\ endedBefore'[t] = endedBefore[t]
  BY StepFacts
<1>2. \A t \in Submissions : Begun(t) => Begun(t)'
  BY <1>1 DEF Begun
<1>3. \A t \in Submissions : Ended(t) => Ended(t)'
  BY <1>1 DEF Ended
<1>4. \A t \in Submissions : Queue(t)' = Queue(t)
  BY <1>1 DEF Queue
<1>5. \A t, u \in Submissions : Overlapping(t, u) => Overlapping(t, u)'
  BY <1>1, <1>2, <1>4 DEF Overlapping, Overlap
<1>6. \A t \in Submissions : PreparedTask(t)' = PreparedTask(t)
  BY <1>1 DEF PreparedTask, BlobConfigs
<1>7. \A t \in Submissions : Preparable(definition[t])' <=> Preparable(definition[t])
  BY <1>1
<1>8. QED
  BY <1>1, <1>2, <1>3, <1>4, <1>5, <1>6, <1>7

LEMMA SubmissionPartStep ==
  ASSUME SubmissionInv, NEW s \in Submissions, SubmissionStep(s), NEW t \in Submissions
  PROVE  SubmissionPart(t)'
<1>1. /\ definition' = definition /\ inputs \subseteq inputs'
      /\ \A u \in Submissions : u # s => submitState'[u] = submitState[u]
      /\ ~Ended(s) /\ Begun(s)'
      /\ \A u \in Submissions : Begun(u) =>
           runMessage'[u] = runMessage[u] /\ endedBefore'[u] = endedBefore[u]
      /\ endedBefore'[t] \in {endedBefore[t], {u \in Submissions : Ended(u)}}
  BY StepFacts
<1>2. /\ \A u \in Submissions : Ended(u) => Ended(u)'
      /\ PreparedTask(t)' = PreparedTask(t)
      /\ Preparable(definition[t])' <=> Preparable(definition[t])
  BY StepKeeps
<1>3. SubmissionPart(t)
  BY DEF SubmissionInv
<1>4. endedBefore'[t] \subseteq {u \in Submissions : Ended(u)'}
  BY <1>1, <1>2, <1>3 DEF SubmissionPart
<1>5. CASE t # s
  <2>1. submitState'[t] = submitState[t]
    BY <1>1, <1>5
  <2>2. Begun(t) => runMessage'[t] = runMessage[t]
    BY <1>1
  <2>3. QED
    BY <1>1, <1>2, <1>3, <1>4, <2>1, <2>2 DEF SubmissionPart, Written, Deploys, Begun
<1>6. CASE t = s
  <2>1. /\ submitState = [u \in Submissions |-> submitState[u]]
        /\ runMessage = [u \in Submissions |-> runMessage[u]]
    BY DEF SubmissionInv
  <2>2. CASE PrepareTask(s)
    <3>1. IF Preparable(definition[s])
          THEN submitState'[s] = "prepared" /\ runMessage'[s] = PreparedTask(s)
          ELSE submitState'[s] = "raised"
      BY <2>1, <2>2 DEF PrepareTask, Goes
    <3>2. QED
      BY <1>1, <1>2, <1>3, <1>4, <1>6, <3>1 DEF SubmissionPart, Written, Deploys
  <2>3. CASE WriteTaskRunMsg(s)
    <3>1. submitState[s] = "prepared" /\ submitState'[s] = "written"
          /\ s \in inputs' /\ runMessage' = runMessage
      BY <2>1, <2>3 DEF WriteTaskRunMsg, Goes
    <3>2. QED
      BY <1>1, <1>2, <1>3, <1>4, <1>6, <3>1 DEF SubmissionPart, Written, Deploys
  <2>4. CASE HandToRunner(s) \/ BuildObjects(s)
    <3>1. /\ submitState[s] = "written" /\ runMessage' = runMessage
          /\ \/ submitState'[s] \in {"raised", "done"}
             \/ submitState'[s] = "built" /\ definition[s].streaming /\ PrincipalSet
      BY <2>1, <2>4 DEF HandToRunner, BuildObjects, Goes
    <3>2. QED
      BY <1>1, <1>2, <1>3, <1>4, <1>6, <3>1 DEF SubmissionPart, Written, Deploys
  <2>5. CASE CreateDeployment(s)
    <3>1. /\ submitState[s] = "built" /\ runMessage' = runMessage
          /\ \/ submitState'[s] \in {"raised", "deployed"}
             \/ submitState'[s] = "patch deployment" /\ definition[s].image # ""
      BY <2>1, <2>5 DEF CreateDeployment, Goes
    <3>2. QED
      BY <1>1, <1>2, <1>3, <1>4, <1>6, <3>1 DEF SubmissionPart, Written, Deploys
  <2>6. CASE PatchDeployment(s) \/ CreateScaler(s) \/ PatchScaler(s) \/ SubmitReturns(s)
    <3>1. /\ submitState[s] \in {"patch deployment", "deployed", "patch scaler", "scaled"}
          /\ submitState'[s] \in {"deployed", "patch scaler", "scaled", "done"} /\ runMessage' = runMessage
          /\ submitState[s] = "scaled" => submitState'[s] = "done"
      BY <2>1, <2>6 DEF PatchDeployment, CreateScaler, PatchScaler, SubmitReturns, Goes
    <3>2. QED
      BY <1>1, <1>2, <1>3, <1>4, <1>6, <3>1 DEF SubmissionPart, Written, Deploys
  <2>7. ASSUME NEW how \in {"raised", "dead"}, SubmissionFails(s, how)
        PROVE  SubmissionPart(t)'
    <3>1. submitState'[s] \in {"raised", "dead"}
      BY <2>1, <2>7 DEF SubmissionFails
    <3>2. QED
      BY <1>1, <1>3, <1>4, <1>6, <3>1 DEF SubmissionPart, Written, Deploys
  <2>8. QED
    BY <2>2, <2>3, <2>4, <2>5, <2>6, <2>7 DEF SubmissionStep
<1>7. QED
  BY <1>5, <1>6

\* The three kinds of step: one that leaves the objects alone, one that makes the
\* Deployment of its queue its own, and one that does so with the scaler.
LeavesObjects(s) ==
  /\ UNCHANGED <<deployments, scalers>>
  /\ Deploying(s)' => Deploying(s)
  /\ Partly(s) => Partly(s)'
MakesDeployment(s) ==
  /\ submitState[s] \in {"built", "patch deployment"} /\ submitState'[s] = "deployed"
  /\ definition[s].image # ""
  /\ deployments' = [deployments EXCEPT ![Queue(s)] = Deployment(s)] /\ scalers' = scalers
MakesScaler(s) ==
  /\ Deploying(s) /\ submitState'[s] = "scaled"
  /\ scalers' = [scalers EXCEPT ![Queue(s)] = [of |-> s]] /\ deployments' = deployments

LEMMA KindsOfSteps ==
  ASSUME SubmissionInv, NEW s \in Submissions, SubmissionStep(s)
  PROVE  LeavesObjects(s) \/ MakesDeployment(s) \/ MakesScaler(s)
<1>1. submitState = [t \in Submissions |-> submitState[t]]
  BY DEF SubmissionInv
<1>2. ASSUME NEW from \in {"new", "prepared", "written", "built", "patch deployment", "scaled"},
             NEW to \in {"prepared", "written", "built", "patch deployment", "done", "raised"},
             submitState[s] = from, submitState' = [submitState EXCEPT ![s] = to],
             UNCHANGED <<deployments, scalers>>
      PROVE  LeavesObjects(s)
  BY <1>1, <1>2 DEF LeavesObjects, Deploying, Partly
<1>3. CASE \/ PrepareTask(s) \/ WriteTaskRunMsg(s) \/ HandToRunner(s) \/ BuildObjects(s)
           \/ SubmitReturns(s)
  BY <1>2, <1>3 DEF PrepareTask, WriteTaskRunMsg, HandToRunner, BuildObjects, SubmitReturns, Goes
<1>4. CASE CreateDeployment(s)
  <2>1. CASE definition[s].image # "" /\ deployments[Queue(s)] = Absent
    BY <1>1, <1>4, <2>1 DEF CreateDeployment, MakesDeployment, Goes
  <2>2. CASE definition[s].image = "" \/ deployments[Queue(s)] # Absent
    BY <1>2, <1>4, <2>2 DEF CreateDeployment, Goes
  <2>3. QED
    BY <2>1, <2>2
<1>5. CASE PatchDeployment(s)
  <2>1. definition[s].image # ""
    BY <1>5 DEF PatchDeployment, Goes, SubmissionInv, SubmissionPart
  <2>2. Merged(deployments[Queue(s)], Deployment(s)) = Deployment(s)
    BY <2>1 DEF Merged, Deployment
  <2>3. deployments' = [deployments EXCEPT ![Queue(s)] = Deployment(s)]
    BY <1>5, <2>2 DEF PatchDeployment
  <2>4. QED
    BY <1>1, <1>5, <2>1, <2>3 DEF PatchDeployment, MakesDeployment, Goes
<1>6. CASE CreateScaler(s)
  <2>1. CASE scalers[Queue(s)] = Absent
    BY <1>1, <1>6, <2>1 DEF CreateScaler, MakesScaler, Deploying, Goes
  <2>2. CASE scalers[Queue(s)] # Absent
    BY <1>1, <1>6, <2>2 DEF CreateScaler, LeavesObjects, Deploying, Partly, Goes
  <2>3. QED
    BY <2>1, <2>2
<1>7. CASE PatchScaler(s)
  BY <1>1, <1>7 DEF PatchScaler, MakesScaler, Deploying, Goes
<1>8. ASSUME NEW how \in {"raised", "dead"}, SubmissionFails(s, how)
      PROVE  LeavesObjects(s)
  BY <1>1, <1>8 DEF SubmissionFails, LeavesObjects, Deploying, Partly
<1>9. QED
  BY <1>3, <1>4, <1>5, <1>6, <1>7, <1>8 DEF SubmissionStep

LEMMA DeploymentPartStep ==
  ASSUME SubmissionInv, NEW s \in Submissions, SubmissionStep(s), NEW q \in StreamQueues
  PROVE  DeploymentPart(q)'
<1>1. /\ definition' = definition /\ inputs \subseteq inputs'
      /\ \A t \in Submissions : t # s => submitState'[t] = submitState[t]
      /\ ~Ended(s) /\ Begun(s)'
      /\ \A t \in Submissions : Begun(t) =>
           runMessage'[t] = runMessage[t] /\ endedBefore'[t] = endedBefore[t]
  BY StepFacts
<1>2. /\ \A t \in Submissions : Begun(t) => Begun(t)'
      /\ \A t \in Submissions : Queue(t)' = Queue(t)
      /\ \A t, u \in Submissions : Overlapping(t, u) => Overlapping(t, u)'
      /\ \A t \in Submissions : Begun(t) /\ runMessage[t] = PreparedTask(t) =>
           runMessage'[t] = PreparedTask(t)'
      /\ \A t \in Submissions : Preparable(definition[t])' <=> Preparable(definition[t])
  BY StepKeeps
<1>3. /\ DeploymentPart(q) /\ \A t \in Submissions : SubmissionPart(t)
      /\ deployments = [r \in StreamQueues |-> deployments[r]]
  BY DEF SubmissionInv
<1>4. ASSUME deployments'[q] = deployments[q],
             \A t \in Submissions : Queue(t) = q /\ Deploying(t)' => Deploying(t)
      PROVE  DeploymentPart(q)'
  <2>1. PICK d : d = deployments[q].of /\ d = deployments'[q].of
    BY <1>4
  <2>2. deployments[q] # Absent =>
          /\ d \in Submissions /\ Queue(d)' = q /\ Begun(d)' /\ d \in inputs'
          /\ definition'[d].streaming /\ PrincipalSet
          /\ deployments'[q].image = definition'[d].image /\ definition'[d].image # ""
          /\ runMessage'[d] = PreparedTask(d)' /\ Preparable(definition[d])'
    BY <1>1, <1>2, <1>3, <1>4, <2>1 DEF DeploymentPart
  <2>3. ASSUME NEW t \in Submissions, Queue(t)' = q, Deploying(t)'
        PROVE  deployments[q] # Absent /\ (d = t \/ Overlapping(t, d)')
    <3>1. Queue(t) = q /\ Deploying(t)
      BY <1>2, <1>4, <2>3
    <3>2. deployments[q] # Absent /\ (d = t \/ Overlapping(t, d)) /\ d \in Submissions
      BY <1>3, <2>1, <3>1 DEF DeploymentPart
    <3>3. QED
      BY <1>2, <3>2
  <2>4. QED
    BY <1>4, <2>1, <2>2, <2>3 DEF DeploymentPart, Absent
<1>5. CASE LeavesObjects(s) \/ MakesScaler(s)
  <2>1. deployments' = deployments /\ (Deploying(s)' => Deploying(s))
    BY <1>5 DEF LeavesObjects, MakesScaler, Deploying
  <2>2. \A t \in Submissions : Deploying(t)' => Deploying(t)
    BY <1>1, <2>1 DEF Deploying
  <2>3. QED
    BY <1>4, <2>1, <2>2
<1>6. CASE MakesDeployment(s) /\ Queue(s) # q
  <2>1. deployments'[q] = deployments[q]
    BY <1>3, <1>6 DEF MakesDeployment
  <2>2. \A t \in Submissions : Queue(t) = q /\ Deploying(t)' => Deploying(t)
    BY <1>1, <1>6 DEF Deploying
  <2>3. QED
    BY <1>4, <2>1, <2>2
<1>7. CASE MakesDeployment(s) /\ Queue(s) = q
  <2>1. deployments'[q] = Deployment(s) /\ Deployment(s).of = s /\ deployments'[q] # Absent
    <3>1. deployments'[q] = Deployment(s) /\ Deployment(s).of = s
      BY <1>3, <1>7 DEF MakesDeployment, Deployment
    <3>2. Absent.of = NoOne /\ s # NoOne
      BY StreamSubmissionAssumption DEF Absent
    <3>3. QED
      BY <3>1, <3>2
  <2>2. submitState[s] \in {"built", "patch deployment"} /\ Begun(s)
    BY <1>7 DEF MakesDeployment, Begun
  <2>3. /\ Queue(s)' = q /\ s \in inputs' /\ definition'[s].streaming /\ PrincipalSet
        /\ deployments'[q].image = definition'[s].image /\ definition'[s].image # ""
        /\ runMessage'[s] = PreparedTask(s)' /\ Preparable(definition[s])'
    <3>1. /\ s \in inputs /\ definition[s].streaming /\ PrincipalSet
          /\ runMessage[s] = PreparedTask(s) /\ Preparable(definition[s])
      BY <1>3, <2>2 DEF SubmissionPart, Written, Deploys
    <3>2. deployments'[q].image = definition[s].image /\ definition[s].image # ""
      <4>1. Deployment(s).image = definition[s].image
        BY DEF Deployment
      <4>2. QED
        BY <1>7, <2>1, <4>1 DEF MakesDeployment
    <3>3. QED
      BY <1>1, <1>2, <1>7, <2>2, <3>1, <3>2
  <2>4. ASSUME NEW t \in Submissions, t # s, Queue(t)' = q, Deploying(t)'
        PROVE  Overlapping(t, s)'
    <3>1. Deploying(t) /\ Queue(t) = q
      BY <1>1, <1>2, <2>4 DEF Deploying
    <3>2. Begun(t) /\ ~Ended(t)
      BY <3>1 DEF Deploying, Begun, Ended
    <3>3. Overlap(t, s)
      BY <1>1, <1>3, <3>2 DEF SubmissionPart, Overlap
    <3>4. QED
      BY <1>2, <2>2, <2>4, <3>2, <3>3 DEF Overlapping
  <2>5. deployments'[q].of = s /\ deployments'[q] # Absent
    BY <2>1
  <2>6. Queue(s)' = q /\ Begun(s)'
    BY <1>1, <2>3
  <2>7. QED
    BY <2>3, <2>4, <2>5, <2>6 DEF DeploymentPart, Absent
<1>8. QED
  BY <1>5, <1>6, <1>7, KindsOfSteps

LEMMA ScalerPartStep ==
  ASSUME SubmissionInv, NEW s \in Submissions, SubmissionStep(s), NEW q \in StreamQueues
  PROVE  ScalerPart(q)'
<1>1. /\ definition' = definition
      /\ \A t \in Submissions : t # s => submitState'[t] = submitState[t]
  BY StepFacts
<1>2. /\ \A t \in Submissions : Queue(t)' = Queue(t)
      /\ \A t, u \in Submissions : Overlapping(t, u) => Overlapping(t, u)'
  BY StepKeeps
<1>3. /\ DeploymentPart(q) /\ ScalerPart(q)
      /\ deployments = [r \in StreamQueues |-> deployments[r]]
      /\ scalers = [r \in StreamQueues |-> scalers[r]]
  BY DEF SubmissionInv
<1>4. ASSUME deployments'[q] = deployments[q], scalers'[q] = scalers[q],
             Partly(deployments[q].of) => Partly(deployments[q].of)' \/ deployments[q].of = scalers[q].of
      PROVE  ScalerPart(q)'
  <2>1. PICK d, c : d = deployments[q].of /\ c = scalers[q].of
    OBVIOUS
  <2>2. d = deployments'[q].of /\ c = scalers'[q].of
    BY <1>4, <2>1
  <2>3. scalers'[q] # Absent' => c \in Submissions /\ deployments'[q] # Absent'
    BY <1>3, <1>4, <2>1 DEF ScalerPart, Absent
  <2>4. ASSUME d # c
        PROVE  d \in Submissions /\ (Partly(d)' \/ (c \in Submissions /\ Overlapping(c, d)'))
    <3>1. d \in Submissions /\ (Partly(d) \/ (c \in Submissions /\ Overlapping(c, d)))
      BY <1>3, <2>1, <2>4 DEF ScalerPart
    <3>2. Partly(d) => Partly(d)'
      BY <1>4, <2>1, <2>2, <2>4 DEF Partly
    <3>3. QED
      BY <1>2, <3>1, <3>2
  <2>5. QED
    BY <2>2, <2>3, <2>4 DEF ScalerPart
<1>5. CASE LeavesObjects(s)
  <2>1. \A t \in Submissions : Partly(t) => Partly(t)'
    BY <1>1, <1>5 DEF LeavesObjects, Partly
  <2>2. QED
    BY <1>3, <1>4, <1>5, <2>1 DEF LeavesObjects, ScalerPart
<1>6. CASE MakesDeployment(s) /\ Queue(s) # q
  <2>1. \A t : Partly(t) /\ t \in Submissions => Partly(t)'
    BY <1>1, <1>6 DEF MakesDeployment, Partly
  <2>2. deployments'[q] = deployments[q] /\ scalers'[q] = scalers[q]
    BY <1>3, <1>6 DEF MakesDeployment
  <2>3. QED
    BY <1>3, <1>4, <2>1, <2>2 DEF ScalerPart
<1>7. CASE MakesDeployment(s) /\ Queue(s) = q
  <2>1. Partly(s)'
    BY <1>7 DEF MakesDeployment, Partly
  <2>2. deployments'[q] = Deployment(s) /\ Deployment(s).of = s
    BY <1>3, <1>7 DEF MakesDeployment, Deployment
  <2>3. Absent.of = NoOne /\ s # NoOne
    BY StreamSubmissionAssumption DEF Absent
  <2>4. deployments'[q] # Absent /\ scalers' = scalers /\ deployments'[q].of = s
    BY <1>7, <2>2, <2>3 DEF MakesDeployment
  <2>5. QED
    BY <1>3, <2>1, <2>4 DEF ScalerPart, Absent
<1>8. CASE MakesScaler(s)
  <2>1. Deploying(s) /\ deployments' = deployments
    BY <1>8 DEF MakesScaler
  <2>2. ASSUME Queue(s) = q
        PROVE  ScalerPart(q)'
    <3>1. PICK d \in Submissions : d = deployments[q].of /\ deployments[q] # Absent
      BY <1>3, <2>1, <2>2 DEF DeploymentPart
    <3>2. d = s \/ Overlapping(s, d)
      BY <1>3, <2>1, <2>2, <3>1 DEF DeploymentPart
    <3>3. scalers'[q].of = s
      BY <1>3, <1>8, <2>2 DEF MakesScaler
    <3>4. d = s \/ Overlapping(s, d)'
      BY <1>2, <3>2
    <3>5. QED
      BY <2>1, <3>1, <3>3, <3>4 DEF ScalerPart, Absent
  <2>3. ASSUME Queue(s) # q
        PROVE  ScalerPart(q)'
    <3>1. scalers'[q] = scalers[q] /\ deployments'[q] = deployments[q]
      BY <1>3, <1>8, <2>3 DEF MakesScaler
    <3>2. PICK d : d = deployments[q].of
      OBVIOUS
    <3>3. d # s
      <4>1. Absent.of = NoOne /\ s # NoOne
        BY StreamSubmissionAssumption DEF Absent
      <4>2. QED
        BY <1>3, <2>3, <3>2, <4>1 DEF DeploymentPart
    <3>4. d \in Submissions => submitState'[d] = submitState[d]
      BY <1>1, <3>3
    <3>5. QED
      BY <1>3, <1>4, <3>1, <3>2, <3>4 DEF Partly, ScalerPart
  <2>4. QED
    BY <2>2, <2>3
<1>9. QED
  BY <1>5, <1>6, <1>7, <1>8, KindsOfSteps

\* What submissions keep, however they interleave
LEMMA SubmissionInvHolds == SubmissionSpec => []SubmissionInv
<1>1. SubmissionInit => SubmissionInv
  <2> SUFFICES ASSUME NEW defs \in [Submissions -> Definitions], SubmissionBegins(defs)
               PROVE  SubmissionInv
    BY DEF SubmissionInit
  <2>1. \A s \in Submissions : SubmissionPart(s) /\ ~Deploying(s)
    BY DEF SubmissionBegins, SubmissionPart, Deploying, Written, Deploys
  <2>2. \A q \in StreamQueues : DeploymentPart(q) /\ ScalerPart(q)
    BY <2>1 DEF SubmissionBegins, DeploymentPart, ScalerPart, Absent
  <2>3. QED
    BY <2>1, <2>2 DEF SubmissionBegins, SubmissionInv
<1>2. SubmissionInv /\ [SubmissionNext]_submissionVars => SubmissionInv'
  <2> SUFFICES ASSUME SubmissionInv, [SubmissionNext]_submissionVars
               PROVE  SubmissionInv'
    OBVIOUS
  <2>1. CASE UNCHANGED submissionVars
    <3>1. UNCHANGED <<definition, submitState, runMessage, inputs, deployments, scalers, endedBefore>>
      BY <2>1 DEF submissionVars
    <3>2. /\ \A s : /\ Queue(s)' = Queue(s) /\ PreparedTask(s)' = PreparedTask(s)
                    /\ Begun(s)' <=> Begun(s)
                    /\ Deploying(s)' <=> Deploying(s)
                    /\ Ended(s)' <=> Ended(s)
                    /\ Partly(s)' <=> Partly(s)
          /\ \A s, t : Overlap(s, t)' <=> Overlap(s, t)
      <4>1. \A s : PreparedTask(s)' = PreparedTask(s)
        BY <3>1 DEF PreparedTask, BlobConfigs
      <4>2. \A s, t : Overlap(s, t)' <=> Overlap(s, t)
        BY <3>1 DEF Overlap
      <4>3. QED
        BY <3>1, <4>1, <4>2 DEF Begun, Deploying, Ended, Partly, Queue
    <3>3. \A s, t : Overlapping(s, t)' <=> Overlapping(s, t)
      BY <3>2 DEF Overlapping
    <3>4. \A s \in Submissions : SubmissionPart(s)'
      BY <3>1, <3>2 DEF SubmissionInv, SubmissionPart, Written, Deploys
    <3>5. \A q \in StreamQueues : DeploymentPart(q)'
      <4>1. ASSUME NEW q \in StreamQueues
            PROVE  DeploymentPart(q)'
        <5>1. PICK d : d = deployments[q].of /\ d = deployments'[q].of
          BY <3>1
        <5>2. DeploymentPart(q)
          BY DEF SubmissionInv
        <5>3. QED
          BY <3>1, <3>2, <3>3, <5>1, <5>2 DEF DeploymentPart, Absent
      <4>2. QED
        BY <4>1
    <3>6. \A q \in StreamQueues : ScalerPart(q)'
      BY <3>1, <3>2, <3>3 DEF SubmissionInv, ScalerPart
    <3>7. QED
      BY <3>1, <3>4, <3>5, <3>6 DEF SubmissionInv
  <2>2. ASSUME NEW s \in Submissions, SubmissionStep(s)
        PROVE  SubmissionInv'
    <3>1. /\ submitState' = [t \in Submissions |-> submitState'[t]]
          /\ runMessage' = [t \in Submissions |-> runMessage'[t]]
          /\ endedBefore' = [t \in Submissions |-> endedBefore'[t]]
      BY <2>2 DEF SubmissionInv, SubmissionStep, PrepareTask, WriteTaskRunMsg, HandToRunner,
                  BuildObjects, CreateDeployment, PatchDeployment, CreateScaler, PatchScaler,
                  SubmitReturns, SubmissionFails, Goes
    <3>2. /\ deployments' = [q \in StreamQueues |-> deployments'[q]]
          /\ scalers' = [q \in StreamQueues |-> scalers'[q]]
      BY <2>2 DEF SubmissionInv, SubmissionStep, PrepareTask, WriteTaskRunMsg, HandToRunner,
                  BuildObjects, CreateDeployment, PatchDeployment, CreateScaler, PatchScaler,
                  SubmitReturns, SubmissionFails
    <3>3. QED
      BY <2>2, <3>1, <3>2, SubmissionPartStep, DeploymentPartStep, ScalerPartStep DEF SubmissionInv
  <2>3. QED
    BY <2>1, <2>2 DEF SubmissionNext, SubmissionStep
<1>3. QED
  BY <1>1, <1>2, PTL DEF SubmissionSpec

\* What has been set going for a task finds its input, the environment and tags its
\* definition and the image table ask for and its blobs, and what is deployed runs the
\* image that was prepared; for any number of submissions, however they interleave and
\* whichever fail.
THEOREM SubmittedTasksFindTheirs == SubmissionSpec => []TasksFindTheirs
<1>1. SubmissionInv => TasksFindTheirs
  <2> SUFFICES ASSUME SubmissionInv
               PROVE  TasksFindTheirs
    OBVIOUS
  <2>1. ASSUME NEW s \in Submissions, s \in inputs, definition[s].streaming => PrincipalSet,
               runMessage[s] = PreparedTask(s), Preparable(definition[s])
        PROVE  s \in inputs /\ EnvironmentRight(s) /\ TagsRight(s) /\ BlobsInReach(s)
    <3>1. definition[s] \in Definitions
      BY DEF SubmissionInv, SubmissionPart
    <3>2. QED
      BY <2>1, <3>1, PreparedEnvironment, PreparedTags, PreparedBlobs
  <2>2. ASSUME NEW s \in Submissions, Handed(s)
        PROVE  s \in inputs /\ EnvironmentRight(s) /\ TagsRight(s) /\ BlobsInReach(s)
    <3>1. SubmissionPart(s) /\ ~definition[s].streaming /\ submitState[s] = "done"
      BY <2>2 DEF SubmissionInv, Handed
    <3>2. QED
      BY <2>1, <3>1 DEF SubmissionPart, Written
  <2>3. ASSUME NEW q \in StreamQueues, deployments[q].of # NoOne
        PROVE  LET d == deployments[q].of
               IN  /\ d \in Submissions /\ d \in inputs /\ PrincipalSet
                   /\ runMessage[d] = PreparedTask(d) /\ Preparable(definition[d])
                   /\ deployments[q].image = definition[d].image /\ definition[d].image # ""
    <3>1. DeploymentPart(q) /\ deployments[q] # Absent
      BY <2>3 DEF SubmissionInv, Absent
    <3>2. QED
      BY <3>1 DEF DeploymentPart
  <2>4. ASSUME NEW s \in Submissions, Deployed(s)
        PROVE  s \in inputs /\ EnvironmentRight(s) /\ TagsRight(s) /\ BlobsInReach(s)
    <3>1. PICK q \in StreamQueues : deployments[q].of = s
      BY <2>4 DEF Deployed
    <3>2. s # NoOne
      BY StreamSubmissionAssumption
    <3>3. QED
      BY <2>1, <2>3, <3>1, <3>2
  <2>5. ASSUME NEW q \in StreamQueues, deployments[q].of # NoOne
        PROVE  /\ deployments[q].image = runMessage[deployments[q].of].image
               /\ deployments[q].image # ""
    <3>1. PICK d \in Submissions : /\ d = deployments[q].of /\ runMessage[d] = PreparedTask(d)
                                   /\ deployments[q].image = definition[d].image
                                   /\ definition[d].image # ""
      BY <2>3, <2>5
    <3>2. PreparedTask(d).image = definition[d].image
      BY <3>1 DEF PreparedTask, UsesTable
    <3>3. QED
      BY <3>1, <3>2
  <2>6. QED
    BY <2>2, <2>4, <2>5 DEF TasksFindTheirs
<1>2. QED
  BY <1>1, SubmissionInvHolds, PTL

\* A scaler has a Deployment to scale, and both are of one submission unless the
\* Deployment's own did not come to its scaler, or the two submissions were at it at a
\* time; for any number of submissions, however they interleave and whichever fail.
THEOREM StreamsArePaired == SubmissionSpec => []StreamsPaired
<1>1. SubmissionInv => StreamsPaired
  <2> SUFFICES ASSUME SubmissionInv, NEW q \in StreamQueues
               PROVE  LET d == deployments[q].of
                          c == scalers[q].of
                      IN  /\ c # NoOne => d # NoOne
                          /\ d # c => Partly(d) \/ (c # NoOne /\ Overlap(d, c))
    BY DEF StreamsPaired
  <2>1. DeploymentPart(q) /\ ScalerPart(q) /\ Absent.of = NoOne /\ NoOne \notin Submissions
    BY StreamSubmissionAssumption DEF SubmissionInv, Absent
  <2>2. scalers[q].of # NoOne => deployments[q].of # NoOne
    BY <2>1 DEF DeploymentPart, ScalerPart
  <2>3. QED
    BY <2>1, <2>2 DEF ScalerPart, Overlapping, Overlap
<1>2. QED
  BY <1>1, SubmissionInvHolds, PTL

\* Every set of natural numbers that is not empty has a least one.
LEMMA LeastOf ==
  ASSUME NEW S \in SUBSET Nat, S # {}
  PROVE  \E n \in S : \A m \in S : n <= m
<1> DEFINE R == {ss \in Nat \X Nat : ss[1] < ss[2]}
<1>1. IsWellFoundedOn(R, Nat)
  BY NatLessThanWellFounded DEF OpToRel
<1>2. PICK n \in S : \A m \in S : ~(<<m, n>> \in R)
  <2> HIDE DEF R
  <2>1. QED
    BY <1>1, WFMin
<1>3. \A m \in S : <<m, n>> \in Nat \X Nat
  OBVIOUS
<1>4. \A m \in S : ~(m < n)
  BY <1>2, <1>3
<1>5. QED
  BY <1>4


-----------------------------------------------------------------------------
(* Clients, servers and requests: types                                    *)

USE DEF runVars

CallRecords ==
  [op : Defining \union Submitting \union {"list"}, id : WorkflowIds, code : {"none", "file"},
   takes : BOOLEAN, args : BOOLEAN, maxPages : Nat]
WorkflowRecords ==
  [by : ApiClients \union {"stored"}, code : {"none", "file", "empty"}, takes : BOOLEAN]
    \union {NoRecord}
Verbs == {"POST", "PUT", "submit"}
HandlerStages ==
  {"received", "checked", "put", "repairs", "200", "refused", "404", "409", "500", "lost"}
HandlerRecords == [verb : Verbs, stage : HandlerStages, record : WorkflowRecords]
Answers == {"", "ok", "raised", "exists", "missing", "arguments", "cancelled", "refused",
            "404", "409", "500"}
Active(c) == clientPhase[c] \notin {"idle", "ended"}

\* The verb of the request at hand, by the phase of the call
VerbOK(c) ==
  /\ clientPhase[c] = "asks" => verb[c] = "submit"
  /\ clientPhase[c] = "gets" => verb[c] \in {"", "submit"}
  /\ clientPhase[c] \in {"confirms", "uploads"} => verb[c] \in {"POST", "PUT"}
  /\ clientPhase[c] \in {"sends", "waits"} => verb[c] \in Verbs

ClientTypes(c) ==
  /\ clientPhase[c] \in ClientPhases /\ verb[c] \in Verbs \union {""} /\ VerbOK(c)
  /\ clientPhase[c] # "idle" => clientCall[c] \in CallRecords
  /\ codeAt[c] \in {"none", "file", "empty"}
  /\ handlers[c] \in Seq(HandlerRecords) /\ clientAnswer[c] \in Answers
  /\ clientPhase[c] = "idle" => DOMAIN handlers[c] = {}
  /\ clientPhase[c] = "waits" => Len(handlers[c]) \in DOMAIN handlers[c]

ApiFunctions ==
  /\ clientCall = [c \in ApiClients |-> clientCall[c]]
  /\ clientPhase = [c \in ApiClients |-> clientPhase[c]]
  /\ verb = [c \in ApiClients |-> verb[c]] /\ codeAt = [c \in ApiClients |-> codeAt[c]]
  /\ handlers = [c \in ApiClients |-> handlers[c]]
  /\ clientAnswer = [c \in ApiClients |-> clientAnswer[c]]
  /\ pages = [c \in ApiClients |-> pages[c]] /\ wasThere = [c \in ApiClients |-> wasThere[c]]

ApiTypes ==
  /\ workflows \in [WorkflowIds -> WorkflowRecords]
  /\ ApiFunctions /\ \A c \in ApiClients : ClientTypes(c)

ApiStep(c) ==
  \/ \E call \in ApiCalls : StartApiCall(c, call)
  \/ GetWorkflow(c) \/ (\E yes \in BOOLEAN : Confirm(c, yes))
  \/ UploadCode(c) \/ UploadThrottled(c)
  \/ Send(c) \/ Receive(c) \/ (\E arrived \in BOOLEAN : AnswerLost(c, arrived))
  \/ \E k \in DOMAIN handlers[c] : \/ HandlerReads(c, k) \/ HandlerPuts(c, k) \/ HandlerLaunches(c, k)
                                 \/ \E stored \in BOOLEAN : HandlerRaises(c, k, stored)
  \/ YieldPage(c)

\* What a step of one client leaves alone of another
LEMMA Others ==
  ASSUME ApiFunctions, NEW c \in ApiClients, ApiStep(c), NEW d \in ApiClients, d # c
  PROVE  /\ clientCall'[d] = clientCall[d] /\ clientPhase'[d] = clientPhase[d]
         /\ verb'[d] = verb[d] /\ codeAt'[d] = codeAt[d] /\ handlers'[d] = handlers[d]
         /\ clientAnswer'[d] = clientAnswer[d] /\ pages'[d] = pages[d]
<1> USE DEF ApiFunctions, Goto, Answer, TryAgain, Proceed
<1>1. CASE \E call \in ApiCalls : StartApiCall(c, call)
  BY <1>1 DEF StartApiCall
<1>2. CASE GetWorkflow(c)
  BY <1>2 DEF GetWorkflow
<1>3. CASE \E yes \in BOOLEAN : Confirm(c, yes)
  BY <1>3 DEF Confirm
<1>4. CASE UploadCode(c)
  BY <1>4 DEF UploadCode
<1>5. CASE UploadThrottled(c)
  BY <1>5 DEF UploadThrottled
<1>6. CASE Send(c)
  BY <1>6 DEF Send
<1>7. CASE Receive(c)
  BY <1>7 DEF Receive
<1>8. CASE \E arrived \in BOOLEAN : AnswerLost(c, arrived)
  BY <1>8 DEF AnswerLost
<1>9. CASE \E k \in DOMAIN handlers[c] : HandlerReads(c, k)
  BY <1>9 DEF HandlerReads
<1>10. CASE \E k \in DOMAIN handlers[c] : HandlerPuts(c, k)
  BY <1>10 DEF HandlerPuts, Puts
<1>11. CASE \E k \in DOMAIN handlers[c] : HandlerLaunches(c, k)
  BY <1>11 DEF HandlerLaunches
<1>12. CASE \E k \in DOMAIN handlers[c], stored \in BOOLEAN : HandlerRaises(c, k, stored)
  BY <1>12 DEF HandlerRaises, Puts
<1>13. CASE YieldPage(c)
  BY <1>13 DEF YieldPage
<1>14. QED
  BY <1>1, <1>2, <1>3, <1>4, <1>5, <1>6, <1>7, <1>8, <1>9, <1>10, <1>11, <1>12, <1>13 DEF ApiStep

LEMMA FunctionsKept ==
  ASSUME ApiFunctions, NEW c \in ApiClients, ApiStep(c)
  PROVE  ApiFunctions'
<1> USE DEF ApiFunctions, Goto, Answer, TryAgain, Proceed
<1>1. CASE \E call \in ApiCalls : StartApiCall(c, call)
  BY <1>1 DEF StartApiCall
<1>2. CASE GetWorkflow(c)
  BY <1>2 DEF GetWorkflow
<1>3. CASE \E yes \in BOOLEAN : Confirm(c, yes)
  BY <1>3 DEF Confirm
<1>4. CASE UploadCode(c)
  BY <1>4 DEF UploadCode
<1>5. CASE UploadThrottled(c)
  BY <1>5 DEF UploadThrottled
<1>6. CASE Send(c)
  BY <1>6 DEF Send
<1>7. CASE Receive(c)
  BY <1>7 DEF Receive
<1>8. CASE \E arrived \in BOOLEAN : AnswerLost(c, arrived)
  BY <1>8 DEF AnswerLost
<1>9. CASE \E k \in DOMAIN handlers[c] : HandlerReads(c, k)
  BY <1>9 DEF HandlerReads
<1>10. CASE \E k \in DOMAIN handlers[c] : HandlerPuts(c, k)
  BY <1>10 DEF HandlerPuts, Puts
<1>11. CASE \E k \in DOMAIN handlers[c] : HandlerLaunches(c, k)
  BY <1>11 DEF HandlerLaunches
<1>12. CASE \E k \in DOMAIN handlers[c], stored \in BOOLEAN : HandlerRaises(c, k, stored)
  BY <1>12 DEF HandlerRaises, Puts
<1>13. CASE YieldPage(c)
  BY <1>13 DEF YieldPage
<1>14. QED
  BY <1>1, <1>2, <1>3, <1>4, <1>5, <1>6, <1>7, <1>8, <1>9, <1>10, <1>11, <1>12, <1>13 DEF ApiStep

\* A request more, and a request that has got further
LEMMA AddHandler ==
  ASSUME NEW s \in Seq(HandlerRecords), NEW h \in HandlerRecords
  PROVE  /\ Append(s, h) \in Seq(HandlerRecords) /\ Len(Append(s, h)) = Len(s) + 1
         /\ DOMAIN Append(s, h) = DOMAIN s \union {Len(s) + 1} /\ Append(s, h)[Len(s) + 1] = h
         /\ \A j \in DOMAIN s : j # Len(s) + 1 /\ Append(s, h)[j] = s[j]
<1>1. Len(s) \in Nat /\ DOMAIN s = 1..Len(s)
  OBVIOUS
<1>2. Append(s, h) \in Seq(HandlerRecords) /\ Len(Append(s, h)) = Len(s) + 1
  OBVIOUS
<1>3. DOMAIN Append(s, h) = 1..(Len(s) + 1)
  BY <1>2
<1>4. 1..(Len(s) + 1) = (1..Len(s)) \union {Len(s) + 1}
  BY <1>1
<1>5. QED
  BY <1>1, <1>2, <1>3, <1>4

LEMMA SetHandler ==
  ASSUME NEW s \in Seq(HandlerRecords), NEW k \in DOMAIN s, NEW h \in HandlerRecords
  PROVE  /\ [s EXCEPT ![k] = h] \in Seq(HandlerRecords) /\ Len([s EXCEPT ![k] = h]) = Len(s)
         /\ DOMAIN [s EXCEPT ![k] = h] = DOMAIN s /\ [s EXCEPT ![k] = h][k] = h
         /\ \A j \in DOMAIN s : j # k => [s EXCEPT ![k] = h][j] = s[j]
OBVIOUS

\* A handler that has got to some stage with some record
LEMMA HandlerGoesOn ==
  ASSUME NEW h \in HandlerRecords, NEW stage \in HandlerStages, NEW record \in WorkflowRecords
  PROVE  /\ [h EXCEPT !.stage = stage, !.record = record] \in HandlerRecords
         /\ [h EXCEPT !.stage = stage, !.record = record].verb = h.verb
         /\ [h EXCEPT !.stage = stage, !.record = record].stage = stage
         /\ [h EXCEPT !.stage = stage, !.record = record].record = record
         /\ [h EXCEPT !.stage = stage] \in HandlerRecords
         /\ [h EXCEPT !.stage = stage].verb = h.verb
         /\ [h EXCEPT !.stage = stage].stage = stage
         /\ [h EXCEPT !.stage = stage].record = h.record
BY DEF HandlerRecords

\* What becomes of the handlers of the client that takes a step: a request more,
\* one that gets further, or none of both.
Received(c) ==
  /\ DOMAIN handlers'[c] = DOMAIN handlers[c] \union {Len(handlers[c]) + 1}
  /\ Len(handlers'[c]) = Len(handlers[c]) + 1
  /\ \A j \in DOMAIN handlers[c] : handlers'[c][j] = handlers[c][j]
  /\ handlers'[c][Len(handlers[c]) + 1].verb = verb[c]
  /\ handlers'[c][Len(handlers[c]) + 1].stage = "received"
GetsTo(c, k, stage, record) ==
  /\ DOMAIN handlers'[c] = DOMAIN handlers[c] /\ Len(handlers'[c]) = Len(handlers[c])
  /\ \A j \in DOMAIN handlers[c] : j # k => handlers'[c][j] = handlers[c][j]
  /\ handlers'[c][k].verb = handlers[c][k].verb
  /\ handlers'[c][k].stage = stage /\ handlers'[c][k].record = record

LEMMA SendFacts ==
  ASSUME ApiTypes, NEW c \in ApiClients, Send(c)
  PROVE  Received(c) /\ handlers'[c] \in Seq(HandlerRecords)
<1>1. /\ handlers'[c] = Append(handlers[c], [verb |-> verb[c], stage |-> "received", record |-> NoRecord])
      /\ clientPhase[c] = "sends"
  BY DEF Send, ApiTypes, ApiFunctions
<1>2. handlers[c] \in Seq(HandlerRecords) /\ verb[c] \in Verbs
  BY <1>1 DEF ApiTypes, ClientTypes, VerbOK
<1>3. [verb |-> verb[c], stage |-> "received", record |-> NoRecord] \in HandlerRecords
  BY <1>2 DEF HandlerRecords, HandlerStages, WorkflowRecords
<1>4. QED
  BY <1>1, <1>2, <1>3, AddHandler DEF Received

LEMMA HandlerType ==
  ASSUME ApiTypes, NEW c \in ApiClients, NEW k \in DOMAIN handlers[c]
  PROVE  handlers[c][k] \in HandlerRecords /\ clientPhase[c] # "idle"
<1>1. handlers[c] \in Seq(HandlerRecords) /\ (clientPhase[c] = "idle" => DOMAIN handlers[c] = {})
  BY DEF ApiTypes, ClientTypes
<1>2. QED
  BY <1>1

LEMMA GetsToFacts ==
  ASSUME ApiTypes, NEW c \in ApiClients, NEW k \in DOMAIN handlers[c],
         NEW h \in HandlerRecords, h.verb = handlers[c][k].verb,
         handlers' = [handlers EXCEPT ![c] = [handlers[c] EXCEPT ![k] = h]]
  PROVE  GetsTo(c, k, h.stage, h.record) /\ handlers'[c] \in Seq(HandlerRecords)
<1>1. handlers'[c] = [handlers[c] EXCEPT ![k] = h]
  BY DEF ApiTypes, ApiFunctions
<1>2. handlers[c] \in Seq(HandlerRecords)
  BY DEF ApiTypes, ClientTypes
<1>3. QED
  BY <1>1, <1>2, SetHandler DEF GetsTo

\* The record of the workflow a call is about
LEMMA RecordType ==
  ASSUME ApiTypes, NEW c \in ApiClients, clientPhase[c] # "idle"
  PROVE  /\ clientCall[c] \in CallRecords /\ clientCall[c].id \in WorkflowIds
         /\ Record(c) \in WorkflowRecords
BY DEF ApiTypes, ClientTypes, CallRecords, Record

LEMMA ReadsFacts ==
  ASSUME ApiTypes, NEW c \in ApiClients, NEW k \in DOMAIN handlers[c], HandlerReads(c, k)
  PROVE  /\ handlers[c][k] \in HandlerRecords /\ handlers[c][k].stage = "received"
         /\ handlers'[c] \in Seq(HandlerRecords)
         /\ \E stage \in {"409", "404", "checked"}, record \in WorkflowRecords :
              /\ GetsTo(c, k, stage, record)
              /\ handlers[c][k].verb = "submit" => record = Record(c)
              /\ handlers[c][k].verb # "submit" => record.by = c
              /\ stage = "409" => Record(c) # NoRecord
              /\ stage = "404" => Record(c) = NoRecord
              /\ stage = "checked" /\ handlers[c][k].verb = "submit" => record # NoRecord
<1> DEFINE h == handlers[c][k]
           there == Record(c) # NoRecord
           stage == IF h.verb = "POST" THEN IF there THEN "409" ELSE "checked"
                    ELSE IF there THEN "checked" ELSE "404"
           record == IF h.verb = "submit" THEN Record(c)
                     ELSE [by |-> c, code |-> codeAt[c], takes |-> clientCall[c].takes]
<1>1. /\ h.stage = "received"
      /\ handlers' = [handlers EXCEPT ![c] = [handlers[c] EXCEPT ![k] =
                        [h EXCEPT !.stage = stage, !.record = record]]]
  BY DEF HandlerReads, ApiTypes, ApiFunctions
<1>2. h \in HandlerRecords
  BY HandlerType
<1>3. clientCall[c] \in CallRecords /\ Record(c) \in WorkflowRecords
  BY HandlerType, RecordType
<1>4. record \in WorkflowRecords
  BY <1>3 DEF ApiTypes, ClientTypes, CallRecords, WorkflowRecords
<1>5. stage \in {"409", "404", "checked"} /\ stage \in HandlerStages
  BY DEF HandlerStages
<1> DEFINE g == [h EXCEPT !.stage = stage, !.record = record]
<1>6. g \in HandlerRecords /\ g.verb = h.verb /\ g.stage = stage /\ g.record = record
  <2> HIDE DEF stage, record, h
  <2>1. QED
    BY <1>2, <1>4, <1>5 DEF HandlerRecords
<1>7. GetsTo(c, k, stage, record) /\ handlers'[c] \in Seq(HandlerRecords)
  <2> HIDE DEF g, stage, record
  <2>1. handlers' = [handlers EXCEPT ![c] = [handlers[c] EXCEPT ![k] = g]]
    BY <1>1 DEF g
  <2>2. QED
    BY <1>6, <2>1, GetsToFacts
<1>8. QED
  BY <1>1, <1>2, <1>4, <1>5, <1>7

\* A handler gets to another stage and keeps its record.
LEMMA StageFacts ==
  ASSUME ApiTypes, NEW c \in ApiClients, NEW k \in DOMAIN handlers[c], NEW stage \in HandlerStages,
         handlers' = [handlers EXCEPT ![c][k].stage = stage]
  PROVE  GetsTo(c, k, stage, handlers[c][k].record) /\ handlers'[c] \in Seq(HandlerRecords)
<1> DEFINE g == [handlers[c][k] EXCEPT !.stage = stage]
<1>1. handlers[c][k] \in HandlerRecords
  BY HandlerType
<1>2. /\ g \in HandlerRecords /\ g.verb = handlers[c][k].verb /\ g.stage = stage
      /\ g.record = handlers[c][k].record
  BY <1>1, HandlerGoesOn DEF HandlerRecords
<1>3. handlers' = [handlers EXCEPT ![c] = [handlers[c] EXCEPT ![k] = g]]
  OBVIOUS
<1>4. QED
  <2> HIDE DEF g
  <2>1. QED
    BY <1>2, <1>3, GetsToFacts

LEMMA OwnTypes ==
  ASSUME ApiTypes, NEW c \in ApiClients, ApiStep(c)
  PROVE  ClientTypes(c)' /\ workflows' \in [WorkflowIds -> WorkflowRecords]
<1> USE DEF ApiFunctions, Goto, Answer
<1>0. /\ ClientTypes(c) /\ ApiFunctions /\ workflows \in [WorkflowIds -> WorkflowRecords]
      /\ clientPhase[c] \in ClientPhases /\ verb[c] \in Verbs \union {""} /\ clientAnswer[c] \in Answers
  BY DEF ApiTypes, ClientTypes
<1>1. ASSUME UNCHANGED <<workflows, handlers>>, clientCall'[c] = clientCall[c], codeAt'[c] = codeAt[c],
             clientPhase[c] # "idle",
             clientPhase'[c] \in ClientPhases \ {"idle", "waits"}, verb'[c] \in Verbs \union {""}, VerbOK(c)',
             clientAnswer'[c] \in Answers
      PROVE  ClientTypes(c)' /\ workflows' \in [WorkflowIds -> WorkflowRecords]
  BY <1>0, <1>1 DEF ClientTypes
<1>2. ASSUME NEW call \in ApiCalls, StartApiCall(c, call)
      PROVE  ClientTypes(c)' /\ workflows' \in [WorkflowIds -> WorkflowRecords]
  <2>1. /\ clientCall'[c] = call /\ call \in CallRecords
        /\ UNCHANGED <<workflows, codeAt, handlers, clientAnswer>>
        /\ clientPhase'[c] = (CASE call.op = "list" -> "lists"
                                 [] call.op = "submit" -> "asks"
                                 [] OTHER -> "gets")
        /\ verb'[c] = (IF call.op = "submit" THEN "submit" ELSE "")
    BY <1>0, <1>2, ApiAssumption DEF StartApiCall, CallRecords
  <2>2. /\ clientPhase'[c] \in {"lists", "asks", "gets"} /\ verb'[c] \in {"submit", ""}
        /\ clientPhase'[c] = "asks" => verb'[c] = "submit"
    BY <2>1
  <2>3. QED
    BY <1>0, <2>1, <2>2 DEF ClientTypes, VerbOK, ClientPhases, Verbs
<1>3. CASE GetWorkflow(c)
  <2>1. /\ clientPhase[c] = "gets" /\ verb[c] \in {"", "submit"} /\ clientCall[c] \in CallRecords
        /\ UNCHANGED <<workflows, codeAt, handlers>>
    BY <1>0, <1>3 DEF GetWorkflow, ClientTypes, VerbOK
  <2>2. clientCall'[c] \in CallRecords
    <3>1. clientCall'[c] = clientCall[c] \/ clientCall'[c] = [clientCall[c] EXCEPT !.args = RequestArgs(c)]
      BY <1>0, <1>3 DEF GetWorkflow
    <3>2. RequestArgs(c) \in BOOLEAN
      BY DEF RequestArgs
    <3>3. QED
      BY <2>1, <3>1, <3>2 DEF CallRecords
  <2>3. /\ clientPhase'[c] \in {"ended", "sends", "confirms"}
        /\ clientPhase'[c] = "sends" => verb'[c] = "submit"
        /\ clientPhase'[c] = "confirms" => verb'[c] \in {"PUT", "POST"}
        /\ verb'[c] \in {"PUT", "POST", "submit", ""}
        /\ clientAnswer'[c] \in {clientAnswer[c], "missing", "arguments", "exists"}
    BY <1>0, <1>3, <2>1 DEF GetWorkflow
  <2>4. QED
    BY <1>0, <2>1, <2>2, <2>3 DEF ClientTypes, VerbOK, ClientPhases, Verbs, Answers
<1>4. ASSUME NEW yes \in BOOLEAN, Confirm(c, yes)
      PROVE  ClientTypes(c)' /\ workflows' \in [WorkflowIds -> WorkflowRecords]
  <2>1. /\ UNCHANGED <<workflows, handlers, clientCall, codeAt, verb>>
        /\ clientPhase[c] \in {"asks", "confirms"}
        /\ clientPhase'[c] \in {"ended", IF clientPhase[c] = "asks" THEN "gets" ELSE "uploads"}
        /\ clientAnswer'[c] \in {clientAnswer[c], "cancelled"}
    BY <1>0, <1>4 DEF Confirm
  <2>2. VerbOK(c)'
    BY <1>0, <2>1 DEF ClientTypes, VerbOK
  <2>3. QED
    BY <1>0, <1>1, <2>1, <2>2 DEF ClientPhases, Answers
<1>5. CASE UploadCode(c)
  <2>1. /\ UNCHANGED <<workflows, handlers, clientCall, verb, clientAnswer>>
        /\ clientPhase[c] = "uploads" /\ clientPhase'[c] = "sends"
        /\ codeAt'[c] \in {"none", "empty", "file"}
    BY <1>0, <1>5 DEF UploadCode, StoredCode
  <2>2. QED
    BY <1>0, <2>1 DEF ClientTypes, VerbOK, Verbs, ClientPhases
<1>6. CASE UploadThrottled(c)
  <2>1. /\ UNCHANGED <<workflows, handlers, clientCall, verb, codeAt>>
        /\ clientPhase[c] = "uploads" /\ clientPhase'[c] \in {"uploads", "ended"}
        /\ clientAnswer'[c] \in {clientAnswer[c], "raised"}
    BY <1>0, <1>6 DEF UploadThrottled, TryAgain
  <2>2. VerbOK(c)'
    BY <1>0, <2>1 DEF ClientTypes, VerbOK
  <2>3. QED
    BY <1>0, <1>1, <2>1, <2>2 DEF ClientPhases, Answers
<1>7. CASE Send(c)
  <2>1. /\ UNCHANGED <<workflows, clientCall, verb, codeAt, clientAnswer>>
        /\ clientPhase[c] = "sends" /\ clientPhase'[c] = "waits"
    BY <1>0, <1>7 DEF Send
  <2>2. handlers'[c] \in Seq(HandlerRecords) /\ Received(c)
    BY <1>7, SendFacts
  <2>3. QED
    BY <1>0, <2>1, <2>2 DEF ClientTypes, VerbOK, ClientPhases, Received
<1>8. CASE Receive(c)
  <2>1. /\ UNCHANGED <<workflows, clientCall, handlers, codeAt>>
        /\ clientPhase[c] = "waits"
        /\ \/ clientPhase'[c] = "asks" /\ verb'[c] = "submit" /\ clientAnswer' = clientAnswer
           \/ /\ clientPhase'[c] = "ended" /\ verb' = verb
              /\ clientAnswer'[c] \in {"ok", "refused", "404", "409", "500", clientAnswer[c]}
    BY <1>0, <1>8 DEF Receive, Proceed, AnswerStages
  <2>2. VerbOK(c)'
    BY <1>0, <2>1 DEF ClientTypes, VerbOK
  <2>3. QED
    BY <1>0, <1>1, <2>1, <2>2 DEF ClientPhases, Answers, Verbs
<1>9. ASSUME NEW arrived \in BOOLEAN, AnswerLost(c, arrived)
      PROVE  ClientTypes(c)' /\ workflows' \in [WorkflowIds -> WorkflowRecords]
  <2>1. /\ UNCHANGED <<workflows, clientCall, verb, codeAt>>
        /\ clientPhase[c] = "waits" /\ clientPhase'[c] \in {"sends", "ended"}
        /\ clientAnswer'[c] \in {clientAnswer[c], "raised"}
    BY <1>0, <1>9 DEF AnswerLost, TryAgain
  <2>2. handlers'[c] \in Seq(HandlerRecords)
    <3>1. CASE arrived
      BY <1>0, <1>9, <3>1 DEF AnswerLost, ClientTypes
    <3>2. CASE ~arrived
      <4>1. handlers' = [handlers EXCEPT ![c][Len(handlers[c])].stage = "lost"]
        BY <1>9, <3>2 DEF AnswerLost
      <4>2. Len(handlers[c]) \in DOMAIN handlers[c]
        BY <1>0, <2>1 DEF ClientTypes
      <4>3. QED
        BY <4>1, <4>2, StageFacts DEF HandlerStages
    <3>3. QED
      BY <3>1, <3>2
  <2>3. QED
    BY <1>0, <2>1, <2>2 DEF ClientTypes, VerbOK, ClientPhases, Verbs, Answers
<1>10. ASSUME NEW k \in DOMAIN handlers[c], HandlerReads(c, k)
       PROVE  ClientTypes(c)' /\ workflows' \in [WorkflowIds -> WorkflowRecords]
  <2>1. UNCHANGED <<workflows, clientCall, clientPhase, verb, codeAt, clientAnswer>>
    BY <1>10 DEF HandlerReads
  <2>2. /\ handlers'[c] \in Seq(HandlerRecords)
        /\ DOMAIN handlers'[c] = DOMAIN handlers[c] /\ Len(handlers'[c]) = Len(handlers[c])
    BY <1>10, ReadsFacts DEF GetsTo
  <2>3. QED
    BY <1>0, <2>1, <2>2 DEF ClientTypes, VerbOK
<1>11. ASSUME NEW k \in DOMAIN handlers[c], Puts(c, k) \/ UNCHANGED workflows,
              NEW stage \in HandlerStages, handlers' = [handlers EXCEPT ![c][k].stage = stage],
              UNCHANGED <<clientCall, clientPhase, verb, codeAt, clientAnswer>>
       PROVE  ClientTypes(c)' /\ workflows' \in [WorkflowIds -> WorkflowRecords]
  <2>1. /\ handlers'[c] \in Seq(HandlerRecords)
        /\ DOMAIN handlers'[c] = DOMAIN handlers[c] /\ Len(handlers'[c]) = Len(handlers[c])
    BY <1>11, StageFacts DEF GetsTo
  <2>2. workflows' \in [WorkflowIds -> WorkflowRecords]
    <3>1. handlers[c][k].record \in WorkflowRecords
      BY HandlerType DEF HandlerRecords
    <3>2. clientCall[c].id \in WorkflowIds
      BY HandlerType, RecordType
    <3>3. QED
      BY <1>0, <1>11, <3>1, <3>2 DEF Puts
  <2>3. QED
    BY <1>0, <1>11, <2>1, <2>2 DEF ClientTypes, VerbOK
<1>12. ASSUME NEW k \in DOMAIN handlers[c], HandlerPuts(c, k) \/ HandlerLaunches(c, k)
       PROVE  ClientTypes(c)' /\ workflows' \in [WorkflowIds -> WorkflowRecords]
  BY <1>11, <1>12 DEF HandlerPuts, HandlerLaunches, HandlerStages
<1>13. ASSUME NEW k \in DOMAIN handlers[c], NEW stored \in BOOLEAN, HandlerRaises(c, k, stored)
       PROVE  ClientTypes(c)' /\ workflows' \in [WorkflowIds -> WorkflowRecords]
  BY <1>11, <1>13 DEF HandlerRaises, HandlerStages
<1>14. CASE YieldPage(c)
  <2>1. /\ UNCHANGED <<workflows, handlers, clientCall, codeAt, verb>>
        /\ clientPhase[c] = "lists" /\ clientPhase'[c] \in {"lists", "ended"}
        /\ clientAnswer'[c] \in {clientAnswer[c], "ok"}
    BY <1>0, <1>14 DEF YieldPage
  <2>2. VerbOK(c)'
    BY <2>1 DEF VerbOK
  <2>3. QED
    BY <1>0, <1>1, <2>1, <2>2 DEF ClientPhases, Answers
<1>15. QED
  BY <1>2, <1>3, <1>4, <1>5, <1>6, <1>7, <1>8, <1>9, <1>10, <1>11, <1>12, <1>13,
     <1>14 DEF ApiStep

LEMMA TypesKept ==
  ASSUME ApiTypes, NEW c \in ApiClients, ApiStep(c)
  PROVE  ApiTypes'
<1>1. ClientTypes(c)' /\ workflows' \in [WorkflowIds -> WorkflowRecords]
  BY OwnTypes
<1>2. ApiFunctions'
  BY FunctionsKept DEF ApiTypes
<1>3. ASSUME NEW d \in ApiClients, d # c
      PROVE  ClientTypes(d)'
  <2>1. /\ clientCall'[d] = clientCall[d] /\ clientPhase'[d] = clientPhase[d]
        /\ verb'[d] = verb[d] /\ codeAt'[d] = codeAt[d] /\ handlers'[d] = handlers[d]
        /\ clientAnswer'[d] = clientAnswer[d]
    BY <1>3, Others DEF ApiTypes
  <2>2. ClientTypes(d)
    BY DEF ApiTypes
  <2>3. QED
    BY <2>1, <2>2 DEF ClientTypes, VerbOK
<1>4. QED
  BY <1>1, <1>2, <1>3 DEF ApiTypes

-----------------------------------------------------------------------------
(* What the answers rest on                                                *)

\* The call has stored its definition; its arguments fit a record it could see.
Defined(c) == \E r \in Seen(c) : r.by = c
Fits(c) == \E w \in Seen(c) \ {NoRecord} : w.takes = clientCall[c].args

\* What is there during the call is in its history.
Current(c) == Active(c) => \A i \in WorkflowIds : <<i, workflows[i]>> \in wasThere[c]

CallOK(c) ==
  /\ clientPhase[c] # "ended" => clientAnswer[c] = ""
  /\ clientPhase[c] \in {"asks", "confirms", "gets", "uploads", "sends", "waits"} =>
       /\ verb[c] = "submit" => /\ clientCall[c].op \in Submitting
                                /\ clientCall[c].op \in Defining => Defined(c)
       /\ verb[c] # "submit" => clientCall[c].op \in Defining
  /\ verb[c] = "submit" /\ clientPhase[c] \in {"sends", "waits"} => Fits(c)
  /\ clientPhase[c] = "waits" => handlers[c][Len(handlers[c])].verb = verb[c]
  /\ clientPhase[c] = "lists" => clientCall[c].op = "list"

\* Requests to submit are sent at the end of a call and with arguments that fit.
SubmitOnly(c) ==
  \A k \in DOMAIN handlers[c] : handlers[c][k].verb = "submit" =>
    /\ verb[c] = "submit" /\ clientPhase[c] \in {"sends", "waits", "ended"} /\ Fits(c)
    /\ clientAnswer[c] \notin {"exists", "missing", "arguments", "cancelled"}

\* The stages that have put a run, and those at which there may be one
HasRun == {"put", "repairs", "200", "refused"}
RunStages == HasRun \union {"500", "lost"}

\* What a handler has got to is so, as long as its client may still be told.
HandlerDone(c, k) ==
  LET h == handlers[c][k]
  IN  /\ h.verb # "submit" /\ h.stage = "checked" => h.record.by = c
      /\ h.stage \in HasRun \ {"200"} => h.verb = "submit"
      /\ h.verb = "submit" /\ h.stage \in HasRun =>
           \E r \in RunsBy(c) : r.request = k /\ r.workflow = h.record
      /\ h.verb = "submit" /\ h.stage = "200" => <<c, k>> \in launched
      /\ <<c, k>> \in launched => h.verb = "submit" /\ h.stage \in {"200", "refused"}
      /\ <<c, k>> \in failedRuns => h.stage = "500"
      /\ Active(c) =>
           /\ h.verb # "submit" /\ h.stage = "200" => Defined(c)
           /\ h.verb = "submit" /\ h.stage \in HasRun \union {"checked"} => h.record \in Seen(c)
           /\ h.stage = "409" => \E r \in Seen(c) : r # NoRecord
           /\ h.stage = "404" => NoRecord \in Seen(c)

RunsOK(c) ==
  /\ \A r \in RunsBy(c) :
       /\ r.request \in DOMAIN handlers[c]
       /\ handlers[c][r.request].verb = "submit" /\ handlers[c][r.request].stage \in RunStages
       /\ \E w \in Seen(c) \ {NoRecord} : w.takes = r.args
  /\ \A k : <<c, k>> \in launched \union failedRuns => k \in DOMAIN handlers[c]

AnswerOK(c) ==
  /\ AnswerTrue(c)
  /\ clientAnswer[c] \in {"refused", "404", "409", "500"} =>
       handlers[c][Len(handlers[c])].stage = clientAnswer[c]

\* A listing has yielded what is up to its token, and all of it after the last page.
ListOK(c) ==
  LET p == pages[c]
  IN  /\ clientPhase[c] = "idle" => p = NoPages
      /\ clientPhase[c] \in {"lists", "ended"} /\ clientCall[c].op = "list" =>
           /\ p.token \in Nat /\ p.count \in Nat /\ p.yielded \in [WorkflowIds -> Nat]
           /\ \A i \in WorkflowIds : <<i, NoRecord>> \notin wasThere[c] /\ p.yielded[i] = 0 =>
                i > p.token /\ (p.count = 0 \/ p.token > 0)
           /\ clientCall[c].maxPages = 0 => \A i \in WorkflowIds :
                p.yielded[i] <= 1 /\ (clientPhase[c] = "lists" /\ i > p.token => p.yielded[i] = 0)
           /\ clientPhase[c] = "ended" => p.token = 0 /\ p.count > 0

ClientPart(c) ==
  /\ Current(c) /\ CallOK(c) /\ SubmitOnly(c) /\ \A k \in DOMAIN handlers[c] : HandlerDone(c, k)
  /\ RunsOK(c) /\ AnswerOK(c) /\ ListOK(c)

ApiInv == ApiTypes /\ \A c \in ApiClients : ClientPart(c)

\* The runs of a client are as they were, and what is known of one request's.
SameRun(c, k) ==
  /\ <<c, k>> \in launched' <=> <<c, k>> \in launched
  /\ <<c, k>> \in failedRuns' <=> <<c, k>> \in failedRuns
SameRuns(c) == RunsBy(c)' = RunsBy(c) /\ \A k : SameRun(c, k)

LEMMA RunsUnchanged ==
  ASSUME UNCHANGED <<runs, launched, failedRuns>>, NEW c
  PROVE  SameRuns(c)
BY DEF SameRuns, SameRun, RunsBy

LEMMA SeenGrows ==
  ASSUME NEW c \in ApiClients, wasThere[c] \subseteq wasThere'[c], clientCall'[c].id = clientCall[c].id
  PROVE  /\ Seen(c) \subseteq Seen(c)'
         /\ Defined(c) => Defined(c)'
         /\ clientCall'[c].args = clientCall[c].args /\ Fits(c) => Fits(c)'
<1>1. Seen(c) \subseteq Seen(c)'
  BY DEF Seen
<1>2. QED
  BY <1>1 DEF Defined, Fits

LEMMA DoneKept ==
  ASSUME NEW c \in ApiClients, NEW k, HandlerDone(c, k), handlers'[c][k] = handlers[c][k],
         RunsBy(c) \subseteq RunsBy(c)', SameRun(c, k), Seen(c) \subseteq Seen(c)',
         Active(c)' => Active(c)
  PROVE  HandlerDone(c, k)'
<1> DEFINE h == handlers[c][k]
<1>1. Defined(c) => Defined(c)'
  BY DEF Defined
<1>2. h.verb = "submit" /\ h.stage \in HasRun => \E r \in RunsBy(c)' : r.request = k /\ r.workflow = h.record
  BY DEF HandlerDone
<1>3. ASSUME Active(c)'
      PROVE  /\ h.verb # "submit" /\ h.stage = "200" => Defined(c)'
             /\ h.verb = "submit" /\ h.stage \in HasRun \union {"checked"} => h.record \in Seen(c)'
             /\ h.stage = "409" => \E r \in Seen(c)' : r # NoRecord
             /\ h.stage = "404" => NoRecord \in Seen(c)'
  BY <1>1, <1>3 DEF HandlerDone
<1>4. /\ h.verb # "submit" /\ h.stage = "checked" => h.record.by = c
      /\ h.stage \in HasRun \ {"200"} => h.verb = "submit"
      /\ h.verb = "submit" /\ h.stage = "200" => <<c, k>> \in launched'
      /\ <<c, k>> \in launched' => h.verb = "submit" /\ h.stage \in {"200", "refused"}
      /\ <<c, k>> \in failedRuns' => h.stage = "500"
  BY DEF HandlerDone, SameRun
<1>5. QED
  BY <1>2, <1>3, <1>4 DEF HandlerDone

LEMMA RunsKept ==
  ASSUME NEW c \in ApiClients, RunsOK(c), SameRuns(c), Seen(c) \subseteq Seen(c)',
         DOMAIN handlers[c] \subseteq DOMAIN handlers'[c],
         \A k \in DOMAIN handlers[c] : handlers[c][k].stage \in RunStages =>
           handlers'[c][k].verb = handlers[c][k].verb /\ handlers'[c][k].stage \in RunStages
  PROVE  RunsOK(c)'
<1>1. ASSUME NEW r \in RunsBy(c)'
      PROVE  /\ r.request \in DOMAIN handlers'[c]
             /\ handlers'[c][r.request].verb = "submit" /\ handlers'[c][r.request].stage \in RunStages
             /\ \E w \in Seen(c)' \ {NoRecord} : w.takes = r.args
  <2>1. /\ r.request \in DOMAIN handlers[c]
        /\ handlers[c][r.request].verb = "submit" /\ handlers[c][r.request].stage \in RunStages
        /\ \E w \in Seen(c) \ {NoRecord} : w.takes = r.args
    BY <1>1 DEF RunsOK, SameRuns
  <2>2. QED
    BY <2>1
<1>2. \A k : <<c, k>> \in launched' \union failedRuns' => k \in DOMAIN handlers'[c]
  BY DEF RunsOK, SameRuns, SameRun
<1>3. QED
  BY <1>1, <1>2 DEF RunsOK

\* The client that does nothing: its history may grow.
LEMMA BystanderKeeps ==
  ASSUME NEW d \in ApiClients, ClientPart(d),
         clientCall'[d] = clientCall[d], clientPhase'[d] = clientPhase[d], verb'[d] = verb[d],
         handlers'[d] = handlers[d], clientAnswer'[d] = clientAnswer[d], pages'[d] = pages[d],
         SameRuns(d), wasThere[d] \subseteq wasThere'[d],
         Active(d) => \A i \in WorkflowIds : <<i, workflows'[i]>> \in wasThere'[d]
  PROVE  ClientPart(d)'
<1>1. /\ Seen(d) \subseteq Seen(d)' /\ (Defined(d) => Defined(d)') /\ (Fits(d) => Fits(d)')
  BY SeenGrows
<1>2. Active(d)' <=> Active(d)
  BY DEF Active
<1>3. Current(d)'
  BY <1>2 DEF Current
<1>4. CallOK(d)'
  BY <1>1 DEF ClientPart, CallOK
<1>5. SubmitOnly(d)'
  BY <1>1 DEF ClientPart, SubmitOnly
<1>6. \A k \in DOMAIN handlers[d] : HandlerDone(d, k)'
  BY <1>1, <1>2, DoneKept DEF ClientPart, SameRuns
<1>7. RunsOK(d)'
  BY <1>1, RunsKept DEF ClientPart
<1>8. AnswerOK(d)'
  <2>1. AnswerTrue(d) => AnswerTrue(d)'
    BY <1>1 DEF AnswerTrue, SameRuns, SameRun, Heard
  <2>2. QED
    BY <2>1 DEF ClientPart, AnswerOK
<1>9. ListOK(d)'
  BY DEF ClientPart, ListOK
<1>10. QED
  BY <1>3, <1>4, <1>5, <1>6, <1>7, <1>8, <1>9 DEF ClientPart

-----------------------------------------------------------------------------
(* The client that takes the step                                          *)

\* Before it has sent a request to submit, the client has no run.
LEMMA NoRunYet ==
  ASSUME NEW c \in ApiClients, SubmitOnly(c), RunsOK(c),
         clientPhase[c] \notin {"sends", "waits", "ended"} \/ verb[c] # "submit"
  PROVE  RunsBy(c) = {} /\ \A k \in DOMAIN handlers[c] : handlers[c][k].verb # "submit"
BY DEF SubmitOnly, RunsOK

\* A step that only changes where the client is, perhaps with an answer
LEMMA QuietStep ==
  ASSUME ApiInv, NEW c \in ApiClients, Active(c),
         UNCHANGED <<workflows, runVars, handlers, wasThere>>, clientCall'[c] = clientCall[c],
         clientPhase'[c] # "idle", CallOK(c)', SubmitOnly(c)', AnswerOK(c)', ListOK(c)'
  PROVE  ClientPart(c)'
<1>1. ClientPart(c) /\ SameRuns(c)
  BY RunsUnchanged DEF ApiInv, runVars
<1>2. Seen(c) \subseteq Seen(c)'
  BY SeenGrows
<1>3. Current(c)'
  BY <1>1 DEF ClientPart, Current
<1>4. \A k \in DOMAIN handlers[c] : HandlerDone(c, k)'
  BY <1>1, <1>2, DoneKept DEF ClientPart, SameRuns
<1>5. RunsOK(c)'
  BY <1>1, <1>2, RunsKept DEF ClientPart
<1>6. QED
  BY <1>3, <1>4, <1>5 DEF ClientPart

\* The record a client could look at is in its history.
LEMMA SeesRecord ==
  ASSUME ApiTypes, NEW c \in ApiClients, Current(c), Active(c)
  PROVE  Record(c) \in Seen(c)
<1>1. clientPhase[c] # "idle"
  BY DEF Active
<1>2. clientCall[c].id \in WorkflowIds
  BY <1>1, RecordType
<1>3. <<clientCall[c].id, workflows[clientCall[c].id]>> \in wasThere[c]
  BY <1>2 DEF Current
<1>4. QED
  BY <1>3 DEF Seen, Record

LEMMA StartKeeps ==
  ASSUME ApiInv, NEW c \in ApiClients, NEW call \in ApiCalls, StartApiCall(c, call)
  PROVE  ClientPart(c)'
<1>1. /\ clientPhase[c] = "idle" /\ ClientPart(c) /\ ApiFunctions /\ ClientTypes(c)
      /\ workflows \in [WorkflowIds -> WorkflowRecords]
  BY DEF ApiInv, ApiTypes, StartApiCall
<1>2. /\ clientCall'[c] = call /\ call \in CallRecords
      /\ clientPhase'[c] = (CASE call.op = "list" -> "lists"
                                 [] call.op = "submit" -> "asks"
                                 [] OTHER -> "gets")
      /\ verb'[c] = (IF call.op = "submit" THEN "submit" ELSE "")
      /\ wasThere'[c] = {<<i, workflows[i]>> : i \in WorkflowIds}
      /\ UNCHANGED <<workflows, runVars, handlers, clientAnswer, pages>>
  BY <1>1, ApiAssumption DEF StartApiCall, ApiFunctions, Goto, CallRecords
<1>3. /\ clientAnswer[c] = "" /\ DOMAIN handlers[c] = {} /\ pages[c] = NoPages
  BY <1>1 DEF ClientPart, CallOK, ClientTypes, ListOK
<1>4. clientPhase'[c] \in {"lists", "asks", "gets"}
  BY <1>2
<1>5. RunsBy(c)' = {} /\ \A k : <<c, k>> \notin launched' \union failedRuns'
  BY <1>1, <1>2, <1>3 DEF ClientPart, RunsOK, RunsBy
<1>6. Current(c)'
  BY <1>2 DEF Current
<1>7. CallOK(c)'
  <2>1. call.op \in Defining \union Submitting \union {"list"}
    BY <1>2 DEF CallRecords
  <2>2. clientPhase'[c] = "lists" <=> call.op = "list"
    BY <1>2
  <2>3. verb'[c] = "submit" <=> call.op = "submit"
    BY <1>2
  <2>4. QED
    BY <1>2, <1>3, <1>4, <2>1, <2>2, <2>3 DEF CallOK, Defining, Submitting
<1>8. SubmitOnly(c)' /\ (\A k \in DOMAIN handlers'[c] : HandlerDone(c, k)') /\ RunsOK(c)'
  BY <1>2, <1>3, <1>5 DEF SubmitOnly, RunsOK
<1>9. AnswerOK(c)'
  BY <1>2, <1>3 DEF AnswerOK, AnswerTrue
<1>10. ListOK(c)'
  <2>1. /\ NoPages.token = 0 /\ NoPages.count = 0 /\ NoPages.yielded \in [WorkflowIds -> Nat]
        /\ \A i \in WorkflowIds : NoPages.yielded[i] = 0 /\ i > 0
    BY ApiAssumption DEF NoPages, WorkflowIds
  <2>2. pages'[c] = NoPages /\ clientPhase'[c] \notin {"idle", "ended"}
    BY <1>2, <1>3, <1>4
  <2> HIDE DEF NoPages
  <2>3. QED
    BY <2>1, <2>2 DEF ListOK
<1>11. QED
  BY <1>6, <1>7, <1>8, <1>9, <1>10 DEF ClientPart

LEMMA GetKeeps ==
  ASSUME ApiInv, NEW c \in ApiClients, GetWorkflow(c)
  PROVE  ClientPart(c)'
<1>1. ClientPart(c) /\ ApiTypes /\ ApiFunctions /\ clientPhase[c] = "gets" /\ Active(c)
  BY DEF ApiInv, ApiTypes, GetWorkflow, Active
<1>2. /\ UNCHANGED <<workflows, runVars, handlers, wasThere, pages>>
      /\ clientCall[c] \in CallRecords /\ clientCall'[c].id = clientCall[c].id
      /\ clientCall'[c].op = clientCall[c].op /\ SameRuns(c)
  <2>1. clientCall[c] \in CallRecords
    BY <1>1 DEF ApiTypes, ClientTypes
  <2>2. clientCall'[c] = clientCall[c] \/ clientCall'[c] = [clientCall[c] EXCEPT !.args = RequestArgs(c)]
    BY <1>1 DEF GetWorkflow, ApiFunctions
  <2>3. QED
    BY <2>1, <2>2, RunsUnchanged DEF GetWorkflow, CallRecords
<1>3. /\ RunsBy(c) = {} /\ RunsBy(c)' = {}
      /\ \A k \in DOMAIN handlers[c] : handlers[c][k].verb # "submit"
  BY <1>1, <1>2, NoRunYet DEF ClientPart, RunsBy
<1>4. /\ Record(c) \in Seen(c) /\ Seen(c) = Seen(c)' /\ (Defined(c) => Defined(c)')
  <2>1. Seen(c)' = Seen(c)
    BY <1>2 DEF Seen
  <2>2. QED
    BY <1>1, <2>1, SeesRecord DEF ClientPart, Defined
<1>5. /\ \/ clientPhase'[c] = "sends" /\ verb'[c] = "submit" /\ verb[c] = "submit" /\ clientAnswer'[c] = ""
            /\ Record(c) # NoRecord /\ Record(c).takes = clientCall'[c].args
         \/ clientPhase'[c] = "confirms" /\ verb[c] # "submit" /\ verb'[c] \in {"PUT", "POST"}
            /\ clientAnswer'[c] = ""
         \/ /\ clientPhase'[c] = "ended"
            /\ \/ clientAnswer'[c] = "missing" /\ Record(c) = NoRecord
               \/ clientAnswer'[c] = "arguments"
               \/ clientAnswer'[c] = "exists" /\ Record(c) # NoRecord
  <2>1. clientAnswer[c] = ""
    BY <1>1 DEF ClientPart, CallOK
  <2>2. CASE verb[c] = "submit" /\ Record(c) # NoRecord /\ ArgumentsFit(c)
    <3>1. clientCall' = [clientCall EXCEPT ![c].args = RequestArgs(c)] /\ Goto(c, "sends")
          /\ clientAnswer' = clientAnswer /\ verb' = verb
      BY <2>2 DEF GetWorkflow
    <3>2. clientCall'[c].args = RequestArgs(c)
      BY <1>1, <1>2, <3>1 DEF ApiFunctions, CallRecords
    <3>3. QED
      BY <1>1, <2>1, <2>2, <3>1, <3>2 DEF ApiFunctions, Goto, ArgumentsFit
  <2>3. CASE verb[c] = "submit" /\ ~(Record(c) # NoRecord /\ ArgumentsFit(c))
    BY <1>1, <2>3 DEF GetWorkflow, ApiFunctions, Answer
  <2>4. CASE verb[c] # "submit"
    BY <1>1, <2>1, <2>4 DEF GetWorkflow, ApiFunctions, Answer, Goto
  <2>5. QED
    BY <2>2, <2>3, <2>4
<1>6. Current(c)'
  BY <1>1, <1>2 DEF ClientPart, Current
<1>7. CallOK(c)'
  BY <1>1, <1>2, <1>4, <1>5 DEF ClientPart, CallOK, Fits
<1>8. SubmitOnly(c)' /\ RunsOK(c)'
  BY <1>1, <1>2, <1>3 DEF ClientPart, SubmitOnly, RunsOK
<1>9. \A k \in DOMAIN handlers'[c] : HandlerDone(c, k)'
  BY <1>1, <1>2, <1>3, <1>4, DoneKept DEF ClientPart, SameRuns
<1>10. AnswerOK(c)'
  BY <1>3, <1>4, <1>5 DEF AnswerOK, AnswerTrue
<1>11. ListOK(c)'
  <2>1. clientCall[c].op # "list"
    BY <1>1 DEF ClientPart, CallOK, Defining, Submitting
  <2>2. QED
    BY <1>2, <1>5, <2>1 DEF ListOK
<1>12. QED
  BY <1>6, <1>7, <1>8, <1>9, <1>10, <1>11 DEF ClientPart

LEMMA ConfirmKeeps ==
  ASSUME ApiInv, NEW c \in ApiClients, NEW yes \in BOOLEAN, Confirm(c, yes)
  PROVE  ClientPart(c)'
<1>1. /\ ClientPart(c) /\ ApiFunctions /\ ClientTypes(c) /\ Active(c)
      /\ clientPhase[c] \in {"asks", "confirms"}
      /\ UNCHANGED <<workflows, runVars, handlers, wasThere, pages, clientCall, verb>>
  BY DEF ApiInv, ApiTypes, Confirm, Active
<1>2. \/ clientPhase'[c] = "ended" /\ clientAnswer'[c] = "cancelled"
      \/ clientPhase'[c] = (IF clientPhase[c] = "asks" THEN "gets" ELSE "uploads") /\ clientAnswer'[c] = ""
  BY <1>1 DEF Confirm, ApiFunctions, Answer, Goto, ClientPart, CallOK
<1>3. /\ RunsBy(c) = {} /\ RunsBy(c)' = {}
      /\ \A k \in DOMAIN handlers[c] : handlers[c][k].verb # "submit"
  BY <1>1, NoRunYet DEF ClientPart, RunsBy
<1>4. (Defined(c) => Defined(c)') /\ clientCall[c].op # "list"
  BY <1>1, SeenGrows DEF ClientPart, CallOK, Defining, Submitting
<1>5. CallOK(c)'
  BY <1>1, <1>2, <1>4 DEF ClientPart, CallOK
<1>6. SubmitOnly(c)'
  BY <1>1, <1>3 DEF SubmitOnly
<1>7. AnswerOK(c)' /\ ListOK(c)'
  BY <1>1, <1>2, <1>3, <1>4 DEF AnswerOK, AnswerTrue, ListOK
<1>8. QED
  BY <1>1, <1>2, <1>5, <1>6, <1>7, QuietStep

LEMMA UploadKeeps ==
  ASSUME ApiInv, NEW c \in ApiClients, UploadCode(c) \/ UploadThrottled(c)
  PROVE  ClientPart(c)'
<1>1. /\ ClientPart(c) /\ ApiFunctions /\ ClientTypes(c) /\ Active(c)
      /\ clientPhase[c] = "uploads" /\ verb[c] # "submit"
      /\ UNCHANGED <<workflows, runVars, handlers, wasThere, pages, clientCall, verb>>
  BY DEF ApiInv, ApiTypes, UploadCode, UploadThrottled, Active, ClientTypes, VerbOK
<1>2. \/ clientPhase'[c] = "ended" /\ clientAnswer'[c] = "raised"
      \/ clientPhase'[c] \in {"sends", "uploads"} /\ clientAnswer'[c] = ""
  BY <1>1 DEF UploadCode, UploadThrottled, TryAgain, ApiFunctions, Answer, Goto, ClientPart, CallOK
<1>3. \A k \in DOMAIN handlers[c] : handlers[c][k].verb # "submit"
  BY <1>1, NoRunYet DEF ClientPart
<1>4. clientCall[c].op # "list"
  BY <1>1 DEF ClientPart, CallOK, Defining, Submitting
<1>5. CallOK(c)'
  BY <1>1, <1>2, <1>4 DEF ClientPart, CallOK
<1>6. SubmitOnly(c)'
  BY <1>1, <1>3 DEF SubmitOnly
<1>7. AnswerOK(c)' /\ ListOK(c)'
  BY <1>1, <1>2, <1>4 DEF AnswerOK, AnswerTrue, ListOK
<1>8. QED
  BY <1>1, <1>2, <1>5, <1>6, <1>7, QuietStep

LEMMA SendKeeps ==
  ASSUME ApiInv, NEW c \in ApiClients, Send(c)
  PROVE  ClientPart(c)'
<1>1. /\ ClientPart(c) /\ ApiFunctions /\ ClientTypes(c) /\ Active(c)
      /\ clientPhase[c] = "sends" /\ clientPhase'[c] = "waits"
      /\ UNCHANGED <<workflows, runVars, wasThere, pages, clientCall, verb, clientAnswer>>
  BY DEF ApiInv, ApiTypes, ApiFunctions, Send, Active, Goto
<1>2. Received(c) /\ clientAnswer[c] = "" /\ clientCall[c].op # "list"
  BY <1>1, SendFacts DEF ApiInv, ClientPart, CallOK, Defining, Submitting
<1>3. DOMAIN handlers[c] = 1..Len(handlers[c]) /\ Len(handlers[c]) \in Nat
  <2>1. handlers[c] \in Seq(HandlerRecords)
    BY <1>1 DEF ClientTypes
  <2>2. QED
    BY <2>1
<1>4. /\ SameRuns(c) /\ RunsBy(c)' = RunsBy(c) /\ Seen(c) = Seen(c)' /\ (Defined(c) => Defined(c)')
      /\ (Fits(c) => Fits(c)')
  BY <1>1, RunsUnchanged DEF SameRuns, Seen, Defined, Fits
<1>5. Current(c)'
  BY <1>1 DEF ClientPart, Current
<1>6. CallOK(c)'
  BY <1>1, <1>2, <1>4 DEF ClientPart, CallOK, Received
<1>7. SubmitOnly(c)'
  BY <1>1, <1>2, <1>4 DEF ClientPart, SubmitOnly, CallOK, Received
<1>8. \A k \in DOMAIN handlers'[c] : HandlerDone(c, k)'
  <2> SUFFICES ASSUME NEW k \in DOMAIN handlers'[c]
               PROVE  HandlerDone(c, k)'
    OBVIOUS
  <2>1. CASE k \in DOMAIN handlers[c]
    BY <1>1, <1>2, <1>4, <2>1, DoneKept DEF ClientPart, Received, SameRuns
  <2>2. CASE k = Len(handlers[c]) + 1
    <3>1. <<c, k>> \notin launched' /\ <<c, k>> \notin failedRuns'
      BY <1>1, <1>3, <2>2 DEF ClientPart, RunsOK
    <3>2. QED
      BY <1>2, <2>2, <3>1 DEF HandlerDone, HasRun, Received
  <2>3. QED
    BY <1>2, <2>1, <2>2 DEF Received
<1>9. RunsOK(c)'
  BY <1>1, <1>2, <1>4, RunsKept DEF ClientPart, Received
<1>10. AnswerOK(c)' /\ ListOK(c)'
  BY <1>1, <1>2 DEF AnswerOK, AnswerTrue, ListOK
<1>11. QED
  BY <1>5, <1>6, <1>7, <1>8, <1>9, <1>10 DEF ClientPart

LEMMA ReceiveKeeps ==
  ASSUME ApiInv, NEW c \in ApiClients, Receive(c)
  PROVE  ClientPart(c)'
<1> DEFINE n == Len(handlers[c])
           stage == handlers[c][n].stage
<1>1. /\ ClientPart(c) /\ ApiFunctions /\ ClientTypes(c) /\ Active(c) /\ clientPhase[c] = "waits"
      /\ UNCHANGED <<workflows, runVars, wasThere, pages, clientCall, handlers>>
      /\ stage \in {"200", "refused", "404", "409", "500"}
  BY DEF ApiInv, ApiTypes, Receive, AnswerStages, Active, Last
<1>2. n \in DOMAIN handlers[c] /\ HandlerDone(c, n) /\ handlers[c][n].verb = verb[c]
  BY <1>1 DEF ClientTypes, ClientPart, CallOK
<1>3. clientCall[c].op # "list" /\ clientAnswer[c] = ""
  BY <1>1 DEF ClientPart, CallOK, Defining, Submitting
<1>4. \/ /\ stage = "200" /\ verb[c] # "submit" /\ clientCall[c].op \in Submitting
         /\ clientPhase'[c] = "asks" /\ verb'[c] = "submit" /\ clientAnswer'[c] = ""
      \/ /\ stage = "200" /\ (verb[c] = "submit" \/ clientCall[c].op \notin Submitting)
         /\ clientPhase'[c] = "ended" /\ verb'[c] = verb[c] /\ clientAnswer'[c] = "ok"
      \/ /\ stage # "200"
         /\ clientPhase'[c] = "ended" /\ verb'[c] = verb[c] /\ clientAnswer'[c] = stage
  BY <1>1, <1>3 DEF Receive, Proceed, ApiFunctions, Answer, Goto, Last
<1>5. /\ SameRuns(c) /\ RunsBy(c)' = RunsBy(c) /\ Seen(c) = Seen(c)' /\ (Defined(c) <=> Defined(c)')
      /\ (Fits(c) => Fits(c)')
  BY <1>1, RunsUnchanged DEF SameRuns, Seen, Defined, Fits
<1>6. /\ stage = "200" /\ verb[c] # "submit" => Defined(c)
      /\ (stage = "200" /\ verb[c] = "submit") \/ stage = "refused" =>
           /\ \E r \in RunsBy(c) : r.request = n /\ r.workflow \in Seen(c)
           /\ clientCall[c].op \in Submitting
      /\ stage = "200" /\ verb[c] = "submit" => Heard(c) \in launched
      /\ stage = "500" => Heard(c) \notin launched
      /\ stage = "409" => \E r \in Seen(c) : r # NoRecord
      /\ stage = "404" => NoRecord \in Seen(c)
  BY <1>1, <1>2 DEF HandlerDone, HasRun, Heard, ClientPart, CallOK
<1>7. verb[c] = "submit" \/ \A k \in DOMAIN handlers[c] : handlers[c][k].verb # "submit"
  BY <1>1 DEF ClientPart, SubmitOnly
<1>8. CallOK(c)'
  BY <1>1, <1>3, <1>4, <1>5, <1>6 DEF CallOK
<1>9. SubmitOnly(c)'
  BY <1>1, <1>4, <1>5, <1>7 DEF ClientPart, SubmitOnly
<1>10. AnswerOK(c)'
  <2>1. CASE clientAnswer'[c] = "ok"
    <3>1. /\ clientCall[c].op \in Defining => Defined(c)
          /\ clientCall[c].op \in Submitting => verb[c] = "submit"
      BY <1>1, <1>4, <1>6, <2>1 DEF ClientPart, CallOK
    <3>2. stage = "200"
      BY <1>1, <1>4, <2>1
    <3>3. QED
      BY <1>1, <1>5, <1>6, <2>1, <3>1, <3>2 DEF AnswerOK, AnswerTrue, Defined, Heard
  <2>2. CASE clientAnswer'[c] # "ok"
    BY <1>1, <1>3, <1>4, <1>5, <1>6, <2>2 DEF AnswerOK, AnswerTrue, Heard
  <2>3. QED
    BY <2>1, <2>2
<1>11. ListOK(c)'
  BY <1>1, <1>3, <1>4 DEF ListOK
<1>12. QED
  BY <1>1, <1>4, <1>8, <1>9, <1>10, <1>11, QuietStep

LEMMA AnswerLostKeeps ==
  ASSUME ApiInv, NEW c \in ApiClients, NEW arrived \in BOOLEAN, AnswerLost(c, arrived)
  PROVE  ClientPart(c)'
<1> DEFINE n == Len(handlers[c])
<1>1. /\ ClientPart(c) /\ ApiTypes /\ ApiFunctions /\ ClientTypes(c) /\ Active(c) /\ clientPhase[c] = "waits"
      /\ UNCHANGED <<workflows, runVars, wasThere, pages, clientCall, verb>>
      /\ n \in DOMAIN handlers[c] /\ clientAnswer[c] = "" /\ clientCall[c].op # "list"
  BY DEF ApiInv, ApiTypes, AnswerLost, Active, ClientTypes, ClientPart, CallOK, Defining, Submitting
<1>2. \/ clientPhase'[c] = "ended" /\ clientAnswer'[c] = "raised"
      \/ clientPhase'[c] = "sends" /\ clientAnswer'[c] = ""
  BY <1>1 DEF AnswerLost, TryAgain, ApiFunctions, Answer, Goto
<1>3. /\ SameRuns(c) /\ RunsBy(c)' = RunsBy(c) /\ Seen(c) = Seen(c)' /\ (Defined(c) => Defined(c)')
      /\ (Fits(c) => Fits(c)')
  BY <1>1, RunsUnchanged DEF SameRuns, Seen, Defined, Fits
<1>4. /\ DOMAIN handlers'[c] = DOMAIN handlers[c]
      /\ \A k \in DOMAIN handlers[c] : handlers'[c][k].verb = handlers[c][k].verb
      /\ \A k \in DOMAIN handlers[c] :
           handlers'[c][k] = handlers[c][k]
             \/ (handlers[c][k].stage \notin AnswerStages /\ handlers'[c][k].stage = "lost")
  <2>1. CASE arrived
    <3>1. handlers' = handlers
      BY <2>1 DEF AnswerLost
    <3>2. QED
      BY <3>1
  <2>2. CASE ~arrived
    <3>1. handlers[c][n].stage \notin AnswerStages /\ handlers' = [handlers EXCEPT ![c][n].stage = "lost"]
      BY <2>2 DEF AnswerLost, Last
    <3>2. GetsTo(c, n, "lost", handlers[c][n].record)
      BY <1>1, <3>1, StageFacts DEF HandlerStages
    <3> HIDE DEF n
    <3>3. \A k \in DOMAIN handlers[c] : k = n \/ handlers'[c][k] = handlers[c][k]
      BY <3>2 DEF GetsTo
    <3>4. handlers'[c][n].verb = handlers[c][n].verb /\ handlers'[c][n].stage = "lost"
      BY <3>2 DEF GetsTo
    <3>5. QED
      BY <3>1, <3>2, <3>3, <3>4 DEF GetsTo
  <2>3. QED
    BY <2>1, <2>2
<1>5. Current(c)'
  BY <1>1 DEF ClientPart, Current
<1>6. CallOK(c)'
  BY <1>1, <1>2, <1>3 DEF ClientPart, CallOK
<1>7. SubmitOnly(c)'
  BY <1>1, <1>2, <1>3, <1>4 DEF ClientPart, SubmitOnly
<1>8. \A k \in DOMAIN handlers'[c] : HandlerDone(c, k)'
  <2> SUFFICES ASSUME NEW k \in DOMAIN handlers[c]
               PROVE  HandlerDone(c, k)'
    BY <1>4
  <2>1. CASE handlers'[c][k] = handlers[c][k]
    BY <1>1, <1>3, <2>1, DoneKept DEF ClientPart, SameRuns
  <2>2. CASE handlers[c][k].stage \notin AnswerStages /\ handlers'[c][k].stage = "lost"
    <3>1. <<c, k>> \notin launched /\ <<c, k>> \notin failedRuns
      BY <1>1, <2>2 DEF ClientPart, HandlerDone, AnswerStages
    <3>2. QED
      BY <1>1, <2>2, <3>1 DEF HandlerDone, HasRun
  <2>3. QED
    BY <1>4, <2>1, <2>2
<1>9. RunsOK(c)'
  <2>1. \A k \in DOMAIN handlers[c] : handlers[c][k].stage \in RunStages =>
          handlers'[c][k].verb = handlers[c][k].verb /\ handlers'[c][k].stage \in RunStages
    BY <1>4 DEF RunStages
  <2>2. QED
    BY <1>1, <1>3, <1>4, <2>1, RunsKept DEF ClientPart
<1>10. AnswerOK(c)' /\ ListOK(c)'
  BY <1>1, <1>2 DEF AnswerOK, AnswerTrue, ListOK
<1>11. QED
  BY <1>4, <1>5, <1>6, <1>7, <1>8, <1>9, <1>10 DEF ClientPart

\* A handler that gets further, whatever it does to the records and the runs
LEMMA HandlerKeeps ==
  ASSUME ApiInv, NEW c \in ApiClients, NEW k \in DOMAIN handlers[c], NEW stage, NEW record,
         GetsTo(c, k, stage, record), handlers[c][k].stage \in {"received", "checked", "put", "repairs"},
         UNCHANGED <<clientCall, clientPhase, verb, clientAnswer, pages>>,
         wasThere[c] \subseteq wasThere'[c], RunsBy(c) \subseteq RunsBy(c)',
         handlers[c][k].verb # "submit" => RunsBy(c)' = RunsBy(c),
         \A j : j # k => SameRun(c, j),
         Current(c)', HandlerDone(c, k)', RunsOK(c)'
  PROVE  ClientPart(c)'
<1> DEFINE n == Len(handlers[c])
<1>1. ClientPart(c) /\ ApiTypes /\ ClientTypes(c)
  BY DEF ApiInv, ApiTypes
<1>2. /\ Seen(c) \subseteq Seen(c)' /\ (Defined(c) => Defined(c)') /\ (Fits(c) => Fits(c)')
  BY SeenGrows
<1>3. /\ DOMAIN handlers'[c] = DOMAIN handlers[c] /\ Len(handlers'[c]) = n
      /\ \A j \in DOMAIN handlers[c] : handlers'[c][j].verb = handlers[c][j].verb
      /\ \A j \in DOMAIN handlers[c] : j # k => handlers'[c][j] = handlers[c][j]
  BY DEF GetsTo
<1>4. clientPhase[c] = "waits" => n \in DOMAIN handlers[c]
  BY <1>1 DEF ClientTypes
<1>5. CallOK(c)'
  <2>1. clientPhase[c] = "waits" => handlers'[c][n].verb = verb[c]
    BY <1>1, <1>3, <1>4 DEF ClientPart, CallOK
  <2>2. QED
    BY <1>1, <1>2, <1>3, <2>1 DEF ClientPart, CallOK
<1>6. SubmitOnly(c)'
  BY <1>1, <1>2, <1>3 DEF ClientPart, SubmitOnly
<1>7. \A j \in DOMAIN handlers'[c] : HandlerDone(c, j)'
  <2> SUFFICES ASSUME NEW j \in DOMAIN handlers[c], j # k
               PROVE  HandlerDone(c, j)'
    BY <1>3
  <2>1. Active(c)' => Active(c)
    BY DEF Active
  <2>2. QED
    BY <1>1, <1>2, <1>3, <2>1, DoneKept DEF ClientPart
<1>8. AnswerOK(c)'
  <2>1. clientAnswer[c] \in {"arguments", "cancelled"} => RunsBy(c)' = RunsBy(c)
    BY <1>1 DEF ClientPart, SubmitOnly
  <2>2. ASSUME clientAnswer[c] \in {"refused", "404", "409", "500"}
        PROVE  handlers'[c][n].stage = clientAnswer[c] /\ n # k
    <3>1. handlers[c][n].stage = clientAnswer[c]
      BY <1>1, <2>2 DEF ClientPart, AnswerOK
    <3>2. n # k
      BY <2>2, <3>1
    <3>3. n \in DOMAIN handlers[c]
      <4>1. handlers[c] \in Seq(HandlerRecords)
        BY <1>1 DEF ClientTypes
      <4>2. QED
        BY <4>1
    <3>4. QED
      BY <1>3, <3>1, <3>2, <3>3
  <2>3. Heard(c)' = Heard(c) /\ Heard(c) = <<c, n>>
    BY <1>3 DEF Heard
  <2>4. Heard(c) \in launched => Heard(c) \in launched'
    <3>1. CASE n = k
      <4>1. <<c, k>> \notin launched
        BY <1>1 DEF ClientPart, HandlerDone
      <4>2. QED
        BY <2>3, <3>1, <4>1
    <3>2. CASE n # k
      BY <2>3, <3>2 DEF SameRun
    <3>3. QED
      BY <3>1, <3>2
  <2>5. clientAnswer[c] = "500" /\ Heard(c) \notin launched => Heard(c) \notin launched'
    BY <2>2, <2>3 DEF SameRun
  <2>6. AnswerTrue(c)'
    <3>1. AnswerTrue(c)
      BY <1>1 DEF ClientPart, AnswerOK
    <3>2. CASE clientAnswer[c] = "ok"
      BY <1>2, <1>3, <2>3, <2>4, <3>1, <3>2 DEF AnswerTrue
    <3>3. CASE clientAnswer[c] # "ok"
      BY <1>2, <1>3, <2>1, <2>3, <2>5, <3>1, <3>3 DEF AnswerTrue
    <3>4. QED
      BY <3>2, <3>3
  <2>7. QED
    BY <1>3, <2>2, <2>6 DEF AnswerOK
<1>9. ListOK(c)'
  BY <1>1 DEF ClientPart, ListOK
<1>10. QED
  BY <1>5, <1>6, <1>7, <1>8, <1>9 DEF ClientPart

\* A handler gets further, and what there was of runs is as it was.
LEMMA GoesOnKeepsRuns ==
  ASSUME NEW c \in ApiClients, NEW k \in DOMAIN handlers[c], NEW stage, NEW record, RunsOK(c),
         GetsTo(c, k, stage, record), SameRuns(c), Seen(c) \subseteq Seen(c)',
         handlers[c][k].stage \in RunStages => stage \in RunStages
  PROVE  RunsOK(c)'
<1>1. \A j \in DOMAIN handlers[c] : handlers[c][j].stage \in RunStages =>
        handlers'[c][j].verb = handlers[c][j].verb /\ handlers'[c][j].stage \in RunStages
  BY DEF GetsTo
<1>2. DOMAIN handlers[c] \subseteq DOMAIN handlers'[c]
  BY DEF GetsTo
<1>3. QED
  BY <1>1, <1>2, RunsKept

LEMMA ReadsKeeps ==
  ASSUME ApiInv, NEW c \in ApiClients, NEW k \in DOMAIN handlers[c], HandlerReads(c, k)
  PROVE  ClientPart(c)'
<1>1. /\ ClientPart(c) /\ ApiTypes
      /\ UNCHANGED <<workflows, runVars, clientCall, clientPhase, verb, clientAnswer, pages, wasThere>>
  BY DEF ApiInv, HandlerReads
<1> DEFINE h == handlers[c][k]
<1>2. PICK stage \in {"409", "404", "checked"}, record \in WorkflowRecords :
        /\ GetsTo(c, k, stage, record)
        /\ h.verb = "submit" => record = Record(c)
        /\ h.verb # "submit" => record.by = c
        /\ stage = "409" => Record(c) # NoRecord
        /\ stage = "404" => Record(c) = NoRecord
  BY <1>1, ReadsFacts
<1>3. h.stage = "received"
  BY <1>1, ReadsFacts
<1>4. SameRuns(c) /\ RunsBy(c)' = RunsBy(c) /\ Seen(c)' = Seen(c)
  BY <1>1, RunsUnchanged DEF SameRuns, Seen
<1>5. Current(c)'
  BY <1>1 DEF ClientPart, Current, Active
<1>6. HandlerDone(c, k)'
  <2>1. Active(c) => Record(c) \in Seen(c)
    BY <1>1, SeesRecord DEF ClientPart
  <2>2. handlers'[c][k].verb = h.verb /\ handlers'[c][k].stage = stage /\ handlers'[c][k].record = record
    BY <1>2 DEF GetsTo
  <2>3. Active(c)' <=> Active(c)
    BY <1>1 DEF Active
  <2>4. <<c, k>> \notin launched' /\ <<c, k>> \notin failedRuns'
    BY <1>1, <1>3 DEF ClientPart, HandlerDone
  <2>5. QED
    BY <1>2, <1>4, <2>1, <2>2, <2>3, <2>4 DEF HandlerDone, HasRun
<1>7. RunsOK(c)'
  BY <1>1, <1>2, <1>3, <1>4, GoesOnKeepsRuns DEF ClientPart, RunStages, HasRun
<1>8. QED
  BY <1>1, <1>2, <1>3, <1>4, <1>5, <1>6, <1>7, HandlerKeeps DEF SameRuns

\* What a handler that launches does: the runner has taken the run, or refused it
\* while it may have taken it, or has raised.
LEMMA LaunchesFacts ==
  ASSUME ApiInv, NEW c \in ApiClients, NEW k \in DOMAIN handlers[c], HandlerLaunches(c, k)
  PROVE  /\ handlers[c][k].stage = "put"
         /\ UNCHANGED <<workflows, runs, failedRuns, clientCall, clientPhase, verb, clientAnswer, pages, wasThere>>
         /\ \E stage \in {"200", "refused", "repairs"} :
              /\ GetsTo(c, k, stage, handlers[c][k].record)
              /\ stage = "200" => <<c, k>> \in launched'
              /\ stage = "repairs" => launched' = launched
         /\ launched' \in {launched, launched \union {<<c, k>>}}
<1>1. PICK stage \in {"200", "refused", "repairs"}, taken \in BOOLEAN :
        /\ handlers' = [handlers EXCEPT ![c][k].stage = stage]
        /\ stage = "200" => taken
        /\ stage = "repairs" => ~taken
        /\ launched' = IF taken THEN launched \union {<<c, k>>} ELSE launched
  BY DEF HandlerLaunches
<1>2. GetsTo(c, k, stage, handlers[c][k].record)
  <2>1. stage \in HandlerStages /\ ApiTypes
    BY DEF HandlerStages, ApiInv
  <2>2. QED
    BY <1>1, <2>1, StageFacts
<1>3. QED
  BY <1>1, <1>2 DEF HandlerLaunches

LEMMA LaunchesKeeps ==
  ASSUME ApiInv, NEW c \in ApiClients, NEW k \in DOMAIN handlers[c], HandlerLaunches(c, k)
  PROVE  ClientPart(c)'
<1> DEFINE h == handlers[c][k]
<1>1. /\ ClientPart(c) /\ h.stage = "put"
      /\ UNCHANGED <<workflows, runs, failedRuns, clientCall, clientPhase, verb, clientAnswer, pages, wasThere>>
      /\ launched' \in {launched, launched \union {<<c, k>>}}
  BY LaunchesFacts DEF ApiInv
<1>2. PICK stage \in {"200", "refused", "repairs"} :
        /\ GetsTo(c, k, stage, h.record)
        /\ stage = "200" => <<c, k>> \in launched'
        /\ stage = "repairs" => launched' = launched
  BY LaunchesFacts
<1>3. RunsBy(c)' = RunsBy(c) /\ Seen(c)' = Seen(c) /\ (Active(c)' <=> Active(c))
  BY <1>1 DEF RunsBy, Seen, Active
<1>4. Current(c)'
  BY <1>1 DEF ClientPart, Current, Active
<1>5. \A j : j # k => SameRun(c, j)
  BY <1>1 DEF SameRun
<1>6. /\ handlers'[c][k].verb = h.verb /\ handlers'[c][k].stage = stage /\ handlers'[c][k].record = h.record
      /\ DOMAIN handlers'[c] = DOMAIN handlers[c]
      /\ \A j \in DOMAIN handlers[c] : j # k => handlers'[c][j] = handlers[c][j]
  BY <1>2 DEF GetsTo
<1>7. HandlerDone(c, k)'
  <2>1. /\ h.verb = "submit" /\ <<c, k>> \notin launched /\ <<c, k>> \notin failedRuns
        /\ \E r \in RunsBy(c) : r.request = k /\ r.workflow = h.record
        /\ Active(c) => h.record \in Seen(c)
    BY <1>1 DEF ClientPart, HandlerDone, HasRun
  <2>2. QED
    BY <1>1, <1>2, <1>3, <1>6, <2>1 DEF HandlerDone, HasRun
<1>8. RunsOK(c)'
  <2>1. \A j \in DOMAIN handlers[c] : handlers[c][j].stage \in RunStages =>
          handlers'[c][j].verb = handlers[c][j].verb /\ handlers'[c][j].stage \in RunStages
    BY <1>2, <1>6 DEF RunStages, HasRun
  <2>2. QED
    BY <1>1, <1>3, <1>6, <2>1 DEF ClientPart, RunsOK
<1>9. QED
  BY <1>1, <1>2, <1>3, <1>4, <1>5, <1>7, <1>8, HandlerKeeps

\* What a handler that puts does to the records of all, to the runs and to the histories:
\* nothing before the put has had its effect, or one of three things
PutsRun(c, k) ==
  /\ handlers[c][k].verb = "submit" /\ handlers[c][k].stage = "checked"
  /\ UNCHANGED <<workflows, wasThere, failedRuns>>
  /\ runs' = runs \union {[by |-> c, request |-> k, workflow |-> handlers[c][k].record,
                           args |-> clientCall[c].args]}
PutsRecord(c, k) ==
  /\ handlers[c][k].verb # "submit" /\ handlers[c][k].stage = "checked" /\ UNCHANGED <<runs, failedRuns>>
  /\ workflows' = [workflows EXCEPT ![clientCall[c].id] = handlers[c][k].record]
  /\ wasThere' = [d \in ApiClients |->
       IF clientPhase[d] \notin {"idle", "ended"}
       THEN wasThere[d] \union {<<clientCall[c].id, handlers[c][k].record>>} ELSE wasThere[d]]
PutsFailure(c, k) ==
  /\ handlers[c][k].stage = "repairs" /\ UNCHANGED <<workflows, wasThere, runs>>
  /\ failedRuns' = failedRuns \union {<<c, k>>}
PutsNothing == UNCHANGED <<workflows, wasThere, runs, failedRuns>>

\* A step of a handler that puts or raises
PutsOrRaises(c, k) == HandlerPuts(c, k) \/ \E stored \in BOOLEAN : HandlerRaises(c, k, stored)

LEMMA PutsFacts ==
  ASSUME ApiInv, NEW c \in ApiClients, NEW k \in DOMAIN handlers[c], PutsOrRaises(c, k)
  PROVE  /\ handlers[c][k].stage \in {"received", "checked", "repairs"}
         /\ UNCHANGED <<launched, clientCall, clientPhase, verb, clientAnswer, pages>>
         /\ \/ PutsRun(c, k) /\ \E stage \in {"put", "500"} : GetsTo(c, k, stage, handlers[c][k].record)
            \/ PutsRecord(c, k) /\ \E stage \in {"200", "500"} : GetsTo(c, k, stage, handlers[c][k].record)
            \/ (PutsFailure(c, k) \/ PutsNothing) /\ GetsTo(c, k, "500", handlers[c][k].record)
<1>1. /\ ApiTypes /\ handlers[c][k].stage \in {"received", "checked", "repairs"}
      /\ UNCHANGED <<launched, clientCall, clientPhase, verb, clientAnswer, pages>>
  BY DEF ApiInv, PutsOrRaises, HandlerPuts, HandlerRaises
<1>2. \A stage \in HandlerStages : handlers' = [handlers EXCEPT ![c][k].stage = stage] =>
        GetsTo(c, k, stage, handlers[c][k].record)
  BY <1>1, StageFacts
<1>3. ASSUME Puts(c, k)
      PROVE  \/ handlers[c][k].stage = "checked" /\ PutsRun(c, k)
             \/ handlers[c][k].stage = "checked" /\ PutsRecord(c, k)
             \/ handlers[c][k].stage = "repairs" /\ PutsFailure(c, k)
             \/ handlers[c][k].stage = "received" /\ PutsNothing
  <2>1. wasThere = [d \in ApiClients |-> wasThere[d]]
    BY <1>1 DEF ApiTypes, ApiFunctions
  <2>2. CASE handlers[c][k].stage = "checked" /\ handlers[c][k].verb = "submit"
    BY <1>3, <2>1, <2>2 DEF Puts, PutsRun
  <2>3. CASE handlers[c][k].stage = "checked" /\ handlers[c][k].verb # "submit"
    BY <1>3, <2>3 DEF Puts, PutsRecord
  <2>4. CASE handlers[c][k].stage = "repairs"
    BY <1>3, <2>1, <2>4 DEF Puts, PutsFailure
  <2>5. CASE handlers[c][k].stage = "received"
    BY <1>3, <2>1, <2>5 DEF Puts, PutsNothing
  <2>6. QED
    BY <1>1, <2>2, <2>3, <2>4, <2>5
<1>4. CASE HandlerPuts(c, k)
  <2>1. handlers[c][k].stage = "repairs" => handlers' = [handlers EXCEPT ![c][k].stage = "500"]
    BY <1>4 DEF HandlerPuts
  <2>2. handlers[c][k].stage = "checked" /\ handlers[c][k].verb = "submit" =>
          handlers' = [handlers EXCEPT ![c][k].stage = "put"]
    BY <1>4 DEF HandlerPuts
  <2>3. handlers[c][k].stage = "checked" /\ handlers[c][k].verb # "submit" =>
          handlers' = [handlers EXCEPT ![c][k].stage = "200"]
    BY <1>4 DEF HandlerPuts
  <2>4. Puts(c, k) /\ handlers[c][k].stage # "received"
    BY <1>4 DEF HandlerPuts
  <2>5. {"500", "put", "200"} \subseteq HandlerStages
    BY DEF HandlerStages
  <2>6. QED
    BY <1>1, <1>2, <1>3, <2>1, <2>2, <2>3, <2>4, <2>5 DEF PutsRun, PutsRecord
<1>5. ASSUME NEW stored \in BOOLEAN, HandlerRaises(c, k, stored)
      PROVE  /\ GetsTo(c, k, "500", handlers[c][k].record)
             /\ PutsRun(c, k) \/ PutsRecord(c, k) \/ PutsFailure(c, k) \/ PutsNothing
  <2>1. GetsTo(c, k, "500", handlers[c][k].record)
    BY <1>2, <1>5 DEF HandlerRaises, HandlerStages
  <2>2. Puts(c, k) \/ PutsNothing
    BY <1>5 DEF HandlerRaises, PutsNothing
  <2>3. QED
    BY <1>3, <2>1, <2>2
<1>6. QED
  BY <1>1, <1>4, <1>5 DEF PutsOrRaises

\* ... and to the clients
LEMMA PutsForAll ==
  ASSUME ApiInv, NEW c \in ApiClients, NEW k \in DOMAIN handlers[c], PutsOrRaises(c, k),
         NEW d \in ApiClients
  PROVE  /\ wasThere[d] \subseteq wasThere'[d] /\ (d # c => SameRuns(d))
         /\ Active(d) => \A i \in WorkflowIds : <<i, workflows'[i]>> \in wasThere'[d]
<1>1. /\ ApiTypes /\ ApiFunctions /\ handlers[c][k] \in HandlerRecords /\ clientPhase[c] # "idle"
      /\ workflows \in [WorkflowIds -> WorkflowRecords] /\ ClientPart(d)
  BY HandlerType DEF ApiInv, ApiTypes
<1>2. clientCall[c].id \in WorkflowIds
  BY <1>1, RecordType
<1>3. launched' = launched
  BY PutsFacts
<1>4. CASE PutsRun(c, k)
  <2>1. d # c => SameRuns(d)
    BY <1>3, <1>4 DEF PutsRun, RunsBy, SameRuns, SameRun
  <2>2. QED
    BY <1>1, <1>4, <2>1 DEF PutsRun, ClientPart, Current
<1>5. CASE PutsRecord(c, k)
  <2>1. Active(d) => wasThere'[d] = wasThere[d] \union {<<clientCall[c].id, handlers[c][k].record>>}
    BY <1>5 DEF PutsRecord, Active
  <2>2. ~Active(d) => wasThere'[d] = wasThere[d]
    BY <1>5 DEF PutsRecord, Active
  <2>3. \A i \in WorkflowIds : workflows'[i] =
          IF i = clientCall[c].id THEN handlers[c][k].record ELSE workflows[i]
    BY <1>1, <1>5 DEF PutsRecord
  <2>4. Active(d) => \A i \in WorkflowIds : <<i, workflows'[i]>> \in wasThere'[d]
    BY <1>1, <2>1, <2>3 DEF ClientPart, Current
  <2>5. SameRuns(d)
    BY <1>3, <1>5, RunsUnchanged DEF PutsRecord
  <2>6. QED
    BY <2>1, <2>2, <2>4, <2>5
<1>6. CASE PutsFailure(c, k)
  <2>1. d # c => SameRuns(d)
    BY <1>3, <1>6 DEF PutsFailure, RunsBy, SameRuns, SameRun
  <2>2. QED
    BY <1>1, <1>6, <2>1 DEF PutsFailure, ClientPart, Current
<1>7. CASE PutsNothing
  <2>1. SameRuns(d)
    BY <1>3, <1>7, RunsUnchanged DEF PutsNothing
  <2>2. QED
    BY <1>1, <1>7, <2>1 DEF PutsNothing, ClientPart, Current
<1>8. QED
  BY <1>4, <1>5, <1>6, <1>7, PutsFacts

LEMMA PutsKeeps ==
  ASSUME ApiInv, NEW c \in ApiClients, NEW k \in DOMAIN handlers[c], PutsOrRaises(c, k)
  PROVE  ClientPart(c)'
<1> DEFINE h == handlers[c][k]
           run == [by |-> c, request |-> k, workflow |-> h.record, args |-> clientCall[c].args]
<1>1. /\ ClientPart(c) /\ ApiTypes /\ h.stage \in {"received", "checked", "repairs"}
      /\ UNCHANGED <<launched, clientCall, clientPhase, verb, clientAnswer, pages>>
      /\ wasThere[c] \subseteq wasThere'[c]
      /\ Active(c) => \A i \in WorkflowIds : <<i, workflows'[i]>> \in wasThere'[c]
  BY PutsFacts, PutsForAll DEF ApiInv
<1>2. Seen(c) \subseteq Seen(c)' /\ HandlerDone(c, k) /\ (Active(c)' <=> Active(c))
  BY <1>1, SeenGrows DEF ClientPart, Active
<1>3. Current(c)'
  BY <1>1, <1>2 DEF Current
<1>4. ASSUME NEW stage, GetsTo(c, k, stage, h.record)
      PROVE  /\ handlers'[c][k].verb = h.verb /\ handlers'[c][k].stage = stage
             /\ handlers'[c][k].record = h.record /\ DOMAIN handlers'[c] = DOMAIN handlers[c]
             /\ \A j \in DOMAIN handlers[c] : j # k => handlers'[c][j] = handlers[c][j]
  BY <1>4 DEF GetsTo
<1>5. <<c, k>> \notin launched' /\ (h.stage # "repairs" => <<c, k>> \notin failedRuns)
  BY <1>1, <1>2 DEF HandlerDone
<1>6. ASSUME NEW stage \in {"put", "500"}, PutsRun(c, k), GetsTo(c, k, stage, h.record)
      PROVE  ClientPart(c)'
  <2>1. RunsBy(c)' = RunsBy(c) \union {run} /\ \A j : SameRun(c, j)
    BY <1>1, <1>6 DEF PutsRun, RunsBy, SameRun
  <2>2. run.request = k /\ run.workflow = h.record /\ run.args = clientCall[c].args
    OBVIOUS
  <2> HIDE DEF run
  <2>3. HandlerDone(c, k)'
    <3>1. \E r \in RunsBy(c)' : r.request = k /\ r.workflow = h.record
      BY <2>1, <2>2
    <3>2. Active(c) => h.record \in Seen(c)'
      BY <1>2, <1>6 DEF HandlerDone, PutsRun
    <3>3. <<c, k>> \notin failedRuns'
      BY <1>5, <1>6 DEF PutsRun
    <3>4. QED
      BY <1>2, <1>4, <1>5, <1>6, <3>1, <3>2, <3>3 DEF HandlerDone, HasRun, PutsRun
  <2>4. RunsOK(c)'
    <3>1. ASSUME NEW r \in RunsBy(c)'
          PROVE  /\ r.request \in DOMAIN handlers'[c]
                 /\ handlers'[c][r.request].verb = "submit" /\ handlers'[c][r.request].stage \in RunStages
                 /\ \E w \in Seen(c)' \ {NoRecord} : w.takes = r.args
      <4>1. CASE r = run
        <5>1. Fits(c)
          BY <1>1, <1>6 DEF ClientPart, SubmitOnly, PutsRun
        <5>2. \E w \in Seen(c)' \ {NoRecord} : w.takes = r.args
          BY <1>2, <2>2, <4>1, <5>1 DEF Fits
        <5>3. QED
          BY <1>4, <1>6, <2>2, <4>1, <5>2 DEF PutsRun, RunStages, HasRun
      <4>2. CASE r \in RunsBy(c)
        <5>1. /\ r.request \in DOMAIN handlers[c]
              /\ handlers[c][r.request].verb = "submit" /\ handlers[c][r.request].stage \in RunStages
              /\ \E w \in Seen(c) \ {NoRecord} : w.takes = r.args
          BY <1>1, <4>2 DEF ClientPart, RunsOK
        <5>2. r.request # k
          BY <1>6, <5>1 DEF PutsRun, RunStages, HasRun
        <5>3. QED
          BY <1>2, <1>4, <1>6, <5>1, <5>2
      <4>3. QED
        BY <2>1, <3>1, <4>1, <4>2
    <3>2. \A j : <<c, j>> \in launched' \union failedRuns' => j \in DOMAIN handlers'[c]
      BY <1>1, <1>4, <1>6, <2>1 DEF ClientPart, RunsOK, SameRun
    <3>3. QED
      BY <3>1, <3>2 DEF RunsOK
  <2>5. QED
    BY <1>1, <1>3, <1>6, <2>1, <2>3, <2>4, HandlerKeeps DEF PutsRun
<1>7. ASSUME NEW stage \in {"200", "500"}, PutsRecord(c, k), GetsTo(c, k, stage, h.record)
      PROVE  ClientPart(c)'
  <2>1. SameRuns(c) /\ RunsBy(c)' = RunsBy(c)
    BY <1>1, <1>7, RunsUnchanged DEF PutsRecord, SameRuns
  <2>2. HandlerDone(c, k)'
    <3>1. Active(c) => <<clientCall[c].id, h.record>> \in wasThere'[c]
      BY <1>7 DEF PutsRecord, Active
    <3>2. Active(c) => h.record \in Seen(c)'
      BY <1>1, <3>1 DEF Seen
    <3>3. h.record.by = c
      BY <1>2, <1>7 DEF HandlerDone, PutsRecord
    <3>4. Active(c) => Defined(c)'
      BY <3>2, <3>3 DEF Defined
    <3>5. <<c, k>> \notin failedRuns'
      BY <1>5, <1>7 DEF PutsRecord
    <3>6. QED
      BY <1>2, <1>4, <1>5, <1>7, <3>4, <3>5 DEF HandlerDone, HasRun, PutsRecord
  <2>3. RunsOK(c)'
    BY <1>1, <1>2, <1>7, <2>1, GoesOnKeepsRuns DEF ClientPart, PutsRecord, RunStages, HasRun
  <2>4. QED
    BY <1>1, <1>3, <1>7, <2>1, <2>2, <2>3, HandlerKeeps DEF SameRuns
<1>8. ASSUME PutsFailure(c, k) \/ PutsNothing, GetsTo(c, k, "500", h.record)
      PROVE  ClientPart(c)'
  <2>1. RunsBy(c)' = RunsBy(c) /\ \A j : j # k => SameRun(c, j)
    BY <1>1, <1>8 DEF PutsFailure, PutsNothing, RunsBy, SameRun
  <2>2. HandlerDone(c, k)'
    BY <1>4, <1>5, <1>8 DEF HandlerDone, HasRun
  <2>3. RunsOK(c)'
    <3>1. \A j \in DOMAIN handlers[c] : handlers[c][j].stage \in RunStages =>
            handlers'[c][j].verb = handlers[c][j].verb /\ handlers'[c][j].stage \in RunStages
      BY <1>4, <1>8 DEF RunStages
    <3>2. \A j : <<c, j>> \in launched' \union failedRuns' => j \in DOMAIN handlers[c]
      BY <1>1, <1>8 DEF ClientPart, RunsOK, PutsFailure, PutsNothing
    <3>3. DOMAIN handlers'[c] = DOMAIN handlers[c]
      BY <1>4, <1>8
    <3>4. ASSUME NEW r \in RunsBy(c)'
          PROVE  /\ r.request \in DOMAIN handlers'[c]
                 /\ handlers'[c][r.request].verb = "submit" /\ handlers'[c][r.request].stage \in RunStages
                 /\ \E w \in Seen(c)' \ {NoRecord} : w.takes = r.args
      <4>1. /\ r.request \in DOMAIN handlers[c]
            /\ handlers[c][r.request].verb = "submit" /\ handlers[c][r.request].stage \in RunStages
            /\ \E w \in Seen(c) \ {NoRecord} : w.takes = r.args
        BY <1>1, <2>1, <3>4 DEF ClientPart, RunsOK
      <4>2. QED
        BY <1>2, <3>1, <3>3, <4>1
    <3>5. QED
      BY <3>2, <3>3, <3>4 DEF RunsOK
  <2>4. QED
    BY <1>1, <1>3, <1>8, <2>1, <2>2, <2>3, HandlerKeeps
<1>9. QED
  BY <1>6, <1>7, <1>8, PutsFacts

-----------------------------------------------------------------------------
(* Listings                                                                *)

\* A page is what comes first of the records: up to the next token, unless it has all.
LEMMA PageFacts ==
  ASSUME NEW S \in SUBSET WorkflowIds
  PROVE  /\ FirstPage(S) \subseteq S
         /\ FirstPage(S) = S => NextToken(S) = 0
         /\ FirstPage(S) # S => /\ NextToken(S) \in FirstPage(S)
                                /\ \A i \in S : i \in FirstPage(S) <=> i <= NextToken(S)
<1> DEFINE UpTo(i) == {j \in S : j <= i}
           page == FirstPage(S)
<1>1. /\ NumWorkflows \in Nat /\ ApiPageSize \in Nat /\ ApiPageSize >= 1
      /\ WorkflowIds = 1..NumWorkflows /\ S \in SUBSET Nat
  BY ApiAssumption DEF WorkflowIds
<1>2. IsFiniteSet(S)
  <2>1. NumWorkflows \in Int /\ 1 \in Int
    BY <1>1
  <2>2. IsFiniteSet(1..NumWorkflows)
    BY <2>1, FS_Interval
  <2>3. QED
    BY <1>1, <2>2, FS_Subset
<1>3. page \subseteq S /\ \A i \in S : i \in page <=> Cardinality(UpTo(i)) <= ApiPageSize
  BY DEF FirstPage
<1>4. \A i \in S : IsFiniteSet(UpTo(i)) /\ Cardinality(UpTo(i)) \in Nat
  BY <1>2, FS_Subset, FS_CardinalityType
<1>5. ASSUME NEW i \in page, NEW j \in S, j <= i
      PROVE  j \in page
  <2>1. i \in Nat /\ j \in Nat /\ i \in S
    BY <1>1, <1>3
  <2>2. UpTo(j) \subseteq UpTo(i)
    <3> SUFFICES ASSUME NEW k \in S, k <= j
                 PROVE  k <= i
      OBVIOUS
    <3>1. k \in Nat
      BY <1>1
    <3>2. QED
      BY <1>5, <2>1, <3>1
  <2>3. Cardinality(UpTo(j)) <= Cardinality(UpTo(i))
    BY <1>4, <2>1, <2>2, FS_Subset
  <2> HIDE DEF UpTo, page
  <2>4. QED
    BY <1>1, <1>3, <1>4, <2>1, <2>3
<1>6. ASSUME page # S
      PROVE  page # {}
  <2>1. PICK n \in S : \A m \in S : n <= m
    BY <1>1, <1>3, <1>6, LeastOf
  <2>2. UpTo(n) = {n}
    <3>1. n \in Nat /\ n <= n
      BY <1>1
    <3>2. ASSUME NEW m \in S, m <= n
          PROVE  m = n
      <4>1. m \in Nat /\ n <= m
        BY <1>1, <2>1
      <4>2. QED
        BY <3>1, <3>2, <4>1
    <3>3. QED
      BY <3>1, <3>2
  <2>3. Cardinality(UpTo(n)) = 1
    BY <2>2, FS_Singleton
  <2>4. QED
    BY <1>1, <1>3, <2>3
<1> HIDE DEF UpTo, page
<1>7. ASSUME page # S
      PROVE  \E m \in page : \A j \in page : j <= m
  <2> DEFINE Left == {NumWorkflows - i : i \in page}
  <2>1. \A i \in page : i \in Nat /\ i <= NumWorkflows
    BY <1>1, <1>3
  <2>2. Left \in SUBSET Nat /\ Left # {}
    BY <1>1, <1>6, <1>7, <2>1
  <2>3. PICK l \in Left : \A k \in Left : l <= k
    <3> HIDE DEF Left
    <3>1. QED
      BY <2>2, LeastOf
  <2>4. PICK m \in page : l = NumWorkflows - m
    BY <2>3
  <2>5. ASSUME NEW j \in page
        PROVE  j <= m
    <3>1. NumWorkflows - j \in Left
      OBVIOUS
    <3>2. NumWorkflows - m <= NumWorkflows - j
      BY <2>3, <2>4, <3>1
    <3>3. QED
      BY <1>1, <2>1, <3>2
  <2>6. QED
    BY <2>5
<1>8. ASSUME page # S
      PROVE  NextToken(S) \in page /\ \A j \in page : j <= NextToken(S)
  <2>1. NextToken(S) = CHOOSE i \in page : \A j \in page : j <= i
    BY <1>8 DEF NextToken, page
  <2>2. QED
    BY <1>7, <1>8, <2>1
<1>9. page = S => NextToken(S) = 0
  BY DEF NextToken, page
<1>10. ASSUME page # S, NEW i \in S
       PROVE  i \in page <=> i <= NextToken(S)
  BY <1>5, <1>8, <1>10
<1>11. QED
  BY <1>3, <1>8, <1>9, <1>10 DEF page

LEMMA ListKeeps ==
  ASSUME ApiInv, NEW c \in ApiClients, YieldPage(c)
  PROVE  ListOK(c)'
<1> DEFINE p == pages[c]
           behind == RecordsBehind(p.token)
           page == FirstPage(behind)
           token == NextToken(behind)
           yielded == [i \in WorkflowIds |-> IF i \in page THEN p.yielded[i] + 1 ELSE p.yielded[i]]
<1>1. /\ ClientPart(c) /\ ApiFunctions /\ Active(c) /\ clientPhase[c] = "lists"
      /\ UNCHANGED <<workflows, clientCall, wasThere>> /\ clientCall[c].op = "list"
  BY DEF ApiInv, ApiTypes, YieldPage, Active, ClientPart, CallOK
<1>2. /\ p.token \in Nat /\ p.count \in Nat /\ p.yielded \in [WorkflowIds -> Nat]
      /\ \A i \in WorkflowIds : <<i, NoRecord>> \notin wasThere[c] /\ p.yielded[i] = 0 => i > p.token
      /\ clientCall[c].maxPages = 0 => \A i \in WorkflowIds :
           p.yielded[i] <= 1 /\ (i > p.token => p.yielded[i] = 0)
  BY <1>1 DEF ClientPart, ListOK
<1>3. /\ pages'[c] = [token |-> token, count |-> p.count + 1, yielded |-> yielded]
      /\ \/ clientPhase'[c] = "lists" /\ (token # 0 \/ clientCall[c].maxPages # 0)
         \/ clientPhase'[c] = "ended" /\ token = 0
  BY <1>1 DEF YieldPage, ApiFunctions, Answer
<1>4. \A i \in WorkflowIds : i \in behind <=> i > p.token /\ workflows[i] # NoRecord
  BY DEF RecordsBehind
<1>5. behind \in SUBSET WorkflowIds /\ WorkflowIds \in SUBSET Nat /\ 0 \notin WorkflowIds
  BY ApiAssumption DEF RecordsBehind, WorkflowIds
<1> HIDE DEF behind, page, token, p
<1>6. /\ page \subseteq behind
      /\ page = behind => token = 0
      /\ page # behind => token \in page /\ \A i \in behind : i \in page <=> i <= token
  BY <1>5, PageFacts DEF page, token
<1>7. token \in Nat
  <2>1. page = behind => token = 0
    BY <1>6
  <2>2. page # behind => token \in WorkflowIds
    BY <1>5, <1>6
  <2>3. \A i \in WorkflowIds : i \in Nat
    BY <1>5
  <2>4. CASE page = behind
    BY <2>1, <2>4
  <2>5. CASE page # behind
    BY <2>2, <2>3, <2>5
  <2>6. QED
    BY <2>4, <2>5
<1>8. yielded \in [WorkflowIds -> Nat]
  BY <1>2
<1>9. ASSUME NEW i \in WorkflowIds, <<i, NoRecord>> \notin wasThere[c], yielded[i] = 0
      PROVE  i > token /\ token > 0
  <2>1. i \notin page /\ p.yielded[i] = 0
    BY <1>2, <1>9
  <2>2. i \in behind
    BY <1>1, <1>2, <1>4, <1>9, <2>1 DEF ClientPart, Current
  <2>3. QED
    BY <1>5, <1>6, <1>7, <2>1, <2>2
<1>10. ASSUME clientCall[c].maxPages = 0, NEW i \in WorkflowIds
       PROVE  /\ yielded[i] <= 1
              /\ clientPhase'[c] = "lists" /\ i > token => yielded[i] = 0
  <2>1. i \in page => i > p.token
    BY <1>4, <1>6
  <2>2. yielded[i] <= 1
    BY <1>2, <1>10, <2>1
  <2>3. ASSUME clientPhase'[c] = "lists", i > token
        PROVE  yielded[i] = 0
    <3>1. token # 0 /\ page # behind
      BY <1>3, <1>6, <1>10, <2>3
    <3>2. token \in behind /\ token > p.token
      BY <1>4, <1>5, <1>6, <3>1
    <3>3. i \notin page
      BY <1>5, <1>6, <1>7, <2>3, <3>1
    <3>4. i > p.token
      BY <1>2, <1>5, <1>7, <2>3, <3>2
    <3>5. QED
      BY <1>2, <1>10, <3>3, <3>4
  <2>4. QED
    BY <2>2, <2>3
<1> HIDE DEF yielded
<1>11. /\ pages'[c].token = token /\ pages'[c].count = p.count + 1 /\ pages'[c].yielded = yielded
       /\ p.count + 1 \in Nat /\ p.count + 1 > 0
  BY <1>2, <1>3
<1>12. QED
  BY <1>1, <1>3, <1>7, <1>8, <1>9, <1>10, <1>11 DEF ListOK

LEMMA YieldKeeps ==
  ASSUME ApiInv, NEW c \in ApiClients, YieldPage(c)
  PROVE  ClientPart(c)'
<1>1. /\ ClientPart(c) /\ ApiFunctions /\ Active(c) /\ clientPhase[c] = "lists"
      /\ UNCHANGED <<workflows, runVars, clientCall, verb, handlers, wasThere>>
      /\ clientCall[c].op = "list" /\ clientAnswer[c] = ""
  BY DEF ApiInv, ApiTypes, YieldPage, Active, ClientPart, CallOK
<1>2. \/ clientPhase'[c] = "lists" /\ clientAnswer'[c] = ""
      \/ clientPhase'[c] = "ended" /\ clientAnswer'[c] = "ok"
  BY <1>1 DEF YieldPage, ApiFunctions, Answer
<1>3. \A k \in DOMAIN handlers[c] : handlers[c][k].verb # "submit"
  BY <1>1, NoRunYet DEF ClientPart
<1>4. CallOK(c)' /\ SubmitOnly(c)' /\ AnswerOK(c)'
  BY <1>1, <1>2, <1>3 DEF CallOK, SubmitOnly, AnswerOK, AnswerTrue
<1>5. QED
  BY <1>1, <1>2, <1>4, ListKeeps, QuietStep

-----------------------------------------------------------------------------
(* What calls return is true                                               *)

LEMMA ApiBeginsInv == ApiBegins => ApiInv
<1> SUFFICES ASSUME ApiBegins
             PROVE  ApiInv
  OBVIOUS
<1>1. \A c \in ApiClients : /\ clientPhase[c] = "idle" /\ clientAnswer[c] = "" /\ verb[c] = ""
                            /\ handlers[c] = <<>> /\ codeAt[c] = "none" /\ pages[c] = NoPages
  BY DEF ApiBegins
<1>2. runs = {} /\ launched = {} /\ failedRuns = {} /\ ApiFunctions
  BY DEF ApiBegins, ApiFunctions
<1>3. workflows \in [WorkflowIds -> WorkflowRecords]
  BY DEF ApiBegins, WorkflowRecords
<1>4. ASSUME NEW c \in ApiClients
      PROVE  ClientTypes(c)
  <2>1. handlers[c] \in Seq(HandlerRecords) /\ DOMAIN handlers[c] = {}
    <3>1. <<>> \in Seq(HandlerRecords) /\ DOMAIN <<>> = {}
      OBVIOUS
    <3>2. QED
      BY <1>1, <3>1
  <2>2. QED
    BY <1>1, <2>1 DEF ClientTypes, VerbOK, ClientPhases, Answers
<1>5. ASSUME NEW c \in ApiClients
      PROVE  ClientPart(c)
  <2>1. RunsBy(c) = {} /\ ~Active(c)
    BY <1>1, <1>2 DEF RunsBy, Active
  <2>2. DOMAIN handlers[c] = {}
    BY <1>1, <1>4 DEF ClientTypes
  <2> HIDE DEF NoPages
  <2>3. QED
    BY <1>1, <1>2, <2>1, <2>2 DEF ClientPart, Current, CallOK, SubmitOnly, RunsOK, AnswerOK, AnswerTrue, ListOK
<1>6. QED
  BY <1>2, <1>3, <1>4, <1>5 DEF ApiInv, ApiTypes

LEMMA ApiStepKeeps == ApiInv /\ [ApiNext]_apiVars => ApiInv'
<1> SUFFICES ASSUME ApiInv, [ApiNext]_apiVars
             PROVE  ApiInv'
  OBVIOUS
<1>1. CASE UNCHANGED apiVars
  <2>1. ApiTypes'
    BY <1>1 DEF apiVars, ApiInv, ApiTypes, ApiFunctions, ClientTypes, VerbOK
  <2>2. ASSUME NEW c \in ApiClients
        PROVE  ClientPart(c)'
    <3>1. /\ SameRuns(c) /\ ClientPart(c)
          /\ UNCHANGED <<clientCall, clientPhase, verb, handlers, clientAnswer, pages, wasThere, workflows>>
      BY <1>1, RunsUnchanged DEF apiVars, ApiInv
    <3>2. Active(c) => \A i \in WorkflowIds : <<i, workflows'[i]>> \in wasThere'[c]
      BY <3>1 DEF ClientPart, Current
    <3>3. QED
      BY <3>1, <3>2, BystanderKeeps
  <2>3. QED
    BY <2>1, <2>2 DEF ApiInv
<1>2. ASSUME NEW c \in ApiClients, ApiStep(c)
      PROVE  ApiInv'
  <2>1. ApiTypes'
    BY <1>2, TypesKept DEF ApiInv
  <2>2. ClientPart(c)'
    BY <1>2, StartKeeps, GetKeeps, ConfirmKeeps, UploadKeeps, SendKeeps, ReceiveKeeps, AnswerLostKeeps,
       ReadsKeeps, LaunchesKeeps, PutsKeeps, YieldKeeps DEF ApiStep, PutsOrRaises
  <2>3. ASSUME NEW d \in ApiClients, d # c
        PROVE  ClientPart(d)'
    <3>1. /\ clientCall'[d] = clientCall[d] /\ clientPhase'[d] = clientPhase[d]
          /\ verb'[d] = verb[d] /\ handlers'[d] = handlers[d]
          /\ clientAnswer'[d] = clientAnswer[d] /\ pages'[d] = pages[d]
      BY <1>2, <2>3, Others DEF ApiInv, ApiTypes
    <3>2. /\ SameRuns(d) /\ wasThere[d] \subseteq wasThere'[d]
          /\ Active(d) => \A i \in WorkflowIds : <<i, workflows'[i]>> \in wasThere'[d]
      <4>1. CASE \E k \in DOMAIN handlers[c] : PutsOrRaises(c, k)
        BY <2>3, <4>1, PutsForAll
      <4>2. CASE \E k \in DOMAIN handlers[c] : HandlerLaunches(c, k)
        <5>1. /\ UNCHANGED <<workflows, runs, failedRuns, wasThere>>
              /\ \E k : launched' \in {launched, launched \union {<<c, k>>}}
          BY <4>2, LaunchesFacts
        <5>2. SameRuns(d)
          BY <2>3, <5>1 DEF SameRuns, SameRun, RunsBy
        <5>3. QED
          BY <5>1, <5>2 DEF ApiInv, ClientPart, Current
      <4>3. CASE \E call \in ApiCalls : StartApiCall(c, call)
        <5>1. UNCHANGED <<workflows, runVars>> /\ wasThere'[d] = wasThere[d]
          BY <2>3, <4>3 DEF StartApiCall, ApiInv, ApiTypes, ApiFunctions
        <5>2. QED
          BY <5>1, RunsUnchanged DEF ApiInv, ClientPart, Current
      <4>4. CASE UNCHANGED <<workflows, runVars, wasThere>>
        BY <4>4, RunsUnchanged DEF ApiInv, ClientPart, Current
      <4>5. QED
        BY <1>2, <4>1, <4>2, <4>3, <4>4 DEF ApiStep, PutsOrRaises, GetWorkflow, Confirm, UploadCode,
           UploadThrottled, Send, Receive, AnswerLost, HandlerReads, YieldPage
    <3>3. QED
      BY <3>1, <3>2, BystanderKeeps DEF ApiInv
  <2>4. QED
    BY <2>1, <2>2, <2>3 DEF ApiInv
<1>3. QED
  BY <1>1, <1>2 DEF ApiNext, ApiStep

LEMMA ApiInvHolds == ApiInv => ApiCallsHold
<1> SUFFICES ASSUME ApiInv, NEW c \in ApiClients
             PROVE  AnswerTrue(c) /\ RunsExplained(c) /\ ListComplete(c)
  BY DEF ApiCallsHold
<1>1. ClientPart(c) /\ ClientTypes(c)
  BY DEF ApiInv, ApiTypes
<1>2. ASSUME NEW r \in RunsBy(c), r.request = Len(handlers[c])
      PROVE  clientAnswer[c] \in {"", "ok", "refused", "500", "raised"}
  <2>1. /\ handlers[c][r.request].verb = "submit" /\ r.request \in DOMAIN handlers[c]
        /\ handlers[c][r.request].stage \in RunStages
    BY <1>1 DEF ClientPart, RunsOK
  <2>2. clientAnswer[c] \notin {"exists", "missing", "arguments", "cancelled", "404", "409"}
    BY <1>1, <1>2, <2>1 DEF ClientPart, SubmitOnly, AnswerOK, RunStages, HasRun
  <2>3. QED
    BY <1>1, <2>2 DEF ClientTypes, Answers
<1>3. RunsExplained(c)
  <2>1. ASSUME NEW k \in DOMAIN handlers[c], <<c, k>> \in launched
        PROVE  <<c, k>> \notin failedRuns /\ \E r \in RunsBy(c) : r.request = k
    <3>1. HandlerDone(c, k)
      BY <1>1 DEF ClientPart
    <3>2. QED
      BY <2>1, <3>1 DEF HandlerDone, HasRun
  <2>2. QED
    BY <1>1, <1>2, <2>1 DEF RunsExplained, ClientPart, RunsOK
<1>4. ASSUME clientCall[c].op = "list", clientAnswer[c] = "ok", NEW i \in WorkflowIds
      PROVE  /\ <<i, NoRecord>> \notin wasThere[c] => pages[c].yielded[i] > 0
             /\ clientCall[c].maxPages = 0 => pages[c].yielded[i] <= 1
  <2>1. clientPhase[c] = "ended"
    BY <1>1, <1>4 DEF ClientPart, CallOK
  <2>2. QED
    BY <1>1, <1>4, <2>1 DEF ClientPart, ListOK
<1>5. QED
  BY <1>1, <1>3, <1>4 DEF ClientPart, AnswerOK, ListComplete

\* What the calls of clients return is true of the records the server has held meanwhile,
\* for any number of clients, of workflows and of repeated requests, any calls and any
\* page size.
THEOREM ApiAnswersAreTrue == ApiSpec => []ApiCallsHold
<1>1. ApiSpec => []ApiInv
  BY ApiBeginsInv, ApiStepKeeps, PTL DEF ApiSpec
<1>2. QED
  BY <1>1, ApiInvHolds, PTL

=============================================================================
