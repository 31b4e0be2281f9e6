------------------------------ MODULE WorkflowApi ------------------------------
(***************************************************************************)
(* PCTasksClient and the routes of the server it calls.  A client asks     *)
(* whether the workflow is there, uploads its code, and then sends one     *)
(* request, which with_backoff repeats if the answer is a throttle or the  *)
(* connection is lost; the handler of a lost request goes on, next to that *)
(* of its repetition.  A handler reads the record before it writes it.     *)
(* That of a submission puts the record of the run, launches the run, and  *)
(* records it as failed if the launch raises.                              *)
(***************************************************************************)
EXTENDS Naturals, Sequences, FiniteSets, SequencesExt

CONSTANTS
  ApiClients,
  NumWorkflows,    \* ids of workflows are 1..NumWorkflows
  Stored,          \* ids of the workflows that are there at the start
  ApiCalls,        \* calls to choose from: [op, id, code, takes, args, maxPages]: whether
                   \* the definition takes an argument and whether one is given;
                   \* maxPages is 0 if it is not
  WithDefaultArgs, \* clients whose settings have that argument among default_args
  ApiPageSize,
  ApiTries,        \* waits of the BackoffStrategy
  MaxApiFaults     \* bound: lost requests and answers, raising handlers, refused launches

WorkflowIds == 1..NumWorkflows
NoRecord == [by |-> "none"]
Defining == {"create", "update", "upsert", "upsert_and_submit"}
Submitting == {"submit", "upsert_and_submit"}

ASSUME ApiAssumption ==
  /\ {NumWorkflows, ApiPageSize, ApiTries} \subseteq Nat \ {0} /\ MaxApiFaults \in Nat
  /\ Stored \subseteq WorkflowIds /\ WithDefaultArgs \subseteq ApiClients
  /\ ApiCalls \subseteq
       [op : Defining \union Submitting \union {"list"}, id : WorkflowIds, code : {"none", "file"},
        takes : BOOLEAN, args : BOOLEAN, maxPages : Nat]

VARIABLES
  workflows,     \* record of each workflow: [by, code, takes], by the client that wrote it
  runs,          \* run records: [by, request, workflow, args], the client's
                 \* arguments with the record the server has read
  launched,      \* <<client, request>> whose run the runner has taken
  failedRuns,    \* <<client, request>> whose run record says FAILED
  clientCall,
  clientPhase,
  verb,          \* "POST", "PUT" or "submit"
  codeAt,        \* what the code's URI holds: "none", "file", "empty"
  fileRead,      \* whether the file to upload has been read to its end
  apiTries,      \* tries of the request at hand
  handlers,      \* of each client, in order: [verb, stage, record], the last one is heard
  clientAnswer,
  apiFaults,
  pages,         \* of a listing: [token, count, yielded], how often each was
  wasThere       \* history: <<id, record>> there at some time of the call

apiVars == <<workflows, runs, launched, failedRuns, clientCall, clientPhase, verb, codeAt, fileRead, apiTries,
             handlers, clientAnswer, apiFaults, pages, wasThere>>

ClientPhases == {"idle", "asks", "confirms", "gets", "uploads", "sends", "waits", "lists", "ended"}
NoPages == [token |-> 0, count |-> 0, yielded |-> [i \in WorkflowIds |-> 0]]

ApiTypeOK ==
  /\ \A i \in WorkflowIds : workflows[i].by \in ApiClients \union {"none", "stored"}
  /\ clientPhase \in [ApiClients -> ClientPhases]
  /\ codeAt \in [ApiClients -> {"none", "file", "empty"}] /\ fileRead \in [ApiClients -> BOOLEAN]
  /\ apiTries \in [ApiClients -> 0..ApiTries] /\ apiFaults \in 0..MaxApiFaults
  /\ \A r \in runs : r.request \in DOMAIN handlers[r.by]
  /\ launched \union failedRuns \subseteq {<<r.by, r.request>> : r \in runs}

ApiBegins ==
  /\ workflows = [i \in WorkflowIds |->
       IF i \in Stored THEN [by |-> "stored", code |-> "none", takes |-> TRUE] ELSE NoRecord]
  /\ runs = {} /\ launched = {} /\ failedRuns = {} /\ apiFaults = 0
  /\ clientCall = [c \in ApiClients |-> [op |-> "none", id |-> 1]]
  /\ clientPhase = [c \in ApiClients |-> "idle"] /\ verb = [c \in ApiClients |-> ""]
  /\ codeAt = [c \in ApiClients |-> "none"] /\ fileRead = [c \in ApiClients |-> FALSE]
  /\ apiTries = [c \in ApiClients |-> 0] /\ handlers = [c \in ApiClients |-> <<>>]
  /\ clientAnswer = [c \in ApiClients |-> ""] /\ pages = [c \in ApiClients |-> NoPages]
  /\ wasThere = [c \in ApiClients |-> {}]

runVars == <<runs, launched, failedRuns>>

Goto(c, phase) == clientPhase' = [clientPhase EXCEPT ![c] = phase]
Answer(c, a) == clientPhase' = [clientPhase EXCEPT ![c] = "ended"]
                /\ clientAnswer' = [clientAnswer EXCEPT ![c] = a]
Record(c) == workflows[clientCall[c].id]

StartApiCall(c, call) ==
  /\ clientPhase[c] = "idle"
  /\ clientCall' = [clientCall EXCEPT ![c] = call]
  /\ Goto(c, CASE call.op = "list" -> "lists" [] call.op = "submit" -> "asks" [] OTHER -> "gets")
  /\ verb' = [verb EXCEPT ![c] = IF call.op = "submit" THEN "submit" ELSE ""]
  /\ wasThere' = [wasThere EXCEPT ![c] = {<<i, workflows[i]>> : i \in WorkflowIds}]
  /\ UNCHANGED <<workflows, runVars, codeAt, fileRead, apiTries, handlers, clientAnswer, apiFaults, pages>>

\* The arguments a request is sent with, and whether they are those expected
RequestArgs(c) == clientCall[c].args \/ (c \in WithDefaultArgs /\ Record(c).takes)
ArgumentsFit(c) == RequestArgs(c) = Record(c).takes

\* get_workflow, and what the client makes of it: a submission needs the
\* workflow and its arguments, a definition is to be created or updated.
GetWorkflow(c) ==
  LET there == Record(c) # NoRecord
      op == clientCall[c].op
  IN  /\ clientPhase[c] = "gets"
      /\ IF verb[c] = "submit"
         THEN /\ IF ~there THEN Answer(c, "missing") /\ UNCHANGED clientCall
                 ELSE /\ clientCall' = [clientCall EXCEPT ![c].args = RequestArgs(c)]
                      /\ IF ArgumentsFit(c) THEN Goto(c, "sends") /\ UNCHANGED clientAnswer
                         ELSE Answer(c, "arguments")
              /\ UNCHANGED verb
         ELSE /\ IF op = "create" /\ there THEN Answer(c, "exists") /\ UNCHANGED verb
                 ELSE IF op = "update" /\ ~there THEN Answer(c, "missing") /\ UNCHANGED verb
                 ELSE /\ Goto(c, "confirms") /\ UNCHANGED clientAnswer
                      /\ verb' = [verb EXCEPT ![c] = IF there THEN "PUT" ELSE "POST"]
              /\ UNCHANGED clientCall
      /\ UNCHANGED <<workflows, runVars, codeAt, fileRead, apiTries, handlers, apiFaults, pages, wasThere>>

Confirm(c, confirmed) ==
  /\ clientPhase[c] \in {"asks", "confirms"}
  /\ IF ~confirmed THEN Answer(c, "cancelled")
     ELSE Goto(c, IF clientPhase[c] = "asks" THEN "gets" ELSE "uploads") /\ UNCHANGED clientAnswer
  /\ UNCHANGED <<workflows, runVars, clientCall, verb, codeAt, fileRead, apiTries, handlers, apiFaults, pages, wasThere>>

\* The route upload_code stores what the request brings under its hash.  The
\* first request reads the file to its end, and so do its repetitions: what they
\* bring is empty.
StoredCode(c) == IF fileRead[c] THEN "empty" ELSE "file"

UploadCode(c) ==
  /\ clientPhase[c] = "uploads"
  /\ codeAt' = [codeAt EXCEPT ![c] =
       IF clientCall[c].code = "none" THEN "none" ELSE StoredCode(c)]
  /\ Goto(c, "sends") /\ apiTries' = [apiTries EXCEPT ![c] = 0]
  /\ UNCHANGED <<workflows, runVars, clientCall, verb, fileRead, handlers, clientAnswer, apiFaults, pages, wasThere>>

\* with_backoff: again, or BackoffError after the last wait
TryAgain(c, phase) ==
  /\ apiFaults < MaxApiFaults /\ apiFaults' = apiFaults + 1
  /\ IF apiTries[c] + 1 = ApiTries
     THEN Answer(c, "raised") /\ UNCHANGED apiTries
     ELSE /\ apiTries' = [apiTries EXCEPT ![c] = @ + 1]
          /\ Goto(c, phase) /\ UNCHANGED clientAnswer

UploadThrottled(c) ==
  /\ clientPhase[c] = "uploads" /\ clientCall[c].code # "none"
  /\ TryAgain(c, "uploads")
  /\ fileRead' = [fileRead EXCEPT ![c] = TRUE]
  /\ UNCHANGED <<workflows, runVars, clientCall, verb, codeAt, handlers, pages, wasThere>>

Send(c) ==
  /\ clientPhase[c] = "sends"
  /\ handlers' = [handlers EXCEPT ![c] = Append(@, [verb |-> verb[c], stage |-> "received", record |-> NoRecord])]
  /\ Goto(c, "waits")
  /\ UNCHANGED <<workflows, runVars, clientCall, verb, codeAt, fileRead, apiTries, clientAnswer, apiFaults, pages, wasThere>>

\* create_workflow, update_workflow, submit_workflow up to their check
HandlerReads(c, k) ==
  LET h == handlers[c][k]
      there == Record(c) # NoRecord
  IN  /\ h.stage = "received"
      /\ handlers' = [handlers EXCEPT ![c][k] =
           [h EXCEPT !.stage = IF h.verb = "POST" THEN IF there THEN "409" ELSE "checked"
                               ELSE IF there THEN "checked" ELSE "404",
                     !.record = IF h.verb = "submit" THEN Record(c)
                                ELSE [by |-> c, code |-> codeAt[c], takes |-> clientCall[c].takes]]]
      /\ UNCHANGED <<workflows, runVars, clientCall, clientPhase, verb, codeAt, fileRead, apiTries,
                     clientAnswer, apiFaults, pages, wasThere>>

\* What they put then: the record of the workflow, or of the run; or, after a
\* launch that raised, that the run has failed.
Puts(c, k) ==
  LET h == handlers[c][k]
      id == clientCall[c].id
      defines == h.stage = "checked" /\ h.verb # "submit"
  IN  /\ workflows' = IF defines THEN [workflows EXCEPT ![id] = h.record] ELSE workflows
      /\ wasThere' = [d \in ApiClients |->
           IF defines /\ clientPhase[d] \notin {"idle", "ended"}
           THEN wasThere[d] \union {<<id, h.record>>} ELSE wasThere[d]]
      /\ runs' = IF h.stage = "checked" /\ h.verb = "submit"
                 THEN runs \union {[by |-> c, request |-> k, workflow |-> h.record, args |-> clientCall[c].args]}
                 ELSE runs
      /\ failedRuns' = IF h.stage = "repairs" THEN failedRuns \union {<<c, k>>} ELSE failedRuns

HandlerPuts(c, k) ==
  /\ handlers[c][k].stage \in {"checked", "repairs"} /\ Puts(c, k)
  /\ handlers' = [handlers EXCEPT ![c][k].stage =
       IF @ = "repairs" THEN "500" ELSE IF handlers[c][k].verb = "submit" THEN "put" ELSE "200"]
  /\ UNCHANGED <<launched, clientCall, clientPhase, verb, codeAt, fileRead, apiTries, clientAnswer, apiFaults, pages>>

\* The record store raises, before a put or after its effect, or there is no runner.
HandlerRaises(c, k, stored) ==
  /\ handlers[c][k].stage \in {"received", "checked", "repairs"}
  /\ apiFaults < MaxApiFaults /\ apiFaults' = apiFaults + 1
  /\ IF stored THEN Puts(c, k) ELSE UNCHANGED <<workflows, wasThere, runs, failedRuns>>
  /\ handlers' = [handlers EXCEPT ![c][k].stage = "500"]
  /\ UNCHANGED <<launched, clientCall, clientPhase, verb, codeAt, fileRead, apiTries, clientAnswer, pages>>

\* Wrong version of HandlerLaunches: a refused launch is answered as one that was taken
HandlerLaunchesAnyway(c, k) ==
  /\ handlers[c][k].stage = "put"
  /\ handlers' = [handlers EXCEPT ![c][k].stage = "200"]
  /\ \E taken \in BOOLEAN :
       /\ launched' = IF taken THEN launched \union {<<c, k>>} ELSE launched
       /\ ~taken => apiFaults < MaxApiFaults
       /\ apiFaults' = IF taken THEN apiFaults ELSE apiFaults + 1
  /\ UNCHANGED <<workflows, runs, failedRuns, clientCall, clientPhase, verb, codeAt, fileRead, apiTries,
                 clientAnswer, pages, wasThere>>

\* The runner takes the run; or Argo raises, which the answer tells with a 200, and
\* may have taken it; or the runner raises before it has.  (What becomes of the run
\* is another module's.)
HandlerLaunches(c, k) ==
  /\ handlers[c][k].stage = "put"
  /\ \E stage \in {"200", "refused", "repairs"}, taken \in BOOLEAN :
       /\ handlers' = [handlers EXCEPT ![c][k].stage = stage]
       /\ stage = "200" => taken
       /\ stage = "repairs" => ~taken
       /\ launched' = IF taken THEN launched \union {<<c, k>>} ELSE launched
       /\ stage # "200" => apiFaults < MaxApiFaults
       /\ apiFaults' = IF stage = "200" THEN apiFaults ELSE apiFaults + 1
  /\ UNCHANGED <<workflows, runs, failedRuns, clientCall, clientPhase, verb, codeAt, fileRead, apiTries,
                 clientAnswer, pages, wasThere>>

\* A definition that is to be submitted too goes on with the submission.
Proceed(c) ==
  IF verb[c] # "submit" /\ clientCall[c].op \in Submitting
  THEN /\ Goto(c, "asks") /\ verb' = [verb EXCEPT ![c] = "submit"]
       /\ apiTries' = [apiTries EXCEPT ![c] = 0] /\ UNCHANGED clientAnswer
  ELSE Answer(c, "ok") /\ UNCHANGED <<verb, apiTries>>

AnswerStages == {"200", "refused", "404", "409", "500"}

\* Wrong version of Receive: a conflict is taken for the own request's effect
ReceiveConflictAsDone(c) ==
  LET stage == Last(handlers[c]).stage
  IN  /\ clientPhase[c] = "waits" /\ stage \in AnswerStages
      /\ IF stage \in {"200", "409"} THEN Proceed(c) ELSE Answer(c, stage) /\ UNCHANGED <<verb, apiTries>>
      /\ UNCHANGED <<workflows, runVars, clientCall, codeAt, fileRead, handlers, apiFaults, pages, wasThere>>

\* Other answers than 200 are raised, and a refused launch is told of.
Receive(c) ==
  LET stage == Last(handlers[c]).stage
  IN  /\ clientPhase[c] = "waits" /\ stage \in AnswerStages
      /\ IF stage = "200" THEN Proceed(c) ELSE Answer(c, stage) /\ UNCHANGED <<verb, apiTries>>
      /\ UNCHANGED <<workflows, runVars, clientCall, codeAt, fileRead, handlers, apiFaults, pages, wasThere>>

\* The answer is lost on its way, whatever the handler does; or the request did
\* not get there, or the server died over it.
AnswerLost(c, arrived) ==
  /\ clientPhase[c] = "waits"
  /\ arrived \/ Last(handlers[c]).stage \notin AnswerStages
  /\ TryAgain(c, "sends")
  /\ handlers' = IF arrived THEN handlers ELSE [handlers EXCEPT ![c][Len(handlers[c])].stage = "lost"]
  /\ UNCHANGED <<workflows, runVars, clientCall, verb, codeAt, fileRead, pages, wasThere>>

\* list_workflows: the records after the token, of which from_pages takes the
\* first page.  The token of the next one is that of its last record.
RecordsBehind(token) == {i \in WorkflowIds : i > token /\ workflows[i] # NoRecord}
FirstPage(records) == {i \in records : Cardinality({j \in records : j <= i}) <= ApiPageSize}
NextToken(records) ==
  LET page == FirstPage(records)
  IN  IF page = records THEN 0 ELSE CHOOSE i \in page : \A j \in page : j <= i

\* _yield_page_results: the next page; without a token the first one, which is
\* asked for again if more pages are allowed than there were.
YieldPage(c) ==
  LET p == pages[c]
      behind == RecordsBehind(p.token)
      token == NextToken(behind)
      yielded == [i \in WorkflowIds |-> IF i \in FirstPage(behind) THEN p.yielded[i] + 1 ELSE p.yielded[i]]
  IN  /\ clientPhase[c] = "lists"
      /\ pages' = [pages EXCEPT ![c] = [token |-> token, count |-> p.count + 1, yielded |-> yielded]]
      /\ IF token # 0 \/ (clientCall[c].maxPages # 0 /\ p.count + 1 <= clientCall[c].maxPages)
         THEN UNCHANGED <<clientPhase, clientAnswer>> ELSE Answer(c, "ok")
      /\ UNCHANGED <<workflows, runVars, clientCall, verb, codeAt, fileRead, apiTries, handlers, apiFaults, wasThere>>

ApiNext ==
  \E c \in ApiClients :
    \/ \E call \in ApiCalls : StartApiCall(c, call)
    \/ GetWorkflow(c) \/ (\E yes \in BOOLEAN : Confirm(c, yes))
    \/ UploadCode(c) \/ UploadThrottled(c)
    \/ Send(c) \/ Receive(c) \/ (\E arrived \in BOOLEAN : AnswerLost(c, arrived))
    \/ \E k \in DOMAIN handlers[c] : \/ HandlerReads(c, k) \/ HandlerPuts(c, k) \/ HandlerLaunches(c, k)
                                 \/ \E stored \in BOOLEAN : HandlerRaises(c, k, stored)
    \/ YieldPage(c)

ApiSpec == ApiBegins /\ [][ApiNext]_apiVars

(***************************************************************************)
(* Properties                                                              *)
(***************************************************************************)
Seen(c) == {w[2] : w \in {x \in wasThere[c] : x[1] = clientCall[c].id}}
RunsBy(c) == {r \in runs : r.by = c}

Heard(c) == <<c, Len(handlers[c])>>

\* A call that returns has done what it says: its definition has been the record, its
\* run is on record and was taken by the runner, or on record if the runner is said to
\* have refused it; every refusal has had a reason, and one that is no answer of the
\* server leaves no run.
AnswerTrue(c) ==
  LET op == clientCall[c].op
      recorded == \E r \in RunsBy(c) : r.request = Len(handlers[c]) /\ r.workflow \in Seen(c)
  IN  CASE clientAnswer[c] = "ok" /\ op # "list" ->
             /\ op \in Defining => \E r \in Seen(c) : r.by = c
             /\ op \in Submitting => recorded /\ Heard(c) \in launched
        [] clientAnswer[c] = "refused" -> recorded /\ op \in Submitting
        [] clientAnswer[c] \in {"exists", "409"} -> \E r \in Seen(c) : r # NoRecord
        [] clientAnswer[c] \in {"missing", "404"} -> NoRecord \in Seen(c)
        [] clientAnswer[c] \in {"arguments", "cancelled"} -> RunsBy(c) = {}
        [] clientAnswer[c] = "500" -> Heard(c) \notin launched
        [] OTHER -> TRUE

\* A run that its client is not told of is that of a request whose answer was lost or
\* whose handler raised; nothing is launched before it is on record, and nothing that
\* was launched is recorded as failed.  The arguments of a run fit a record that was
\* there during the call: if they do not fit its own, the workflow has changed after
\* the client looked at it.
RunsExplained(c) ==
  /\ \A r \in RunsBy(c) :
       /\ r.request = Len(handlers[c]) => clientAnswer[c] \in {"", "ok", "refused", "500", "raised"}
       /\ \E w \in Seen(c) \ {NoRecord} : w.takes = r.args
  /\ \A k \in DOMAIN handlers[c] :
       <<c, k>> \in launched =>
         <<c, k>> \notin failedRuns /\ \E r \in RunsBy(c) : r.request = k

\* A listing has every workflow that was there all along, and has none twice
\* unless pages are counted.
ListComplete(c) ==
  clientCall[c].op = "list" /\ clientAnswer[c] = "ok" =>
    \A i \in WorkflowIds :
      /\ <<i, NoRecord>> \notin wasThere[c] => pages[c].yielded[i] > 0
      /\ clientCall[c].maxPages = 0 => pages[c].yielded[i] <= 1

\* What a call of the client returns is true of the records the server has held
\* meanwhile, though requests are repeated and handlers overtake each other: a
\* definition has been stored, a run recorded and taken, a refusal has its reason.
ApiCallsHold == \A c \in ApiClients : AnswerTrue(c) /\ RunsExplained(c) /\ ListComplete(c)

=============================================================================
