---------------------------- MODULE MC_libraries ----------------------------
(***************************************************************************)
(* The libraries the tasks and the services call, the workflows they run   *)
(* without the remote executor, and the client with the server's routes,   *)
(* each as TLC is to check it.  A behaviour is one of the part it chooses  *)
(* at the start, while the others rest in one of their initial states.     *)
(***************************************************************************)
EXTENDS CosmosWrites, StorageWalk, DatasetPipeline, StorageFiles, Summaries,
        SimpleWorkflow, StreamSubmission, WorkflowApi, DatasetSplits
LOCAL INSTANCE TLC

VARIABLE part

libraryVars ==
  <<part, cosmosVars, walkVars, datasetVars, fileVars, summaryVars, simpleVars, submissionVars,
    apiVars, splitVars>>

(***************************************************************************)
(* Values of the constants                                                 *)
(***************************************************************************)
\* The base has no files, and every second folder has two.
MCNumFiles == [f \in Folders |-> IF f = 1 THEN 0 ELSE 1 + (f % 2)]

\* A folder, and a folder whose name begins with the first one's.
MCFileNames == << <<"a", "x">>, <<"a", "y">>, <<"ab", "x">> >>
MCBegins == {<<s, s>> : s \in {"a", "ab", "x", "y"}} \union {<<"ab", "a">>}
MCStoragePrefixes == {<<>>, <<"a">>}

MCInt(n) == [type |-> "numeric-int", value |-> n]
MCStr(n) == [type |-> "string", value |-> n]
MCObj(ks) == [type |-> "object", keys |-> ks]
MCDocuments == {
  "p" :> MCObj("i" :> MCInt(1)),
  "p" :> MCObj("i" :> MCInt(2) @@ "b" :> [type |-> "boolean", value |-> 1]),
  "p" :> MCObj("i" :> MCInt(3) @@ "b" :> MCInt(1)) @@ "t" :> MCStr(1),
  "p" :> MCObj("i" :> MCStr(1)) @@ "t" :> [type |-> "objects", items |-> <<"x" :> MCInt(1)>>],
  "p" :> MCObj("o" :> MCObj("i" :> MCInt(1))) @@ "t" :> [type |-> "objects", items |-> <<>>],
  "p" :> MCObj("o" :> MCObj("b" :> MCInt(1))),
  "p" :> MCStr(1)}
MCIncludeKeys == <<>>

\* Jobs a, b and c: b goes over what a gives, c refers to one of them.
MCSeg(name) == [name |-> name, index |-> NoIndex]
MCPath(names) == [i \in DOMAIN names |-> MCSeg(names[i])]
MCOutput(j, index, t, key) ==
  <<MCSeg("jobs"), [name |-> j, index |-> index], MCSeg("tasks"), MCSeg(t), MCSeg("output"), MCSeg(key)>>
MCTask(id, arg) ==
  [id |-> id, arg |-> arg, makes |-> IF id = "t" /\ arg # NoRef /\ Root(arg) = "args" THEN 0..2 ELSE {0}]
MCOver(ref, flat) == [ref |-> ref, flatten |-> flat, list |-> None]
MCListed(n) == [ref |-> NoRef, flatten |-> FALSE, list |-> ListOf([i \in 1..n |-> Leaf(i)])]
MCJob(needs, foreach, tasks) == [needs |-> needs, foreach |-> foreach, tasks |-> tasks]
MCWorkflows == {
  [args |-> {"x"}, jobs |->
     "a" :> MCJob({}, first, <<MCTask("t", MCPath(<<"args", "x">>))>>) @@
     "b" :> MCJob({"a"}, MCOver(MCOutput("a", NoIndex, "t", "items"), flat),
                  <<MCTask("t", MCPath(<<"item">>)),
                    MCTask("u", MCPath(<<"tasks", "t", "output", "uri">>))>>) @@
     "c" :> MCJob({last}, None, <<MCTask("t", MCOutput(up, index, "t", "uri"))>>)]
   : first \in {None, MCListed(2)}, flat \in BOOLEAN, last \in {"b", "d"},
     up \in {"a", "b", "d"}, index \in {NoIndex, 1}}
  \union {[args |-> {}, jobs |-> "a" :> MCJob({"b"}, None, <<MCTask("t", NoRef)>>) @@
                                 "b" :> MCJob({"a"}, None, <<MCTask("t", NoRef)>>)]}

MCText(t) == [text |-> t]
MCSecret(n) == [secret |-> n]
MCEnvironments == {<<>>, "A" :> MCText("mine") @@ "B" :> MCSecret("s"), "C" :> MCSecret("t")}
MCDefinitions ==
  [streaming : {TRUE}, queue : {"q"}, image : {"", "i"}, environment : MCEnvironments,
   tags : {<<>>}, code : {{}}, resources : {TRUE}]
  \union [streaming : {TRUE}, queue : {"p"}, image : {"i"}, environment : {<<>>}, tags : {<<>>},
          code : {{}}, resources : {FALSE}]
  \union [streaming : {TRUE}, queue : {"p"}, image : {"i"}, environment : {<<>>}, tags : {<<>>},
          code : {{"src"}}, resources : {TRUE}]
  \union [streaming : {FALSE}, queue : {"p"}, image : {"", "i"}, environment : MCEnvironments,
          tags : {<<>>, "A" :> MCText("mine")}, code : {{"src", "requirements"}}, resources : {FALSE}]
MCImageTable ==
  [image |-> "j",
   environment |-> <<[name |-> "A", value |-> MCText("set")], [name |-> "B", value |-> MCSecret("s")]>>,
   tags |-> <<[name |-> "A", value |-> MCText("set")]>>]

MCApiCalls ==
  [op : {"create"}, id : {1}, code : {"file"}, takes : {FALSE}, args : {FALSE}, maxPages : {0}]
  \union [op : {"update"}, id : {1, 2}, code : {"none"}, takes : {FALSE}, args : {FALSE}, maxPages : {0}]
  \union [op : {"upsert_and_submit"}, id : {1}, code : {"none"}, takes : {TRUE},
          args : {TRUE}, maxPages : {0}]
  \union [op : {"submit"}, id : {2}, code : {"none"}, takes : {TRUE}, args : BOOLEAN, maxPages : {0}]
  \union [op : {"submit"}, id : {1}, code : {"none"}, takes : {TRUE}, args : {TRUE}, maxPages : {0}]
  \union [op : {"upsert"}, id : {2}, code : {"none"}, takes : {TRUE}, args : {FALSE}, maxPages : {0}]
  \union [op : {"list"}, id : {2}, code : {"none"}, takes : {TRUE}, args : {FALSE}, maxPages : {0, 2}]

MCSplit(prefix, depth, matches) == [prefix |-> prefix, depth |-> depth, folderMatches |-> matches]
MCCollections ==
  LET Storage(engine, splits) == [engine |-> engine, splits |-> splits]
      plain == Storage("blob", <<>>)
  IN
  {<<Storage(engine, <<MCSplit(1, depth, Folders), MCSplit(p, 2, Folders \ {out})>>), plain>> :
      engine \in {"blob", "local"}, depth \in 0..2, p \in {2, 3}, out \in {1, 2, 4}}
  \union {<<plain, Storage("local", <<MCSplit(1, 1, {2, 4})>>)>>,
          <<plain, plain, Storage("blob", <<MCSplit(1, 1, Folders)>>)>>}

(***************************************************************************)
(* One part at a time                                                      *)
(***************************************************************************)
LibraryInit ==
  /\ part \in {"cosmos", "walk", "dataset", "files", "summaries", "simple", "submission", "api", "splits"}
  /\ IF part = "cosmos" THEN CosmosInit
     ELSE CosmosBegins([d \in CosmosDocs |-> "k"], TRUE, NumWaits)
  /\ IF part = "splits" THEN SplitsInit
     ELSE /\ IF part = "walk" THEN WalkInit
             ELSE WalkBegins([f \in Folders \ {1} |-> 1], CHOOSE o \in WalkCalls : o.engine = "blob")
          /\ SplitsBegin(CHOOSE s \in Collections : TRUE, 0)
  /\ DatasetInit
  /\ IF part = "files" THEN \E present \in {{}, Names} : FilesBegin(present) ELSE FilesBegin({})
  /\ IF part = "summaries" THEN SummaryInit
     ELSE SummaryBegins([i \in 1..NumDocuments |-> "p" :> MCStr(1)])
  /\ IF part = "simple" THEN SimpleInit
     ELSE LET w == CHOOSE x \in Workflows : TRUE IN SimpleBegins(w, w.args)
  /\ IF part = "submission" THEN SubmissionInit
     ELSE SubmissionBegins([m \in Submissions |-> CHOOSE d \in Definitions : TRUE])
  /\ ApiBegins

LibraryNext ==
  \/ /\ part = "cosmos" /\ CosmosNext
     /\ UNCHANGED <<part, walkVars, datasetVars, fileVars, summaryVars, simpleVars,
                    submissionVars, apiVars, splitVars>>
  \/ /\ part = "walk" /\ WalkNext
     /\ UNCHANGED <<part, cosmosVars, datasetVars, fileVars, summaryVars, simpleVars,
                    submissionVars, apiVars, splitVars>>
  \/ /\ part = "dataset" /\ DatasetNext
     /\ UNCHANGED <<part, cosmosVars, walkVars, fileVars, summaryVars, simpleVars,
                    submissionVars, apiVars, splitVars>>
  \/ /\ part = "files" /\ FilesNext
     /\ UNCHANGED <<part, cosmosVars, walkVars, datasetVars, summaryVars, simpleVars,
                    submissionVars, apiVars, splitVars>>
  \/ /\ part = "summaries" /\ SummaryNext
     /\ UNCHANGED <<part, cosmosVars, walkVars, datasetVars, fileVars, simpleVars,
                    submissionVars, apiVars, splitVars>>
  \/ /\ part = "simple" /\ SimpleNext
     /\ UNCHANGED <<part, cosmosVars, walkVars, datasetVars, fileVars, summaryVars,
                    submissionVars, apiVars, splitVars>>
  \/ /\ part = "submission" /\ SubmissionNext
     /\ UNCHANGED <<part, cosmosVars, walkVars, datasetVars, fileVars, summaryVars, simpleVars,
                    apiVars, splitVars>>
  \/ /\ part = "api" /\ ApiNext
     /\ UNCHANGED <<part, cosmosVars, walkVars, datasetVars, fileVars, summaryVars, simpleVars,
                    submissionVars, splitVars>>
  \/ /\ part = "splits" /\ SplitsNext
     /\ UNCHANGED <<part, cosmosVars, datasetVars, fileVars, summaryVars, simpleVars,
                    submissionVars, apiVars>>

LibrarySpec == LibraryInit /\ [][LibraryNext]_libraryVars

=============================================================================
