----------------------------- MODULE MC_services -----------------------------
(***************************************************************************)
(* The services around the executor, each as TLC is to check it: the Batch *)
(* task runner and the other runners, the change feeds of the records, the *)
(* dispatch of storage events, the publication and ingestion of items and  *)
(* that of collections. They share no state: a behaviour is one of the     *)
(* part it chooses at the start, while the others rest in one of their     *)
(* initial states. The runners' tasks and the launching of runs are parts  *)
(* of their own.                                                           *)
(***************************************************************************)
EXTENDS BatchRunner, RecordFeeds, EventDispatch, ItemIngest, CollectionIngest, TaskRunners

VARIABLE part

serviceVars == <<part, batchVars, recordVars, eventVars, itemVars, collectionVars,
                 runnerVars>>

\* Two dispatch rules that name the same queue
MCRuleQueue == <<"qa", "qa">>

\* One event is accepted always, and no event matches the second rule only:
\* the events are alike, and so are the rules.
OddEvent == CHOOSE e \in Events : TRUE

ServiceInit ==
  /\ part \in {"batch", "records", "events", "items", "collection", "runners", "launches"}
  /\ BatchInit /\ (part # "batch" => poolFound)
  /\ RecordInit
  /\ EventInit /\ (part # "events" => badEvents = {} /\ \A e \in Events : matching[e] = {})
  /\ OddEvent \notin badEvents /\ \A e \in Events : matching[e] # {2}
  /\ ItemInit /\ (part # "items" => badItems = {})
  /\ CollectionInit /\ (part # "collection" => rowBefore)
  /\ IF part \in {"runners", "launches"} THEN RunnerInit ELSE RunnerBegins("local", [t \in RunnerTasks |-> ""])

Rest(v) == UNCHANGED <<part, v>>

ServiceNext ==
  \/ part = "batch" /\ BatchNext
     /\ Rest(<<recordVars, eventVars, itemVars, collectionVars, runnerVars>>)
  \/ part = "records" /\ RecordNext
     /\ Rest(<<batchVars, eventVars, itemVars, collectionVars, runnerVars>>)
  \/ part = "events" /\ EventNext
     /\ Rest(<<batchVars, recordVars, itemVars, collectionVars, runnerVars>>)
  \/ part = "items" /\ ItemNext
     /\ Rest(<<batchVars, recordVars, eventVars, collectionVars, runnerVars>>)
  \/ part = "collection" /\ CollectionNext
     /\ Rest(<<batchVars, recordVars, eventVars, itemVars, runnerVars>>)
  \/ part = "runners" /\ RunnerTaskNext
     /\ Rest(<<batchVars, recordVars, eventVars, itemVars, collectionVars>>)
  \/ part = "launches" /\ LaunchNext
     /\ Rest(<<batchVars, recordVars, eventVars, itemVars, collectionVars>>)

\* The fairness of the parts: BatchFairness, RecordFairness, EventFairness,
\* ItemFairness and that of RunnerSpec, asked of the part at hand only.
ServiceFairness ==
  /\ WF_batchVars(part = "batch" /\ FailedExpires)
  /\ \A t \in Pollers :
       /\ WF_batchVars(part = "batch" /\ PollerSteps(t))
       /\ SF_batchVars(part = "batch" /\ PollJob(t))
       /\ SF_batchVars(part = "batch" /\ ListFailed(t))
  /\ WF_recordVars(part = "records" /\ FlowSteps)
  /\ WF_recordVars(part = "records" /\ FeedSteps)
  /\ WF_eventVars(part = "events" /\ DispatchSteps)
  /\ \A e \in Events : WF_eventVars(part = "events" /\ QueueSteps(e))
  /\ WF_itemVars(part = "items" /\ PublishSteps)
  /\ \A w \in Ingesters : WF_itemVars(part = "items" /\ IngesterSteps(w))
  /\ WF_runnerVars(part = "runners" /\ AskSteps)

ServiceSpec == ServiceInit /\ [][ServiceNext]_serviceVars /\ ServiceFairness

=============================================================================
