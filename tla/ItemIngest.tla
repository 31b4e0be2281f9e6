------------------------------ MODULE ItemIngest ------------------------------
(***************************************************************************)
(* Items on their way from Cosmos DB to the database (pgstac): the function*)
(* PublishItemsCF, on the items container's change feed, sends each item to*)
(* the queue "ingest", from which workers of StreamingIngestItemsTask load *)
(* it (ingest_task/streaming.py).                                          *)
(***************************************************************************)
EXTENDS Naturals, Sequences, FiniteSets

CONSTANTS
  StacItems,       \* documents of type StacItem
  UpdatedRecords,  \* documents of type ItemUpdated
  Ingesters,       \* workers of the streaming task
  MaxIngestFaults  \* bound: hosts and workers that die, sends and calls that raise

ASSUME IngestAssumption ==
  /\ IsFiniteSet(StacItems) /\ IsFiniteSet(UpdatedRecords)
  /\ StacItems \cap UpdatedRecords = {}
  /\ MaxIngestFaults \in Nat

Documents == StacItems \union UpdatedRecords
GiveUpAfter == 3 \* deliveries that raise, in StreamingTaskMixin.run: no more are counted

VARIABLES
  unwritten,     \* documents not put yet
  changedDocs,   \* documents changed behind the feed's checkpoint
  publishBatch,  \* the documents PublishItemsCF has yet to look at
  unpublished,   \* items that a batch that raised has passed over
  ingestQueue,   \* the queue: messages [item, copy, dequeues] and whether they show
  badItems,      \* items without "collection" or "id", or not accepted by pgstac
  ingesting,     \* what each worker holds: a set of at most one message
  ingestResult,  \* of process_message: "none", "item", "error"
  ingested,      \* items in the database
  ingestErrors,  \* items with an error record
  givenUp,       \* items whose message was deleted after GiveUpAfter failures
  ingestFaults

publishVars == <<unwritten, changedDocs, publishBatch, unpublished>>
workerVars == <<badItems, ingesting, ingestResult, ingested, ingestErrors, givenUp>>
itemVars == <<publishVars, ingestQueue, workerVars, ingestFaults>>

IngestMessage == [item : StacItems, copy : Nat, dequeues : 0..GiveUpAfter]

ItemTypeOK ==
  /\ unwritten \subseteq Documents /\ changedDocs \subseteq Documents
  /\ publishBatch \in Seq(Documents) /\ unpublished \subseteq StacItems
  /\ \A m \in ingestQueue : m \in IngestMessage
  /\ badItems \subseteq StacItems
  /\ \A w \in Ingesters : Cardinality(ingesting[w]) <= 1
  /\ ingestResult \in [Ingesters -> {"none", "item", "error"}]
  /\ ingested \subseteq StacItems /\ ingestErrors \subseteq StacItems /\ givenUp \subseteq StacItems
  /\ ingestFaults \in 0..MaxIngestFaults

ItemInit ==
  /\ unwritten = Documents /\ changedDocs = {} /\ publishBatch = <<>> /\ unpublished = {}
  /\ ingestQueue = {}
  /\ badItems \in SUBSET StacItems
  /\ ingesting = [w \in Ingesters |-> {}]
  /\ ingestResult = [w \in Ingesters |-> "none"]
  /\ ingested = {} /\ ingestErrors = {} /\ givenUp = {}
  /\ ingestFaults = 0

IngestFault == ingestFaults < MaxIngestFaults /\ ingestFaults' = ingestFaults + 1

(***************************************************************************)
(* PublishItemsCF                                                          *)
(***************************************************************************)
WriteItem(d) ==
  /\ d \in unwritten
  /\ unwritten' = unwritten \ {d} /\ changedDocs' = changedDocs \union {d}
  /\ UNCHANGED <<publishBatch, unpublished, ingestQueue, workerVars, ingestFaults>>

\* A batch has the changed documents in any order, and so its items, which main
\* filters out of it.
PublishReads ==
  /\ publishBatch = <<>> /\ changedDocs # {}
  /\ LET filtered == changedDocs \cap StacItems
     IN  \E order \in [1..Cardinality(filtered) -> filtered] :
           filtered = {order[i] : i \in DOMAIN order} /\ publishBatch' = order
  /\ changedDocs' = {}
  /\ UNCHANGED <<unwritten, unpublished, ingestQueue, workerVars, ingestFaults>>

Enqueue(i) ==
  ingestQueue' = ingestQueue \union
    {[item |-> i, copy |-> ingestFaults, dequeues |-> 0]}

PublishItem ==
  /\ publishBatch # <<>>
  /\ Enqueue(Head(publishBatch))
  /\ publishBatch' = Tail(publishBatch)
  /\ UNCHANGED <<unwritten, changedDocs, unpublished, workerVars, ingestFaults>>

\* A message cannot be sent, or only its answer is lost; or it is sent, and the
\* log line that follows it raises.
PublishRaises ==
  /\ publishBatch # <<>> /\ IngestFault
  /\ Enqueue(Head(publishBatch)) \/ UNCHANGED ingestQueue
  /\ unpublished' = unpublished \union {publishBatch[i] : i \in DOMAIN publishBatch}
  /\ publishBatch' = <<>>
  /\ UNCHANGED <<unwritten, changedDocs, workerVars>>

PublishHostDies ==
  /\ publishBatch # <<>> /\ IngestFault
  /\ Enqueue(Head(publishBatch)) \/ UNCHANGED ingestQueue
  /\ changedDocs' = changedDocs \union {publishBatch[i] : i \in DOMAIN publishBatch}
  /\ publishBatch' = <<>>
  /\ UNCHANGED <<unwritten, unpublished, workerVars>>

(***************************************************************************)
(* StreamingIngestItemsTask                                                *)
(***************************************************************************)
Held == UNION {ingesting[w] : w \in Ingesters}

Receive(w) ==
  /\ ingesting[w] = {}
  /\ \E m \in ingestQueue \ Held :
       LET again == [m EXCEPT !.dequeues = IF @ = GiveUpAfter THEN @ ELSE @ + 1]
       IN  /\ ingestQueue' = (ingestQueue \ {m}) \union {again}
           /\ ingesting' = [ingesting EXCEPT ![w] = {again}]
  /\ UNCHANGED <<publishVars, badItems, ingestResult, ingested, ingestErrors, givenUp, ingestFaults>>

\* The worker is done with its message: it is deleted, or shows again.
Leaves(w, deleted) ==
  /\ ingestQueue' = IF deleted THEN ingestQueue \ ingesting[w] ELSE ingestQueue
  /\ ingesting' = [ingesting EXCEPT ![w] = {}]
  /\ ingestResult' = [ingestResult EXCEPT ![w] = "none"]

\* process_message: ingest_item upserts; what raises in it becomes an error.
LoadItem(w) ==
  /\ ingestResult[w] = "none"
  /\ \E m \in ingesting[w] :
       /\ m.item \notin badItems
       /\ ingested' = ingested \union {m.item}
  /\ ingestResult' = [ingestResult EXCEPT ![w] = "item"]
  /\ UNCHANGED <<publishVars, ingestQueue, badItems, ingesting, ingestErrors, givenUp, ingestFaults>>

LoadFails(w) ==
  /\ ingestResult[w] = "none"
  /\ \E m \in ingesting[w] :
       IF m.item \in badItems THEN UNCHANGED <<ingested, ingestFaults>>
       ELSE IngestFault /\ ingested' \in {ingested, ingested \union {m.item}}
  /\ ingestResult' = [ingestResult EXCEPT ![w] = "error"]
  /\ UNCHANGED <<publishVars, ingestQueue, badItems, ingesting, ingestErrors, givenUp>>

\* Wrong version of Finalize: an error is not recorded
FinalizeItems(w) ==
  /\ ingestResult[w] # "none"
  /\ Leaves(w, TRUE)
  /\ UNCHANGED <<publishVars, badItems, ingested, ingestErrors, givenUp,
                 ingestFaults>>

\* Wrong version of Finalize: the message of an error stays
FinalizeKeeps(w) ==
  /\ ingestResult[w] # "none"
  /\ Leaves(w, ingestResult[w] = "item")
  /\ UNCHANGED <<publishVars, badItems, ingested, ingestErrors, givenUp, ingestFaults>>

\* finalize_message puts the error, and only then is the message deleted.
Finalize(w) ==
  /\ ingestResult[w] # "none"
  /\ ingestErrors' = IF ingestResult[w] = "error"
                     THEN ingestErrors \union {m.item : m \in ingesting[w]} ELSE ingestErrors
  /\ Leaves(w, TRUE)
  /\ UNCHANGED <<publishVars, badItems, ingested, givenUp, ingestFaults>>

\* The look at the item's ids, or the put of the error, raises.
IngestRaises(w) ==
  /\ \E m \in ingesting[w] :
       /\ \/ ingestResult[w] = "none" /\ m.item \in badItems /\ UNCHANGED ingestFaults
          \/ ingestResult[w] = "error" /\ IngestFault
       /\ Leaves(w, m.dequeues >= GiveUpAfter)
       /\ givenUp' = IF m.dequeues >= GiveUpAfter THEN givenUp \union {m.item} ELSE givenUp
  /\ UNCHANGED <<publishVars, badItems, ingested, ingestErrors>>

IngesterDies(w) ==
  /\ ingesting[w] # {} /\ IngestFault
  /\ Leaves(w, FALSE)
  /\ UNCHANGED <<publishVars, badItems, ingested, ingestErrors, givenUp>>

(***************************************************************************)
(* The specification                                                       *)
(***************************************************************************)
PublishSteps == PublishReads \/ PublishItem \/ PublishRaises \/ PublishHostDies

IngesterSteps(w) ==
  Receive(w) \/ LoadItem(w) \/ LoadFails(w) \/ Finalize(w) \/ IngestRaises(w) \/ IngesterDies(w)

ItemNext ==
  \/ PublishSteps
  \/ \E d \in Documents : WriteItem(d)
  \/ \E w \in Ingesters : IngesterSteps(w)

ItemSpec == ItemInit /\ [][ItemNext]_itemVars

\* Functions are run while the feed has changes, and workers while there are messages.
ItemFairness == WF_itemVars(PublishSteps) /\ \A w \in Ingesters : WF_itemVars(IngesterSteps(w))

(***************************************************************************)
(* Properties                                                              *)
(***************************************************************************)
Settled(i) == i \in ingested \union ingestErrors \union givenUp \union unpublished

\* An item that was written, is not in work and in no queue is in the database,
\* or in an error record, or its message raised so often that it was deleted
\* (or PublishItemsCF raised in its batch): no crash between the load, the put of
\* the error and the deletion of the message loses one.
NoItemVanishes ==
  \A i \in StacItems \ (unwritten \union changedDocs) :
    \/ \E n \in DOMAIN publishBatch : publishBatch[n] = i
    \/ \E m \in ingestQueue : m.item = i
    \/ Settled(i)

\* Every item that is written gets there: in the end no message is left.
ItemsSettle == \A i \in StacItems : i \in changedDocs ~> Settled(i) /\ ~\E m \in ingestQueue : m.item = i

=============================================================================
