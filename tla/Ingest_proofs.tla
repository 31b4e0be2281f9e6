--------------------------- MODULE Ingest_proofs ----------------------------
(***************************************************************************)
(* No item vanishes on its way from Cosmos DB to the database, of the      *)
(* tasks that ingest a collection one at most has created it, and a        *)
(* dataset whose tasks have ended well has every item of its assets in     *)
(* the database: for any number of items, workers, tasks, chunks, deaths   *)
(* and broken connections.                                                 *)
(***************************************************************************)
EXTENDS ItemIngest, CollectionIngest, DatasetPipeline, FiniteSetTheorems,
        FunctionTheorems, SequenceTheorems, WellFoundedInduction, TLAPS

-----------------------------------------------------------------------------
(* Items.                                                                  *)

\* What is in the queue, in work and in a batch are messages and items; a worker holds
\* one message, and what it has made of it is done before it lets go of it.
WorkPart ==
  /\ ingestFaults \in Nat
  /\ changedDocs \subseteq Documents
  /\ publishBatch \in Seq(StacItems)
  /\ ingestQueue \subseteq IngestMessage
  /\ ingesting \in [Ingesters -> SUBSET IngestMessage]
  /\ ingestResult \in [Ingesters -> {"none", "item", "error"}]
  /\ \A w \in Ingesters :
       /\ \A m, n \in ingesting[w] : m = n
       /\ ingesting[w] = {} => ingestResult[w] = "none"
       /\ ingestResult[w] = "item" => \A m \in ingesting[w] : m.item \in ingested

Accounted(i) ==
  \/ \E n \in DOMAIN publishBatch : publishBatch[n] = i
  \/ \E m \in ingestQueue : m.item = i
  \/ Settled(i)

ItemInv == WorkPart /\ NoItemVanishes

LEMMA ItemInvInit ==
  ASSUME ItemInit
  PROVE  ItemInv
<1>1. WorkPart
  <2>1. publishBatch \in Seq(StacItems) /\ ingestFaults \in Nat
    BY DEF ItemInit
  <2>2. QED
    BY <2>1 DEF ItemInit, WorkPart
<1>2. NoItemVanishes
  BY DEF ItemInit, NoItemVanishes, Documents
<1>3. QED
  BY <1>1, <1>2 DEF ItemInv

\* What a step must keep of each item: what was accounted for, or was among the changed
\* documents, is now, or is among the changed ones again.
LEMMA NoItemLost ==
  ASSUME NoItemVanishes, UNCHANGED unwritten,
         \A i \in StacItems : Accounted(i) \/ i \in changedDocs => Accounted(i)' \/ i \in changedDocs'
  PROVE  NoItemVanishes'
  BY DEF NoItemVanishes, Accounted

\* What is settled stays so.
LEMMA SettledKept ==
  ASSUME NEW i,
         ingested \subseteq ingested', ingestErrors \subseteq ingestErrors',
         givenUp \subseteq givenUp', unpublished \subseteq unpublished'
  PROVE  Settled(i) => Settled(i)'
  BY DEF Settled

LEMMA ItemInvWrite ==
  ASSUME ItemInv, NEW d \in Documents, WriteItem(d)
  PROVE  ItemInv'
<1>1. /\ unwritten' = unwritten \ {d} /\ changedDocs' = changedDocs \union {d}
      /\ UNCHANGED <<publishBatch, unpublished, ingestQueue, workerVars, ingestFaults>>
  BY DEF WriteItem
<1>2. WorkPart'
  BY <1>1 DEF ItemInv, WorkPart, workerVars
<1>3. NoItemVanishes'
  BY <1>1 DEF ItemInv, NoItemVanishes, Settled, workerVars
<1>4. QED
  BY <1>2, <1>3 DEF ItemInv

LEMMA ItemInvReads ==
  ASSUME ItemInv, PublishReads
  PROVE  ItemInv'
<1> DEFINE filtered == changedDocs \cap StacItems
           n == Cardinality(filtered)
<1>1. PICK order \in [1..n -> filtered] :
        filtered = {order[i] : i \in DOMAIN order} /\ publishBatch' = order
  BY DEF PublishReads
<1>2. /\ publishBatch = <<>> /\ changedDocs' = {}
      /\ UNCHANGED <<unwritten, unpublished, ingestQueue, workerVars, ingestFaults>>
  BY DEF PublishReads
<1>3. n \in Nat
  BY IngestAssumption, FS_Subset, FS_CardinalityType
<1>4. publishBatch' \in Seq(StacItems)
  <2>1. \A i \in 1..n : order[i] \in StacItems
    BY <1>1
  <2> HIDE DEF n
  <2>2. QED
    BY <1>1, <1>3, <2>1
<1>5. WorkPart'
  BY <1>2, <1>4 DEF ItemInv, WorkPart, workerVars
<1>6. ASSUME NEW i \in StacItems, Accounted(i) \/ i \in changedDocs
      PROVE  Accounted(i)'
  <2>1. CASE i \in changedDocs
    BY <1>1, <2>1 DEF Accounted
  <2>2. CASE Accounted(i)
    BY <1>2, <2>2 DEF Accounted, Settled, workerVars
  <2>3. QED
    BY <1>6, <2>1, <2>2
<1>7. QED
  BY <1>2, <1>5, <1>6, NoItemLost DEF ItemInv

\* A message more in the queue.
LEMMA EnqueueAdds ==
  ASSUME WorkPart, NEW i \in StacItems, Enqueue(i)
  PROVE  /\ ingestQueue' \subseteq IngestMessage /\ ingestQueue \subseteq ingestQueue'
         /\ \E m \in ingestQueue' : m.item = i
<1> DEFINE new == [item |-> i, copy |-> ingestFaults, dequeues |-> 0]
<1>1. ingestQueue' = ingestQueue \union {new}
  BY DEF Enqueue
<1>2. new \in IngestMessage /\ new.item = i
  BY DEF WorkPart, IngestMessage, GiveUpAfter
<1> HIDE DEF new
<1>3. QED
  BY <1>1, <1>2 DEF WorkPart

LEMMA ItemInvPublish ==
  ASSUME ItemInv, PublishItem
  PROVE  ItemInv'
<1>1. /\ publishBatch # <<>> /\ Enqueue(publishBatch[1]) /\ publishBatch' = Tail(publishBatch)
      /\ UNCHANGED <<unwritten, changedDocs, unpublished, workerVars, ingestFaults>>
  BY DEF PublishItem
<1>2. publishBatch \in Seq(StacItems) /\ publishBatch[1] \in StacItems /\ Len(publishBatch) \in Nat \ {0}
  BY <1>1 DEF ItemInv, WorkPart
<1>3. publishBatch' \in Seq(StacItems)
  BY <1>1, <1>2
<1>4. WorkPart'
  BY <1>1, <1>2, <1>3, EnqueueAdds DEF ItemInv, WorkPart, workerVars
<1>5. ASSUME NEW i \in StacItems, Accounted(i)
      PROVE  Accounted(i)'
  <2>1. CASE i = publishBatch[1]
    BY <1>1, <1>2, <2>1, EnqueueAdds DEF ItemInv, Accounted
  <2>2. ASSUME NEW k \in DOMAIN publishBatch, publishBatch[k] = i, i # publishBatch[1]
        PROVE  Accounted(i)'
    <3>1. k - 1 \in DOMAIN publishBatch' /\ publishBatch'[k - 1] = i
      BY <1>1, <1>2, <2>2
    <3>2. QED
      BY <3>1 DEF Accounted
  <2>3. CASE \E m \in ingestQueue : m.item = i
    BY <1>1, <1>2, <2>3, EnqueueAdds DEF ItemInv, Accounted
  <2>4. CASE Settled(i)
    BY <1>1, <2>4 DEF Accounted, Settled, workerVars
  <2>5. QED
    BY <1>5, <2>1, <2>2, <2>3, <2>4 DEF Accounted
<1>6. QED
  BY <1>1, <1>4, <1>5, NoItemLost DEF ItemInv

LEMMA ItemInvPublishEnds ==
  ASSUME ItemInv, PublishRaises \/ PublishHostDies
  PROVE  ItemInv'
<1> DEFINE left == {publishBatch[i] : i \in DOMAIN publishBatch}
<1>1. /\ publishBatch # <<>> /\ publishBatch' = <<>> /\ UNCHANGED <<unwritten, workerVars>>
      /\ Enqueue(publishBatch[1]) \/ UNCHANGED ingestQueue
      /\ ingestFaults' = ingestFaults + 1
  BY DEF PublishRaises, PublishHostDies, IngestFault
<1>2. \/ unpublished' = unpublished \union left /\ UNCHANGED changedDocs
      \/ changedDocs' = changedDocs \union left /\ UNCHANGED unpublished
  BY DEF PublishRaises, PublishHostDies
<1>3. publishBatch \in Seq(StacItems) /\ publishBatch[1] \in StacItems
  BY <1>1 DEF ItemInv, WorkPart
<1>4. left \subseteq StacItems
  BY <1>3
<1>5. ingestQueue' \subseteq IngestMessage /\ ingestQueue \subseteq ingestQueue'
  BY <1>1, <1>3, EnqueueAdds DEF ItemInv, WorkPart
<1>6. WorkPart'
  <2>1. ingestFaults' \in Nat /\ publishBatch' \in Seq(StacItems)
    BY <1>1 DEF ItemInv, WorkPart
  <2>2. changedDocs' \subseteq Documents
    BY <1>2, <1>4 DEF ItemInv, WorkPart, Documents
  <2>3. QED
    BY <1>1, <1>5, <2>1, <2>2 DEF ItemInv, WorkPart, workerVars
<1>7. ASSUME NEW i \in StacItems, Accounted(i) \/ i \in changedDocs
      PROVE  Accounted(i)' \/ i \in changedDocs'
  <2>1. CASE i \in left
    BY <1>2, <2>1 DEF Accounted, Settled
  <2>2. CASE i \notin left
    BY <1>1, <1>2, <1>5, <1>7, <2>2 DEF Accounted, Settled, workerVars
  <2>3. QED
    BY <2>1, <2>2
<1>8. QED
  BY <1>1, <1>6, <1>7, NoItemLost DEF ItemInv

LEMMA ItemInvReceive ==
  ASSUME ItemInv, NEW w \in Ingesters, Receive(w)
  PROVE  ItemInv'
<1> DEFINE Again(m) == [m EXCEPT !.dequeues = IF m.dequeues = GiveUpAfter THEN m.dequeues ELSE m.dequeues + 1]
<1>1. PICK m \in ingestQueue :
        /\ ingestQueue' = (ingestQueue \ {m}) \union {Again(m)}
        /\ ingesting' = [ingesting EXCEPT ![w] = {Again(m)}]
  BY DEF Receive
<1>2. /\ UNCHANGED <<publishVars, badItems, ingestResult, ingested, ingestErrors, givenUp, ingestFaults>>
      /\ ingesting[w] = {}
  BY DEF Receive
<1>3. m \in IngestMessage
  BY DEF ItemInv, WorkPart
<1>4. Again(m) \in IngestMessage /\ Again(m).item = m.item
  BY <1>3 DEF IngestMessage, GiveUpAfter
<1> HIDE DEF Again
<1>5. ingesting'[w] = {Again(m)} /\ \A v \in Ingesters : v # w => ingesting'[v] = ingesting[v]
  BY <1>1 DEF ItemInv, WorkPart
<1>6. ingesting' \in [Ingesters -> SUBSET IngestMessage]
  <2>1. {Again(m)} \in SUBSET IngestMessage
    BY <1>4
  <2>2. QED
    BY <1>1, <2>1 DEF ItemInv, WorkPart
<1>7. WorkPart'
  BY <1>1, <1>2, <1>3, <1>4, <1>5, <1>6 DEF ItemInv, WorkPart, publishVars
<1>8. ASSUME NEW i \in StacItems, Accounted(i)
      PROVE  Accounted(i)'
  <2>1. (\E k \in ingestQueue : k.item = i) => \E k \in ingestQueue' : k.item = i
    BY <1>1, <1>4
  <2>2. QED
    BY <1>2, <1>8, <2>1 DEF Accounted, Settled, publishVars
<1>9. QED
  BY <1>2, <1>7, <1>8, NoItemLost DEF ItemInv, publishVars

\* A worker loads its message, or fails to.
LEMMA ItemInvLoad ==
  ASSUME ItemInv, NEW w \in Ingesters, LoadItem(w) \/ LoadFails(w)
  PROVE  ItemInv'
<1>1. /\ UNCHANGED <<publishVars, ingestQueue, badItems, ingesting, ingestErrors, givenUp>>
      /\ ingestFaults' \in Nat
  BY DEF LoadItem, LoadFails, IngestFault, ItemInv, WorkPart
<1>2. PICK m \in ingesting[w] :
        \/ /\ ingestResult' = [ingestResult EXCEPT ![w] = "item"]
           /\ ingested' = ingested \union {m.item}
        \/ /\ ingestResult' = [ingestResult EXCEPT ![w] = "error"]
           /\ ingested \subseteq ingested'
  BY DEF LoadItem, LoadFails
<1>3. \A k \in ingesting[w] : k = m
  BY <1>2 DEF ItemInv, WorkPart
<1>4. WorkPart'
  BY <1>1, <1>2, <1>3 DEF ItemInv, WorkPart, publishVars
<1>5. \A i \in StacItems : Accounted(i) => Accounted(i)'
  BY <1>1, <1>2 DEF Accounted, Settled, publishVars
<1>6. QED
  BY <1>1, <1>4, <1>5, NoItemLost DEF ItemInv, publishVars

\* A worker lets go of its message: what is deleted with it is settled.
LEMMA LeavesKeeps ==
  ASSUME ItemInv, NEW w \in Ingesters, NEW deleted \in BOOLEAN, Leaves(w, deleted),
         UNCHANGED <<publishVars, badItems, ingested>>, ingestFaults' \in Nat,
         ingestErrors \subseteq ingestErrors', givenUp \subseteq givenUp',
         deleted => \A m \in ingesting[w] : Settled(m.item)'
  PROVE  ItemInv'
<1>1. /\ ingestQueue' = IF deleted THEN ingestQueue \ ingesting[w] ELSE ingestQueue
      /\ ingesting' = [ingesting EXCEPT ![w] = {}]
      /\ ingestResult' = [ingestResult EXCEPT ![w] = "none"]
  BY DEF Leaves
<1>2. WorkPart'
  BY <1>1 DEF ItemInv, WorkPart, publishVars
<1>3. ASSUME NEW i \in StacItems, Accounted(i)
      PROVE  Accounted(i)'
  <2>1. ASSUME NEW m \in ingestQueue, m.item = i
        PROVE  Accounted(i)'
    <3>1. CASE deleted /\ m \in ingesting[w]
      BY <2>1, <3>1 DEF Accounted
    <3>2. CASE ~(deleted /\ m \in ingesting[w])
      BY <1>1, <2>1, <3>2 DEF Accounted
    <3>3. QED
      BY <3>1, <3>2
  <2>2. CASE Settled(i)
    BY <2>2 DEF Accounted, Settled, publishVars
  <2>3. QED
    BY <1>3, <2>1, <2>2 DEF Accounted, publishVars
<1>4. QED
  BY <1>2, <1>3, NoItemLost DEF ItemInv, publishVars

LEMMA ItemInvFinalize ==
  ASSUME ItemInv, NEW w \in Ingesters, Finalize(w)
  PROVE  ItemInv'
<1>1. /\ ingestResult[w] \in {"item", "error"} /\ Leaves(w, TRUE)
      /\ UNCHANGED <<publishVars, badItems, ingested, givenUp, ingestFaults>>
      /\ ingestErrors' = IF ingestResult[w] = "error"
                         THEN ingestErrors \union {m.item : m \in ingesting[w]} ELSE ingestErrors
  BY DEF Finalize, ItemInv, WorkPart
<1>2. \A m \in ingesting[w] : Settled(m.item)'
  BY <1>1 DEF Settled, ItemInv, WorkPart
<1>3. ingestFaults' \in Nat
  BY <1>1 DEF ItemInv, WorkPart
<1>4. QED
  BY <1>1, <1>2, <1>3, LeavesKeeps

LEMMA ItemInvRaises ==
  ASSUME ItemInv, NEW w \in Ingesters, IngestRaises(w)
  PROVE  ItemInv'
<1>1. PICK m \in ingesting[w] :
        /\ Leaves(w, m.dequeues >= GiveUpAfter)
        /\ givenUp' = IF m.dequeues >= GiveUpAfter THEN givenUp \union {m.item} ELSE givenUp
  BY DEF IngestRaises
<1>2. /\ UNCHANGED <<publishVars, badItems, ingested, ingestErrors>>
      /\ ingestFaults' \in Nat
  BY DEF IngestRaises, IngestFault, ItemInv, WorkPart
<1>3. \A k \in ingesting[w] : k = m
  BY <1>1 DEF ItemInv, WorkPart
<1>4. m.dequeues >= GiveUpAfter => \A k \in ingesting[w] : Settled(k.item)'
  BY <1>1, <1>3 DEF Settled
<1>5. (m.dequeues >= GiveUpAfter) \in BOOLEAN
  OBVIOUS
<1>6. givenUp \subseteq givenUp'
  BY <1>1
<1>7. QED
  BY <1>1, <1>2, <1>4, <1>5, <1>6, LeavesKeeps

LEMMA ItemInvDies ==
  ASSUME ItemInv, NEW w \in Ingesters, IngesterDies(w)
  PROVE  ItemInv'
<1>1. Leaves(w, FALSE) /\ UNCHANGED <<publishVars, badItems, ingested, ingestErrors, givenUp>>
  BY DEF IngesterDies
<1>2. ingestFaults' \in Nat
  BY DEF IngesterDies, IngestFault, ItemInv, WorkPart
<1>3. QED
  BY <1>1, <1>2, LeavesKeeps

LEMMA ItemInvStutter ==
  ASSUME ItemInv, UNCHANGED itemVars
  PROVE  ItemInv'
  BY DEF ItemInv, WorkPart, NoItemVanishes, Settled, itemVars, publishVars, workerVars

\* Every item is accounted for at each step of the hosts and workers, deaths included.
THEOREM ItemInvInvariant == ItemSpec => []ItemInv
<1>1. ItemInv /\ [ItemNext]_itemVars => ItemInv'
  BY ItemInvWrite, ItemInvReads, ItemInvPublish, ItemInvPublishEnds, ItemInvReceive, ItemInvLoad,
     ItemInvFinalize, ItemInvRaises, ItemInvDies, ItemInvStutter
     DEF ItemNext, PublishSteps, IngesterSteps
<1>2. QED
  BY ItemInvInit, <1>1, PTL DEF ItemSpec

\* No item vanishes between Cosmos DB and the database: what is not in work, in a batch
\* or in the queue is loaded, recorded as an error, given up after its deliveries, or
\* passed over by a batch that raised, wherever hosts and workers die.
THEOREM ItemsAreKept == ItemSpec => []NoItemVanishes
<1>1. ItemInv => NoItemVanishes
  BY DEF ItemInv
<1>2. QED
  BY ItemInvInvariant, <1>1, PTL

-----------------------------------------------------------------------------
(* Collections.                                                            *)

\* One task at most has created the row, and if the row is new there is a task that has
\* tried to insert it, which never answers that it updated it.
CollectionInv ==
  /\ collectionRow \in BOOLEAN /\ rowBefore \in BOOLEAN
  /\ collectionAt \in
       [CollectionTasks -> {"start", "insert", "upsert", "created", "updated", "raised"}]
  /\ \A t \in CollectionTasks :
       /\ collectionAt[t] \in {"upsert", "created", "updated"} => collectionRow
       /\ collectionAt[t] \in {"insert", "created"} => ~rowBefore
  /\ \A t, u \in CollectionTasks : collectionAt[t] = "created" /\ collectionAt[u] = "created" => t = u
  /\ rowBefore => collectionRow
  /\ collectionRow =>
       rowBefore \/ \E t \in CollectionTasks : collectionAt[t] \in {"insert", "created", "raised"}

LEMMA CollectionInvInit ==
  ASSUME CollectionInit
  PROVE  CollectionInv
  BY DEF CollectionInit, CollectionInv

LEMMA CollectionInvStep ==
  ASSUME CollectionInv, [CollectionNext]_collectionVars
  PROVE  CollectionInv'
<1>1. ASSUME NEW t \in CollectionTasks, LookUpCollection(t)
      PROVE  CollectionInv'
  BY <1>1 DEF CollectionInv, LookUpCollection
<1>2. ASSUME NEW t \in CollectionTasks, LoadCollection(t)
      PROVE  CollectionInv'
  BY <1>2 DEF CollectionInv, LoadCollection
<1>3. ASSUME NEW t \in CollectionTasks, ConnectionBreaks(t)
      PROVE  CollectionInv'
  <2>1. /\ collectionAt[t] \in {"insert", "upsert"}
        /\ collectionRow' \in {collectionRow, TRUE} /\ rowBefore' = rowBefore
        /\ UNCHANGED collectionAt \/ collectionAt' = [collectionAt EXCEPT ![t] = "raised"]
    BY <1>3 DEF ConnectionBreaks
  <2>2. /\ collectionAt'[t] = collectionAt[t] \/ collectionAt'[t] = "raised"
        /\ \A u \in CollectionTasks : u # t => collectionAt'[u] = collectionAt[u]
        /\ collectionAt' \in
             [CollectionTasks -> {"start", "insert", "upsert", "created", "updated", "raised"}]
    BY <2>1 DEF CollectionInv
  <2>3. collectionAt[t] = "insert" => collectionAt'[t] \in {"insert", "raised"}
    BY <2>2
  <2>4. collectionRow' =>
          rowBefore' \/ \E u \in CollectionTasks : collectionAt'[u] \in {"insert", "created", "raised"}
    <3>1. CASE collectionAt[t] = "insert"
      BY <2>3, <3>1
    <3>2. CASE collectionAt[t] = "upsert"
      BY <2>1, <2>2, <3>2 DEF CollectionInv
    <3>3. QED
      BY <2>1, <3>1, <3>2
  <2>5. collectionRow' \in BOOLEAN /\ rowBefore' \in BOOLEAN /\ (collectionRow => collectionRow')
          /\ (rowBefore' => collectionRow')
    <3>1. /\ collectionRow \in BOOLEAN /\ rowBefore \in BOOLEAN
          /\ (rowBefore => collectionRow)
      BY DEF CollectionInv
    <3>2. CASE collectionRow' = TRUE
      BY <2>1, <3>1, <3>2
    <3>3. CASE collectionRow' = collectionRow
      BY <2>1, <3>1, <3>3
    <3>4. QED
      BY <2>1, <3>2, <3>3
  <2>6. \A u \in CollectionTasks :
          collectionAt'[u] \in {"upsert", "created", "updated", "insert"} => collectionAt'[u] = collectionAt[u]
    BY <2>2
  <2>7. \A u \in CollectionTasks :
          /\ collectionAt'[u] \in {"upsert", "created", "updated"} => collectionRow'
          /\ collectionAt'[u] \in {"insert", "created"} => ~rowBefore'
    BY <2>1, <2>5, <2>6 DEF CollectionInv
  <2>8. \A u, v \in CollectionTasks :
          collectionAt'[u] = "created" /\ collectionAt'[v] = "created" => u = v
    BY <2>6 DEF CollectionInv
  <2>9. QED
    BY <2>2, <2>4, <2>5, <2>7, <2>8 DEF CollectionInv
<1>4. CASE UNCHANGED collectionVars
  BY <1>4 DEF CollectionInv, collectionVars
<1>5. QED
  BY <1>1, <1>2, <1>3, <1>4 DEF CollectionNext

\* What the tasks have seen of the collection holds, however their requests interleave.
THEOREM CollectionInvInvariant == CollectionSpec => []CollectionInv
  BY CollectionInvInit, CollectionInvStep, PTL DEF CollectionSpec

\* However the look-ups and the loads of any number of tasks interleave and whatever is
\* repeated on a new connection, at most one says it created the collection.
THEOREM CreatedAtMostOnce == CollectionSpec => []CollectionCreatedOnce
<1>1. ASSUME CollectionInv
      PROVE  CollectionCreatedOnce
  <2> DEFINE Created == {t \in CollectionTasks : collectionAt[t] = "created"}
             Updated == {t \in CollectionTasks : collectionAt[t] = "updated"}
  <2>1. Cardinality(Created) <= (IF rowBefore THEN 0 ELSE 1)
    <3>1. CASE Created = {}
      BY <3>1, FS_EmptySet
    <3>2. CASE Created # {}
      <4>1. PICK t \in Created : TRUE
        BY <3>2
      <4>2. Created = {t} /\ ~rowBefore
        BY <1>1, <4>1 DEF CollectionInv
      <4>3. Cardinality(Created) = 1
        BY <4>2, FS_Singleton
      <4>4. QED
        BY <4>2, <4>3
    <3>3. QED
      BY <3>1, <3>2
  <2>2. Updated = CollectionTasks => rowBefore \/ CollectionTasks = {}
    BY <1>1 DEF CollectionInv
  <2>3. QED
    BY <2>1, <2>2 DEF CollectionCreatedOnce
<1>2. QED
  BY CollectionInvInvariant, <1>1, PTL


-----------------------------------------------------------------------------
(* DatasetPipeline: chunks                                                 *)

\* The n-th of c things in groups of s, counted from 0, is in one of the groups.
LEMMA DivFacts ==
  ASSUME NEW n \in Nat, NEW s \in Nat, 0 < s
  PROVE  /\ n \div s \in Nat
         /\ s * (n \div s) <= n /\ n < s * (n \div s) + s
OBVIOUS

LEMMA TimesGrows ==
  ASSUME NEW s \in Nat, NEW x \in Nat, NEW y \in Nat, x <= y
  PROVE  s * x <= s * y
<1>1. y - x \in Nat /\ s * (y - x) >= 0
  OBVIOUS
<1>2. s * y = s * x + s * (y - x)
  OBVIOUS
<1>3. s * x \in Nat /\ s * y \in Nat /\ s * (y - x) \in Nat
  BY <1>1
<1>4. QED
  BY <1>1, <1>2, <1>3

LEMMA GroupOfPlace ==
  ASSUME NEW n \in Nat, NEW c \in Nat, NEW s \in Nat, 0 < s, n < c
  PROVE  /\ n \div s \in Nat /\ (c + s - 1) \div s \in Nat
         /\ n \div s < (c + s - 1) \div s
<1> DEFINE m == c + s - 1
           q == n \div s
           r == m \div s
<1>1. m \in Nat /\ n + s <= m
  OBVIOUS
<1>2. q \in Nat /\ s * q <= n /\ n < s * q + s
  BY DivFacts
<1> HIDE DEF m, q
<1>3. r \in Nat /\ s * r <= m /\ m < s * r + s
  BY <1>1, DivFacts
<1> HIDE DEF r
<1>4. SUFFICES ASSUME r <= q
               PROVE  FALSE
  BY <1>2, <1>3 DEF m, q, r
<1>5. s * r <= s * q /\ s * r \in Nat /\ s * q \in Nat
  BY <1>2, <1>3, <1>4, TimesGrows
<1>6. QED
  BY <1>1, <1>2, <1>3, <1>5

LEMMA DatasetNumbers ==
  /\ NumAssets \in Nat /\ 0 < NumAssets /\ ChunkLength \in Nat /\ 0 < ChunkLength
  /\ InsertGroupSize \in Nat /\ 0 < InsertGroupSize /\ MaxFlows \in Nat /\ 0 < MaxFlows
  /\ Assets \subseteq Nat /\ Blank \notin Assets /\ Blank \in Nat /\ Chunks \subseteq Nat
  /\ IsFiniteSet(Chunks) /\ Cardinality(Chunks) \in Nat /\ IsFiniteSet(Assets)
<1>1. /\ NumAssets \in Nat /\ 0 < NumAssets /\ ChunkLength \in Nat /\ 0 < ChunkLength
      /\ InsertGroupSize \in Nat /\ 0 < InsertGroupSize /\ MaxFlows \in Nat /\ 0 < MaxFlows
  <2>1. \A x \in Nat \ {0} : x \in Nat /\ 0 < x
    OBVIOUS
  <2>2. QED
    BY <2>1, DatasetAssumption
<1>2. Assets \subseteq Nat /\ Blank \notin Assets /\ Blank \in Nat
  BY DEF Assets, Blank
<1>3. (NumAssets + ChunkLength - 1) \div ChunkLength \in Nat
  <2>1. NumAssets + ChunkLength - 1 \in Nat
    BY <1>1
  <2>2. QED
    BY <1>1, <2>1, DivFacts
<1>4. Chunks \subseteq Nat /\ IsFiniteSet(Chunks)
  <2> DEFINE k == (NumAssets + ChunkLength - 1) \div ChunkLength
  <2>1. k \in Nat
    BY <1>3
  <2> HIDE DEF k
  <2>2. 1..k \subseteq Nat /\ IsFiniteSet(1..k)
    BY <2>1, FS_Interval
  <2>3. QED
    BY <2>2 DEF k, Chunks
<1>5. IsFiniteSet(Assets)
  BY <1>1, FS_Interval DEF Assets
<1>6. Cardinality(Chunks) \in Nat
  BY <1>4, FS_CardinalityType
<1>7. QED
  BY <1>1, <1>2, <1>4, <1>5, <1>6

\* Every asset is in one chunk.
LEMMA ChunkOfAsset ==
  ASSUME NEW a \in Assets
  PROVE  \E c \in Chunks : a \in ChunkAssets(c)
<1> DEFINE n == a - 1
           q == n \div ChunkLength
<1>1. a \in Nat /\ n \in Nat /\ n < NumAssets
  BY DatasetNumbers DEF Assets
<1>2. q \in Nat /\ ChunkLength * q <= n /\ n < ChunkLength * q + ChunkLength
  <2> HIDE DEF n
  <2>1. QED
    BY <1>1, DatasetNumbers, DivFacts
<1>3. q < (NumAssets + ChunkLength - 1) \div ChunkLength
      /\ (NumAssets + ChunkLength - 1) \div ChunkLength \in Nat
  <2> HIDE DEF n
  <2>1. QED
    BY <1>1, DatasetNumbers, GroupOfPlace
<1> HIDE DEF q
<1>4. q + 1 \in Chunks
  <2> DEFINE k == (NumAssets + ChunkLength - 1) \div ChunkLength
  <2>1. q < k /\ k \in Nat
    BY <1>3
  <2> HIDE DEF k
  <2>2. q + 1 \in 1..k
    BY <1>2, <2>1
  <2>3. QED
    BY <2>2 DEF k, Chunks
<1>5. ((q + 1) - 1) * ChunkLength < a /\ a <= (q + 1) * ChunkLength
  <2>1. (q + 1) - 1 = q /\ q * ChunkLength = ChunkLength * q /\ ChunkLength \in Nat
        /\ (q + 1) * ChunkLength = ChunkLength * q + ChunkLength /\ ChunkLength * q \in Nat
    BY <1>2, DatasetNumbers
  <2>2. QED
    BY <1>1, <1>2, <2>1
<1>6. QED
  BY <1>4, <1>5 DEF ChunkAssets

LEMMA ChunksDisjoint ==
  ASSUME NEW c \in Chunks, NEW d \in Chunks, NEW a \in ChunkAssets(c), a \in ChunkAssets(d)
  PROVE  c = d
<1>1. /\ c \in Nat /\ d \in Nat /\ 1 <= c /\ 1 <= d /\ ChunkLength \in Nat /\ a \in Nat
  <2>1. ChunkLength \in Nat /\ (NumAssets + ChunkLength - 1) \div ChunkLength \in Nat
    <3>1. NumAssets + ChunkLength - 1 \in Nat /\ ChunkLength \in Nat /\ 0 < ChunkLength
      BY DatasetNumbers
    <3>2. QED
      BY <3>1, DivFacts
  <2>2. c \in Nat /\ d \in Nat
    BY DatasetNumbers
  <2>3. a \in Nat
    BY DatasetNumbers DEF ChunkAssets
  <2>4. QED
    BY <2>1, <2>2, <2>3 DEF Chunks
<1>2. ASSUME NEW x \in Nat, NEW y \in Nat, 1 <= x, 1 <= y, a <= x * ChunkLength, (y - 1) * ChunkLength < a
      PROVE  y <= x
  <2> SUFFICES ASSUME x < y
               PROVE  FALSE
    BY <1>2
  <2>1. y - 1 \in Nat /\ x <= y - 1
    BY <1>2
  <2> DEFINE z == y - 1
  <2>2. z \in Nat /\ x <= z /\ z * ChunkLength < a
    BY <1>2, <2>1
  <2> HIDE DEF z
  <2>3. ChunkLength * x <= ChunkLength * z
    BY <1>1, <2>2, TimesGrows
  <2>4. x * ChunkLength = ChunkLength * x /\ z * ChunkLength = ChunkLength * z
        /\ ChunkLength * x \in Nat /\ ChunkLength * z \in Nat
    BY <1>1, <1>2, <2>2
  <2>5. QED
    BY <1>1, <1>2, <2>2, <2>3, <2>4
<1>3. /\ (c - 1) * ChunkLength < a /\ a <= c * ChunkLength
      /\ (d - 1) * ChunkLength < a /\ a <= d * ChunkLength
  BY DEF ChunkAssets
<1>4. c <= d /\ d <= c
  BY <1>1, <1>2, <1>3
<1>5. QED
  BY <1>1, <1>4

-----------------------------------------------------------------------------
(* DatasetPipeline: the lines of the files                                 *)

ItemFiles == UNION {[places -> Assets] : places \in SUBSET Assets}

\* What create_items writes has a line for each asset that gave an item.
LEMMA ItemLinesFacts ==
  ASSUME NEW c \in Chunks, NEW out \in [ChunkAssets(c) -> Outcomes],
         \A a \in ChunkAssets(c) : out[a] # "invalid" /\ ResultOf(a, c, out) # {}
  PROVE  /\ ItemLines(c, out) \in ItemFiles
         /\ \A a \in ChunkAssets(c) :
              out[a] \in {"none", "raises", "left"} \/ (out[a] = "items" /\ a \in Range(ItemLines(c, out)))
<1> DEFINE result(a) == CHOOSE b \in ResultOf(a, c, out) : TRUE
           places == {b \in ChunkAssets(c) : out[result(b)] = "items"}
           lines == [a \in places |-> result(a)]
<1>1. ItemLines(c, out) = lines
  BY DEF ItemLines
<1>2. \A a \in ChunkAssets(c) : result(a) \in ResultOf(a, c, out) /\ result(a) \in ChunkAssets(c)
  BY DEF ResultOf
<1>3. ChunkAssets(c) \subseteq Assets
  BY DEF ChunkAssets
<1>4. lines \in ItemFiles
  <2>1. places \in SUBSET Assets /\ \A a \in places : result(a) \in Assets
    BY <1>2, <1>3
  <2> HIDE DEF places, result
  <2>2. lines \in [places -> Assets]
    BY <2>1
  <2>3. QED
    BY <2>1, <2>2 DEF ItemFiles
<1>5. ASSUME NEW a \in ChunkAssets(c), out[a] = "items"
      PROVE  a \in Range(lines)
  <2>1. a \in Nat
    BY <1>3, DatasetNumbers
  <2>2. ASSUME NEW b \in ResultOf(a, c, out)
        PROVE  b = a
    <3>1. b \in Nat /\ b <= a /\ \A x \in (b + 1)..a : out[x] = "raises"
      BY <1>3, DatasetNumbers DEF ResultOf
    <3>2. b < a => a \in (b + 1)..a
      BY <2>1, <3>1
    <3>3. QED
      BY <1>5, <2>1, <3>1, <3>2
  <2>3. result(a) = a
    BY <1>2, <2>2
  <2>4. a \in places
    BY <1>5, <2>3
  <2> HIDE DEF places, result
  <2>5. a \in DOMAIN lines /\ lines[a] = a
    BY <2>3, <2>4
  <2> HIDE DEF lines
  <2>6. QED
    BY <2>5 DEF Range
<1>6. \A a \in ChunkAssets(c) : out[a] \in {"none", "raises", "left", "items"}
  BY DEF Outcomes
<1> HIDE DEF lines
<1>7. QED
  BY <1>1, <1>4, <1>5, <1>6

Written(c) == itemLines[c] # {}

LEMMA FileLinesFacts ==
  ASSUME NEW c, Written(c), itemLines[c] \in SUBSET ItemFiles
  PROVE  /\ (DOMAIN FileLines(c)) \subseteq Assets \union {Blank}
         /\ \A p \in DOMAIN FileLines(c) : FileLines(c)[p] \in Assets \union {Blank}
<1> DEFINE lines == CHOOSE f \in itemLines[c] : TRUE
<1>1. lines \in ItemFiles
  BY DEF Written
<1>2. PICK places \in SUBSET Assets : lines \in [places -> Assets]
  BY <1>1 DEF ItemFiles
<1> HIDE DEF lines
<1>3. (DOMAIN lines) \subseteq Assets /\ \A p \in DOMAIN lines : lines[p] \in Assets
  BY <1>2
<1>4. FileLines(c) = IF DOMAIN lines = {} THEN [place \in {Blank} |-> Blank] ELSE lines
  BY DEF FileLines, lines
<1>5. QED
  BY <1>3, <1>4

LinesOf(files) == LET lines == CHOOSE f \in files : TRUE
                  IN  IF DOMAIN lines = {} THEN [place \in {Blank} |-> Blank] ELSE lines

\* A file of one version has the lines of it.
LEMMA LinesOfOne ==
  ASSUME NEW f
  PROVE  Range(f) \subseteq Range(LinesOf({f}))
<1>1. (CHOOSE x \in {f} : TRUE) = f
  OBVIOUS
<1>2. LinesOf({f}) = IF DOMAIN f = {} THEN [place \in {Blank} |-> Blank] ELSE f
  BY <1>1 DEF LinesOf
<1>3. DOMAIN f = {} => Range(f) = {}
  BY DEF Range
<1>4. QED
  BY <1>2, <1>3

FilesWritten(files) ==
  files \in Seq(Chunks) /\ \A i \in DOMAIN files : Written(files[i]) /\ itemLines[files[i]] \in SUBSET ItemFiles

\* A load that succeeds has every line of every file but the blank ones, and none has a blank one.
LEMMA LoadFacts ==
  ASSUME NEW files, FilesWritten(files), NEW load \in Loads(files)
  PROVE  /\ load.items \subseteq Assets
         /\ load.ok \in BOOLEAN
         /\ load.ok => \A i \in DOMAIN files : Range(FileLines(files[i])) \subseteq load.items \union {Blank}
<1> DEFINE L == Lines(files)
           T == TargetLines(files)
           Loaded(n) == UNION {Group(files, k) : k \in 1..n}
<1>1. PICK n \in 0..NumLoads(files) : /\ Blank \notin Loaded(n)
                                      /\ load = [ok |-> n = NumLoads(files), items |-> Loaded(n)]
  BY DEF Loads
<1>2. /\ load.items = Loaded(n) /\ (load.ok <=> n = NumLoads(files)) /\ load.ok \in BOOLEAN
  BY <1>1
<1>3. /\ files \in Seq(Chunks) /\ Len(files) \in Nat /\ DOMAIN files = 1..Len(files)
      /\ \A i \in DOMAIN files : /\ (DOMAIN FileLines(files[i])) \subseteq Assets \union {Blank}
                                 /\ \A p \in DOMAIN FileLines(files[i]) : FileLines(files[i])[p] \in Assets \union {Blank}
  BY FileLinesFacts, LenProperties DEF FilesWritten
<1>4. \A at \in L : LineAt(files, at) \in Assets \union {Blank} /\ at[1] \in Nat /\ at[2] \in Nat
  <2> SUFFICES ASSUME NEW at \in L
               PROVE  LineAt(files, at) \in Assets \union {Blank} /\ at[1] \in Nat /\ at[2] \in Nat
    OBVIOUS
  <2>1. at[1] \in DOMAIN files /\ at[2] \in Assets \union {Blank} /\ at[2] \in DOMAIN FileLines(files[at[1]])
    BY DEF Lines
  <2>2. at[1] \in Nat /\ at[2] \in Nat
    BY <1>3, <2>1, DatasetNumbers
  <2>3. QED
    BY <1>3, <2>1, <2>2 DEF LineAt
<1>5. T \subseteq L
  BY DEF TargetLines
<1>6. IsFiniteSet(T) /\ Cardinality(T) \in Nat
  <2>1. IsFiniteSet(1..Len(files)) /\ IsFiniteSet(Assets \union {Blank})
    BY <1>3, DatasetNumbers, FS_Interval, FS_AddElement
  <2>2. IsFiniteSet((1..Len(files)) \X (Assets \union {Blank}))
    BY <2>1, FS_Product
  <2>3. L \in SUBSET ((1..Len(files)) \X (Assets \union {Blank}))
    BY <1>3 DEF Lines
  <2>4. QED
    BY <1>5, <2>2, <2>3, FS_Subset, FS_CardinalityType
<1>7. load.items \subseteq Assets
  <2>1. \A k : Group(files, k) \subseteq Assets \union {Blank}
    BY <1>4, <1>5 DEF Group
  <2>2. QED
    BY <1>1, <1>2, <2>1
<1>8. ASSUME NEW at \in T
      PROVE  \E k \in 1..NumLoads(files) : LineAt(files, at) \in Group(files, k)
  <2> DEFINE earlier == {y \in T : IsBefore(y, at)}
             number == LineNumber(files, at)
  <2>1. ~IsBefore(at, at)
    BY <1>4, <1>5, <1>8 DEF IsBefore
  <2>2. earlier \in SUBSET (T \ {at})
    BY <2>1
  <2>3. number = Cardinality(earlier)
    BY DEF LineNumber
  <2>4. number \in Nat /\ number < Cardinality(T)
    <3> HIDE DEF earlier, number, T
    <3>1. IsFiniteSet(T \ {at}) /\ Cardinality(T \ {at}) = Cardinality(T) - 1
      BY <1>6, <1>8, FS_RemoveElement
    <3>2. IsFiniteSet(earlier) /\ Cardinality(earlier) <= Cardinality(T) - 1
      BY <2>2, <3>1, FS_Subset
    <3>3. Cardinality(earlier) \in Nat
      BY <3>2, FS_CardinalityType
    <3>4. QED
      BY <1>6, <2>3, <3>2, <3>3
  <2> DEFINE k == number \div InsertGroupSize
  <2>5. k \in Nat /\ NumLoads(files) \in Nat /\ k < NumLoads(files)
    <3> HIDE DEF number
    <3>1. QED
      BY <1>6, <2>4, DatasetNumbers, GroupOfPlace DEF NumLoads
  <2>6. k + 1 \in 1..NumLoads(files) /\ (k + 1) - 1 = k
    <3> HIDE DEF k
    <3>1. QED
      BY <2>5
  <2>7. LineAt(files, at) \in Group(files, k + 1)
    BY <2>6 DEF Group
  <2>8. QED
    BY <2>6, <2>7
<1>9. ASSUME load.ok, NEW i \in DOMAIN files, NEW p \in DOMAIN FileLines(files[i]), FileLines(files[i])[p] # Blank
      PROVE  FileLines(files[i])[p] \in load.items
  <2>1. <<i, p>> \in L /\ LineAt(files, <<i, p>>) = FileLines(files[i])[p]
    BY <1>3, <1>9 DEF Lines, LineAt
  <2>2. <<i, p>> \in T
    BY <1>9, <2>1 DEF TargetLines
  <2>3. PICK k \in 1..NumLoads(files) : FileLines(files[i])[p] \in Group(files, k)
    BY <1>8, <2>1, <2>2
  <2>4. QED
    BY <1>2, <1>9, <2>3
<1>10. ASSUME load.ok, NEW i \in DOMAIN files
       PROVE  Range(FileLines(files[i])) \subseteq load.items \union {Blank}
  BY <1>9, <1>10 DEF Range
<1>11. QED
  BY <1>2, <1>7, <1>10

-----------------------------------------------------------------------------
(* DatasetPipeline: the inductive invariant                                *)

\* A chunk whose items are made has them in its file, and one that is done in the database.
ChunkOK(c) ==
  /\ chunkAt[c] \in {"ingest", "done"} =>
       /\ Written(c)
       /\ \A a \in ChunkAssets(c) :
            outcome[a] \in {"none", "raises", "left"} \/ (outcome[a] = "items" /\ a \in Range(FileLines(c)))
  /\ chunkAt[c] = "done" => FileInDb(c)

\* A file of the folder that is not in the database is on its way, or named as failed.
FolderOK ==
  /\ folderAt # "off" => flowAt = "ended"
  /\ folderAt = "off" => preparing = {} /\ insertGroup = <<>> /\ failedFiles = {}
  /\ folderAt # "off" => \A c \in Chunks :
       c \in preparing \/ c \in ToSet(insertGroup) \/ c \in failedFiles \/ FileInDb(c)
  /\ \A c \in preparing \union ToSet(insertGroup) : Written(c)
  /\ folderAt = "returned" => preparing = {} /\ insertGroup = <<>> /\ failedFiles = {}
  /\ folderAt = "raised" /\ preparing = {} => insertGroup = <<>>

DatasetIInv == DatasetTypeOK /\ FolderOK /\ \A c \in Chunks : ChunkOK(c)

LEMMA DatasetTypes ==
  ASSUME DatasetIInv
  PROVE  /\ chunksWritten \in 0..Cardinality(Chunks) /\ flowNumber \in 1..MaxFlows
         /\ flowAt \in {"start", "chunks", "process", "ended"}
         /\ chunkAt \in [Chunks -> {"unlisted", "create", "ingest", "done", "failed"}]
         /\ outcome \in [Assets -> Outcomes \union {"unknown"}]
         /\ itemLines \in [Chunks -> SUBSET ItemFiles]
         /\ \A c \in Chunks : Cardinality(itemLines[c]) <= 1
         /\ inDb \subseteq Assets /\ folderAt \in {"off", "running", "returned", "raised"}
         /\ preparing \subseteq Chunks /\ insertGroup \in Seq(Chunks) /\ failedFiles \subseteq Chunks
         /\ FolderOK /\ \A c \in Chunks : ChunkOK(c)
BY DEF DatasetIInv, DatasetTypeOK, ItemFiles

LEMMA FileKept ==
  ASSUME itemLines' = itemLines, inDb \subseteq inDb', NEW c
  PROVE  /\ FileLines(c)' = FileLines(c) /\ (Written(c)' <=> Written(c))
         /\ FileInDb(c) => FileInDb(c)'
<1>1. FileLines(c)' = FileLines(c)
  BY DEF FileLines
<1>2. QED
  BY <1>1 DEF FileInDb, Written

LEMMA ChunkKept ==
  ASSUME NEW c, ChunkOK(c), itemLines' = itemLines, outcome' = outcome, inDb \subseteq inDb',
         chunkAt'[c] = chunkAt[c] \/ chunkAt'[c] \in {"create", "unlisted", "failed"}
  PROVE  ChunkOK(c)'
<1>1. /\ FileLines(c)' = FileLines(c) /\ (Written(c)' <=> Written(c))
      /\ FileInDb(c) => FileInDb(c)'
  BY FileKept
<1>2. QED
  BY <1>1 DEF ChunkOK

LEMMA DatasetInitOK == DatasetInit => DatasetIInv
<1> SUFFICES ASSUME DatasetInit
             PROVE  DatasetIInv
  OBVIOUS
<1>1. /\ chunksWritten = 0 /\ flowNumber = 1 /\ flowAt = "start"
      /\ chunkAt = [c \in Chunks |-> "unlisted"]
      /\ outcome = [a \in Assets |-> "unknown"]
      /\ itemLines = [c \in Chunks |-> {}]
      /\ inDb = {} /\ folderAt = "off" /\ preparing = {} /\ insertGroup = <<>> /\ failedFiles = {}
  BY DEF DatasetInit
<1>2. 0 \in 0..Cardinality(Chunks) /\ 1 \in 1..MaxFlows
  BY DatasetNumbers
<1>3. insertGroup \in Seq(Chunks) /\ ToSet(insertGroup) = {}
  BY <1>1, EmptySeq DEF ToSet
<1>4. DatasetTypeOK
  <2>1. \A c \in Chunks : Cardinality(itemLines[c]) <= 1
    <3>1. Cardinality({}) = 0
      BY FS_EmptySet
    <3>2. \A c \in Chunks : itemLines[c] = {}
      BY <1>1
    <3>3. QED
      BY <3>1, <3>2
  <2>2. itemLines \in [Chunks -> SUBSET ItemFiles]
    BY <1>1
  <2>3. QED
    BY <1>1, <1>2, <1>3, <2>1, <2>2 DEF DatasetTypeOK, ItemFiles
<1>5. FolderOK
  BY <1>1, <1>3 DEF FolderOK
<1>6. \A c \in Chunks : ChunkOK(c)
  BY <1>1 DEF ChunkOK
<1>7. QED
  BY <1>4, <1>5, <1>6 DEF DatasetIInv

\* A step of the workflow that makes no items
LEMMA FlowStepOK ==
  ASSUME DatasetIInv, folderAt = "off", outcome' = outcome, itemLines' = itemLines, inDb' = inDb,
         folderAt' = folderAt, preparing' = preparing, insertGroup' = insertGroup, failedFiles' = failedFiles,
         chunksWritten' \in 0..Cardinality(Chunks), flowNumber' \in 1..MaxFlows,
         flowAt' \in {"start", "chunks", "process", "ended"},
         chunkAt' \in [Chunks -> {"unlisted", "create", "ingest", "done", "failed"}],
         \A c \in Chunks : chunkAt'[c] = chunkAt[c] \/ chunkAt'[c] \in {"create", "unlisted"}
  PROVE  DatasetIInv'
<1>1. DatasetTypeOK'
  BY DatasetTypes DEF DatasetTypeOK, ItemFiles
<1>2. \A c \in Chunks : ChunkOK(c)'
  BY ChunkKept, DatasetTypes
<1>3. FolderOK'
  <2>1. preparing = {} /\ insertGroup = <<>> /\ failedFiles = {}
    BY DatasetTypes DEF FolderOK
  <2>2. ToSet(<<>>) = {}
    BY EmptySeq DEF ToSet
  <2>3. preparing' = {} /\ insertGroup' = <<>> /\ ToSet(insertGroup') = {}
    BY <2>1, <2>2
  <2>4. QED
    BY <2>1, <2>3 DEF FolderOK
<1>4. QED
  BY <1>1, <1>2, <1>3 DEF DatasetIInv

LEMMA FlowOK ==
  ASSUME DatasetIInv,
         WriteChunk \/ ChunksCreated \/ ChunksRaise \/ ListChunks \/ EndFlow \/ RunAgain
  PROVE  DatasetIInv'
<1>1. folderAt # "off" => flowAt = "ended"
  BY DatasetTypes DEF FolderOK
<1>2. CASE WriteChunk
  <2>1. /\ flowAt \in {"start", "chunks"} /\ chunksWritten < Cardinality(Chunks)
        /\ chunksWritten' = chunksWritten + 1 /\ flowAt' = "chunks" /\ flowNumber' = flowNumber
        /\ chunkAt' = chunkAt /\ outcome' = outcome /\ itemLines' = itemLines /\ inDb' = inDb
        /\ folderAt' = folderAt /\ preparing' = preparing /\ insertGroup' = insertGroup /\ failedFiles' = failedFiles
    BY <1>2 DEF WriteChunk, folderOf
  <2>2. chunksWritten' \in 0..Cardinality(Chunks)
    <3>1. Cardinality(Chunks) \in Nat /\ chunksWritten \in 0..Cardinality(Chunks)
      BY DatasetNumbers, DatasetTypes
    <3>2. QED
      BY <2>1, <3>1
  <2>3. folderAt = "off"
    BY <1>1, <2>1
  <2>4. QED
    BY <2>1, <2>2, <2>3, DatasetTypes, FlowStepOK
<1>3. ASSUME NEW chunks, List(chunks), flowAt \in {"start", "chunks"}
      PROVE  DatasetIInv'
  <2>1. /\ chunkAt' = [c \in Chunks |-> IF c \in chunks THEN "create" ELSE "unlisted"]
        /\ flowAt' = "process" /\ chunksWritten' = chunksWritten /\ flowNumber' = flowNumber
        /\ outcome' = outcome /\ itemLines' = itemLines /\ inDb' = inDb
        /\ folderAt' = folderAt /\ preparing' = preparing /\ insertGroup' = insertGroup /\ failedFiles' = failedFiles
    BY <1>3 DEF List, folderOf, filesOf
  <2>2. /\ chunkAt' \in [Chunks -> {"unlisted", "create", "ingest", "done", "failed"}]
        /\ \A c \in Chunks : chunkAt'[c] \in {"create", "unlisted"}
    BY <2>1
  <2>3. folderAt = "off"
    BY <1>1, <1>3
  <2>4. QED
    BY <2>1, <2>2, <2>3, DatasetTypes, FlowStepOK
<1>4. CASE ChunksRaise \/ EndFlow
  <2>1. /\ flowAt # "ended" /\ flowAt' = "ended" /\ chunksWritten' = chunksWritten /\ flowNumber' = flowNumber
        /\ chunkAt' = chunkAt /\ outcome' = outcome /\ itemLines' = itemLines /\ inDb' = inDb
        /\ folderAt' = folderAt /\ preparing' = preparing /\ insertGroup' = insertGroup /\ failedFiles' = failedFiles
    BY <1>4 DEF ChunksRaise, EndFlow, folderOf, filesOf
  <2>2. folderAt = "off"
    BY <1>1, <2>1
  <2>3. QED
    BY <2>1, <2>2, DatasetTypes, FlowStepOK
<1>5. CASE RunAgain
  <2>1. /\ folderAt = "off" /\ flowNumber < MaxFlows /\ flowNumber' = flowNumber + 1 /\ flowAt' = "start"
        /\ chunkAt' = [c \in Chunks |-> "unlisted"] /\ chunksWritten' = chunksWritten
        /\ outcome' = outcome /\ itemLines' = itemLines /\ inDb' = inDb
        /\ folderAt' = folderAt /\ preparing' = preparing /\ insertGroup' = insertGroup /\ failedFiles' = failedFiles
    BY <1>5 DEF RunAgain, folderOf, filesOf
  <2>2. flowNumber' \in 1..MaxFlows
    <3>1. MaxFlows \in Nat /\ flowNumber \in 1..MaxFlows
      BY DatasetNumbers, DatasetTypes
    <3>2. QED
      BY <2>1, <3>1
  <2>3. /\ chunkAt' \in [Chunks -> {"unlisted", "create", "ingest", "done", "failed"}]
        /\ \A c \in Chunks : chunkAt'[c] \in {"create", "unlisted"}
    BY <2>1
  <2>4. QED
    BY <2>1, <2>2, <2>3, DatasetTypes, FlowStepOK
<1>6. CASE ChunksCreated
  BY <1>3, <1>6 DEF ChunksCreated
<1>7. CASE ListChunks
  BY <1>3, <1>7 DEF ListChunks
<1>8. QED
  BY <1>2, <1>4, <1>5, <1>6, <1>7

\* The chunks are apart: no other one's assets change.
LEMMA CreateItemsOK ==
  ASSUME DatasetIInv, NEW c \in Chunks, CreateItems(c)
  PROVE  DatasetIInv'
<1>1. PICK out : /\ out \in [ChunkAssets(c) -> Outcomes]
                 /\ outcome' = [a \in Assets |-> IF a \in ChunkAssets(c) THEN out[a] ELSE outcome[a]]
                 /\ IF \E a \in ChunkAssets(c) : out[a] = "invalid" \/ ResultOf(a, c, out) = {}
                    THEN chunkAt' = [chunkAt EXCEPT ![c] = "failed"] /\ itemLines' = itemLines
                    ELSE /\ chunkAt' = [chunkAt EXCEPT ![c] = "ingest"]
                         /\ itemLines' = [itemLines EXCEPT ![c] = {ItemLines(c, out)}]
  BY DEF CreateItems, Calls
<1>2. /\ flowAt = "process" /\ flowAt' = flowAt /\ flowNumber' = flowNumber /\ chunksWritten' = chunksWritten
      /\ inDb' = inDb /\ folderAt' = folderAt /\ preparing' = preparing /\ insertGroup' = insertGroup
      /\ failedFiles' = failedFiles
  BY DEF CreateItems, folderOf
<1>3. /\ folderAt = "off" /\ preparing = {} /\ insertGroup = <<>> /\ failedFiles = {}
  BY <1>2, DatasetTypes DEF FolderOK
<1>4. FolderOK'
  <2>1. ToSet(<<>>) = {}
    BY EmptySeq DEF ToSet
  <2>2. preparing' = {} /\ insertGroup' = <<>> /\ ToSet(insertGroup') = {}
    BY <1>2, <1>3, <2>1
  <2>3. QED
    BY <1>2, <1>3, <2>2 DEF FolderOK
<1>5. ChunkAssets(c) \subseteq Assets
  BY DEF ChunkAssets
<1>6. outcome' \in [Assets -> Outcomes \union {"unknown"}]
  BY <1>1, <1>5, DatasetTypes
<1>7. /\ \A a \in ChunkAssets(c) : outcome'[a] = out[a]
      /\ \A d \in Chunks \ {c} : \A a \in ChunkAssets(d) : outcome'[a] = outcome[a]
  <2>1. \A d \in Chunks \ {c} : \A a \in ChunkAssets(d) : a \notin ChunkAssets(c) /\ a \in Assets
    BY ChunksDisjoint DEF ChunkAssets
  <2>2. QED
    BY <1>1, <1>5, <2>1
<1>8. CASE \E a \in ChunkAssets(c) : out[a] = "invalid" \/ ResultOf(a, c, out) = {}
  <2>1. chunkAt' = [chunkAt EXCEPT ![c] = "failed"] /\ itemLines' = itemLines
    BY <1>1, <1>8
  <2>2. DatasetTypeOK'
    <3>1. chunkAt' \in [Chunks -> {"unlisted", "create", "ingest", "done", "failed"}]
      BY <2>1, DatasetTypes
    <3>2. QED
      BY <1>2, <1>6, <2>1, <3>1, DatasetTypes DEF DatasetTypeOK, ItemFiles
  <2>3. chunkAt'[c] = "failed" /\ \A d \in Chunks \ {c} : chunkAt'[d] = chunkAt[d]
    BY <2>1, DatasetTypes
  <2>4. ASSUME NEW d \in Chunks
        PROVE  ChunkOK(d)'
    <3>1. CASE d = c
      BY <2>3, <3>1 DEF ChunkOK
    <3>2. CASE d # c
      <4>1. FileLines(d)' = FileLines(d) /\ (Written(d)' <=> Written(d)) /\ (FileInDb(d) => FileInDb(d)')
        BY <1>2, <2>1, FileKept
      <4>2. ChunkOK(d) /\ chunkAt'[d] = chunkAt[d] /\ \A a \in ChunkAssets(d) : outcome'[a] = outcome[a]
        BY <1>7, <2>3, <3>2, DatasetTypes
      <4>3. QED
        BY <4>1, <4>2 DEF ChunkOK
    <3>3. QED
      BY <3>1, <3>2
  <2>5. QED
    BY <1>4, <2>2, <2>4 DEF DatasetIInv
<1>9. CASE ~\E a \in ChunkAssets(c) : out[a] = "invalid" \/ ResultOf(a, c, out) = {}
  <2> DEFINE lines == ItemLines(c, out)
  <2>1. chunkAt' = [chunkAt EXCEPT ![c] = "ingest"] /\ itemLines' = [itemLines EXCEPT ![c] = {lines}]
    BY <1>1, <1>9
  <2>2. /\ lines \in ItemFiles
        /\ \A a \in ChunkAssets(c) : out[a] \in {"none", "raises", "left"} \/ (out[a] = "items" /\ a \in Range(lines))
    BY <1>1, <1>9, ItemLinesFacts
  <2> HIDE DEF lines
  <2>3. /\ itemLines'[c] = {lines} /\ chunkAt'[c] = "ingest"
        /\ \A d \in Chunks \ {c} : itemLines'[d] = itemLines[d] /\ chunkAt'[d] = chunkAt[d]
    BY <2>1, DatasetTypes
  <2>4. DatasetTypeOK'
    <3>1. chunkAt' \in [Chunks -> {"unlisted", "create", "ingest", "done", "failed"}]
      BY <2>1, DatasetTypes
    <3>2. itemLines' \in [Chunks -> SUBSET ItemFiles]
      <4> DEFINE S == SUBSET ItemFiles
      <4>1. {lines} \in S /\ itemLines \in [Chunks -> S]
        BY <2>2, DatasetTypes
      <4> HIDE DEF S
      <4>2. itemLines' \in [Chunks -> S]
        BY <2>1, <4>1
      <4>3. QED
        BY <4>2 DEF S
    <3>3. \A d \in Chunks : Cardinality(itemLines'[d]) <= 1
      <4>1. Cardinality({lines}) = 1
        BY FS_Singleton
      <4>2. Cardinality({lines}) <= 1
        BY <4>1
      <4>3. itemLines'[c] = {lines} /\ \A d \in Chunks \ {c} : Cardinality(itemLines'[d]) <= 1
        BY <2>3, DatasetTypes
      <4>4. QED
        BY <4>2, <4>3
    <3>4. QED
      BY <1>2, <1>6, <3>1, <3>2, <3>3, DatasetTypes DEF DatasetTypeOK, ItemFiles
  <2>5. ASSUME NEW d \in Chunks
        PROVE  ChunkOK(d)'
    <3>1. CASE d = c
      <4>1. Range(lines) \subseteq Range(FileLines(c))'
        <5>1. FileLines(c)' = LinesOf(itemLines'[c])
          BY DEF FileLines, LinesOf
        <5>2. QED
          BY <2>3, <5>1, LinesOfOne
      <4>2. Written(c)'
        BY <2>3 DEF Written
      <4>3. \A a \in ChunkAssets(c) :
              outcome'[a] \in {"none", "raises", "left"} \/ (outcome'[a] = "items" /\ a \in Range(FileLines(c))')
        BY <1>7, <2>2, <4>1
      <4>4. ChunkOK(c)'
        BY <2>3, <4>2, <4>3 DEF ChunkOK
      <4>5. QED
        BY <3>1, <4>4
    <3>2. CASE d # c
      <4>1. itemLines'[d] = itemLines[d]
        BY <2>3, <3>2
      <4>2. FileLines(d)' = FileLines(d) /\ (Written(d)' <=> Written(d))
        BY <4>1 DEF FileLines, Written
      <4>3. FileInDb(d) => FileInDb(d)'
        BY <1>2, <4>1, <4>2 DEF FileInDb
      <4>4. ChunkOK(d) /\ chunkAt'[d] = chunkAt[d] /\ \A a \in ChunkAssets(d) : outcome'[a] = outcome[a]
        BY <1>7, <2>3, <3>2, DatasetTypes
      <4>5. QED
        BY <4>2, <4>3, <4>4 DEF ChunkOK
    <3>3. QED
      BY <3>1, <3>2
  <2>6. QED
    BY <1>4, <2>4, <2>5 DEF DatasetIInv
<1>10. QED
  BY <1>8, <1>9

LEMMA IngestItemsOK ==
  ASSUME DatasetIInv, NEW c \in Chunks, IngestItems(c)
  PROVE  DatasetIInv'
<1> DEFINE files == <<c>>
<1>1. PICK load \in Loads(files) :
        /\ inDb' = inDb \union load.items
        /\ chunkAt' = [chunkAt EXCEPT ![c] = IF load.ok THEN "done" ELSE "failed"]
  BY DEF IngestItems
<1>2. /\ flowAt = "process" /\ chunkAt[c] = "ingest" /\ flowAt' = flowAt /\ flowNumber' = flowNumber
      /\ chunksWritten' = chunksWritten /\ outcome' = outcome /\ itemLines' = itemLines /\ folderAt' = folderAt
      /\ preparing' = preparing /\ insertGroup' = insertGroup /\ failedFiles' = failedFiles
  BY DEF IngestItems, filesOf, folderOf
<1>3. /\ folderAt = "off" /\ preparing = {} /\ insertGroup = <<>> /\ failedFiles = {}
  BY <1>2, DatasetTypes DEF FolderOK
<1>4. /\ Written(c)
      /\ \A a \in ChunkAssets(c) :
           outcome[a] \in {"none", "raises", "left"} \/ (outcome[a] = "items" /\ a \in Range(FileLines(c)))
  BY <1>2, DatasetTypes DEF ChunkOK
<1>5. files \in Seq(Chunks) /\ DOMAIN files = {1} /\ files[1] = c
  OBVIOUS
<1>6. FilesWritten(files)
  BY <1>4, <1>5, DatasetTypes DEF FilesWritten
<1>7. /\ load.items \subseteq Assets /\ load.ok \in BOOLEAN
      /\ load.ok => Range(FileLines(c)) \subseteq load.items \union {Blank}
  <2> HIDE DEF files
  <2>1. QED
    BY <1>5, <1>6, LoadFacts
<1> HIDE DEF files
<1>8. /\ chunkAt'[c] = IF load.ok THEN "done" ELSE "failed"
      /\ \A d \in Chunks \ {c} : chunkAt'[d] = chunkAt[d]
      /\ chunkAt' \in [Chunks -> {"unlisted", "create", "ingest", "done", "failed"}]
  BY <1>1, DatasetTypes
<1>9. inDb \subseteq inDb' /\ inDb' \subseteq Assets
  BY <1>1, <1>7, DatasetTypes
<1>10. DatasetTypeOK'
  BY <1>2, <1>8, <1>9, DatasetTypes DEF DatasetTypeOK, ItemFiles
<1>11. FolderOK'
  <2>1. ToSet(<<>>) = {}
    BY EmptySeq DEF ToSet
  <2>2. preparing' = {} /\ insertGroup' = <<>> /\ ToSet(insertGroup') = {}
    BY <1>2, <1>3, <2>1
  <2>3. QED
    BY <1>2, <1>3, <2>2 DEF FolderOK
<1>12. ASSUME NEW d \in Chunks
       PROVE  ChunkOK(d)'
  <2>1. CASE d # c
    BY <1>2, <1>8, <1>9, <2>1, ChunkKept, DatasetTypes
  <2>2. CASE d = c
    <3>1. FileLines(c)' = FileLines(c) /\ (Written(c)' <=> Written(c))
      BY <1>2, <1>9, FileKept
    <3>2. load.ok => FileInDb(c)'
      BY <1>1, <1>7, <3>1 DEF FileInDb
    <3>3. ChunkOK(c)'
      BY <1>2, <1>4, <1>8, <3>1, <3>2 DEF ChunkOK
    <3>4. QED
      BY <2>2, <3>3
  <2>3. QED
    BY <2>1, <2>2
<1>13. QED
  BY <1>10, <1>11, <1>12 DEF DatasetIInv

-----------------------------------------------------------------------------
(* DatasetPipeline: the ingest of a folder                                 *)

\* A flush has the lines of its files in the database, or names all of them as failed.
LEMMA FlushFacts ==
  ASSUME DatasetIInv, NEW files, FilesWritten(files), Flush(files), itemLines' = itemLines
  PROVE  /\ inDb \subseteq inDb' /\ inDb' \subseteq Assets
         /\ failedFiles \subseteq failedFiles' /\ failedFiles' \subseteq Chunks
         /\ insertGroup' = <<>>
         /\ \A c \in ToSet(files) : c \in failedFiles' \/ FileInDb(c)'
<1>1. PICK load \in Loads(files) :
        /\ inDb' = inDb \union load.items
        /\ failedFiles' = IF load.ok THEN failedFiles ELSE failedFiles \union ToSet(files)
  BY DEF Flush
<1>2. /\ load.items \subseteq Assets
      /\ load.ok => \A i \in DOMAIN files : Range(FileLines(files[i])) \subseteq load.items \union {Blank}
  BY LoadFacts
<1>3. ToSet(files) \subseteq Chunks /\ \A c \in ToSet(files) : \E i \in DOMAIN files : c = files[i]
  BY ElementOfSeq, LenProperties DEF ToSet, FilesWritten
<1>4. inDb \subseteq inDb' /\ inDb' \subseteq Assets
  BY <1>1, <1>2, DatasetTypes
<1>5. failedFiles \subseteq failedFiles' /\ failedFiles' \subseteq Chunks
  BY <1>1, <1>3, DatasetTypes
<1>6. ASSUME load.ok, NEW c \in ToSet(files)
      PROVE  FileInDb(c)'
  <2>1. FileLines(c)' = FileLines(c)
    BY <1>4, FileKept
  <2>2. Range(FileLines(c)) \subseteq load.items \union {Blank}
    BY <1>2, <1>3, <1>6
  <2>3. QED
    BY <1>1, <2>1, <2>2 DEF FileInDb
<1>7. insertGroup' = <<>>
  BY DEF Flush
<1>8. QED
  BY <1>1, <1>4, <1>5, <1>6, <1>7

\* A step of the folder's ingest leaves the workflow's chunks as they are.
LEMMA FolderStepOK ==
  ASSUME DatasetIInv, flowNumber' = flowNumber, flowAt' = flowAt, chunkAt' = chunkAt,
         chunksWritten' = chunksWritten, outcome' = outcome, itemLines' = itemLines,
         inDb \subseteq inDb', inDb' \subseteq Assets,
         folderAt' \in {"off", "running", "returned", "raised"},
         preparing' \subseteq Chunks, insertGroup' \in Seq(Chunks), failedFiles' \subseteq Chunks,
         FolderOK'
  PROVE  DatasetIInv'
<1>1. DatasetTypeOK'
  BY DatasetTypes DEF DatasetTypeOK, ItemFiles
<1>2. \A c \in Chunks : ChunkOK(c)'
  BY ChunkKept, DatasetTypes
<1>3. QED
  BY <1>1, <1>2 DEF DatasetIInv

LEMMA EmptyToSet == ToSet(<<>>) = {} /\ \A S : <<>> \in Seq(S)
BY EmptySeq DEF ToSet

LEMMA FolderStartsOK ==
  ASSUME DatasetIInv, FolderStarts
  PROVE  DatasetIInv'
<1>1. /\ flowAt = "ended" /\ folderAt = "off" /\ preparing' = {c \in Chunks : itemLines[c] # {}}
      /\ folderAt' = "running" /\ insertGroup' = insertGroup /\ failedFiles' = failedFiles
      /\ flowNumber' = flowNumber /\ flowAt' = flowAt /\ chunkAt' = chunkAt
      /\ chunksWritten' = chunksWritten /\ outcome' = outcome /\ itemLines' = itemLines /\ inDb' = inDb
  BY DEF FolderStarts, flowOf, filesOf
<1>2. insertGroup = <<>> /\ failedFiles = {}
  BY <1>1, DatasetTypes DEF FolderOK
<1>3. ToSet(insertGroup') = {}
  BY <1>1, <1>2, EmptyToSet
<1>4. /\ \A c \in Chunks : c \in preparing' \/ FileInDb(c)'
      /\ \A c \in preparing' : Written(c)'
  BY <1>1 DEF FileInDb, Written
<1>5. FolderOK'
  BY <1>1, <1>3, <1>4 DEF FolderOK
<1>6. preparing' \subseteq Chunks /\ insertGroup' \in Seq(Chunks) /\ failedFiles' \subseteq Chunks
  BY <1>1, DatasetTypes
<1>7. QED
  BY <1>1, <1>5, <1>6, DatasetTypes, FolderStepOK

LEMMA FileReadyOK ==
  ASSUME DatasetIInv, NEW c \in Chunks, FileReady(c)
  PROVE  DatasetIInv'
<1> DEFINE files == Append(insertGroup, c)
<1>1. /\ folderAt = "running" /\ c \in preparing /\ preparing' = preparing \ {c} /\ folderAt' = folderAt
      /\ flowNumber' = flowNumber /\ flowAt' = flowAt /\ chunkAt' = chunkAt
      /\ chunksWritten' = chunksWritten /\ outcome' = outcome /\ itemLines' = itemLines
      /\ Flush(files) \/ (insertGroup' = files /\ inDb' = inDb /\ failedFiles' = failedFiles)
  BY DEF FileReady, flowOf, filesOf
<1>2. /\ flowAt = "ended"
      /\ \A d \in Chunks : d \in preparing \/ d \in ToSet(insertGroup) \/ d \in failedFiles \/ FileInDb(d)
      /\ \A d \in preparing \union ToSet(insertGroup) : Written(d)
  BY <1>1, DatasetTypes DEF FolderOK
<1>3. /\ insertGroup \in Seq(Chunks) /\ files \in Seq(Chunks) /\ ToSet(files) = ToSet(insertGroup) \union {c}
  <2>1. insertGroup \in Seq(Chunks) /\ Len(insertGroup) \in Nat /\ DOMAIN insertGroup = 1..Len(insertGroup)
    BY DatasetTypes, LenProperties
  <2>2. /\ files \in Seq(Chunks) /\ Len(files) = Len(insertGroup) + 1 /\ DOMAIN files = 1..(Len(insertGroup) + 1)
        /\ files[Len(insertGroup) + 1] = c
        /\ \A i \in 1..Len(insertGroup) : files[i] = insertGroup[i]
    BY <2>1, AppendProperties
  <2> HIDE DEF files
  <2>3. ASSUME NEW x
        PROVE  (\E i \in DOMAIN files : x = files[i]) <=> x = c \/ \E i \in DOMAIN insertGroup : x = insertGroup[i]
    <3>1. \A i \in DOMAIN files : i \in DOMAIN insertGroup \/ i = Len(insertGroup) + 1
      BY <2>1, <2>2
    <3>2. (DOMAIN insertGroup) \subseteq (DOMAIN files) /\ Len(insertGroup) + 1 \in DOMAIN files
      BY <2>1, <2>2
    <3>3. QED
      BY <2>1, <2>2, <3>1, <3>2
  <2>4. QED
    BY <2>1, <2>2, <2>3 DEF ToSet
<1> HIDE DEF files
<1>4. preparing' \subseteq Chunks /\ preparing' \union {c} = preparing
  BY <1>1, DatasetTypes
<1>5. \A d : Written(d)' <=> Written(d)
  BY <1>1 DEF Written
<1>6. CASE insertGroup' = files /\ inDb' = inDb /\ failedFiles' = failedFiles
  <2>1. \A d : FileInDb(d) => FileInDb(d)'
    BY <1>1, <1>6, FileKept
  <2>2. ToSet(insertGroup') = ToSet(insertGroup) \union {c}
    BY <1>3, <1>6
  <2>3. FolderOK'
    BY <1>1, <1>2, <1>4, <1>5, <1>6, <2>1, <2>2 DEF FolderOK
  <2>4. insertGroup' \in Seq(Chunks) /\ failedFiles' \subseteq Chunks /\ inDb \subseteq inDb' /\ inDb' \subseteq Assets
    BY <1>3, <1>6, DatasetTypes
  <2>5. QED
    BY <1>1, <1>4, <2>3, <2>4, FolderStepOK
<1>7. CASE Flush(files)
  <2>1. FilesWritten(files)
    <3>1. \A i \in DOMAIN files : files[i] \in ToSet(files)
      BY DEF ToSet
    <3>2. \A d \in ToSet(files) : Written(d)
      BY <1>1, <1>2, <1>3
    <3>3. \A i \in DOMAIN files : files[i] \in Chunks
      BY <1>3, ElementOfSeq, LenProperties
    <3>4. QED
      BY <1>3, <3>1, <3>2, <3>3, DatasetTypes DEF FilesWritten
  <2>2. /\ inDb \subseteq inDb' /\ inDb' \subseteq Assets
        /\ failedFiles \subseteq failedFiles' /\ failedFiles' \subseteq Chunks
        /\ insertGroup' = <<>>
        /\ \A d \in ToSet(files) : d \in failedFiles' \/ FileInDb(d)'
    BY <1>1, <1>7, <2>1, FlushFacts
  <2>3. \A d : FileInDb(d) => FileInDb(d)'
    BY <1>1, <2>2, FileKept
  <2>4. ToSet(insertGroup') = {} /\ insertGroup' \in Seq(Chunks)
    BY <2>2, EmptyToSet
  <2>5. \A d \in Chunks : d \in preparing' \/ d \in failedFiles' \/ FileInDb(d)'
    BY <1>2, <1>3, <1>4, <2>2, <2>3
  <2>6. FolderOK'
    BY <1>1, <1>2, <1>4, <1>5, <2>2, <2>4, <2>5 DEF FolderOK
  <2>7. QED
    BY <1>1, <1>4, <2>2, <2>4, <2>6, FolderStepOK
<1>8. QED
  BY <1>1, <1>6, <1>7

LEMMA FlushRestOK ==
  ASSUME DatasetIInv, FlushRest
  PROVE  DatasetIInv'
<1>1. /\ folderAt = "running" /\ preparing = {} /\ Flush(insertGroup) /\ folderAt' = folderAt
      /\ preparing' = preparing /\ flowNumber' = flowNumber /\ flowAt' = flowAt /\ chunkAt' = chunkAt
      /\ chunksWritten' = chunksWritten /\ outcome' = outcome /\ itemLines' = itemLines
  BY DEF FlushRest, flowOf, filesOf
<1>2. /\ flowAt = "ended"
      /\ \A d \in Chunks : d \in ToSet(insertGroup) \/ d \in failedFiles \/ FileInDb(d)
      /\ \A d \in ToSet(insertGroup) : Written(d)
  BY <1>1, DatasetTypes DEF FolderOK
<1>3. FilesWritten(insertGroup)
  <2>1. insertGroup \in Seq(Chunks) /\ \A i \in DOMAIN insertGroup : insertGroup[i] \in ToSet(insertGroup)
    BY DatasetTypes DEF ToSet
  <2>2. \A i \in DOMAIN insertGroup : insertGroup[i] \in Chunks
    BY <2>1, ElementOfSeq, LenProperties
  <2>3. QED
    BY <1>2, <2>1, <2>2, DatasetTypes DEF FilesWritten
<1>4. /\ inDb \subseteq inDb' /\ inDb' \subseteq Assets
      /\ failedFiles \subseteq failedFiles' /\ failedFiles' \subseteq Chunks
      /\ insertGroup' = <<>>
      /\ \A d \in ToSet(insertGroup) : d \in failedFiles' \/ FileInDb(d)'
  BY <1>1, <1>3, FlushFacts
<1>5. \A d : FileInDb(d) => FileInDb(d)'
  BY <1>1, <1>4, FileKept
<1>6. ToSet(insertGroup') = {} /\ insertGroup' \in Seq(Chunks)
  BY <1>4, EmptyToSet
<1>7. \A d \in Chunks : d \in failedFiles' \/ FileInDb(d)'
  BY <1>2, <1>4, <1>5
<1>8. FolderOK'
  BY <1>1, <1>2, <1>6, <1>7 DEF FolderOK
<1>9. preparing' \subseteq Chunks
  BY <1>1
<1>10. QED
  BY <1>1, <1>4, <1>6, <1>8, <1>9, DatasetTypes, FolderStepOK

LEMMA FolderEndsOK ==
  ASSUME DatasetIInv, FileRaises \/ FolderEnds
  PROVE  DatasetIInv'
<1>1. /\ folderAt = "running" /\ folderAt' \in {"returned", "raised"}
      /\ folderAt' = "returned" => preparing = {} /\ insertGroup = <<>> /\ failedFiles = {}
      /\ preparing = {} => insertGroup = <<>>
      /\ preparing' = preparing /\ insertGroup' = insertGroup /\ failedFiles' = failedFiles
      /\ flowNumber' = flowNumber /\ flowAt' = flowAt /\ chunkAt' = chunkAt
      /\ chunksWritten' = chunksWritten /\ outcome' = outcome /\ itemLines' = itemLines /\ inDb' = inDb
  BY DEF FileRaises, FolderEnds, flowOf, filesOf
<1>2. \A d : (FileInDb(d) => FileInDb(d)') /\ (Written(d)' <=> Written(d))
  BY <1>1, FileKept
<1>3. ToSet(insertGroup') = ToSet(insertGroup)
  BY <1>1
<1>4. FolderOK'
  BY <1>1, <1>2, <1>3, DatasetTypes DEF FolderOK
<1>5. /\ preparing' \subseteq Chunks /\ insertGroup' \in Seq(Chunks) /\ failedFiles' \subseteq Chunks
      /\ inDb \subseteq inDb' /\ inDb' \subseteq Assets
  BY <1>1, DatasetTypes
<1>6. QED
  BY <1>1, <1>4, <1>5, FolderStepOK

LEMMA DatasetNextOK == DatasetIInv /\ [DatasetNext]_datasetVars => DatasetIInv'
<1> SUFFICES ASSUME DatasetIInv, [DatasetNext]_datasetVars
             PROVE  DatasetIInv'
  OBVIOUS
<1>1. CASE WriteChunk \/ ChunksCreated \/ ChunksRaise \/ ListChunks \/ EndFlow \/ RunAgain
  BY <1>1, FlowOK
<1>2. ASSUME NEW c \in Chunks, CreateItems(c)
      PROVE  DatasetIInv'
  BY <1>2, CreateItemsOK
<1>3. ASSUME NEW c \in Chunks, IngestItems(c)
      PROVE  DatasetIInv'
  BY <1>3, IngestItemsOK
<1>4. CASE FolderStarts
  BY <1>4, FolderStartsOK
<1>5. ASSUME NEW c \in Chunks, FileReady(c)
      PROVE  DatasetIInv'
  BY <1>5, FileReadyOK
<1>6. CASE FlushRest
  BY <1>6, FlushRestOK
<1>7. CASE FileRaises \/ FolderEnds
  BY <1>7, FolderEndsOK
<1>8. CASE UNCHANGED datasetVars
  <2>1. /\ flowNumber' = flowNumber /\ flowAt' = flowAt /\ chunkAt' = chunkAt
        /\ chunksWritten' = chunksWritten /\ outcome' = outcome /\ itemLines' = itemLines /\ inDb' = inDb
        /\ folderAt' = folderAt /\ preparing' = preparing /\ insertGroup' = insertGroup /\ failedFiles' = failedFiles
    BY <1>8 DEF datasetVars, flowOf, filesOf, folderOf
  <2>2. \A d : (FileInDb(d) => FileInDb(d)') /\ (Written(d)' <=> Written(d))
    BY <2>1, FileKept
  <2>3. ToSet(insertGroup') = ToSet(insertGroup)
    BY <2>1
  <2>4. FolderOK'
    BY <2>1, <2>2, <2>3, DatasetTypes DEF FolderOK
  <2>5. /\ preparing' \subseteq Chunks /\ insertGroup' \in Seq(Chunks) /\ failedFiles' \subseteq Chunks
        /\ folderAt' \in {"off", "running", "returned", "raised"} /\ inDb \subseteq inDb' /\ inDb' \subseteq Assets
    BY <2>1, DatasetTypes
  <2>6. QED
    BY <2>1, <2>4, <2>5, FolderStepOK
<1>9. QED
  BY <1>1, <1>2, <1>3, <1>4, <1>5, <1>6, <1>7, <1>8 DEF DatasetNext

LEMMA DatasetInvariant == DatasetSpec => []DatasetIInv
BY DatasetInitOK, DatasetNextOK, PTL DEF DatasetSpec

\* The dataset's tasks keep to their types: a chunk has one items file at most, whose lines are
\* items of its assets.
THEOREM DatasetIsTyped == DatasetSpec => []DatasetTypeOK
<1>1. DatasetIInv => DatasetTypeOK
  BY DEF DatasetIInv
<1>2. QED
  BY <1>1, DatasetInvariant, PTL

\* For any number of assets, any lengths of chunks and of insert groups and any number of runs:
\* a run whose chunks are all done has the items of every asset in the database, and the ingest
\* of a folder has loaded what it does not report as failed.
THEOREM IngestsAreComplete == DatasetSpec => []IngestsComplete
<1>1. DatasetIInv => DoneMeansIngested
  <2> SUFFICES ASSUME DatasetIInv, \A c \in Chunks : chunkAt[c] = "done", NEW a \in Assets
               PROVE  outcome[a] \in {"none", "raises", "left"} \/ (outcome[a] = "items" /\ a \in inDb)
    BY DEF DoneMeansIngested
  <2>1. PICK c \in Chunks : a \in ChunkAssets(c)
    BY ChunkOfAsset
  <2>2. /\ Written(c) /\ FileInDb(c)
        /\ outcome[a] \in {"none", "raises", "left"} \/ (outcome[a] = "items" /\ a \in Range(FileLines(c)))
    BY <2>1, DatasetTypes DEF ChunkOK
  <2>3. Range(FileLines(c)) \subseteq inDb \union {Blank} /\ a # Blank
    BY <2>2, DatasetNumbers DEF FileInDb, Written
  <2>4. QED
    BY <2>2, <2>3
<1>2. DatasetIInv => FolderIngested
  <2> SUFFICES ASSUME DatasetIInv
               PROVE  FolderIngested
    OBVIOUS
  <2>1. FolderOK
    BY DatasetTypes
  <2>2. insertGroup = <<>> => ToSet(insertGroup) = {}
    BY EmptyToSet
  <2>3. QED
    BY <2>1, <2>2 DEF FolderOK, FolderIngested
<1>3. DatasetIInv => IngestsComplete
  BY <1>1, <1>2 DEF IngestsComplete
<1>4. QED
  BY <1>3, DatasetInvariant, PTL

=============================================================================
