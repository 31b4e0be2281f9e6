--------------------------- MODULE CollectionIngest ---------------------------
(***************************************************************************)
(* Ingest tasks of one and the same collection (ingest_task/task.py and    *)
(* collection.py): each looks whether it is in the database (pgstac), loads*)
(* it in insert mode if it is not and in upsert mode if it is, and answers *)
(* whether the collection was created or updated.                          *)
(***************************************************************************)
EXTENDS Naturals, FiniteSets

CONSTANTS
  CollectionTasks, \* tasks that ingest the collection
  MaxBroken        \* bound: connections that break behind a call's effect

ASSUME CollectionAssumption == IsFiniteSet(CollectionTasks) /\ MaxBroken \in Nat

VARIABLES
  collectionRow, \* the collection is in the database
  rowBefore,     \* it was there before the tasks
  collectionAt,  \* each task: "start", "insert", "upsert", "created", "updated", "raised"
  dbTries,       \* calls _with_connection_retry has made of the load
  broken

collectionVars == <<collectionRow, rowBefore, collectionAt, dbTries, broken>>

CollectionTypeOK ==
  /\ collectionRow \in BOOLEAN /\ rowBefore \in BOOLEAN
  /\ collectionAt \in
       [CollectionTasks -> {"start", "insert", "upsert", "created", "updated", "raised"}]
  /\ dbTries \in [CollectionTasks -> 0..1] /\ broken \in 0..MaxBroken

CollectionInit ==
  /\ rowBefore \in BOOLEAN /\ collectionRow = rowBefore
  /\ collectionAt = [t \in CollectionTasks |-> "start"]
  /\ dbTries = [t \in CollectionTasks |-> 0] /\ broken = 0

\* collection_exists, a call of its own before the load
LookUpCollection(t) ==
  /\ collectionAt[t] = "start"
  /\ collectionAt' = [collectionAt EXCEPT ![t] = IF collectionRow THEN "upsert" ELSE "insert"]
  /\ UNCHANGED <<collectionRow, rowBefore, dbTries, broken>>

\* Wrong version of LoadCollection: the load upserts always
LoadCollectionUpserting(t) ==
  /\ collectionAt[t] \in {"insert", "upsert"}
  /\ collectionRow' = TRUE
  /\ collectionAt' = [collectionAt EXCEPT ![t] = IF @ = "insert" THEN "created" ELSE "updated"]
  /\ UNCHANGED <<rowBefore, dbTries, broken>>

\* In insert mode the load raises if the row is there by now.
LoadCollection(t) ==
  /\ \/ /\ collectionAt[t] = "insert" /\ ~collectionRow
        /\ collectionAt' = [collectionAt EXCEPT ![t] = "created"]
     \/ /\ collectionAt[t] = "insert" /\ collectionRow
        /\ collectionAt' = [collectionAt EXCEPT ![t] = "raised"]
     \/ /\ collectionAt[t] = "upsert"
        /\ collectionAt' = [collectionAt EXCEPT ![t] = "updated"]
  /\ collectionRow' = TRUE
  /\ UNCHANGED <<rowBefore, dbTries, broken>>

\* The connection breaks, before the load or behind it: one more try on a new
\* connection, where an insert may find its own row.
ConnectionBreaks(t) ==
  /\ collectionAt[t] \in {"insert", "upsert"} /\ broken < MaxBroken
  /\ collectionRow' \in {collectionRow, TRUE}
  /\ IF dbTries[t] = 0
     THEN dbTries' = [dbTries EXCEPT ![t] = 1] /\ UNCHANGED collectionAt
     ELSE collectionAt' = [collectionAt EXCEPT ![t] = "raised"] /\ UNCHANGED dbTries
  /\ broken' = broken + 1
  /\ UNCHANGED rowBefore

CollectionNext ==
  \E t \in CollectionTasks : LookUpCollection(t) \/ LoadCollection(t) \/ ConnectionBreaks(t)

CollectionSpec == CollectionInit /\ [][CollectionNext]_collectionVars

\* However tasks that ingest one collection interleave, and whatever is repeated
\* on a new connection, at most one answers that it created the collection, none
\* does if it was there before, and all answer that they updated it only then.
CollectionCreatedOnce ==
  LET answered(a) == {t \in CollectionTasks : collectionAt[t] = a}
  IN  /\ Cardinality(answered("created")) <= (IF rowBefore THEN 0 ELSE 1)
      /\ answered("updated") = CollectionTasks => rowBefore \/ CollectionTasks = {}

=============================================================================
