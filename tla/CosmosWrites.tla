---------------------------- MODULE CosmosWrites ----------------------------
(***************************************************************************)
(* Cosmos DB access (core/cosmos/container.py) under the retries of        *)
(* with_backoff (core/utils/backoff.py): one bulk_put, whose documents go  *)
(* to the stored procedure bulkput-workflowruns.js group by group, or one  *)
(* by one where the container has no procedure.  The synchronous and the   *)
(* asynchronous container differ only in the retries around the puts of    *)
(* the second kind.                                                        *)
(***************************************************************************)
EXTENDS Naturals, FiniteSets

CONSTANTS
  NumDocs,          \* documents of the bulk_put, in the order given
  PartitionKeys,    \* their partition keys are any of these
  MaxBulkPutSize,   \* max_bulk_put_size
  NumWaits,         \* length of the strategy's list of waits
  CosmosFails       \* may a call fail for good, or take effect unheard?

CosmosDocs == 1..NumDocs

ASSUME CosmosAssumption ==
  /\ {NumDocs, MaxBulkPutSize, NumWaits} \subseteq Nat \ {0}
  /\ PartitionKeys # {}
  /\ CosmosFails \in BOOLEAN

VARIABLES
  bulkKey,     \* partition key of each document
  hasProc,     \* the container has a bulk put procedure for the model
  maxTries,    \* calls with_backoff makes of a put before it gives up
  bulkAt,      \* "putting", "returned", "raised"
  bulkNext,    \* first document of the group, or the document, at hand
  bulkTry,     \* calls of fn made for it
  stored,      \* documents in the container
  unreached    \* history: documents of calls of the procedure that ran out of time before them

cosmosVars == <<bulkKey, hasProc, maxTries, bulkAt, bulkNext, bulkTry, stored, unreached>>

CosmosTypeOK ==
  /\ bulkKey \in [CosmosDocs -> PartitionKeys]
  /\ hasProc \in BOOLEAN
  /\ bulkAt \in {"putting", "returned", "raised"}
  /\ bulkNext \in 1..(NumDocs + 1)
  /\ maxTries \in {NumWaits, NumWaits * NumWaits}
  /\ bulkTry \in 0..maxTries
  /\ stored \subseteq CosmosDocs /\ unreached \subseteq CosmosDocs

CosmosBegins(keys, proc, tries) ==
  /\ bulkKey = keys /\ hasProc = proc /\ maxTries = tries
  /\ bulkAt = "putting" /\ bulkNext = 1 /\ bulkTry = 0 /\ stored = {} /\ unreached = {}

\* Without a procedure the synchronous bulk_put retries put, which retries by
\* itself; the BackoffError of the inner retries counts as throttling if its
\* cause has the status code of it.
CosmosInit ==
  \E keys \in [CosmosDocs -> PartitionKeys] :
    \/ \E proc \in BOOLEAN : CosmosBegins(keys, proc, NumWaits)
    \/ CosmosBegins(keys, FALSE, NumWaits * NumWaits)

\* _group_for_bulk_put: consecutive documents of one key, cut at the maximum.
\* A run of one key is cut into groups from its own start.
GroupEnd(first) ==
  CHOOSE last \in first..NumDocs :
    /\ \A d \in first..last : bulkKey[d] = bulkKey[first]
    /\ last < first + MaxBulkPutSize
    /\ \/ last = NumDocs
       \/ bulkKey[last + 1] # bulkKey[first]
       \/ last + 1 = first + MaxBulkPutSize

BulkGroup == IF hasProc THEN bulkNext..GroupEnd(bulkNext) ELSE {bulkNext}

(***************************************************************************)
(* with_backoff                                                            *)
(***************************************************************************)
\* Wrong version of Throttled: the exception of the last call is swallowed
ThrottledSilent(try, max, at) ==
  /\ try' = try + 1
  /\ at' = IF try + 1 = max THEN "returned" ELSE at

\* A throttled call is made again until the waits are used up: then
\* BackoffError, after the last wait as well.
Throttled(try, max, at) ==
  /\ try' = try + 1
  /\ at' = IF try + 1 = max THEN "raised" ELSE at

(***************************************************************************)
(* bulk_put                                                                *)
(***************************************************************************)
NextGroup ==
  LET next == bulkNext + Cardinality(BulkGroup)
  IN  /\ bulkNext' = next /\ bulkTry' = 0
      /\ bulkAt' = IF next > NumDocs THEN "returned" ELSE "putting"

\* createDocument of a document that is there is a conflict; upsert_item is not.
MayCreate == hasProc => BulkGroup \cap stored = {}

PutGroup ==
  /\ bulkAt = "putting" /\ MayCreate
  /\ stored' = stored \union BulkGroup
  /\ NextGroup
  /\ UNCHANGED <<bulkKey, hasProc, maxTries, unreached>>

\* Wrong version of CutShort: a document is counted before it is created
CutShortMiscounted(next) ==
  /\ hasProc /\ MayCreate
  /\ stored' = stored \union {d \in BulkGroup : d < next}
  /\ unreached' = unreached \union {d \in BulkGroup : d > next}

\* The procedure runs out of time before one of its documents and ends there: what
\* it has created stays.
CutShort(next) ==
  /\ hasProc /\ MayCreate
  /\ stored' = stored \union {d \in BulkGroup : d < next}
  /\ unreached' = unreached \union {d \in BulkGroup : d >= next}

\* It answers how far it came, and nobody looks.
PutGroupInPart ==
  /\ bulkAt = "putting"
  /\ \E next \in BulkGroup : CutShort(next)
  /\ NextGroup
  /\ UNCHANGED <<bulkKey, hasProc, maxTries>>

\* The call is throttled before it is carried out, or after, in full or in part: a
\* gateway error or a reset connection says nothing of the effect.
PutThrottled ==
  /\ bulkAt = "putting"
  /\ \/ UNCHANGED <<stored, unreached>>
     \/ CosmosFails /\ MayCreate /\ stored' = stored \union BulkGroup /\ UNCHANGED unreached
     \/ CosmosFails /\ \E next \in BulkGroup \ {bulkNext} : CutShort(next)
  /\ Throttled(bulkTry, maxTries, bulkAt)
  /\ UNCHANGED <<bulkKey, hasProc, maxTries, bulkNext>>

\* Any other exception: the conflict of a repeated call among them.  An
\* exception in the procedure takes back what it created.
PutRaises ==
  /\ bulkAt = "putting"
  /\ CosmosFails \/ ~MayCreate
  /\ bulkAt' = "raised"
  /\ UNCHANGED <<bulkKey, hasProc, maxTries, bulkNext, bulkTry, stored, unreached>>

CosmosNext == PutGroup \/ PutGroupInPart \/ PutThrottled \/ PutRaises

CosmosSpec == CosmosInit /\ [][CosmosNext]_cosmosVars

(***************************************************************************)
(* Properties                                                              *)
(***************************************************************************)
\* bulk_put returns only when every document is in the container, however
\* often its calls were throttled and wherever the groups were cut, but for those
\* before which the procedure ran out of time: bulk_put does not look at its answer.
BulkPutStoresAll == bulkAt = "returned" => CosmosDocs \ stored \subseteq unreached

\* A bulk_put that raises leaves whole groups, from the first one on: nothing
\* is in the container after a document that is not, and no group in part, but for
\* those same documents, none of which a repeated call stores.
BulkPutLeavesPrefix ==
  LET dealtWith == stored \union unreached
  IN  /\ stored \intersect unreached = {} /\ (~hasProc => unreached = {})
      /\ dealtWith \in {1..d : d \in 0..NumDocs}
      /\ hasProc /\ bulkAt # "returned" => dealtWith \in {1..(bulkNext - 1), 1..GroupEnd(bulkNext)}

\* What bulk_put's caller may rely on, whether it returns or raises.
BulkPutHonest == BulkPutStoresAll /\ BulkPutLeavesPrefix

=============================================================================
