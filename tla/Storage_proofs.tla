--------------------------- MODULE Storage_proofs ---------------------------
(***************************************************************************)
(* Proofs about the libraries the tasks use to reach their stores.  Of     *)
(* CosmosWrites, for any number of documents, any partition keys and group *)
(* sizes, any number of waits and any failures: what the callers of        *)
(* bulk_put may rely on.  Of StorageWalk, for any tree of                  *)
(* folders and any options: what a walk yields, and of DatasetSplits, for  *)
(* any collection and limit: how the targets made of its walks cover the   *)
(* tree.  Of StorageFiles, for any names, storages and number of clients:  *)
(* what a storage's answers mean when other clients write and requests are *)
(* repeated.                                                               *)
(***************************************************************************)
EXTENDS CosmosWrites, DatasetSplits, StorageFiles, FiniteSetTheorems,
        SequenceTheorems, WellFoundedInduction, TLAPS

\* Every set of natural numbers that is not empty has a least one.
LEMMA LeastOf ==
  ASSUME NEW S \in SUBSET Nat, S # {}
  PROVE  \E n \in S : \A m \in S : n <= m
<1> DEFINE R == {ss \in Nat \X Nat : ss[1] < ss[2]}
<1>1. IsWellFoundedOn(R, Nat)
  BY NatLessThanWellFounded DEF OpToRel
<1>2. PICK n \in S : \A m \in S : ~(<<m, n>> \in R)
  <2> HIDE DEF R
  <2>1. QED
    BY <1>1, WFMin
<1>3. \A m \in S : <<m, n>> \in Nat \X Nat
  OBVIOUS
<1>4. \A m \in S : ~(m < n)
  BY <1>2, <1>3
<1>5. QED
  BY <1>4

-----------------------------------------------------------------------------
(* bulk_put                                                                *)

\* The group at a document ends: at the last document, before one of another key, or at the
\* maximal size, whichever is first.
LEMMA GroupEndFacts ==
  ASSUME NEW first \in CosmosDocs
  PROVE  GroupEnd(first) \in first..NumDocs
<1> DEFINE Cut == {n \in first..NumDocs : \/ n = NumDocs
                                          \/ bulkKey[n + 1] # bulkKey[first]
                                          \/ n + 1 = first + MaxBulkPutSize}
<1>1. /\ first \in Nat /\ NumDocs \in Nat /\ first >= 1 /\ first <= NumDocs
      /\ MaxBulkPutSize \in Nat /\ MaxBulkPutSize >= 1
  BY CosmosAssumption DEF CosmosDocs
<1>2. NumDocs \in Cut /\ Cut \in SUBSET Nat
  BY <1>1
<1>3. PICK last \in Cut : \A n \in Cut : last <= n
  <2> HIDE DEF Cut
  <2>1. QED
    BY <1>2, LeastOf
<1>4. last \in first..NumDocs /\ last \in Nat
  BY <1>1
<1>5. \A n \in first..(last - 1) : bulkKey[n + 1] = bulkKey[first] /\ n + 1 # first + MaxBulkPutSize
  <2> SUFFICES ASSUME NEW n \in first..(last - 1)
               PROVE  bulkKey[n + 1] = bulkKey[first] /\ n + 1 # first + MaxBulkPutSize
    OBVIOUS
  <2>1. n \in first..NumDocs /\ ~(last <= n)
    BY <1>1, <1>4
  <2>2. n \notin Cut
    BY <1>3, <2>1
  <2>3. QED
    BY <2>1, <2>2
<1>6. \A d \in first..last : bulkKey[d] = bulkKey[first]
  <2> SUFFICES ASSUME NEW d \in first..last, d # first
               PROVE  bulkKey[d] = bulkKey[first]
    OBVIOUS
  <2>1. d - 1 \in first..(last - 1) /\ (d - 1) + 1 = d
    BY <1>1, <1>4
  <2>2. QED
    BY <1>5, <2>1
<1>7. last < first + MaxBulkPutSize
  <2> SUFFICES ASSUME ~(last < first + MaxBulkPutSize)
               PROVE  FALSE
    OBVIOUS
  <2>1. /\ first + MaxBulkPutSize - 1 \in first..(last - 1)
        /\ (first + MaxBulkPutSize - 1) + 1 = first + MaxBulkPutSize
    BY <1>1, <1>4
  <2>2. QED
    BY <1>5, <2>1
<1>8. \/ last = NumDocs
      \/ bulkKey[last + 1] # bulkKey[first]
      \/ last + 1 = first + MaxBulkPutSize
  BY <1>3
<1> HIDE DEF Cut
<1>9. QED
  BY <1>4, <1>6, <1>7, <1>8 DEF GroupEnd

\* What is stored or was not reached are the groups before the one at hand, with that one
\* or without it: its call may have taken effect before it failed.  A call that did so in
\* part has stored the first document of its group, so that a repetition conflicts.
PutPart ==
  /\ hasProc \in BOOLEAN /\ bulkNext \in 1..(NumDocs + 1)
  /\ bulkAt \in {"putting", "returned", "raised"}
  /\ bulkAt = "returned" <=> bulkNext = NumDocs + 1
  /\ stored \intersect unreached = {} /\ (~hasProc => unreached = {})
  /\ \A d \in unreached : d >= bulkNext => bulkNext \in stored
  /\ \/ stored \union unreached = 1..(bulkNext - 1)
     \/ bulkAt # "returned" /\ stored \union unreached = (1..(bulkNext - 1)) \union BulkGroup

\* The group at hand follows on what is before it.
LEMMA GroupFacts ==
  ASSUME PutPart, bulkAt # "returned"
  PROVE  \E last \in bulkNext..NumDocs :
           /\ BulkGroup = bulkNext..last /\ Cardinality(BulkGroup) = last - bulkNext + 1
           /\ (1..(bulkNext - 1)) \union BulkGroup = 1..last
           /\ last = IF hasProc THEN GroupEnd(bulkNext) ELSE bulkNext
<1> DEFINE last == IF hasProc THEN GroupEnd(bulkNext) ELSE bulkNext
<1>1. NumDocs \in Nat /\ bulkNext \in CosmosDocs
  BY CosmosAssumption DEF PutPart, CosmosDocs
<1>2. GroupEnd(bulkNext) \in bulkNext..NumDocs
  BY <1>1, GroupEndFacts
<1>3. last \in bulkNext..NumDocs
  BY <1>1, <1>2 DEF CosmosDocs
<1>4. BulkGroup = bulkNext..last
  <2>1. bulkNext \in Int
    BY <1>1 DEF CosmosDocs
  <2>2. {bulkNext} = bulkNext..bulkNext
    BY <2>1
  <2>3. QED
    BY <2>2 DEF BulkGroup
<1> HIDE DEF last
<1>5. bulkNext \in Int /\ last \in Int /\ bulkNext >= 1 /\ bulkNext <= last
  BY <1>1, <1>3 DEF CosmosDocs
<1>6. Cardinality(bulkNext..last) = last - bulkNext + 1
  BY <1>5, FS_Interval
<1>7. (1..(bulkNext - 1)) \union (bulkNext..last) = 1..last
  BY <1>5
<1>8. QED
  BY <1>3, <1>4, <1>6, <1>7 DEF last

LEMMA PutPartInit ==
  ASSUME CosmosInit
  PROVE  PutPart
<1>1. /\ hasProc \in BOOLEAN /\ bulkAt = "putting" /\ bulkNext = 1 /\ stored = {} /\ unreached = {}
  BY DEF CosmosInit, CosmosBegins
<1>2. NumDocs \in Nat \ {0}
  BY CosmosAssumption
<1>3. 1..(bulkNext - 1) = {} /\ bulkNext \in 1..(NumDocs + 1) /\ bulkNext # NumDocs + 1
  BY <1>1, <1>2
<1>4. QED
  BY <1>1, <1>3 DEF PutPart

\* A call that may create documents finds none of its group dealt with.
LEMMA GroupIsNew ==
  ASSUME PutPart, bulkAt = "putting", MayCreate
  PROVE  /\ unreached \intersect BulkGroup = {}
         /\ (stored \union unreached) \union BulkGroup = (1..(bulkNext - 1)) \union BulkGroup
<1>1. PICK last \in bulkNext..NumDocs : BulkGroup = bulkNext..last
  BY GroupFacts
<1>2. bulkNext \in Int /\ NumDocs \in Nat
  BY CosmosAssumption DEF PutPart
<1>3. bulkNext \in BulkGroup /\ \A d \in BulkGroup : d >= bulkNext
  BY <1>1, <1>2
<1>4. unreached \intersect BulkGroup = {}
  BY <1>3 DEF PutPart, MayCreate
<1>5. QED
  BY <1>4 DEF PutPart

LEMMA PutPartStep ==
  ASSUME PutPart, [CosmosNext]_cosmosVars
  PROVE  PutPart'
<1>1. ASSUME bulkAt = "putting", MayCreate, NextGroup, hasProc' = hasProc,
             NEW part \in SUBSET BulkGroup, hasProc \/ part = BulkGroup,
             stored' = stored \union part, unreached' = unreached \union (BulkGroup \ part)
      PROVE  PutPart'
  <2>1. PICK last \in bulkNext..NumDocs :
          /\ BulkGroup = bulkNext..last /\ Cardinality(BulkGroup) = last - bulkNext + 1
          /\ (1..(bulkNext - 1)) \union BulkGroup = 1..last
    BY <1>1, GroupFacts
  <2>2. bulkNext \in Int /\ NumDocs \in Nat /\ bulkNext >= 1
    BY CosmosAssumption DEF PutPart
  <2>3. /\ bulkNext' = last + 1 /\ bulkNext' \in 1..(NumDocs + 1) /\ bulkNext' - 1 = last
        /\ bulkAt' = IF last + 1 > NumDocs THEN "returned" ELSE "putting"
    BY <1>1, <2>1, <2>2 DEF NextGroup
  <2>4. bulkAt' = "returned" <=> bulkNext' = NumDocs + 1
    BY <2>2, <2>3
  <2>5. /\ unreached \intersect BulkGroup = {}
        /\ (stored \union unreached) \union BulkGroup = 1..last
    BY <1>1, <2>1, GroupIsNew
  <2>6. stored' \union unreached' = 1..(bulkNext' - 1)
    <3>1. stored' \union unreached' = (stored \union unreached) \union BulkGroup
      BY <1>1
    <3>2. QED
      BY <2>3, <2>5, <3>1
  <2>7. stored' \intersect unreached' = {}
    <3>1. stored \intersect unreached = {}
      BY DEF PutPart
    <3>2. stored \intersect BulkGroup = {} \/ part = BulkGroup
      BY <1>1 DEF MayCreate
    <3>3. QED
      BY <1>1, <2>5, <3>1, <3>2
  <2>8. ~hasProc' => unreached' = {}
    BY <1>1 DEF PutPart
  <2>9. \A d \in unreached' : ~(d >= bulkNext')
    BY <2>2, <2>3, <2>6
  <2>10. QED
    BY <1>1, <2>3, <2>4, <2>6, <2>7, <2>8, <2>9 DEF PutPart
<1>2. ASSUME bulkAt = "putting", bulkAt' \in {"putting", "raised"},
             UNCHANGED <<bulkKey, hasProc, bulkNext, stored, unreached>>
      PROVE  PutPart'
  <2>1. BulkGroup' = BulkGroup
    BY <1>2 DEF BulkGroup, GroupEnd
  <2>2. QED
    BY <1>2, <2>1 DEF PutPart
<1>3. ASSUME bulkAt = "putting", MayCreate, bulkAt' \in {"putting", "raised"},
             UNCHANGED <<bulkKey, hasProc, bulkNext>>,
             NEW part \in SUBSET BulkGroup, part = BulkGroup \/ (hasProc /\ bulkNext \in part),
             stored' = stored \union part, unreached' = unreached \union (BulkGroup \ part)
      PROVE  PutPart'
  <2>1. BulkGroup' = BulkGroup
    BY <1>3 DEF BulkGroup, GroupEnd
  <2>2. /\ unreached \intersect BulkGroup = {}
        /\ (stored \union unreached) \union BulkGroup = (1..(bulkNext - 1)) \union BulkGroup
    BY <1>3, GroupIsNew
  <2>3. stored' \union unreached' = (1..(bulkNext' - 1)) \union BulkGroup'
    <3>1. stored' \union unreached' = (stored \union unreached) \union BulkGroup
      BY <1>3
    <3>2. QED
      BY <1>3, <2>1, <2>2, <3>1
  <2>4. stored' \intersect unreached' = {}
    <3>1. stored \intersect unreached = {}
      BY DEF PutPart
    <3>2. stored \intersect BulkGroup = {} \/ part = BulkGroup
      BY <1>3 DEF MayCreate
    <3>3. QED
      BY <1>3, <2>2, <3>1, <3>2
  <2>5. \A d \in unreached' : d >= bulkNext' => bulkNext' \in stored'
    BY <1>3 DEF PutPart
  <2>6. (~hasProc' => unreached' = {}) /\ bulkAt' # "returned" /\ bulkNext # NumDocs + 1
    BY <1>3 DEF PutPart
  <2>7. QED
    BY <1>3, <2>3, <2>4, <2>5, <2>6 DEF PutPart
<1>4. CASE PutGroup
  <2>1. BulkGroup \ BulkGroup = {} /\ BulkGroup \in SUBSET BulkGroup
    OBVIOUS
  <2>2. QED
    BY <1>1, <1>4, <2>1 DEF PutGroup
<1>5. CASE PutGroupInPart
  <2>1. PICK next \in BulkGroup : CutShort(next)
    BY <1>5 DEF PutGroupInPart
  <2>2. BulkGroup \ {d \in BulkGroup : d < next} = {d \in BulkGroup : d >= next}
    <3>1. \A d \in BulkGroup : d \in Int
      BY <1>5, GroupFacts, CosmosAssumption DEF PutGroupInPart, PutPart
    <3>2. QED
      BY <3>1
  <2>3. QED
    BY <1>1, <1>5, <2>1, <2>2 DEF PutGroupInPart, CutShort
<1>6. CASE PutThrottled
  <2>1. bulkAt = "putting" /\ bulkAt' \in {"putting", "raised"} /\ UNCHANGED <<bulkKey, hasProc, bulkNext>>
    BY <1>6 DEF PutThrottled, Throttled
  <2>2. CASE UNCHANGED <<stored, unreached>>
    BY <1>2, <2>1, <2>2
  <2>3. CASE MayCreate /\ stored' = stored \union BulkGroup /\ UNCHANGED unreached
    <3>1. BulkGroup \ BulkGroup = {} /\ BulkGroup \in SUBSET BulkGroup
      OBVIOUS
    <3>2. QED
      BY <1>3, <2>1, <2>3, <3>1
  <2>4. ASSUME NEW next \in BulkGroup \ {bulkNext}, CutShort(next)
        PROVE  PutPart'
    <3>1. \A d \in BulkGroup : d \in Int /\ d >= bulkNext
      BY <2>1, GroupFacts, CosmosAssumption DEF PutPart
    <3>2. bulkNext \in BulkGroup /\ bulkNext < next
      <4>1. PICK last \in bulkNext..NumDocs : BulkGroup = bulkNext..last
        BY <2>1, GroupFacts
      <4>2. bulkNext \in Int /\ NumDocs \in Nat
        BY CosmosAssumption DEF PutPart
      <4>3. QED
        BY <2>4, <4>1, <4>2
    <3>3. BulkGroup \ {d \in BulkGroup : d < next} = {d \in BulkGroup : d >= next}
      BY <3>1
    <3>4. QED
      BY <1>3, <2>1, <2>4, <3>2, <3>3 DEF CutShort
  <2>5. QED
    BY <1>6, <2>2, <2>3, <2>4 DEF PutThrottled
<1>7. CASE PutRaises
  BY <1>2, <1>7 DEF PutRaises
<1>8. CASE UNCHANGED cosmosVars
  <2>1. UNCHANGED <<bulkKey, hasProc, bulkAt, bulkNext, stored, unreached>>
    BY <1>8 DEF cosmosVars
  <2>2. BulkGroup' = BulkGroup
    BY <2>1 DEF BulkGroup, GroupEnd
  <2>3. QED
    BY <2>1, <2>2 DEF PutPart
<1>9. QED
  BY <1>4, <1>5, <1>6, <1>7, <1>8 DEF CosmosNext

\* bulk_put returns only with every document in the container, and raises with whole groups
\* from the first one on in it, wherever the groups are cut and whatever is throttled, lost
\* or refused: but for the documents before which the procedure ran out of time.
THEOREM BulkPutIsHonest == CosmosSpec => []BulkPutHonest
<1>1. PutPart => BulkPutHonest
  <2> SUFFICES ASSUME PutPart
               PROVE  BulkPutHonest
    OBVIOUS
  <2>1. NumDocs \in Nat /\ bulkNext \in 1..(NumDocs + 1)
    BY CosmosAssumption DEF PutPart
  <2>2. stored \intersect unreached = {} /\ (~hasProc => unreached = {})
    BY DEF PutPart
  <2>3. CASE bulkAt = "returned"
    <3>1. stored \union unreached = 1..NumDocs /\ NumDocs \in 0..NumDocs
      BY <2>1, <2>3 DEF PutPart
    <3>2. CosmosDocs \ stored \subseteq unreached
      BY <3>1 DEF CosmosDocs
    <3>3. QED
      BY <2>2, <2>3, <3>1, <3>2 DEF BulkPutHonest, BulkPutStoresAll, BulkPutLeavesPrefix
  <2>4. CASE bulkAt # "returned"
    <3>1. PICK last \in bulkNext..NumDocs :
            /\ (1..(bulkNext - 1)) \union BulkGroup = 1..last
            /\ last = IF hasProc THEN GroupEnd(bulkNext) ELSE bulkNext
      BY <2>4, GroupFacts
    <3>2. stored \union unreached \in {1..(bulkNext - 1), 1..last}
      BY <3>1 DEF PutPart
    <3>3. bulkNext - 1 \in 0..NumDocs /\ last \in 0..NumDocs
      BY <2>1
    <3>4. stored \union unreached \in {1..d : d \in 0..NumDocs}
      BY <3>2, <3>3
    <3>5. QED
      BY <2>2, <2>4, <3>1, <3>2, <3>4 DEF BulkPutHonest, BulkPutStoresAll, BulkPutLeavesPrefix
  <2>5. QED
    BY <2>3, <2>4
<1>2. QED
  BY PutPartInit, PutPartStep, <1>1, PTL DEF CosmosSpec

-----------------------------------------------------------------------------
(* Recursion over the numbers to n, where up[i] is a number before i: a    *)
(* function with the values it is to have exists and is the only one.      *)

Climbs(n, up) == n \in Nat /\ up \in [2..n -> 1..n] /\ \A i \in 2..n : up[i] < i

Recursive(n, T, base, up, step) ==
  /\ Climbs(n, up) /\ base \in T
  /\ step \in [(2..n) \X T -> T]

Follows(f, n, base, up, step) ==
  \A i \in 1..n : f[i] = IF i = 1 THEN base ELSE step[<<i, f[up[i]]>>]

LEMMA RecursionExists ==
  ASSUME NEW n, NEW T, NEW base, NEW up, NEW step, Recursive(n, T, base, up, step)
  PROVE  \E f \in [1..n -> T] : Follows(f, n, base, up, step)
<1>0. /\ n \in Nat /\ base \in T
      /\ up \in [2..n -> 1..n] /\ \A i \in 2..n : up[i] < i
      /\ step \in [(2..n) \X T -> T]
  BY DEF Recursive, Climbs
<1> SUFFICES \E f \in [1..n -> T] :
               \A i \in 1..n : f[i] = IF i = 1 THEN base ELSE step[<<i, f[up[i]]>>]
  BY DEF Follows
<1> DEFINE Fits(m, f) == \A i \in 1..m : f[i] = IF i = 1 THEN base ELSE step[<<i, f[up[i]]>>]
           Bad == {m \in 0..n : ~\E f \in [1..m -> T] : Fits(m, f)}
<1>1. SUFFICES ASSUME Bad # {}
               PROVE  FALSE
  <2>1. n \in 0..n
    BY <1>0
  <2>2. QED
    BY <2>1
<1>2. PICK m \in Bad : \A k \in Bad : m <= k
  <2>1. Bad \in SUBSET Nat
    BY <1>0
  <2> HIDE DEF Bad
  <2>2. QED
    BY <1>1, <2>1, LeastOf
<1>3. m \in 0..n /\ m \in Nat
  BY <1>0
<1>4. m # 0
  <2>1. [i \in 1..0 |-> base] \in [1..0 -> T] /\ Fits(0, [i \in 1..0 |-> base])
    OBVIOUS
  <2>2. QED
    BY <2>1
<1>5. PICK f \in [1..(m - 1) -> T] : Fits(m - 1, f)
  <2>1. m - 1 \in 0..n /\ ~(m <= m - 1)
    BY <1>0, <1>3, <1>4
  <2>2. m - 1 \notin Bad
    BY <1>2, <2>1
  <2>3. QED
    BY <2>1, <2>2
<1> DEFINE g == [i \in 1..m |-> IF i < m THEN f[i] ELSE IF m = 1 THEN base ELSE step[<<m, f[up[m]]>>]]
<1>6. \A i \in 2..m : up[i] \in 1..(m - 1) /\ up[i] \in 1..m /\ up[i] < m
  BY <1>0, <1>3, <1>4
<1>7. g \in [1..m -> T]
  <2>1. ASSUME m # 1
        PROVE  step[<<m, f[up[m]]>>] \in T
    <3>1. m \in 2..n /\ m \in 2..m
      BY <1>0, <1>3, <1>4, <2>1
    <3>2. f[up[m]] \in T
      BY <1>0, <1>5, <1>6, <3>1
    <3>3. QED
      BY <1>0, <3>1, <3>2
  <2>2. \A i \in 1..m : i < m => f[i] \in T
    BY <1>0, <1>3, <1>4
  <2>3. QED
    BY <1>0, <1>3, <2>1, <2>2
<1>8. /\ \A i \in 1..m : i < m => g[i] = f[i]
      /\ g[m] = IF m = 1 THEN base ELSE step[<<m, f[up[m]]>>]
  BY <1>0, <1>3, <1>4
<1>9. \A i \in 1..(m - 1) : f[i] = IF i = 1 THEN base ELSE step[<<i, f[up[i]]>>]
  BY <1>5
<1>10. Fits(m, g)
  <2> HIDE DEF g
  <2> SUFFICES ASSUME NEW i \in 1..m
               PROVE  g[i] = IF i = 1 THEN base ELSE step[<<i, g[up[i]]>>]
    OBVIOUS
  <2>1. i # 1 => g[up[i]] = f[up[i]]
    <3>1. SUFFICES ASSUME i # 1
                   PROVE  g[up[i]] = f[up[i]]
      OBVIOUS
    <3>2. i \in 2..m /\ i <= m /\ i \in 2..n
      BY <1>0, <1>3, <3>1
    <3>3. up[i] \in 1..m /\ up[i] < i
      BY <1>0, <1>6, <3>2
    <3>4. up[i] < m
      BY <1>0, <1>3, <3>2, <3>3
    <3>5. QED
      BY <1>8, <3>3, <3>4
  <2>2. CASE i < m
    <3>1. i \in 1..(m - 1)
      BY <1>0, <1>3, <2>2
    <3>2. g[i] = f[i]
      BY <1>8, <2>2
    <3>3. f[i] = IF i = 1 THEN base ELSE step[<<i, f[up[i]]>>]
      BY <1>9, <3>1
    <3>4. QED
      BY <2>1, <3>2, <3>3
  <2>3. CASE i = m
    BY <1>8, <2>1, <2>3
  <2>4. QED
    BY <1>0, <1>3, <2>2, <2>3
<1>11. QED
  BY <1>2, <1>7, <1>10


\* What holds of a number whenever it holds of the one before holds of all: here, that two
\* functions are the same.
SameStep(f, g, n, up) ==
  \A i \in 1..n : i = 1 \/ f[up[i]] = g[up[i]] => f[i] = g[i]

LEMMA RecursionSame ==
  ASSUME NEW n, NEW up, Climbs(n, up), NEW f, NEW g, SameStep(f, g, n, up)
  PROVE  \A i \in 1..n : f[i] = g[i]
<1>1. /\ n \in Nat /\ up \in [2..n -> 1..n] /\ \A i \in 2..n : up[i] < i
      /\ \A i \in 1..n : i = 1 \/ f[up[i]] = g[up[i]] => f[i] = g[i]
  BY DEF Climbs, SameStep
<1> DEFINE Bad == {i \in 1..n : f[i] # g[i]}
<1>2. SUFFICES ASSUME Bad # {}
               PROVE  FALSE
  OBVIOUS
<1>3. PICK m \in Bad : \A k \in Bad : m <= k
  <2>1. Bad \in SUBSET Nat
    BY <1>1
  <2> HIDE DEF Bad
  <2>2. QED
    BY <1>2, <2>1, LeastOf
<1>4. m \in 1..n /\ f[m] # g[m] /\ m \in 2..n
  BY <1>1
<1>5. up[m] \in 1..n /\ up[m] < m
  BY <1>1, <1>4
<1>6. up[m] \notin Bad
  <2>1. ~(m <= up[m])
    BY <1>1, <1>4, <1>5
  <2> HIDE DEF Bad
  <2>2. QED
    BY <1>3, <2>1
<1>7. f[up[m]] = g[up[m]]
  BY <1>5, <1>6
<1>8. QED
  BY <1>1, <1>4, <1>7

-----------------------------------------------------------------------------
(* StorageWalk: the tree                                                   *)

TreeOK == parent \in [Folders \ {1} -> Folders] /\ \A f \in Folders \ {1} : parent[f] < f

LEMMA FolderFacts ==
  /\ NumFolders \in Nat /\ NumFolders >= 1 /\ Folders = 1..NumFolders /\ 1 \in Folders
  /\ Folders \ {1} = 2..NumFolders
BY WalkAssumption DEF Folders

LEMMA DepthFacts ==
  ASSUME TreeOK
  PROVE  /\ Depth \in [Folders -> Nat] /\ Depth[1] = 0
         /\ \A f \in Folders \ {1} : Depth[f] = Depth[parent[f]] + 1
<1> DEFINE step == [x \in (2..NumFolders) \X Nat |-> x[2] + 1]
<1>1. step \in [(2..NumFolders) \X Nat -> Nat]
  OBVIOUS
<1>2. \A i \in 2..NumFolders, k \in Nat : step[<<i, k>>] = k + 1
  OBVIOUS
<1>3. parent \in [2..NumFolders -> 1..NumFolders] /\ \A i \in 2..NumFolders : parent[i] < i
  BY FolderFacts DEF TreeOK
<1>4. Climbs(NumFolders, parent) /\ Recursive(NumFolders, Nat, 0, parent, step)
  BY <1>1, <1>3, FolderFacts DEF Recursive, Climbs
<1>41. PICK d : d \in [1..NumFolders -> Nat] /\ Follows(d, NumFolders, 0, parent, step)
  BY <1>4, RecursionExists
<1>5. \A i \in Folders : d[i] = IF i = 1 THEN 0 ELSE d[parent[i]] + 1
  BY <1>2, <1>3, <1>41, FolderFacts DEF Follows
<1>6. d = [f \in Folders |-> IF f = 1 THEN 0 ELSE d[parent[f]] + 1]
  BY <1>41, <1>5, FolderFacts
<1>7. Depth = [f \in Folders |-> IF f = 1 THEN 0 ELSE Depth[parent[f]] + 1]
  BY <1>6 DEF Depth
<1>8. \A f \in Folders : Depth[f] = IF f = 1 THEN 0 ELSE Depth[parent[f]] + 1
  BY <1>7
<1>9. \A i \in 1..NumFolders : Depth[i] = d[i]
  <2>1. SameStep(Depth, d, NumFolders, parent)
    BY <1>5, <1>8, FolderFacts DEF SameStep
  <2>2. QED
    BY ONLY <1>4, <2>1, RecursionSame
<1>10. QED
  BY <1>5, <1>7, <1>8, <1>9, <1>41, FolderFacts

LEMMA ReachedFacts ==
  ASSUME TreeOK, walkOpts \in WalkOptions
  PROVE  \A f \in Folders :
           Reached[f] <=> \/ f = walkOpts.start
                          \/ /\ f # 1 /\ Reached[parent[f]]
                             /\ walkOpts.atDepth \in {{}, {Depth[f]}} => f \in walkOpts.folderMatches
<1> DEFINE Ok(f) == walkOpts.atDepth \in {{}, {Depth[f]}} => f \in walkOpts.folderMatches
           step == [x \in (2..NumFolders) \X BOOLEAN |-> x[1] = walkOpts.start \/ (x[2] /\ Ok(x[1]))]
           base == 1 = walkOpts.start
<1>1. step \in [(2..NumFolders) \X BOOLEAN -> BOOLEAN]
  <2> HIDE DEF Ok
  <2>1. QED
    OBVIOUS
<1>2. \A i \in 2..NumFolders, r \in BOOLEAN : step[<<i, r>>] = (i = walkOpts.start \/ (r /\ Ok(i)))
  <2> HIDE DEF Ok
  <2>1. QED
    OBVIOUS
<1>3. Climbs(NumFolders, parent)
  BY FolderFacts DEF Climbs, TreeOK
<1>4. Recursive(NumFolders, BOOLEAN, base, parent, step)
  <2>1. base \in BOOLEAN
    OBVIOUS
  <2> HIDE DEF step
  <2>2. QED
    BY <1>1, <1>3, <2>1 DEF Recursive
<1>5. PICK r : r \in [1..NumFolders -> BOOLEAN] /\ Follows(r, NumFolders, base, parent, step)
  <2> HIDE DEF step, base
  <2>1. QED
    BY <1>4, RecursionExists
<1>6. \A i \in 1..NumFolders : r[i] = IF i = 1 THEN base ELSE step[<<i, r[parent[i]]>>]
  <2> HIDE DEF step, base
  <2>1. QED
    BY <1>5 DEF Follows
<1>7. \A f \in Folders : r[f] = \/ f = walkOpts.start
                                \/ f # 1 /\ r[parent[f]] /\ Ok(f)
  <2> HIDE DEF Ok, step
  <2> SUFFICES ASSUME NEW f \in Folders
               PROVE  r[f] = \/ f = walkOpts.start
                             \/ f # 1 /\ r[parent[f]] /\ Ok(f)
    OBVIOUS
  <2>1. CASE f = 1
    BY <1>6, <2>1, FolderFacts
  <2>2. CASE f # 1
    <3>1. f \in 2..NumFolders /\ parent[f] \in 1..NumFolders
      BY <1>3, <2>2, FolderFacts DEF Climbs
    <3>2. r[parent[f]] \in BOOLEAN
      BY <1>5, <3>1
    <3>3. r[f] = step[<<f, r[parent[f]]>>]
      BY <1>6, <2>2, <3>1, FolderFacts
    <3>4. step[<<f, r[parent[f]]>>] = (f = walkOpts.start \/ (r[parent[f]] /\ Ok(f)))
      BY <1>2, <3>1, <3>2
    <3>5. QED
      BY <2>2, <3>3, <3>4
  <2>3. QED
    BY <2>1, <2>2
<1>8. r = [f \in Folders |-> \/ f = walkOpts.start
                             \/ f # 1 /\ r[parent[f]] /\ Ok(f)]
  <2> HIDE DEF Ok
  <2>1. QED
    BY <1>5, <1>7, FolderFacts
<1>9. Reached = [f \in Folders |-> \/ f = walkOpts.start
                                   \/ /\ f # 1 /\ Reached[parent[f]]
                                      /\ walkOpts.atDepth \in {{}, {Depth[f]}} => f \in walkOpts.folderMatches]
  BY <1>8 DEF Reached
<1>10. QED
  BY <1>9

LEMMA DepthSame ==
  ASSUME parent' = parent
  PROVE  Depth' = Depth
BY DEF Depth

-----------------------------------------------------------------------------
(* StorageWalk: the inductive invariant.  V is the set of folders the walk *)
(* has been to: pending folders are children of theirs, and theirs are     *)
(* pending or among them.                                                  *)

Pending == UNION {todo[i] : i \in DOMAIN todo}

Unvisited(f) == \A i, j \in DOMAIN todo : f \in todo[i] /\ f \in todo[j] => i = j

Visits(V) ==
  /\ V \in SUBSET Folders /\ V \cap Pending = {}
  /\ \A f \in Pending : Unvisited(f)
  /\ walkOpts.start \in V \union Pending
  /\ \A f \in V \union Pending :
       /\ f >= walkOpts.start
       /\ f = walkOpts.start \/ (f # 1 /\ parent[f] \in V /\ f \in Matching(parent[f]))
  /\ \A f \in V : Matching(f) \subseteq V \union Pending

Yields(V) ==
  /\ {yielded[i].folder : i \in DOMAIN yielded} = {f \in V : ~PassedOver(f) /\ ~TooDeep(f)}
  /\ \A i, j \in DOMAIN yielded : yielded[i].folder = yielded[j].folder => i = j
  /\ ~Given(walkOpts.fileLimit) => \A i \in DOMAIN yielded : yielded[i].files = FilesOf(yielded[i].folder)

NoLimits == ~Given(walkOpts.walkLimit) /\ ~Given(walkOpts.fileLimit)

\* All folders of the next level are at depth k.
Levels(k) ==
  /\ Len(todo) = 2
  /\ \A f \in Level : Depth[f] + 1 = k /\ ~TooDeep(f)
  /\ \A f \in NextLevel : Depth[f] = k
  /\ \A i \in DOMAIN yielded : Depth[yielded[i].folder] + 1 <= k
  /\ \A i \in DOMAIN yielded : \A j \in 1..i :
       Depth[yielded[j].folder] <= Depth[yielded[i].folder]
  /\ ~Given(walkOpts.fileLimit) => ~limitBreak
  /\ walkEnded /\ NoLimits => Level = {} /\ \A f \in NextLevel : TooDeep(f)

\* s sums up the files yielded.
Sums(s) ==
  /\ s \in [0..Len(yielded) -> Nat] /\ s[0] = 0
  /\ \A i \in 1..Len(yielded) : s[i] = s[i - 1] + yielded[i].files
  /\ s[Len(yielded)] <= fileCount

LocalStack ==
  /\ walkOpts.start = 1 /\ fileCount = 0
  /\ walkEnded => ~NoLimits
  /\ Given(walkOpts.walkLimit) =>
       /\ walkCount = Len(yielded) /\ walkCount <= walkOpts.walkLimit
       /\ ~walkEnded => walkCount < walkOpts.walkLimit
  /\ Len(todo) > 0

WalkIInv ==
  /\ TreeOK /\ WalkTypeOK
  /\ Given(walkOpts.fileLimit) => fileCount <= walkOpts.fileLimit
  /\ \E V \in SUBSET Folders : Visits(V) /\ Yields(V)
  /\ walkOpts.engine = "blob" => (\E k \in Nat : Levels(k)) /\ \E s \in [0..Len(yielded) -> Nat] : Sums(s)
  /\ walkOpts.engine = "local" => LocalStack

LEMMA MatchingSame ==
  ASSUME parent' = parent, walkOpts' = walkOpts
  PROVE  \A f : Matching(f)' = Matching(f)
BY DepthSame DEF Matching, Children

LEMMA MatchingFacts ==
  ASSUME TreeOK, NEW f, NEW g \in Matching(f)
  PROVE  g \in Folders /\ g # 1 /\ parent[g] = f
BY DEF Matching, Children

\* What is listed in a pending folder is not pending, nor visited.
LEMMA MatchingFresh ==
  ASSUME TreeOK, walkOpts \in WalkOptions, NEW V, Visits(V), NEW f \in Pending
  PROVE  f \in Folders /\ f \notin V /\ Matching(f) \cap (V \union Pending) = {} /\ f \notin Matching(f)
<1>1. /\ V \in SUBSET Folders /\ f \notin V
      /\ \A g \in V \union Pending :
           g >= walkOpts.start /\ (g = walkOpts.start \/ (g # 1 /\ parent[g] \in V /\ g \in Matching(parent[g])))
  BY DEF Visits
<1>2. walkOpts.start \in Folders
  BY DEF WalkOptions
<1>3. f \in Folders
  BY <1>1, <1>2, MatchingFacts
<1>4. ASSUME NEW g \in Matching(f)
      PROVE  g \in Folders /\ parent[g] = f /\ f < g
  BY <1>4, MatchingFacts DEF TreeOK
<1>5. ASSUME NEW g \in Matching(f), g \in V \union Pending
      PROVE  FALSE
  <2>1. g = walkOpts.start
    BY <1>1, <1>4, <1>5
  <2>2. f >= g
    BY <1>1, <2>1
  <2>3. QED
    BY <1>3, <1>4, <1>5, <2>2, FolderFacts
<1>6. f \notin Matching(f)
  BY <1>5
<1>7. QED
  BY <1>1, <1>3, <1>5, <1>6

LEMMA VisitStep ==
  ASSUME TreeOK, walkOpts \in WalkOptions, NEW V, Visits(V), NEW f \in Pending,
         parent' = parent, walkOpts' = walkOpts,
         Pending' = (Pending \ {f}) \union Matching(f),
         \A g \in Pending' : Unvisited(g)'
  PROVE  Visits(V \union {f})'
<1> DEFINE W == V \union {f}
<1>1. /\ V \in SUBSET Folders /\ V \cap Pending = {} /\ walkOpts.start \in V \union Pending
      /\ \A g \in V \union Pending :
           g >= walkOpts.start /\ (g = walkOpts.start \/ (g # 1 /\ parent[g] \in V /\ g \in Matching(parent[g])))
      /\ \A g \in V : Matching(g) \subseteq V \union Pending
  BY DEF Visits
<1>2. f \in Folders /\ f \notin V /\ Matching(f) \cap (V \union Pending) = {} /\ f \notin Matching(f)
  BY MatchingFresh
<1>3. W \in SUBSET Folders /\ W \cap Pending' = {} /\ walkOpts.start \in W \union Pending'
  BY <1>1, <1>2
<1>4. \A g \in W \union Pending' :
        g >= walkOpts.start /\ (g = walkOpts.start \/ (g # 1 /\ parent[g] \in W /\ g \in Matching(parent[g])))
  <2> SUFFICES ASSUME NEW g \in W \union Pending'
               PROVE  g >= walkOpts.start /\ (g = walkOpts.start \/ (g # 1 /\ parent[g] \in W /\ g \in Matching(parent[g])))
    OBVIOUS
  <2>1. CASE g \in V \union Pending
    BY <1>1, <2>1
  <2>2. CASE g \in Matching(f)
    <3>1. g \in Folders /\ g # 1 /\ parent[g] = f /\ parent[g] < g
      BY <2>2, MatchingFacts DEF TreeOK
    <3>2. f >= walkOpts.start /\ walkOpts.start \in Folders
      BY <1>1 DEF WalkOptions
    <3>3. g >= walkOpts.start
      BY <1>2, <3>1, <3>2, FolderFacts
    <3>4. QED
      BY <2>2, <3>1, <3>3
  <2>3. QED
    BY <2>1, <2>2
<1>5. \A g \in W : Matching(g) \subseteq W \union Pending'
  BY <1>1
<1>6. \A g : Matching(g)' = Matching(g)
  BY MatchingSame
<1>7. QED
  BY <1>3, <1>4, <1>5, <1>6 DEF Visits

LEMMA VisitsSame ==
  ASSUME NEW V, Visits(V), parent' = parent, walkOpts' = walkOpts, Pending' = Pending,
         \A g \in Pending' : Unvisited(g)'
  PROVE  Visits(V)'
<1>1. \A g : Matching(g)' = Matching(g)
  BY MatchingSame
<1>2. QED
  BY <1>1 DEF Visits

-----------------------------------------------------------------------------
(* What a step does to the pending folders                                 *)

LEMMA BlobPending ==
  ASSUME WalkTypeOK, Len(todo) = 2
  PROVE  /\ Level \in SUBSET Folders /\ NextLevel \in SUBSET Folders /\ DOMAIN todo = {1, 2}
         /\ Pending = Level \union NextLevel
         /\ (\A f \in Pending : Unvisited(f)) <=> Level \cap NextLevel = {}
<1>1. DOMAIN todo = {1, 2} /\ Level \in SUBSET Folders /\ NextLevel \in SUBSET Folders
  <2>1. todo \in Seq(SUBSET Folders) /\ DOMAIN todo = 1..2
    BY DEF WalkTypeOK
  <2>2. 1..2 = {1, 2}
    OBVIOUS
  <2>3. QED
    BY <2>1, <2>2 DEF Level, NextLevel
<1>2. Pending = Level \union NextLevel
  BY <1>1 DEF Pending, Level, NextLevel
<1>3. (\A f \in Pending : Unvisited(f)) <=> Level \cap NextLevel = {}
  BY <1>1, <1>2 DEF Unvisited, Level, NextLevel
<1>4. QED
  BY <1>1, <1>2, <1>3

LevelsNext(a, b) == a \in SUBSET Folders /\ b \in SUBSET Folders /\ todo' = <<a, b>>

LEMMA BlobPendingNext ==
  ASSUME NEW a, NEW b, LevelsNext(a, b)
  PROVE  /\ Pending' = a \union b
         /\ a \cap b = {} => \A f \in Pending' : Unvisited(f)'
         /\ todo' \in Seq(SUBSET Folders) /\ Len(todo') = 2 /\ Level' = a /\ NextLevel' = b
<1>1. DOMAIN todo' = {1, 2} /\ todo'[1] = a /\ todo'[2] = b
  BY DEF LevelsNext
<1>2. Pending' = a \union b
  BY <1>1 DEF Pending
<1>3. a \cap b = {} => \A f \in Pending' : Unvisited(f)'
  BY <1>1, <1>2 DEF Unvisited
<1>4. todo' \in Seq(SUBSET Folders) /\ Len(todo') = 2 /\ Level' = a /\ NextLevel' = b
  BY <1>1 DEF Level, NextLevel, LevelsNext
<1>5. QED
  BY <1>2, <1>3, <1>4

LEMMA LocalPending ==
  ASSUME WalkTypeOK, Len(todo) > 0, \A g \in Pending : Unvisited(g), NEW f \in Head(todo),
         NEW M \in SUBSET Folders, M \cap Pending = {},
         todo' = <<M, Head(todo) \ {f}>> \o Tail(todo)
  PROVE  /\ f \in Pending /\ Pending' = (Pending \ {f}) \union M
         /\ \A g \in Pending' : Unvisited(g)'
         /\ todo' \in Seq(SUBSET Folders) /\ Len(todo') > 0
<1>1. /\ todo \in Seq(SUBSET Folders) /\ Len(todo) \in Nat /\ DOMAIN todo = 1..Len(todo)
      /\ Head(todo) = todo[1] /\ 1 \in DOMAIN todo
  BY DEF WalkTypeOK
<1>2. /\ Tail(todo) \in Seq(SUBSET Folders) /\ Len(Tail(todo)) = Len(todo) - 1
      /\ \A i \in 1..(Len(todo) - 1) : Tail(todo)[i] = todo[i + 1]
  BY <1>1
<1>3. <<M, Head(todo) \ {f}>> \in Seq(SUBSET Folders)
  BY <1>1
<1>4. /\ todo' \in Seq(SUBSET Folders) /\ Len(todo') = Len(todo) + 1 /\ DOMAIN todo' = 1..(Len(todo) + 1)
      /\ todo'[1] = M /\ todo'[2] = todo[1] \ {f}
      /\ \A i \in 3..(Len(todo) + 1) : todo'[i] = todo[i - 1]
  BY <1>1, <1>2, <1>3
<1>5. f \in Pending /\ \A j \in DOMAIN todo : f \in todo[j] => j = 1
  <2>1. f \in todo[1] /\ f \in Pending
    BY <1>1 DEF Pending
  <2>2. Unvisited(f)
    BY <2>1
  <2>3. QED
    BY <1>1, <2>1, <2>2 DEF Unvisited
<1>6. \A g \in M : \A i \in DOMAIN todo : g \notin todo[i]
  BY DEF Pending
<1>7. \A g : \A i \in 2..(Len(todo) + 1) : g \in todo'[i] <=> g \in todo[i - 1] /\ g # f
  <2> SUFFICES ASSUME NEW g, NEW i \in 2..(Len(todo) + 1)
               PROVE  g \in todo'[i] <=> g \in todo[i - 1] /\ g # f
    OBVIOUS
  <2>1. CASE i = 2
    BY <1>4, <2>1
  <2>2. CASE i # 2
    <3>1. i \in 3..(Len(todo) + 1) /\ i - 1 \in DOMAIN todo /\ i - 1 # 1
      BY <1>1, <2>2
    <3>2. QED
      BY <1>4, <1>5, <3>1
  <2>3. QED
    BY <2>1, <2>2
<1>8. Pending' = (Pending \ {f}) \union M
  <2>1. ASSUME NEW g \in Pending'
        PROVE  g \in (Pending \ {f}) \union M
    <3>1. PICK i \in 1..(Len(todo) + 1) : g \in todo'[i]
      BY <1>4 DEF Pending
    <3>2. CASE i = 1
      BY <1>4, <3>1, <3>2
    <3>3. CASE i # 1
      <4>1. i \in 2..(Len(todo) + 1) /\ i - 1 \in DOMAIN todo
        BY <1>1, <3>3
      <4>2. g \in todo[i - 1] /\ g # f
        BY <1>7, <3>1, <4>1
      <4>3. QED
        BY <4>1, <4>2 DEF Pending
    <3>4. QED
      BY <3>2, <3>3
  <2>2. ASSUME NEW g \in M
        PROVE  g \in Pending'
    BY <1>1, <1>4 DEF Pending
  <2>3. ASSUME NEW g \in Pending, g # f
        PROVE  g \in Pending'
    <3>1. PICK i \in 1..Len(todo) : g \in todo[i]
      BY <1>1 DEF Pending
    <3>2. i + 1 \in 2..(Len(todo) + 1) /\ (i + 1) - 1 = i /\ i + 1 \in DOMAIN todo'
      BY <1>1, <1>4
    <3>3. g \in todo'[i + 1]
      BY <1>7, <2>3, <3>1, <3>2
    <3>4. QED
      BY <3>2, <3>3 DEF Pending
  <2>4. QED
    BY <2>1, <2>2, <2>3
<1>9. ASSUME NEW g \in Pending', NEW i \in DOMAIN todo', NEW j \in DOMAIN todo', g \in todo'[i], g \in todo'[j]
      PROVE  i = j
  <2>1. CASE g \in M
    <3>1. ASSUME NEW n \in DOMAIN todo', g \in todo'[n], n # 1
          PROVE  FALSE
      <4>1. n \in 2..(Len(todo) + 1) /\ n - 1 \in DOMAIN todo
        BY <1>1, <1>4, <3>1
      <4>2. QED
        BY <1>6, <1>7, <2>1, <3>1, <4>1
    <3>2. QED
      BY <1>9, <3>1
  <2>2. CASE g \notin M
    <3>1. i # 1 /\ j # 1
      BY <1>4, <1>9, <2>2
    <3>2. /\ i \in 2..(Len(todo) + 1) /\ i - 1 \in DOMAIN todo
          /\ j \in 2..(Len(todo) + 1) /\ j - 1 \in DOMAIN todo
      BY <1>1, <1>4, <3>1
    <3>3. g \in todo[i - 1] /\ g \in todo[j - 1]
      BY <1>7, <1>9, <3>2
    <3>4. i - 1 = j - 1
      BY <3>2, <3>3 DEF Pending, Unvisited
    <3>5. QED
      BY <1>1, <3>2, <3>4
  <2>3. QED
    BY <2>1, <2>2
<1>10. \A g \in Pending' : Unvisited(g)'
  BY <1>9 DEF Unvisited
<1>11. QED
  BY <1>1, <1>4, <1>5, <1>8, <1>10

LEMMA LocalPendingTail ==
  ASSUME WalkTypeOK, Len(todo) > 1, Head(todo) = {}, \A g \in Pending : Unvisited(g),
         todo' = Tail(todo)
  PROVE  /\ Pending' = Pending /\ \A g \in Pending' : Unvisited(g)'
         /\ todo' \in Seq(SUBSET Folders) /\ Len(todo') > 0
<1>1. /\ todo \in Seq(SUBSET Folders) /\ Len(todo) \in Nat /\ DOMAIN todo = 1..Len(todo)
      /\ todo[1] = {}
  BY DEF WalkTypeOK
<1>2. /\ todo' \in Seq(SUBSET Folders) /\ Len(todo') = Len(todo) - 1 /\ DOMAIN todo' = 1..(Len(todo) - 1)
      /\ \A i \in 1..(Len(todo) - 1) : todo'[i] = todo[i + 1] /\ i + 1 \in DOMAIN todo
  BY <1>1
<1>3. ASSUME NEW g \in Pending
      PROVE  g \in Pending'
  <2>1. PICK i \in 1..Len(todo) : g \in todo[i]
    BY <1>1 DEF Pending
  <2>2. i - 1 \in 1..(Len(todo) - 1) /\ (i - 1) + 1 = i
    BY <1>1, <2>1
  <2>3. g \in todo'[i - 1]
    BY <1>2, <2>1, <2>2
  <2>4. QED
    BY <1>2, <2>2, <2>3 DEF Pending
<1>4. ASSUME NEW g \in Pending'
      PROVE  g \in Pending
  BY <1>2 DEF Pending
<1>5. ASSUME NEW g \in Pending', NEW i \in DOMAIN todo', NEW j \in DOMAIN todo', g \in todo'[i], g \in todo'[j]
      PROVE  i = j
  <2>1. /\ g \in todo[i + 1] /\ g \in todo[j + 1] /\ i + 1 \in DOMAIN todo /\ j + 1 \in DOMAIN todo
        /\ i \in Nat /\ j \in Nat
    BY <1>1, <1>2, <1>5
  <2>2. i + 1 = j + 1
    BY <1>4, <2>1 DEF Unvisited
  <2>3. QED
    BY <2>1, <2>2
<1>6. Pending' = Pending
  BY <1>3, <1>4
<1>7. \A g \in Pending' : Unvisited(g)'
  BY <1>5 DEF Unvisited
<1>8. Len(todo') > 0
  BY <1>1, <1>2
<1>9. QED
  BY <1>2, <1>6, <1>7, <1>8

-----------------------------------------------------------------------------
(* StorageWalk: the invariant holds initially                              *)

LEMMA WalkBeginsFresh ==
  ASSUME NEW tree \in Trees, NEW call \in WalkCalls, WalkBegins(tree, call)
  PROVE  WalkIInv
<1>1. WalkBegins(tree, call) /\ tree \in Trees /\ call \in WalkCalls
  OBVIOUS
<1>2. TreeOK /\ parent \in [Folders \ {1} -> Folders]
  BY <1>1 DEF WalkBegins, Trees, TreeOK
<1>3. /\ walkOpts \in WalkOptions /\ walkOpts.start \in Folders
      /\ walkOpts.engine = "local" => walkOpts.start = 1
      /\ walkOpts.engine \in {"blob", "local"}
      /\ walkOpts.walkLimit \in Nat /\ walkOpts.fileLimit \in Nat
  <2>1. 0..MaxOption \subseteq Nat /\ {0, 1} \subseteq 0..MaxOption
    BY WalkAssumption
  <2>2. QED
    BY <1>1, <2>1 DEF WalkBegins, WalkCalls, WalkOptions, Options
<1>4. /\ yielded = <<>> /\ walkCount = 0 /\ fileCount = 0 /\ limitBreak = FALSE /\ walkEnded = FALSE
      /\ todo = IF walkOpts.engine = "blob" THEN <<{}, {walkOpts.start}>> ELSE <<{walkOpts.start}>>
  BY <1>1 DEF WalkBegins, FirstTodo
<1>5. todo \in Seq(SUBSET Folders) /\ Len(todo) > 0
  <2>1. {} \in SUBSET Folders /\ {walkOpts.start} \in SUBSET Folders
    BY <1>3, FolderFacts
  <2>2. CASE walkOpts.engine = "blob"
    <3>1. <<{}, {walkOpts.start}>> \in Seq(SUBSET Folders) /\ Len(<<{}, {walkOpts.start}>>) = 2
      BY <2>1
    <3>2. QED
      BY <1>4, <2>2, <3>1
  <2>3. CASE walkOpts.engine # "blob"
    <3>1. <<{walkOpts.start}>> \in Seq(SUBSET Folders) /\ Len(<<{walkOpts.start}>>) = 1
      BY <2>1
    <3>2. QED
      BY <1>4, <2>3, <3>1
  <2>4. QED
    BY <2>2, <2>3
<1>6. WalkTypeOK
  <2>1. yielded \in Seq([folder : Folders, files : Nat])
    BY <1>4
  <2>2. walkCount \in Nat /\ fileCount \in Nat /\ limitBreak \in BOOLEAN /\ walkEnded \in BOOLEAN
    BY <1>4
  <2>3. QED
    BY <1>2, <1>3, <1>5, <2>1, <2>2 DEF WalkTypeOK
<1>7. Pending = {walkOpts.start} /\ \A f \in Pending : Unvisited(f)
  <2>1. CASE walkOpts.engine = "blob"
    <3>1. todo = <<{}, {walkOpts.start}>> /\ Len(todo) = 2
      BY <1>4, <2>1
    <3>2. Level = {} /\ NextLevel = {walkOpts.start}
      BY <3>1 DEF Level, NextLevel
    <3>3. QED
      BY <1>6, <3>1, <3>2, BlobPending
  <2>2. CASE walkOpts.engine = "local"
    <3>1. todo = <<{1}>> /\ walkOpts.start = 1
      BY <1>3, <1>4, <2>2
    <3>2. DOMAIN todo = {1} /\ todo[1] = {1}
      BY <3>1
    <3>3. QED
      BY <3>1, <3>2 DEF Pending, Unvisited
  <2>3. QED
    BY <1>3, <2>1, <2>2
<1>8. Visits({})
  BY <1>3, <1>7, FolderFacts DEF Visits
<1>9. Yields({})
  BY <1>4 DEF Yields
<1>10. ASSUME walkOpts.engine = "blob"
       PROVE  Levels(Depth[walkOpts.start]) /\ Depth[walkOpts.start] \in Nat
  <2>1. Level = {} /\ NextLevel = {walkOpts.start} /\ Len(todo) = 2
    BY <1>4, <1>10 DEF Level, NextLevel
  <2>2. Depth[walkOpts.start] \in Nat
    BY <1>2, <1>3, DepthFacts
  <2>3. QED
    BY <1>4, <2>1, <2>2 DEF Levels
<1>11. Sums([i \in 0..Len(yielded) |-> 0])
  BY <1>4 DEF Sums
<1>12. walkOpts.engine = "local" => LocalStack
  BY <1>3, <1>4, <1>5 DEF LocalStack, Given
<1>13. Given(walkOpts.fileLimit) => fileCount <= walkOpts.fileLimit
  BY <1>3, <1>4 DEF Given
<1>14. \E V \in SUBSET Folders : Visits(V) /\ Yields(V)
  BY <1>8, <1>9
<1>15. walkOpts.engine = "blob" => \E k \in Nat : Levels(k)
  BY <1>10
<1>16. \E s \in [0..Len(yielded) -> Nat] : Sums(s)
  BY <1>11 DEF Sums
<1>17. QED
  BY <1>2, <1>6, <1>12, <1>13, <1>14, <1>15, <1>16 DEF WalkIInv

LEMMA WalkInitOK == WalkInit => WalkIInv
BY WalkBeginsFresh DEF WalkInit

-----------------------------------------------------------------------------
(* What a step does to what is yielded                                     *)

LEMMA OptionFacts ==
  ASSUME WalkTypeOK
  PROVE  /\ walkOpts \in WalkOptions /\ walkOpts.start \in Folders
         /\ walkOpts.engine \in {"blob", "local"}
         /\ walkOpts.minDepth \in Nat /\ walkOpts.maxDepth \in Nat
         /\ walkOpts.walkLimit \in Nat /\ walkOpts.fileLimit \in Nat
         /\ walkOpts.folderMatches \in SUBSET Folders
         /\ walkCount \in Nat /\ fileCount \in Nat
         /\ limitBreak \in BOOLEAN /\ walkEnded \in BOOLEAN
<1>1. Options \subseteq Nat
  BY WalkAssumption DEF Options
<1>2. QED
  BY <1>1 DEF WalkTypeOK, WalkOptions

LEMMA CutFacts ==
  ASSUME WalkTypeOK, Given(walkOpts.fileLimit) => fileCount <= walkOpts.fileLimit, NEW f \in Folders
  PROVE  /\ CutFiles(f) \in Nat
         /\ Given(walkOpts.fileLimit) => fileCount + CutFiles(f) <= walkOpts.fileLimit
         /\ ~Given(walkOpts.fileLimit) => ~Overrun(f) /\ CutFiles(f) = FilesOf(f)
<1>1. FilesOf(f) \in Nat
  BY WalkAssumption DEF FilesOf
<1>2. QED
  BY <1>1, OptionFacts DEF CutFiles, Overrun

LEMMA DepthTestsSame ==
  ASSUME parent' = parent, walkOpts' = walkOpts
  PROVE  \A f : (PassedOver(f)' <=> PassedOver(f)) /\ (TooDeep(f)' <=> TooDeep(f))
BY DepthSame DEF PassedOver, TooDeep, Given

LEMMA YieldsSame ==
  ASSUME NEW V, Yields(V), parent' = parent, walkOpts' = walkOpts, yielded' = yielded
  PROVE  Yields(V)'
BY DepthTestsSame DEF Yields, Given, FilesOf

LEMMA YieldsSkip ==
  ASSUME NEW V, Yields(V), parent' = parent, walkOpts' = walkOpts, yielded' = yielded,
         NEW f, PassedOver(f) \/ TooDeep(f)
  PROVE  Yields(V \union {f})'
<1>1. {g \in V : ~PassedOver(g) /\ ~TooDeep(g)} = {g \in V \union {f} : ~PassedOver(g) /\ ~TooDeep(g)}
  OBVIOUS
<1>2. Yields(V \union {f})
  BY <1>1 DEF Yields
<1>3. QED
  BY <1>2, YieldsSame

LEMMA YieldedFacts ==
  ASSUME WalkTypeOK
  PROVE  /\ Len(yielded) \in Nat /\ DOMAIN yielded = 1..Len(yielded)
         /\ \A i \in 1..Len(yielded) : yielded[i].folder \in Folders /\ yielded[i].files \in Nat
<1> DEFINE R == [folder : Folders, files : Nat]
<1>1. yielded \in Seq(R)
  BY DEF WalkTypeOK
<1>2. \A y \in R : y.folder \in Folders /\ y.files \in Nat
  OBVIOUS
<1> HIDE DEF R
<1>3. \A i \in 1..Len(yielded) : yielded[i] \in R
  BY <1>1, ElementOfSeq
<1>4. QED
  BY <1>1, <1>2, <1>3

LEMMA YieldFacts ==
  ASSUME WalkTypeOK, Given(walkOpts.fileLimit) => fileCount <= walkOpts.fileLimit,
         NEW f \in Folders, Yield(f)
  PROVE  /\ yielded' \in Seq([folder : Folders, files : Nat])
         /\ Len(yielded) \in Nat /\ Len(yielded') = Len(yielded) + 1
         /\ DOMAIN yielded = 1..Len(yielded) /\ DOMAIN yielded' = 1..(Len(yielded) + 1)
         /\ \A i \in 1..Len(yielded) : yielded'[i] = yielded[i]
         /\ yielded'[Len(yielded) + 1].folder = f
         /\ yielded'[Len(yielded) + 1].files = CutFiles(f)
         /\ \A i \in 1..Len(yielded) : yielded[i].folder \in Folders /\ yielded[i].files \in Nat
<1>1. yielded \in Seq([folder : Folders, files : Nat])
  BY DEF WalkTypeOK
<1>2. [folder |-> f, files |-> CutFiles(f)] \in [folder : Folders, files : Nat]
  BY CutFacts
<1> DEFINE y == [folder |-> f, files |-> CutFiles(f)]
<1>3. yielded' = Append(yielded, y) /\ y.folder = f /\ y.files = CutFiles(f)
  BY DEF Yield
<1>4. \A i \in 1..Len(yielded) : yielded[i].folder \in Folders /\ yielded[i].files \in Nat
  BY YieldedFacts
<1> HIDE DEF y
<1>5. QED
  BY <1>1, <1>2, <1>3, <1>4 DEF y

LEMMA YieldsStep ==
  ASSUME WalkTypeOK, Given(walkOpts.fileLimit) => fileCount <= walkOpts.fileLimit,
         NEW V, Yields(V), parent' = parent, walkOpts' = walkOpts,
         NEW f \in Folders, f \notin V, ~PassedOver(f), ~TooDeep(f), Yield(f)
  PROVE  Yields(V \union {f})'
<1> DEFINE n == Len(yielded)
<1>1. /\ n \in Nat /\ DOMAIN yielded = 1..n /\ DOMAIN yielded' = 1..(n + 1)
      /\ \A i \in 1..n : yielded'[i] = yielded[i]
      /\ yielded'[n + 1].folder = f /\ yielded'[n + 1].files = CutFiles(f)
  BY YieldFacts
<1>2. {yielded[i].folder : i \in DOMAIN yielded} = {g \in V : ~PassedOver(g) /\ ~TooDeep(g)}
  BY DEF Yields
<1>3. {yielded'[i].folder : i \in 1..(n + 1)} = {yielded[i].folder : i \in 1..n} \union {f}
  <2>1. 1..(n + 1) = (1..n) \union {n + 1}
    BY <1>1
  <2> HIDE DEF n
  <2>2. QED
    BY <1>1, <2>1
<1>4. {yielded'[i].folder : i \in DOMAIN yielded'} =
        {g \in V \union {f} : ~PassedOver(g)' /\ ~TooDeep(g)'}
  BY <1>1, <1>2, <1>3, DepthTestsSame
<1>5. ASSUME NEW i \in 1..(n + 1), NEW j \in 1..(n + 1), yielded'[i].folder = yielded'[j].folder
      PROVE  i = j
  <2>1. \A m \in 1..n : yielded'[m].folder # f
    BY <1>1, <1>2
  <2>2. CASE i = n + 1 \/ j = n + 1
    BY <1>1, <1>5, <2>1, <2>2
  <2>3. CASE i # n + 1 /\ j # n + 1
    <3>1. i \in 1..n /\ j \in 1..n
      BY <1>1, <2>3
    <3>2. QED
      BY <1>1, <1>5, <3>1 DEF Yields
  <2>4. QED
    BY <2>2, <2>3
<1>6. ASSUME ~Given(walkOpts.fileLimit), NEW i \in 1..(n + 1)
      PROVE  yielded'[i].files = FilesOf(yielded'[i].folder)
  <2>1. CASE i = n + 1
    BY <1>1, <1>6, <2>1, CutFacts
  <2>2. CASE i # n + 1
    <3>1. i \in 1..n
      BY <1>1, <2>2
    <3>2. QED
      BY <1>1, <1>6, <3>1 DEF Yields
  <2>3. QED
    BY <2>1, <2>2
<1>7. QED
  <2>1. \A i, j \in DOMAIN yielded' : yielded'[i].folder = yielded'[j].folder => i = j
    BY <1>1, <1>5
  <2>2. ~Given(walkOpts.fileLimit) =>
          \A i \in DOMAIN yielded' : yielded'[i].files = FilesOf(yielded'[i].folder)
    BY <1>1, <1>6
  <2>3. QED
    BY <1>4, <2>1, <2>2 DEF Yields, FilesOf

LEMMA SumsStep ==
  ASSUME WalkTypeOK, Given(walkOpts.fileLimit) => fileCount <= walkOpts.fileLimit,
         NEW s, Sums(s), NEW f \in Folders, Yield(f), fileCount' = fileCount + CutFiles(f)
  PROVE  \E t \in [0..Len(yielded') -> Nat] : Sums(t)'
<1> DEFINE n == Len(yielded)
           t == [i \in 0..(n + 1) |-> IF i = n + 1 THEN s[n] + CutFiles(f) ELSE s[i]]
<1>1. /\ n \in Nat /\ Len(yielded') = n + 1
      /\ \A i \in 1..n : yielded'[i] = yielded[i]
      /\ yielded'[n + 1].files = CutFiles(f)
      /\ CutFiles(f) \in Nat /\ fileCount \in Nat
  BY YieldFacts, CutFacts, OptionFacts
<1>2. /\ s \in [0..n -> Nat] /\ s[0] = 0 /\ s[n] <= fileCount /\ s[n] \in Nat
      /\ \A i \in 1..n : s[i] = s[i - 1] + yielded[i].files
  BY <1>1 DEF Sums
<1> HIDE DEF n
<1>3. t \in [0..(n + 1) -> Nat] /\ t[0] = 0 /\ t[n + 1] = s[n] + CutFiles(f)
  BY <1>1, <1>2
<1>4. \A i \in 0..n : t[i] = s[i]
  BY <1>1
<1> HIDE DEF t
<1>5. ASSUME NEW i \in 1..(n + 1)
      PROVE  t[i] = t[i - 1] + yielded'[i].files
  <2>1. CASE i = n + 1
    <3>1. i - 1 = n /\ n \in 0..n
      BY <1>1, <2>1
    <3>2. QED
      BY <1>1, <1>3, <1>4, <2>1, <3>1
  <2>2. CASE i # n + 1
    <3>1. i \in 1..n /\ i \in 0..n /\ i - 1 \in 0..n
      BY <1>1, <2>2
    <3>2. QED
      BY <1>1, <1>2, <1>4, <3>1
  <2>3. QED
    BY <2>1, <2>2
<1>6. t[n + 1] <= fileCount + CutFiles(f)
  BY <1>1, <1>2, <1>3
<1>7. /\ t \in [0..Len(yielded') -> Nat] /\ t[0] = 0
      /\ \A i \in 1..Len(yielded') : t[i] = t[i - 1] + yielded'[i].files
      /\ t[Len(yielded')] <= fileCount'
  BY <1>1, <1>3, <1>5, <1>6
<1>8. QED
  BY <1>7 DEF Sums

-----------------------------------------------------------------------------
(* StorageWalk: every step keeps the invariant                             *)

LEMMA StartLevelOK == WalkIInv /\ StartLevel => WalkIInv'
<1> SUFFICES ASSUME WalkIInv, StartLevel
             PROVE  WalkIInv'
  OBVIOUS
<1>1. /\ TreeOK /\ WalkTypeOK /\ walkOpts.engine = "blob" /\ ~walkEnded /\ Level = {} /\ NextLevel # {}
      /\ parent' = parent /\ walkOpts' = walkOpts /\ yielded' = yielded
      /\ walkCount' = walkCount /\ fileCount' = fileCount /\ limitBreak' = limitBreak
  BY DEF WalkIInv, StartLevel
<1>2. PICK V \in SUBSET Folders : Visits(V) /\ Yields(V)
  BY DEF WalkIInv
<1>3. PICK k \in Nat : Levels(k)
  BY <1>1 DEF WalkIInv
<1>4. Level \in SUBSET Folders /\ NextLevel \in SUBSET Folders /\ Pending = NextLevel
  BY <1>1, <1>3, BlobPending DEF Levels
<1>5. Depth' = Depth /\ Depth \in [Folders -> Nat]
  BY <1>1, DepthSame, DepthFacts
<1>6. TreeOK' /\ Yields(V)'
  BY <1>1, <1>2, YieldsSame DEF TreeOK
<1>7. (Given(walkOpts.fileLimit) => fileCount <= walkOpts.fileLimit)'
  BY <1>1 DEF WalkIInv, Given
<1>8. \E s \in [0..Len(yielded') -> Nat] : Sums(s)'
  BY <1>1 DEF WalkIInv, Sums
<1>9. \A f : TooDeep(f)' <=> TooDeep(f)
  BY <1>1, DepthTestsSame
<1>10. CASE WalkLimitHit(walkCount) \/ limitBreak \/ \E f \in NextLevel : TooDeep(f)
  <2>1. walkEnded' = TRUE /\ todo' = todo
    BY <1>10 DEF StartLevel
  <2>2. Visits(V)'
    <3>1. Pending' = Pending /\ \A f : Unvisited(f)' <=> Unvisited(f)
      BY <2>1 DEF Pending, Unvisited
    <3>2. QED
      BY <1>1, <1>2, <3>1, VisitsSame DEF Visits
  <2>3. ASSUME NoLimits
        PROVE  \A f \in NextLevel : TooDeep(f)
    <3>1. ~WalkLimitHit(walkCount) /\ ~limitBreak
      BY <1>3, <2>3 DEF NoLimits, WalkLimitHit, Levels
    <3>2. PICK g \in NextLevel : TooDeep(g)
      BY <1>10, <3>1
    <3>3. \A f \in NextLevel : Depth[f] = Depth[g]
      BY <1>3 DEF Levels
    <3>4. QED
      BY <3>2, <3>3 DEF TooDeep
  <2>4. Levels(k)'
    <3>1. NoLimits' <=> NoLimits
      BY <1>1 DEF NoLimits, Given
    <3>2. Level' = Level /\ NextLevel' = NextLevel
      BY <2>1 DEF Level, NextLevel
    <3>3. QED
      BY <1>1, <1>3, <1>5, <1>9, <2>1, <2>3, <3>1, <3>2 DEF Levels, Given
  <2>5. WalkTypeOK'
    BY <1>1, <2>1 DEF WalkTypeOK
  <2>6. QED
    BY <1>1, <1>6, <1>7, <1>8, <2>2, <2>4, <2>5 DEF WalkIInv
<1>11. CASE ~(WalkLimitHit(walkCount) \/ limitBreak \/ \E f \in NextLevel : TooDeep(f))
  <2>1. walkEnded' = walkEnded /\ todo' = <<NextLevel, {}>>
    BY <1>11 DEF StartLevel
  <2>2. /\ Pending' = Pending /\ \A f \in Pending' : Unvisited(f)'
        /\ todo' \in Seq(SUBSET Folders) /\ Len(todo') = 2 /\ Level' = NextLevel /\ NextLevel' = {}
    <3> DEFINE none == {}
    <3>1. LevelsNext(NextLevel, none) /\ NextLevel \cap none = {} /\ NextLevel \union none = NextLevel
      BY <1>4, <2>1 DEF LevelsNext
    <3> HIDE DEF none
    <3>2. /\ Pending' = Pending /\ \A f \in Pending' : Unvisited(f)'
          /\ todo' \in Seq(SUBSET Folders) /\ Len(todo') = 2 /\ Level' = NextLevel /\ NextLevel' = none
      BY <1>4, <3>1, BlobPendingNext
    <3>3. QED
      BY <3>2 DEF none
  <2>3. Visits(V)'
    BY <1>1, <1>2, <2>2, VisitsSame
  <2>4. \A f \in NextLevel : Depth[f] + 1 = k + 1 /\ ~TooDeep(f)
    BY <1>3, <1>11 DEF Levels
  <2>5. \A i \in DOMAIN yielded : Depth[yielded[i].folder] + 1 <= k + 1
    <3>1. \A i \in DOMAIN yielded : Depth[yielded[i].folder] \in Nat
      BY <1>1, <1>5, YieldedFacts
    <3>2. QED
      BY <1>3, <3>1 DEF Levels
  <2>6. Levels(k + 1)'
    BY <1>1, <1>3, <1>5, <1>9, <2>1, <2>2, <2>4, <2>5 DEF Levels, Given
  <2>7. WalkTypeOK'
    BY <1>1, <2>1, <2>2 DEF WalkTypeOK
  <2>8. k + 1 \in Nat
    OBVIOUS
  <2>9. QED
    BY <1>1, <1>6, <1>7, <1>8, <2>3, <2>6, <2>7, <2>8 DEF WalkIInv
<1>12. QED
  BY <1>10, <1>11

LEMMA BlobFolderOK == ASSUME WalkIInv, NEW f \in Folders, BlobFolder(f) PROVE WalkIInv'
<1>1. /\ TreeOK /\ WalkTypeOK /\ walkOpts.engine = "blob" /\ ~walkEnded /\ f \in Level
      /\ parent' = parent /\ walkOpts' = walkOpts
      /\ limitBreak' = (limitBreak \/ Overrun(f))
      /\ Given(walkOpts.fileLimit) => fileCount <= walkOpts.fileLimit
  BY DEF WalkIInv, BlobFolder
<1>2. PICK V \in SUBSET Folders : Visits(V) /\ Yields(V)
  BY DEF WalkIInv
<1>3. PICK k \in Nat : Levels(k)
  BY <1>1 DEF WalkIInv
<1>4. PICK s \in [0..Len(yielded) -> Nat] : Sums(s)
  BY <1>1 DEF WalkIInv
<1>5. /\ Level \in SUBSET Folders /\ NextLevel \in SUBSET Folders /\ Pending = Level \union NextLevel
      /\ Level \cap NextLevel = {} /\ f \in Pending
  <2>1. Len(todo) = 2
    BY <1>3 DEF Levels
  <2>2. QED
    BY <1>1, <1>2, <2>1, BlobPending DEF Visits
<1>6. Depth' = Depth /\ Depth \in [Folders -> Nat] /\ \A g \in Folders \ {1} : Depth[g] = Depth[parent[g]] + 1
  BY <1>1, DepthSame, DepthFacts
<1>7. /\ CutFiles(f) \in Nat /\ fileCount \in Nat /\ walkCount \in Nat /\ limitBreak \in BOOLEAN
      /\ Given(walkOpts.fileLimit) => fileCount + CutFiles(f) <= walkOpts.fileLimit
      /\ ~Given(walkOpts.fileLimit) => ~Overrun(f)
  BY <1>1, CutFacts, OptionFacts
<1>8. TreeOK' /\ limitBreak' \in BOOLEAN
  BY <1>1 DEF TreeOK
<1>9. \A g : (TooDeep(g)' <=> TooDeep(g)) /\ (NoLimits' <=> NoLimits)
  BY <1>1, DepthTestsSame DEF NoLimits, Given
<1>10. ~Given(walkOpts.fileLimit) => ~limitBreak'
  BY <1>1, <1>3, <1>7 DEF Levels
<1>11. CASE CutFiles(f) = 0 /\ Overrun(f)
  <2>1. walkEnded' = TRUE /\ todo' = todo /\ yielded' = yielded /\ walkCount' = walkCount /\ fileCount' = fileCount
    BY <1>11 DEF BlobFolder
  <2>2. ~NoLimits
    BY <1>7, <1>11 DEF NoLimits
  <2>3. Visits(V)'
    <3>1. Pending' = Pending /\ \A g : Unvisited(g)' <=> Unvisited(g)
      BY <2>1 DEF Pending, Unvisited
    <3>2. QED
      BY <1>1, <1>2, <3>1, VisitsSame DEF Visits
  <2>4. Yields(V)'
    BY <1>1, <1>2, <2>1, YieldsSame
  <2>5. Levels(k)'
    <3>1. Level' = Level /\ NextLevel' = NextLevel
      BY <2>1 DEF Level, NextLevel
    <3>2. QED
      BY <1>1, <1>3, <1>6, <1>9, <1>10, <2>1, <2>2, <3>1 DEF Levels, Given
  <2>6. WalkTypeOK'
    BY <1>1, <1>8, <2>1 DEF WalkTypeOK
  <2>7. (Given(walkOpts.fileLimit) => fileCount <= walkOpts.fileLimit)'
    BY <1>1, <2>1 DEF Given
  <2>8. \E t \in [0..Len(yielded') -> Nat] : Sums(t)'
    BY <1>4, <2>1 DEF Sums
  <2>9. QED
    BY <1>1, <1>8, <2>3, <2>4, <2>5, <2>6, <2>7, <2>8 DEF WalkIInv
<1>12. CASE ~(CutFiles(f) = 0 /\ Overrun(f))
  <2>1. /\ todo' = <<Level \ {f}, NextLevel \union Matching(f)>>
        /\ walkCount' = walkCount + 1 /\ fileCount' = fileCount + CutFiles(f)
        /\ walkEnded' = walkEnded
        /\ IF PassedOver(f) THEN yielded' = yielded ELSE Yield(f)
    BY <1>12 DEF BlobFolder
  <2>2. /\ f \notin V /\ Matching(f) \cap (V \union Pending) = {}
        /\ \A g \in Matching(f) : g \in Folders /\ g # 1 /\ parent[g] = f
    BY <1>1, <1>2, <1>5, MatchingFresh, MatchingFacts, OptionFacts
  <2>3. /\ Pending' = (Pending \ {f}) \union Matching(f) /\ \A g \in Pending' : Unvisited(g)'
        /\ todo' \in Seq(SUBSET Folders) /\ Len(todo') = 2
        /\ Level' = Level \ {f} /\ NextLevel' = NextLevel \union Matching(f)
    <3>1. LevelsNext(Level \ {f}, NextLevel \union Matching(f))
      BY <1>5, <2>1, <2>2 DEF LevelsNext
    <3>2. (Level \ {f}) \cap (NextLevel \union Matching(f)) = {}
      BY <1>5, <2>2
    <3>3. /\ Pending' = (Level \ {f}) \union (NextLevel \union Matching(f))
          /\ \A g \in Pending' : Unvisited(g)'
          /\ todo' \in Seq(SUBSET Folders) /\ Len(todo') = 2
          /\ Level' = Level \ {f} /\ NextLevel' = NextLevel \union Matching(f)
      BY <3>1, <3>2, BlobPendingNext
    <3>4. QED
      BY <1>5, <3>3
  <2>4. Visits(V \union {f})'
    BY <1>1, <1>2, <1>5, <2>3, VisitStep, OptionFacts
  <2>5. Depth[f] + 1 = k /\ ~TooDeep(f)
    BY <1>1, <1>3 DEF Levels
  <2>6. Yields(V \union {f})'
    <3>1. CASE PassedOver(f)
      BY <1>1, <1>2, <2>1, <3>1, YieldsSkip
    <3>2. CASE ~PassedOver(f)
      BY <1>1, <1>2, <2>1, <2>2, <2>5, <3>2, YieldsStep
    <3>3. QED
      BY <3>1, <3>2
  <2>7. yielded' \in Seq([folder : Folders, files : Nat]) /\ \E t \in [0..Len(yielded') -> Nat] : Sums(t)'
    <3>1. CASE PassedOver(f)
      <4>1. yielded' = yielded
        BY <2>1, <3>1
      <4>2. Sums(s)'
        <5>1. s[Len(yielded)] \in Nat
          BY <1>1, <1>4, YieldedFacts DEF Sums
        <5>2. s[Len(yielded)] <= fileCount + CutFiles(f)
          BY <1>4, <1>7, <5>1 DEF Sums
        <5>3. QED
          BY <1>4, <2>1, <4>1, <5>2 DEF Sums
      <4>3. QED
        BY <1>1, <1>4, <4>1, <4>2 DEF WalkTypeOK
    <3>2. CASE ~PassedOver(f)
      <4>1. Yield(f)
        BY <2>1, <3>2
      <4>2. yielded' \in Seq([folder : Folders, files : Nat])
        BY <1>1, <4>1, YieldFacts
      <4>3. \E t \in [0..Len(yielded') -> Nat] : Sums(t)'
        BY <1>1, <1>4, <2>1, <4>1, SumsStep
      <4>4. QED
        BY <4>2, <4>3
    <3>3. QED
      BY <3>1, <3>2
  <2>8. /\ \A i \in DOMAIN yielded' : Depth[yielded'[i].folder] + 1 <= k
        /\ \A i \in DOMAIN yielded' : \A j \in 1..i :
             Depth[yielded'[j].folder] <= Depth[yielded'[i].folder]
    <3>1. /\ \A i \in DOMAIN yielded : Depth[yielded[i].folder] + 1 <= k
          /\ \A i \in DOMAIN yielded : \A j \in 1..i :
               Depth[yielded[j].folder] <= Depth[yielded[i].folder]
      BY <1>3 DEF Levels
    <3>2. CASE PassedOver(f)
      BY <2>1, <3>1, <3>2
    <3>3. CASE ~PassedOver(f)
      <4> DEFINE n == Len(yielded)
      <4>1. /\ n \in Nat /\ DOMAIN yielded = 1..n /\ DOMAIN yielded' = 1..(n + 1)
            /\ \A i \in 1..n : yielded'[i] = yielded[i] /\ yielded[i].folder \in Folders
            /\ yielded'[n + 1].folder = f
        BY <1>1, <2>1, <3>3, YieldFacts
      <4>2. \A i \in 1..n : Depth[yielded[i].folder] \in Nat
        BY <1>6, <4>1
      <4>3. Depth[f] \in Nat
        BY <1>6
      <4> HIDE DEF n
      <4>4. ASSUME NEW i \in 1..(n + 1)
            PROVE  /\ Depth[yielded'[i].folder] + 1 <= k
                   /\ \A j \in 1..i : Depth[yielded'[j].folder] <= Depth[yielded'[i].folder]
        <5>1. CASE i = n + 1
          <6>1. Depth[yielded'[i].folder] = Depth[f]
            BY <4>1, <5>1
          <6>2. ASSUME NEW j \in 1..i
                PROVE  Depth[yielded'[j].folder] <= Depth[f]
            <7>1. CASE j = n + 1
              BY <4>1, <4>3, <7>1
            <7>2. CASE j # n + 1
              <8>1. j \in 1..n
                BY <4>1, <5>1, <7>2
              <8>2. Depth[yielded[j].folder] + 1 <= k /\ Depth[yielded[j].folder] \in Nat
                BY <3>1, <4>1, <4>2, <8>1
              <8>3. Depth[yielded[j].folder] <= Depth[f]
                BY <2>5, <4>3, <8>2
              <8>4. QED
                BY <4>1, <8>1, <8>3
            <7>3. QED
              BY <7>1, <7>2
          <6>3. QED
            BY <2>5, <4>3, <6>1, <6>2
        <5>2. CASE i # n + 1
          <6>1. i \in 1..n /\ \A j \in 1..i : j \in 1..n
            BY <4>1, <5>2
          <6>2. QED
            BY <3>1, <4>1, <6>1
        <5>3. QED
          BY <5>1, <5>2
      <4>5. QED
        BY <4>1, <4>4
    <3>4. QED
      BY <3>2, <3>3
  <2>9. Levels(k)'
    <3>1. \A g \in Level' : Depth[g] + 1 = k /\ ~TooDeep(g)
      BY <1>3, <2>3 DEF Levels
    <3>2. \A g \in NextLevel' : Depth[g] = k
      BY <1>3, <1>6, <2>2, <2>3, <2>5 DEF Levels
    <3>3. QED
      BY <1>1, <1>6, <1>9, <1>10, <2>1, <2>3, <2>8, <3>1, <3>2 DEF Levels, Given
  <2>10. WalkTypeOK'
    BY <1>1, <1>7, <1>8, <2>1, <2>3, <2>7 DEF WalkTypeOK
  <2>11. (Given(walkOpts.fileLimit) => fileCount <= walkOpts.fileLimit)'
    BY <1>1, <1>7, <2>1 DEF Given
  <2>12. (V \union {f}) \in SUBSET Folders
    OBVIOUS
  <2>13. QED
    BY <1>1, <1>8, <2>4, <2>6, <2>7, <2>9, <2>10, <2>11, <2>12 DEF WalkIInv
<1>13. QED
  BY <1>11, <1>12

LEMMA LocalFolderOK == ASSUME WalkIInv, NEW f \in Folders, LocalFolder(f) PROVE WalkIInv'
<1>1. /\ TreeOK /\ WalkTypeOK /\ walkOpts.engine = "local" /\ ~walkEnded /\ f \in Head(todo)
      /\ todo' = <<Matching(f), Head(todo) \ {f}>> \o Tail(todo)
      /\ parent' = parent /\ walkOpts' = walkOpts /\ fileCount' = fileCount /\ limitBreak' = limitBreak
      /\ Given(walkOpts.fileLimit) => fileCount <= walkOpts.fileLimit
  BY DEF WalkIInv, LocalFolder
<1>2. PICK V \in SUBSET Folders : Visits(V) /\ Yields(V)
  BY DEF WalkIInv
<1>3. LocalStack
  BY <1>1 DEF WalkIInv
<1>4. /\ walkOpts.walkLimit \in Nat /\ walkCount \in Nat /\ walkOpts \in WalkOptions
      /\ ~Given(walkOpts.fileLimit) => ~Overrun(f)
  BY <1>1, CutFacts, OptionFacts
<1>5. f \in Pending
  <2>1. 1 \in DOMAIN todo /\ f \in todo[1]
    BY <1>1, <1>3 DEF LocalStack, WalkTypeOK
  <2>2. QED
    BY <2>1 DEF Pending
<1>6. f \notin V /\ Matching(f) \cap (V \union Pending) = {} /\ Matching(f) \in SUBSET Folders
  BY <1>1, <1>2, <1>4, <1>5, MatchingFresh, MatchingFacts
<1>7. /\ Pending' = (Pending \ {f}) \union Matching(f) /\ \A g \in Pending' : Unvisited(g)'
      /\ todo' \in Seq(SUBSET Folders) /\ Len(todo') > 0
  <2>1. Matching(f) \cap Pending = {} /\ Len(todo) > 0 /\ \A g \in Pending : Unvisited(g)
    BY <1>2, <1>3, <1>6 DEF Visits, LocalStack
  <2> DEFINE M == Matching(f)
  <2>2. M \in SUBSET Folders /\ M \cap Pending = {} /\ todo' = <<M, Head(todo) \ {f}>> \o Tail(todo)
    BY <1>1, <1>6, <2>1
  <2> HIDE DEF M
  <2>3. /\ Pending' = (Pending \ {f}) \union M /\ \A g \in Pending' : Unvisited(g)'
        /\ todo' \in Seq(SUBSET Folders) /\ Len(todo') > 0
    BY <1>1, <2>1, <2>2, LocalPending
  <2>4. QED
    BY <2>3 DEF M
<1>8. Visits(V \union {f})'
  BY <1>1, <1>2, <1>4, <1>5, <1>7, VisitStep
<1>9. CASE PassedOver(f) \/ TooDeep(f)
  <2>1. yielded' = yielded /\ walkCount' = walkCount /\ walkEnded' = walkEnded
    BY <1>9 DEF LocalFolder
  <2>2. Yields(V \union {f})'
    BY <1>1, <1>2, <1>9, <2>1, YieldsSkip
  <2>3. WalkTypeOK'
    BY <1>1, <1>7, <2>1 DEF WalkTypeOK
  <2>4. LocalStack'
    BY <1>1, <1>3, <1>7, <2>1 DEF LocalStack, NoLimits, Given
  <2>5. QED
    BY <1>1, <1>8, <2>2, <2>3, <2>4 DEF WalkIInv, TreeOK, Given
<1>10. CASE ~(PassedOver(f) \/ TooDeep(f))
  <2>1. /\ Yield(f) /\ walkCount' = walkCount + 1
        /\ walkEnded' = (Overrun(f) \/ WalkLimitHit(walkCount + 1))
    BY <1>10 DEF LocalFolder
  <2>2. Yields(V \union {f})'
    BY <1>1, <1>2, <1>6, <1>10, <2>1, YieldsStep
  <2>3. /\ yielded' \in Seq([folder : Folders, files : Nat]) /\ Len(yielded) \in Nat
        /\ Len(yielded') = Len(yielded) + 1
    BY <1>1, <2>1, YieldFacts
  <2>4. walkEnded' \in BOOLEAN /\ walkCount' \in Nat
    BY <1>4, <2>1
  <2>5. WalkTypeOK'
    BY <1>1, <1>7, <2>3, <2>4 DEF WalkTypeOK
  <2>6. walkEnded' => ~NoLimits
    BY <1>4, <2>1 DEF NoLimits, WalkLimitHit
  <2>7. ASSUME Given(walkOpts.walkLimit)
        PROVE  /\ walkCount' = Len(yielded') /\ walkCount' <= walkOpts.walkLimit
               /\ ~walkEnded' => walkCount' < walkOpts.walkLimit
    <3>1. walkCount = Len(yielded) /\ walkCount < walkOpts.walkLimit
      BY <1>1, <1>3, <2>7 DEF LocalStack
    <3>2. ~walkEnded' => ~(walkCount + 1 >= walkOpts.walkLimit)
      BY <2>1, <2>7 DEF WalkLimitHit
    <3>3. QED
      BY <1>4, <2>1, <2>3, <3>1, <3>2
  <2>8. LocalStack'
    BY <1>1, <1>3, <1>7, <2>6, <2>7 DEF LocalStack, NoLimits, Given
  <2>9. QED
    BY <1>1, <1>8, <2>2, <2>5, <2>8 DEF WalkIInv, TreeOK, Given
<1>11. QED
  BY <1>9, <1>10

LEMMA LocalReturnsOK == WalkIInv /\ LocalReturns => WalkIInv'
<1> SUFFICES ASSUME WalkIInv, LocalReturns
             PROVE  WalkIInv'
  OBVIOUS
<1>1. /\ TreeOK /\ WalkTypeOK /\ walkOpts.engine = "local"
      /\ Len(todo) > 1 /\ Head(todo) = {} /\ todo' = Tail(todo)
      /\ parent' = parent /\ walkOpts' = walkOpts /\ yielded' = yielded /\ walkEnded' = walkEnded
      /\ walkCount' = walkCount /\ fileCount' = fileCount /\ limitBreak' = limitBreak
  BY DEF WalkIInv, LocalReturns
<1>2. PICK V \in SUBSET Folders : Visits(V) /\ Yields(V)
  BY DEF WalkIInv
<1>3. /\ Pending' = Pending /\ \A g \in Pending' : Unvisited(g)'
      /\ todo' \in Seq(SUBSET Folders) /\ Len(todo') > 0
  <2>1. \A g \in Pending : Unvisited(g)
    BY <1>2 DEF Visits
  <2>2. QED
    BY <1>1, <2>1, LocalPendingTail
<1>4. Visits(V)' /\ Yields(V)'
  BY <1>1, <1>2, <1>3, VisitsSame, YieldsSame
<1>5. WalkTypeOK'
  BY <1>1, <1>3 DEF WalkTypeOK
<1>6. LocalStack'
  BY <1>1, <1>3 DEF WalkIInv, LocalStack, NoLimits, Given
<1>7. TreeOK' /\ (Given(walkOpts.fileLimit) => fileCount <= walkOpts.fileLimit)'
  BY <1>1 DEF WalkIInv, TreeOK, Given
<1>8. QED
  BY <1>1, <1>4, <1>5, <1>6, <1>7 DEF WalkIInv

LEMMA WalkStutterOK == WalkIInv /\ UNCHANGED walkVars => WalkIInv'
<1> SUFFICES ASSUME WalkIInv, UNCHANGED walkVars
             PROVE  WalkIInv'
  OBVIOUS
<1>1. /\ parent' = parent /\ walkOpts' = walkOpts /\ todo' = todo /\ yielded' = yielded
      /\ walkCount' = walkCount /\ fileCount' = fileCount /\ limitBreak' = limitBreak
      /\ walkEnded' = walkEnded
  BY DEF walkVars
<1>2. Depth' = Depth /\ \A f : (PassedOver(f)' <=> PassedOver(f)) /\ (TooDeep(f)' <=> TooDeep(f))
  BY <1>1, DepthSame, DepthTestsSame
<1>3. Pending' = Pending /\ \A f : Unvisited(f)' <=> Unvisited(f)
  BY <1>1 DEF Pending, Unvisited
<1>4. ASSUME NEW V, Visits(V), Yields(V)
      PROVE  Visits(V)' /\ Yields(V)'
  BY <1>1, <1>3, <1>4, VisitsSame, YieldsSame DEF Visits
<1>5. \A k : Levels(k) => Levels(k)'
  BY <1>1, <1>2 DEF Levels, Level, NextLevel, NoLimits, Given
<1>6. \A s : Sums(s) => Sums(s)'
  BY <1>1 DEF Sums
<1>7. LocalStack => LocalStack'
  BY <1>1 DEF LocalStack, NoLimits, Given
<1>8. TreeOK' /\ WalkTypeOK' /\ (Given(walkOpts.fileLimit) => fileCount <= walkOpts.fileLimit)'
  BY <1>1 DEF WalkIInv, TreeOK, WalkTypeOK, Given
<1>9. \E V \in SUBSET Folders : Visits(V)' /\ Yields(V)'
  BY <1>4 DEF WalkIInv
<1>10. QED
  BY <1>1, <1>5, <1>6, <1>7, <1>8, <1>9 DEF WalkIInv

LEMMA WalkNextOK == WalkIInv /\ [WalkNext]_walkVars => WalkIInv'
BY StartLevelOK, BlobFolderOK, LocalFolderOK, LocalReturnsOK, WalkStutterOK DEF WalkNext

-----------------------------------------------------------------------------
(* StorageWalk: the invariant gives the property                           *)

\* A property of folders that the base has, and each folder whose parent has it, is that of all.
LEMMA LeastFolder ==
  ASSUME NEW S \in SUBSET Folders, S # {}
  PROVE  \E f \in S : \A g \in S : f <= g
<1>1. S \in SUBSET Nat
  BY FolderFacts
<1>2. QED
  BY <1>1, LeastOf

\* Where the walk has been is reached.
LEMMA VisitedReached ==
  ASSUME TreeOK, walkOpts \in WalkOptions, NEW V, Visits(V)
  PROVE  \A f \in V : Reached[f]
<1> DEFINE Bad == {f \in Folders : f \in V /\ ~Reached[f]}
<1>1. /\ V \in SUBSET Folders
      /\ \A f \in V : f = walkOpts.start \/ (f # 1 /\ parent[f] \in V /\ f \in Matching(parent[f]))
  BY DEF Visits
<1>2. SUFFICES ASSUME Bad # {}
               PROVE  FALSE
  BY <1>1
<1>3. PICK f \in Bad : \A g \in Bad : f <= g
  <2>1. Bad \in SUBSET Folders
    OBVIOUS
  <2> HIDE DEF Bad
  <2>2. QED
    BY <1>2, <2>1, LeastFolder
<1>4. f \in Folders /\ f \in V /\ ~Reached[f]
  BY <1>3
<1>5. f # walkOpts.start
  BY <1>4, ReachedFacts
<1>6. f # 1 /\ parent[f] \in V /\ parent[f] \in Folders /\ f \in Matching(parent[f]) /\ parent[f] < f
  BY <1>1, <1>4, <1>5 DEF TreeOK
<1>7. parent[f] \notin Bad
  <2>1. ~(f <= parent[f])
    BY <1>4, <1>6, FolderFacts
  <2> HIDE DEF Bad
  <2>2. QED
    BY <1>3, <2>1
<1>8. Reached[parent[f]]
  BY <1>6, <1>7
<1>9. Depth[f] = Depth[parent[f]] + 1
  BY <1>4, <1>6, DepthFacts
<1>10. walkOpts.atDepth \in {{}, {Depth[f]}} => f \in walkOpts.folderMatches
  BY <1>6, <1>9 DEF Matching
<1>11. QED
  BY <1>4, <1>6, <1>8, <1>10, ReachedFacts

\* When all that is pending is too deep, the walk has been to what is reached and is not.
LEMMA ReachedVisited ==
  ASSUME TreeOK, walkOpts \in WalkOptions, NEW V, Visits(V), \A f \in Pending : TooDeep(f)
  PROVE  \A f \in Folders : Reached[f] /\ ~TooDeep(f) => f \in V
<1> DEFINE Bad == {f \in Folders : Reached[f] /\ ~TooDeep(f) /\ f \notin V}
<1>1. /\ V \in SUBSET Folders /\ walkOpts.start \in V \union Pending
      /\ \A f \in V : Matching(f) \subseteq V \union Pending
  BY DEF Visits
<1>2. SUFFICES ASSUME Bad # {}
               PROVE  FALSE
  OBVIOUS
<1>3. PICK f \in Bad : \A g \in Bad : f <= g
  <2>1. Bad \in SUBSET Folders
    OBVIOUS
  <2> HIDE DEF Bad
  <2>2. QED
    BY <1>2, <2>1, LeastFolder
<1>4. f \in Folders /\ Reached[f] /\ ~TooDeep(f) /\ f \notin V /\ f \notin Pending
  BY <1>3
<1>5. f # walkOpts.start
  BY <1>1, <1>4
<1>6. /\ f # 1 /\ Reached[parent[f]]
      /\ walkOpts.atDepth \in {{}, {Depth[f]}} => f \in walkOpts.folderMatches
  BY <1>4, <1>5, ReachedFacts
<1>7. parent[f] \in Folders /\ parent[f] < f
  BY <1>4, <1>6 DEF TreeOK
<1>8. Depth[f] = Depth[parent[f]] + 1 /\ Depth[parent[f]] \in Nat
  BY <1>4, <1>6, <1>7, DepthFacts
<1>9. ~TooDeep(parent[f])
  <2>1. walkOpts.maxDepth \in Nat
    BY WalkAssumption DEF WalkOptions, Options
  <2>2. QED
    BY <1>4, <1>8, <2>1 DEF TooDeep
<1>10. parent[f] \in V
  <2>1. ~(f <= parent[f])
    BY <1>4, <1>7, FolderFacts
  <2>2. parent[f] \notin Bad
    <3> HIDE DEF Bad
    <3>1. QED
      BY <1>3, <2>1
  <2>3. QED
    BY <1>6, <1>7, <1>9, <2>2
<1>11. f \in Matching(parent[f])
  BY <1>4, <1>6, <1>8 DEF Matching, Children
<1>12. QED
  BY <1>1, <1>4, <1>10, <1>11

LEMMA WalkCovers ==
  ASSUME WalkIInv
  PROVE  WalkCoversTree
<1> DEFINE wanted == {f \in Folders : Reached[f] /\ ~PassedOver(f) /\ ~TooDeep(f)}
<1>1. TreeOK /\ WalkTypeOK /\ walkOpts \in WalkOptions /\ walkOpts.engine \in {"blob", "local"}
  BY OptionFacts DEF WalkIInv
<1>2. PICK V \in SUBSET Folders : Visits(V) /\ Yields(V)
  BY DEF WalkIInv
<1>3. ASSUME WalkDone, NoLimits
      PROVE  /\ {yielded[i] : i \in DOMAIN yielded} =
                  {[folder |-> f, files |-> FilesOf(f)] : f \in wanted}
             /\ Len(yielded) = Cardinality(wanted)
  <2>1. \A f \in Pending : TooDeep(f)
    <3>1. CASE \A i \in DOMAIN todo : todo[i] = {}
      BY <3>1 DEF Pending
    <3>2. CASE walkEnded
      <4>1. walkOpts.engine = "blob"
        BY <1>1, <1>3, <3>2 DEF WalkIInv, LocalStack
      <4>2. PICK k \in Nat : Levels(k)
        BY <4>1 DEF WalkIInv
      <4>3. Len(todo) = 2 /\ Level = {} /\ \A f \in NextLevel : TooDeep(f)
        BY <1>3, <3>2, <4>2 DEF Levels
      <4>4. QED
        BY <1>1, <4>3, BlobPending
    <3>3. QED
      BY <1>3, <3>1, <3>2 DEF WalkDone
  <2>2. wanted = {f \in V : ~PassedOver(f) /\ ~TooDeep(f)}
    BY <1>1, <1>2, <2>1, VisitedReached, ReachedVisited
  <2>3. {yielded[i].folder : i \in DOMAIN yielded} = wanted
    BY <1>2, <2>2 DEF Yields
  <2> HIDE DEF wanted
  <2>4. /\ Len(yielded) \in Nat /\ DOMAIN yielded = 1..Len(yielded)
        /\ \A i \in 1..Len(yielded) : yielded[i] \in [folder : Folders, files : Nat]
    <3> DEFINE R == [folder : Folders, files : Nat]
    <3>1. yielded \in Seq(R)
      BY <1>1 DEF WalkTypeOK
    <3> HIDE DEF R
    <3>2. Len(yielded) \in Nat /\ DOMAIN yielded = 1..Len(yielded) /\ \A i \in 1..Len(yielded) : yielded[i] \in R
      BY <3>1
    <3>3. QED
      BY <3>2 DEF R
  <2>5. \A i \in 1..Len(yielded) :
          yielded[i] = [folder |-> yielded[i].folder, files |-> FilesOf(yielded[i].folder)]
    <3>1. \A i \in 1..Len(yielded) : yielded[i].files = FilesOf(yielded[i].folder)
      BY <1>2, <1>3, <2>4 DEF Yields, NoLimits
    <3>2. QED
      BY <2>4, <3>1
  <2>6. {yielded[i] : i \in DOMAIN yielded} = {[folder |-> f, files |-> FilesOf(f)] : f \in wanted}
    <3>1. ASSUME NEW i \in DOMAIN yielded
          PROVE  yielded[i] \in {[folder |-> f, files |-> FilesOf(f)] : f \in wanted}
      BY <2>3, <2>4, <2>5
    <3>2. ASSUME NEW f \in wanted
          PROVE  [folder |-> f, files |-> FilesOf(f)] \in {yielded[i] : i \in DOMAIN yielded}
      <4>1. PICK i \in DOMAIN yielded : yielded[i].folder = f
        BY <2>3
      <4>2. yielded[i] = [folder |-> f, files |-> FilesOf(f)]
        BY <2>4, <2>5, <4>1
      <4>3. QED
        BY <4>2
    <3>3. QED
      BY <3>1, <3>2
  <2>7. Len(yielded) = Cardinality(wanted)
    <3> DEFINE g == [i \in 1..Len(yielded) |-> yielded[i].folder]
    <3>1. g \in [1..Len(yielded) -> wanted]
      BY <2>3, <2>4
    <3>2. g \in Injection(1..Len(yielded), wanted)
      <4>1. \A i, j \in 1..Len(yielded) : g[i] = g[j] => i = j
        BY <1>2, <2>4 DEF Yields
      <4> HIDE DEF g
      <4>2. QED
        BY <3>1, <4>1 DEF Injection, IsInjective
    <3>3. g \in Surjection(1..Len(yielded), wanted)
      <4>1. \A f \in wanted : \E i \in 1..Len(yielded) : g[i] = f
        BY <2>3, <2>4
      <4> HIDE DEF g
      <4>2. QED
        BY <3>1, <4>1 DEF Surjection
    <3>4. ExistsBijection(1..Len(yielded), wanted)
      BY <3>2, <3>3 DEF Bijection, ExistsBijection
    <3>5. QED
      BY <2>4, <3>4, FS_CountingElements
  <2>8. QED
    BY <2>6, <2>7
<1>4. ASSUME walkOpts.engine = "blob"
      PROVE  \A i \in DOMAIN yielded : \A j \in 1..i :
               Depth[yielded[j].folder] <= Depth[yielded[i].folder]
  BY <1>4 DEF WalkIInv, Levels
<1>5. QED
  BY <1>3, <1>4 DEF WalkCoversTree, NoLimits

\* The files yielded are the last of the sums.
LEMMA FilesYieldedFacts ==
  ASSUME Len(yielded) \in Nat, NEW s, Sums(s)
  PROVE  FilesYielded[Len(yielded)] = s[Len(yielded)]
<1> DEFINE n == Len(yielded)
<1>1. /\ s \in [0..n -> Nat] /\ s[0] = 0
      /\ \A i \in 1..n : s[i] = s[i - 1] + yielded[i].files
  BY DEF Sums
<1>2. s = [i \in 0..n |-> IF i = 0 THEN 0 ELSE s[i - 1] + yielded[i].files]
  <2>1. \A i \in 0..n : i # 0 => i \in 1..n
    OBVIOUS
  <2> HIDE DEF n
  <2>2. QED
    BY <1>1, <2>1
<1>3. FilesYielded = [i \in 0..n |-> IF i = 0 THEN 0 ELSE FilesYielded[i - 1] + yielded[i].files]
  BY <1>2 DEF FilesYielded
<1> DEFINE Bad == {i \in 0..n : FilesYielded[i] # s[i]}
<1>4. SUFFICES ASSUME Bad # {}
               PROVE  FALSE
  OBVIOUS
<1>5. PICK m \in Bad : \A i \in Bad : m <= i
  <2>1. Bad \in SUBSET Nat
    OBVIOUS
  <2> HIDE DEF Bad
  <2>2. QED
    BY <1>4, <2>1, LeastOf
<1>6. m \in 0..n /\ FilesYielded[m] # s[m]
  BY <1>5
<1>7. \A i \in 0..n : FilesYielded[i] = IF i = 0 THEN 0 ELSE FilesYielded[i - 1] + yielded[i].files
  <2> HIDE DEF Bad
  <2>1. QED
    BY <1>3
<1>8. m \in 1..n /\ m - 1 \in 0..n /\ ~(m <= m - 1)
  BY <1>1, <1>6, <1>7
<1>9. m - 1 \notin Bad
  <2> HIDE DEF Bad
  <2>1. QED
    BY <1>5, <1>8
<1>10. FilesYielded[m - 1] = s[m - 1]
  BY <1>8, <1>9
<1>11. QED
  BY <1>1, <1>6, <1>7, <1>8, <1>10

LEMMA WalkLimits ==
  ASSUME WalkIInv
  PROVE  WalkKeepsLimits
<1>1. /\ Len(yielded) \in Nat /\ fileCount \in Nat /\ walkOpts.fileLimit \in Nat
  BY OptionFacts, YieldedFacts DEF WalkIInv
<1>2. ASSUME walkOpts.engine = "blob", Given(walkOpts.fileLimit)
      PROVE  FilesYielded[Len(yielded)] <= walkOpts.fileLimit
  <2>1. PICK s : Sums(s)
    BY <1>2 DEF WalkIInv
  <2>2. FilesYielded[Len(yielded)] = s[Len(yielded)]
    BY <1>1, <2>1, FilesYieldedFacts
  <2>3. s[Len(yielded)] <= fileCount /\ s[Len(yielded)] \in Nat
    BY <1>1, <2>1 DEF Sums
  <2>4. fileCount <= walkOpts.fileLimit
    BY <1>2 DEF WalkIInv
  <2>5. QED
    BY <1>1, <2>2, <2>3, <2>4
<1>3. ASSUME walkOpts.engine = "local", Given(walkOpts.walkLimit)
      PROVE  Len(yielded) <= walkOpts.walkLimit
  BY <1>3 DEF WalkIInv, LocalStack
<1>4. QED
  BY <1>2, <1>3 DEF WalkKeepsLimits

\* A walk has the types of its variables.
THEOREM WalkIsTyped == WalkSpec => []WalkTypeOK
<1>1. WalkIInv => WalkTypeOK
  BY DEF WalkIInv
<1>2. QED
  BY <1>1, WalkInitOK, WalkNextOK, PTL DEF WalkSpec

\* Storage.walk, of any tree with any options: without limits it yields each folder that is to be
\* yielded once with all its files, whatever the order of the listings, and it keeps its limits.
THEOREM WalkComplete == WalkSpec => []WalkIsComplete
<1>1. WalkIInv => WalkIsComplete
  BY WalkCovers, WalkLimits DEF WalkIsComplete
<1>2. QED
  BY <1>1, WalkInitOK, WalkNextOK, PTL DEF WalkSpec

-----------------------------------------------------------------------------
(* StorageFiles: names                                                     *)

Texts == Seq(Segments)

LEMMA FileNameFacts ==
  /\ FileNames \in Seq(Texts) /\ Len(FileNames) \in Nat /\ DOMAIN FileNames = 1..Len(FileNames)
  /\ \A i \in DOMAIN FileNames : FileNames[i] \in Names
  /\ \A n \in Names : n \in Texts /\ n # <<>> /\ Len(n) \in Nat /\ Len(n) > 0
  /\ \A n \in Names : \E i \in DOMAIN FileNames : n = FileNames[i]
<1> DEFINE Full == Texts \ {<<>>}
<1>1. FileNames \in Seq(Full)
  BY FilesAssumption DEF Texts
<1>2. Full \subseteq Texts /\ \A n \in Full : n \in Texts /\ n # <<>>
  OBVIOUS
<1> HIDE DEF Full
<1>3. /\ Len(FileNames) \in Nat /\ DOMAIN FileNames = 1..Len(FileNames)
      /\ \A i \in 1..Len(FileNames) : FileNames[i] \in Full
  BY <1>1, LenProperties, ElementOfSeq
<1>4. FileNames \in Seq(Texts)
  BY <1>1, <1>2, SeqMonotonic
<1>5. \A n \in Names : n \in Texts /\ n # <<>>
  BY <1>2, <1>3 DEF Names, ToSet
<1>6. \A n \in Texts : n # <<>> => Len(n) \in Nat /\ Len(n) > 0
  BY EmptySeq DEF Texts
<1>7. QED
  BY <1>3, <1>4, <1>5, <1>6 DEF Names, ToSet

LEMMA PrefixFacts ==
  ASSUME NEW b \in Texts, NEW n \in Texts
  PROVE  IsPrefix(b, n) <=> Len(b) <= Len(n) /\ \A i \in 1..Len(b) : b[i] = n[i]
<1>1. Len(b) \in Nat /\ Len(n) \in Nat /\ SubSeq(b, 1, Len(b)) = b
  BY SubSeqFull DEF Texts
<1>2. ASSUME Len(b) <= Len(n)
      PROVE  /\ SubSeq(n, 1, Len(b)) \in Seq(Segments) /\ Len(SubSeq(n, 1, Len(b))) = Len(b)
             /\ \A i \in 1..Len(b) : SubSeq(n, 1, Len(b))[i] = n[i]
  <2>1. \A i \in 1..Len(b) : n[i] \in Segments
    BY <1>1, <1>2, ElementOfSeq DEF Texts
  <2>2. /\ SubSeq(n, 1, Len(b)) \in Seq(Segments)
        /\ Len(SubSeq(n, 1, Len(b))) = IF 1 <= Len(b) THEN Len(b) - 1 + 1 ELSE 0
        /\ \A i \in 1..(Len(b) - 1 + 1) : SubSeq(n, 1, Len(b))[i] = n[1 + i - 1]
    BY <1>1, <2>1, SubSeqProperties
  <2>3. QED
    BY <1>1, <2>2
<1>3. Len(b) <= Len(n) =>
        (b = SubSeq(n, 1, Len(b)) <=> \A i \in 1..Len(b) : b[i] = n[i])
  BY <1>1, <1>2, SeqEqual DEF Texts
<1>4. QED
  BY <1>1, <1>3 DEF IsPrefix

\* What is left of a name behind a prefix of it
LEMMA RestFacts ==
  ASSUME NEW b \in Texts, NEW n \in Texts, IsPrefix(b, n)
  PROVE  LET rest == SubSeq(n, Len(b) + 1, Len(n))
         IN  /\ rest \in Texts /\ Len(rest) = Len(n) - Len(b)
             /\ \A i \in 1..(Len(n) - Len(b)) : rest[i] = n[Len(b) + i]
             /\ b \o rest = n
<1> DEFINE rest == SubSeq(n, Len(b) + 1, Len(n))
<1>1. Len(b) \in Nat /\ Len(n) \in Nat /\ Len(b) <= Len(n) /\ \A i \in 1..Len(b) : b[i] = n[i]
  BY PrefixFacts DEF Texts
<1>2. \A i \in (Len(b) + 1)..Len(n) : n[i] \in Segments
  BY <1>1, ElementOfSeq DEF Texts
<1>3. /\ rest \in Seq(Segments)
      /\ Len(rest) = IF Len(b) + 1 <= Len(n) THEN Len(n) - (Len(b) + 1) + 1 ELSE 0
      /\ \A i \in 1..(Len(n) - (Len(b) + 1) + 1) : rest[i] = n[Len(b) + 1 + i - 1]
  BY <1>1, <1>2, SubSeqProperties
<1> HIDE DEF rest
<1>4. /\ rest \in Texts /\ Len(rest) = Len(n) - Len(b)
      /\ \A i \in 1..(Len(n) - Len(b)) : rest[i] = n[Len(b) + i]
  BY <1>1, <1>3 DEF Texts
<1>5. b \o rest = n
  <2>1. /\ b \o rest \in Seq(Segments) /\ Len(b \o rest) = Len(b) + Len(rest)
        /\ \A i \in 1..(Len(b) + Len(rest)) : (b \o rest)[i] = IF i <= Len(b) THEN b[i] ELSE rest[i - Len(b)]
    BY <1>4, ConcatProperties DEF Texts
  <2>2. \A i \in 1..Len(n) : (b \o rest)[i] = n[i]
    BY <1>1, <1>4, <2>1
  <2>3. Len(b \o rest) = Len(n)
    BY <1>1, <1>4, <2>1
  <2>4. QED
    BY <2>1, <2>2, <2>3, SeqEqual DEF Texts
<1>6. QED
  BY <1>4, <1>5 DEF rest

LEMMA CommonPrefixIsBase ==
  ASSUME NEW b \in Texts, NEW n \in Texts, IsPrefix(b, n)
  PROVE  LongestCommonPrefix({n, b}) = b
<1> DEFINE C == CommonPrefixes({n, b})
           x == LongestCommonPrefix({n, b})
<1>1. Len(b) \in Nat /\ Len(n) \in Nat
  BY DEF Texts
<1>2. b \in C
  <2>1. b \in Prefixes(b)
    BY <1>1, SubSeqFull DEF Prefixes, Texts
  <2>2. IsPrefix(b, b)
    BY <1>1, PrefixFacts
  <2>3. QED
    BY <2>1, <2>2 DEF CommonPrefixes
<1>3. \A c \in C : c \in Texts /\ IsPrefix(c, b)
  <2> SUFFICES ASSUME NEW c \in C
               PROVE  c \in Texts
    BY DEF CommonPrefixes
  <2>1. PICK s \in {n, b} : c \in Prefixes(s)
    BY DEF CommonPrefixes
  <2>2. PICK l \in 0..Len(s) : c = SubSeq(s, 1, l)
    BY <2>1 DEF Prefixes
  <2>3. s \in Seq(Segments) /\ Len(s) \in Nat
    BY <1>1 DEF Texts
  <2>4. \A i \in 1..l : s[i] \in Segments
    BY <2>2, <2>3, ElementOfSeq
  <2>5. l \in Int /\ 1 \in Int
    BY <2>2, <2>3
  <2>6. QED
    BY <2>2, <2>4, <2>5, SubSeqProperties DEF Texts
<1>4. \A c \in C : Len(c) <= Len(b)
  BY <1>3, PrefixFacts
<1>5. x \in C /\ \A other \in C : Len(other) <= Len(x)
  <2> HIDE DEF C
  <2>1. \E c \in C : \A other \in C : Len(other) <= Len(c)
    BY <1>2, <1>4
  <2>2. QED
    BY <2>1 DEF LongestCommonPrefix, C
<1> HIDE DEF C, x
<1>6. x \in Texts /\ IsPrefix(x, b) /\ Len(x) = Len(b)
  <2>1. x \in Texts /\ IsPrefix(x, b) /\ Len(x) <= Len(b) /\ Len(b) <= Len(x)
    BY <1>2, <1>3, <1>4, <1>5
  <2>2. Len(x) \in Nat
    BY <2>1 DEF Texts
  <2>3. QED
    BY <1>1, <2>1, <2>2
<1>7. \A i \in 1..Len(b) : x[i] = b[i]
  BY <1>6, PrefixFacts
<1>8. x = b
  BY <1>6, <1>7, SeqEqual DEF Texts
<1>9. QED
  BY <1>8 DEF x

LEMMA RelPathFacts ==
  ASSUME NEW b \in Texts, NEW n \in Texts, IsPrefix(b, n)
  PROVE  /\ RelPath(n, b) = SubSeq(n, Len(b) + 1, Len(n))
         /\ RelPath(n, b) \in Texts /\ Len(RelPath(n, b)) = Len(n) - Len(b)
         /\ \A i \in 1..(Len(n) - Len(b)) : RelPath(n, b)[i] = n[Len(b) + i]
         /\ b \o RelPath(n, b) = n
<1>1. LongestCommonPrefix({n, b}) = b
  BY CommonPrefixIsBase
<1> DEFINE rest == SubSeq(n, Len(b) + 1, Len(n))
<1>2. /\ rest \in Texts /\ Len(rest) = Len(n) - Len(b)
      /\ \A i \in 1..(Len(n) - Len(b)) : rest[i] = n[Len(b) + i]
      /\ b \o rest = n
  BY RestFacts
<1>3. RelPath(n, b) = [i \in 1..(Len(b) - Len(b)) |-> ".."] \o rest
  BY <1>1 DEF RelPath
<1> HIDE DEF rest
<1>4. [i \in 1..(Len(b) - Len(b)) |-> ".."] = <<>>
  <2>1. Len(b) \in Nat
    BY DEF Texts
  <2>2. 1..(Len(b) - Len(b)) = {}
    BY <2>1
  <2>3. QED
    BY <2>2
<1>5. RelPath(n, b) = rest
  BY <1>2, <1>3, <1>4, ConcatEmptySeq DEF Texts
<1>6. QED
  BY <1>2, <1>5 DEF rest

LEMMA SpelledFacts ==
  ASSUME NEW b \in Texts, NEW n \in Texts, IsPrefix(b, n)
  PROVE  SpelledBy(b, n)
<1>1. Len(b) \in Nat /\ Len(n) \in Nat /\ Len(b) <= Len(n) /\ \A i \in 1..Len(b) : b[i] = n[i]
  BY PrefixFacts DEF Texts
<1>2. \A i \in 1..(Len(b) - 1) : n[i] = b[i]
  BY <1>1
<1>3. ASSUME b # <<>>
      PROVE  <<n[Len(b)], Last(b)>> \in Begins
  <2>1. Len(b) \in 1..Len(b)
    BY <1>1, <1>3, EmptySeq DEF Texts
  <2>2. b[Len(b)] \in Segments
    BY <2>1, ElementOfSeq DEF Texts
  <2>3. n[Len(b)] = b[Len(b)]
    BY <1>1, <2>1
  <2>4. <<b[Len(b)], b[Len(b)]>> \in Begins
    BY <2>2, FilesAssumption
  <2>5. QED
    BY <2>3, <2>4 DEF Last
<1>4. QED
  BY <1>1, <1>2, <1>3 DEF SpelledBy

\* What is below a path starts with it, and what starts with it is below the storage's prefix.
LEMMA StartsWithFacts ==
  ASSUME NEW s, s.prefix \in Texts, NEW path \in Texts, NEW n \in Names
  PROVE  /\ IsPrefix(AddPrefix(s, path), n) => NameStartsWith(s, path, n)
         /\ NameStartsWith(s, path, n) => IsPrefix(s.prefix, n)
<1> DEFINE b == s.prefix \o path
<1>1. n \in Texts /\ b \in Texts /\ Len(b) = Len(s.prefix) + Len(path)
      /\ \A i \in 1..(Len(s.prefix) + Len(path)) :
           b[i] = IF i <= Len(s.prefix) THEN s.prefix[i] ELSE path[i - Len(s.prefix)]
  BY FileNameFacts, ConcatProperties DEF Texts
<1>2. Len(s.prefix) \in Nat /\ Len(path) \in Nat /\ Len(n) \in Nat
  BY <1>1 DEF Texts
<1>3. CASE path = <<>>
  <2>1. b = s.prefix
    BY <1>3, ConcatEmptySeq DEF Texts
  <2>2. QED
    BY <1>3, <2>1 DEF AddPrefix, NameStartsWith
<1>4. CASE path # <<>>
  <2>1. NameStartsWith(s, path, n) <=> SpelledBy(b, n)
    BY <1>4 DEF NameStartsWith, AddPrefix
  <2>2. Len(path) > 0
    BY <1>2, <1>4, EmptySeq DEF Texts
  <2>3. IsPrefix(b, n) => SpelledBy(b, n)
    BY <1>1, SpelledFacts
  <2>4. ASSUME SpelledBy(b, n)
        PROVE  IsPrefix(s.prefix, n)
    <3>1. Len(b) <= Len(n) /\ \A i \in 1..(Len(b) - 1) : n[i] = b[i]
      BY <2>4 DEF SpelledBy
    <3>2. Len(s.prefix) <= Len(n) /\ \A i \in 1..Len(s.prefix) : s.prefix[i] = n[i]
      <4> HIDE DEF b
      <4>1. QED
        BY <1>1, <1>2, <2>2, <3>1
    <3>3. QED
      BY <1>1, <3>2, PrefixFacts
  <2>5. QED
    BY <2>1, <2>3, <2>4 DEF AddPrefix
<1>5. QED
  BY <1>3, <1>4

LEMMA EmptyIsPrefix ==
  ASSUME NEW n \in Texts
  PROVE  <<>> \in Texts /\ IsPrefix(<<>>, n) /\ Len(<<>>) = 0
<1> DEFINE e == <<>>
<1>1. e \in Texts /\ Len(e) = 0
  BY EmptySeq DEF Texts
<1>2. Len(n) \in Nat
  BY DEF Texts
<1>3. IsPrefix(e, n)
  <2> HIDE DEF e
  <2>1. QED
    BY <1>1, <1>2, PrefixFacts
<1>4. QED
  BY <1>1, <1>3

\* All ways lead back from a path to its file.
LEMMA PathsLeadBack ==
  ASSUME NEW c, fileCall[c].store.engine = "blob", fileCall[c].store \in [engine : {"blob", "local"}, prefix : Texts],
         NEW n \in Names, IsPrefix(fileCall[c].store.prefix, n)
  PROVE  LeadsBack(c, n)
<1> DEFINE store == fileCall[c].store
           b == store.prefix
           path == StripPrefix(store, n)
           again == GetStorageForFile(store, GetUri(store, path))
           front == Front(path)
           sub == GetSubstorage(store, front)
<1>1. n \in Texts /\ b \in Texts /\ n # <<>> /\ Len(n) \in Nat /\ Len(n) > 0 /\ Len(b) \in Nat
      /\ Len(b) <= Len(n) /\ \A i \in 1..Len(b) : b[i] = n[i]
  BY FileNameFacts, PrefixFacts DEF Texts
<1>2. /\ path \in Texts /\ Len(path) = Len(n) - Len(b) /\ b \o path = n
      /\ \A i \in 1..(Len(n) - Len(b)) : path[i] = n[Len(b) + i]
  BY <1>1, RelPathFacts DEF StripPrefix
<1>3. AddPrefix(store, path) = n /\ GetUri(store, path) = n
  BY <1>2 DEF AddPrefix, GetUri
<1>4. GetPath(store, n) = path
  <2>1. 1 \in DOMAIN n /\ SubSeq(n, 1, Len(n)) = n
    BY <1>1, SubSeqFull, LenProperties DEF Texts
  <2>2. SpelledBy(b, n)
    BY <1>1, SpelledFacts
  <2>3. SharesPrefix(store, n)
    BY <2>1, <2>2 DEF SharesPrefix
  <2>4. QED
    BY <2>3 DEF GetPath
<1>5. AddPrefix(again[1], again[2]) = n
  <2>1. again = <<[store EXCEPT !.prefix = <<>>], n>>
    BY <1>3 DEF GetStorageForFile
  <2>2. again[1].prefix = <<>> /\ again[2] = n
    BY <2>1
  <2>3. <<>> \o n = n
    BY <1>1, ConcatEmptySeq DEF Texts
  <2> HIDE DEF again
  <2>4. QED
    BY <2>2, <2>3 DEF AddPrefix
<1>6. front \in Texts /\ IsPrefix(front, path)
  <2> HIDE DEF path
  <2>1. path \in Seq(Segments) /\ Len(path) \in Nat
    BY <1>2 DEF Texts
  <2>2. \A i \in 1..(Len(path) - 1) : path[i] \in Segments
    BY <2>1, ElementOfSeq
  <2>3. /\ front \in Seq(Segments)
        /\ Len(front) = IF 1 <= Len(path) - 1 THEN Len(path) - 1 - 1 + 1 ELSE 0
        /\ \A i \in 1..(Len(path) - 1 - 1 + 1) : front[i] = path[1 + i - 1]
    <3> DEFINE m == Len(path) - 1
    <3>1. m \in Int /\ 1 \in Int /\ \A i \in 1..m : path[i] \in Segments
      BY <2>1, <2>2
    <3> HIDE DEF m
    <3>2. /\ SubSeq(path, 1, m) \in Seq(Segments)
          /\ Len(SubSeq(path, 1, m)) = IF 1 <= m THEN m - 1 + 1 ELSE 0
          /\ \A i \in 1..(m - 1 + 1) : SubSeq(path, 1, m)[i] = path[1 + i - 1]
      BY <3>1, SubSeqProperties
    <3>3. QED
      BY <3>2 DEF m, Front
  <2>4. Len(front) <= Len(path) /\ \A i \in 1..Len(front) : front[i] = path[i]
    <3> HIDE DEF front, path
    <3>1. QED
      BY <2>1, <2>3
  <2>5. QED
    BY <1>2, <2>3, <2>4, PrefixFacts DEF Texts
<1>7. sub.prefix = b \o front
  BY DEF GetSubstorage
<1>8. (b \o front) \in Texts /\ IsPrefix(b \o front, n)
  <2> HIDE DEF front, path, b
  <2>1. Len(front) \in Nat /\ Len(front) <= Len(path) /\ \A i \in 1..Len(front) : front[i] = path[i]
    BY <1>2, <1>6, PrefixFacts DEF Texts
  <2>2. /\ b \o front \in Texts /\ Len(b \o front) = Len(b) + Len(front)
        /\ \A i \in 1..(Len(b) + Len(front)) :
             (b \o front)[i] = IF i <= Len(b) THEN b[i] ELSE front[i - Len(b)]
    BY <1>1, <1>6, ConcatProperties DEF Texts
  <2>3. \A i \in 1..(Len(b) + Len(front)) : (b \o front)[i] = n[i]
    <3> SUFFICES ASSUME NEW i \in 1..(Len(b) + Len(front))
                 PROVE  (b \o front)[i] = n[i]
      OBVIOUS
    <3>1. CASE i <= Len(b)
      BY <1>1, <2>1, <2>2, <3>1
    <3>2. CASE ~(i <= Len(b))
      <4>1. i - Len(b) \in 1..Len(front) /\ i - Len(b) \in 1..(Len(n) - Len(b)) /\ Len(b) + (i - Len(b)) = i
        BY <1>1, <1>2, <2>1, <3>2
      <4>2. (b \o front)[i] = front[i - Len(b)]
        BY <2>2, <3>2
      <4>3. front[i - Len(b)] = path[i - Len(b)] /\ path[i - Len(b)] = n[Len(b) + (i - Len(b))]
        BY <1>2, <2>1, <4>1
      <4>4. QED
        BY <4>1, <4>2, <4>3
    <3>3. QED
      BY <3>1, <3>2
  <2>4. Len(b \o front) <= Len(n)
    BY <1>1, <1>2, <2>1, <2>2
  <2>5. QED
    BY <1>1, <2>2, <2>3, <2>4, PrefixFacts
<1>9. AddPrefix(sub, StripPrefix(sub, n)) = n
  <2>1. (b \o front) \o RelPath(n, b \o front) = n
    <3> HIDE DEF b, front
    <3>1. QED
      BY <1>1, <1>8, RelPathFacts
  <2>2. QED
    BY <1>7, <2>1 DEF AddPrefix, StripPrefix
<1>10. QED
  BY <1>3, <1>4, <1>5, <1>9 DEF LeadsBack

-----------------------------------------------------------------------------
(* StorageFiles: the inductive invariant                                   *)

Active(c) == filePhase[c] \notin {"idle", "ended"}
Base(c) == AddPrefix(fileCall[c].store, fileCall[c].path)

Found(c, n) ==
  n \in Names /\ IsPrefix(fileCall[c].store.prefix, n) /\ Was(c, n, Contents \ {NoData})

\* Of what the pages have covered, what is below the path was not there at some time, or is left
\* of the page or listed.
PagesOK(c) ==
  /\ \A i \in listing[c] : Found(c, FileNames[i])
  /\ \A n \in listed[c] : Found(c, n)
  /\ \A i \in 1..marker[c] : IsPrefix(Base(c), FileNames[i]) =>
       \/ Was(c, FileNames[i], {NoData})
       \/ i \in listing[c]
       \/ fileCall[c].op = "list" /\ FileNames[i] \in listed[c]

AnswerOK(c) ==
  /\ answer[c] = "ok" => CallDone(c)
  /\ answer[c] \in {"no", "missing"} /\ ~Lists(c) => Was(c, Base(c), {NoData})

ClientOK(c) ==
  /\ filePhase[c] # "ended" => answer[c] = "" /\ tries[c] < NumTries
  /\ filePhase[c] = "idle" => listing[c] = {} /\ listed[c] = {} /\ marker[c] = 0 /\ seen[c] = {}
  /\ filePhase[c] # "idle" => fileCall[c] \in FileCalls /\ PagesOK(c)
  /\ Active(c) => \A n \in Names : <<n, files[n]>> \in seen[c]
  /\ filePhase[c] = "lists" => Lists(c)
  /\ filePhase[c] = "checks" => ~Lists(c)
  /\ filePhase[c] = "asks" /\ Lists(c) => fileCall[c].op = "delete_folder" /\ listing[c] # {}
  /\ listed[c] # {} => Lists(c) /\ filePhase[c] # "idle"
  /\ AnswerOK(c)

FilesIInv == FilesTypeOK /\ \A c \in StorageClients : ClientOK(c)

LEMMA StorageFacts ==
  /\ \A s \in Storages : s.prefix \in Texts /\ s \in [engine : {"blob", "local"}, prefix : Texts]
  /\ \A s \in Storages : \A p \in FoldersIn(s) : p \in Texts
  /\ \A s \in Storages : \A p \in Paths(s) : p \in Texts /\ AddPrefix(s, p) \in Names
<1>1. StoragePrefixes \subseteq Texts
  BY FilesAssumption DEF Texts
<1>2. \A s \in Storages : s.prefix \in Texts /\ s \in [engine : {"blob", "local"}, prefix : Texts]
  BY <1>1 DEF Storages
<1>3. ASSUME NEW s \in Storages, NEW q \in Texts, IsPrefix(s.prefix, q)
      PROVE  StripPrefix(s, q) \in Texts /\ AddPrefix(s, StripPrefix(s, q)) = q
  BY <1>2, <1>3, RelPathFacts DEF StripPrefix, AddPrefix
<1>4. ASSUME NEW s \in Storages, NEW p \in FoldersIn(s)
      PROVE  p \in Texts
  <2>1. PICK q \in StoragePrefixes : IsPrefix(s.prefix, q) /\ p = StripPrefix(s, q)
    BY <1>4 DEF FoldersIn, IsStrictPrefix
  <2>2. QED
    BY <1>1, <1>3, <2>1
<1>5. ASSUME NEW s \in Storages, NEW p \in Paths(s)
      PROVE  p \in Texts /\ AddPrefix(s, p) \in Names
  <2>1. PICK q \in Names : IsPrefix(s.prefix, q) /\ p = StripPrefix(s, q)
    BY <1>5 DEF Paths
  <2>2. QED
    BY <1>3, <2>1, FileNameFacts
<1>6. QED
  BY <1>2, <1>4, <1>5

LEMMA CallFacts ==
  ASSUME NEW call \in FileCalls
  PROVE  /\ call.op \in {"read", "exists", "delete", "write", "delete_folder", "list"}
         /\ call.store \in [engine : {"blob", "local"}, prefix : Texts] /\ call.store.prefix \in Texts
         /\ call.path \in Texts /\ call.overwrite \in BOOLEAN
         /\ call.op \in {"delete_folder", "list"} => call.store.engine = "blob"
         /\ call.op \notin {"delete_folder", "list"} => AddPrefix(call.store, call.path) \in Names
<1>1. \A s : call \in FileCallsOf(s) =>
        /\ call.op \in {"read", "exists", "delete", "write"} /\ call.store = s
        /\ call.path \in Paths(s) /\ call.overwrite \in BOOLEAN
  BY DEF FileCallsOf
<1>2. \A s : call \in FolderCallsOf(s) =>
        /\ call.op \in {"delete_folder", "list"} /\ call.store = s
        /\ call.path \in {<<>>} \union FoldersIn(s) /\ call.overwrite \in BOOLEAN
  BY DEF FolderCallsOf
<1>3. \/ \E s \in Storages : call \in FileCallsOf(s)
      \/ \E s \in Storages : s.engine = "blob" /\ call \in FolderCallsOf(s)
  BY DEF FileCalls
<1>4. CASE \E s \in Storages : call \in FileCallsOf(s)
  BY <1>1, <1>4, StorageFacts
<1>5. CASE \E s \in Storages : s.engine = "blob" /\ call \in FolderCallsOf(s)
  <2>1. <<>> \in Texts
    BY EmptySeq DEF Texts
  <2>2. QED
    BY <1>2, <1>5, <2>1, StorageFacts
<1>6. QED
  BY <1>3, <1>4, <1>5

\* What was seen stays seen.
SeenGrows ==
  \A d \in StorageClients : /\ seen[d] \subseteq seen'[d]
                            /\ Active(d) => \A n \in Names : <<n, files'[n]>> \in seen'[d]

SameClient(d) ==
  /\ fileCall'[d] = fileCall[d] /\ filePhase'[d] = filePhase[d] /\ tries'[d] = tries[d]
  /\ listing'[d] = listing[d] /\ marker'[d] = marker[d] /\ listed'[d] = listed[d]
  /\ answer'[d] = answer[d]
  /\ filePhase[d] = "idle" => seen'[d] = seen[d]

LEMMA WasGrows ==
  ASSUME NEW c, seen[c] \subseteq seen'[c]
  PROVE  \A n, X : Was(c, n, X) => Was(c, n, X)'
BY DEF Was

LEMMA CallDoneKept ==
  ASSUME NEW c, seen[c] \subseteq seen'[c], fileCall'[c] = fileCall[c], listed'[c] = listed[c],
         fileCall[c] \in FileCalls, CallDone(c)
  PROVE  CallDone(c)'
<1>1. \A n, X : Was(c, n, X) => Was(c, n, X)'
  BY WasGrows
<1>2. fileCall[c].op \in {"read", "exists", "delete", "write", "delete_folder", "list"}
  BY CallFacts
<1>3. CASE fileCall[c].op \in {"read", "exists"}
  BY <1>1, <1>3 DEF CallDone
<1>4. CASE fileCall[c].op = "write"
  BY <1>1, <1>4 DEF CallDone
<1>5. CASE fileCall[c].op = "delete"
  BY <1>1, <1>5 DEF CallDone
<1>6. CASE fileCall[c].op = "delete_folder"
  BY <1>1, <1>6 DEF CallDone
<1>7. CASE fileCall[c].op = "list"
  BY <1>1, <1>7 DEF CallDone
<1>8. QED
  BY <1>2, <1>3, <1>4, <1>5, <1>6, <1>7

LEMMA PagesKept ==
  ASSUME NEW c, seen[c] \subseteq seen'[c], fileCall'[c] = fileCall[c], listing'[c] = listing[c],
         marker'[c] = marker[c], listed'[c] = listed[c], PagesOK(c)
  PROVE  PagesOK(c)'
<1>1. \A n, X : Was(c, n, X) => Was(c, n, X)'
  BY WasGrows
<1>2. Base(c)' = Base(c)
  BY DEF Base
<1>3. \A n : Found(c, n) => Found(c, n)'
  BY <1>1 DEF Found
<1>4. QED
  BY <1>1, <1>2, <1>3 DEF PagesOK

LEMMA SameClientOK ==
  ASSUME NEW d \in StorageClients, ClientOK(d), SameClient(d), SeenGrows
  PROVE  ClientOK(d)'
<1>1. seen[d] \subseteq seen'[d] /\ (Active(d) => \A n \in Names : <<n, files'[n]>> \in seen'[d])
  BY DEF SeenGrows
<1>2. (Lists(d)' <=> Lists(d)) /\ Base(d)' = Base(d) /\ (Active(d)' <=> Active(d))
  BY DEF SameClient, Lists, Base, Active
<1>3. filePhase[d] # "idle" => PagesOK(d)'
  BY <1>1, PagesKept DEF ClientOK, SameClient
<1>4. AnswerOK(d)'
  <2>1. answer[d] = "ok" => CallDone(d)'
    BY <1>1, CallDoneKept DEF SameClient, ClientOK, AnswerOK
  <2>2. \A n, X : Was(d, n, X) => Was(d, n, X)'
    BY <1>1, WasGrows
  <2>3. QED
    BY <1>2, <2>1, <2>2 DEF ClientOK, AnswerOK, SameClient
<1>5. QED
  BY <1>1, <1>2, <1>3, <1>4 DEF ClientOK, SameClient

\* The proof that a step of one client keeps the invariant needs the types and its own part.
LEMMA OneClientMoves ==
  ASSUME FilesIInv, NEW c \in StorageClients, SeenGrows, FilesTypeOK', ClientOK(c)',
         \A d \in StorageClients \ {c} : SameClient(d)
  PROVE  FilesIInv'
<1>1. \A d \in StorageClients \ {c} : ClientOK(d)'
  BY SameClientOK DEF FilesIInv
<1>2. QED
  BY <1>1 DEF FilesIInv

LEMMA FilesInitOK == FilesInit => FilesIInv
<1> SUFFICES ASSUME FilesInit
             PROVE  FilesIInv
  OBVIOUS
<1>1. PICK present \in SUBSET Names : FilesBegin(present)
  BY DEF FilesInit
<1>2. /\ files = [n \in Names |-> IF n \in present THEN "old" ELSE NoData]
      /\ fileCall = [c \in StorageClients |-> NoCall]
      /\ filePhase = [c \in StorageClients |-> "idle"] /\ answer = [c \in StorageClients |-> ""]
      /\ tries = [c \in StorageClients |-> 0] /\ throttles = 0
      /\ listing = [c \in StorageClients |-> {}] /\ marker = [c \in StorageClients |-> 0]
      /\ listed = [c \in StorageClients |-> {}] /\ seen = [c \in StorageClients |-> {}]
  BY <1>1 DEF FilesBegin
<1>3. NumTries \in Nat /\ 0 < NumTries /\ MaxThrottles \in Nat /\ Len(FileNames) \in Nat
  BY FilesAssumption, FileNameFacts
<1>4. FilesTypeOK
  <2>1. files \in [Names -> Contents]
    BY <1>2 DEF Contents
  <2>2. fileCall \in [StorageClients -> FileCalls \union {NoCall}]
    BY <1>2
  <2>3. /\ filePhase \in [StorageClients -> {"idle", "checks", "asks", "lists", "ended"}]
        /\ answer \in [StorageClients -> {"", "ok", "no", "missing", "exists", "raised"}]
    BY <1>2
  <2>4. 0 \in 0..NumTries /\ 0 \in 0..MaxThrottles /\ 0 \in 0..Len(FileNames)
    BY <1>3
  <2>5. /\ tries \in [StorageClients -> 0..NumTries] /\ throttles \in 0..MaxThrottles
        /\ marker \in [StorageClients -> 0..Len(FileNames)]
    BY <1>2, <2>4
  <2>6. /\ listing \in [StorageClients -> SUBSET (DOMAIN FileNames)]
        /\ listed \in [StorageClients -> SUBSET Names]
        /\ seen \in [StorageClients -> SUBSET (Names \X Contents)]
    BY <1>2
  <2>7. QED
    BY <2>1, <2>2, <2>3, <2>5, <2>6 DEF FilesTypeOK
<1>5. ASSUME NEW c \in StorageClients
      PROVE  ClientOK(c)
  <2>1. /\ filePhase[c] = "idle" /\ answer[c] = "" /\ tries[c] = 0 /\ fileCall[c].op = "none"
        /\ listing[c] = {} /\ marker[c] = 0 /\ listed[c] = {} /\ seen[c] = {}
    BY <1>2 DEF NoCall
  <2>2. ~Active(c) /\ ~Lists(c) /\ AnswerOK(c)
    BY <2>1 DEF Active, Lists, AnswerOK
  <2>3. tries[c] < NumTries
    BY <1>3, <2>1
  <2>4. QED
    BY <2>1, <2>2, <2>3 DEF ClientOK
<1>6. QED
  BY <1>4, <1>5 DEF FilesIInv

-----------------------------------------------------------------------------
(* StorageFiles: every step keeps the invariant                            *)

LEMMA FileTypes ==
  ASSUME FilesIInv, NEW c \in StorageClients
  PROVE  /\ files \in [Names -> Contents]
         /\ fileCall \in [StorageClients -> FileCalls \union {NoCall}]
         /\ filePhase \in [StorageClients -> {"idle", "checks", "asks", "lists", "ended"}]
         /\ tries \in [StorageClients -> 0..NumTries] /\ throttles \in 0..MaxThrottles
         /\ listing \in [StorageClients -> SUBSET (DOMAIN FileNames)]
         /\ listed \in [StorageClients -> SUBSET Names]
         /\ marker \in [StorageClients -> 0..Len(FileNames)]
         /\ answer \in [StorageClients -> {"", "ok", "no", "missing", "exists", "raised"}]
         /\ seen \in [StorageClients -> SUBSET (Names \X Contents)]
         /\ NumTries \in Nat /\ MaxThrottles \in Nat /\ Len(FileNames) \in Nat
         /\ ClientOK(c)
BY FilesAssumption, FileNameFacts DEF FilesIInv, FilesTypeOK

LEMMA SeenKept ==
  ASSUME FilesIInv, files' = files, seen' = seen
  PROVE  SeenGrows
BY DEF FilesIInv, ClientOK, SeenGrows

LEMMA NextPlaceFacts ==
  ASSUME FilesIInv, NEW c \in StorageClients, listing[c] # {}
  PROVE  NextPlace(c) \in listing[c] /\ NextPlace(c) \in DOMAIN FileNames /\ FileNames[NextPlace(c)] \in Names
<1>1. listing[c] \subseteq (DOMAIN FileNames) /\ listing[c] \in SUBSET Nat
  <2>1. listing[c] \subseteq (DOMAIN FileNames)
    BY FileTypes
  <2>2. (DOMAIN FileNames) \subseteq Nat
    BY FileNameFacts
  <2>3. QED
    BY <2>1, <2>2
<1>2. \E i \in listing[c] : \A j \in listing[c] : i <= j
  BY <1>1, LeastOf
<1>3. NextPlace(c) \in listing[c]
  BY <1>2 DEF NextPlace
<1>4. QED
  BY <1>1, <1>3, FileNameFacts

LEMMA TargetFacts ==
  ASSUME FilesIInv, NEW c \in StorageClients, filePhase[c] \in {"checks", "asks"}
  PROVE  /\ Target(c) \in Names /\ fileCall[c] \in FileCalls
         /\ fileCall[c].op \in {"read", "exists", "delete", "write", "delete_folder"}
         /\ ~Lists(c) => Target(c) = Base(c)
         /\ Lists(c) => /\ filePhase[c] = "asks" /\ fileCall[c].op = "delete_folder"
                        /\ NextPlace(c) \in listing[c] /\ Target(c) = FileNames[NextPlace(c)]
<1>1. fileCall[c] \in FileCalls /\ (Lists(c) => filePhase[c] = "asks" /\ fileCall[c].op = "delete_folder" /\ listing[c] # {})
  BY FileTypes DEF ClientOK
<1>2. /\ fileCall[c].op \in {"read", "exists", "delete", "write", "delete_folder", "list"}
      /\ fileCall[c].op \notin {"delete_folder", "list"} => Base(c) \in Names
  BY <1>1, CallFacts DEF Base
<1>3. CASE Lists(c)
  BY <1>1, <1>3, NextPlaceFacts DEF Target
<1>4. CASE ~Lists(c)
  BY <1>1, <1>2, <1>4 DEF Target, Base, Lists
<1>5. QED
  BY <1>3, <1>4

LEMMA EffectFacts ==
  ASSUME FilesIInv, NEW c \in StorageClients, filePhase[c] = "asks", TakesEffect(c)
  PROVE  /\ files' \in [Names -> Contents]
         /\ fileCall[c].op = "write" => files'[Target(c)] = IF Refused(c) THEN files[Target(c)] ELSE c
         /\ fileCall[c].op \in {"delete", "delete_folder"} => files'[Target(c)] = NoData
         /\ seen' \in [StorageClients -> SUBSET (Names \X Contents)]
         /\ SeenGrows
         /\ \A d \in StorageClients : filePhase[d] = "idle" => seen'[d] = seen[d]
<1> DEFINE new == CASE fileCall[c].op = "write" -> IF Refused(c) THEN files[Target(c)] ELSE c
                    [] fileCall[c].op \in {"delete", "delete_folder"} -> NoData
                    [] OTHER -> files[Target(c)]
<1>1. files \in [Names -> Contents] /\ Target(c) \in Names /\ c \in Contents /\ NoData \in Contents
  BY FileTypes, TargetFacts DEF Contents
<1>2. /\ new \in Contents
      /\ fileCall[c].op = "write" => new = IF Refused(c) THEN files[Target(c)] ELSE c
      /\ fileCall[c].op \in {"delete", "delete_folder"} => new = NoData
  BY <1>1
<1>3. files' = [files EXCEPT ![Target(c)] = new]
  BY DEF TakesEffect
<1> HIDE DEF new
<1>4. files' \in [Names -> Contents] /\ files'[Target(c)] = new
  BY <1>1, <1>2, <1>3
<1>5. seen' = [d \in StorageClients |-> IF filePhase[d] \in {"idle", "ended"} THEN seen[d]
                                        ELSE seen[d] \union {<<n, files'[n]>> : n \in Names}]
  BY DEF TakesEffect, Watch
<1>6. {<<n, files'[n]>> : n \in Names} \in SUBSET (Names \X Contents)
  BY <1>4
<1>7. seen' \in [StorageClients -> SUBSET (Names \X Contents)]
  <2> DEFINE all == {<<n, files'[n]>> : n \in Names}
             T == SUBSET (Names \X Contents)
  <2>1. \A d \in StorageClients : seen[d] \in T /\ (seen[d] \union all) \in T
    BY <1>6, FileTypes
  <2> HIDE DEF all, T
  <2>2. seen' \in [StorageClients -> T]
    BY <1>5, <2>1 DEF all
  <2>3. QED
    BY <2>2 DEF T
<1>8. SeenGrows
  BY <1>5 DEF SeenGrows, Active
<1>9. QED
  BY <1>2, <1>4, <1>5, <1>7, <1>8

LEMMA StartCallOK ==
  ASSUME FilesIInv, NEW c \in StorageClients, NEW call \in FileCalls, StartCall(c, call)
  PROVE  FilesIInv'
<1> DEFINE phase == IF call.op \in {"list", "delete_folder"} THEN "lists"
                    ELSE IF call.store.engine = "local" /\ ~call.overwrite THEN "checks" ELSE "asks"
           all == {<<n, files[n]>> : n \in Names}
<1>1. /\ filePhase[c] = "idle" /\ fileCall' = [fileCall EXCEPT ![c] = call]
      /\ filePhase' = [filePhase EXCEPT ![c] = phase] /\ seen' = [seen EXCEPT ![c] = all]
      /\ files' = files /\ tries' = tries /\ listing' = listing /\ marker' = marker /\ listed' = listed
      /\ answer' = answer /\ throttles' = throttles
  BY DEF StartCall
<1>2. /\ phase \in {"lists", "checks", "asks"} /\ (phase = "lists" <=> call.op \in {"list", "delete_folder"})
      /\ all \in SUBSET (Names \X Contents)
  <2>1. /\ phase \in {"lists", "checks", "asks"}
        /\ phase = "lists" <=> call.op \in {"list", "delete_folder"}
    OBVIOUS
  <2>2. \A n \in Names : files[n] \in Contents
    BY FileTypes
  <2>3. all \in SUBSET (Names \X Contents)
    BY <2>2
  <2>4. QED
    BY <2>1, <2>3
<1> HIDE DEF phase
<1>3. FilesTypeOK'
  <2>1. fileCall' \in [StorageClients -> FileCalls \union {NoCall}]
    BY <1>1, FileTypes
  <2>2. filePhase' \in [StorageClients -> {"idle", "checks", "asks", "lists", "ended"}]
    BY <1>1, <1>2, FileTypes
  <2>3. seen' \in [StorageClients -> SUBSET (Names \X Contents)]
    <3> HIDE DEF all
    <3>1. QED
      BY <1>1, <1>2, FileTypes
  <2>4. QED
    BY <1>1, <2>1, <2>2, <2>3 DEF FilesIInv, FilesTypeOK
<1>4. /\ fileCall'[c] = call /\ filePhase'[c] = phase /\ seen'[c] = all
      /\ \A d \in StorageClients \ {c} :
           fileCall'[d] = fileCall[d] /\ filePhase'[d] = filePhase[d] /\ seen'[d] = seen[d]
  <2> HIDE DEF all
  <2>1. QED
    BY <1>1, FileTypes
<1>5. /\ answer[c] = "" /\ tries[c] < NumTries /\ listing[c] = {} /\ listed[c] = {} /\ marker[c] = 0
      /\ seen[c] = {}
  BY <1>1, FileTypes DEF ClientOK
<1>6. SeenGrows
  <2>1. \A d \in StorageClients \ {c} : Active(d) => \A n \in Names : <<n, files[n]>> \in seen[d]
    BY DEF FilesIInv, ClientOK
  <2>2. QED
    BY <1>1, <1>4, <1>5, <2>1 DEF SeenGrows, Active
<1>7. ClientOK(c)'
  <2>1. Lists(c)' <=> call.op \in {"list", "delete_folder"}
    BY <1>4 DEF Lists
  <2>2. PagesOK(c)'
    <3>1. listing'[c] = {} /\ listed'[c] = {} /\ marker'[c] = 0
      BY <1>1, <1>5
    <3>2. \A i \in 1..marker'[c] : FALSE
      BY <3>1
    <3>3. QED
      BY <3>1, <3>2 DEF PagesOK
  <2>3. AnswerOK(c)'
    BY <1>1, <1>5 DEF AnswerOK
  <2>4. \A n \in Names : <<n, files'[n]>> \in seen'[c]
    BY <1>1, <1>4
  <2>5. QED
    BY <1>1, <1>2, <1>4, <1>5, <2>1, <2>2, <2>3, <2>4 DEF ClientOK
<1>8. \A d \in StorageClients \ {c} : SameClient(d)
  BY <1>1, <1>4 DEF SameClient
<1>9. QED
  BY <1>3, <1>6, <1>7, <1>8, OneClientMoves

\* An ended client with an error, or without an answer on its own file
LEMMA CheckTargetOK ==
  ASSUME FilesIInv, NEW c \in StorageClients, CheckTarget(c)
  PROVE  FilesIInv'
<1>1. /\ filePhase[c] = "checks" /\ files' = files /\ fileCall' = fileCall /\ tries' = tries
      /\ listing' = listing /\ marker' = marker /\ listed' = listed /\ throttles' = throttles /\ seen' = seen
  BY DEF CheckTarget
<1>2. \/ /\ filePhase' = [filePhase EXCEPT ![c] = "ended"] /\ answer' = [answer EXCEPT ![c] = "exists"]
      \/ /\ filePhase' = [filePhase EXCEPT ![c] = "asks"] /\ answer' = answer
  BY DEF CheckTarget, Ends
<1>3. FilesTypeOK'
  <2>1. /\ filePhase' \in [StorageClients -> {"idle", "checks", "asks", "lists", "ended"}]
        /\ answer' \in [StorageClients -> {"", "ok", "no", "missing", "exists", "raised"}]
    BY <1>2, FileTypes
  <2>2. QED
    BY <1>1, <2>1 DEF FilesIInv, FilesTypeOK
<1>4. SeenGrows
  BY <1>1, SeenKept
<1>5. \A d \in StorageClients \ {c} : SameClient(d)
  BY <1>1, <1>2, FileTypes DEF SameClient
<1>6. /\ answer[c] = "" /\ tries[c] < NumTries /\ ~Lists(c) /\ listed[c] = {} /\ PagesOK(c)
      /\ fileCall[c] \in FileCalls /\ \A n \in Names : <<n, files[n]>> \in seen[c]
  BY <1>1, FileTypes DEF ClientOK, Active
<1>7. ClientOK(c)'
  <2>1. ~Lists(c)'
    BY <1>1, <1>6 DEF Lists
  <2>2. PagesOK(c)'
    BY <1>1, <1>6, PagesKept
  <2>3. \/ filePhase'[c] = "ended" /\ answer'[c] = "exists"
        \/ filePhase'[c] = "asks" /\ answer'[c] = ""
    BY <1>2, <1>6, FileTypes
  <2>4. AnswerOK(c)'
    BY <2>3 DEF AnswerOK
  <2>5. QED
    BY <1>1, <1>6, <2>1, <2>2, <2>3, <2>4 DEF ClientOK
<1>8. QED
  BY <1>3, <1>4, <1>5, <1>7, OneClientMoves

\* A client that ends keeps what its pages have covered.
LEMMA EndsOK ==
  ASSUME FilesIInv, NEW c \in StorageClients, NEW a, filePhase[c] # "idle", Ends(c, a), SeenGrows,
         fileCall' = fileCall, listing' = listing, marker' = marker, listed' = listed,
         a = "ok" => CallDone(c)', a \in {"no", "missing"} /\ ~Lists(c) => Was(c, Base(c), {NoData})'
  PROVE  ClientOK(c)'
<1>1. filePhase'[c] = "ended" /\ answer'[c] = a
  BY FileTypes DEF Ends
<1>2. (Lists(c)' <=> Lists(c)) /\ ~Active(c)'
  BY <1>1 DEF Lists, Active
<1>3. fileCall[c] \in FileCalls /\ PagesOK(c) /\ (listed[c] # {} => Lists(c))
  BY FileTypes DEF ClientOK
<1>4. PagesOK(c)'
  <2>1. seen[c] \subseteq seen'[c]
    BY DEF SeenGrows
  <2>2. QED
    BY <1>3, <2>1, PagesKept
<1>5. AnswerOK(c)'
  BY <1>1, <1>2 DEF AnswerOK
<1>6. QED
  BY <1>1, <1>2, <1>3, <1>4, <1>5 DEF ClientOK

\* What the file was before a request and what it is after it have been seen.
LEMMA TargetSeen ==
  ASSUME FilesIInv, NEW c \in StorageClients, filePhase[c] = "asks", SeenGrows
  PROVE  /\ files[Target(c)] \in Contents
         /\ \A n, X : n = Target(c) /\ (files[n] \in X \/ files'[n] \in X) => Was(c, n, X)'
<1>1. Active(c) /\ Target(c) \in Names /\ files[Target(c)] \in Contents
  BY TargetFacts, FileTypes DEF Active
<1>2. <<Target(c), files[Target(c)]>> \in seen[c]
  BY <1>1, FileTypes DEF ClientOK
<1>3. <<Target(c), files[Target(c)]>> \in seen'[c] /\ <<Target(c), files'[Target(c)]>> \in seen'[c]
  BY <1>1, <1>2 DEF SeenGrows
<1>4. ASSUME NEW n, NEW X, n = Target(c), files[n] \in X \/ files'[n] \in X
      PROVE  Was(c, n, X)'
  <2>1. <<n, files[n]>> \in seen'[c] /\ <<n, files'[n]>> \in seen'[c]
    BY <1>3, <1>4
  <2>2. \E x \in X : <<n, x>> \in seen'[c]
    BY <1>4, <2>1
  <2>3. QED
    BY <2>2 DEF Was
<1>5. QED
  BY <1>1, <1>4

LEMMA AnsweredOK ==
  ASSUME FilesIInv, NEW c \in StorageClients, Answered(c)
  PROVE  FilesIInv'
<1>1. /\ filePhase[c] = "asks" /\ TakesEffect(c) /\ fileCall' = fileCall /\ marker' = marker
      /\ listed' = listed /\ throttles' = throttles
  BY DEF Answered
<1>2. /\ files' \in [Names -> Contents] /\ seen' \in [StorageClients -> SUBSET (Names \X Contents)] /\ SeenGrows
      /\ \A d \in StorageClients : filePhase[d] = "idle" => seen'[d] = seen[d]
      /\ fileCall[c].op = "write" => files'[Target(c)] = IF Refused(c) THEN files[Target(c)] ELSE c
      /\ fileCall[c].op \in {"delete", "delete_folder"} => files'[Target(c)] = NoData
  BY <1>1, EffectFacts
<1>3. /\ Target(c) \in Names /\ fileCall[c] \in FileCalls
      /\ fileCall[c].op \in {"read", "exists", "delete", "write", "delete_folder"}
      /\ ~Lists(c) => Target(c) = Base(c)
      /\ Lists(c) => /\ fileCall[c].op = "delete_folder" /\ NextPlace(c) \in listing[c]
                     /\ Target(c) = FileNames[NextPlace(c)]
  BY <1>1, TargetFacts
<1>4. /\ files[Target(c)] \in Contents
      /\ \A n, X : n = Target(c) /\ (files[n] \in X \/ files'[n] \in X) => Was(c, n, X)'
  BY <1>1, <1>2, TargetSeen
<1>5. Reply(c) \in {"ok", "no", "missing", "exists"}
  BY DEF Reply
<1>6. CASE Lists(c) /\ Reply(c) = "ok"
  <2>1. /\ filePhase' = [filePhase EXCEPT ![c] = "lists"]
        /\ listing' = [listing EXCEPT ![c] = listing[c] \ {NextPlace(c)}]
        /\ tries' = [tries EXCEPT ![c] = 0] /\ answer' = answer
    BY <1>6 DEF Answered
  <2>2. FilesTypeOK'
    <3>1. filePhase' \in [StorageClients -> {"idle", "checks", "asks", "lists", "ended"}]
      BY <2>1, FileTypes
    <3>2. listing' \in [StorageClients -> SUBSET (DOMAIN FileNames)]
      <4>1. (listing[c] \ {NextPlace(c)}) \in SUBSET (DOMAIN FileNames)
        BY FileTypes
      <4>2. QED
        BY <2>1, <4>1, FileTypes
    <3>3. tries' \in [StorageClients -> 0..NumTries]
      <4>1. NumTries \in Nat /\ 0 \in 0..NumTries
        BY FilesAssumption
      <4>2. QED
        BY <2>1, <4>1, FileTypes
    <3>4. QED
      BY <1>1, <1>2, <2>1, <3>1, <3>2, <3>3 DEF FilesIInv, FilesTypeOK
  <2>3. \A d \in StorageClients \ {c} : SameClient(d)
    BY <1>1, <1>2, <2>1, FileTypes DEF SameClient
  <2>4. /\ filePhase'[c] = "lists" /\ listing'[c] = listing[c] \ {NextPlace(c)} /\ tries'[c] = 0
        /\ answer'[c] = "" /\ Lists(c)' /\ Base(c)' = Base(c)
    BY <1>1, <1>6, <2>1, FileTypes DEF ClientOK, Lists, Base
  <2>5. \A n : n = FileNames[NextPlace(c)] => Was(c, n, {NoData})'
    <3>1. \A n : n = FileNames[NextPlace(c)] => n = Target(c) /\ files'[n] \in {NoData}
      BY <1>2, <1>3, <1>6
    <3>2. QED
      BY <1>4, <3>1
  <2>6. PagesOK(c)'
    <3>1. \A n, X : Was(c, n, X) => Was(c, n, X)'
      BY <1>2, WasGrows DEF SeenGrows
    <3>2. \A n : Found(c, n) => Found(c, n)'
      BY <1>1, <3>1 DEF Found
    <3>3. PagesOK(c)
      BY <1>1, FileTypes DEF ClientOK
    <3>4. \A i \in listing'[c] : Found(c, FileNames[i])'
      BY <2>4, <3>2, <3>3 DEF PagesOK
    <3>5. \A n \in listed'[c] : Found(c, n)'
      BY <1>1, <3>2, <3>3 DEF PagesOK
    <3>6. ASSUME NEW i \in 1..marker'[c], IsPrefix(Base(c), FileNames[i])'
          PROVE  \/ Was(c, FileNames[i], {NoData})'
                 \/ i \in listing'[c]
                 \/ fileCall'[c].op = "list" /\ FileNames[i] \in listed'[c]
      <4>1. \/ Was(c, FileNames[i], {NoData}) \/ i \in listing[c]
            \/ fileCall[c].op = "list" /\ FileNames[i] \in listed[c]
        BY <1>1, <2>4, <3>3, <3>6 DEF PagesOK
      <4>2. CASE i \in listing[c] /\ i # NextPlace(c)
        BY <2>4, <4>2
      <4>3. CASE i = NextPlace(c)
        BY <2>5, <4>3
      <4>4. CASE Was(c, FileNames[i], {NoData})
        BY <3>1, <4>4
      <4>5. QED
        BY <1>1, <4>1, <4>2, <4>3, <4>4
    <3>7. QED
      BY <3>4, <3>5, <3>6 DEF PagesOK
  <2>7. AnswerOK(c)'
    BY <2>4 DEF AnswerOK
  <2>8. 0 < NumTries /\ Active(c)
    BY <1>1, FilesAssumption DEF Active
  <2>9. ClientOK(c)'
    BY <1>1, <1>2, <1>3, <2>4, <2>6, <2>7, <2>8 DEF ClientOK, SeenGrows
  <2>10. QED
    BY <1>2, <2>2, <2>3, <2>9, OneClientMoves
<1>7. CASE ~(Lists(c) /\ Reply(c) = "ok")
  <2>1. Ends(c, Reply(c)) /\ listing' = listing /\ tries' = tries
    BY <1>7 DEF Answered
  <2>2. FilesTypeOK'
    <3>1. /\ filePhase' \in [StorageClients -> {"idle", "checks", "asks", "lists", "ended"}]
          /\ answer' \in [StorageClients -> {"", "ok", "no", "missing", "exists", "raised"}]
      BY <1>5, <2>1, FileTypes DEF Ends
    <3>2. QED
      BY <1>1, <1>2, <2>1, <3>1 DEF FilesIInv, FilesTypeOK
  <2>3. \A d \in StorageClients \ {c} : SameClient(d)
    BY <1>1, <1>2, <2>1, FileTypes DEF SameClient, Ends
  <2>4. Base(c)' = Base(c)
    BY <1>1 DEF Base
  <2>5. ASSUME Reply(c) = "ok"
        PROVE  CallDone(c)'
    <3>1. ~Lists(c) /\ Target(c) = Base(c) /\ fileCall[c].op \in {"read", "exists", "delete", "write"}
      BY <1>3, <1>7, <2>5 DEF Lists
    <3>2. PICK n : n = Base(c)
      OBVIOUS
    <3>3. n = Target(c) /\ n = Base(c)'
      BY <2>4, <3>1, <3>2
    <3>4. \A X : files[n] \in X \/ files'[n] \in X => Was(c, n, X)'
      BY <1>4, <3>3
    <3>5. \A X : Was(c, n, X)' => Was(c, Base(c), X)'
      BY <3>3
    <3>6. CASE fileCall[c].op = "write"
      <4>1. files'[n] = c
        BY <1>2, <2>5, <3>3, <3>6 DEF Reply
      <4>2. Was(c, Base(c), {c})'
        BY <3>4, <3>5, <4>1
      <4>3. QED
        BY <1>1, <3>6, <4>2 DEF CallDone, Base
    <3>7. CASE fileCall[c].op \in {"read", "exists"}
      <4>1. files[n] # NoData
        BY <2>5, <3>3, <3>7 DEF Reply
      <4>2. files[n] \in Contents \ {NoData}
        BY <1>4, <3>3, <4>1
      <4>3. Was(c, Base(c), Contents \ {NoData})'
        BY <3>4, <3>5, <4>2
      <4>4. QED
        BY <1>1, <3>7, <4>3 DEF CallDone, Base
    <3>8. CASE fileCall[c].op = "delete"
      <4>1. files[n] # NoData /\ files'[n] = NoData
        BY <1>2, <2>5, <3>3, <3>8 DEF Reply
      <4>2. files[n] \in Contents \ {NoData} /\ files'[n] \in {NoData}
        BY <1>4, <3>3, <4>1
      <4>3. Was(c, Base(c), Contents \ {NoData})' /\ Was(c, Base(c), {NoData})'
        BY <3>4, <3>5, <4>2
      <4>4. QED
        BY <1>1, <3>8, <4>3 DEF CallDone, Base
    <3>9. QED
      BY <3>1, <3>6, <3>7, <3>8
  <2>6. ASSUME Reply(c) \in {"no", "missing"}, ~Lists(c)
        PROVE  Was(c, Base(c), {NoData})'
    <3>1. files[Target(c)] = NoData
      BY <2>6 DEF Reply
    <3>2. PICK n : n = Base(c)
      OBVIOUS
    <3>3. n = Target(c) /\ n = Base(c)' /\ files[n] \in {NoData}
      BY <1>3, <2>4, <2>6, <3>1, <3>2
    <3>4. Was(c, n, {NoData})'
      BY <1>4, <3>3
    <3>5. QED
      BY <3>3, <3>4
  <2>7. ClientOK(c)'
    BY <1>1, <1>2, <2>1, <2>5, <2>6, EndsOK
  <2>8. QED
    BY <1>2, <2>2, <2>3, <2>7, OneClientMoves
<1>8. QED
  BY <1>6, <1>7

LEMMA FileCounters ==
  ASSUME FilesIInv, NEW c \in StorageClients
  PROVE  /\ tries[c] \in Nat /\ throttles \in Nat /\ marker[c] \in Nat /\ marker[c] <= Len(FileNames)
         /\ NumTries \in Nat /\ MaxThrottles \in Nat /\ Len(FileNames) \in Nat
<1>1. NumTries \in Nat /\ MaxThrottles \in Nat /\ Len(FileNames) \in Nat
  BY FilesAssumption, FileNameFacts
<1>2. tries[c] \in 0..NumTries /\ throttles \in 0..MaxThrottles /\ marker[c] \in 0..Len(FileNames)
  BY FileTypes
<1>3. QED
  BY <1>1, <1>2

\* A request that is throttled may have taken effect; its caller learns of it or asks again.
LEMMA RequestThrottledOK ==
  ASSUME FilesIInv, NEW c \in StorageClients, RequestThrottled(c)
  PROVE  FilesIInv'
<1>1. /\ filePhase[c] = "asks" /\ throttles < MaxThrottles /\ throttles' = throttles + 1
      /\ tries' = [tries EXCEPT ![c] = tries[c] + 1] /\ fileCall' = fileCall /\ listing' = listing
      /\ marker' = marker /\ listed' = listed /\ (TakesEffect(c) \/ UNCHANGED <<files, seen>>)
      /\ (GivesUp(c) \/ Ends(c, "raised"))
  BY DEF RequestThrottled
<1>2. /\ files' \in [Names -> Contents] /\ seen' \in [StorageClients -> SUBSET (Names \X Contents)] /\ SeenGrows
      /\ \A d \in StorageClients : filePhase[d] = "idle" => seen'[d] = seen[d]
  <2>1. CASE TakesEffect(c)
    BY <1>1, <2>1, EffectFacts
  <2>2. CASE UNCHANGED <<files, seen>>
    BY <2>2, SeenKept, FileTypes
  <2>3. QED
    BY <1>1, <2>1, <2>2
<1>3. /\ tries[c] < NumTries /\ answer[c] = "" /\ fileCall[c] \in FileCalls /\ PagesOK(c)
      /\ Lists(c) => fileCall[c].op = "delete_folder" /\ listing[c] # {}
      /\ listed[c] # {} => Lists(c)
  BY <1>1, FileTypes DEF ClientOK
<1>4. \/ Ends(c, "raised")
      \/ tries[c] + 1 < NumTries /\ filePhase' = filePhase /\ answer' = answer
  <2>1. tries[c] + 1 = NumTries \/ tries[c] + 1 < NumTries
    <3>1. tries[c] \in Nat /\ NumTries \in Nat /\ tries[c] < NumTries
      BY <1>3, FileCounters
    <3>2. QED
      BY <3>1
  <2>2. GivesUp(c) => Ends(c, "raised") \/ (tries[c] + 1 # NumTries /\ filePhase' = filePhase /\ answer' = answer)
    BY DEF GivesUp
  <2>3. QED
    BY <1>1, <2>1, <2>2
<1>5. FilesTypeOK'
  <2>1. /\ filePhase' \in [StorageClients -> {"idle", "checks", "asks", "lists", "ended"}]
        /\ answer' \in [StorageClients -> {"", "ok", "no", "missing", "exists", "raised"}]
    BY <1>4, FileTypes DEF Ends
  <2>2. tries[c] + 1 \in 0..NumTries /\ throttles + 1 \in 0..MaxThrottles
    <3>1. tries[c] \in Nat /\ NumTries \in Nat /\ tries[c] < NumTries
      BY <1>3, FileCounters
    <3>2. throttles \in Nat /\ MaxThrottles \in Nat /\ throttles < MaxThrottles
      BY <1>1, FileCounters
    <3>3. QED
      BY <3>1, <3>2
  <2>3. tries' \in [StorageClients -> 0..NumTries] /\ throttles' \in 0..MaxThrottles
    BY <1>1, <2>2, FileTypes
  <2>4. QED
    BY <1>1, <1>2, <2>1, <2>3 DEF FilesIInv, FilesTypeOK
<1>6. \A d \in StorageClients \ {c} : SameClient(d)
  BY <1>1, <1>2, <1>4, FileTypes DEF SameClient, Ends
<1>7. CASE Ends(c, "raised")
  <2>1. ClientOK(c)'
    BY <1>1, <1>2, <1>7, EndsOK
  <2>2. QED
    BY <1>2, <1>5, <1>6, <2>1, OneClientMoves
<1>8. CASE tries[c] + 1 < NumTries /\ filePhase' = filePhase /\ answer' = answer
  <2>1. /\ filePhase'[c] = "asks" /\ answer'[c] = "" /\ tries'[c] < NumTries /\ (Lists(c)' <=> Lists(c))
    BY <1>1, <1>3, <1>8, FileTypes DEF Lists
  <2>2. PagesOK(c)'
    BY <1>1, <1>2, <1>3, PagesKept DEF SeenGrows
  <2>3. AnswerOK(c)'
    BY <2>1 DEF AnswerOK
  <2>4. Active(c)
    BY <1>1 DEF Active
  <2>5. ClientOK(c)'
    BY <1>1, <1>2, <1>3, <2>1, <2>2, <2>3, <2>4 DEF ClientOK, SeenGrows
  <2>6. QED
    BY <1>2, <1>5, <1>6, <2>5, OneClientMoves
<1>9. QED
  BY <1>4, <1>7, <1>8

\* A name of the page is there now; one behind the marker that is not on it is gone.
LEMMA FetchPageOK ==
  ASSUME FilesIInv, NEW c \in StorageClients, NEW upTo \in DOMAIN FileNames, FetchPage(c, upTo)
  PROVE  FilesIInv'
<1> DEFINE page == {i \in (marker[c] + 1)..upTo :
                      /\ files[FileNames[i]] # NoData
                      /\ NameStartsWith(fileCall[c].store, fileCall[c].path, FileNames[i])}
<1>1. /\ filePhase[c] = "lists" /\ listing[c] = {} /\ marker[c] < upTo /\ upTo <= Len(FileNames)
      /\ listing' = [listing EXCEPT ![c] = page] /\ marker' = [marker EXCEPT ![c] = upTo]
      /\ files' = files /\ fileCall' = fileCall /\ filePhase' = filePhase /\ tries' = tries
      /\ listed' = listed /\ answer' = answer /\ throttles' = throttles /\ seen' = seen
  BY DEF FetchPage
<1>2. /\ marker[c] \in Nat /\ upTo \in Nat /\ Len(FileNames) \in Nat /\ DOMAIN FileNames = 1..Len(FileNames)
      /\ marker[c] <= Len(FileNames)
  <2>1. DOMAIN FileNames = 1..Len(FileNames)
    BY FileNameFacts
  <2>2. upTo \in Nat
    BY <2>1, FileCounters
  <2>3. QED
    BY <2>1, <2>2, FileCounters
<1>3. /\ answer[c] = "" /\ tries[c] < NumTries /\ fileCall[c] \in FileCalls /\ PagesOK(c) /\ Lists(c)
      /\ \A n \in Names : <<n, files[n]>> \in seen[c]
  BY <1>1, FileTypes DEF ClientOK, Active
<1>4. \A i \in 1..upTo : i \in DOMAIN FileNames /\ FileNames[i] \in Names /\ files[FileNames[i]] \in Contents
  <2>1. 1..upTo \subseteq DOMAIN FileNames
    BY <1>1, <1>2
  <2>2. QED
    BY <2>1, FileNameFacts, FileTypes
<1>5. page \subseteq 1..upTo
  BY <1>2
<1>6. SeenGrows
  BY <1>1, SeenKept
<1>7. FilesTypeOK'
  <2>1. page \in SUBSET (DOMAIN FileNames) /\ upTo \in 0..Len(FileNames)
    BY <1>1, <1>2, <1>4, <1>5
  <2> HIDE DEF page
  <2>2. listing' \in [StorageClients -> SUBSET (DOMAIN FileNames)]
    BY <1>1, <2>1, FileTypes
  <2>3. marker' \in [StorageClients -> 0..Len(FileNames)]
    BY <1>1, <2>1, FileTypes
  <2>4. QED
    BY <1>1, <2>2, <2>3 DEF FilesIInv, FilesTypeOK
<1>8. /\ listing'[c] = page /\ marker'[c] = upTo
      /\ \A d \in StorageClients \ {c} : listing'[d] = listing[d] /\ marker'[d] = marker[d]
  <2> HIDE DEF page
  <2>1. QED
    BY <1>1, FileTypes
<1>9. \A d \in StorageClients \ {c} : SameClient(d)
  BY <1>1, <1>8 DEF SameClient
<1>10. ASSUME NEW i \in 1..upTo
       PROVE  /\ files[FileNames[i]] = NoData => Was(c, FileNames[i], {NoData})
              /\ files[FileNames[i]] # NoData => Was(c, FileNames[i], Contents \ {NoData})
              /\ NameStartsWith(fileCall[c].store, fileCall[c].path, FileNames[i])
                   => IsPrefix(fileCall[c].store.prefix, FileNames[i])
              /\ IsPrefix(Base(c), FileNames[i])
                   => NameStartsWith(fileCall[c].store, fileCall[c].path, FileNames[i])
  <2>1. <<FileNames[i], files[FileNames[i]]>> \in seen[c] /\ files[FileNames[i]] \in Contents
    BY <1>3, <1>4
  <2>2. fileCall[c].store.prefix \in Texts /\ fileCall[c].path \in Texts
    BY <1>3, CallFacts
  <2>3. QED
    BY <1>4, <2>1, <2>2, StartsWithFacts DEF Was, Base
<1>11. PagesOK(c)'
  <2>1. \A n, X : Was(c, n, X) => Was(c, n, X)'
    BY <1>1, WasGrows
  <2>2. \A i \in listing'[c] : Found(c, FileNames[i])'
    BY <1>1, <1>4, <1>5, <1>8, <1>10, <2>1 DEF Found
  <2>3. \A n \in listed'[c] : Found(c, n)'
    BY <1>1, <1>3, <2>1 DEF PagesOK, Found
  <2>4. ASSUME NEW i \in 1..marker'[c], IsPrefix(Base(c), FileNames[i])'
        PROVE  \/ Was(c, FileNames[i], {NoData})'
               \/ i \in listing'[c]
               \/ fileCall'[c].op = "list" /\ FileNames[i] \in listed'[c]
    <3>1. IsPrefix(Base(c), FileNames[i]) /\ i \in 1..upTo /\ i \in Nat
      BY <1>1, <1>2, <1>8, <2>4 DEF Base
    <3>2. CASE i <= marker[c]
      <4>1. i \in 1..marker[c]
        BY <1>2, <3>1, <3>2
      <4>2. Was(c, FileNames[i], {NoData}) \/ (fileCall[c].op = "list" /\ FileNames[i] \in listed[c])
        BY <1>1, <1>3, <3>1, <4>1 DEF PagesOK
      <4>3. QED
        BY <1>1, <2>1, <4>2
    <3>3. CASE ~(i <= marker[c])
      <4>1. i \in (marker[c] + 1)..upTo
        BY <1>2, <3>1, <3>3
      <4>2. i \in page \/ Was(c, FileNames[i], {NoData})
        BY <1>10, <3>1, <4>1
      <4>3. QED
        BY <1>8, <2>1, <4>2
    <3>4. QED
      BY <3>2, <3>3
  <2>5. QED
    BY <2>2, <2>3, <2>4 DEF PagesOK
<1>12. ClientOK(c)'
  <2>1. Lists(c)' /\ AnswerOK(c)'
    BY <1>1, <1>3 DEF Lists, AnswerOK
  <2>2. \A n \in Names : <<n, files'[n]>> \in seen'[c]
    BY <1>1, <1>3
  <2>3. filePhase'[c] = "lists" /\ answer'[c] = "" /\ tries'[c] < NumTries /\ fileCall'[c] \in FileCalls
    BY <1>1, <1>3
  <2>4. QED
    BY <1>11, <2>1, <2>2, <2>3 DEF ClientOK
<1>13. QED
  BY <1>6, <1>7, <1>9, <1>12, OneClientMoves

LEMMA PageRaisesOK ==
  ASSUME FilesIInv, NEW c \in StorageClients, PageRaises(c)
  PROVE  FilesIInv'
<1>1. /\ filePhase[c] = "lists" /\ throttles < MaxThrottles /\ throttles' = throttles + 1 /\ Ends(c, "raised")
      /\ files' = files /\ fileCall' = fileCall /\ tries' = tries /\ listing' = listing
      /\ marker' = marker /\ listed' = listed /\ seen' = seen
  BY DEF PageRaises
<1>2. FilesTypeOK'
  <2>1. /\ filePhase' \in [StorageClients -> {"idle", "checks", "asks", "lists", "ended"}]
        /\ answer' \in [StorageClients -> {"", "ok", "no", "missing", "exists", "raised"}]
    BY <1>1, FileTypes DEF Ends
  <2>2. throttles + 1 \in 0..MaxThrottles
    BY <1>1, FileCounters
  <2>3. QED
    BY <1>1, <2>1, <2>2 DEF FilesIInv, FilesTypeOK
<1>3. SeenGrows
  BY <1>1, SeenKept
<1>4. \A d \in StorageClients \ {c} : SameClient(d)
  BY <1>1, FileTypes DEF SameClient, Ends
<1>5. ClientOK(c)'
  BY <1>1, <1>3, EndsOK
<1>6. QED
  BY <1>2, <1>3, <1>4, <1>5, OneClientMoves

\* The next name of the page is there at some time; delete_folder keeps its place until the file is deleted.
LEMMA YieldNameOK ==
  ASSUME FilesIInv, NEW c \in StorageClients, YieldName(c)
  PROVE  FilesIInv'
<1>1. /\ filePhase[c] = "lists" /\ listing[c] # {}
      /\ listed' = [listed EXCEPT ![c] = listed[c] \union {Target(c)}]
      /\ files' = files /\ fileCall' = fileCall /\ tries' = tries /\ marker' = marker
      /\ answer' = answer /\ throttles' = throttles /\ seen' = seen
  BY DEF YieldName
<1>2. \/ /\ fileCall[c].op = "list"
         /\ listing' = [listing EXCEPT ![c] = listing[c] \ {NextPlace(c)}] /\ filePhase' = filePhase
      \/ /\ fileCall[c].op # "list"
         /\ filePhase' = [filePhase EXCEPT ![c] = "asks"] /\ listing' = listing
  BY DEF YieldName
<1>3. /\ answer[c] = "" /\ tries[c] < NumTries /\ fileCall[c] \in FileCalls /\ PagesOK(c) /\ Lists(c)
      /\ \A n \in Names : <<n, files[n]>> \in seen[c]
  BY <1>1, FileTypes DEF ClientOK, Active
<1>4. NextPlace(c) \in listing[c] /\ Target(c) = FileNames[NextPlace(c)] /\ Target(c) \in Names
  BY <1>1, <1>3, NextPlaceFacts DEF Target
<1>5. SeenGrows
  BY <1>1, SeenKept
<1>6. FilesTypeOK'
  <2>1. (listed[c] \union {Target(c)}) \in SUBSET Names
    BY <1>4, FileTypes
  <2>2. listed' \in [StorageClients -> SUBSET Names]
    BY <1>1, <2>1, FileTypes
  <2>3. (listing[c] \ {NextPlace(c)}) \in SUBSET (DOMAIN FileNames)
    BY FileTypes
  <2>4. /\ listing' \in [StorageClients -> SUBSET (DOMAIN FileNames)]
        /\ filePhase' \in [StorageClients -> {"idle", "checks", "asks", "lists", "ended"}]
    BY <1>2, <2>3, FileTypes
  <2>5. QED
    BY <1>1, <2>2, <2>4 DEF FilesIInv, FilesTypeOK
<1>7. \A d \in StorageClients \ {c} : SameClient(d)
  BY <1>1, <1>2, FileTypes DEF SameClient
<1>8. /\ listed'[c] = listed[c] \union {FileNames[NextPlace(c)]} /\ (Lists(c)' <=> Lists(c)) /\ Base(c)' = Base(c)
      /\ \/ /\ fileCall[c].op = "list" /\ listing'[c] = listing[c] \ {NextPlace(c)} /\ filePhase'[c] = "lists"
         \/ /\ fileCall[c].op = "delete_folder" /\ listing'[c] = listing[c] /\ filePhase'[c] = "asks"
  BY <1>1, <1>2, <1>3, <1>4, FileTypes DEF Lists, Base
<1>9. PagesOK(c)'
  <2>1. \A n, X : Was(c, n, X) => Was(c, n, X)'
    BY <1>1, WasGrows
  <2>2. \A n : Found(c, n) => Found(c, n)'
    BY <1>1, <2>1 DEF Found
  <2>3. \A i \in listing'[c] : Found(c, FileNames[i])'
    BY <1>3, <1>8, <2>2 DEF PagesOK
  <2>4. \A n \in listed'[c] : Found(c, n)'
    BY <1>3, <1>4, <1>8, <2>2 DEF PagesOK
  <2>5. ASSUME NEW i \in 1..marker'[c], IsPrefix(Base(c), FileNames[i])'
        PROVE  \/ Was(c, FileNames[i], {NoData})'
               \/ i \in listing'[c]
               \/ fileCall'[c].op = "list" /\ FileNames[i] \in listed'[c]
    <3>1. \/ Was(c, FileNames[i], {NoData}) \/ i \in listing[c]
          \/ fileCall[c].op = "list" /\ FileNames[i] \in listed[c]
      BY <1>1, <1>3, <1>8, <2>5 DEF PagesOK
    <3>2. CASE i \in listing[c]
      BY <1>1, <1>8, <3>2
    <3>3. CASE Was(c, FileNames[i], {NoData})
      BY <2>1, <3>3
    <3>4. CASE fileCall[c].op = "list" /\ FileNames[i] \in listed[c]
      BY <1>1, <1>8, <3>4
    <3>5. QED
      BY <3>1, <3>2, <3>3, <3>4
  <2>6. QED
    BY <2>3, <2>4, <2>5 DEF PagesOK
<1>10. ClientOK(c)'
  <2>1. Lists(c)' /\ AnswerOK(c)'
    BY <1>1, <1>3, <1>8 DEF AnswerOK
  <2>2. \A n \in Names : <<n, files'[n]>> \in seen'[c]
    BY <1>1, <1>3
  <2>3. /\ answer'[c] = "" /\ tries'[c] < NumTries /\ fileCall'[c] \in FileCalls
        /\ filePhase'[c] \in {"lists", "asks"}
        /\ filePhase'[c] = "asks" => fileCall'[c].op = "delete_folder" /\ listing'[c] # {}
    BY <1>1, <1>3, <1>8
  <2>4. QED
    BY <1>9, <2>1, <2>2, <2>3 DEF ClientOK
<1>11. QED
  BY <1>5, <1>6, <1>7, <1>10, OneClientMoves

\* The pages have covered all names and nothing is left of the last.
LEMMA ListEndsOK ==
  ASSUME FilesIInv, NEW c \in StorageClients, ListEnds(c)
  PROVE  FilesIInv'
<1>1. /\ filePhase[c] = "lists" /\ listing[c] = {} /\ marker[c] = Len(FileNames) /\ Ends(c, "ok")
      /\ files' = files /\ fileCall' = fileCall /\ tries' = tries /\ listing' = listing
      /\ marker' = marker /\ listed' = listed /\ throttles' = throttles /\ seen' = seen
  BY DEF ListEnds
<1>2. FilesTypeOK'
  <2>1. /\ filePhase' \in [StorageClients -> {"idle", "checks", "asks", "lists", "ended"}]
        /\ answer' \in [StorageClients -> {"", "ok", "no", "missing", "exists", "raised"}]
    BY <1>1, FileTypes DEF Ends
  <2>2. QED
    BY <1>1, <2>1 DEF FilesIInv, FilesTypeOK
<1>3. SeenGrows
  BY <1>1, SeenKept
<1>4. \A d \in StorageClients \ {c} : SameClient(d)
  BY <1>1, FileTypes DEF SameClient, Ends
<1>5. PagesOK(c) /\ Lists(c) /\ fileCall[c] \in FileCalls
  BY <1>1, FileTypes DEF ClientOK
<1>6. \A n \in Names : IsPrefix(Base(c), n) =>
        Was(c, n, {NoData}) \/ (fileCall[c].op = "list" /\ n \in listed[c])
  <2> SUFFICES ASSUME NEW n \in Names, IsPrefix(Base(c), n)
               PROVE  Was(c, n, {NoData}) \/ (fileCall[c].op = "list" /\ n \in listed[c])
    OBVIOUS
  <2>1. PICK i \in DOMAIN FileNames : n = FileNames[i]
    BY FileNameFacts
  <2>2. i \in 1..marker[c]
    BY <1>1, FileNameFacts
  <2>3. QED
    BY <1>1, <1>5, <2>1, <2>2 DEF PagesOK
<1>7. \A n \in listed[c] : Was(c, n, Contents \ {NoData})
  BY <1>5 DEF PagesOK, Found
<1>8. CallDone(c)
  <2>1. CASE fileCall[c].op = "list"
    BY <1>6, <1>7, <2>1 DEF CallDone, Base
  <2>2. CASE fileCall[c].op = "delete_folder"
    BY <1>6, <2>2 DEF CallDone, Base
  <2>3. QED
    BY <1>5, <2>1, <2>2 DEF Lists
<1>9. CallDone(c)'
  BY <1>1, <1>5, <1>8, CallDoneKept
<1>10. ClientOK(c)'
  BY <1>1, <1>3, <1>9, EndsOK
<1>11. QED
  BY <1>2, <1>3, <1>4, <1>10, OneClientMoves

LEMMA FilesNextOK == FilesIInv /\ [FilesNext]_fileVars => FilesIInv'
<1> SUFFICES ASSUME FilesIInv, [FilesNext]_fileVars
             PROVE  FilesIInv'
  OBVIOUS
<1>1. ASSUME NEW c \in StorageClients, NEW call \in FileCalls, StartCall(c, call)
      PROVE  FilesIInv'
  BY <1>1, StartCallOK
<1>2. ASSUME NEW c \in StorageClients, CheckTarget(c)
      PROVE  FilesIInv'
  BY <1>2, CheckTargetOK
<1>3. ASSUME NEW c \in StorageClients, Answered(c)
      PROVE  FilesIInv'
  BY <1>3, AnsweredOK
<1>4. ASSUME NEW c \in StorageClients, RequestThrottled(c)
      PROVE  FilesIInv'
  BY <1>4, RequestThrottledOK
<1>5. ASSUME NEW c \in StorageClients, NEW upTo \in DOMAIN FileNames, FetchPage(c, upTo)
      PROVE  FilesIInv'
  BY <1>5, FetchPageOK
<1>6. ASSUME NEW c \in StorageClients, PageRaises(c)
      PROVE  FilesIInv'
  BY <1>6, PageRaisesOK
<1>7. ASSUME NEW c \in StorageClients, YieldName(c)
      PROVE  FilesIInv'
  BY <1>7, YieldNameOK
<1>8. ASSUME NEW c \in StorageClients, ListEnds(c)
      PROVE  FilesIInv'
  BY <1>8, ListEndsOK
<1>9. CASE UNCHANGED fileVars
  <2>1. /\ files' = files /\ fileCall' = fileCall /\ filePhase' = filePhase /\ tries' = tries
        /\ listing' = listing /\ marker' = marker /\ listed' = listed /\ answer' = answer
        /\ throttles' = throttles /\ seen' = seen
    BY <1>9 DEF fileVars
  <2>2. SeenGrows /\ \A d \in StorageClients : SameClient(d)
    BY <2>1, SeenKept DEF SameClient
  <2>3. \A d \in StorageClients : ClientOK(d)'
    BY <2>2, SameClientOK DEF FilesIInv
  <2>4. QED
    BY <2>1, <2>3 DEF FilesIInv, FilesTypeOK
<1>10. QED
  BY <1>1, <1>2, <1>3, <1>4, <1>5, <1>6, <1>7, <1>8, <1>9 DEF FilesNext

LEMMA FilesInvariant == FilesSpec => []FilesIInv
<1>1. FilesInit => FilesIInv
  BY FilesInitOK
<1>2. FilesIInv /\ [FilesNext]_fileVars => FilesIInv'
  BY FilesNextOK
<1>3. QED
  BY <1>1, <1>2, PTL DEF FilesSpec

\* The storages' calls keep to their types: what is left of a page are places of the container,
\* and a client asks at most NumTries times.
THEOREM FilesAreTyped == FilesSpec => []FilesTypeOK
<1>1. FilesIInv => FilesTypeOK
  BY DEF FilesIInv
<1>2. QED
  BY <1>1, FilesInvariant, PTL

\* Whatever the other clients and the repeated requests do: a call that answers "ok" did what it is
\* taken to have done at some moment before it returned, a file called missing was missing at some
\* moment, and the paths that list_files yields lead back to their files.
THEOREM StorageAnswers == FilesSpec => []StorageAnswersHold
<1>1. ASSUME FilesIInv
      PROVE  StorageAnswersHold
  <2> SUFFICES ASSUME NEW c \in StorageClients
               PROVE  /\ answer[c] = "ok" => CallDone(c)
                      /\ answer[c] \in {"no", "missing"} /\ ~Lists(c) =>
                           Was(c, AddPrefix(fileCall[c].store, fileCall[c].path), {NoData})
                      /\ \A n \in listed[c] : LeadsBack(c, n)
    BY DEF StorageAnswersHold
  <2>1. AnswerOK(c) /\ (listed[c] # {} => Lists(c) /\ fileCall[c] \in FileCalls /\ PagesOK(c))
    BY <1>1, FileTypes DEF ClientOK
  <2>2. ASSUME NEW n \in listed[c]
        PROVE  LeadsBack(c, n)
    <3>1. Lists(c) /\ fileCall[c] \in FileCalls /\ Found(c, n)
      BY <2>1 DEF PagesOK
    <3>2. /\ fileCall[c].store.engine = "blob"
          /\ fileCall[c].store \in [engine : {"blob", "local"}, prefix : Texts]
      BY <3>1, CallFacts DEF Lists
    <3>3. n \in Names /\ IsPrefix(fileCall[c].store.prefix, n)
      BY <3>1 DEF Found
    <3>4. QED
      BY <3>2, <3>3, PathsLeadBack
  <2>3. QED
    BY <2>1, <2>2 DEF AnswerOK, Base
<1>2. QED
  BY <1>1, FilesInvariant, PTL

-----------------------------------------------------------------------------
(* DatasetSplits: the folders above a folder                               *)

LEMMA AboveFacts ==
  ASSUME TreeOK
  PROVE  /\ Above \in [Folders -> SUBSET Folders]
         /\ \A f \in Folders : Above[f] = {f} \union (IF f = 1 THEN {} ELSE Above[parent[f]])
<1> DEFINE T == SUBSET Folders
           step == [x \in (2..NumFolders) \X T |-> {x[1]} \union x[2]]
<1>1. step \in [(2..NumFolders) \X T -> T]
  BY FolderFacts
<1>2. \A i \in 2..NumFolders, k \in T : step[<<i, k>>] = {i} \union k
  OBVIOUS
<1>3. parent \in [2..NumFolders -> 1..NumFolders] /\ \A i \in 2..NumFolders : parent[i] < i
  BY FolderFacts DEF TreeOK
<1>4. {1} \in T
  BY FolderFacts
<1>5. Climbs(NumFolders, parent) /\ Recursive(NumFolders, T, {1}, parent, step)
  <2> HIDE DEF step, T
  <2>1. QED
    BY <1>1, <1>3, <1>4, FolderFacts DEF Recursive, Climbs
<1> HIDE DEF step
<1>6. PICK d : d \in [1..NumFolders -> T] /\ Follows(d, NumFolders, {1}, parent, step)
  <2> HIDE DEF T
  <2>1. QED
    BY <1>5, RecursionExists
<1>7. \A i \in Folders : d[i] = {i} \union (IF i = 1 THEN {} ELSE d[parent[i]])
  <2> SUFFICES ASSUME NEW i \in 1..NumFolders
               PROVE  d[i] = {i} \union (IF i = 1 THEN {} ELSE d[parent[i]])
    BY FolderFacts
  <2>1. CASE i = 1
    BY <1>6, <2>1 DEF Follows
  <2>2. CASE i # 1
    <3>1. i \in 2..NumFolders /\ parent[i] \in 1..NumFolders
      BY <1>3, <2>2, FolderFacts
    <3>2. d[parent[i]] \in T
      BY <1>6, <3>1
    <3>3. d[i] = step[<<i, d[parent[i]]>>]
      BY <1>6, <2>2 DEF Follows
    <3>4. QED
      BY <1>2, <2>2, <3>1, <3>2, <3>3
  <2>3. QED
    BY <2>1, <2>2
<1>8. d = [f \in Folders |-> {f} \union (IF f = 1 THEN {} ELSE d[parent[f]])]
  BY <1>6, <1>7, FolderFacts
<1>9. Above = [f \in Folders |-> {f} \union (IF f = 1 THEN {} ELSE Above[parent[f]])]
  BY <1>8 DEF Above
<1>10. \A f \in Folders : Above[f] = {f} \union (IF f = 1 THEN {} ELSE Above[parent[f]])
  BY <1>9
<1>11. \A i \in 1..NumFolders : Above[i] = d[i]
  <2>1. SameStep(Above, d, NumFolders, parent)
    <3>1. ASSUME NEW i \in 1..NumFolders, i = 1 \/ Above[parent[i]] = d[parent[i]]
          PROVE  Above[i] = d[i]
      <4>1. /\ Above[i] = {i} \union (IF i = 1 THEN {} ELSE Above[parent[i]])
            /\ d[i] = {i} \union (IF i = 1 THEN {} ELSE d[parent[i]])
        BY <1>7, <1>10, FolderFacts
      <4>2. QED
        BY <3>1, <4>1
    <3>2. QED
      BY <3>1 DEF SameStep
  <2>2. QED
    BY ONLY <1>5, <2>1, RecursionSame
<1>12. Above = d
  BY <1>6, <1>9, <1>11, FolderFacts
<1>13. QED
  BY <1>6, <1>7, <1>12, FolderFacts

LEMMA AboveSame ==
  ASSUME parent' = parent
  PROVE  Above' = Above
BY DEF Above

\* What is above a folder is the folder, or less deep and numbered before it.
LEMMA AboveOrder ==
  ASSUME TreeOK
  PROVE  \A f \in Folders :
           /\ f \in Above[f] /\ 1 \in Above[f] /\ Above[f] \subseteq Folders
           /\ \A g \in Above[f] : g = f \/ (g < f /\ Depth[g] < Depth[f])
<1> DEFINE Fine(f) == 1 \in Above[f] /\ \A g \in Above[f] : g = f \/ (g < f /\ Depth[g] < Depth[f])
           Bad == {f \in Folders : ~Fine(f)}
<1>1. /\ Above \in [Folders -> SUBSET Folders]
      /\ \A f \in Folders : Above[f] = {f} \union (IF f = 1 THEN {} ELSE Above[parent[f]])
  BY AboveFacts
<1>2. SUFFICES ASSUME Bad # {}
               PROVE  FALSE
  BY <1>1
<1>3. PICK f \in Bad : \A g \in Bad : f <= g
  <2>1. Bad \in SUBSET Folders
    OBVIOUS
  <2> HIDE DEF Bad
  <2>2. QED
    BY <1>2, <2>1, LeastFolder
<1>4. f \in Folders /\ ~Fine(f)
  BY <1>3
<1>5. f # 1
  BY <1>1, <1>4
<1>6. parent[f] \in Folders /\ parent[f] < f
  BY <1>4, <1>5 DEF TreeOK
<1>7. parent[f] \notin Bad
  <2>1. ~(f <= parent[f])
    BY <1>4, <1>6, FolderFacts
  <2> HIDE DEF Bad
  <2>2. QED
    BY <1>3, <2>1
<1>8. Fine(parent[f])
  BY <1>6, <1>7
<1>9. Above[f] = {f} \union Above[parent[f]] /\ Above[parent[f]] \subseteq Folders
  BY <1>1, <1>4, <1>5, <1>6
<1>10. Depth[parent[f]] < Depth[f] /\ Depth[f] \in Nat /\ \A g \in Folders : Depth[g] \in Nat
  BY <1>4, <1>5, <1>6, DepthFacts
<1>11. ASSUME NEW g \in Above[f]
       PROVE  g = f \/ (g < f /\ Depth[g] < Depth[f])
  <2>1. CASE g = f
    BY <2>1
  <2>2. CASE g \in Above[parent[f]]
    <3>1. g \in Folders /\ (g = parent[f] \/ (g < parent[f] /\ Depth[g] < Depth[parent[f]]))
      BY <1>8, <1>9, <2>2
    <3>2. QED
      BY <1>4, <1>6, <1>10, <3>1, FolderFacts
  <2>3. QED
    BY <1>9, <1>11, <2>1, <2>2
<1>12. QED
  BY <1>4, <1>8, <1>9, <1>11

\* Above a folder there is one folder at most of each depth.
LEMMA OneAtDepth ==
  ASSUME TreeOK
  PROVE  \A f \in Folders : \A g, h \in Above[f] : Depth[g] = Depth[h] => g = h
<1> DEFINE Fine(f) == \A g, h \in Above[f] : Depth[g] = Depth[h] => g = h
           Bad == {f \in Folders : ~Fine(f)}
<1>1. /\ Above \in [Folders -> SUBSET Folders]
      /\ \A f \in Folders : Above[f] = {f} \union (IF f = 1 THEN {} ELSE Above[parent[f]])
  BY AboveFacts
<1>2. SUFFICES ASSUME Bad # {}
               PROVE  FALSE
  OBVIOUS
<1>3. PICK f \in Bad : \A g \in Bad : f <= g
  <2>1. Bad \in SUBSET Folders
    OBVIOUS
  <2> HIDE DEF Bad
  <2>2. QED
    BY <1>2, <2>1, LeastFolder
<1>4. f \in Folders /\ ~Fine(f)
  BY <1>3
<1>5. f # 1
  BY <1>1, <1>4
<1>6. parent[f] \in Folders /\ parent[f] < f
  BY <1>4, <1>5 DEF TreeOK
<1>7. parent[f] \notin Bad
  <2>1. ~(f <= parent[f])
    BY <1>4, <1>6, FolderFacts
  <2> HIDE DEF Bad
  <2>2. QED
    BY <1>3, <2>1
<1>8. Fine(parent[f])
  BY <1>6, <1>7
<1>9. Above[f] = {f} \union Above[parent[f]] /\ Above[parent[f]] \subseteq Folders
  BY <1>1, <1>4, <1>5, <1>6
<1>10. \A g \in Above[parent[f]] : Depth[g] # Depth[f]
  <2> SUFFICES ASSUME NEW g \in Above[parent[f]]
               PROVE  Depth[g] # Depth[f]
    OBVIOUS
  <2>1. g \in Folders /\ (g = parent[f] \/ Depth[g] < Depth[parent[f]])
    BY <1>6, <1>9, AboveOrder
  <2>2. /\ Depth[f] = Depth[parent[f]] + 1 /\ Depth[g] \in Nat
        /\ Depth[f] \in Nat /\ Depth[parent[f]] \in Nat
    BY <1>4, <1>5, <1>6, <2>1, DepthFacts
  <2>3. QED
    BY <2>1, <2>2
<1>11. QED
  BY <1>4, <1>8, <1>9, <1>10

\* A walk reaches the folders below its start that have no folder between that it is to leave out.
LEMMA ReachedAbove ==
  ASSUME TreeOK, walkOpts \in WalkOptions, walkOpts.atDepth = {}
  PROVE  \A f \in Folders :
           Reached[f] <=> /\ walkOpts.start \in Above[f]
                          /\ \A h \in Above[f] \ Above[walkOpts.start] : h \in walkOpts.folderMatches
<1> DEFINE start == walkOpts.start
           M == walkOpts.folderMatches
           Within(f) == start \in Above[f] /\ \A h \in Above[f] \ Above[start] : h \in M
           Bad == {f \in Folders : ~(Reached[f] <=> Within(f))}
<1>1. /\ Above \in [Folders -> SUBSET Folders]
      /\ \A f \in Folders : Above[f] = {f} \union (IF f = 1 THEN {} ELSE Above[parent[f]])
  BY AboveFacts
<1>2. SUFFICES ASSUME Bad # {}
               PROVE  FALSE
  OBVIOUS
<1>3. PICK f \in Bad : \A g \in Bad : f <= g
  <2>1. Bad \in SUBSET Folders
    OBVIOUS
  <2> HIDE DEF Bad
  <2>2. QED
    BY <1>2, <2>1, LeastFolder
<1>4. f \in Folders /\ ~(Reached[f] <=> Within(f)) /\ start \in Folders
  BY <1>3 DEF WalkOptions
<1>5. start \in Above[start]
  BY <1>4, AboveOrder
<1>6. Reached[f] <=> f = start \/ (f # 1 /\ Reached[parent[f]] /\ f \in M)
  BY <1>4, ReachedFacts
<1>7. f # start
  BY <1>4, <1>5, <1>6
<1>8. f # 1
  BY <1>1, <1>4, <1>6, <1>7
<1>9. parent[f] \in Folders /\ parent[f] < f
  BY <1>4, <1>8 DEF TreeOK
<1>10. parent[f] \notin Bad
  <2>1. ~(f <= parent[f])
    BY <1>4, <1>9, FolderFacts
  <2> HIDE DEF Bad
  <2>2. QED
    BY <1>3, <2>1
<1>11. Reached[parent[f]] <=> Within(parent[f])
  BY <1>9, <1>10
<1>12. Above[f] = {f} \union Above[parent[f]]
  BY <1>1, <1>4, <1>8
<1>13. ASSUME start \in Above[parent[f]]
       PROVE  f \notin Above[start]
  <2>1. start \in Folders /\ start < f
    BY <1>4, <1>9, <1>13, AboveOrder, FolderFacts
  <2>2. f # start /\ ~(f < start)
    BY <1>4, <2>1, FolderFacts
  <2>3. QED
    BY <1>4, <2>2, AboveOrder
<1>14. Within(f) <=> Within(parent[f]) /\ f \in M
  BY <1>7, <1>12, <1>13
<1> HIDE DEF Within
<1>15. QED
  BY <1>4, <1>6, <1>7, <1>8, <1>11, <1>14

-----------------------------------------------------------------------------
(* DatasetSplits: the inductive invariant.  Walk 0 of an input is the one  *)
(* an input without splits does not need; from[i] is the walk that made    *)
(* the i-th target.                                                        *)

\* The folders at which a split divides the tree
Divides(engine, split) ==
  {g \in Folders :
     /\ split.prefix \in Above[g] /\ (Given(split.depth) => Depth[g] = split.depth)
     /\ \A h \in Above[g] \ Above[SplitStart(engine, split)] : h \in split.folderMatches}

SplitsOf(s) == splitInputs[s].splits
WalksOf(s) == IF SplitsOf(s) = <<>> THEN {0} ELSE DOMAIN SplitsOf(s)
EngineOf(s) == splitInputs[s].engine
FoldersOf(s, j) == IF j = 0 THEN {1} ELSE Divides(EngineOf(s), SplitsOf(s)[j])

Behind(s, j) == s < splitAt[1] \/ (s = splitAt[1] /\ j < splitAt[2])
AtHand(s, j) == walking /\ s = splitAt[1] /\ j = splitAt[2]
FoldersYielded == {yielded[k].folder : k \in DOMAIN yielded}

\* What the walks so far are to have made targets: folder f, by walk j of input s
Due(s, j, f) ==
  /\ s \in DOMAIN splitInputs /\ j \in WalksOf(s) /\ f \in Folders
  /\ (Behind(s, j) /\ f \in FoldersOf(s, j)) \/ (AtHand(s, j) /\ f \in FoldersYielded)

IsTarget(from, i, s, j, f) ==
  splitTargets[i].storage = s /\ from[i] = j /\ splitTargets[i].folder = f

\* What is due is a target, once, and nothing else is.
TargetsOK(from) ==
  /\ \A i \in DOMAIN splitTargets : Due(splitTargets[i].storage, from[i], splitTargets[i].folder)
  /\ \A s, j, f : Due(s, j, f) => \E i \in DOMAIN splitTargets : IsTarget(from, i, s, j, f)
  /\ \A i, k \in DOMAIN splitTargets :
       IsTarget(from, i, splitTargets[k].storage, from[k], splitTargets[k].folder) => i = k

PlaceOK ==
  /\ splitAt[2] > 0 =>
       /\ splitAt[1] <= Len(splitInputs) /\ SplitsOf(splitAt[1]) # <<>>
       /\ splitAt[2] <= Len(SplitsOf(splitAt[1])) + 1
  /\ walking =>
       /\ splitAt[2] > 0 /\ splitAt[2] <= Len(SplitsOf(splitAt[1]))
       /\ walkOpts = SplitWalk(EngineOf(splitAt[1]), SplitsOf(splitAt[1])[splitAt[2]])

\* No more than n targets are over the limit.
Over(n) == Len(splitTargets) + 1 <= targetLimit + n

LimitOK ==
  IF ~splitLimitHit
  THEN Given(targetLimit) => Over(Cardinality(Undivided(splitAt[1])))
  ELSE LET last == splitTargets[Len(splitTargets)].storage
       IN  /\ Given(targetLimit) /\ targetLimit <= Len(splitTargets) /\ SplitsOf(last) # <<>>
           /\ IF splitAt[2] = 0 THEN Over(Cardinality(Undivided(last)) + Len(SplitsOf(last)))
              ELSE splitAt[1] = last /\ Over(Cardinality(Undivided(last)) + splitAt[2] - 1)

SplitsIInv ==
  /\ WalkIInv /\ SplitsTypeOK /\ PlaceOK /\ LimitOK
  /\ ~splitLimitHit => \E from \in [DOMAIN splitTargets -> Nat] : TargetsOK(from)

-----------------------------------------------------------------------------
(* DatasetSplits: types, and the walk of a split                           *)

LEMMA SplitFacts ==
  ASSUME SplitsTypeOK
  PROVE  /\ Len(splitInputs) \in Nat /\ DOMAIN splitInputs = 1..Len(splitInputs)
         /\ \A s \in DOMAIN splitInputs :
              /\ EngineOf(s) \in {"blob", "local"}
              /\ SplitsOf(s) \in Seq(SplitConfigs) /\ Len(SplitsOf(s)) \in Nat
              /\ DOMAIN SplitsOf(s) = 1..Len(SplitsOf(s)) /\ (SplitsOf(s) = <<>> <=> Len(SplitsOf(s)) = 0)
              /\ \A j \in DOMAIN SplitsOf(s) : SplitsOf(s)[j] \in SplitConfigs
         /\ targetLimit \in Nat /\ walking \in BOOLEAN /\ splitLimitHit \in BOOLEAN
         /\ splitAt[1] \in 1..(Len(splitInputs) + 1) /\ splitAt[1] \in Nat /\ splitAt[2] \in Nat
         /\ Len(splitTargets) \in Nat /\ DOMAIN splitTargets = 1..Len(splitTargets)
         /\ \A i \in DOMAIN splitTargets :
              splitTargets[i].storage \in DOMAIN splitInputs /\ splitTargets[i].folder \in Folders
<1>1. /\ splitInputs \in Seq(AssetStorages) /\ targetLimit \in 0..MaxTargets
      /\ splitAt \in (1..(Len(splitInputs) + 1)) \X Nat /\ {walking, splitLimitHit} \subseteq BOOLEAN
      /\ splitTargets \in Seq([storage : DOMAIN splitInputs, folder : Folders])
  BY DEF SplitsTypeOK
<1>2. Len(splitInputs) \in Nat /\ DOMAIN splitInputs = 1..Len(splitInputs)
  BY <1>1
<1>3. ASSUME NEW s \in DOMAIN splitInputs
      PROVE  /\ EngineOf(s) \in {"blob", "local"}
             /\ SplitsOf(s) \in Seq(SplitConfigs) /\ Len(SplitsOf(s)) \in Nat
             /\ DOMAIN SplitsOf(s) = 1..Len(SplitsOf(s)) /\ (SplitsOf(s) = <<>> <=> Len(SplitsOf(s)) = 0)
             /\ \A j \in DOMAIN SplitsOf(s) : SplitsOf(s)[j] \in SplitConfigs
  <2>1. splitInputs[s] \in AssetStorages
    BY <1>1, <1>2, <1>3, ElementOfSeq
  <2>2. EngineOf(s) \in {"blob", "local"} /\ SplitsOf(s) \in Seq(SplitConfigs)
    BY <2>1 DEF AssetStorages, SplitsOf, EngineOf
  <2>3. \A q \in Seq(SplitConfigs) :
          /\ Len(q) \in Nat /\ DOMAIN q = 1..Len(q) /\ (q = <<>> <=> Len(q) = 0)
          /\ \A j \in DOMAIN q : q[j] \in SplitConfigs
    <3> SUFFICES ASSUME NEW q \in Seq(SplitConfigs)
                 PROVE  /\ Len(q) \in Nat /\ DOMAIN q = 1..Len(q) /\ (q = <<>> <=> Len(q) = 0)
                        /\ \A j \in DOMAIN q : q[j] \in SplitConfigs
      OBVIOUS
    <3>1. Len(q) \in Nat /\ DOMAIN q = 1..Len(q) /\ (q = <<>> <=> Len(q) = 0)
      BY EmptySeq
    <3>2. QED
      BY <3>1, ElementOfSeq
  <2>4. QED
    BY <2>2, <2>3
<1>4. MaxTargets \in Nat
  BY SplitsAssumption
<1>5. targetLimit \in Nat /\ walking \in BOOLEAN /\ splitLimitHit \in BOOLEAN
  BY <1>1, <1>4
<1>6. splitAt[1] \in 1..(Len(splitInputs) + 1) /\ splitAt[1] \in Nat /\ splitAt[2] \in Nat
  BY <1>1, <1>2
<1>7. /\ Len(splitTargets) \in Nat /\ DOMAIN splitTargets = 1..Len(splitTargets)
      /\ \A i \in DOMAIN splitTargets :
           splitTargets[i].storage \in DOMAIN splitInputs /\ splitTargets[i].folder \in Folders
  <2> DEFINE R == [storage : DOMAIN splitInputs, folder : Folders]
  <2>1. \A r \in R : r.storage \in DOMAIN splitInputs /\ r.folder \in Folders
    OBVIOUS
  <2>2. splitTargets \in Seq(R)
    BY <1>1
  <2> HIDE DEF R
  <2>3. /\ Len(splitTargets) \in Nat /\ DOMAIN splitTargets = 1..Len(splitTargets)
        /\ \A i \in 1..Len(splitTargets) : splitTargets[i] \in R
    BY <2>2, ElementOfSeq
  <2>4. QED
    BY <2>1, <2>3
<1>8. QED
  BY <1>2, <1>3, <1>5, <1>6, <1>7

LEMMA SplitWalkFacts ==
  ASSUME NEW engine \in {"blob", "local"}, NEW split \in SplitConfigs
  PROVE  LET call == SplitWalk(engine, split)
         IN  /\ call \in WalkOptions /\ call.engine = engine /\ call.engine \in {"blob", "local"}
             /\ call.start = SplitStart(engine, split) /\ call.start \in Folders
             /\ engine = "local" => call.start = 1
             /\ call.named = SplitNamed(engine, split)
             /\ call.minDepth = split.depth /\ call.maxDepth = split.depth
             /\ call.walkLimit = 0 /\ call.fileLimit = 0
             /\ call.folderMatches = split.folderMatches /\ call.atDepth = {}
             /\ split.depth \in Nat /\ split.prefix \in Folders
<1>1. Options \subseteq Nat /\ 0 \in Options
  BY WalkAssumption DEF Options
<1>2. split.prefix \in Folders /\ split.depth \in Options /\ split.folderMatches \in SUBSET Folders
  BY DEF SplitConfigs
<1>3. SplitStart(engine, split) \in Folders /\ (engine = "local" => SplitStart(engine, split) = 1)
  BY <1>2, FolderFacts DEF SplitStart
<1>4. SplitNamed(engine, split) \in SUBSET Folders
  BY DEF SplitNamed, Below
<1>5. QED
  BY <1>1, <1>2, <1>3, <1>4 DEF SplitWalk, WalkOptions

\* The walk at hand stays that of its split.
LEMMA PlaceSame ==
  ASSUME PlaceOK, parent' = parent, walkOpts' = walkOpts, splitInputs' = splitInputs,
         splitAt' = splitAt, walking' = walking
  PROVE  PlaceOK'
BY AboveSame DEF PlaceOK, SplitsOf, EngineOf, SplitWalk, SplitStart, SplitNamed, Below

\* A walk that is done has yielded the folders at which its split divides the tree.
LEMMA WalkDivides ==
  ASSUME WalkIInv, NEW engine \in {"blob", "local"}, NEW split \in SplitConfigs,
         walkOpts = SplitWalk(engine, split), WalkDone
  PROVE  FoldersYielded = Divides(engine, split)
<1>1. TreeOK /\ WalkTypeOK
  BY DEF WalkIInv
<1>2. /\ walkOpts \in WalkOptions /\ walkOpts.start = SplitStart(engine, split)
      /\ walkOpts.named = SplitNamed(engine, split) /\ split.prefix \in Folders
      /\ walkOpts.minDepth = split.depth /\ walkOpts.maxDepth = split.depth
      /\ walkOpts.walkLimit = 0 /\ walkOpts.fileLimit = 0
      /\ walkOpts.folderMatches = split.folderMatches /\ walkOpts.atDepth = {} /\ split.depth \in Nat
  BY SplitWalkFacts
<1> DEFINE wanted == {f \in Folders : Reached[f] /\ ~PassedOver(f) /\ ~TooDeep(f)}
<1>3. {yielded[i] : i \in DOMAIN yielded} = {[folder |-> f, files |-> FilesOf(f)] : f \in wanted}
  BY <1>2, WalkCovers DEF WalkCoversTree, Given
<1>4. FoldersYielded = wanted
  <2>1. \A f : [folder |-> f, files |-> FilesOf(f)].folder = f
    OBVIOUS
  <2> HIDE DEF wanted
  <2>2. ASSUME NEW i \in DOMAIN yielded
        PROVE  yielded[i].folder \in wanted
    <3>1. PICK f \in wanted : yielded[i] = [folder |-> f, files |-> FilesOf(f)]
      BY <1>3
    <3>2. QED
      BY <2>1, <3>1
  <2>3. ASSUME NEW f \in wanted
        PROVE  \E i \in DOMAIN yielded : yielded[i].folder = f
    <3>1. PICK i \in DOMAIN yielded : yielded[i] = [folder |-> f, files |-> FilesOf(f)]
      BY <1>3
    <3>2. QED
      BY <2>1, <3>1
  <2>4. QED
    BY <2>2, <2>3 DEF FoldersYielded
<1>5. ASSUME NEW f \in Folders
      PROVE  f \in wanted <=> f \in Divides(engine, split)
  <2>1. Depth[f] \in Nat
    BY <1>1, DepthFacts
  <2>2. ~PassedOver(f) /\ ~TooDeep(f) <=>
          f \in SplitNamed(engine, split) /\ (Given(split.depth) => Depth[f] = split.depth)
    BY <1>2, <2>1 DEF PassedOver, TooDeep, Given
  <2>3. Reached[f] <=>
          /\ SplitStart(engine, split) \in Above[f]
          /\ \A h \in Above[f] \ Above[SplitStart(engine, split)] : h \in split.folderMatches
    BY <1>1, <1>2, ReachedAbove
  <2>4. f \in SplitNamed(engine, split) /\ SplitStart(engine, split) \in Above[f]
          <=> split.prefix \in Above[f]
    BY <1>1, AboveOrder DEF SplitNamed, SplitStart, Below
  <2>5. QED
    BY <2>2, <2>3, <2>4 DEF Divides
<1>6. QED
  BY <1>4, <1>5 DEF Divides

\* A step of a walk yields one folder or none, and none twice.
LEMMA WalkYield ==
  ASSUME WalkIInv, WalkNext
  PROVE  /\ parent' = parent /\ walkOpts' = walkOpts
         /\ \/ yielded' = yielded
            \/ /\ Len(yielded') = Len(yielded) + 1 /\ yielded'[Len(yielded')].folder \in Folders
               /\ yielded'[Len(yielded')].folder \notin FoldersYielded
               /\ FoldersYielded' = FoldersYielded \union {yielded'[Len(yielded')].folder}
<1>1. WalkTypeOK /\ (Given(walkOpts.fileLimit) => fileCount <= walkOpts.fileLimit)
  BY DEF WalkIInv
<1>2. StartLevel \/ LocalReturns \/ \E f \in Folders : BlobFolder(f) \/ LocalFolder(f)
  BY DEF WalkNext
<1>3. CASE StartLevel \/ LocalReturns
  BY <1>3 DEF StartLevel, LocalReturns
<1>4. ASSUME NEW f \in Folders, BlobFolder(f) \/ LocalFolder(f)
      PROVE  parent' = parent /\ walkOpts' = walkOpts /\ (yielded' = yielded \/ Yield(f))
  <2>1. CASE BlobFolder(f)
    BY <2>1 DEF BlobFolder
  <2>2. CASE LocalFolder(f)
    BY <2>2 DEF LocalFolder
  <2>3. QED
    BY <1>4, <2>1, <2>2
<1>5. ASSUME NEW f \in Folders, Yield(f)
      PROVE  /\ Len(yielded') = Len(yielded) + 1 /\ yielded'[Len(yielded')].folder \in Folders
             /\ yielded'[Len(yielded')].folder \notin FoldersYielded
             /\ FoldersYielded' = FoldersYielded \union {yielded'[Len(yielded')].folder}
  <2> DEFINE n == Len(yielded)
  <2>1. /\ n \in Nat /\ Len(yielded') = n + 1 /\ DOMAIN yielded = 1..n /\ DOMAIN yielded' = 1..(n + 1)
        /\ \A i \in 1..n : yielded'[i] = yielded[i]
        /\ yielded'[n + 1].folder = f
    BY <1>1, <1>5, YieldFacts
  <2>2. \A i, j \in 1..(n + 1) : yielded'[i].folder = yielded'[j].folder => i = j
    <3>1. WalkIInv'
      BY WalkNextOK
    <3>2. \E V : Yields(V)'
      BY <3>1 DEF WalkIInv
    <3>3. QED
      BY <2>1, <3>2 DEF Yields
  <2>3. 1..(n + 1) = (1..n) \union {n + 1} /\ n + 1 \notin 1..n
    BY <2>1
  <2>4. f \notin FoldersYielded
    <3> SUFFICES ASSUME NEW i \in 1..n, yielded[i].folder = f
                 PROVE  FALSE
      BY <2>1 DEF FoldersYielded
    <3>1. i \in 1..(n + 1) /\ n + 1 \in 1..(n + 1) /\ i # n + 1
      BY <2>3
    <3>2. QED
      BY <2>1, <2>2, <3>1
  <2>5. FoldersYielded' = FoldersYielded \union {f}
    <3> HIDE DEF n
    <3>1. QED
      BY <2>1, <2>3 DEF FoldersYielded
  <2>6. QED
    BY <2>1, <2>4, <2>5
<1>6. QED
  BY <1>2, <1>3, <1>4, <1>5

LEMMA BeginWalkOK ==
  ASSUME WalkIInv, SplitsTypeOK, PlaceOK, BeginWalk
  PROVE  /\ WalkIInv' /\ parent' = parent /\ yielded' = <<>>
         /\ splitAt[1] \in DOMAIN splitInputs /\ splitAt[2] \in DOMAIN SplitsOf(splitAt[1])
         /\ walkOpts' = SplitWalk(EngineOf(splitAt[1]), SplitsOf(splitAt[1])[splitAt[2]])
<1> DEFINE split == SplitsOf(splitAt[1])[splitAt[2]]
           engine == EngineOf(splitAt[1])
<1>1. /\ splitAt[1] \in DOMAIN splitInputs /\ splitAt[2] \in DOMAIN SplitsOf(splitAt[1])
      /\ split \in SplitConfigs /\ engine \in {"blob", "local"}
  <2>1. splitAt[1] \in DOMAIN splitInputs
    BY SplitFacts DEF PlaceOK, BeginWalk
  <2>2. splitAt[2] \in 1..Len(SplitsOf(splitAt[1]))
    BY <2>1, SplitFacts DEF BeginWalk, SplitsOf, InputAt
  <2>3. QED
    BY <2>1, <2>2, SplitFacts
<1>2. /\ parent' = parent /\ walkOpts' = SplitWalk(engine, split)
      /\ todo' = (IF walkOpts'.engine = "blob" THEN <<{}, {walkOpts'.start}>> ELSE <<{walkOpts'.start}>>)
      /\ yielded' = <<>> /\ walkCount' = 0 /\ fileCount' = 0 /\ limitBreak' = FALSE /\ walkEnded' = FALSE
  BY DEF BeginWalk, SplitsOf, EngineOf, InputAt, FirstTodo
<1> HIDE DEF split, engine
<1>3. /\ walkOpts' \in WalkOptions /\ walkOpts'.engine \in {"blob", "local"} /\ walkOpts'.start \in Folders
      /\ walkOpts'.engine = "local" => walkOpts'.start = 1
      /\ walkOpts'.fileLimit = 0 /\ walkOpts'.walkLimit = 0
  BY <1>1, <1>2, SplitWalkFacts
<1>4. TreeOK /\ TreeOK' /\ parent' \in [Folders \ {1} -> Folders]
  BY <1>2 DEF WalkIInv, TreeOK
<1>5. /\ todo' \in Seq(SUBSET Folders) /\ Len(todo') > 0
      /\ walkOpts'.engine = "blob" =>
           Len(todo') = 2 /\ DOMAIN todo' = {1, 2} /\ todo'[1] = {} /\ todo'[2] = {walkOpts'.start}
      /\ walkOpts'.engine = "local" => DOMAIN todo' = {1} /\ todo'[1] = {walkOpts'.start}
  <2>1. {} \in SUBSET Folders /\ {walkOpts'.start} \in SUBSET Folders
    BY <1>3
  <2>2. \A a, b \in SUBSET Folders :
          /\ <<a, b>> \in Seq(SUBSET Folders) /\ Len(<<a, b>>) = 2 /\ DOMAIN <<a, b>> = {1, 2}
          /\ <<a, b>>[1] = a /\ <<a, b>>[2] = b
          /\ <<b>> \in Seq(SUBSET Folders) /\ Len(<<b>>) = 1 /\ DOMAIN <<b>> = {1} /\ <<b>>[1] = b
    OBVIOUS
  <2>3. CASE walkOpts'.engine = "blob"
    <3>1. todo' = <<{}, {walkOpts'.start}>>
      BY <1>2, <2>3
    <3>2. QED
      BY <2>1, <2>2, <2>3, <3>1
  <2>4. CASE walkOpts'.engine = "local"
    <3>1. todo' = <<{walkOpts'.start}>>
      BY <1>2, <2>4
    <3>2. QED
      BY <2>1, <2>2, <2>4, <3>1
  <2>5. QED
    BY <1>3, <2>3, <2>4
<1>6. WalkTypeOK'
  <2>1. yielded' \in Seq([folder : Folders, files : Nat])
    BY <1>2
  <2>2. walkCount' \in Nat /\ fileCount' \in Nat /\ limitBreak' \in BOOLEAN /\ walkEnded' \in BOOLEAN
    BY <1>2
  <2>3. QED
    BY <1>3, <1>4, <1>5, <2>1, <2>2 DEF WalkTypeOK
<1>7. Pending' = {walkOpts'.start} /\ \A f \in Pending' : Unvisited(f)'
  BY <1>3, <1>5 DEF Pending, Unvisited
<1>8. Visits({})'
  BY <1>3, <1>7, FolderFacts DEF Visits
<1>9. Yields({})'
  BY <1>2 DEF Yields
<1>10. walkOpts'.engine = "blob" => \E k \in Nat : Levels(k)'
  <2>1. Depth' = Depth /\ Depth[walkOpts'.start] \in Nat
    BY <1>2, <1>3, <1>4, DepthSame, DepthFacts
  <2>2. walkOpts'.engine = "blob" => \A k : k = Depth[walkOpts'.start] => Levels(k)'
    BY <1>2, <1>5, <2>1 DEF Levels, Level, NextLevel
  <2>3. QED
    BY <2>1, <2>2
<1>11. \E s \in [0..Len(yielded') -> Nat] : Sums(s)'
  <2>1. Len(yielded') = 0
    BY <1>2
  <2>2. \A s : s = [i \in 0..0 |-> 0] => s \in [0..0 -> Nat] /\ Sums(s)'
    BY <1>2, <2>1 DEF Sums
  <2>3. QED
    BY <2>1, <2>2
<1>12. (Given(walkOpts.fileLimit) => fileCount <= walkOpts.fileLimit)'
  BY <1>3 DEF Given
<1>13. (walkOpts.engine = "local" => LocalStack)'
  BY <1>2, <1>3, <1>5 DEF LocalStack, Given
<1>14. WalkIInv'
  BY <1>4, <1>6, <1>8, <1>9, <1>10, <1>11, <1>12, <1>13 DEF WalkIInv
<1>15. QED
  BY <1>1, <1>2, <1>14 DEF split, engine

-----------------------------------------------------------------------------
(* DatasetSplits: what a step does to what is due                          *)

LEMMA SameInputs ==
  ASSUME parent' = parent, splitInputs' = splitInputs
  PROVE  \A s : /\ SplitsOf(s)' = SplitsOf(s) /\ WalksOf(s)' = WalksOf(s)
                /\ Undivided(s)' = Undivided(s)
                /\ \A j : FoldersOf(s, j)' = FoldersOf(s, j)
<1>1. Above' = Above /\ Depth' = Depth
  BY AboveSame, DepthSame
<1>2. \A s : SplitsOf(s)' = SplitsOf(s) /\ WalksOf(s)' = WalksOf(s)
  BY DEF SplitsOf, WalksOf
<1>3. \A s : Undivided(s)' = Undivided(s)
  BY DEF Undivided
<1>4. \A s, j : FoldersOf(s, j)' = FoldersOf(s, j)
  <2> SUFFICES ASSUME NEW s, NEW j
               PROVE  FoldersOf(s, j)' = FoldersOf(s, j)
    OBVIOUS
  <2>1. CASE j = 0
    BY <2>1 DEF FoldersOf
  <2>2. CASE j # 0
    BY <1>1, <2>2 DEF FoldersOf, Divides, SplitStart, EngineOf, SplitsOf, Given
  <2>3. QED
    BY <2>1, <2>2
<1>5. QED
  BY <1>2, <1>3, <1>4

LEMMA DueSame ==
  ASSUME NEW from, TargetsOK(from), splitTargets' = splitTargets,
         \A s, j, f : Due(s, j, f)' <=> Due(s, j, f)
  PROVE  TargetsOK(from)'
<1>1. \A i, s, j, f : IsTarget(from, i, s, j, f)' <=> IsTarget(from, i, s, j, f)
  BY DEF IsTarget
<1>2. \A i \in DOMAIN splitTargets' :
        Due(splitTargets[i].storage, from[i], splitTargets[i].folder)'
  <2> SUFFICES ASSUME NEW i \in DOMAIN splitTargets
               PROVE  Due(splitTargets[i].storage, from[i], splitTargets[i].folder)'
    OBVIOUS
  <2>1. PICK s, j, f : s = splitTargets[i].storage /\ j = from[i] /\ f = splitTargets[i].folder
    OBVIOUS
  <2>2. Due(s, j, f)'
    BY <2>1 DEF TargetsOK
  <2>3. s = splitTargets'[i].storage /\ j = from[i] /\ f = splitTargets'[i].folder
    BY <2>1
  <2>4. QED
    BY <2>2, <2>3 DEF Due
<1>3. \A s, j, f : Due(s, j, f)' => \E i \in DOMAIN splitTargets' : IsTarget(from, i, s, j, f)'
  BY <1>1 DEF TargetsOK
<1>4. QED
  BY <1>2, <1>3 DEF TargetsOK, IsTarget

\* One folder more is due, and made the last target.
LEMMA DueMore ==
  ASSUME NEW from \in [DOMAIN splitTargets -> Nat], TargetsOK(from), Len(splitTargets) \in Nat,
         DOMAIN splitTargets = 1..Len(splitTargets),
         NEW s, NEW j \in Nat, NEW f, NEW t, t.storage = s, t.folder = f,
         splitTargets' = Append(splitTargets, t), ~Due(s, j, f),
         \A s2, j2, f2 : Due(s2, j2, f2)' <=> Due(s2, j2, f2) \/ (s2 = s /\ j2 = j /\ f2 = f)
  PROVE  \E now \in [DOMAIN splitTargets' -> Nat] : TargetsOK(now)'
<1>0. PICK n \in Nat : n = Len(splitTargets) /\ DOMAIN splitTargets = 1..n
  OBVIOUS
<1>1. /\ Len(splitTargets') = n + 1 /\ DOMAIN splitTargets' = 1..(n + 1)
      /\ splitTargets'[n + 1] = t /\ \A i \in 1..n : splitTargets'[i] = splitTargets[i]
  BY <1>0
<1>2. 1..(n + 1) = (1..n) \union {n + 1} /\ n + 1 \notin 1..n
  OBVIOUS
<1>3. PICK now \in [1..(n + 1) -> Nat] : now[n + 1] = j /\ \A i \in 1..n : now[i] = from[i]
  <2> DEFINE g == [i \in 1..(n + 1) |-> IF i = n + 1 THEN j ELSE from[i]]
  <2>1. g \in [1..(n + 1) -> Nat] /\ g[n + 1] = j /\ \A i \in 1..n : g[i] = from[i]
    BY <1>0, <1>2
  <2>2. QED
    BY <2>1
<1>4. ASSUME NEW i \in 1..(n + 1)
      PROVE  \A s2, j2, f2 : IsTarget(now, i, s2, j2, f2)' <=>
               IF i = n + 1 THEN s2 = s /\ j2 = j /\ f2 = f ELSE IsTarget(from, i, s2, j2, f2)
  BY <1>1, <1>2, <1>3, <1>4 DEF IsTarget
<1>5. ASSUME NEW i \in 1..(n + 1)
      PROVE  Due(splitTargets[i].storage, now[i], splitTargets[i].folder)'
  <2>1. PICK s2, j2, f2 : s2 = splitTargets'[i].storage /\ j2 = now[i] /\ f2 = splitTargets'[i].folder
    OBVIOUS
  <2>2. CASE i = n + 1
    <3>1. s2 = s /\ j2 = j /\ f2 = f
      BY <1>1, <1>3, <2>1, <2>2
    <3>2. Due(s2, j2, f2)'
      BY <3>1
    <3>3. QED
      BY <2>1, <3>2 DEF Due
  <2>3. CASE i # n + 1
    <3>1. i \in 1..n /\ i \in DOMAIN splitTargets
      BY <1>0, <1>2, <2>3
    <3>2. s2 = splitTargets[i].storage /\ j2 = from[i] /\ f2 = splitTargets[i].folder
      BY <1>1, <1>3, <2>1, <3>1
    <3>3. Due(s2, j2, f2)
      BY <3>1, <3>2 DEF TargetsOK
    <3>4. Due(s2, j2, f2)'
      BY <3>3
    <3>5. QED
      BY <2>1, <3>4 DEF Due
  <2>4. QED
    BY <2>2, <2>3
<1>6. ASSUME NEW s2, NEW j2, NEW f2, Due(s2, j2, f2)'
      PROVE  \E i \in 1..(n + 1) : IsTarget(now, i, s2, j2, f2)'
  <2>1. CASE s2 = s /\ j2 = j /\ f2 = f
    <3>1. n + 1 \in 1..(n + 1)
      BY <1>2
    <3>2. QED
      BY <1>4, <2>1, <3>1
  <2>2. CASE Due(s2, j2, f2)
    <3>1. PICK i \in DOMAIN splitTargets : IsTarget(from, i, s2, j2, f2)
      BY <2>2 DEF TargetsOK
    <3>2. i \in 1..(n + 1) /\ i # n + 1
      BY <1>0, <1>2, <3>1
    <3>3. QED
      BY <1>4, <3>1, <3>2
  <2>3. QED
    BY <1>6, <2>1, <2>2
<1>7. ASSUME NEW i \in 1..n
      PROVE  ~IsTarget(from, i, s, j, f)
  BY <1>0, <1>7 DEF TargetsOK, IsTarget
<1>8. ASSUME NEW i \in 1..(n + 1), NEW k \in 1..(n + 1),
             IsTarget(now, i, splitTargets[k].storage, now[k], splitTargets[k].folder)'
      PROVE  i = k
  <2>1. PICK s2, j2, f2 : s2 = splitTargets'[k].storage /\ j2 = now[k] /\ f2 = splitTargets'[k].folder
    OBVIOUS
  <2>2. IsTarget(now, i, s2, j2, f2)' /\ IsTarget(now, k, s2, j2, f2)'
    BY <1>8, <2>1 DEF IsTarget
  <2>3. CASE i = n + 1 \/ k = n + 1
    <3>1. s2 = s /\ j2 = j /\ f2 = f
      BY <1>4, <2>2, <2>3
    <3>2. QED
      BY <1>2, <1>4, <1>7, <2>2, <3>1
  <2>4. CASE i # n + 1 /\ k # n + 1
    <3>1. i \in DOMAIN splitTargets /\ k \in DOMAIN splitTargets
      BY <1>0, <1>2, <2>4
    <3>2. IsTarget(from, i, s2, j2, f2) /\ IsTarget(from, k, s2, j2, f2)
      BY <1>4, <2>2, <2>4
    <3>3. QED
      BY <3>1, <3>2 DEF TargetsOK, IsTarget
  <2>5. QED
    BY <2>3, <2>4
<1>9. TargetsOK(now)'
  <2>1. \A i \in DOMAIN splitTargets' : Due(splitTargets[i].storage, now[i], splitTargets[i].folder)'
    BY <1>1, <1>5
  <2>2. \A s2, j2, f2 : Due(s2, j2, f2)' => \E i \in DOMAIN splitTargets' : IsTarget(now, i, s2, j2, f2)'
    BY <1>1, <1>6
  <2>3. \A i, k \in DOMAIN splitTargets' :
          IsTarget(now, i, splitTargets[k].storage, now[k], splitTargets[k].folder)' => i = k
    BY <1>1, <1>8
  <2>4. QED
    BY <2>1, <2>2, <2>3 DEF TargetsOK
<1>10. QED
  BY <1>1, <1>3, <1>9

LEMMA UndividedFacts ==
  ASSUME NEW s \in Nat \ {0}
  PROVE  /\ IsFiniteSet(Undivided(s)) /\ Cardinality(Undivided(s)) \in Nat
         /\ Cardinality(Undivided(1)) = 0
         /\ Cardinality(Undivided(s + 1)) =
              IF SplitsOf(s) = <<>> THEN Cardinality(Undivided(s)) + 1 ELSE Cardinality(Undivided(s))
<1>1. IsFiniteSet(Undivided(s))
  <2>1. IsFiniteSet(1..(s - 1))
    BY FS_Interval
  <2>2. Undivided(s) \in SUBSET (1..(s - 1))
    BY DEF Undivided
  <2>3. QED
    BY <2>1, <2>2, FS_Subset
<1>2. Cardinality(Undivided(s)) \in Nat
  BY <1>1, FS_CardinalityType
<1>3. Cardinality(Undivided(1)) = 0
  <2>1. Undivided(1) = {}
    BY DEF Undivided
  <2>2. QED
    BY <2>1, FS_EmptySet
<1>4. Cardinality(Undivided(s + 1)) =
        IF SplitsOf(s) = <<>> THEN Cardinality(Undivided(s)) + 1 ELSE Cardinality(Undivided(s))
  <2>1. 1..(s + 1 - 1) = (1..(s - 1)) \union {s} /\ s \notin 1..(s - 1)
    OBVIOUS
  <2>2. s \notin Undivided(s)
    BY <2>1 DEF Undivided
  <2>3. CASE SplitsOf(s) = <<>>
    <3>1. Undivided(s + 1) = Undivided(s) \union {s}
      BY <2>1, <2>3 DEF Undivided, SplitsOf
    <3>2. QED
      BY <1>1, <2>2, <2>3, <3>1, FS_AddElement
  <2>4. CASE SplitsOf(s) # <<>>
    <3>1. Undivided(s + 1) = Undivided(s)
      BY <2>1, <2>4 DEF Undivided, SplitsOf
    <3>2. QED
      BY <2>4, <3>1
  <2>5. QED
    BY <2>3, <2>4
<1>5. QED
  BY <1>1, <1>2, <1>3, <1>4

-----------------------------------------------------------------------------
(* DatasetSplits: the steps                                                *)

LEMMA WalksFacts ==
  ASSUME SplitsTypeOK, NEW s \in DOMAIN splitInputs, NEW j \in WalksOf(s)
  PROVE  j \in Nat /\ s \in Nat /\ (SplitsOf(s) = <<>> => j = 0) /\ (SplitsOf(s) # <<>> => j > 0)
         /\ j <= Len(SplitsOf(s))
BY SplitFacts DEF WalksOf

LEMMA DueNow ==
  ASSUME parent' = parent, splitInputs' = splitInputs
  PROVE  \A s, j, f :
           Due(s, j, f)' <=>
             /\ s \in DOMAIN splitInputs /\ j \in WalksOf(s) /\ f \in Folders
             /\ \/ (s < splitAt'[1] \/ (s = splitAt'[1] /\ j < splitAt'[2])) /\ f \in FoldersOf(s, j)
                \/ walking' /\ s = splitAt'[1] /\ j = splitAt'[2] /\ f \in FoldersYielded'
BY SameInputs DEF Due, Behind, AtHand

LEMMA PlaceFacts ==
  ASSUME SplitsTypeOK, PlaceOK, splitAt[2] > 0
  PROVE  /\ splitAt[1] \in DOMAIN splitInputs /\ splitAt[1] \in Nat \ {0} /\ SplitsOf(splitAt[1]) # <<>>
         /\ splitAt[2] <= Len(SplitsOf(splitAt[1])) + 1 /\ Len(SplitsOf(splitAt[1])) \in Nat
BY SplitFacts DEF PlaceOK

LEMMA TargetAdded ==
  ASSUME SplitsTypeOK, splitAt[1] \in DOMAIN splitInputs, NEW f \in Folders,
         splitTargets' = Append(splitTargets, SplitTarget(f)), splitInputs' = splitInputs
  PROVE  /\ (splitTargets \in Seq([storage : DOMAIN splitInputs, folder : Folders]))'
         /\ Len(splitTargets') = Len(splitTargets) + 1 /\ Len(splitTargets) \in Nat
         /\ splitTargets'[Len(splitTargets')] = SplitTarget(f)
         /\ SplitTarget(f).storage = splitAt[1] /\ SplitTarget(f).folder = f
<1> DEFINE R == [storage : DOMAIN splitInputs, folder : Folders]
<1>1. SplitTarget(f) \in R /\ SplitTarget(f).storage = splitAt[1] /\ SplitTarget(f).folder = f
  BY DEF SplitTarget
<1>2. splitTargets \in Seq(R)
  BY DEF SplitsTypeOK
<1>3. R' = R
  OBVIOUS
<1> HIDE DEF R
<1>4. /\ splitTargets' \in Seq(R)
      /\ Len(splitTargets') = Len(splitTargets) + 1 /\ Len(splitTargets) \in Nat
      /\ splitTargets'[Len(splitTargets')] = SplitTarget(f)
  BY <1>1, <1>2
<1>5. QED
  BY <1>1, <1>3, <1>4 DEF R

\* A step that makes no target and leaves due what was due
LEMMA NoTargetStep ==
  ASSUME SplitsIInv, splitTargets' = splitTargets, splitLimitHit' = splitLimitHit,
         \A s, j, f : Due(s, j, f)' <=> Due(s, j, f)
  PROVE  ~splitLimitHit' => \E from \in [DOMAIN splitTargets' -> Nat] : TargetsOK(from)'
<1> SUFFICES ASSUME ~splitLimitHit
             PROVE  \E from \in [DOMAIN splitTargets' -> Nat] : TargetsOK(from)'
  OBVIOUS
<1>1. PICK from \in [DOMAIN splitTargets -> Nat] : TargetsOK(from)
  BY DEF SplitsIInv
<1>2. TargetsOK(from)'
  BY <1>1, DueSame
<1>3. QED
  BY <1>1, <1>2

LEMMA BeginInputOK == SplitsIInv /\ BeginInput => SplitsIInv'
<1> SUFFICES ASSUME SplitsIInv, BeginInput
             PROVE  SplitsIInv'
  OBVIOUS
<1>1. /\ WalkIInv /\ SplitsTypeOK /\ PlaceOK /\ LimitOK
      /\ ~walking /\ ~TasksDone /\ splitAt[2] = 0
      /\ splitInputs' = splitInputs /\ targetLimit' = targetLimit /\ walking' = walking
      /\ splitLimitHit' = splitLimitHit /\ UNCHANGED walkVars
  BY DEF SplitsIInv, BeginInput
<1>2. parent' = parent /\ walkOpts' = walkOpts /\ yielded' = yielded
  BY <1>1 DEF walkVars
<1>3. WalkIInv'
  BY <1>1, WalkStutterOK
<1> DEFINE s == splitAt[1]
<1>4. /\ ~splitLimitHit /\ s \in DOMAIN splitInputs /\ s \in Nat \ {0}
      /\ s + 1 \in 1..(Len(splitInputs) + 1) /\ s \in 1..(Len(splitInputs) + 1)
  BY <1>1, SplitFacts DEF TasksDone
<1>5. InputAt.splits = SplitsOf(s)
  BY DEF InputAt, SplitsOf
<1>6. CASE SplitsOf(s) = <<>>
  <2>1. splitTargets' = Append(splitTargets, SplitTarget(1)) /\ splitAt' = <<s + 1, 0>>
    BY <1>5, <1>6 DEF BeginInput
  <2>2. /\ (splitTargets \in Seq([storage : DOMAIN splitInputs, folder : Folders]))'
        /\ Len(splitTargets') = Len(splitTargets) + 1 /\ Len(splitTargets) \in Nat
        /\ SplitTarget(1).storage = s /\ SplitTarget(1).folder = 1
    BY <1>1, <1>4, <2>1, FolderFacts, TargetAdded
  <2>3. splitAt'[1] = s + 1 /\ splitAt'[2] = 0 /\ splitAt' \in (1..(Len(splitInputs) + 1)) \X Nat
    BY <1>4, <2>1
  <2>4. SplitsTypeOK'
    BY <1>1, <2>2, <2>3 DEF SplitsTypeOK
  <2>5. PlaceOK'
    BY <1>1, <2>3 DEF PlaceOK
  <2>6. LimitOK'
    <3>2. Cardinality(Undivided(s + 1)) = Cardinality(Undivided(s)) + 1 /\ Cardinality(Undivided(s)) \in Nat
      BY <1>4, <1>6, UndividedFacts
    <3>3. Given(targetLimit) => Len(splitTargets) + 1 <= targetLimit + Cardinality(Undivided(s))
      BY <1>1, <1>4 DEF LimitOK, Over
    <3>4. Given(targetLimit) => Len(splitTargets) + 2 <= targetLimit + Cardinality(Undivided(s + 1))
      BY <1>1, <2>2, <3>2, <3>3, SplitFacts
    <3>5. Undivided(splitAt[1])' = Undivided(s + 1)
      BY <1>1, <2>3 DEF Undivided
    <3>6. Given(targetLimit)' => Len(splitTargets') + 1 <= targetLimit' + Cardinality(Undivided(splitAt[1])')
      BY <1>1, <2>2, <3>4, <3>5 DEF Given
    <3>7. QED
      BY <1>1, <1>4, <3>6 DEF LimitOK, Over
  <2>7. WalksOf(s) = {0} /\ FoldersOf(s, 0) = {1} /\ 1 \in Folders
    BY <1>6, FolderFacts DEF WalksOf, FoldersOf
  <2>8. ~Due(s, 0, 1)
    BY <1>1, <1>4 DEF Due, Behind, AtHand
  <2>9. \A t, j, f : Due(t, j, f)' <=> Due(t, j, f) \/ (t = s /\ j = 0 /\ f = 1)
    <3> SUFFICES ASSUME NEW t, NEW j, NEW f
                 PROVE  Due(t, j, f)' <=> Due(t, j, f) \/ (t = s /\ j = 0 /\ f = 1)
      OBVIOUS
    <3>1. CASE t \in DOMAIN splitInputs /\ j \in WalksOf(t) /\ f \in Folders
      <4>1. j \in Nat /\ t \in Nat
        BY <1>1, <3>1, WalksFacts
      <4>2. Due(t, j, f)' <=> t < s + 1 /\ f \in FoldersOf(t, j)
        BY <1>1, <1>2, <1>4, <2>3, <3>1, <4>1, DueNow
      <4>3. Due(t, j, f) <=> t < s /\ f \in FoldersOf(t, j)
        BY <1>1, <1>4, <3>1, <4>1 DEF Due, Behind, AtHand
      <4>4. t < s + 1 <=> t < s \/ t = s
        BY <1>4, <4>1
      <4>5. QED
        BY <1>4, <2>7, <3>1, <4>2, <4>3, <4>4
    <3>2. CASE ~(t \in DOMAIN splitInputs /\ j \in WalksOf(t) /\ f \in Folders)
      BY <1>1, <1>2, <1>4, <2>7, <3>2, DueNow DEF Due
    <3>3. QED
      BY <3>1, <3>2
  <2>10. \E from \in [DOMAIN splitTargets' -> Nat] : TargetsOK(from)'
    <3>1. PICK from \in [DOMAIN splitTargets -> Nat] : TargetsOK(from)
      BY <1>4 DEF SplitsIInv
    <3>2. Len(splitTargets) \in Nat /\ DOMAIN splitTargets = 1..Len(splitTargets)
      BY <1>1, SplitFacts
    <3>3. PICK t : t = SplitTarget(1)
      OBVIOUS
    <3>4. t.storage = s /\ t.folder = 1 /\ splitTargets' = Append(splitTargets, t)
      BY <2>1, <2>2, <3>3
    <3>5. PICK r, w : r = s /\ w = 0 /\ w \in Nat
      OBVIOUS
    <3>6. /\ t.storage = r /\ ~Due(r, w, 1)
          /\ \A t2, j, f : Due(t2, j, f)' <=> Due(t2, j, f) \/ (t2 = r /\ j = w /\ f = 1)
      BY <2>8, <2>9, <3>4, <3>5
    <3> HIDE DEF s
    <3>7. QED
      BY ONLY <3>1, <3>2, <3>4, <3>5, <3>6, DueMore
  <2>11. QED
    BY <1>3, <2>4, <2>5, <2>6, <2>10 DEF SplitsIInv
<1>7. CASE SplitsOf(s) # <<>>
  <2>1. splitTargets' = splitTargets /\ splitAt' = <<s, 1>> /\ splitAt'[1] = s /\ splitAt'[2] = 1
    BY <1>5, <1>7 DEF BeginInput
  <2>2. splitAt' \in (1..(Len(splitInputs) + 1)) \X Nat
    BY <1>4, <2>1
  <2>3. SplitsTypeOK'
    BY <1>1, <2>1, <2>2 DEF SplitsTypeOK
  <2>4. Len(SplitsOf(s)) \in Nat /\ 1 <= Len(SplitsOf(s)) + 1 /\ s <= Len(splitInputs)
    BY <1>1, <1>4, SplitFacts
  <2>5. PlaceOK'
    BY <1>1, <1>2, <1>7, <2>1, <2>4, SameInputs DEF PlaceOK, SplitsOf
  <2>6. LimitOK'
    BY <1>1, <1>4, <2>1 DEF LimitOK, Over, Given, Undivided
  <2>7. \A t, j, f : Due(t, j, f)' <=> Due(t, j, f)
    <3> SUFFICES ASSUME NEW t, NEW j, NEW f
                 PROVE  Due(t, j, f)' <=> Due(t, j, f)
      OBVIOUS
    <3>1. CASE t \in DOMAIN splitInputs /\ j \in WalksOf(t) /\ f \in Folders
      <4>1. j \in Nat /\ t \in Nat /\ (t = s => j > 0)
        BY <1>1, <1>7, <3>1, WalksFacts
      <4>2. Due(t, j, f)' <=> t < s /\ f \in FoldersOf(t, j)
        BY <1>1, <1>2, <1>4, <2>1, <3>1, <4>1, DueNow
      <4>3. Due(t, j, f) <=> t < s /\ f \in FoldersOf(t, j)
        BY <1>1, <1>4, <3>1, <4>1 DEF Due, Behind, AtHand
      <4>4. QED
        BY <4>2, <4>3
    <3>2. CASE ~(t \in DOMAIN splitInputs /\ j \in WalksOf(t) /\ f \in Folders)
      BY <1>1, <1>2, <3>2, DueNow DEF Due
    <3>3. QED
      BY <3>1, <3>2
  <2>8. QED
    BY <1>1, <1>3, <2>1, <2>3, <2>5, <2>6, <2>7, NoTargetStep DEF SplitsIInv
<1>8. QED
  BY <1>6, <1>7

\* Where the walk at hand begins nothing is yielded; a target of it is still to come.
LEMMA WalkBeginsOK == SplitsIInv /\ BeginWalk => SplitsIInv'
<1> SUFFICES ASSUME SplitsIInv, BeginWalk
             PROVE  SplitsIInv'
  OBVIOUS
<1> DEFINE s == splitAt[1]
<1>1. /\ WalkIInv /\ SplitsTypeOK /\ PlaceOK /\ LimitOK
      /\ ~walking /\ splitAt[2] > 0 /\ walking' = TRUE
      /\ splitInputs' = splitInputs /\ targetLimit' = targetLimit /\ splitAt' = splitAt
      /\ splitTargets' = splitTargets /\ splitLimitHit' = splitLimitHit
  BY DEF SplitsIInv, BeginWalk
<1>2. /\ WalkIInv' /\ parent' = parent /\ yielded' = <<>>
      /\ s \in DOMAIN splitInputs /\ splitAt[2] \in DOMAIN SplitsOf(s)
      /\ walkOpts' = SplitWalk(EngineOf(s), SplitsOf(s)[splitAt[2]])
  BY <1>1, BeginWalkOK
<1>3. SplitsTypeOK'
  BY <1>1 DEF SplitsTypeOK
<1>4. PlaceOK'
  <2>1. splitAt[2] <= Len(SplitsOf(s))
    BY <1>1, <1>2, SplitFacts
  <2>2. SplitsOf(s)' = SplitsOf(s)
    BY <1>1 DEF SplitsOf
  <2>3. QED
    BY <1>1, <1>2, <2>1, <2>2, AboveSame
    DEF PlaceOK, SplitsOf, EngineOf, SplitWalk, SplitStart, SplitNamed, Below
<1>5. LimitOK'
  BY <1>1 DEF LimitOK, Over, Given, Undivided, SplitsOf
<1>6. \A t, j, f : Due(t, j, f)' <=> Due(t, j, f)
  <2>1. FoldersYielded' = {}
    BY <1>2 DEF FoldersYielded
  <2>2. QED
    BY <1>1, <1>2, <2>1, DueNow DEF Due, Behind, AtHand
<1>7. QED
  BY <1>1, <1>2, <1>3, <1>4, <1>5, <1>6, NoTargetStep DEF SplitsIInv

LEMMA EndWalkOK == SplitsIInv /\ EndWalk => SplitsIInv'
<1> SUFFICES ASSUME SplitsIInv, EndWalk
             PROVE  SplitsIInv'
  OBVIOUS
<1> DEFINE s == splitAt[1]
           w == splitAt[2]
<1>1. /\ WalkIInv /\ SplitsTypeOK /\ PlaceOK /\ LimitOK
      /\ walking /\ WalkDone /\ walking' = FALSE /\ splitAt' = <<s, w + 1>>
      /\ splitInputs' = splitInputs /\ targetLimit' = targetLimit
      /\ splitTargets' = splitTargets /\ splitLimitHit' = splitLimitHit /\ UNCHANGED walkVars
  BY DEF SplitsIInv, EndWalk
<1>2. parent' = parent /\ walkOpts' = walkOpts /\ yielded' = yielded
  BY <1>1 DEF walkVars
<1>3. WalkIInv'
  BY <1>1, WalkStutterOK
<1>4. w > 0 /\ w <= Len(SplitsOf(s)) /\ walkOpts = SplitWalk(EngineOf(s), SplitsOf(s)[w])
  BY <1>1 DEF PlaceOK
<1>5. s \in DOMAIN splitInputs /\ s \in Nat \ {0} /\ SplitsOf(s) # <<>> /\ Len(SplitsOf(s)) \in Nat
      /\ s \in 1..(Len(splitInputs) + 1) /\ s <= Len(splitInputs)
  BY <1>1, <1>4, PlaceFacts, SplitFacts
<1>6. w \in Nat /\ w \in DOMAIN SplitsOf(s) /\ SplitsOf(s)[w] \in SplitConfigs
  BY <1>1, <1>4, <1>5, SplitFacts
<1>7. FoldersYielded = FoldersOf(s, w)
  BY <1>1, <1>4, <1>5, <1>6, SplitFacts, WalkDivides DEF FoldersOf
<1>8. splitAt'[1] = s /\ splitAt'[2] = w + 1 /\ splitAt' \in (1..(Len(splitInputs) + 1)) \X Nat
  BY <1>1, <1>5, <1>6
<1>9. SplitsTypeOK'
  BY <1>1, <1>8 DEF SplitsTypeOK
<1>10. PlaceOK'
  <2>1. SplitsOf(s)' = SplitsOf(s) /\ w + 1 <= Len(SplitsOf(s)) + 1
    BY <1>1, <1>4, <1>5, <1>6 DEF SplitsOf
  <2>2. QED
    BY <1>1, <1>5, <1>8, <2>1 DEF PlaceOK, SplitsOf
<1>11. LimitOK'
  <2>1. CASE ~splitLimitHit
    BY <1>1, <1>8, <2>1 DEF LimitOK, Over, Given, Undivided
  <2>2. CASE splitLimitHit
    <3> DEFINE last == splitTargets[Len(splitTargets)].storage
    <3>1. /\ Given(targetLimit) /\ targetLimit <= Len(splitTargets) /\ SplitsOf(last) # <<>>
          /\ s = last /\ Len(splitTargets) + 1 <= targetLimit + (Cardinality(Undivided(last)) + w - 1)
      BY <1>1, <1>4, <1>6, <2>2 DEF LimitOK, Over
    <3>2. Cardinality(Undivided(last)) \in Nat
      BY <1>5, <3>1, UndividedFacts
    <3>3. Len(splitTargets) + 1 <= targetLimit + (Cardinality(Undivided(last)) + (w + 1) - 1)
      BY <1>1, <1>6, <3>1, <3>2, SplitFacts
    <3>4. w + 1 # 0
      BY <1>6
    <3>5. last' = last /\ SplitsOf(last)' = SplitsOf(last) /\ Undivided(last)' = Undivided(last)
      BY <1>1 DEF SplitsOf, Undivided
    <3> HIDE DEF last
    <3>6. /\ Given(targetLimit)' /\ targetLimit' <= Len(splitTargets') /\ SplitsOf(last)' # <<>>
          /\ splitAt'[2] # 0 /\ splitAt'[1] = last'
          /\ Len(splitTargets') + 1 <= targetLimit' + (Cardinality(Undivided(last)') + splitAt'[2] - 1)
      BY <1>1, <1>8, <3>1, <3>3, <3>4, <3>5 DEF Given
    <3>7. QED
      BY <1>1, <2>2, <3>6 DEF LimitOK, Over, last
  <2>3. QED
    BY <2>1, <2>2
<1>12. \A t, j, f : Due(t, j, f)' <=> Due(t, j, f)
  <2> SUFFICES ASSUME NEW t, NEW j, NEW f
               PROVE  Due(t, j, f)' <=> Due(t, j, f)
    OBVIOUS
  <2>1. CASE t \in DOMAIN splitInputs /\ j \in WalksOf(t) /\ f \in Folders
    <3>1. j \in Nat /\ t \in Nat
      BY <1>1, <2>1, WalksFacts
    <3>2. Due(t, j, f)' <=> (t < s \/ (t = s /\ j < w + 1)) /\ f \in FoldersOf(t, j)
      BY <1>1, <1>2, <1>8, <2>1, DueNow
    <3>3. Due(t, j, f) <=> \/ (t < s \/ (t = s /\ j < w)) /\ f \in FoldersOf(t, j)
                           \/ t = s /\ j = w /\ f \in FoldersYielded
      BY <1>1, <2>1 DEF Due, Behind, AtHand
    <3>4. j < w + 1 <=> j < w \/ j = w
      BY <1>6, <3>1
    <3>5. QED
      BY <1>7, <3>2, <3>3, <3>4
  <2>2. CASE ~(t \in DOMAIN splitInputs /\ j \in WalksOf(t) /\ f \in Folders)
    BY <1>1, <1>2, <2>2, DueNow DEF Due
  <2>3. QED
    BY <2>1, <2>2
<1>13. QED
  BY <1>1, <1>3, <1>9, <1>10, <1>11, <1>12, NoTargetStep DEF SplitsIInv

LEMMA EndInputOK == SplitsIInv /\ EndInput => SplitsIInv'
<1> SUFFICES ASSUME SplitsIInv, EndInput
             PROVE  SplitsIInv'
  OBVIOUS
<1> DEFINE s == splitAt[1]
           w == splitAt[2]
<1>1. /\ WalkIInv /\ SplitsTypeOK /\ PlaceOK /\ LimitOK
      /\ ~walking /\ w > 0 /\ w > Len(SplitsOf(s)) /\ walking' = walking /\ splitAt' = <<s + 1, 0>>
      /\ splitInputs' = splitInputs /\ targetLimit' = targetLimit
      /\ splitTargets' = splitTargets /\ splitLimitHit' = splitLimitHit /\ UNCHANGED walkVars
  BY DEF SplitsIInv, EndInput, InputAt, SplitsOf
<1>2. parent' = parent /\ walkOpts' = walkOpts /\ yielded' = yielded
  BY <1>1 DEF walkVars
<1>3. WalkIInv'
  BY <1>1, WalkStutterOK
<1>4. s \in DOMAIN splitInputs /\ s \in Nat \ {0} /\ SplitsOf(s) # <<>> /\ Len(SplitsOf(s)) \in Nat
      /\ w <= Len(SplitsOf(s)) + 1 /\ w \in Nat /\ s + 1 \in 1..(Len(splitInputs) + 1)
  BY <1>1, PlaceFacts, SplitFacts
<1>5. splitAt'[1] = s + 1 /\ splitAt'[2] = 0 /\ splitAt' \in (1..(Len(splitInputs) + 1)) \X Nat
  BY <1>1, <1>4
<1>6. SplitsTypeOK'
  BY <1>1, <1>5 DEF SplitsTypeOK
<1>7. PlaceOK'
  BY <1>1, <1>5 DEF PlaceOK
<1>8. Cardinality(Undivided(s + 1)) = Cardinality(Undivided(s)) /\ Cardinality(Undivided(s)) \in Nat
  BY <1>4, UndividedFacts
<1>9. LimitOK'
  <2>1. CASE ~splitLimitHit
    <3>1. Given(targetLimit) => Len(splitTargets) + 1 <= targetLimit + Cardinality(Undivided(s + 1))
      BY <1>1, <1>8, <2>1 DEF LimitOK, Over
    <3>2. Undivided(splitAt[1])' = Undivided(s + 1)
      BY <1>1, <1>5 DEF Undivided
    <3>3. QED
      BY <1>1, <2>1, <3>1, <3>2 DEF LimitOK, Over, Given
  <2>2. CASE splitLimitHit
    <3> DEFINE last == splitTargets[Len(splitTargets)].storage
    <3>1. /\ Given(targetLimit) /\ targetLimit <= Len(splitTargets) /\ SplitsOf(last) # <<>>
          /\ s = last /\ Len(splitTargets) + 1 <= targetLimit + (Cardinality(Undivided(last)) + w - 1)
      BY <1>1, <1>4, <2>2 DEF LimitOK, Over
    <3>2. Len(splitTargets) + 1 <= targetLimit + (Cardinality(Undivided(last)) + Len(SplitsOf(last)))
      BY <1>1, <1>4, <1>8, <3>1, SplitFacts
    <3>3. last' = last /\ SplitsOf(last)' = SplitsOf(last) /\ Undivided(last)' = Undivided(last)
      BY <1>1 DEF SplitsOf, Undivided
    <3> HIDE DEF last
    <3>4. /\ Given(targetLimit)' /\ targetLimit' <= Len(splitTargets') /\ SplitsOf(last)' # <<>>
          /\ Len(splitTargets') + 1 <= targetLimit' + (Cardinality(Undivided(last)') + Len(SplitsOf(last)'))
      BY <1>1, <3>1, <3>2, <3>3 DEF Given
    <3>5. QED
      BY <1>1, <1>5, <2>2, <3>4 DEF LimitOK, Over, last
  <2>3. QED
    BY <2>1, <2>2
<1>10. \A t, j, f : Due(t, j, f)' <=> Due(t, j, f)
  <2> SUFFICES ASSUME NEW t, NEW j, NEW f
               PROVE  Due(t, j, f)' <=> Due(t, j, f)
    OBVIOUS
  <2>1. CASE t \in DOMAIN splitInputs /\ j \in WalksOf(t) /\ f \in Folders
    <3>1. j \in Nat /\ t \in Nat /\ (t = s => j <= Len(SplitsOf(s)))
      BY <1>1, <2>1, WalksFacts
    <3>2. Due(t, j, f)' <=> t < s + 1 /\ f \in FoldersOf(t, j)
      BY <1>1, <1>2, <1>4, <1>5, <2>1, <3>1, DueNow
    <3>3. Due(t, j, f) <=> (t < s \/ (t = s /\ j < w)) /\ f \in FoldersOf(t, j)
      BY <1>1, <2>1 DEF Due, Behind, AtHand
    <3>4. (t < s + 1 <=> t < s \/ t = s) /\ (t = s => j < w)
      BY <1>1, <1>4, <3>1
    <3>5. QED
      BY <3>2, <3>3, <3>4
  <2>2. CASE ~(t \in DOMAIN splitInputs /\ j \in WalksOf(t) /\ f \in Folders)
    BY <1>1, <1>2, <2>2, DueNow DEF Due
  <2>3. QED
    BY <2>1, <2>2
<1>11. QED
  BY <1>1, <1>3, <1>6, <1>7, <1>9, <1>10, NoTargetStep DEF SplitsIInv

\* A step of the walk at hand: no folder is yielded, or one that is made a target.
LEMMA WalkOnOK == SplitsIInv /\ WalkOn => SplitsIInv'
<1> SUFFICES ASSUME SplitsIInv, WalkOn
             PROVE  SplitsIInv'
  OBVIOUS
<1> DEFINE s == splitAt[1]
           w == splitAt[2]
           n == Len(splitTargets)
           U == Cardinality(Undivided(s))
<1>1. /\ WalkIInv /\ SplitsTypeOK /\ PlaceOK /\ LimitOK
      /\ walking /\ ~WalkDone /\ WalkNext
      /\ splitInputs' = splitInputs /\ targetLimit' = targetLimit
  BY DEF SplitsIInv, WalkOn
<1>2. w > 0 /\ w <= Len(SplitsOf(s)) /\ walkOpts = SplitWalk(EngineOf(s), SplitsOf(s)[w])
  BY <1>1 DEF PlaceOK
<1>3. s \in DOMAIN splitInputs /\ s \in Nat \ {0} /\ SplitsOf(s) # <<>> /\ Len(SplitsOf(s)) \in Nat
      /\ s \in 1..(Len(splitInputs) + 1) /\ s <= Len(splitInputs) /\ w \in Nat
      /\ targetLimit \in Nat /\ n \in Nat /\ DOMAIN splitTargets = 1..n
  BY <1>1, <1>2, PlaceFacts, SplitFacts
<1>4. w \in DOMAIN SplitsOf(s) /\ SplitsOf(s)[w] \in SplitConfigs
  BY <1>1, <1>2, <1>3, SplitFacts
<1>5. WalkIInv'
  BY <1>1, WalkNextOK
<1>6. /\ parent' = parent /\ walkOpts' = walkOpts
      /\ \/ yielded' = yielded
         \/ /\ Len(yielded') = Len(yielded) + 1 /\ yielded'[Len(yielded')].folder \in Folders
            /\ yielded'[Len(yielded')].folder \notin FoldersYielded
            /\ FoldersYielded' = FoldersYielded \union {yielded'[Len(yielded')].folder}
  BY <1>1, WalkYield
<1>7. U \in Nat
  BY <1>3, UndividedFacts
<1>8. Len(yielded) \in Nat
  BY <1>1, YieldedFacts DEF WalkIInv
<1>9. /\ \A t : SplitsOf(t)' = SplitsOf(t) /\ Undivided(t)' = Undivided(t)
  BY <1>1, <1>6, SameInputs
<1>10. CASE yielded' = yielded
  <2>1. /\ splitTargets' = splitTargets \o <<>> /\ splitLimitHit' = splitLimitHit
        /\ walking' = walking /\ splitAt' = splitAt
    <3>1. ~(Len(yielded') > Len(yielded))
      BY <1>8, <1>10
    <3>2. splitTargets' = splitTargets \o <<>>
      BY <3>1 DEF WalkOn
    <3>3. /\ splitLimitHit' = (splitLimitHit \/ FALSE)
          /\ walking' = walking /\ splitAt' = splitAt
      BY <3>1 DEF WalkOn
    <3>4. splitLimitHit \in BOOLEAN
      BY <1>1, SplitFacts
    <3>5. QED
      BY <3>2, <3>3, <3>4
  <2>2. splitTargets' = splitTargets
    <3>1. \A R : splitTargets \in Seq(R) => splitTargets \o <<>> = splitTargets
      BY ConcatEmptySeq
    <3>2. QED
      BY <1>1, <2>1, <3>1 DEF SplitsTypeOK
  <2>3. SplitsTypeOK'
    BY <1>1, <2>1, <2>2 DEF SplitsTypeOK
  <2>4. PlaceOK'
    BY <1>1, <1>6, <2>1, PlaceSame
  <2>5. LimitOK'
    BY <1>1, <2>1, <2>2 DEF LimitOK, Over, Given, Undivided, SplitsOf
  <2>6. \A t, j, f : Due(t, j, f)' <=> Due(t, j, f)
    <3>1. FoldersYielded' = FoldersYielded
      BY <1>10 DEF FoldersYielded
    <3>2. QED
      BY <1>1, <1>6, <2>1, <3>1, DueNow DEF Due, Behind, AtHand
  <2>7. QED
    BY <1>5, <2>1, <2>2, <2>3, <2>4, <2>5, <2>6, NoTargetStep DEF SplitsIInv
<1>11. CASE yielded' # yielded
  <2>1. PICK g \in Folders : /\ g = yielded'[Len(yielded')].folder /\ g \notin FoldersYielded
                             /\ FoldersYielded' = FoldersYielded \union {g}
    BY <1>6, <1>11
  <2>2. Len(yielded') > Len(yielded)
    BY <1>6, <1>8, <1>11
  <2> DEFINE hit == Given(targetLimit) /\ n + 1 >= targetLimit
  <2>3. splitTargets' = Append(splitTargets, SplitTarget(g))
    <3>1. splitTargets' = splitTargets \o <<SplitTarget(g)>>
      BY <2>1, <2>2 DEF WalkOn
    <3>2. \A R : splitTargets \in Seq(R) => \A t : splitTargets \o <<t>> = Append(splitTargets, t)
      <4> SUFFICES ASSUME NEW R, splitTargets \in Seq(R), NEW t
                   PROVE  splitTargets \o <<t>> = Append(splitTargets, t)
        OBVIOUS
      <4>1. QED
        OBVIOUS
    <3>3. QED
      BY <1>1, <3>1, <3>2 DEF SplitsTypeOK
  <2>4. /\ (splitTargets \in Seq([storage : DOMAIN splitInputs, folder : Folders]))'
        /\ Len(splitTargets') = n + 1 /\ splitTargets'[Len(splitTargets')] = SplitTarget(g)
        /\ SplitTarget(g).storage = s /\ SplitTarget(g).folder = g
    BY <1>1, <1>3, <2>3, TargetAdded
  <2>5. /\ splitLimitHit' = (splitLimitHit \/ hit)
        /\ IF hit THEN walking' = FALSE /\ splitAt' = <<s, w + 1>>
           ELSE walking' = walking /\ splitAt' = splitAt
    <3>1. splitTargets' = splitTargets \o <<SplitTarget(g)>> /\ <<SplitTarget(g)>> # <<>>
      BY <2>1, <2>2 DEF WalkOn
    <3>2. Len(splitTargets \o <<SplitTarget(g)>>) = n + 1
      BY <2>4, <3>1
    <3>3. QED
      BY <2>1, <2>2, <3>1, <3>2 DEF WalkOn
  <2>6. splitLimitHit => hit
    BY <1>1, <1>3 DEF LimitOK
  <2> HIDE DEF hit
  <2>7. splitAt'[1] = s /\ (hit => splitAt'[2] = w + 1) /\ (~hit => splitAt'[2] = w /\ splitAt' = splitAt)
    BY <2>5
  <2>8. splitAt' \in (1..(Len(splitInputs) + 1)) \X Nat
    <3>1. CASE hit
      <4>1. splitAt' = <<s, w + 1>>
        BY <2>5, <3>1
      <4>2. QED
        BY <1>3, <4>1
    <3>2. CASE ~hit
      BY <1>1, <2>7, <3>2 DEF SplitsTypeOK
    <3>3. QED
      BY <3>1, <3>2
  <2>9. walking' \in BOOLEAN /\ splitLimitHit' \in BOOLEAN
    BY <1>1, <2>5, SplitFacts DEF hit
  <2>10. SplitsTypeOK'
    BY <1>1, <2>4, <2>8, <2>9 DEF SplitsTypeOK
  <2>11. PlaceOK'
    <3>1. SplitsOf(splitAt[1])' = SplitsOf(s)
      BY <1>1, <2>7 DEF SplitsOf
    <3>2. CASE hit
      <4>1. walking' = FALSE /\ splitAt'[2] = w + 1 /\ w + 1 <= Len(SplitsOf(s)) + 1
        BY <1>2, <1>3, <2>5, <2>7, <3>2
      <4>2. QED
        BY <1>1, <1>3, <2>7, <3>1, <4>1 DEF PlaceOK, SplitsOf
    <3>3. CASE ~hit
      BY <1>1, <1>6, <2>5, <3>3, PlaceSame
    <3>4. QED
      BY <3>2, <3>3
  <2>12. LimitOK'
    <3>1. CASE ~hit
      <4>1. ~splitLimitHit' /\ splitAt' = splitAt
        BY <2>5, <2>6, <3>1
      <4>2. Given(targetLimit) => n + 2 <= targetLimit + U
        BY <1>3, <1>7, <3>1 DEF hit
      <4>3. Given(targetLimit)' =>
              Len(splitTargets') + 1 <= targetLimit' + Cardinality(Undivided(splitAt[1])')
        BY <1>1, <1>3, <1>9, <2>4, <4>1, <4>2 DEF Given, Undivided
      <4>4. QED
        BY <4>1, <4>3 DEF LimitOK, Over
    <3>2. CASE hit
      <4>1. Given(targetLimit) /\ n + 1 >= targetLimit /\ splitLimitHit' /\ splitAt'[2] = w + 1 /\ w + 1 # 0
        <5>1. splitLimitHit' /\ splitAt'[2] = w + 1
          BY <2>5, <2>7, <3>2
        <5>2. Given(targetLimit) /\ n + 1 >= targetLimit
          BY <3>2 DEF hit
        <5>3. QED
          BY <1>3, <5>1, <5>2
      <4>2. n + 1 <= targetLimit + (U + w - 1)
        <5>1. CASE ~splitLimitHit
          <6>1. n + 1 <= targetLimit + U
            BY <1>1, <4>1, <5>1 DEF LimitOK, Over
          <6>2. QED
            BY <1>2, <1>3, <1>7, <6>1
        <5>2. CASE splitLimitHit
          <6>1. s = splitTargets[n].storage
                /\ n + 1 <= targetLimit + (Cardinality(Undivided(splitTargets[n].storage)) + w - 1)
            BY <1>1, <1>2, <1>3, <5>2 DEF LimitOK, Over
          <6>2. QED
            BY <6>1
        <5>3. QED
          BY <5>1, <5>2
      <4>3. (n + 1) + 1 <= targetLimit + (U + (w + 1) - 1)
        BY <1>2, <1>3, <1>7, <4>2
      <4>4. splitTargets'[Len(splitTargets')].storage = s
        BY <2>4
      <4>5. Undivided(splitTargets[Len(splitTargets)].storage)' = Undivided(s)
        BY <1>1, <4>4 DEF Undivided
      <4>6. SplitsOf(splitTargets[Len(splitTargets)].storage)' = SplitsOf(s)
        BY <1>1, <4>4 DEF SplitsOf
      <4>7. Given(targetLimit)' /\ targetLimit' <= Len(splitTargets')
        BY <1>1, <1>3, <2>4, <4>1 DEF Given
      <4>8. Len(splitTargets') + 1 <= targetLimit' +
              (Cardinality(Undivided(splitTargets[Len(splitTargets)].storage)') + splitAt'[2] - 1)
        BY <1>1, <2>4, <4>1, <4>3, <4>5
      <4>9. QED
        BY <1>3, <2>7, <4>1, <4>4, <4>6, <4>7, <4>8 DEF LimitOK, Over
    <3>3. QED
      BY <3>1, <3>2
  <2>13. ASSUME ~splitLimitHit'
         PROVE  \E from \in [DOMAIN splitTargets' -> Nat] : TargetsOK(from)'
    <3>1. ~splitLimitHit /\ walking' = walking /\ splitAt' = splitAt
      BY <2>5, <2>13
    <3>2. PICK from \in [DOMAIN splitTargets -> Nat] : TargetsOK(from)
      BY <3>1 DEF SplitsIInv
    <3>3. w \in WalksOf(s)
      BY <1>3, <1>4 DEF WalksOf
    <3>4. ~Due(s, w, g)
      BY <1>3, <2>1 DEF Due, Behind, AtHand
    <3>5. \A t, j, f : Due(t, j, f)' <=> Due(t, j, f) \/ (t = s /\ j = w /\ f = g)
      <4> SUFFICES ASSUME NEW t, NEW j, NEW f
                   PROVE  Due(t, j, f)' <=> Due(t, j, f) \/ (t = s /\ j = w /\ f = g)
        OBVIOUS
      <4>1. Due(t, j, f)' <=>
              /\ t \in DOMAIN splitInputs /\ j \in WalksOf(t) /\ f \in Folders
              /\ (Behind(t, j) /\ f \in FoldersOf(t, j))
                 \/ (walking /\ t = s /\ j = w /\ f \in FoldersYielded \union {g})
        BY <1>1, <1>6, <2>1, <3>1, DueNow DEF Behind
      <4>2. s \in DOMAIN splitInputs /\ g \in Folders
        BY <1>3, <2>1
      <4>3. QED
        BY <1>1, <3>3, <4>1, <4>2 DEF Due, AtHand
    <3>6. PICK t, r, k : t = SplitTarget(g) /\ r = s /\ k = w /\ k \in Nat
      BY <1>3
    <3>7. t.storage = r /\ t.folder = g /\ splitTargets' = Append(splitTargets, t) /\ ~Due(r, k, g)
          /\ \A t2, j, f : Due(t2, j, f)' <=> Due(t2, j, f) \/ (t2 = r /\ j = k /\ f = g)
      BY <2>3, <2>4, <3>4, <3>5, <3>6
    <3>8. Len(splitTargets) \in Nat /\ DOMAIN splitTargets = 1..Len(splitTargets)
      BY <1>3
    <3> HIDE DEF s, w, n, U
    <3>9. QED
      BY ONLY <3>2, <3>6, <3>7, <3>8, DueMore
  <2>14. QED
    BY <1>5, <2>10, <2>11, <2>12, <2>13 DEF SplitsIInv
<1>12. QED
  BY <1>10, <1>11

LEMMA SplitsInitOK == SplitsInit => SplitsIInv
<1> SUFFICES ASSUME SplitsInit
             PROVE  SplitsIInv
  OBVIOUS
<1> DEFINE call == CHOOSE o \in WalkCalls : o.engine = "blob"
<1>1. WalkIInv
  <2> DEFINE plain == [engine |-> "blob", start |-> 1, named |-> Folders, minDepth |-> 0, maxDepth |-> 0,
                       walkLimit |-> 0, fileLimit |-> 0, folderMatches |-> Folders, atDepth |-> {}]
  <2>1. 1 \in Folders /\ 0 \in Options
    BY WalkAssumption DEF Folders, Options
  <2>2. plain \in WalkCalls /\ plain.engine = "blob"
    BY <2>1 DEF WalkCalls
  <2>3. call \in WalkCalls
    BY <2>2
  <2>4. PICK tree \in Trees : WalkBegins(tree, call)
    BY DEF SplitsInit
  <2>5. call.engine = "blob"
    BY <2>2
  <2>6. QED
    BY <2>3, <2>4, WalkBeginsFresh
<1>2. PICK storages \in Collections, limit \in 0..MaxTargets : SplitsBegin(storages, limit)
  BY DEF SplitsInit
<1>3. /\ splitAt = <<1, 0>> /\ splitAt[1] = 1 /\ splitAt[2] = 0 /\ walking = FALSE
      /\ splitTargets = <<>> /\ Len(splitTargets) = 0 /\ DOMAIN splitTargets = {}
      /\ splitLimitHit = FALSE /\ targetLimit \in 0..MaxTargets
  BY <1>2 DEF SplitsBegin
<1>4. splitInputs \in Seq(AssetStorages) /\ Len(splitInputs) \in Nat
  BY <1>2, SplitsAssumption DEF SplitsBegin
<1>5. SplitsTypeOK
  <2>1. 1 \in 1..(Len(splitInputs) + 1) /\ <<1, 0>> \in (1..(Len(splitInputs) + 1)) \X Nat
    BY <1>4
  <2>2. \A R : <<>> \in Seq(R)
    BY EmptySeq
  <2>3. splitTargets \in Seq([storage : DOMAIN splitInputs, folder : Folders])
    BY <1>3, <2>2
  <2>4. QED
    BY <1>3, <1>4, <2>1, <2>3 DEF SplitsTypeOK
<1>6. PlaceOK
  BY <1>3 DEF PlaceOK
<1>7. LimitOK
  <2>1. Cardinality(Undivided(splitAt[1])) = 0
    BY <1>3, UndividedFacts
  <2>2. Given(targetLimit) => 0 + 1 <= targetLimit + 0
    BY <1>3, SplitsAssumption DEF Given
  <2>3. QED
    BY <1>3, <2>1, <2>2 DEF LimitOK, Over
<1>8. \A s, j, f : ~Due(s, j, f)
  <2> SUFFICES ASSUME NEW s \in DOMAIN splitInputs, NEW j \in WalksOf(s), NEW f \in Folders
               PROVE  ~Due(s, j, f)
    BY DEF Due
  <2>1. j \in Nat /\ s \in Nat /\ s >= 1
    BY <1>5, WalksFacts, SplitFacts
  <2>2. QED
    BY <1>3, <2>1 DEF Due, Behind, AtHand
<1>9. \E from \in [DOMAIN splitTargets -> Nat] : TargetsOK(from)
  <2> DEFINE none == [i \in {} |-> 0]
  <2>1. none \in [DOMAIN splitTargets -> Nat]
    BY <1>3
  <2>2. TargetsOK(none)
    BY <1>3, <1>8 DEF TargetsOK
  <2>3. QED
    BY <2>1, <2>2
<1>10. QED
  BY <1>1, <1>5, <1>6, <1>7, <1>9 DEF SplitsIInv

LEMMA SplitsNextOK == SplitsIInv /\ [SplitsNext]_<<walkVars, splitVars>> => SplitsIInv'
<1> SUFFICES ASSUME SplitsIInv, [SplitsNext]_<<walkVars, splitVars>>
             PROVE  SplitsIInv'
  OBVIOUS
<1>1. CASE SplitsNext
  BY <1>1, BeginInputOK, WalkBeginsOK, WalkOnOK, EndWalkOK, EndInputOK DEF SplitsNext
<1>2. CASE UNCHANGED <<walkVars, splitVars>>
  <2>1. /\ UNCHANGED walkVars /\ parent' = parent /\ walkOpts' = walkOpts /\ yielded' = yielded
        /\ splitInputs' = splitInputs /\ targetLimit' = targetLimit /\ splitAt' = splitAt
        /\ walking' = walking /\ splitTargets' = splitTargets /\ splitLimitHit' = splitLimitHit
    BY <1>2 DEF walkVars, splitVars
  <2>2. WalkIInv /\ SplitsTypeOK /\ PlaceOK /\ LimitOK
    BY DEF SplitsIInv
  <2>3. WalkIInv'
    BY <2>1, <2>2, WalkStutterOK
  <2>4. SplitsTypeOK'
    BY <2>1, <2>2 DEF SplitsTypeOK
  <2>5. PlaceOK'
    BY <2>1, <2>2, PlaceSame
  <2>6. LimitOK'
    BY <2>1, <2>2 DEF LimitOK, Over, Given, Undivided, SplitsOf
  <2>7. \A s, j, f : Due(s, j, f)' <=> Due(s, j, f)
    <3>1. FoldersYielded' = FoldersYielded
      BY <2>1 DEF FoldersYielded
    <3>2. QED
      BY <2>1, <3>1, DueNow DEF Due, Behind, AtHand
  <2>8. QED
    BY <2>1, <2>3, <2>4, <2>5, <2>6, <2>7, NoTargetStep DEF SplitsIInv
<1>3. QED
  BY <1>1, <1>2

\* When the task is done each walk of each input is behind.
LEMMA AllIsDue ==
  ASSUME SplitsIInv, TasksDone, ~splitLimitHit, NEW s \in DOMAIN splitInputs
  PROVE  \A j, f : Due(s, j, f) <=> j \in WalksOf(s) /\ f \in Folders /\ f \in FoldersOf(s, j)
<1>1. ~walking /\ splitAt[1] > Len(splitInputs)
  BY DEF TasksDone
<1>2. s < splitAt[1]
  BY <1>1, SplitFacts DEF SplitsIInv
<1>3. QED
  BY <1>1, <1>2 DEF Due, Behind, AtHand

\* Then the targets that take in a folder are one for each split that divides it.
LEMMA CoveringCounts ==
  ASSUME SplitsIInv, TasksDone, ~splitLimitHit, NEW s \in DOMAIN splitInputs, NEW f \in Folders,
         \A j \in DOMAIN SplitsOf(s) : Given(SplitsOf(s)[j].depth)
  PROVE  Cardinality(Covering(s, f)) =
           IF SplitsOf(s) = <<>> THEN 1
           ELSE Cardinality({j \in DOMAIN SplitsOf(s) : DividedAt(EngineOf(s), SplitsOf(s)[j], f) # {}})
<1> DEFINE C == Covering(s, f)
           D == {j \in DOMAIN SplitsOf(s) : DividedAt(EngineOf(s), SplitsOf(s)[j], f) # {}}
<1>1. SplitsTypeOK /\ TreeOK
  BY DEF SplitsIInv, WalkIInv
<1>2. PICK from \in [DOMAIN splitTargets -> Nat] : TargetsOK(from)
  BY DEF SplitsIInv
<1>3. \A j, g : Due(s, j, g) <=> j \in WalksOf(s) /\ g \in Folders /\ g \in FoldersOf(s, j)
  BY AllIsDue
<1>4. \A j \in WalksOf(s), g \in Folders : g \in FoldersOf(s, j) =>
        \E i \in DOMAIN splitTargets : IsTarget(from, i, s, j, g)
  BY <1>2, <1>3 DEF TargetsOK
<1>5. \A i \in C : /\ i \in DOMAIN splitTargets /\ splitTargets[i].storage = s
                   /\ splitTargets[i].folder \in Above[f]
                   /\ from[i] \in WalksOf(s) /\ splitTargets[i].folder \in FoldersOf(s, from[i])
  <2> SUFFICES ASSUME NEW i \in C
               PROVE  /\ i \in DOMAIN splitTargets /\ splitTargets[i].storage = s
                      /\ splitTargets[i].folder \in Above[f]
                      /\ from[i] \in WalksOf(s) /\ splitTargets[i].folder \in FoldersOf(s, from[i])
    OBVIOUS
  <2>1. i \in DOMAIN splitTargets /\ splitTargets[i].storage = s /\ splitTargets[i].folder \in Above[f]
    BY DEF Covering
  <2>2. Due(s, from[i], splitTargets[i].folder)
    BY <1>2, <2>1 DEF TargetsOK
  <2>3. QED
    BY <1>3, <2>1, <2>2
<1>6. \A i, k \in C : from[i] = from[k] /\ splitTargets[i].folder = splitTargets[k].folder => i = k
  BY <1>2, <1>5 DEF TargetsOK, IsTarget
<1>7. \A g : g \in Above[f] => g \in Folders
  BY <1>1, AboveOrder
<1>8. CASE SplitsOf(s) = <<>>
  <2>1. WalksOf(s) = {0} /\ FoldersOf(s, 0) = {1} /\ 1 \in Above[f]
    BY <1>1, <1>8, AboveOrder DEF WalksOf, FoldersOf
  <2>2. PICK i \in DOMAIN splitTargets : IsTarget(from, i, s, 0, 1)
    BY <1>4, <1>7, <2>1
  <2>3. i \in C
    BY <2>1, <2>2 DEF IsTarget, Covering
  <2>4. \A k \in C : k = i
    BY <1>5, <1>6, <2>1, <2>3
  <2>5. C = {i}
    BY <2>3, <2>4
  <2>6. QED
    BY <1>8, <2>5, FS_Singleton
<1>9. CASE SplitsOf(s) # <<>>
  <2>1. WalksOf(s) = DOMAIN SplitsOf(s) /\ \A j \in WalksOf(s) : FoldersOf(s, j) = Divides(EngineOf(s), SplitsOf(s)[j])
    <3>1. WalksOf(s) = DOMAIN SplitsOf(s)
      BY <1>9 DEF WalksOf
    <3>2. \A j \in WalksOf(s) : j # 0
      BY <1>1, <1>9, WalksFacts
    <3>3. QED
      BY <3>1, <3>2 DEF FoldersOf
  <2>2. \A j \in DOMAIN SplitsOf(s), g \in Above[f] :
          g \in DividedAt(EngineOf(s), SplitsOf(s)[j], f) <=> g \in Divides(EngineOf(s), SplitsOf(s)[j])
    BY <1>7 DEF DividedAt, Divides
  <2>3. \A j \in DOMAIN SplitsOf(s) : \A g, h \in Divides(EngineOf(s), SplitsOf(s)[j]) \cap Above[f] : g = h
    <3> SUFFICES ASSUME NEW j \in DOMAIN SplitsOf(s),
                        NEW g \in Divides(EngineOf(s), SplitsOf(s)[j]) \cap Above[f],
                        NEW h \in Divides(EngineOf(s), SplitsOf(s)[j]) \cap Above[f]
                 PROVE  g = h
      OBVIOUS
    <3>1. Depth[g] = SplitsOf(s)[j].depth /\ Depth[h] = SplitsOf(s)[j].depth
      BY DEF Divides
    <3>2. QED
      BY <1>1, <3>1, OneAtDepth
  <2> DEFINE b == [i \in C |-> from[i]]
  <2>4. \A i \in C : from[i] \in D
    <3> SUFFICES ASSUME NEW i \in C
                 PROVE  from[i] \in D
      OBVIOUS
    <3>1. /\ from[i] \in DOMAIN SplitsOf(s) /\ splitTargets[i].folder \in Above[f]
          /\ splitTargets[i].folder \in Divides(EngineOf(s), SplitsOf(s)[from[i]])
      BY <1>5, <2>1
    <3>2. splitTargets[i].folder \in DividedAt(EngineOf(s), SplitsOf(s)[from[i]], f)
      BY <2>2, <3>1
    <3>3. QED
      BY <3>1, <3>2
  <2>5. \A i, k \in C : from[i] = from[k] => i = k
    BY <1>5, <1>6, <2>1, <2>3
  <2>6. \A j \in D : \E i \in C : from[i] = j
    <3> SUFFICES ASSUME NEW j \in D
                 PROVE  \E i \in C : from[i] = j
      OBVIOUS
    <3>1. j \in DOMAIN SplitsOf(s) /\ DividedAt(EngineOf(s), SplitsOf(s)[j], f) # {}
      OBVIOUS
    <3>2. PICK g \in Above[f] : g \in DividedAt(EngineOf(s), SplitsOf(s)[j], f)
      BY <3>1 DEF DividedAt
    <3>3. j \in WalksOf(s) /\ g \in Folders /\ g \in FoldersOf(s, j)
      BY <1>7, <2>1, <2>2, <3>1, <3>2
    <3>4. PICK i \in DOMAIN splitTargets : IsTarget(from, i, s, j, g)
      BY <1>4, <3>3
    <3>5. i \in C /\ from[i] = j
      BY <3>2, <3>4 DEF IsTarget, Covering
    <3>6. QED
      BY <3>5
  <2>7. IsFiniteSet(C)
    <3>1. Len(splitTargets) \in Nat /\ C \subseteq 1..Len(splitTargets)
      BY <1>1, <1>5, SplitFacts
    <3>2. IsFiniteSet(1..Len(splitTargets))
      BY <3>1, FS_Interval
    <3>3. QED
      BY <3>1, <3>2, FS_Subset
  <2> HIDE DEF C, D
  <2>8. ExistsBijection(C, D)
    <3>1. b \in [C -> D]
      BY <2>4
    <3>2. \A i, k \in C : b[i] = b[k] => i = k
      BY <2>5
    <3>3. \A j \in D : \E i \in C : b[i] = j
      BY <2>6
    <3> HIDE DEF b
    <3>4. b \in Injection(C, D)
      BY <3>1, <3>2 DEF Injection, IsInjective
    <3>5. b \in Surjection(C, D)
      BY <3>1, <3>3 DEF Surjection
    <3>6. QED
      BY <3>4, <3>5 DEF Bijection, ExistsBijection
  <2>9. Cardinality(D) = Cardinality(C)
    BY <2>7, <2>8, FS_Bijection
  <2>10. QED
    BY <1>9, <2>9 DEF C, D
<1>10. QED
  BY <1>8, <1>9

\* Past the limit there are the targets that were not counted, and one of each further split.
LEMMA LimitPassed ==
  ASSUME SplitsIInv, splitLimitHit
  PROVE  LET last == splitTargets[Len(splitTargets)].storage
             further == Len(splitInputs[last].splits) - 1
         IN  Len(splitTargets) \in targetLimit..(targetLimit + Cardinality(Undivided(last)) + further)
<1> DEFINE n == Len(splitTargets)
           last == splitTargets[n].storage
           U == Cardinality(Undivided(last))
           L == Len(SplitsOf(last))
<1>1. SplitsTypeOK /\ PlaceOK /\ LimitOK
  BY DEF SplitsIInv
<1>2. n \in Nat /\ targetLimit \in Nat /\ splitAt[2] \in Nat /\ DOMAIN splitTargets = 1..n
  BY <1>1, SplitFacts
<1>3. targetLimit > 0 /\ targetLimit <= n
  BY <1>1 DEF LimitOK, Given
<1>4. n \in DOMAIN splitTargets
  BY <1>2, <1>3
<1>5. last \in DOMAIN splitInputs
  BY <1>1, <1>4, SplitFacts
<1>6. last \in Nat \ {0} /\ L \in Nat
  BY <1>1, <1>5, SplitFacts
<1>7. U \in Nat
  BY <1>6, UndividedFacts
<1>8. n + 1 <= targetLimit + (U + L)
  <2>1. CASE splitAt[2] = 0
    BY <1>1, <2>1 DEF LimitOK, Over
  <2>2. CASE splitAt[2] > 0
    <3>1. splitAt[1] = last /\ n + 1 <= targetLimit + (U + splitAt[2] - 1)
      BY <1>1, <2>2 DEF LimitOK, Over
    <3>2. splitAt[2] <= Len(SplitsOf(splitAt[1])) + 1
      BY <1>1, <2>2, PlaceFacts
    <3>3. splitAt[2] <= L + 1
      BY <3>1, <3>2
    <3> HIDE DEF n, last, U, L
    <3>4. QED
      BY <1>2, <1>6, <1>7, <3>1, <3>3
  <2>3. QED
    BY <1>2, <2>1, <2>2
<1>9. n \in targetLimit..(targetLimit + U + (L - 1))
  <2> HIDE DEF n, last, U, L
  <2>1. QED
    BY <1>2, <1>3, <1>6, <1>7, <1>8
<1>10. QED
  BY <1>9 DEF SplitsOf

THEOREM SplitsAreTyped == SplitsSpec => []SplitsTypeOK
<1>1. SplitsIInv => SplitsTypeOK
  BY DEF SplitsIInv
<1>2. QED
  BY <1>1, SplitsInitOK, SplitsNextOK, PTL DEF SplitsSpec

\* create-splits, of any collection and any tree, whatever the order of the listings: each folder
\* comes into chunks once for each split that divides it, and a limit is passed by no more targets
\* than those that the task does not count and one of each further split of the input.
THEOREM SplitsAreCovered == SplitsSpec => []SplitsCover
<1>1. SplitsIInv => SplitsCover
  <2> SUFFICES ASSUME SplitsIInv
               PROVE  SplitsCover
    OBVIOUS
  <2>1. TasksDone /\ ~splitLimitHit =>
          \A s \in DOMAIN splitInputs : \A f \in Folders :
            (\A i \in DOMAIN SplitsOf(s) : Given(SplitsOf(s)[i].depth)) =>
               Cardinality(Covering(s, f)) =
                 IF SplitsOf(s) = <<>> THEN 1
                 ELSE Cardinality({i \in DOMAIN SplitsOf(s) : DividedAt(EngineOf(s), SplitsOf(s)[i], f) # {}})
    BY CoveringCounts
  <2>2. QED
    BY <2>1, LimitPassed DEF SplitsCover, SplitsOf, EngineOf
<1>2. QED
  BY <1>1, SplitsInitOK, SplitsNextOK, PTL DEF SplitsSpec


=============================================================================
