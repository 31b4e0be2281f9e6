------------------------------ MODULE Summaries ------------------------------
(***************************************************************************)
(* The summaries that the summarize tasks make of JSON documents: a map    *)
(* task merges those of its files, the reduce task those of the map tasks, *)
(* so that neighbours are merged in any grouping.  Samples are left out.   *)
(*                                                                         *)
(* A value of a document is [type, value], its value a number, or an       *)
(* object [type, keys], or a list of objects [type, items].                *)
(***************************************************************************)
EXTENDS Naturals, Sequences, FiniteSets
LOCAL INSTANCE FiniteSetsExt
LOCAL INSTANCE TLC

CONSTANTS
  Documents,        \* documents to choose from: functions from keys to values
  NumDocuments,     \* how many are summarized
  IncludeKeys,      \* paths of keys to summarize; all if empty
  MaxDistinctValues, MaxDistinctKeySets

ASSUME SummaryAssumption ==
  {NumDocuments, MaxDistinctValues, MaxDistinctKeySets} \subseteq Nat \ {0}

VARIABLES
  documents,  \* the documents, in their order
  summaries   \* what is there to merge: [from, to, summary]

summaryVars == <<documents, summaries>>

(***************************************************************************)
(* Summaries of a property: [type, with, without] and what its type has    *)
(***************************************************************************)
Property(type, a, b) ==
  [type |-> type, with |-> a.with + b.with, without |-> a.without + b.without]

\* Python has 1, 1.0 and True equal.
Numeric == {"boolean", "numeric-int", "numeric-float"}
SameValue(v, w) ==
  v.value = w.value /\ (v.type = w.type \/ {v.type, w.type} \subseteq Numeric)

MergeCounts(vs, ws) ==
  {[v EXCEPT !.count = @ + MapThenSumSet(LAMBDA w : w.count, {w \in ws : SameValue(v, w)})] : v \in vs}
  \union {w \in ws : \A v \in vs : ~SameValue(v, w)}

Types(values) == {v.type : v \in values}
RangeOf(type) == IF type = "numeric-int" THEN "int-range" ELSE "float-range"
DataType(range) == IF range = "int-range" THEN "numeric-int" ELSE "numeric-float"
Ranges == {"int-range", "float-range"}
Extended(range, numbers) == range @@ [min |-> Min(numbers), max |-> Max(numbers)]

DistinctMerge(s, o) ==
  LET values == MergeCounts(s.values, o.values)
  IN  IF Cardinality(values) <= MaxDistinctValues
      THEN Property("distinct", s, o) @@ [values |-> values]
      ELSE IF Types(values) \in {{"numeric-int"}, {"numeric-float"}}
      THEN Extended(Property(RangeOf(CHOOSE t \in Types(values) : TRUE), s, o), {v.value : v \in values})
      ELSE Property("mixed-value", s, o) @@ [dataTypes |-> Types(values)]

MixedOf(s) == IF s.type = "mixed-summaries" THEN s.types ELSE {s.type}
CreateMixed(s, o) == Property("mixed-summaries", s, o) @@ [types |-> MixedOf(s) \union MixedOf(o)]

\* Of a range and distinct values, the type of the latter's summary is noted as
\* that of the data.
RangeMerge(s, o) ==
  IF o.type = "distinct"
  THEN IF Types(o.values) = {DataType(s.type)}
       THEN Extended(Property(s.type, s, o), {s.min, s.max} \union {v.value : v \in o.values})
       ELSE Property("mixed-value", s, o) @@ [dataTypes |-> {DataType(s.type), o.type}]
  ELSE IF o.type = s.type THEN Extended(Property(s.type, s, o), {s.min, s.max, o.min, o.max})
  ELSE CreateMixed(s, o)

MixedValueMerge(s, o) ==
  CASE o.type = "distinct" -> Property(s.type, s, o) @@ [dataTypes |-> s.dataTypes \union Types(o.values)]
    [] o.type \in Ranges -> Property(s.type, s, o) @@ [dataTypes |-> s.dataTypes \union {DataType(o.type)}]
    [] o.type = "mixed-value" -> Property(s.type, s, o) @@ [dataTypes |-> s.dataTypes \union o.dataTypes]
    [] OTHER -> CreateMixed(s, o)

Lengths(s) == IF s.type = "object-list" THEN {Len(s.items)} ELSE s.lengths
ObjectLists == {"object-list", "mixed-object-list"}
MixedListMerge(s, o) ==
  IF o.type \in ObjectLists
  THEN Property("mixed-object-list", s, o) @@ [lengths |-> Lengths(s) \union Lengths(o)]
  ELSE CreateMixed(s, o)

KeySetsMerge(s, o) ==
  LET values == {[ks EXCEPT !.with = @ + MapThenSumSet(LAMBDA k : k.with, {k \in o.values : k.keys = ks.keys})]
                   : ks \in s.values}
                \union {k \in o.values : \A ks \in s.values : ks.keys # k.keys}
  IN  IF {s.type, o.type} = {"distinct"} /\ Cardinality(values) <= MaxDistinctKeySets
      THEN [type |-> "distinct", values |-> values]
      ELSE [type |-> "mixed", values |-> {}]

(***************************************************************************)
(* Summaries of objects: [count, keys, keySets]                            *)
(***************************************************************************)
Without(s, n) == [s EXCEPT !.without = @ + n]

RECURSIVE Merge(_, _)

\* ObjectSummary.merge: the keys of the other summary, and no key that only the
\* first one has
ObjectMerge(a, b) ==
  [count |-> a.count + b.count,
   keys |-> [k \in DOMAIN b.keys |->
               IF k \in DOMAIN a.keys THEN Merge(a.keys[k], b.keys[k]) ELSE Without(b.keys[k], a.count)],
   keySets |-> KeySetsMerge(a.keySets, b.keySets)]

\* Wrong version of NestedMerge: documents without the object count as well
NestedMergeAll(s, o) ==
  LET a == s.summary
      b == o.summary
  IN  [count |-> a.count + b.count,
       keys |-> [k \in DOMAIN a.keys \union DOMAIN b.keys |->
                   IF k \notin DOMAIN a.keys THEN Without(b.keys[k], s.with + s.without)
                   ELSE IF k \notin DOMAIN b.keys THEN Without(a.keys[k], o.with + o.without)
                   ELSE Merge(a.keys[k], b.keys[k])],
       keySets |-> KeySetsMerge(a.keySets, b.keySets)]

\* ObjectPropertySummary.merge keeps the keys of both.
NestedMerge(s, o) ==
  LET a == s.summary
      b == o.summary
  IN  [count |-> a.count + b.count,
       keys |-> [k \in DOMAIN a.keys \union DOMAIN b.keys |->
                   IF k \notin DOMAIN a.keys THEN Without(b.keys[k], s.with)
                   ELSE IF k \notin DOMAIN b.keys THEN Without(a.keys[k], o.with)
                   ELSE Merge(a.keys[k], b.keys[k])],
       keySets |-> KeySetsMerge(a.keySets, b.keySets)]

ListMerge(s, o) ==
  IF Len(s.items) = Len(o.items)
  THEN Property(s.type, s, o) @@ [items |-> [i \in DOMAIN s.items |-> ObjectMerge(s.items[i], o.items[i])]]
  ELSE MixedListMerge(s, o)

Merge(s, o) ==
  CASE s.type = "distinct" ->
         IF o.type = "distinct" THEN DistinctMerge(s, o)
         ELSE IF o.type \in Ranges \union {"mixed-value"} THEN Merge(o, s) ELSE CreateMixed(s, o)
    [] s.type \in Ranges -> RangeMerge(s, o)
    [] s.type = "mixed-value" -> MixedValueMerge(s, o)
    [] s.type = "object" ->
         IF o.type = "object" THEN Property(s.type, s, o) @@ [summary |-> NestedMerge(s, o)] ELSE CreateMixed(s, o)
    [] s.type = "object-list" -> IF o.type = "object-list" THEN ListMerge(s, o) ELSE MixedListMerge(s, o)
    [] s.type = "mixed-object-list" -> MixedListMerge(s, o)
    \* its counts stay as they are
    [] s.type = "mixed-summaries" -> [s EXCEPT !.types = @ \union {o.type}]

\* Of the paths that begin with the same key the last one counts.
SubPath(include, key) ==
  Tail(include[Max({i \in DOMAIN include : Head(include[i]) = key})])
Included(include, key) == include = <<>> \/ \E i \in DOMAIN include : Head(include[i]) = key
SubInclude(include, key) ==
  IF include = <<>> \/ SubPath(include, key) = <<>> THEN <<>> ELSE <<SubPath(include, key)>>

One(type) == [type |-> type, with |-> 1, without |-> 0]

RECURSIVE SummarizeDict(_, _)
SummarizeDict(doc, include) ==
  [count |-> 1,
   keys |-> [k \in {key \in DOMAIN doc : Included(include, key)} |->
     LET v == doc[k]
         sub == SubInclude(include, k)
     IN  CASE v.type = "object" -> One("object") @@ [summary |-> SummarizeDict(v.keys, sub)]
           [] v.type = "objects" -> One("object-list") @@
                [items |-> [i \in DOMAIN v.items |-> SummarizeDict(v.items[i], sub)]]
           [] OTHER -> One("distinct") @@ [values |-> {v @@ [count |-> 1]}]],
   keySets |-> [type |-> "distinct", values |-> {[keys |-> DOMAIN doc, with |-> 1]}]]

(***************************************************************************)
(* The tasks                                                               *)
(***************************************************************************)
SummaryBegins(docs) ==
  /\ documents = docs
  /\ summaries = [i \in DOMAIN docs |->
       [from |-> i, to |-> i, summary |-> SummarizeDict(docs[i], IncludeKeys)]]

SummaryInit == \E docs \in [1..NumDocuments -> Documents] : SummaryBegins(docs)

\* Within a map task, or of its answer in the reduce task
MergeNeighbours(i) ==
  /\ i + 1 \in DOMAIN summaries
  /\ summaries' = SubSeq(summaries, 1, i - 1)
       \o << [from |-> summaries[i].from, to |-> summaries[i + 1].to,
              summary |-> ObjectMerge(summaries[i].summary, summaries[i + 1].summary)] >>
       \o SubSeq(summaries, i + 2, Len(summaries))
  /\ UNCHANGED documents

SummaryNext == \E i \in DOMAIN summaries : MergeNeighbours(i)

SummarySpec == SummaryInit /\ [][SummaryNext]_summaryVars

(***************************************************************************)
(* Properties                                                              *)
(***************************************************************************)
Counted(s) == s.type # "mixed-summaries"
Nested(s) == {s.keys[k].summary : k \in {key \in DOMAIN s.keys : s.keys[key].type = "object"}}

\* With and without make the count of the objects, the values of a key those that
\* have it, and the key sets the objects.
AddsUp(s) ==
  /\ \A k \in DOMAIN s.keys : LET p == s.keys[k] IN
       /\ Counted(p) => p.with + p.without = s.count
       /\ p.type = "distinct" =>
            p.with = MapThenSumSet(LAMBDA v : v.count, p.values) /\ Cardinality(p.values) <= MaxDistinctValues
       /\ p.type = "object" => p.summary.count = p.with
  /\ s.keySets.type = "distinct" => s.count = MapThenSumSet(LAMBDA k : k.with, s.keySets.values)

Of(entry) == {documents[i] : i \in entry.from..entry.to}
Number(entry, Test(_)) == Cardinality({i \in entry.from..entry.to : Test(documents[i])})

\* Under a key that all documents have, with an object for its value: each key of
\* those objects is there, with the number of documents that have it, and within
\* a range that is the range of its values.
ObjectCounted(entry, key) ==
  LET nested == entry.summary.keys[key].summary
      has(doc, k) == k \in DOMAIN doc[key].keys
  IN  /\ IncludeKeys = <<>> => DOMAIN nested.keys = UNION {DOMAIN doc[key].keys : doc \in Of(entry)}
      /\ \A k \in DOMAIN nested.keys : LET p == nested.keys[k] IN
           /\ Counted(p) => p.with = Number(entry, LAMBDA doc : has(doc, k))
           /\ p.type \in Ranges =>
                LET values == {doc[key].keys[k].value : doc \in {d \in Of(entry) : has(d, k)}}
                IN  p.min = Min(values) /\ p.max = Max(values)

\* However the documents are grouped, the counts of a summary are consistent, and
\* those of the keys below its first level those of the documents.  (On the first
\* level, and in lists, a merge drops the keys that only its first summary has.)
SummariesCount ==
  \A i \in DOMAIN summaries : LET s == summaries[i].summary IN
    /\ s.count = summaries[i].to - summaries[i].from + 1
    /\ \A n \in {s} \union Nested(s) \union UNION {Nested(n) : n \in Nested(s)} : AddsUp(n)
    /\ \A k \in DOMAIN s.keys :
         (\A doc \in Of(summaries[i]) : k \in DOMAIN doc /\ doc[k].type = "object") =>
           ObjectCounted(summaries[i], k)

=============================================================================
