--------------------------- MODULE DatasetPipeline ---------------------------
(***************************************************************************)
(* The tasks of a dataset's workflow over one chunkset: create-chunks      *)
(* writes the assets in chunks, list-chunks finds them for a later run,    *)
(* create-items makes an ndjson file of the items of each chunk and        *)
(* ingest-items loads it into the database (dataset/chunks, dataset/items, *)
(* ingest_task).  Besides, one task ingests all files of a folder.  An     *)
(* item is named by its asset; a line of a file is an item, or Blank, and  *)
(* its place in the file is the asset whose turn it was.  Each run of the  *)
(* workflow finds the same assets.                                         *)
(***************************************************************************)
EXTENDS Naturals, Sequences, FiniteSets, SequencesExt

CONSTANTS
  NumAssets,       \* assets found in the source storage, in order
  ChunkLength,     \* ChunkOptions.chunk_length
  InsertGroupSize, \* IngestOptions.insert_group_size
  ItemLimits,      \* CreateItemsOptions.limit of a run: 0, if not given
  MaxFlows         \* bound: runs of the workflow

ASSUME DatasetAssumption ==
  /\ {NumAssets, ChunkLength, InsertGroupSize, MaxFlows} \subseteq Nat \ {0}
  /\ ItemLimits \subseteq Nat

Assets == 1..NumAssets
Chunks == 1..((NumAssets + ChunkLength - 1) \div ChunkLength)
Blank == 0

VARIABLES
  chunksWritten, \* number of chunk files in the storage
  flowNumber,    \* number of the run at hand
  flowAt,        \* where it is: "start", "chunks", "process", "ended"
  chunkAt,       \* each chunk: "unlisted", "create", "ingest", "done", "failed"
  outcome,       \* of the last create_item for each asset
  itemLines,     \* lines of the items file of each chunk: a set of at most one
  inDb,          \* items in the database
  folderAt,      \* the folder's ingest: "off", "running", "returned", "raised"
  preparing,     \* its files not yet downloaded
  insertGroup,   \* files queued for its next flush
  failedFiles    \* failed_ndjsons

flowOf == <<flowNumber, flowAt, chunkAt>>
filesOf == <<chunksWritten, outcome, itemLines>>
folderOf == <<folderAt, preparing, insertGroup, failedFiles>>
datasetVars == <<flowOf, filesOf, folderOf, inDb>>

\* "left": an asset past the limit, for which create_item is not called
Outcomes == {"items", "none", "raises", "invalid", "left"}

DatasetTypeOK ==
  /\ chunksWritten \in 0..Cardinality(Chunks) /\ flowNumber \in 1..MaxFlows
  /\ flowAt \in {"start", "chunks", "process", "ended"}
  /\ chunkAt \in [Chunks -> {"unlisted", "create", "ingest", "done", "failed"}]
  /\ outcome \in [Assets -> Outcomes \union {"unknown"}]
  /\ itemLines \in [Chunks -> SUBSET UNION {[places -> Assets] : places \in SUBSET Assets}]
  /\ \A c \in Chunks : Cardinality(itemLines[c]) <= 1
  /\ inDb \subseteq Assets
  /\ folderAt \in {"off", "running", "returned", "raised"}
  /\ preparing \subseteq Chunks /\ insertGroup \in Seq(Chunks)
  /\ failedFiles \subseteq Chunks

DatasetInit ==
  /\ chunksWritten = 0 /\ flowNumber = 1 /\ flowAt = "start"
  /\ chunkAt = [c \in Chunks |-> "unlisted"]
  /\ outcome = [a \in Assets |-> "unknown"]
  /\ itemLines = [c \in Chunks |-> {}]
  /\ inDb = {}
  /\ folderAt = "off" /\ preparing = {} /\ insertGroup = <<>>
  /\ failedFiles = {}

(***************************************************************************)
(* create-chunks and list-chunks                                           *)
(***************************************************************************)
\* grouped: the assets of chunk c
ChunkAssets(c) == {a \in Assets : (c - 1) * ChunkLength < a /\ a <= c * ChunkLength}

List(chunks) ==
  /\ chunkAt' = [c \in Chunks |-> IF c \in chunks THEN "create" ELSE "unlisted"]
  /\ flowAt' = "process"
  /\ UNCHANGED <<flowNumber, filesOf, folderOf, inDb>>

\* A later run writes the same files over again.
WriteChunk ==
  /\ flowAt \in {"start", "chunks"}
  /\ chunksWritten < Cardinality(Chunks)
  /\ chunksWritten' = chunksWritten + 1
  /\ flowAt' = "chunks"
  /\ UNCHANGED <<flowNumber, chunkAt, outcome, itemLines, folderOf, inDb>>

ChunksCreated ==
  /\ flowAt \in {"start", "chunks"}
  /\ chunksWritten = Cardinality(Chunks)
  /\ List(Chunks)

ChunksRaise ==
  /\ flowAt = "chunks" /\ flowAt' = "ended"
  /\ UNCHANGED <<flowNumber, chunkAt, filesOf, folderOf, inDb>>

\* success_chunks: nothing calls mark_success.
SuccessChunks == {}

ListChunks ==
  /\ flowAt = "start" /\ flowNumber > 1
  /\ \/ List(1..chunksWritten)
     \/ List(1..chunksWritten \ SuccessChunks)

(***************************************************************************)
(* create-items                                                            *)
(***************************************************************************)
\* The asset whose result is at hand after the call for asset a: when the call
\* raises, the result of the one before is still there, if there is one.
ResultOf(a, c, out) ==
  {b \in ChunkAssets(c) : b <= a /\ out[b] # "raises" /\ \A x \in (b + 1)..a : out[x] = "raises"}

\* Wrong version of ItemLines: an exception drops what there was before it
ItemLinesAnew(c, out) ==
  LET last == {a \in ChunkAssets(c) : \A b \in ChunkAssets(c) : b >= a => out[b] # "raises"}
  IN  [a \in {b \in last : out[b] = "items"} |-> a]

ItemLines(c, out) ==
  LET result(a) == CHOOSE b \in ResultOf(a, c, out) : TRUE
  IN  [a \in {b \in ChunkAssets(c) : out[result(b)] = "items"} |-> result(a)]

\* What create_item may do for the assets of a chunk
Calls(c, limit) ==
  {out \in [ChunkAssets(c) -> Outcomes] :
     \A a \in ChunkAssets(c) : out[a] = "left" <=> limit > 0 /\ a > (c - 1) * ChunkLength + limit}

\* create_item asking to wait changes nothing: the task is run again.
CreateItems(c) ==
  /\ flowAt = "process" /\ chunkAt[c] = "create"
  /\ \E limit \in ItemLimits : \E out \in Calls(c, limit) :
       /\ outcome' = [a \in Assets |-> IF a \in ChunkAssets(c) THEN out[a] ELSE outcome[a]]
       /\ IF \E a \in ChunkAssets(c) : out[a] = "invalid" \/ ResultOf(a, c, out) = {}
          THEN /\ chunkAt' = [chunkAt EXCEPT ![c] = "failed"]
               /\ UNCHANGED itemLines
          ELSE /\ chunkAt' = [chunkAt EXCEPT ![c] = "ingest"]
               /\ itemLines' = [itemLines EXCEPT ![c] = {ItemLines(c, out)}]
  /\ UNCHANGED <<flowNumber, flowAt, chunksWritten, folderOf, inDb>>

(***************************************************************************)
(* Loading files                                                           *)
(***************************************************************************)
\* prepare_chunk: an empty file has one line all the same.
FileLines(c) == LET lines == CHOOSE f \in itemLines[c] : TRUE
                IN  IF DOMAIN lines = {} THEN [place \in {Blank} |-> Blank] ELSE lines

\* A line of some files one after the other: which file, and its place there
Lines(files) == {at \in (DOMAIN files) \X (Assets \union {Blank}) : at[2] \in DOMAIN FileLines(files[at[1]])}
LineAt(files, at) == FileLines(files[at[1]])[at[2]]
IsBefore(x, y) == x[1] < y[1] \/ (x[1] = y[1] /\ x[2] < y[2])

\* ingest_item_paths: the files in one, which ends without a line break.
TargetLines(files) ==
  {x \in Lines(files) : LineAt(files, x) = Blank => \E y \in Lines(files) : IsBefore(x, y)}

LineNumber(files, x) == Cardinality({y \in TargetLines(files) : IsBefore(y, x)})
Group(files, n) ==
  {LineAt(files, x) : x \in {y \in TargetLines(files) : LineNumber(files, y) \div InsertGroupSize = n - 1}}
NumLoads(files) == (Cardinality(TargetLines(files)) + InsertGroupSize - 1) \div InsertGroupSize

\* ingest_items: the groups are loaded one after the other.  A broken
\* connection is tried once more with the whole group; a blank line is no item.
Loads(files) ==
  LET Loaded(n) == UNION {Group(files, k) : k \in 1..n}
      fine == {n \in 0..NumLoads(files) : Blank \notin Loaded(n)}
  IN  {[ok |-> n = NumLoads(files), items |-> Loaded(n)] : n \in fine}

IngestItems(c) ==
  /\ flowAt = "process" /\ chunkAt[c] = "ingest"
  /\ \E load \in Loads(<<c>>) :
       /\ inDb' = inDb \union load.items
       /\ chunkAt' = [chunkAt EXCEPT ![c] = IF load.ok THEN "done" ELSE "failed"]
  /\ UNCHANGED <<flowNumber, flowAt, filesOf, folderOf>>

EndFlow ==
  /\ flowAt = "process" /\ \A c \in Chunks : chunkAt[c] \notin {"create", "ingest"}
  /\ flowAt' = "ended"
  /\ UNCHANGED <<flowNumber, chunkAt, filesOf, folderOf, inDb>>

RunAgain ==
  /\ flowAt = "ended" /\ folderAt = "off" /\ flowNumber < MaxFlows
  /\ flowNumber' = flowNumber + 1 /\ flowAt' = "start"
  /\ chunkAt' = [c \in Chunks |-> "unlisted"]
  /\ UNCHANGED <<filesOf, folderOf, inDb>>

(***************************************************************************)
(* ingest_ndjsons, of a folder                                             *)
(***************************************************************************)
FolderStarts ==
  /\ flowAt = "ended" /\ folderAt = "off"
  /\ preparing' = {c \in Chunks : itemLines[c] # {}}
  /\ folderAt' = "running"
  /\ UNCHANGED <<insertGroup, failedFiles, flowOf, filesOf, inDb>>

Flush(files) ==
  /\ \E load \in Loads(files) :
       /\ inDb' = inDb \union load.items
       /\ failedFiles' = IF load.ok THEN failedFiles ELSE failedFiles \union ToSet(files)
  /\ insertGroup' = <<>>

\* Downloads end in any order; enough lines are flushed.
FileReady(c) ==
  /\ folderAt = "running" /\ c \in preparing
  /\ preparing' = preparing \ {c}
  /\ LET files == Append(insertGroup, c)
     IN  IF Cardinality(Lines(files)) >= InsertGroupSize
         THEN Flush(files)
         ELSE insertGroup' = files /\ UNCHANGED <<inDb, failedFiles>>
  /\ UNCHANGED <<folderAt, flowOf, filesOf>>

FileRaises ==
  /\ folderAt = "running" /\ preparing # {}
  /\ folderAt' = "raised"
  /\ UNCHANGED <<preparing, insertGroup, failedFiles, flowOf, filesOf, inDb>>

FlushRest ==
  /\ folderAt = "running" /\ preparing = {} /\ insertGroup # <<>>
  /\ Flush(insertGroup)
  /\ UNCHANGED <<folderAt, preparing, flowOf, filesOf>>

\* Wrong version of FolderEnds: the last group is never flushed
FolderEndsEarly ==
  /\ folderAt = "running" /\ preparing = {}
  /\ folderAt' = IF failedFiles = {} THEN "returned" ELSE "raised"
  /\ UNCHANGED <<preparing, insertGroup, failedFiles, flowOf, filesOf, inDb>>

FolderEnds ==
  /\ folderAt = "running" /\ preparing = {} /\ insertGroup = <<>>
  /\ folderAt' = IF failedFiles = {} THEN "returned" ELSE "raised"
  /\ UNCHANGED <<preparing, insertGroup, failedFiles, flowOf, filesOf, inDb>>

DatasetNext ==
  \/ WriteChunk \/ ChunksCreated \/ ChunksRaise \/ ListChunks \/ EndFlow \/ RunAgain
  \/ FolderStarts \/ FileRaises \/ FlushRest \/ FolderEnds
  \/ \E c \in Chunks : CreateItems(c) \/ IngestItems(c) \/ FileReady(c)

DatasetSpec == DatasetInit /\ [][DatasetNext]_datasetVars

(***************************************************************************)
(* Properties                                                              *)
(***************************************************************************)
\* When a run has processed all its chunks, every asset of the source for which
\* create_item gave items has them in the database, whatever it did for the
\* assets around it in the chunk.  (An asset whose call raised is only logged,
\* and one past the limit of the last run is left out.)
DoneMeansIngested ==
  flowAt # "start" /\ (\A c \in Chunks : chunkAt[c] = "done") =>
    \A a \in Assets : outcome[a] \in {"none", "raises", "left"} \/ (outcome[a] = "items" /\ a \in inDb)

\* An ingest of a folder that returns has loaded every line of every file, in
\* whatever order and groups the files came; one that raises has loaded the
\* files it does not name as failed, unless a download stopped it.
FileInDb(c) == itemLines[c] # {} => Range(FileLines(c)) \subseteq inDb \union {Blank}
FolderIngested ==
  /\ folderAt = "returned" => \A c \in Chunks : FileInDb(c)
  /\ folderAt = "raised" /\ preparing = {} => \A c \in Chunks \ failedFiles : FileInDb(c)

\* What is reported as processed or ingested is in the database, whether a run of
\* the workflow or the ingest of a folder says so.
IngestsComplete == DoneMeansIngested /\ FolderIngested

=============================================================================
