----------------------------- MODULE StorageFiles -----------------------------
(***************************************************************************)
(* Files of a blob container, or of a local directory, under the calls of  *)
(* several clients.  BlobStorage sends its requests under with_backoff,    *)
(* which repeats one that is throttled, also after it took effect;         *)
(* LocalStorage looks before it writes.  A name is a sequence of segments, *)
(* and a storage has the prefix its paths are relative to.                 *)
(***************************************************************************)
EXTENDS Naturals, Sequences, FiniteSets, SequencesExt

CONSTANTS
  StorageClients,
  FileNames,        \* names in the container, in the order it lists them
  Begins,           \* <<s, t>>: segment s begins with t
  StoragePrefixes,  \* prefixes of the storages; the others are folders
  NumTries,         \* waits of the BackoffStrategy
  MaxThrottles      \* bound: throttled requests

Names == ToSet(FileNames)
Segments == {b[1] : b \in Begins}
NoData == "none"
Contents == {NoData, "old"} \union StorageClients

ASSUME FilesAssumption ==
  /\ NumTries \in Nat \ {0} /\ MaxThrottles \in Nat
  /\ FileNames \in Seq(Seq(Segments) \ {<<>>}) /\ StoragePrefixes \subseteq Seq(Segments)
  /\ \A s \in Segments : <<s, s>> \in Begins
  /\ NoData \notin StorageClients

VARIABLES
  files,      \* content of each name
  fileCall,   \* call of each client: [op, store, path, overwrite]
  filePhase,
  tries,      \* requests of with_backoff that were throttled
  listing,    \* what is left of the page at hand: places in FileNames
  marker,     \* how many names the pages have covered
  listed,     \* what the generator has yielded
  answer,
  throttles,
  seen        \* history: <<name, content>> there at some time of the call

fileVars == <<files, fileCall, filePhase, tries, listing, marker, listed, answer, throttles, seen>>

(***************************************************************************)
(* Names.  The URI of a file is its name in full.                          *)
(***************************************************************************)
AddPrefix(s, path) == s.prefix \o path

RelPath(name, base) ==
  LET common == LongestCommonPrefix({name, base})
  IN  [i \in 1..(Len(base) - Len(common)) |-> ".."] \o SubSeq(name, Len(common) + 1, Len(name))

StripPrefix(s, name) == RelPath(name, s.prefix)

\* The name begins with what the path spells, which may end within a segment.
SpelledBy(path, name) ==
  /\ Len(path) <= Len(name)
  /\ \A i \in 1..(Len(path) - 1) : name[i] = path[i]
  /\ path # <<>> => <<name[Len(path)], Last(path)>> \in Begins

\* A path joined to the prefix; the prefix alone is joined to a slash.
NameStartsWith(s, path, name) ==
  IF path = <<>> THEN IsPrefix(s.prefix, name) ELSE SpelledBy(AddPrefix(s, path), name)

GetUri(s, path) == AddPrefix(s, path)
SharesPrefix(s, uri) == \E i \in DOMAIN uri : SpelledBy(s.prefix, SubSeq(uri, i, Len(uri)))
GetPath(s, uri) ==
  IF s.engine = "blob" /\ ~SharesPrefix(s, uri) THEN <<"ValueError">> ELSE StripPrefix(s, uri)
GetSubstorage(s, path) == [s EXCEPT !.prefix = @ \o path]

\* The container's storage and the blob's name, or the directory's and the file's
GetStorageForFile(s, uri) ==
  IF s.engine = "blob" THEN <<[s EXCEPT !.prefix = <<>>], uri>>
  ELSE <<[s EXCEPT !.prefix = Front(uri)], <<Last(uri)>> >>

(***************************************************************************)
(* Calls                                                                   *)
(***************************************************************************)
Storages == [engine : {"blob", "local"}, prefix : StoragePrefixes]
Paths(s) == {StripPrefix(s, n) : n \in {m \in Names : IsPrefix(s.prefix, m)}}
FoldersIn(s) == {StripPrefix(s, p) : p \in {q \in StoragePrefixes : IsStrictPrefix(s.prefix, q)}}

FileCallsOf(s) ==
  [op : {"read", "exists", "delete"}, store : {s}, path : Paths(s), overwrite : {TRUE}]
  \union [op : {"write"}, store : {s}, path : Paths(s), overwrite : BOOLEAN]
FolderCallsOf(s) ==
  [op : {"delete_folder"}, store : {s}, path : FoldersIn(s), overwrite : {TRUE}]
  \union [op : {"list"}, store : {s}, path : {<<>>} \union FoldersIn(s), overwrite : {TRUE}]
FileCalls ==
  (UNION {FileCallsOf(s) : s \in Storages})
  \union (UNION {FolderCallsOf(s) : s \in {t \in Storages : t.engine = "blob"}})
NoCall == [op |-> "none", store |-> [engine |-> "blob", prefix |-> <<>>], path |-> <<>>, overwrite |-> TRUE]

FilesTypeOK ==
  /\ files \in [Names -> Contents] /\ fileCall \in [StorageClients -> FileCalls \union {NoCall}]
  /\ filePhase \in [StorageClients -> {"idle", "checks", "asks", "lists", "ended"}]
  /\ tries \in [StorageClients -> 0..NumTries] /\ throttles \in 0..MaxThrottles
  /\ listing \in [StorageClients -> SUBSET (DOMAIN FileNames)] /\ listed \in [StorageClients -> SUBSET Names]
  /\ marker \in [StorageClients -> 0..Len(FileNames)]
  /\ answer \in [StorageClients -> {"", "ok", "no", "missing", "exists", "raised"}]
  /\ seen \in [StorageClients -> SUBSET (Names \X Contents)]

FilesBegin(present) ==
  /\ files = [n \in Names |-> IF n \in present THEN "old" ELSE NoData]
  /\ fileCall = [c \in StorageClients |-> NoCall]
  /\ filePhase = [c \in StorageClients |-> "idle"] /\ answer = [c \in StorageClients |-> ""]
  /\ tries = [c \in StorageClients |-> 0] /\ throttles = 0
  /\ listing = [c \in StorageClients |-> {}] /\ marker = [c \in StorageClients |-> 0]
  /\ listed = [c \in StorageClients |-> {}] /\ seen = [c \in StorageClients |-> {}]

FilesInit == \E present \in SUBSET Names : FilesBegin(present)

Lists(c) == fileCall[c].op \in {"list", "delete_folder"}
NextPlace(c) == CHOOSE i \in listing[c] : \A j \in listing[c] : i <= j
Target(c) ==
  IF Lists(c) THEN FileNames[NextPlace(c)] ELSE AddPrefix(fileCall[c].store, fileCall[c].path)

Watch == seen' = [c \in StorageClients |->
                    IF filePhase[c] \in {"idle", "ended"} THEN seen[c]
                    ELSE seen[c] \union {<<n, files'[n]>> : n \in Names}]
Ends(c, a) == filePhase' = [filePhase EXCEPT ![c] = "ended"] /\ answer' = [answer EXCEPT ![c] = a]

StartCall(c, call) ==
  /\ filePhase[c] = "idle"
  /\ fileCall' = [fileCall EXCEPT ![c] = call]
  /\ filePhase' = [filePhase EXCEPT ![c] =
       IF call.op \in {"list", "delete_folder"} THEN "lists"
       ELSE IF call.store.engine = "local" /\ ~call.overwrite THEN "checks" ELSE "asks"]
  /\ seen' = [seen EXCEPT ![c] = {<<n, files[n]>> : n \in Names}]
  /\ UNCHANGED <<files, tries, listing, marker, listed, answer, throttles>>

\* LocalStorage without overwrite
CheckTarget(c) ==
  /\ filePhase[c] = "checks"
  /\ IF files[Target(c)] # NoData THEN Ends(c, "exists")
     ELSE filePhase' = [filePhase EXCEPT ![c] = "asks"] /\ UNCHANGED answer
  /\ UNCHANGED <<files, fileCall, tries, listing, marker, listed, throttles, seen>>

\* What a request does to its file and what it is answered.  download_file,
\* read_bytes and get_file_info are "read".
Refused(c) ==
  fileCall[c].store.engine = "blob" /\ ~fileCall[c].overwrite /\ files[Target(c)] # NoData

TakesEffect(c) ==
  /\ files' = [files EXCEPT ![Target(c)] =
       CASE fileCall[c].op = "write" -> IF Refused(c) THEN @ ELSE c
         [] fileCall[c].op \in {"delete", "delete_folder"} -> NoData
         [] OTHER -> @]
  /\ Watch

Reply(c) ==
  CASE fileCall[c].op = "write" -> IF Refused(c) THEN "exists" ELSE "ok"
    [] fileCall[c].op = "exists" -> IF files[Target(c)] = NoData THEN "no" ELSE "ok"
    [] OTHER -> IF files[Target(c)] = NoData THEN "missing" ELSE "ok"

\* delete_folder goes on to the next file of its page.
Answered(c) ==
  /\ filePhase[c] = "asks"
  /\ TakesEffect(c)
  /\ IF Lists(c) /\ Reply(c) = "ok"
     THEN /\ filePhase' = [filePhase EXCEPT ![c] = "lists"]
          /\ listing' = [listing EXCEPT ![c] = @ \ {NextPlace(c)}]
          /\ tries' = [tries EXCEPT ![c] = 0] /\ UNCHANGED answer
     ELSE Ends(c, Reply(c)) /\ UNCHANGED <<listing, tries>>
  /\ UNCHANGED <<fileCall, marker, listed, throttles>>

\* Wrong version of GivesUp: the answer to the last request is not asked for
GivesUpSilently(c) == IF tries[c] + 1 = NumTries THEN Ends(c, "ok") ELSE UNCHANGED <<filePhase, answer>>

GivesUp(c) == IF tries[c] + 1 = NumTries THEN Ends(c, "raised") ELSE UNCHANGED <<filePhase, answer>>

\* with_backoff: the request is repeated whether or not it took effect.  (What
\* read_bytes reads is read outside of it.)
RequestThrottled(c) ==
  /\ filePhase[c] = "asks" /\ fileCall[c].store.engine = "blob" /\ throttles < MaxThrottles
  /\ throttles' = throttles + 1
  /\ tries' = [tries EXCEPT ![c] = @ + 1]
  /\ TakesEffect(c) \/ UNCHANGED <<files, seen>>
  /\ GivesUp(c) \/ (fileCall[c].op = "read" /\ Ends(c, "raised"))
  /\ UNCHANGED <<fileCall, listing, marker, listed>>

\* The next page, of some names behind the marker that are there now: empty
\* files are placeholders of folders and left out.
FetchPage(c, upTo) ==
  /\ filePhase[c] = "lists" /\ listing[c] = {} /\ marker[c] < upTo /\ upTo <= Len(FileNames)
  /\ listing' = [listing EXCEPT ![c] =
       {i \in (marker[c] + 1)..upTo :
          /\ files[FileNames[i]] # NoData
          /\ NameStartsWith(fileCall[c].store, fileCall[c].path, FileNames[i])}]
  /\ marker' = [marker EXCEPT ![c] = upTo]
  /\ UNCHANGED <<files, fileCall, filePhase, tries, listed, answer, throttles, seen>>

\* A page is a generator's: with_backoff has returned long before.
PageRaises(c) ==
  /\ filePhase[c] = "lists" /\ listing[c] = {} /\ throttles < MaxThrottles
  /\ throttles' = throttles + 1
  /\ Ends(c, "raised")
  /\ UNCHANGED <<files, fileCall, tries, listing, marker, listed, seen>>

YieldName(c) ==
  /\ filePhase[c] = "lists" /\ listing[c] # {}
  /\ listed' = [listed EXCEPT ![c] = @ \union {Target(c)}]
  /\ IF fileCall[c].op = "list"
     THEN listing' = [listing EXCEPT ![c] = @ \ {NextPlace(c)}] /\ UNCHANGED filePhase
     ELSE filePhase' = [filePhase EXCEPT ![c] = "asks"] /\ UNCHANGED listing
  /\ UNCHANGED <<files, fileCall, tries, marker, answer, throttles, seen>>

ListEnds(c) ==
  /\ filePhase[c] = "lists" /\ listing[c] = {} /\ marker[c] = Len(FileNames)
  /\ Ends(c, "ok")
  /\ UNCHANGED <<files, fileCall, tries, listing, marker, listed, throttles, seen>>

FilesNext ==
  \E c \in StorageClients :
    \/ \E call \in FileCalls : StartCall(c, call)
    \/ CheckTarget(c) \/ Answered(c) \/ RequestThrottled(c)
    \/ \E upTo \in DOMAIN FileNames : FetchPage(c, upTo)
    \/ PageRaises(c) \/ YieldName(c) \/ ListEnds(c)

FilesSpec == FilesInit /\ [][FilesNext]_fileVars

(***************************************************************************)
(* Properties                                                              *)
(***************************************************************************)
Was(c, n, contents) == \E x \in contents : <<n, x>> \in seen[c]

\* The call did what it is taken to have done, at some moment before it returned.
\* (An error may follow a first request that took effect: "exists" and "missing"
\* are then about the call's own doing.)
CallDone(c) ==
  LET call == fileCall[c]
      store == call.store
      at == AddPrefix(store, call.path)
      within == {n \in Names : IsPrefix(at, n)}
  IN  CASE call.op = "write" -> Was(c, at, {c})
        [] call.op \in {"read", "exists"} -> Was(c, at, Contents \ {NoData})
        [] call.op = "delete" -> Was(c, at, {NoData}) /\ Was(c, at, Contents \ {NoData})
        [] call.op = "delete_folder" -> \A n \in within : Was(c, n, {NoData})
        [] call.op = "list" ->
             /\ \A n \in within : Was(c, n, {NoData}) \/ n \in listed[c]
             /\ \A n \in listed[c] : Was(c, n, Contents \ {NoData})

\* A path that list_files yields, a URI made of it and the storage and path made
\* of that URI all lead to the file that was listed, from a substorage too.
LeadsBack(c, n) ==
  LET store == fileCall[c].store
      path == StripPrefix(store, n)
      again == GetStorageForFile(store, GetUri(store, path))
      sub == GetSubstorage(store, Front(path))
  IN  /\ AddPrefix(store, path) = n
      /\ GetPath(store, GetUri(store, path)) = path
      /\ AddPrefix(again[1], again[2]) = n
      /\ AddPrefix(sub, StripPrefix(sub, n)) = n

\* What a storage's call answers is true of the container, whatever the other
\* clients and the retries have done to it in the meantime.
StorageAnswersHold ==
  \A c \in StorageClients :
    /\ answer[c] = "ok" => CallDone(c)
    /\ answer[c] \in {"no", "missing"} /\ ~Lists(c) =>
         Was(c, AddPrefix(fileCall[c].store, fileCall[c].path), {NoData})
    /\ \A n \in listed[c] : LeadsBack(c, n)

=============================================================================
