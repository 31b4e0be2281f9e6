----------------------------- MODULE StorageWalk -----------------------------
(***************************************************************************)
(* Storage.walk of a folder tree, as BlobStorage does it (level by level,  *)
(* the folders of a level listed by a pool of threads and taken in the     *)
(* order their listings end) and as LocalStorage does it (os.walk).  A     *)
(* limit or depth that is not given is 0: the code tests whether it is     *)
(* true, so that 0 and None are the same to it, but for the depth of       *)
(* folder_matches.  name_starts_with is the path of a folder: a blob       *)
(* storage starts there, a local one goes through all folders and passes   *)
(* over those whose path does not begin with it.  Files are counted: those *)
(* that pass the filters on their names, sizes and dates.                  *)
(***************************************************************************)
EXTENDS Naturals, Sequences, FiniteSets

CONSTANTS
  NumFolders, \* folder 1 is the base of the storage
  NumFiles,   \* files in each folder that pass the filters
  MaxOption   \* bound: depths and limits are 0 to this

Folders == 1..NumFolders

ASSUME WalkAssumption ==
  /\ {NumFolders, MaxOption} \subseteq Nat \ {0}
  /\ NumFiles \in [Folders -> Nat]

VARIABLES
  parent,     \* the tree: parent of each folder but the base
  walkOpts,   \* arguments of the call, and the storage it is made on
  todo,       \* blob: what is left of the level, and the next level
              \* local: folders to visit, those of the deepest folder first
  yielded,    \* what the generator has yielded: [folder, files]
  walkCount, fileCount, limitBreak,
  walkEnded

walkVars == <<parent, walkOpts, todo, yielded, walkCount, fileCount, limitBreak, walkEnded>>

Options == 0..MaxOption
WalkOptions ==
  [engine : {"blob", "local"}, start : Folders, named : SUBSET Folders, minDepth : Options,
   maxDepth : Options, walkLimit : Options, fileLimit : Options,
   folderMatches : SUBSET Folders, atDepth : SUBSET Options]

WalkTypeOK ==
  /\ parent \in [Folders \ {1} -> Folders]
  /\ walkOpts \in WalkOptions
  /\ todo \in Seq(SUBSET Folders)
  /\ yielded \in Seq([folder : Folders, files : Nat])
  /\ {walkCount, fileCount} \subseteq Nat /\ {limitBreak, walkEnded} \subseteq BOOLEAN

\* At most one limit, and at most one folder that folder_matches excludes, not with a
\* name_starts_with of a local storage: the tests do not depend on each other.
WalkCalls ==
  {o \in [engine : {"blob", "local"}, start : Folders, named : SUBSET Folders, minDepth : Options,
          maxDepth : Options, walkLimit : Options, fileLimit : Options,
          folderMatches : {Folders} \union {Folders \ {f} : f \in Folders},
          atDepth : {{}, {0}, {1}}] :
     /\ o.engine = "local" => o.start = 1
     /\ o.engine = "blob" => o.named = Folders
     /\ o.walkLimit = 0 \/ o.fileLimit = 0
     /\ o.folderMatches = Folders => o.atDepth = {}
     /\ o.named # Folders => o.folderMatches = Folders}

Trees == {p \in [Folders \ {1} -> Folders] : \A f \in Folders \ {1} : p[f] < f}

FirstTodo(call) == IF call.engine = "blob" THEN <<{}, {call.start}>> ELSE <<{call.start}>>

WalkBegins(tree, call) ==
  /\ parent = tree /\ walkOpts = call
  /\ todo = FirstTodo(call)
  /\ yielded = <<>> /\ walkCount = 0 /\ fileCount = 0
  /\ limitBreak = FALSE /\ walkEnded = FALSE

\* A folder and those above it, and the folders whose paths begin with that of one
Above[f \in Folders] == {f} \union (IF f = 1 THEN {} ELSE Above[parent[f]])
Below(f) == {g \in Folders : f \in Above[g]}

WalkInit ==
  /\ \E tree \in Trees, call \in WalkCalls : WalkBegins(tree, call)
  /\ \E f \in Folders : walkOpts.named = Below(f)

Depth[f \in Folders] == IF f = 1 THEN 0 ELSE Depth[parent[f]] + 1
Children(f) == {g \in Folders \ {1} : parent[g] = f}

\* folder_matches, of the folders in f: at any depth, or at the one that is given,
\* which is no folder's if it is 0
Matching(f) ==
  {g \in Children(f) : walkOpts.atDepth \in {{}, {Depth[f] + 1}} => g \in walkOpts.folderMatches}

FilesOf(f) == NumFiles[f]

Given(option) == option > 0
PassedOver(f) ==
  f \notin walkOpts.named \/ (Given(walkOpts.minDepth) /\ Depth[f] < walkOpts.minDepth)
TooDeep(f) == Given(walkOpts.maxDepth) /\ Depth[f] > walkOpts.maxDepth
WalkLimitHit(count) == Given(walkOpts.walkLimit) /\ count >= walkOpts.walkLimit
Overrun(f) == Given(walkOpts.fileLimit) /\ fileCount + FilesOf(f) > walkOpts.fileLimit
CutFiles(f) == IF Overrun(f) THEN walkOpts.fileLimit - fileCount ELSE FilesOf(f)

Yield(f) == yielded' = Append(yielded, [folder |-> f, files |-> CutFiles(f)])

(***************************************************************************)
(* BlobStorage                                                             *)
(***************************************************************************)
Level == todo[1]
NextLevel == todo[2]

\* All folders of a level are listed, or none of them.
StartLevel ==
  /\ walkOpts.engine = "blob" /\ ~walkEnded
  /\ Level = {} /\ NextLevel # {}
  /\ IF WalkLimitHit(walkCount) \/ limitBreak \/ \E f \in NextLevel : TooDeep(f)
     THEN walkEnded' = TRUE /\ UNCHANGED todo
     ELSE todo' = <<NextLevel, {}>> /\ UNCHANGED walkEnded
  /\ UNCHANGED <<parent, walkOpts, yielded, walkCount, fileCount, limitBreak>>

\* Wrong version of BlobFolder: the files yielded are not counted
BlobFolderUncounted(f) ==
  /\ walkOpts.engine = "blob" /\ ~walkEnded /\ f \in Level
  /\ IF CutFiles(f) = 0 /\ Overrun(f)
     THEN walkEnded' = TRUE /\ UNCHANGED <<todo, yielded, walkCount>>
     ELSE /\ todo' = <<Level \ {f}, NextLevel \union Matching(f)>>
          /\ walkCount' = walkCount + 1
          /\ IF PassedOver(f) THEN UNCHANGED yielded ELSE Yield(f)
          /\ UNCHANGED walkEnded
  /\ limitBreak' = (limitBreak \/ Overrun(f))
  /\ UNCHANGED <<parent, walkOpts, fileCount>>

BlobFolder(f) ==
  /\ walkOpts.engine = "blob" /\ ~walkEnded /\ f \in Level
  /\ IF CutFiles(f) = 0 /\ Overrun(f)
     THEN walkEnded' = TRUE /\ UNCHANGED <<todo, yielded, walkCount, fileCount>>
     ELSE /\ todo' = <<Level \ {f}, NextLevel \union Matching(f)>>
          /\ walkCount' = walkCount + 1 /\ fileCount' = fileCount + CutFiles(f)
          /\ IF PassedOver(f) THEN UNCHANGED yielded ELSE Yield(f)
          /\ UNCHANGED walkEnded
  /\ limitBreak' = (limitBreak \/ Overrun(f))
  /\ UNCHANGED <<parent, walkOpts>>

(***************************************************************************)
(* LocalStorage                                                            *)
(***************************************************************************)
\* file_count is never changed.
LocalFolder(f) ==
  /\ walkOpts.engine = "local" /\ ~walkEnded /\ f \in Head(todo)
  /\ todo' = <<Matching(f), Head(todo) \ {f}>> \o Tail(todo)
  /\ IF PassedOver(f) \/ TooDeep(f)
     THEN UNCHANGED <<yielded, walkCount, walkEnded>>
     ELSE /\ Yield(f)
          /\ walkCount' = walkCount + 1
          /\ walkEnded' = (Overrun(f) \/ WalkLimitHit(walkCount + 1))
  /\ UNCHANGED <<parent, walkOpts, fileCount, limitBreak>>

LocalReturns ==
  /\ walkOpts.engine = "local" /\ ~walkEnded
  /\ Len(todo) > 1 /\ Head(todo) = {}
  /\ todo' = Tail(todo)
  /\ UNCHANGED <<parent, walkOpts, yielded, walkCount, fileCount, limitBreak, walkEnded>>

WalkNext ==
  StartLevel \/ LocalReturns \/ \E f \in Folders : BlobFolder(f) \/ LocalFolder(f)

WalkSpec == WalkInit /\ [][WalkNext]_walkVars

(***************************************************************************)
(* Properties                                                              *)
(***************************************************************************)
WalkDone == walkEnded \/ \A i \in DOMAIN todo : todo[i] = {}

\* Folders that folder_matches lets the walk get to
Reached[f \in Folders] ==
  \/ f = walkOpts.start
  \/ /\ f # 1 /\ Reached[parent[f]]
     /\ walkOpts.atDepth \in {{}, {Depth[f]}} => f \in walkOpts.folderMatches

\* Without limits both storages yield each folder that is reached, of the names and
\* between the depths asked for, once and with all its files, whatever the order of the
\* listings; and a blob storage yields no folder after a deeper one.
WalkCoversTree ==
  LET given(o) == Given(walkOpts[o])
      wanted == {f \in Folders : Reached[f] /\ ~PassedOver(f) /\ ~TooDeep(f)}
  IN  /\ WalkDone /\ ~given("walkLimit") /\ ~given("fileLimit") =>
           /\ {yielded[i] : i \in DOMAIN yielded} =
                {[folder |-> f, files |-> FilesOf(f)] : f \in wanted}
           /\ Len(yielded) = Cardinality(wanted)
      /\ walkOpts.engine = "blob" =>
           \A i \in DOMAIN yielded : \A j \in 1..i :
             Depth[yielded[j].folder] <= Depth[yielded[i].folder]

FilesYielded[i \in 0..Len(yielded)] ==
  IF i = 0 THEN 0 ELSE FilesYielded[i - 1] + yielded[i].files

\* What holds of the limits: a blob storage keeps file_limit, and a local one
\* walk_limit.  (A blob storage looks at walk_limit between two levels only, and
\* a local one never counts the files it has yielded.)
WalkKeepsLimits ==
  /\ walkOpts.engine = "blob" /\ Given(walkOpts.fileLimit) =>
       FilesYielded[Len(yielded)] <= walkOpts.fileLimit
  /\ walkOpts.engine = "local" /\ Given(walkOpts.walkLimit) => Len(yielded) <= walkOpts.walkLimit

\* Storage.walk visits what it is asked to visit and stops where it is told to.
WalkIsComplete == WalkCoversTree /\ WalkKeepsLimits

=============================================================================
