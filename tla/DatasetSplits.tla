---------------------------- MODULE DatasetSplits ----------------------------
(***************************************************************************)
(* create-splits, the first task of a dataset's workflows: it walks the    *)
(* asset storages of a collection and makes each folder it is to split at  *)
(* a target, whose files another task puts into chunks with all below it.  *)
(* The walks are those of StorageWalk, over storages of one tree.          *)
(***************************************************************************)
EXTENDS StorageWalk

CONSTANTS
  Collections, \* what to choose from: sequences of asset storages
  MaxTargets   \* bound: CreateSplitsOptions.limit is 0 (not given) to this

\* A prefix not given is folder 1.
SplitConfigs == [prefix : Folders, depth : Options, folderMatches : SUBSET Folders]
AssetStorages == [engine : {"blob", "local"}, splits : Seq(SplitConfigs)]

ASSUME SplitsAssumption == MaxTargets \in Nat /\ Collections \subseteq Seq(AssetStorages)

VARIABLES
  splitInputs,  \* the task's inputs
  targetLimit,  \* options.limit
  splitAt,      \* <<input, split>> at hand; split 0: the input is to be begun
  walking,      \* the loop over storage.walk runs
  splitTargets, \* [storage, folder]
  splitLimitHit

splitVars == <<splitInputs, targetLimit, splitAt, walking, splitTargets, splitLimitHit>>

SplitsTypeOK ==
  /\ splitInputs \in Seq(AssetStorages) /\ targetLimit \in 0..MaxTargets
  /\ splitAt \in (1..(Len(splitInputs) + 1)) \X Nat
  /\ {walking, splitLimitHit} \subseteq BOOLEAN
  /\ splitTargets \in Seq([storage : DOMAIN splitInputs, folder : Folders])

\* from_collection makes an input of each asset storage.
SplitsBegin(storages, limit) ==
  /\ splitInputs = storages /\ targetLimit = limit
  /\ splitAt = <<1, 0>> /\ walking = FALSE
  /\ splitTargets = <<>> /\ splitLimitHit = FALSE

SplitsInit ==
  /\ \E tree \in Trees : WalkBegins(tree, CHOOSE o \in WalkCalls : o.engine = "blob")
  /\ \E storages \in Collections, limit \in 0..MaxTargets : SplitsBegin(storages, limit)

InputAt == splitInputs[splitAt[1]]
SplitTarget(folder) == [storage |-> splitAt[1], folder |-> folder]
TasksDone == ~walking /\ (splitLimitHit \/ splitAt[1] > Len(splitInputs)) /\ splitAt[2] = 0

\* An input without splits is its own target.
BeginInput ==
  /\ ~walking /\ ~TasksDone /\ splitAt[2] = 0
  /\ IF InputAt.splits = <<>>
     THEN /\ splitTargets' = Append(splitTargets, SplitTarget(1))
          /\ splitAt' = <<splitAt[1] + 1, 0>>
     ELSE splitAt' = <<splitAt[1], 1>> /\ UNCHANGED splitTargets
  /\ UNCHANGED <<splitInputs, targetLimit, walking, splitLimitHit, walkVars>>

\* Where the walk of a split begins: see name_starts_with in StorageWalk
SplitStart(engine, split) == IF engine = "blob" THEN split.prefix ELSE 1
SplitNamed(engine, split) == IF engine = "blob" THEN Folders ELSE Below(split.prefix)

\* Wrong version of SplitWalk: no folder is too shallow
SplitWalkFromTop(engine, split) ==
  [engine |-> engine, start |-> SplitStart(engine, split), named |-> SplitNamed(engine, split),
   minDepth |-> 0, maxDepth |-> split.depth, walkLimit |-> 0, fileLimit |-> 0,
   folderMatches |-> split.folderMatches, atDepth |-> {}]

SplitWalk(engine, split) ==
  [engine |-> engine, start |-> SplitStart(engine, split), named |-> SplitNamed(engine, split),
   minDepth |-> split.depth, maxDepth |-> split.depth, walkLimit |-> 0, fileLimit |-> 0,
   folderMatches |-> split.folderMatches, atDepth |-> {}]

BeginWalk ==
  /\ ~walking /\ splitAt[2] > 0 /\ splitAt[2] <= Len(InputAt.splits)
  /\ walking' = TRUE
  /\ walkOpts' = SplitWalk(InputAt.engine, InputAt.splits[splitAt[2]])
  /\ todo' = FirstTodo(walkOpts') /\ yielded' = <<>>
  /\ walkCount' = 0 /\ fileCount' = 0 /\ limitBreak' = FALSE /\ walkEnded' = FALSE
  /\ UNCHANGED <<parent, splitInputs, targetLimit, splitAt, splitTargets, splitLimitHit>>

\* The limit breaks the walk, not the loop over the splits of the input.  (Taking
\* the other prefixes out of the folders yielded changes nothing: they end in "/",
\* and no folder's name does.)
WalkOn ==
  /\ walking /\ ~WalkDone /\ WalkNext
  /\ LET new == IF Len(yielded') > Len(yielded) THEN <<SplitTarget(yielded'[Len(yielded')].folder)>> ELSE <<>>
         targets == splitTargets \o new
         hit == new # <<>> /\ Given(targetLimit) /\ Len(targets) >= targetLimit
     IN  /\ splitTargets' = targets
         /\ splitLimitHit' = (splitLimitHit \/ hit)
         /\ IF hit THEN walking' = FALSE /\ splitAt' = <<splitAt[1], splitAt[2] + 1>>
            ELSE UNCHANGED <<walking, splitAt>>
  /\ UNCHANGED <<splitInputs, targetLimit>>

EndWalk ==
  /\ walking /\ WalkDone
  /\ walking' = FALSE /\ splitAt' = <<splitAt[1], splitAt[2] + 1>>
  /\ UNCHANGED <<splitInputs, targetLimit, splitTargets, splitLimitHit, walkVars>>

EndInput ==
  /\ ~walking /\ splitAt[2] > 0 /\ splitAt[2] > Len(InputAt.splits)
  /\ splitAt' = <<splitAt[1] + 1, 0>>
  /\ UNCHANGED <<splitInputs, targetLimit, walking, splitTargets, splitLimitHit, walkVars>>

SplitsNext == BeginInput \/ BeginWalk \/ WalkOn \/ EndWalk \/ EndInput

SplitsSpec == SplitsInit /\ [][SplitsNext]_<<walkVars, splitVars>>

(***************************************************************************)
(* Properties                                                              *)
(***************************************************************************)
\* The folder at which a split divides folder f, if it does: one that has its prefix
\* and its depth, with nothing above it that the walk does not go into.  (The prefix
\* itself must match, and what is above it, on a local storage only.)
DividedAt(engine, split, f) ==
  {g \in Above[f] :
     /\ split.prefix \in Above[g] /\ Depth[g] = split.depth
     /\ \A h \in Above[g] \ Above[SplitStart(engine, split)] : h \in split.folderMatches}

\* The inputs before s that have no splits
Undivided(s) == {i \in 1..(s - 1) : splitInputs[i].splits = <<>>}

Covering(s, f) == {i \in DOMAIN splitTargets :
                     splitTargets[i].storage = s /\ splitTargets[i].folder \in Above[f]}

\* The files of a folder come into chunks once for each split that divides it,
\* whose depth is not 0: twice only if one prefix is within another, and not at
\* all if no split gets to them.  A limit leaves files out, and is passed by at
\* most one target for each further split of its input and for each input
\* without splits before it, whose targets are not counted when they are made.
SplitsCover ==
  /\ TasksDone /\ ~splitLimitHit =>
       \A s \in DOMAIN splitInputs : \A f \in Folders :
         LET splits == splitInputs[s].splits
             Divided(split) == DividedAt(splitInputs[s].engine, split, f) # {}
         IN  (\A i \in DOMAIN splits : Given(splits[i].depth)) =>
               Cardinality(Covering(s, f)) =
                 IF splits = <<>> THEN 1
                 ELSE Cardinality({i \in DOMAIN splits : Divided(splits[i])})
  /\ splitLimitHit =>
       LET last == splitTargets[Len(splitTargets)].storage
           further == Len(splitInputs[last].splits) - 1
       IN  Len(splitTargets) \in targetLimit..(targetLimit + Cardinality(Undivided(last)) + further)

=============================================================================
