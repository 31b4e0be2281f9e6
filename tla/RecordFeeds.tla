----------------------------- MODULE RecordFeeds -----------------------------
(***************************************************************************)
(* What follows a put of a record in Cosmos DB: the triggers, which replace*)
(* the record one level up in the same transaction, and the functions on   *)
(* the change feeds, which copy a run's record to the container listed by  *)
(* workflow (WorkflowRunsCF) and a workflow's record to the container that *)
(* lists workflows (WorkflowsCF).  A document is its version: every put or *)
(* replacement makes the next.  The counters in the documents are data no  *)
(* property is about (the triggers' own comment calls them not correct).   *)
(***************************************************************************)
EXTENDS Naturals, Sequences, FiniteSets

CONSTANTS
  Runs,           \* workflow runs of one workflow
  MaxRecordPuts,  \* bound: puts of the executors and the server
  MaxFeedFaults   \* bound: hosts that die in a batch, puts that are repeated or raise

ASSUME FeedAssumption ==
  IsFiniteSet(Runs) /\ MaxRecordPuts \in Nat /\ MaxFeedFaults \in Nat

VARIABLES
  runVersion,   \* version of each run's record; 0: none yet
  flowVersion,  \* version of the workflow's record
  feedMark,     \* version of each run that the feed's checkpoint has passed
  feedBatch,    \* the batch at hand: [docs, done], the first done copied
  runCopy,      \* version of each run in the workflows container
  flowMark, flowHeld, \* checkpoint and document in hand of WorkflowsCF
  flowCopy,     \* version of the workflow in the records container
  passedOver,   \* last version of each run that an exception kept from the copy
  flowPassed,   \* the same for the workflow
  recordPuts, feedFaults

feedVars == <<feedMark, feedBatch, runCopy, passedOver>>
flowFeed == <<flowMark, flowHeld, flowCopy, flowPassed>>
flowVars == <<flowVersion, flowFeed>>
recordVars == <<runVersion, feedVars, flowVars, recordPuts, feedFaults>>

FeedItem == [run : Runs, version : Nat]
NoBatch == [docs |-> <<>>, done |-> 0]
Busy == feedBatch # NoBatch

RecordTypeOK ==
  /\ runVersion \in [Runs -> Nat] /\ flowVersion \in Nat \ {0}
  /\ feedMark \in [Runs -> Nat] /\ runCopy \in [Runs -> Nat]
  /\ \A r \in Runs : feedMark[r] <= runVersion[r] /\ runCopy[r] <= runVersion[r]
  /\ feedBatch \in [docs : Seq(FeedItem), done : Nat]
  /\ Busy => feedBatch.done < Len(feedBatch.docs)
  /\ passedOver \in [Runs -> Nat] /\ flowPassed \in Nat
  /\ flowMark \in 0..flowVersion /\ flowCopy \in 0..flowVersion /\ flowHeld \in 0..flowVersion
  /\ recordPuts \in 0..MaxRecordPuts /\ feedFaults \in 0..MaxFeedFaults

RecordInit ==
  /\ runVersion = [r \in Runs |-> 0] /\ flowVersion = 1
  /\ feedMark = [r \in Runs |-> 0] /\ runCopy = [r \in Runs |-> 0]
  /\ feedBatch = NoBatch
  /\ passedOver = [r \in Runs |-> 0] /\ flowPassed = 0
  /\ flowMark = 1 /\ flowHeld = 1 /\ flowCopy = 1
  /\ recordPuts = 0 /\ feedFaults = 0

CountPut == recordPuts < MaxRecordPuts /\ recordPuts' = recordPuts + 1
CountFault == feedFaults < MaxFeedFaults /\ feedFaults' = feedFaults + 1

(***************************************************************************)
(* Puts of records                                                         *)
(***************************************************************************)
\* submit_workflow's first put of a run's record, every later one, and every
\* put of a partition's record: its trigger replaces the run's.
PutRun(r) ==
  /\ CountPut
  /\ runVersion' = [runVersion EXCEPT ![r] = @ + 1]
  /\ UNCHANGED <<feedVars, flowVars, feedFaults>>

\* update_workflow puts a new record over the one that is there.
UpdateWorkflow ==
  /\ CountPut
  /\ flowVersion' = flowVersion + 1
  /\ UNCHANGED <<runVersion, feedVars, flowFeed, feedFaults>>

(***************************************************************************)
(* WorkflowRunsCF                                                          *)
(***************************************************************************)
ChangedRuns == {r \in Runs : runVersion[r] > feedMark[r]}

\* A batch has the latest version of each document changed since the checkpoint.
FeedReads ==
  /\ ~Busy /\ ChangedRuns # {}
  /\ \E order \in [1..Cardinality(ChangedRuns) -> ChangedRuns] :
       /\ ChangedRuns = {order[i] : i \in DOMAIN order}
       /\ feedBatch' =
            [docs |-> [i \in DOMAIN order |-> [run |-> order[i], version |-> runVersion[order[i]]]],
             done |-> 0]
  /\ UNCHANGED <<runVersion, feedMark, runCopy, passedOver, flowVars, recordPuts, feedFaults>>

InBatch(r) ==
  {feedBatch.docs[i].version : i \in {j \in DOMAIN feedBatch.docs : feedBatch.docs[j].run = r}}

\* Wrong version of Checkpoint: what changed in the meantime is passed over
CheckpointNow ==
  feedMark' = [r \in Runs |-> IF InBatch(r) = {} THEN feedMark[r] ELSE runVersion[r]]

\* The function has returned or raised: the feed goes on behind its batch.
Checkpoint ==
  feedMark' = [r \in Runs |-> IF InBatch(r) = {} THEN feedMark[r]
                              ELSE CHOOSE v \in InBatch(r) : TRUE]

\* handle_workflow_run: the put, with the trigger that counts in the workflow.
Copied(item) ==
  /\ runCopy' = [runCopy EXCEPT ![item.run] = item.version]
  /\ flowVersion' = flowVersion + 1

CopyRun ==
  /\ Busy
  /\ LET docs == feedBatch.docs
         done == feedBatch.done + 1
     IN  /\ Copied(docs[done])
         /\ IF done = Len(docs)
            THEN Checkpoint /\ feedBatch' = NoBatch
            ELSE feedBatch' = [feedBatch EXCEPT !.done = done] /\ UNCHANGED feedMark
  /\ UNCHANGED <<runVersion, passedOver, flowFeed, recordPuts, feedFaults>>

\* A put that took effect is repeated: its answer was lost.
CopyRunUnheard ==
  /\ Busy /\ CountFault
  /\ Copied(feedBatch.docs[feedBatch.done + 1])
  /\ UNCHANGED <<runVersion, feedBatch, feedMark, passedOver, flowFeed, recordPuts>>

\* An exception ends the function with the rest of the batch undone, and no
\* retry is configured.
CopyRunRaises ==
  /\ Busy /\ CountFault
  /\ Checkpoint
  /\ passedOver' = [r \in Runs |->
       IF \E i \in (feedBatch.done + 1)..Len(feedBatch.docs) : feedBatch.docs[i].run = r
       THEN feedMark'[r] ELSE passedOver[r]]
  /\ feedBatch' = NoBatch
  /\ UNCHANGED <<runVersion, runCopy, flowVars, recordPuts>>

\* The host dies: what it had is read anew from the checkpoint.
FeedHostDies ==
  /\ Busy /\ CountFault
  /\ feedBatch' = NoBatch
  /\ UNCHANGED <<runVersion, feedMark, runCopy, passedOver, flowVars, recordPuts>>

(***************************************************************************)
(* WorkflowsCF: one document, and one host                                 *)
(***************************************************************************)
FlowFeedReads ==
  /\ flowHeld <= flowMark /\ flowVersion > flowMark
  /\ flowHeld' = flowVersion
  /\ UNCHANGED <<runVersion, feedVars, flowVersion, flowMark, flowCopy, flowPassed,
                 recordPuts, feedFaults>>

\* Wrong version of CopyFlow: puts that are not awaited overtake each other
CopyFlowUnawaited ==
  /\ flowHeld > flowMark
  /\ flowCopy' \in 1..flowHeld /\ flowMark' = flowHeld
  /\ UNCHANGED <<runVersion, feedVars, flowVersion, flowHeld, flowPassed, recordPuts, feedFaults>>

CopyFlow ==
  /\ flowHeld > flowMark
  /\ flowCopy' = flowHeld /\ flowMark' = flowHeld
  /\ UNCHANGED <<runVersion, feedVars, flowVersion, flowHeld, flowPassed, recordPuts, feedFaults>>

CopyFlowRaises ==
  /\ flowHeld > flowMark /\ CountFault
  /\ flowPassed' = flowHeld /\ flowMark' = flowHeld
  /\ UNCHANGED <<runVersion, feedVars, flowVersion, flowHeld, flowCopy, recordPuts>>

FlowHostDies ==
  /\ flowHeld > flowMark /\ CountFault
  /\ flowHeld' = flowMark
  /\ UNCHANGED <<runVersion, feedVars, flowVersion, flowMark, flowCopy, flowPassed, recordPuts>>

FeedSteps == FeedReads \/ CopyRun \/ CopyRunUnheard \/ CopyRunRaises \/ FeedHostDies
FlowSteps == FlowFeedReads \/ CopyFlow \/ CopyFlowRaises \/ FlowHostDies

RecordNext ==
  \/ UpdateWorkflow \/ FeedSteps \/ FlowSteps
  \/ \E r \in Runs : PutRun(r)

RecordSpec == RecordInit /\ [][RecordNext]_recordVars

\* The feeds' hosts are scheduled.
RecordFairness == WF_recordVars(FlowSteps) /\ WF_recordVars(FeedSteps)

(***************************************************************************)
(* Properties                                                              *)
(***************************************************************************)
\* What is listed of a run or of a workflow never goes back to an earlier state
\* of it, also when hosts die and batches are read again.
CopiesGoForward ==
  [][/\ \A r \in Runs : runCopy'[r] >= runCopy[r]
     /\ flowCopy' >= flowCopy]_recordVars

\* Once the records no longer change, the lists have their last state, whatever
\* was coalesced, repeated or read again on the way, except what an exception
\* passed over; both feeds settle, though each copy of a run changes the
\* workflow's record too.
ListsCatchUp ==
  <>[](/\ \A r \in Runs : runVersion[r] \in {runCopy[r], passedOver[r]}
       /\ flowVersion \in {flowCopy, flowPassed})

=============================================================================
