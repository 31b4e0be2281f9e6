---------------------------- MODULE EventDispatch ----------------------------
(***************************************************************************)
(* Storage events on their way to the streaming tasks: the function        *)
(* StorageEventsQueue takes each from the storage-events queue and puts it *)
(* in Cosmos DB, and StorageEventsCF, on the change feed of that container,*)
(* sends it to the queues of the rules it matches.  Queue triggers redeliver*)
(* what raised, up to a limit; a change feed goes on behind a batch that   *)
(* raised, and reads again a batch whose host died.                        *)
(***************************************************************************)
EXTENDS Naturals, Sequences, FiniteSets

CONSTANTS
  Events,           \* storage events
  RuleQueue,        \* the queue each dispatch rule names, a sequence
  MaxEventDequeues, \* maxDequeueCount of host.json
  MaxHostFaults     \* bound: sends that raise and hosts that die in a batch

ASSUME EventAssumption ==
  /\ IsFiniteSet(Events)
  /\ DOMAIN RuleQueue = 1..Len(RuleQueue)
  /\ MaxEventDequeues \in Nat \ {0} /\ MaxHostFaults \in Nat

Rules == DOMAIN RuleQueue
EventQueues == {RuleQueue[r] : r \in Rules}

VARIABLES
  matching,     \* rules whose prefix and suffix the url of each event has
  badEvents,    \* events that StorageEventRecord does not accept
  eventTries,   \* deliveries of each event by the queue that did not end well
  waiting,      \* events in the storage-events queue
  poisoned,     \* events in its poison queue
  eventPuts,    \* puts of each event in Cosmos DB
  changedEvents, \* events changed behind the feed's checkpoint
  inDispatch,   \* the batch at hand, its head in work
  sendsLeft,    \* rules for whose queues the head has not been sent
  copies,       \* messages of each event sent to each queue
  missed,       \* events in work, or behind it, when a batch raised
  hostFaults, hostDeaths

frontVars == <<eventTries, waiting, poisoned, eventPuts>>
dispatchVars == <<inDispatch, sendsLeft, copies, missed, hostFaults, hostDeaths>>
eventVars == <<matching, badEvents, changedEvents, frontVars, dispatchVars>>

EventTypeOK ==
  /\ matching \in [Events -> SUBSET Rules] /\ badEvents \subseteq Events
  /\ eventTries \in [Events -> 0..MaxEventDequeues]
  /\ waiting \subseteq Events /\ poisoned \subseteq Events \ waiting
  /\ eventPuts \in [Events -> 0..MaxEventDequeues]
  /\ changedEvents \subseteq Events /\ inDispatch \in Seq(Events)
  /\ sendsLeft \subseteq Rules
  /\ copies \in [Events -> [EventQueues -> Nat]]
  /\ missed \subseteq Events
  /\ hostFaults \in 0..MaxHostFaults /\ hostDeaths \in 0..hostFaults

EventInit ==
  /\ matching \in [Events -> SUBSET Rules] /\ badEvents \in SUBSET Events
  /\ eventTries = [e \in Events |-> 0]
  /\ waiting = Events /\ poisoned = {}
  /\ eventPuts = [e \in Events |-> 0]
  /\ changedEvents = {} /\ inDispatch = <<>> /\ sendsLeft = {}
  /\ copies = [e \in Events |-> [q \in EventQueues |-> 0]]
  /\ missed = {} /\ hostFaults = 0 /\ hostDeaths = 0

(***************************************************************************)
(* StorageEventsQueue                                                      *)
(***************************************************************************)
EventIsPut(e) ==
  /\ e \notin badEvents
  /\ eventPuts' = [eventPuts EXCEPT ![e] = @ + 1]
  /\ changedEvents' = changedEvents \union {e}

\* The message is made visible again, or given up.
Redelivered(e) ==
  /\ eventTries' = [eventTries EXCEPT ![e] = @ + 1]
  /\ IF eventTries[e] + 1 = MaxEventDequeues
     THEN waiting' = waiting \ {e} /\ poisoned' = poisoned \union {e}
     ELSE UNCHANGED <<waiting, poisoned>>

PutEvent(e) ==
  /\ e \in waiting
  /\ EventIsPut(e)
  /\ waiting' = waiting \ {e}
  /\ UNCHANGED <<matching, badEvents, eventTries, poisoned, dispatchVars>>

PutEventUnheard(e) ==
  /\ e \in waiting
  /\ EventIsPut(e)
  /\ Redelivered(e)
  /\ UNCHANGED <<matching, badEvents, dispatchVars>>

PutEventRaises(e) ==
  /\ e \in waiting
  /\ Redelivered(e)
  /\ UNCHANGED <<matching, badEvents, changedEvents, eventPuts, dispatchVars>>

(***************************************************************************)
(* StorageEventsCF                                                         *)
(***************************************************************************)
\* Wrong version of dispatch: a queue is named once for every rule
dispatchAll(e) == matching[e]

\* The queues of an event, each by the first rule that names it.
dispatch(e) ==
  {r \in matching[e] : \A s \in matching[e] : RuleQueue[s] = RuleQueue[r] => r <= s}

InWork(batch) ==
  /\ inDispatch' = batch
  /\ sendsLeft' = IF batch = <<>> THEN {} ELSE dispatch(Head(batch))

DispatchReads ==
  /\ inDispatch = <<>> /\ changedEvents # {}
  /\ \E order \in [1..Cardinality(changedEvents) -> changedEvents] :
       changedEvents = {order[i] : i \in DOMAIN order} /\ InWork(order)
  /\ changedEvents' = {}
  /\ UNCHANGED <<matching, badEvents, frontVars, copies, missed, hostFaults, hostDeaths>>

\* Wrong version of DropEvent: an event without a queue ends the batch
DropEventReturns ==
  /\ inDispatch # <<>> /\ sendsLeft = {}
  /\ InWork(<<>>)
  /\ UNCHANGED <<matching, badEvents, changedEvents, frontVars, copies, missed, hostFaults,
                 hostDeaths>>

\* No rule matches, or all messages are sent: on with the next.
DropEvent ==
  /\ inDispatch # <<>> /\ sendsLeft = {}
  /\ InWork(Tail(inDispatch))
  /\ UNCHANGED <<matching, badEvents, changedEvents, frontVars, copies, missed, hostFaults,
                 hostDeaths>>

Send(r) ==
  /\ r \in sendsLeft
  /\ copies' = [copies EXCEPT ![Head(inDispatch)][RuleQueue[r]] = @ + 1]

SendEvent(r) ==
  /\ Send(r)
  /\ sendsLeft' = sendsLeft \ {r}
  /\ UNCHANGED <<matching, badEvents, changedEvents, frontVars, inDispatch, missed, hostFaults,
                 hostDeaths>>

\* A send raises, with its effect or without: the rest of the batch is missed.
SendRaises(r) ==
  /\ r \in sendsLeft /\ hostFaults < MaxHostFaults
  /\ Send(r) \/ UNCHANGED copies
  /\ missed' = missed \union {inDispatch[i] : i \in DOMAIN inDispatch}
  /\ InWork(<<>>)
  /\ hostFaults' = hostFaults + 1
  /\ UNCHANGED <<matching, badEvents, changedEvents, frontVars, hostDeaths>>

DispatchHostDies ==
  /\ inDispatch # <<>> /\ hostFaults < MaxHostFaults
  /\ changedEvents' = changedEvents \union {inDispatch[i] : i \in DOMAIN inDispatch}
  /\ InWork(<<>>)
  /\ hostFaults' = hostFaults + 1 /\ hostDeaths' = hostDeaths + 1
  /\ UNCHANGED <<matching, badEvents, frontVars, copies, missed>>

QueueSteps(e) == PutEvent(e) \/ PutEventUnheard(e) \/ PutEventRaises(e)

DispatchSteps ==
  \/ DispatchReads \/ DropEvent \/ DispatchHostDies
  \/ \E r \in Rules : SendEvent(r) \/ SendRaises(r)

EventNext == DispatchSteps \/ \E e \in Events : QueueSteps(e)

EventSpec == EventInit /\ [][EventNext]_eventVars

\* The functions are run while there is something in the queue or the feed.
EventFairness ==
  WF_eventVars(DispatchSteps) /\ \A e \in Events : WF_eventVars(QueueSteps(e))

(***************************************************************************)
(* Properties                                                              *)
(***************************************************************************)
\* Every event gets to every queue it matches, at least once, unless it is in
\* the poison queue or was in a batch that raised: redeliveries, hosts that
\* die and events of other rules in the same batch lose nothing.
EventsArrive ==
  \A e \in Events :
    <>[](\/ e \in poisoned \union missed
         \/ \A r \in matching[e] : copies[e][RuleQueue[r]] > 0)

\* A queue gets an event as often as it was put, and once more for every host
\* that died: never for each rule that names the queue, and never when another
\* event is redelivered.
DuplicatesExplained ==
  \A e \in Events, q \in EventQueues : copies[e][q] <= eventPuts[e] + hostDeaths

=============================================================================
