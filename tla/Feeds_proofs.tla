---------------------------- MODULE Feeds_proofs ----------------------------
(***************************************************************************)
(* Storage events are copied no more than redeliveries and dead hosts      *)
(* explain, and the lists of workflows and runs never go back: for any     *)
(* number of events, rules, runs, deliveries and faults.                   *)
(***************************************************************************)
EXTENDS EventDispatch, RecordFeeds, FiniteSetTheorems, FunctionTheorems, TLAPS

-----------------------------------------------------------------------------
(* Storage events.                                                         *)

\* Whether the batch at hand has yet to send the event to the queue.
Owed(e, q) ==
  \/ \E i \in DOMAIN inDispatch : i > 1 /\ inDispatch[i] = e
  \/ inDispatch # <<>> /\ inDispatch[1] = e /\ \E r \in sendsLeft : RuleQueue[r] = q

Once(holds) == IF holds THEN 1 ELSE 0

EventTypes ==
  /\ changedEvents \subseteq Events
  /\ inDispatch \in Seq(Events)
  /\ eventPuts \in [Events -> Nat]
  /\ copies \in [Events -> [EventQueues -> Nat]]
  /\ hostDeaths \in Nat
  /\ matching \in [Events -> SUBSET Rules]

\* An event is in a batch once, and the head of the batch is sent by rules that name
\* different queues.
BatchPart ==
  /\ \A i, j \in DOMAIN inDispatch : inDispatch[i] = inDispatch[j] => i = j
  /\ sendsLeft \subseteq Rules
  /\ inDispatch # <<>> => sendsLeft \subseteq dispatch(inDispatch[1])
  /\ inDispatch = <<>> => sendsLeft = {}

\* What has been sent, and may be sent without another put or another death.
CopiesPart ==
  \A e \in Events, q \in EventQueues :
    copies[e][q] + Once(e \in changedEvents) + Once(Owed(e, q)) <= eventPuts[e] + hostDeaths

EventInv == EventTypes /\ BatchPart /\ CopiesPart

\* A queue is named by one of the rules that dispatch an event.
LEMMA DispatchNamesOnce ==
  ASSUME EventTypes, NEW e \in Events, NEW r \in dispatch(e), NEW s \in dispatch(e),
         RuleQueue[r] = RuleQueue[s]
  PROVE  r = s
<1>1. Rules \subseteq Int
  BY EventAssumption DEF Rules
<1>2. r \in Rules /\ s \in Rules /\ r <= s /\ s <= r
  BY DEF dispatch, EventTypes
<1>3. QED
  BY <1>1, <1>2

LEMMA DispatchInRules ==
  ASSUME EventTypes, NEW e \in Events
  PROVE  dispatch(e) \subseteq Rules
  BY DEF dispatch, EventTypes

\* A batch of distinct events, with what InWork leaves to send of its head.
LEMMA InWorkBatch ==
  ASSUME EventTypes, NEW batch \in Seq(Events), InWork(batch), UNCHANGED matching,
         \A i, j \in DOMAIN batch : batch[i] = batch[j] => i = j
  PROVE  BatchPart' /\ inDispatch' \in Seq(Events)
<1>1. inDispatch' = batch /\ sendsLeft' = IF batch = <<>> THEN {} ELSE dispatch(batch[1])
  BY DEF InWork
<1>2. batch # <<>> => batch[1] \in Events
  OBVIOUS
<1>3. batch # <<>> => sendsLeft' \subseteq Rules
  BY <1>1, <1>2, DispatchInRules
<1>4. \A e : dispatch(e)' = dispatch(e)
  BY DEF dispatch, Rules
<1>5. QED
  BY <1>1, <1>3, <1>4 DEF BatchPart

LEMMA InWorkNothing ==
  ASSUME InWork(<<>>)
  PROVE  BatchPart' /\ inDispatch' \in Seq(Events) /\ inDispatch' = <<>>
<1>1. inDispatch' = <<>> /\ sendsLeft' = {}
  BY DEF InWork
<1>2. QED
  BY <1>1 DEF BatchPart

\* Nothing is owed by an empty batch.
LEMMA EmptyOwesNothing ==
  ASSUME inDispatch = <<>>, NEW e, NEW q
  PROVE  ~Owed(e, q)
  BY DEF Owed

LEMMA EventInvInit ==
  ASSUME EventInit
  PROVE  EventInv
<1>1. EventTypes /\ BatchPart
  BY DEF EventInit, EventTypes, BatchPart
<1>2. CopiesPart
  <2> SUFFICES ASSUME NEW e \in Events, NEW q \in EventQueues
               PROVE  copies[e][q] + Once(e \in changedEvents) + Once(Owed(e, q))
                        <= eventPuts[e] + hostDeaths
    BY DEF CopiesPart
  <2>1. ~Owed(e, q) /\ e \notin changedEvents
    BY EmptyOwesNothing DEF EventInit
  <2>2. QED
    BY <2>1 DEF EventInit, Once
<1>3. QED
  BY <1>1, <1>2 DEF EventInv

\* A step that leaves the batch alone keeps what it owes.
LEMMA OwedKept ==
  ASSUME UNCHANGED <<inDispatch, sendsLeft>>, NEW e, NEW q
  PROVE  Owed(e, q)' = Owed(e, q)
  BY DEF Owed

LEMMA EventInvQueue ==
  ASSUME EventInv, NEW x \in Events, QueueSteps(x)
  PROVE  EventInv'
<1>1. UNCHANGED <<inDispatch, sendsLeft, copies, hostDeaths, matching>>
  BY DEF QueueSteps, PutEvent, PutEventUnheard, PutEventRaises, dispatchVars
<1>2. BatchPart'
  BY <1>1 DEF EventInv, BatchPart, dispatch, Rules
<1>3. CASE EventIsPut(x)
  <2>1. EventTypes'
    BY <1>1, <1>3 DEF EventInv, EventTypes, EventIsPut
  <2>2. ASSUME NEW e \in Events, NEW q \in EventQueues
        PROVE  copies'[e][q] + Once(e \in changedEvents)' + Once(Owed(e, q))'
                 <= eventPuts'[e] + hostDeaths'
    <3>1. Owed(e, q)' = Owed(e, q)
      BY <1>1, OwedKept
    <3>2. /\ copies[e][q] \in Nat /\ eventPuts[e] \in Nat /\ hostDeaths \in Nat
          /\ copies[e][q] + Once(e \in changedEvents) + Once(Owed(e, q)) <= eventPuts[e] + hostDeaths
      BY DEF EventInv, EventTypes, CopiesPart
    <3>3. eventPuts' = [eventPuts EXCEPT ![x] = eventPuts[x] + 1] /\ changedEvents' = changedEvents \union {x}
      BY <1>3 DEF EventIsPut
    <3>4. CASE e = x
      <4>1. eventPuts'[e] = eventPuts[e] + 1
        BY <3>3, <3>4 DEF EventInv, EventTypes
      <4>2. QED
        BY <1>1, <3>1, <3>2, <4>1 DEF Once
    <3>5. CASE e # x
      <4>1. eventPuts'[e] = eventPuts[e] /\ (e \in changedEvents' <=> e \in changedEvents)
        BY <3>3, <3>5 DEF EventInv, EventTypes
      <4>2. QED
        BY <1>1, <3>1, <3>2, <4>1 DEF Once
    <3>6. QED
      BY <3>4, <3>5
  <2>3. QED
    BY <1>2, <2>1, <2>2 DEF EventInv, CopiesPart
<1>4. CASE UNCHANGED <<changedEvents, eventPuts>>
  BY <1>1, <1>2, <1>4, OwedKept DEF EventInv, EventTypes, CopiesPart
<1>5. QED
  BY <1>3, <1>4 DEF QueueSteps, PutEvent, PutEventUnheard, PutEventRaises

\* A step of the change feed keeps the sum if it changes the three numbers so.
LEMMA CopiesKept ==
  ASSUME EventInv, EventTypes', UNCHANGED eventPuts,
         \A e \in Events, q \in EventQueues :
           copies'[e][q] + Once(e \in changedEvents)' + Once(Owed(e, q))' + hostDeaths
             <= copies[e][q] + Once(e \in changedEvents) + Once(Owed(e, q)) + hostDeaths'
  PROVE  CopiesPart'
<1> SUFFICES ASSUME NEW e \in Events, NEW q \in EventQueues
             PROVE  copies'[e][q] + Once(e \in changedEvents)' + Once(Owed(e, q))'
                      <= eventPuts'[e] + hostDeaths'
  BY DEF CopiesPart
<1>1. /\ copies[e][q] \in Nat /\ copies'[e][q] \in Nat /\ eventPuts[e] \in Nat
      /\ hostDeaths \in Nat /\ hostDeaths' \in Nat
  BY DEF EventInv, EventTypes
<1>2. copies[e][q] + Once(e \in changedEvents) + Once(Owed(e, q)) <= eventPuts[e] + hostDeaths
  BY DEF EventInv, CopiesPart
<1>3. /\ Once(e \in changedEvents) \in Nat /\ Once(e \in changedEvents)' \in Nat
      /\ Once(Owed(e, q)) \in Nat /\ Once(Owed(e, q))' \in Nat
  BY DEF Once
<1>4. copies'[e][q] + Once(e \in changedEvents)' + Once(Owed(e, q))' + hostDeaths
        <= copies[e][q] + Once(e \in changedEvents) + Once(Owed(e, q)) + hostDeaths'
  OBVIOUS
<1>5. eventPuts'[e] = eventPuts[e]
  OBVIOUS
<1>6. QED
  BY <1>1, <1>2, <1>3, <1>4, <1>5

LEMMA EventInvReads ==
  ASSUME EventInv, DispatchReads
  PROVE  EventInv'
<1>1. PICK order \in [1..Cardinality(changedEvents) -> changedEvents] :
        changedEvents = {order[i] : i \in DOMAIN order} /\ InWork(order)
  BY DEF DispatchReads
<1>2. /\ inDispatch = <<>> /\ changedEvents' = {}
      /\ UNCHANGED <<matching, eventPuts, copies, hostDeaths>>
  BY DEF DispatchReads, frontVars
<1>3. IsFiniteSet(changedEvents) /\ changedEvents \subseteq Events
  BY EventAssumption, FS_Subset DEF EventInv, EventTypes
<1> DEFINE n == Cardinality(changedEvents)
<1>4. n \in Nat
  BY <1>3, FS_CardinalityType
<1>5. order \in Seq(Events) /\ DOMAIN order = 1..n
  BY <1>1, <1>3, <1>4
<1>6. \A i, j \in DOMAIN order : order[i] = order[j] => i = j
  <2>1. IsFiniteSet(1..n) /\ Cardinality(1..n) = n
    BY <1>4, FS_Interval
  <2>2. order \in Surjection(1..n, changedEvents)
    BY <1>1 DEF Surjection
  <2>3. order \in Injection(1..n, changedEvents)
    BY <2>1, <2>2, FS_SurjSameCardinalityImpliesInj
  <2>4. QED
    BY <1>5, <2>3 DEF Injection, IsInjective
<1>7. EventTypes /\ BatchPart' /\ inDispatch' \in Seq(Events)
  BY <1>1, <1>2, <1>5, <1>6, InWorkBatch DEF EventInv
<1>8. EventTypes'
  BY <1>2, <1>7 DEF EventTypes
<1>9. ASSUME NEW e \in Events, NEW q \in EventQueues
      PROVE  copies'[e][q] + Once(e \in changedEvents)' + Once(Owed(e, q))' + hostDeaths
               <= copies[e][q] + Once(e \in changedEvents) + Once(Owed(e, q)) + hostDeaths'
  <2>1. Owed(e, q)' => e \in changedEvents
    <3>1. inDispatch' = order
      BY <1>1 DEF InWork
    <3>2. \A i \in DOMAIN order : order[i] \in changedEvents
      BY <1>1
    <3>3. order # <<>> => 1 \in DOMAIN order
      BY <1>4, <1>5
    <3>4. QED
      BY <3>1, <3>2, <3>3 DEF Owed
  <2>2. copies[e][q] \in Nat /\ hostDeaths \in Nat
    BY DEF EventInv, EventTypes
  <2>3. Once(e \in changedEvents)' = 0 /\ ~Owed(e, q)
    BY <1>2, EmptyOwesNothing DEF Once
  <2>4. Once(Owed(e, q))' <= Once(e \in changedEvents) /\ Once(Owed(e, q))' \in Nat
          /\ Once(e \in changedEvents) \in Nat
    BY <2>1 DEF Once
  <2>5. QED
    BY <1>2, <2>2, <2>3, <2>4 DEF Once
<1>10. QED
  BY <1>2, <1>7, <1>8, <1>9, CopiesKept DEF EventInv

LEMMA EventInvDrop ==
  ASSUME EventInv, DropEvent
  PROVE  EventInv'
<1> DEFINE rest == Tail(inDispatch)
<1>1. /\ inDispatch # <<>> /\ InWork(rest)
      /\ UNCHANGED <<matching, changedEvents, eventPuts, copies, hostDeaths>>
  BY DEF DropEvent, frontVars
<1>2. inDispatch \in Seq(Events) /\ Len(inDispatch) \in Nat \ {0}
  BY <1>1 DEF EventInv, EventTypes
<1>3. /\ rest \in Seq(Events) /\ DOMAIN rest = 1..(Len(inDispatch) - 1)
      /\ \A i \in DOMAIN rest : i + 1 \in DOMAIN inDispatch /\ rest[i] = inDispatch[i + 1]
  BY <1>1, <1>2
<1>4. \A i, j \in DOMAIN rest : rest[i] = rest[j] => i = j
  <2>1. \A i, j \in DOMAIN inDispatch : inDispatch[i] = inDispatch[j] => i = j
    BY DEF EventInv, BatchPart
  <2>2. \A i \in DOMAIN rest : i \in Int
    BY <1>2, <1>3
  <2>3. QED
    BY <1>3, <2>1, <2>2
<1>5. BatchPart' /\ inDispatch' \in Seq(Events)
  BY <1>1, <1>3, <1>4, InWorkBatch DEF EventInv
<1>6. EventTypes'
  BY <1>1, <1>5 DEF EventInv, EventTypes
<1>7. ASSUME NEW e \in Events, NEW q \in EventQueues
      PROVE  copies'[e][q] + Once(e \in changedEvents)' + Once(Owed(e, q))' + hostDeaths
               <= copies[e][q] + Once(e \in changedEvents) + Once(Owed(e, q)) + hostDeaths'
  <2>1. Owed(e, q)' => Owed(e, q)
    <3>1. inDispatch' = rest
      BY <1>1 DEF InWork
    <3>2. ASSUME Owed(e, q)'
          PROVE  \E i \in DOMAIN rest : rest[i] = e
      <4>1. rest # <<>> => 1 \in DOMAIN rest
        BY <1>2, <1>3
      <4>2. QED
        BY <3>1, <3>2, <4>1 DEF Owed
    <3>3. ASSUME NEW i \in DOMAIN rest, rest[i] = e
          PROVE  Owed(e, q)
      <4>1. i + 1 > 1 /\ i + 1 \in DOMAIN inDispatch /\ inDispatch[i + 1] = e
        BY <1>2, <1>3, <3>3
      <4>2. QED
        BY <4>1 DEF Owed
    <3>4. QED
      BY <3>2, <3>3
  <2>2. copies[e][q] \in Nat /\ hostDeaths \in Nat
    BY DEF EventInv, EventTypes
  <2>3. Once(e \in changedEvents)' = Once(e \in changedEvents) /\ Once(e \in changedEvents) \in Nat
    BY <1>1 DEF Once
  <2>4. Once(Owed(e, q))' <= Once(Owed(e, q)) /\ Once(Owed(e, q))' \in Nat /\ Once(Owed(e, q)) \in Nat
    BY <2>1 DEF Once
  <2>5. QED
    BY <1>1, <2>2, <2>3, <2>4
<1>8. QED
  BY <1>1, <1>5, <1>6, <1>7, CopiesKept DEF EventInv

\* The event whose head of the batch is sent by r is owed to r's queue, and to no other
\* queue less than before, once r is crossed off.
LEMMA HeadOwed ==
  ASSUME EventInv, NEW r \in sendsLeft
  PROVE  /\ inDispatch # <<>> /\ inDispatch[1] \in Events /\ RuleQueue[r] \in EventQueues
         /\ Owed(inDispatch[1], RuleQueue[r])
<1>1. inDispatch # <<>> /\ inDispatch \in Seq(Events) /\ r \in Rules
  BY DEF EventInv, BatchPart, EventTypes
<1>2. QED
  BY <1>1 DEF Owed, EventQueues

\* One message more to the queue of r, if it is sent.
LEMMA SendCopies ==
  ASSUME EventInv, NEW r \in sendsLeft, Send(r)
  PROVE  /\ copies' \in [Events -> [EventQueues -> Nat]]
         /\ \A e \in Events, q \in EventQueues :
              copies'[e][q] = IF e = inDispatch[1] /\ q = RuleQueue[r] THEN copies[e][q] + 1 ELSE copies[e][q]
<1>1. inDispatch # <<>> /\ inDispatch[1] \in Events /\ RuleQueue[r] \in EventQueues
  BY HeadOwed
<1>2. copies \in [Events -> [EventQueues -> Nat]]
  BY DEF EventInv, EventTypes
<1> DEFINE h == inDispatch[1]
           q0 == RuleQueue[r]
           row == [copies[h] EXCEPT ![q0] = copies[h][q0] + 1]
<1>3. copies' = [copies EXCEPT ![h] = row]
  BY <1>1 DEF Send
<1>4. row \in [EventQueues -> Nat]
  BY <1>1, <1>2
<1>5. copies'[h] = row /\ \A e \in Events : e # h => copies'[e] = copies[e]
  BY <1>1, <1>2, <1>3
<1>6. \A q \in EventQueues : row[q] = IF q = q0 THEN copies[h][q] + 1 ELSE copies[h][q]
  BY <1>1, <1>2
<1>7. copies' \in [Events -> [EventQueues -> Nat]]
  <2> HIDE DEF row
  <2> QED
    BY <1>1, <1>2, <1>3, <1>4
<1>8. QED
  <2> HIDE DEF row
  <2> QED
    BY <1>1, <1>5, <1>6, <1>7

LEMMA EventInvSend ==
  ASSUME EventInv, NEW r \in Rules, SendEvent(r)
  PROVE  EventInv'
<1>1. /\ r \in sendsLeft /\ Send(r) /\ sendsLeft' = sendsLeft \ {r}
      /\ UNCHANGED <<matching, changedEvents, eventPuts, inDispatch, hostDeaths>>
  BY DEF SendEvent, Send, frontVars
<1>2. EventTypes'
  BY <1>1, SendCopies DEF EventInv, EventTypes
<1>3. BatchPart'
  BY <1>1 DEF EventInv, BatchPart, dispatch, Rules
<1>4. ASSUME NEW e \in Events, NEW q \in EventQueues
      PROVE  copies'[e][q] + Once(e \in changedEvents)' + Once(Owed(e, q))' + hostDeaths
               <= copies[e][q] + Once(e \in changedEvents) + Once(Owed(e, q)) + hostDeaths'
  <2>1. copies[e][q] \in Nat /\ hostDeaths \in Nat
    BY DEF EventInv, EventTypes
  <2>2. Once(e \in changedEvents)' = Once(e \in changedEvents) /\ Once(e \in changedEvents) \in Nat
    BY <1>1 DEF Once
  <2>3. Owed(e, q)' => Owed(e, q)
    BY <1>1 DEF Owed
  <2>4. CASE e = inDispatch[1] /\ q = RuleQueue[r]
    <3>1. Owed(e, q)
      BY <1>1, <2>4, HeadOwed
    <3>2. \A s \in sendsLeft : RuleQueue[s] = q => s = r
      <4>1. inDispatch # <<>> /\ sendsLeft \subseteq dispatch(inDispatch[1]) /\ EventTypes
        BY <1>1, HeadOwed DEF EventInv, BatchPart
      <4>2. QED
        BY <1>1, <2>4, <4>1, DispatchNamesOnce
    <3>3. \A i \in DOMAIN inDispatch : inDispatch[i] = e => i = 1
      <4>1. inDispatch # <<>> /\ inDispatch \in Seq(Events)
        BY <1>1, HeadOwed DEF EventInv, EventTypes
      <4>2. 1 \in DOMAIN inDispatch
        BY <4>1
      <4>3. QED
        BY <2>4, <4>2 DEF EventInv, BatchPart
    <3>4. ~Owed(e, q)'
      BY <1>1, <3>2, <3>3 DEF Owed
    <3>5. copies'[e][q] = copies[e][q] + 1
      BY <1>1, <2>4, SendCopies
    <3>6. Once(Owed(e, q))' = 0 /\ Once(Owed(e, q)) = 1
      BY <3>1, <3>4 DEF Once
    <3>7. QED
      BY <1>1, <2>1, <2>2, <3>5, <3>6
  <2>5. CASE ~(e = inDispatch[1] /\ q = RuleQueue[r])
    <3>1. copies'[e][q] = copies[e][q]
      BY <1>1, <2>5, SendCopies
    <3>2. Once(Owed(e, q))' <= Once(Owed(e, q)) /\ Once(Owed(e, q))' \in Nat /\ Once(Owed(e, q)) \in Nat
      BY <2>3 DEF Once
    <3>3. QED
      BY <1>1, <2>1, <2>2, <3>1, <3>2
  <2>6. QED
    BY <2>4, <2>5
<1>5. QED
  BY <1>1, <1>2, <1>3, <1>4, CopiesKept DEF EventInv

LEMMA EventInvRaises ==
  ASSUME EventInv, NEW r \in Rules, SendRaises(r)
  PROVE  EventInv'
<1>1. /\ r \in sendsLeft
      /\ Send(r) \/ UNCHANGED copies
      /\ InWork(<<>>) /\ UNCHANGED <<matching, changedEvents, eventPuts, hostDeaths>>
  BY DEF SendRaises, frontVars
<1>2. r \in sendsLeft /\ EventTypes
  BY DEF SendRaises, EventInv
<1>3. BatchPart' /\ inDispatch' \in Seq(Events) /\ inDispatch' = <<>>
  BY <1>1, InWorkNothing
<1>4. EventTypes'
  BY <1>1, <1>2, <1>3, SendCopies DEF EventTypes
<1>5. ASSUME NEW e \in Events, NEW q \in EventQueues
      PROVE  copies'[e][q] + Once(e \in changedEvents)' + Once(Owed(e, q))' + hostDeaths
               <= copies[e][q] + Once(e \in changedEvents) + Once(Owed(e, q)) + hostDeaths'
  <2>1. copies[e][q] \in Nat /\ hostDeaths \in Nat
    BY DEF EventInv, EventTypes
  <2>2. Once(e \in changedEvents)' = Once(e \in changedEvents) /\ Once(e \in changedEvents) \in Nat
    BY <1>1 DEF Once
  <2>3. Once(Owed(e, q))' = 0
    BY <1>3 DEF Once, Owed
  <2>4. copies'[e][q] <= copies[e][q] + Once(Owed(e, q)) /\ copies'[e][q] \in Nat
    BY <1>1, <1>2, <2>1, SendCopies, HeadOwed DEF Once
  <2>5. Once(Owed(e, q)) \in Nat
    BY DEF Once
  <2>6. QED
    BY <1>1, <2>1, <2>2, <2>3, <2>4, <2>5
<1>6. QED
  BY <1>1, <1>3, <1>4, <1>5, CopiesKept DEF EventInv

LEMMA EventInvDies ==
  ASSUME EventInv, DispatchHostDies
  PROVE  EventInv'
<1>1. /\ changedEvents' = changedEvents \union {inDispatch[i] : i \in DOMAIN inDispatch}
      /\ InWork(<<>>) /\ hostDeaths' = hostDeaths + 1 /\ UNCHANGED <<matching, eventPuts, copies>>
  BY DEF DispatchHostDies, frontVars
<1>2. EventTypes /\ changedEvents' \subseteq Events
  BY <1>1 DEF EventInv, EventTypes
<1>3. BatchPart' /\ inDispatch' \in Seq(Events) /\ inDispatch' = <<>>
  BY <1>1, InWorkNothing
<1>4. EventTypes'
  BY <1>1, <1>2, <1>3 DEF EventTypes
<1>5. ASSUME NEW e \in Events, NEW q \in EventQueues
      PROVE  copies'[e][q] + Once(e \in changedEvents)' + Once(Owed(e, q))' + hostDeaths
               <= copies[e][q] + Once(e \in changedEvents) + Once(Owed(e, q)) + hostDeaths'
  <2>1. copies[e][q] \in Nat /\ hostDeaths \in Nat
    BY <1>2 DEF EventTypes
  <2>2. Once(Owed(e, q))' = 0
    BY <1>3 DEF Once, Owed
  <2>3. Once(Owed(e, q)) \in {0, 1} /\ Once(e \in changedEvents) \in {0, 1} /\ Once(e \in changedEvents)' \in {0, 1}
    BY DEF Once
  <2>4. QED
    BY <1>1, <2>1, <2>2, <2>3
<1>6. QED
  BY <1>1, <1>3, <1>4, <1>5, CopiesKept DEF EventInv

\* What the copies of an event are owed to holds all the time, under any deaths of hosts.
THEOREM EventInvInvariant == EventSpec => []EventInv
<1>1. EventInv /\ [EventNext]_eventVars => EventInv'
  <2>1. ASSUME EventInv, UNCHANGED eventVars
        PROVE  EventInv'
    <3>1. UNCHANGED <<inDispatch, sendsLeft, changedEvents, eventPuts, copies, hostDeaths, matching>>
      BY <2>1 DEF eventVars, frontVars, dispatchVars
    <3>2. QED
      BY <2>1, <3>1, OwedKept DEF EventInv, EventTypes, BatchPart, CopiesPart, dispatch, Rules
  <2>2. QED
    BY <2>1, EventInvQueue, EventInvReads, EventInvDrop, EventInvSend, EventInvRaises, EventInvDies
       DEF EventNext, DispatchSteps
<1>2. QED
  BY EventInvInit, <1>1, PTL DEF EventSpec

\* A queue gets no more copies of an event than the event was put and hosts died:
\* not one for each rule that names it, and none for a redelivery of another event.
THEOREM CopiesAreExplained == EventSpec => []DuplicatesExplained
<1>1. ASSUME EventInv
      PROVE  DuplicatesExplained
  <2> SUFFICES ASSUME NEW e \in Events, NEW q \in EventQueues
               PROVE  copies[e][q] <= eventPuts[e] + hostDeaths
    BY DEF DuplicatesExplained
  <2>1. /\ copies[e][q] \in Nat /\ eventPuts[e] \in Nat /\ hostDeaths \in Nat
        /\ copies[e][q] + Once(e \in changedEvents) + Once(Owed(e, q)) <= eventPuts[e] + hostDeaths
    BY <1>1 DEF EventInv, EventTypes, CopiesPart
  <2>2. QED
    BY <2>1 DEF Once
<1>2. QED
  BY EventInvInvariant, <1>1, PTL

-----------------------------------------------------------------------------
(* The change feeds of the records.                                        *)

\* The items of a batch are no older than the copies and no newer than the records, and
\* those of the same run are of the same version.
BatchItems ==
  /\ feedBatch \in [docs : Seq(FeedItem), done : Nat]
  /\ Busy => feedBatch.done < Len(feedBatch.docs)
  /\ \A i, j \in DOMAIN feedBatch.docs :
       feedBatch.docs[i].run = feedBatch.docs[j].run =>
         feedBatch.docs[i].version = feedBatch.docs[j].version
  /\ \A i \in DOMAIN feedBatch.docs :
       /\ runCopy[feedBatch.docs[i].run] <= feedBatch.docs[i].version
       /\ feedBatch.docs[i].version <= runVersion[feedBatch.docs[i].run]

RunCopies ==
  /\ runVersion \in [Runs -> Nat] /\ runCopy \in [Runs -> Nat]
  /\ \A r \in Runs : runCopy[r] <= runVersion[r]

FlowCopies ==
  /\ flowVersion \in Nat /\ flowMark \in Nat /\ flowHeld \in Nat /\ flowCopy \in Nat
  /\ flowCopy <= flowMark /\ flowMark <= flowVersion /\ flowHeld <= flowVersion

FeedInv == RunCopies /\ BatchItems /\ FlowCopies

LEMMA ItemTypes ==
  ASSUME BatchItems, NEW i \in DOMAIN feedBatch.docs
  PROVE  feedBatch.docs[i].run \in Runs /\ feedBatch.docs[i].version \in Nat
<1>1. feedBatch.docs \in Seq(FeedItem)
  BY DEF BatchItems
<1>2. feedBatch.docs[i] \in FeedItem
  BY <1>1
<1>3. QED
  BY <1>2 DEF FeedItem

\* An empty batch.
LEMMA NoBatchItems ==
  ASSUME feedBatch' = NoBatch
  PROVE  BatchItems'
<1>1. feedBatch'.docs = <<>> /\ feedBatch' \in [docs : Seq(FeedItem), done : Nat] /\ ~Busy'
  BY DEF NoBatch, Busy
<1>2. QED
  BY <1>1 DEF BatchItems

LEMMA FeedInvInit ==
  ASSUME RecordInit
  PROVE  FeedInv
<1>1. feedBatch = NoBatch /\ NoBatch \in [docs : Seq(FeedItem), done : Nat] /\ NoBatch.docs = <<>>
  BY DEF RecordInit, NoBatch
<1>2. QED
  BY <1>1 DEF RecordInit, FeedInv, RunCopies, BatchItems, FlowCopies, Busy

LEMMA FeedInvPut ==
  ASSUME FeedInv, NEW r \in Runs, PutRun(r)
  PROVE  FeedInv'
<1>1. /\ runVersion' = [runVersion EXCEPT ![r] = runVersion[r] + 1]
      /\ UNCHANGED <<feedBatch, runCopy, flowVersion, flowMark, flowHeld, flowCopy>>
  BY DEF PutRun, feedVars, flowVars, flowFeed
<1>2. RunCopies'
  BY <1>1 DEF FeedInv, RunCopies
<1>3. \A s \in Runs : runVersion[s] <= runVersion'[s] /\ runVersion[s] \in Nat /\ runVersion'[s] \in Nat
  BY <1>1 DEF FeedInv, RunCopies
<1>4. BatchItems'
  <2>1. \A i \in DOMAIN feedBatch.docs : feedBatch.docs[i].run \in Runs /\ feedBatch.docs[i].version \in Nat
    BY ItemTypes DEF FeedInv
  <2>2. \A i \in DOMAIN feedBatch.docs : feedBatch.docs[i].version <= runVersion'[feedBatch.docs[i].run]
    BY <1>3, <2>1 DEF FeedInv, BatchItems
  <2>3. QED
    BY <1>1, <2>2 DEF FeedInv, BatchItems, Busy
<1>5. QED
  BY <1>1, <1>2, <1>4 DEF FeedInv, FlowCopies

LEMMA FeedInvReads ==
  ASSUME FeedInv, FeedReads
  PROVE  FeedInv'
<1>1. PICK order \in [1..Cardinality(ChangedRuns) -> ChangedRuns] :
        feedBatch' =
          [docs |-> [i \in DOMAIN order |-> [run |-> order[i], version |-> runVersion[order[i]]]],
           done |-> 0]
        /\ ChangedRuns = {order[i] : i \in DOMAIN order} 
  BY DEF FeedReads
<1>2. /\ ChangedRuns # {}
      /\ UNCHANGED <<runVersion, runCopy, flowVersion, flowMark, flowHeld, flowCopy>>
  BY DEF FeedReads, flowVars, flowFeed
<1> DEFINE n == Cardinality(ChangedRuns)
           docs == [i \in 1..n |-> [run |-> order[i], version |-> runVersion[order[i]]]]
<1>3. n \in Nat /\ IsFiniteSet(ChangedRuns)
  BY FeedAssumption, FS_Subset, FS_CardinalityType DEF ChangedRuns
<1>4. n > 0
  BY <1>2, <1>3, FS_EmptySet
<1>5. \A i \in 1..n : order[i] \in Runs /\ runVersion[order[i]] \in Nat
  BY <1>1 DEF ChangedRuns, FeedInv, RunCopies
<1>6. feedBatch' = [docs |-> docs, done |-> 0]
  BY <1>1
<1>7. \A i \in 1..n : docs[i] = [run |-> order[i], version |-> runVersion[order[i]]] /\ docs[i] \in FeedItem
  BY <1>5 DEF FeedItem
<1>8. docs \in Seq(FeedItem) /\ Len(docs) = n /\ DOMAIN docs = 1..n
  BY <1>3, <1>7
<1>9. \A i \in 1..n : docs[i].run = order[i] /\ docs[i].version = runVersion[order[i]]
  BY <1>7
<1> HIDE DEF docs, n
<1>10. feedBatch'.docs = docs /\ feedBatch'.done = 0 /\ feedBatch' \in [docs : Seq(FeedItem), done : Nat]
  BY <1>6, <1>8
<1>11. /\ \A i, j \in DOMAIN docs : docs[i].run = docs[j].run => docs[i].version = docs[j].version
       /\ \A i \in DOMAIN docs : runCopy'[docs[i].run] <= docs[i].version /\ docs[i].version <= runVersion'[docs[i].run]
  <2>1. \A s \in Runs : runCopy[s] <= runVersion[s] /\ runVersion[s] \in Nat
    BY DEF FeedInv, RunCopies
  <2>2. QED
    BY <1>2, <1>5, <1>8, <1>9, <2>1
<1>12. BatchItems'
  BY <1>4, <1>8, <1>10, <1>11 DEF BatchItems
<1>13. QED
  BY <1>2, <1>12 DEF FeedInv, RunCopies, FlowCopies

\* The next item of the batch.
LEMMA NextItem ==
  ASSUME FeedInv, Busy
  PROVE  LET item == feedBatch.docs[feedBatch.done + 1]
         IN  /\ feedBatch.done + 1 \in DOMAIN feedBatch.docs
             /\ item.run \in Runs /\ item.version \in Nat
             /\ runCopy[item.run] <= item.version /\ item.version <= runVersion[item.run]
<1>1. /\ feedBatch.docs \in Seq(FeedItem) /\ feedBatch.done \in Nat
      /\ feedBatch.done < Len(feedBatch.docs)
  BY DEF FeedInv, BatchItems
<1>2. feedBatch.done + 1 \in DOMAIN feedBatch.docs
  BY <1>1
<1>3. feedBatch.docs[feedBatch.done + 1] \in FeedItem
  BY <1>1, <1>2
<1>4. QED
  BY <1>2, <1>3 DEF FeedInv, BatchItems, FeedItem

\* Copying it keeps the batch as good as it was, and raises the copy.
LEMMA CopiedKeeps ==
  ASSUME FeedInv, Busy, Copied(feedBatch.docs[feedBatch.done + 1]), UNCHANGED runVersion
  PROVE  /\ RunCopies'
         /\ \A r \in Runs : runCopy'[r] >= runCopy[r]
         /\ \A i \in DOMAIN feedBatch.docs :
              /\ runCopy'[feedBatch.docs[i].run] <= feedBatch.docs[i].version
              /\ feedBatch.docs[i].version <= runVersion'[feedBatch.docs[i].run]
<1> DEFINE k == feedBatch.done + 1
           item == feedBatch.docs[k]
<1>1. /\ k \in DOMAIN feedBatch.docs /\ item.run \in Runs /\ item.version \in Nat
      /\ runCopy[item.run] <= item.version /\ item.version <= runVersion[item.run]
  BY NextItem
<1>2. runCopy' = [runCopy EXCEPT ![item.run] = item.version]
  BY DEF Copied
<1>3. runVersion \in [Runs -> Nat] /\ runCopy \in [Runs -> Nat] /\ \A r \in Runs : runCopy[r] <= runVersion[r]
  BY DEF FeedInv, RunCopies
<1>4. \A r \in Runs : runCopy'[r] = IF r = item.run THEN item.version ELSE runCopy[r]
  <2> HIDE DEF item
  <2> QED
    BY <1>1, <1>2, <1>3
<1>5. runCopy' \in [Runs -> Nat]
  <2> HIDE DEF item
  <2> QED
    BY <1>1, <1>2, <1>3
<1>6. RunCopies'
  <2> HIDE DEF item
  <2> QED
    BY <1>1, <1>3, <1>4, <1>5 DEF RunCopies
<1>7. \A r \in Runs : runCopy'[r] >= runCopy[r]
  <2> HIDE DEF item
  <2> QED
    BY <1>1, <1>3, <1>4
<1>8. ASSUME NEW i \in DOMAIN feedBatch.docs
      PROVE  /\ runCopy'[feedBatch.docs[i].run] <= feedBatch.docs[i].version
             /\ feedBatch.docs[i].version <= runVersion'[feedBatch.docs[i].run]
  <2>1. feedBatch.docs[i].run \in Runs /\ feedBatch.docs[i].version \in Nat
    BY ItemTypes DEF FeedInv
  <2>2. /\ runCopy[feedBatch.docs[i].run] <= feedBatch.docs[i].version
        /\ feedBatch.docs[i].version <= runVersion[feedBatch.docs[i].run]
        /\ feedBatch.docs[i].run = item.run => feedBatch.docs[i].version = item.version
    BY <1>1 DEF FeedInv, BatchItems
  <2>3. QED
    <3> HIDE DEF item
    <3> QED
      BY <1>4, <2>1, <2>2
<1>9. QED
  BY <1>6, <1>7, <1>8

LEMMA FeedInvCopy ==
  ASSUME FeedInv, CopyRun \/ CopyRunUnheard
  PROVE  FeedInv' /\ \A r \in Runs : runCopy'[r] >= runCopy[r]
<1>1. /\ Busy /\ Copied(feedBatch.docs[feedBatch.done + 1])
      /\ UNCHANGED <<runVersion, flowMark, flowHeld, flowCopy>> /\ flowVersion' = flowVersion + 1
  BY DEF CopyRun, CopyRunUnheard, flowFeed, Copied
<1>2. /\ feedBatch \in [docs : Seq(FeedItem), done : Nat] /\ feedBatch.done + 1 \in DOMAIN feedBatch.docs
  BY <1>1, NextItem DEF FeedInv, BatchItems
<1>3. BatchItems'
  <2>1. CASE feedBatch' = NoBatch
    BY <2>1, NoBatchItems
  <2>2. CASE UNCHANGED feedBatch
    BY <1>1, <2>2, CopiedKeeps DEF FeedInv, BatchItems, Busy
  <2>3. CASE /\ feedBatch' = [feedBatch EXCEPT !.done = feedBatch.done + 1]
             /\ feedBatch.done + 1 # Len(feedBatch.docs)
    <3>1. /\ feedBatch'.docs = feedBatch.docs /\ feedBatch'.done = feedBatch.done + 1
          /\ feedBatch' \in [docs : Seq(FeedItem), done : Nat]
      BY <1>2, <2>3
    <3>2. feedBatch.done + 1 < Len(feedBatch.docs)
      BY <1>2, <2>3
    <3>3. QED
      BY <1>1, <3>1, <3>2, CopiedKeeps DEF FeedInv, BatchItems
  <2>4. QED
    BY <2>1, <2>2, <2>3 DEF CopyRun, CopyRunUnheard
<1>4. FlowCopies'
  BY <1>1 DEF FeedInv, FlowCopies
<1>5. QED
  BY <1>1, <1>3, <1>4, CopiedKeeps DEF FeedInv

LEMMA FeedInvEnds ==
  ASSUME FeedInv, CopyRunRaises \/ FeedHostDies
  PROVE  FeedInv'
<1>1. feedBatch' = NoBatch /\ UNCHANGED <<runVersion, runCopy, flowVersion, flowMark, flowHeld, flowCopy>>
  BY DEF CopyRunRaises, FeedHostDies, flowVars, flowFeed
<1>2. QED
  BY <1>1, NoBatchItems DEF FeedInv, RunCopies, FlowCopies

LEMMA FeedInvFlow ==
  ASSUME FeedInv, FlowSteps \/ UpdateWorkflow
  PROVE  FeedInv' /\ flowCopy' >= flowCopy
<1>1. UNCHANGED <<runVersion, runCopy, feedBatch>>
  BY DEF FlowSteps, FlowFeedReads, CopyFlow, CopyFlowRaises, FlowHostDies, UpdateWorkflow, feedVars
<1>2. FlowCopies' /\ flowCopy' >= flowCopy
  BY DEF FeedInv, FlowCopies, FlowSteps, FlowFeedReads, CopyFlow, CopyFlowRaises, FlowHostDies,
         UpdateWorkflow, flowFeed
<1>3. QED
  BY <1>1, <1>2 DEF FeedInv, RunCopies, BatchItems, Busy

LEMMA FeedInvStutter ==
  ASSUME FeedInv, UNCHANGED recordVars
  PROVE  FeedInv'
  BY DEF FeedInv, RunCopies, BatchItems, FlowCopies, Busy, recordVars, feedVars, flowVars, flowFeed

\* No copy of a record is ahead of it, wherever a host is and whatever it repeats.
THEOREM FeedInvInvariant == RecordSpec => []FeedInv
<1>1. FeedInv /\ [RecordNext]_recordVars => FeedInv'
  BY FeedInvPut, FeedInvReads, FeedInvCopy, FeedInvEnds, FeedInvFlow, FeedInvStutter DEF RecordNext,
           FeedSteps
<1>2. QED
  BY FeedInvInit, <1>1, PTL DEF RecordSpec

\* No copy of a record goes back to an earlier version of it, whatever is read again
\* after a host has died, repeated after a lost answer, or passed over.
THEOREM CopiesNeverGoBack == RecordSpec => CopiesGoForward
<1> DEFINE Forward == /\ \A r \in Runs : runCopy'[r] >= runCopy[r]
                      /\ flowCopy' >= flowCopy
<1>1. ASSUME FeedInv, [RecordNext]_recordVars
      PROVE  Forward
  <2>1. flowCopy \in Nat /\ \A r \in Runs : runCopy[r] \in Nat
    BY <1>1 DEF FeedInv, FlowCopies, RunCopies
  <2>2. CASE UNCHANGED <<runCopy, flowCopy>>
    BY <2>1, <2>2
  <2>3. CASE CopyRun \/ CopyRunUnheard
    <3>1. UNCHANGED flowCopy
      BY <2>3 DEF CopyRun, CopyRunUnheard, flowFeed
    <3>2. QED
      BY <1>1, <2>1, <2>3, <3>1, FeedInvCopy
  <2>4. CASE FlowSteps \/ UpdateWorkflow
    <3>1. UNCHANGED runCopy
      BY <2>4 DEF FlowSteps, FlowFeedReads, CopyFlow, CopyFlowRaises, FlowHostDies, UpdateWorkflow,
               feedVars
    <3>2. QED
      BY <1>1, <2>1, <2>4, <3>1, FeedInvFlow
  <2>5. QED
    BY <1>1, <2>2, <2>3, <2>4 DEF RecordNext, FeedSteps, FeedReads, CopyRunRaises, FeedHostDies, PutRun,
          recordVars, feedVars, flowVars, flowFeed
<1>2. FeedInv /\ [RecordNext]_recordVars => [Forward]_recordVars
  BY <1>1
<1>3. QED
  BY FeedInvInvariant, <1>2, PTL DEF RecordSpec, CopiesGoForward

=============================================================================
