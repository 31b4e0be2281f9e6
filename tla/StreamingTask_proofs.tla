------------------------ MODULE StreamingTask_proofs ------------------------
(***************************************************************************)
(* Proofs about StreamingTask, for any number of messages and items, any   *)
(* message limit and any of the faults: the inductive invariant StreamInv  *)
(* and the safety properties that hold of any number of workers and any    *)
(* visibility timeout; then those that need one worker (FreshInv) or a     *)
(* visibility timeout longer than any processing (HoldInv).                *)
(***************************************************************************)
EXTENDS StreamingTask, TLAPS

QueueEntry == [state : {"unsent", "visible", "hidden", "deleted"}, count : 0..MaxDequeues]

\* What has been put for the message at hand when a worker is at each step.
WorkerInv(w) ==
  /\ pc[w] \in Busy => held[w].msg \in Messages
  /\ pc[w] = "items" =>
       /\ next[w] \in Items
       /\ \A i \in Items : i < next[w] => i \in itemsPut[held[w].msg]
  /\ pc[w] = "updates" =>
       /\ next[w] \in Items
       /\ itemsPut[held[w].msg] = Items
       /\ \A i \in Items : i < next[w] => i \in updatesPut[held[w].msg]
  /\ pc[w] = "delete" => Accounted(held[w].msg)

StreamInv ==
  /\ TypeOK
  /\ \A w \in Workers : WorkerInv(w)
  /\ NoSilentLoss
  /\ UpdatesFollowItems

\* Records are only ever added.
Grow ==
  /\ \A m \in Messages : itemsPut[m] \subseteq itemsPut'[m] /\ updatesPut[m] \subseteq updatesPut'[m]
  /\ errorsPut \subseteq errorsPut'

Others(w) ==
  \A x \in Workers \ {w} : pc'[x] = pc[x] /\ held'[x] = held[x] /\ next'[x] = next[x]

\* Every item is a place of the loops over the items.
LEMMA ItemsFacts == Items \subseteq 1..(NumItems + 1)
BY StreamingAssumption DEF Items

\* The change of one message's state in the queue.
LEMMA QueueFacts ==
  ASSUME queue \in [Messages -> QueueEntry], NEW m \in Messages,
         NEW s \in {"unsent", "visible", "hidden", "deleted"},
         queue' = [queue EXCEPT ![m].state = s]
  PROVE  /\ queue' \in [Messages -> QueueEntry]
         /\ queue'[m].state = s /\ queue'[m].count = queue[m].count
         /\ \A n \in Messages \ {m} : queue'[n] = queue[n]
BY DEF QueueEntry

\* What is accounted for, or persisted, stays so.
LEMMA AccountedStays ==
  ASSUME TypeOK, TypeOK', Grow, NEW m \in Messages
  PROVE  /\ Accounted(m) => Accounted(m)'
         /\ itemsPut[m] = Items => itemsPut'[m] = Items
BY DEF TypeOK, Grow, Accounted, Persisted

\* A step of one worker, or of none, disturbs no other worker.
LEMMA StepKeepsInv ==
  ASSUME StreamInv, TypeOK', Grow,
         \A w \in Workers : \/ WorkerInv(w)'
                            \/ pc'[w] = pc[w] /\ held'[w] = held[w] /\ next'[w] = next[w],
         \A m \in Messages : queue'[m].state = "deleted" =>
           \/ queue[m].state = "deleted" /\ queue'[m].count = queue[m].count
           \/ Accounted(m) \/ queue'[m].count >= Drop,
         \A m \in Messages : updatesPut'[m] # {} => updatesPut[m] # {} \/ itemsPut[m] = Items
  PROVE  StreamInv'
<1>1. TypeOK /\ NoSilentLoss /\ UpdatesFollowItems
  BY DEF StreamInv
<1>2. ASSUME NEW w \in Workers PROVE WorkerInv(w)'
  <2> SUFFICES ASSUME pc'[w] = pc[w], held'[w] = held[w], next'[w] = next[w] PROVE WorkerInv(w)'
    OBVIOUS
  <2>1. WorkerInv(w)
    BY DEF StreamInv
  <2>2. pc'[w] \in Busy => held'[w].msg \in Messages
    BY <2>1 DEF WorkerInv
  <2>3. pc'[w] = "delete" => Accounted(held[w].msg)'
    BY <1>1, <2>1, <2>2, AccountedStays DEF WorkerInv, Busy
  <2>4. pc'[w] = "items" =>
          next'[w] \in Items /\ \A i \in Items : i < next'[w] => i \in itemsPut'[held'[w].msg]
    BY <2>1, <2>2 DEF WorkerInv, Busy, Grow
  <2>5. pc'[w] = "updates" =>
          /\ next'[w] \in Items /\ itemsPut'[held'[w].msg] = Items
          /\ \A i \in Items : i < next'[w] => i \in updatesPut'[held'[w].msg]
    BY <1>1, <2>1, <2>2, AccountedStays DEF WorkerInv, Busy, Grow
  <2>6. QED
    BY <2>2, <2>3, <2>4, <2>5 DEF WorkerInv, Accounted, Persisted
<1>3. NoSilentLoss'
  <2> SUFFICES ASSUME NEW m \in Messages, queue'[m].state = "deleted"
               PROVE  Accounted(m)' \/ queue'[m].count >= Drop
    BY DEF NoSilentLoss
  <2>1. Accounted(m) \/ queue'[m].count >= Drop
    BY <1>1 DEF NoSilentLoss
  <2>2. QED
    BY <1>1, <2>1, AccountedStays
<1>4. UpdatesFollowItems'
  BY <1>1, AccountedStays DEF UpdatesFollowItems
<1>5. QED
  BY <1>2, <1>3, <1>4 DEF StreamInv

\* Nothing has been sent, put or deleted at the start.
LEMMA StreamInvInit == Init => StreamInv
<1> SUFFICES ASSUME Init PROVE StreamInv
  OBVIOUS
<1>1. TypeOK
  BY StreamingAssumption DEF Init, TypeOK, NoMessage, Busy, Messages
<1>2. \A w \in Workers : WorkerInv(w)
  BY DEF Init, WorkerInv, Busy
<1>3. NoSilentLoss /\ UpdatesFollowItems
  BY DEF Init, NoSilentLoss, UpdatesFollowItems
<1>4. QED
  BY <1>1, <1>2, <1>3 DEF StreamInv

\* Events and visibility timeouts.
LEMMA StreamInvQueue ==
  ASSUME StreamInv, SendEvent \/ \E m \in Messages : Reappear(m)
  PROVE  StreamInv'
<1> USE DEF worker, records
<1>1. TypeOK /\ queue \in [Messages -> QueueEntry]
  BY DEF StreamInv, TypeOK, QueueEntry
<1>2. PICK m \in Messages : /\ queue' = [queue EXCEPT ![m].state = "visible"]
                            /\ version' \in 0..NumMessages
                            /\ UNCHANGED <<worker, records>>
  <2>1. CASE SendEvent
    <3>1. version + 1 \in Messages /\ version' \in 0..NumMessages
      BY <1>1, <2>1, StreamingAssumption DEF SendEvent, TypeOK, Messages
    <3>2. QED
      BY <2>1, <3>1 DEF SendEvent
  <2>2. CASE \E m \in Messages : Reappear(m)
    BY <1>1, <2>2 DEF Reappear, TypeOK
  <2>3. QED
    BY <2>1, <2>2
<1>3. /\ queue' \in [Messages -> QueueEntry] /\ queue'[m].state = "visible"
      /\ \A n \in Messages \ {m} : queue'[n] = queue[n]
  BY <1>1, <1>2, QueueFacts
<1>4. TypeOK'
  BY <1>1, <1>2, <1>3 DEF TypeOK, QueueEntry
<1>5. QED
  BY <1>2, <1>3, <1>4, StepKeepsInv DEF Grow

\* A worker that ends, or goes on to its next message, holds nothing.
LEMMA ForgetFacts ==
  ASSUME TypeOK, NEW w \in Workers, Ends(w) \/ EndMessage(w)
  PROVE  /\ pc' \in [Workers -> Busy \union {"idle", "ended"}]
         /\ held' \in [Workers -> [msg : Messages \union {0}, receipt : 0..MaxDequeues]]
         /\ read' \in [Workers -> 0..NumMessages]
         /\ next' \in [Workers -> 1..(NumItems + 1)]
         /\ handled' \in [Workers -> 0..MessageLimit]
         /\ Others(w)
         /\ pc'[w] \in {"idle", "ended"}
<1>1. Forget(w) /\ pc' \in {[pc EXCEPT ![w] = "idle"], [pc EXCEPT ![w] = "ended"]}
  BY DEF Ends, EndMessage
<1>2. handled' \in [Workers -> 0..MessageLimit]
  BY StreamingAssumption DEF Ends, EndMessage, TypeOK
<1>3. /\ NoMessage \in [msg : Messages \union {0}, receipt : 0..MaxDequeues]
      /\ 0 \in 0..NumMessages /\ 1 \in 1..(NumItems + 1)
  BY StreamingAssumption DEF NoMessage
<1>4. QED
  BY <1>1, <1>2, <1>3 DEF Forget, TypeOK, Others

\* The steps that end the work on a message.
LEMMA StreamInvEnds ==
  ASSUME StreamInv, NEW w \in Workers,
         FinishMessage(w) \/ DropMessage(w) \/ LeaveMessage(w) \/ WorkerDies(w) \/ Restart(w)
  PROVE  StreamInv'
<1> USE DEF records
<1>1. /\ TypeOK /\ WorkerInv(w) /\ queue \in [Messages -> QueueEntry]
      /\ UNCHANGED <<version, records>>
  BY DEF StreamInv, TypeOK, QueueEntry, FinishMessage, DropMessage, Delete, LeaveMessage,
     WorkerDies, Restart
<1>2. CASE Restart(w)
  <2>1. TypeOK' /\ UNCHANGED queue
    BY <1>1, <1>2 DEF Restart, TypeOK
  <2>2. WorkerInv(w)' /\ Others(w)
    BY <1>1, <1>2 DEF Restart, WorkerInv, Busy, Others, TypeOK
  <2>3. QED
    BY <1>1, <2>1, <2>2, StepKeepsInv DEF Grow, Others
<1>3. CASE UNCHANGED queue /\ (Ends(w) \/ EndMessage(w))
  <2>1. TypeOK'
    BY <1>1, <1>3, ForgetFacts DEF TypeOK
  <2>2. WorkerInv(w)' /\ Others(w)
    BY <1>1, <1>3, ForgetFacts DEF WorkerInv, Busy
  <2>3. QED
    BY <1>1, <1>3, <2>1, <2>2, StepKeepsInv DEF Grow, Others
<1>4. CASE /\ pc[w] = "delete" \/ (pc[w] = "handle" /\ held[w].receipt >= Drop)
           /\ ReceiptIsValid(w) /\ EndMessage(w)
           /\ queue' = [queue EXCEPT ![held[w].msg].state = "deleted"]
  <2> DEFINE m == held[w].msg
  <2>1. m \in Messages
    BY <1>1, <1>4 DEF WorkerInv, Busy
  <2>2. Accounted(m) \/ queue[m].count >= Drop
    BY <1>1, <1>4 DEF WorkerInv, ReceiptIsValid
  <2>3. /\ queue' \in [Messages -> QueueEntry] /\ queue'[m].count = queue[m].count
        /\ \A n \in Messages \ {m} : queue'[n] = queue[n]
    BY <1>1, <1>4, <2>1, QueueFacts
  <2>4. TypeOK'
    BY <1>1, <1>4, <2>3, ForgetFacts DEF TypeOK, QueueEntry
  <2>5. WorkerInv(w)' /\ Others(w)
    BY <1>1, <1>4, ForgetFacts DEF WorkerInv, Busy
  <2>6. QED
    BY <1>1, <2>2, <2>3, <2>4, <2>5, StepKeepsInv DEF Grow, Others
<1>5. CASE FinishMessage(w) \/ DropMessage(w)
  <2>1. Delete(w) /\ (pc[w] = "delete" \/ (pc[w] = "handle" /\ held[w].receipt >= Drop))
    BY <1>5 DEF FinishMessage, DropMessage
  <2>2. QED
    BY <1>3, <1>4, <2>1 DEF Delete
<1>6. CASE LeaveMessage(w) \/ WorkerDies(w)
  <2>1. UNCHANGED queue /\ (Ends(w) \/ EndMessage(w))
    BY <1>6 DEF LeaveMessage, WorkerDies
  <2>2. QED
    BY <1>3, <2>1
<1>7. QED
  BY <1>2, <1>5, <1>6

\* The steps up to the puts.
LEMMA StreamInvProcess ==
  ASSUME StreamInv, NEW w \in Workers,
         \/ \E m \in Messages : Receive(w, m)
         \/ CreateItems(w) \/ CreateRaises(w) \/ ParseRaises(w)
  PROVE  StreamInv'
<1> USE DEF records
<1>1. /\ TypeOK /\ WorkerInv(w) /\ queue \in [Messages -> QueueEntry]
      /\ UNCHANGED <<version, records>> /\ Grow
  BY DEF StreamInv, TypeOK, QueueEntry, Receive, CreateItems, CreateRaises, ParseRaises, Grow
<1>2. CASE \E m \in Messages : Receive(w, m)
  <2>1. PICK m \in Messages : Receive(w, m)
    BY <1>2
  <2>2. queue[m].count + 1 \in 0..MaxDequeues
    BY <1>1, <2>1, StreamingAssumption DEF Receive, QueueEntry
  <2>3. /\ queue' \in [Messages -> QueueEntry] /\ queue'[m].state = "hidden"
        /\ \A n \in Messages \ {m} : queue'[n] = queue[n]
    BY <1>1, <2>1, <2>2 DEF Receive, QueueEntry
  <2>4. /\ held' \in [Workers -> [msg : Messages \union {0}, receipt : 0..MaxDequeues]]
        /\ held'[w].msg = m /\ Others(w) /\ pc'[w] = "process"
        /\ pc' \in [Workers -> Busy \union {"idle", "ended"}]
    BY <1>1, <2>1, <2>2 DEF Receive, TypeOK, Others, Busy
  <2>5. TypeOK'
    BY <1>1, <2>1, <2>3, <2>4 DEF TypeOK, Receive, QueueEntry
  <2>6. WorkerInv(w)'
    BY <2>4 DEF WorkerInv
  <2>7. QED
    BY <1>1, <2>3, <2>4, <2>5, <2>6, StepKeepsInv DEF Others
<1>3. CASE CreateItems(w)
  <2>1. /\ held[w].msg \in Messages /\ UNCHANGED <<queue, held>>
        /\ pc'[w] = IF held[w].msg \in Barren \/ NumItems = 0 THEN "delete" ELSE "items"
        /\ next'[w] = 1 /\ Others(w)
    BY <1>1, <1>3 DEF CreateItems, WorkerInv, Busy, TypeOK, Others
  <2>2. TypeOK'
    BY <1>1, <1>3, StreamingAssumption DEF CreateItems, TypeOK, Busy
  <2>3. CASE held[w].msg \in Barren \/ NumItems = 0
    <3>1. Accounted(held[w].msg)
      <4>1. itemsPut[held[w].msg] \subseteq Items /\ updatesPut[held[w].msg] \subseteq Items
        BY <1>1, <2>1 DEF TypeOK
      <4>2. NumItems = 0 => Items = {}
        BY DEF Items
      <4>3. QED
        BY <2>3, <4>1, <4>2 DEF Accounted, Persisted
    <3>2. WorkerInv(w)'
      BY <1>1, <2>1, <2>3, <3>1 DEF WorkerInv, Accounted, Persisted
    <3>3. QED
      BY <1>1, <2>1, <2>2, <3>2, StepKeepsInv DEF Others
  <2>4. CASE ~(held[w].msg \in Barren \/ NumItems = 0)
    <3>1. 1 \in Items /\ \A i \in Items : ~(i < 1)
      BY <2>4, StreamingAssumption DEF Items
    <3>2. WorkerInv(w)'
      BY <2>1, <2>4, <3>1 DEF WorkerInv
    <3>3. QED
      BY <1>1, <2>1, <2>2, <3>2, StepKeepsInv DEF Others
  <2>5. QED
    BY <2>3, <2>4
<1>4. CASE CreateRaises(w) \/ ParseRaises(w)
  <2>1. /\ held[w].msg \in Messages /\ UNCHANGED <<queue, held>>
        /\ pc'[w] \in {"error", "handle"} /\ Others(w)
    BY <1>1, <1>4 DEF CreateRaises, ParseRaises, Fails, WorkerInv, Busy, TypeOK, Others
  <2>2. TypeOK'
    <3>1. pc' \in [Workers -> Busy \union {"idle", "ended"}]
      BY <1>1, <1>4 DEF CreateRaises, ParseRaises, Fails, TypeOK, Busy
    <3>2. UNCHANGED <<read, next, handled>>
      BY <1>4 DEF CreateRaises, ParseRaises
    <3>3. QED
      BY <1>1, <2>1, <3>1, <3>2 DEF TypeOK
  <2>3. WorkerInv(w)'
    BY <2>1 DEF WorkerInv
  <2>4. QED
    BY <1>1, <2>1, <2>2, <2>3, StepKeepsInv DEF Others
<1>5. QED
  BY <1>2, <1>3, <1>4

\* The steps that put a record, or may have.
LEMMA StreamInvPuts ==
  ASSUME StreamInv, NEW w \in Workers,
         PutItem(w) \/ PutUpdate(w) \/ PutError(w) \/ PutRaises(w)
  PROVE  StreamInv'
<1> DEFINE m == held[w].msg
<1>1. /\ TypeOK /\ WorkerInv(w) /\ m \in Messages
      /\ UNCHANGED <<version, queue, held, read, handled>>
      /\ pc[w] \in {"items", "updates", "error"}
  BY DEF StreamInv, WorkerInv, Busy, PutItem, PutUpdate, PutError, PutRaises
<1>2. RecordItem(w) /\ pc[w] = "items" =>
        /\ Grow /\ next[w] \in itemsPut'[m] /\ UNCHANGED updatesPut
        /\ itemsPut' \in [Messages -> SUBSET Items] /\ stored' \in [Items -> 0..NumMessages]
        /\ errorsPut' \subseteq Messages
  BY <1>1 DEF RecordItem, WorkerInv, TypeOK, Grow
<1>3. RecordUpdate(w) /\ pc[w] = "updates" =>
        /\ Grow /\ next[w] \in updatesPut'[m] /\ UNCHANGED <<stored, itemsPut, errorsPut>>
        /\ updatesPut' \in [Messages -> SUBSET Items]
        /\ itemsPut[m] = Items
        /\ \A n \in Messages \ {m} : updatesPut'[n] = updatesPut[n]
  BY <1>1 DEF RecordUpdate, WorkerInv, TypeOK, Grow
<1>4. RecordError(w) =>
        /\ Grow /\ m \in errorsPut' /\ errorsPut' \subseteq Messages
        /\ UNCHANGED <<stored, itemsPut, updatesPut>>
  BY <1>1 DEF RecordError, TypeOK, Grow
<1>5. CASE PutRaises(w)
  <2>1. pc'[w] = "handle" /\ Others(w)
    BY <1>1, <1>5 DEF PutRaises, Fails, Others, TypeOK
  <2>2. /\ pc' \in [Workers -> Busy \union {"idle", "ended"}]
        /\ UNCHANGED next
    BY <1>1, <1>5 DEF PutRaises, Fails, TypeOK, Busy
  <2>3. WorkerInv(w)'
    BY <1>1, <2>1 DEF WorkerInv
  <2>4. CASE UNCHANGED records
    <3>1. TypeOK' /\ Grow
      BY <1>1, <2>2, <2>4 DEF TypeOK, Grow, records
    <3>2. QED
      BY <1>1, <2>1, <2>3, <2>4, <3>1, StepKeepsInv DEF Others, records
  <2>5. CASE RecordItem(w) /\ pc[w] = "items"
    <3>1. TypeOK'
      BY <1>1, <1>2, <2>2, <2>5 DEF TypeOK
    <3>2. QED
      BY <1>1, <1>2, <2>1, <2>3, <2>5, <3>1, StepKeepsInv DEF Others
  <2>6. CASE RecordUpdate(w) /\ pc[w] = "updates"
    <3>1. TypeOK'
      BY <1>1, <1>3, <2>2, <2>6 DEF TypeOK
    <3>2. QED
      BY <1>1, <1>3, <2>1, <2>3, <2>6, <3>1, StepKeepsInv DEF Others
  <2>7. CASE RecordError(w)
    <3>1. TypeOK'
      BY <1>1, <1>4, <2>2, <2>7 DEF TypeOK
    <3>2. QED
      BY <1>1, <1>4, <2>1, <2>3, <2>7, <3>1, StepKeepsInv DEF Others
  <2>8. QED
    BY <1>5, <2>4, <2>5, <2>6, <2>7 DEF PutRaises
<1>6. CASE PutError(w)
  <2>1. pc'[w] = "delete" /\ Others(w) /\ TypeOK'
    BY <1>1, <1>4, <1>6 DEF PutError, Others, TypeOK, Busy
  <2>2. WorkerInv(w)'
    BY <1>1, <1>4, <1>6, <2>1 DEF PutError, WorkerInv, Accounted, Persisted
  <2>3. QED
    BY <1>1, <1>4, <1>6, <2>1, <2>2, StepKeepsInv DEF PutError, Others
<1>7. CASE PutItem(w)
  <2>1. pc[w] = "items" /\ RecordItem(w) /\ Advance(w, "updates")
    BY <1>7 DEF PutItem
  <2>2. /\ next[w] \in Items /\ NumItems \in Nat
        /\ \A i \in Items : i < next[w] => i \in itemsPut'[m]
    BY <1>1, <1>2, <2>1, StreamingAssumption DEF WorkerInv, Grow
  <2>3. Others(w)
    BY <1>1, <2>1 DEF Advance, Others, TypeOK
  <2>4. CASE next[w] < NumItems
    <3>1. UNCHANGED pc /\ next' = [next EXCEPT ![w] = next[w] + 1] /\ next[w] + 1 \in Items
      BY <2>1, <2>2, <2>4 DEF Advance, Items
    <3>2. TypeOK' /\ next'[w] = next[w] + 1
      <4>1. next' \in [Workers -> 1..(NumItems + 1)] /\ next'[w] = next[w] + 1
        BY <1>1, <2>2, <3>1, ItemsFacts DEF TypeOK
      <4>2. QED
        BY <1>1, <1>2, <2>1, <3>1, <4>1 DEF TypeOK
    <3>3. \A i \in Items : i < next[w] + 1 => i \in itemsPut'[m]
      <4>1. \A i \in Items : i < next[w] + 1 => i < next[w] \/ i = next[w]
        BY <2>2 DEF Items
      <4>2. QED
        BY <1>2, <2>1, <2>2, <4>1
    <3>4. WorkerInv(w)'
      BY <1>1, <2>1, <3>1, <3>2, <3>3 DEF WorkerInv
    <3>5. QED
      BY <1>1, <1>2, <2>1, <2>3, <3>2, <3>4, StepKeepsInv DEF Others
  <2>5. CASE ~(next[w] < NumItems)
    <3>1. pc' = [pc EXCEPT ![w] = "updates"] /\ next' = [next EXCEPT ![w] = 1] /\ 1 \in Items
      BY <2>1, <2>2, <2>5 DEF Advance, Items
    <3>2. TypeOK' /\ next'[w] = 1 /\ pc'[w] = "updates"
      <4>1. /\ next' \in [Workers -> 1..(NumItems + 1)] /\ next'[w] = 1
            /\ pc' \in [Workers -> Busy \union {"idle", "ended"}] /\ pc'[w] = "updates"
        BY <1>1, <3>1, ItemsFacts DEF TypeOK, Busy
      <4>2. QED
        BY <1>1, <1>2, <2>1, <4>1 DEF TypeOK
    <3>3. itemsPut'[m] = Items
      <4>1. \A i \in Items : i < next[w] \/ i = next[w]
        BY <2>2, <2>5 DEF Items
      <4>2. itemsPut'[m] \subseteq Items
        BY <1>1, <1>2, <2>1
      <4>3. QED
        BY <1>2, <2>1, <2>2, <4>1, <4>2
    <3>4. WorkerInv(w)'
      BY <1>1, <3>1, <3>2, <3>3 DEF WorkerInv, Items
    <3>5. QED
      BY <1>1, <1>2, <2>1, <2>3, <3>2, <3>4, StepKeepsInv DEF Others
  <2>6. QED
    BY <2>4, <2>5
<1>8. CASE PutUpdate(w)
  <2>1. pc[w] = "updates" /\ RecordUpdate(w) /\ Advance(w, "delete")
    BY <1>8 DEF PutUpdate
  <2>2. /\ next[w] \in Items /\ NumItems \in Nat /\ itemsPut'[m] = Items
        /\ \A i \in Items : i < next[w] => i \in updatesPut'[m]
    BY <1>1, <1>3, <2>1, StreamingAssumption DEF WorkerInv, Grow
  <2>3. Others(w)
    BY <1>1, <2>1 DEF Advance, Others, TypeOK
  <2>4. CASE next[w] < NumItems
    <3>1. UNCHANGED pc /\ next' = [next EXCEPT ![w] = next[w] + 1] /\ next[w] + 1 \in Items
      BY <2>1, <2>2, <2>4 DEF Advance, Items
    <3>2. TypeOK' /\ next'[w] = next[w] + 1
      <4>1. next' \in [Workers -> 1..(NumItems + 1)] /\ next'[w] = next[w] + 1
        BY <1>1, <2>2, <3>1, ItemsFacts DEF TypeOK
      <4>2. QED
        BY <1>1, <1>3, <2>1, <3>1, <4>1 DEF TypeOK
    <3>3. \A i \in Items : i < next[w] + 1 => i \in updatesPut'[m]
      <4>1. \A i \in Items : i < next[w] + 1 => i < next[w] \/ i = next[w]
        BY <2>2 DEF Items
      <4>2. QED
        BY <1>3, <2>1, <2>2, <4>1
    <3>4. WorkerInv(w)'
      BY <1>1, <2>1, <2>2, <3>1, <3>2, <3>3 DEF WorkerInv
    <3>5. QED
      BY <1>1, <1>3, <2>1, <2>3, <3>2, <3>4, StepKeepsInv DEF Others
  <2>5. CASE ~(next[w] < NumItems)
    <3>1. pc' = [pc EXCEPT ![w] = "delete"] /\ next' = [next EXCEPT ![w] = 1] /\ 1 \in Items
      BY <2>1, <2>2, <2>5 DEF Advance, Items
    <3>2. TypeOK' /\ pc'[w] = "delete"
      <4>1. /\ next' \in [Workers -> 1..(NumItems + 1)]
            /\ pc' \in [Workers -> Busy \union {"idle", "ended"}] /\ pc'[w] = "delete"
        BY <1>1, <3>1, ItemsFacts DEF TypeOK, Busy
      <4>2. QED
        BY <1>1, <1>3, <2>1, <4>1 DEF TypeOK
    <3>3. updatesPut'[m] = Items
      <4>1. \A i \in Items : i < next[w] \/ i = next[w]
        BY <2>2, <2>5 DEF Items
      <4>2. updatesPut'[m] \subseteq Items
        BY <1>1, <1>3, <2>1
      <4>3. QED
        BY <1>3, <2>1, <2>2, <4>1, <4>2
    <3>4. WorkerInv(w)'
      BY <1>1, <2>2, <3>2, <3>3 DEF WorkerInv, Accounted, Persisted
    <3>5. QED
      BY <1>1, <1>3, <2>1, <2>3, <3>2, <3>4, StepKeepsInv DEF Others
  <2>6. QED
    BY <2>4, <2>5
<1>9. QED
  BY <1>5, <1>6, <1>7, <1>8

\* StreamInv is an invariant.
LEMMA StreamInvInvariant == Spec => []StreamInv
<1>1. Init => StreamInv
  BY StreamInvInit
<1>2. StreamInv /\ [Next]_vars => StreamInv'
  <2> SUFFICES ASSUME StreamInv, [Next]_vars PROVE StreamInv'
    OBVIOUS
  <2>1. CASE UNCHANGED vars
    <3>1. TypeOK' /\ Grow
      BY <2>1 DEF StreamInv, TypeOK, Grow, vars, worker, records
    <3>2. QED
      BY <2>1, <3>1, StepKeepsInv DEF vars, worker, records
  <2>2. CASE SendEvent \/ \E m \in Messages : Reappear(m)
    BY <2>2, StreamInvQueue
  <2>3. ASSUME NEW w \in Workers, Work(w) \/ WorkerDies(w) PROVE StreamInv'
    BY <2>3, StreamInvEnds, StreamInvProcess, StreamInvPuts DEF Work
  <2>4. QED
    BY <2>1, <2>2, <2>3 DEF Next
<1>3. QED
  BY <1>1, <1>2, PTL DEF Spec

\* Every reachable state of the queue, the workers and the records has its
\* type (StreamingTaskMixin.run).
THEOREM StreamTypeCorrect == Spec => []TypeOK
<1>1. StreamInv => TypeOK
  BY DEF StreamInv
<1>2. QED
  BY <1>1, StreamInvInvariant, PTL

\* However deliveries, timeouts, raising puts and dying workers interleave, a
\* message deleted before its third delivery has left all of its records
\* (run deletes only after finalize_message has returned).
THEOREM StreamLosesNothing == Spec => []NoSilentLoss
<1>1. StreamInv => NoSilentLoss
  BY DEF StreamInv
<1>2. QED
  BY <1>1, StreamInvInvariant, PTL

\* No ItemUpdatedRecord exists for a message whose StacItemRecords are not all
\* there (the two loops of finalize_message).
THEOREM StreamUpdatesFollow == Spec => []UpdatesFollowItems
<1>1. StreamInv => UpdatesFollowItems
  BY DEF StreamInv
<1>2. QED
  BY <1>1, StreamInvInvariant, PTL

-----------------------------------------------------------------------------
(* One worker: records are fresh.                                          *)

OneWorker == \A w, x \in Workers : w = x

\* What was read is as new as the event at hand and as anything stored, and what has been
\* put for a message is as new as the message; without another worker, nothing is stored
\* between the read and the puts.
FreshInv ==
  /\ \A m \in Messages : queue[m].state # "unsent" => m <= version
  /\ \A i \in Items : stored[i] <= version
  /\ \A w \in Workers :
       /\ pc[w] \in Busy => held[w].msg <= version
       /\ pc[w] \in {"items", "updates"} =>
            /\ read[w] <= version
            /\ read[w] >= held[w].msg /\ \A i \in Items : read[w] >= stored[i]
  /\ \A m \in Messages : \A i \in itemsPut[m] : stored[i] >= m

LEMMA FreshInvInit ==
  ASSUME Init
  PROVE  FreshInv
<1>1. \A m \in Messages : queue[m].state = "unsent"
  BY DEF Init
<1>2. \A i \in Items : stored[i] = 0 /\ version = 0
  BY DEF Init
<1>3. \A w \in Workers : pc[w] = "idle"
  BY DEF Init
<1>4. \A m \in Messages : itemsPut[m] = {}
  BY DEF Init
<1>5. QED
  BY <1>1, <1>2, <1>3, <1>4 DEF FreshInv, Busy

\* The numbers FreshInv compares.
LEMMA FreshTypes ==
  ASSUME TypeOK
  PROVE  /\ version \in Nat /\ Messages \subseteq Nat
         /\ \A i \in Items : stored[i] \in Nat
         /\ \A w \in Workers : held[w].msg \in Nat /\ read[w] \in Nat
         /\ \A m \in Messages : itemsPut[m] \subseteq Items
<1>1. NumMessages \in Nat
  BY StreamingAssumption
<1>2. held \in [Workers -> [msg : Messages \union {0}, receipt : 0..MaxDequeues]]
  BY DEF TypeOK
<1>3. \A w \in Workers : held[w].msg \in Messages \union {0}
  BY <1>2
<1>4. QED
  BY <1>1, <1>3 DEF TypeOK, Messages

LEMMA FreshInvQueue ==
  ASSUME StreamInv, FreshInv, SendEvent \/ \E m \in Messages : Reappear(m)
  PROVE  FreshInv'
<1>1. TypeOK /\ queue \in [Messages -> QueueEntry]
  BY DEF StreamInv, TypeOK, QueueEntry
<1>2. CASE SendEvent
  <2>1. /\ version' = version + 1 /\ queue' = [queue EXCEPT ![version + 1].state = "visible"]
        /\ UNCHANGED <<pc, held, read, stored, itemsPut>>
    BY <1>2 DEF SendEvent, worker, records
  <2>2. version + 1 \in Messages
    BY <1>1, <1>2, StreamingAssumption DEF SendEvent, TypeOK, Messages
  <2>3. \A n \in Messages \ {version + 1} : queue'[n] = queue[n]
    BY <1>1, <2>1, <2>2, QueueFacts
  <2>4. \A m \in Messages : queue'[m].state # "unsent" => m <= version'
    BY <1>1, <2>1, <2>3, FreshTypes DEF FreshInv
  <2>5. /\ \A i \in Items : stored[i] <= version'
        /\ \A w \in Workers : pc[w] \in Busy => held[w].msg <= version'
        /\ \A w \in Workers : pc[w] \in {"items", "updates"} => read[w] <= version'
    BY <1>1, <2>1, FreshTypes DEF FreshInv
  <2>6. QED
    BY <2>1, <2>4, <2>5 DEF FreshInv
<1>3. ASSUME NEW m \in Messages, Reappear(m)
      PROVE  FreshInv'
  <2>1. /\ queue' = [queue EXCEPT ![m].state = "visible"] /\ queue[m].state = "hidden"
        /\ UNCHANGED <<version, pc, held, read, stored, itemsPut>>
    BY <1>3 DEF Reappear, worker, records
  <2>2. \A n \in Messages \ {m} : queue'[n] = queue[n]
    BY <1>1, <2>1, QueueFacts
  <2>3. \A n \in Messages : queue'[n].state # "unsent" => n <= version
    BY <2>1, <2>2 DEF FreshInv
  <2>4. QED
    BY <2>1, <2>3 DEF FreshInv
<1>4. QED
  BY <1>2, <1>3

\* A step of the worker that puts no item.
LEMMA FreshInvOther ==
  ASSUME FreshInv, OneWorker, NEW w \in Workers, UNCHANGED <<version, stored, itemsPut>>,
         \A m \in Messages : queue'[m].state # "unsent" => m <= version,
         pc'[w] \in Busy => held'[w].msg <= version,
         pc'[w] \in {"items", "updates"} =>
           /\ read'[w] <= version
           /\ read'[w] >= held'[w].msg /\ \A i \in Items : read'[w] >= stored[i]
  PROVE  FreshInv'
<1>1. \A x \in Workers : x = w
  BY DEF OneWorker
<1>2. QED
  BY <1>1 DEF FreshInv

\* The step that puts one.
LEMMA FreshInvItem ==
  ASSUME StreamInv, FreshInv, OneWorker, NEW w \in Workers, pc[w] = "items", RecordItem(w),
         UNCHANGED <<version, queue, held, read>>
  PROVE  FreshInv'
<1> DEFINE m == held[w].msg
           n == next[w]
<1>1. TypeOK /\ m \in Messages /\ n \in Items
  BY DEF StreamInv, WorkerInv, Busy
<1>2. /\ \A i \in Items : stored'[i] = IF i = n THEN read[w] ELSE stored[i]
      /\ \A k \in Messages : itemsPut'[k] = IF k = m THEN itemsPut[m] \union {n} ELSE itemsPut[k]
  BY <1>1 DEF RecordItem, TypeOK
<1>3. read[w] >= m /\ (\A i \in Items : read[w] >= stored[i]) /\ read[w] <= version
  BY <1>1 DEF FreshInv, TypeOK
<1> HIDE DEF m, n
<1>4. /\ version \in Nat /\ Messages \subseteq Nat /\ read[w] \in Nat
      /\ \A i \in Items : stored[i] \in Nat
      /\ \A k \in Messages : itemsPut[k] \subseteq Items
  BY <1>1, FreshTypes
<1>5. \A i \in Items : stored'[i] >= stored[i] /\ stored'[i] <= version /\ read[w] >= stored'[i]
                         /\ stored'[i] \in Nat
  BY <1>1, <1>2, <1>3, <1>4 DEF FreshInv
<1>6. \A k \in Messages : \A i \in itemsPut'[k] : stored'[i] >= k
  <2> SUFFICES ASSUME NEW k \in Messages, NEW i \in itemsPut'[k]
               PROVE  stored'[i] >= k
    OBVIOUS
  <2>1. CASE i \in itemsPut[k]
    <3>1. stored[i] >= k /\ i \in Items
      BY <1>4, <2>1 DEF FreshInv
    <3>2. QED
      BY <1>4, <1>5, <3>1
  <2>2. CASE i \notin itemsPut[k]
    <3>1. k = m /\ i = n
      BY <1>2, <2>2
    <3>2. QED
      BY <1>1, <1>2, <1>3, <3>1
  <2>3. QED
    BY <2>1, <2>2
<1>7. \A x \in Workers : x = w
  BY DEF OneWorker
<1>8. held[w].msg <= version /\ read[w] >= held[w].msg /\ read[w] <= version
  BY DEF FreshInv, Busy
<1>9. QED
  BY <1>5, <1>6, <1>7, <1>8 DEF FreshInv

LEMMA FreshInvWork ==
  ASSUME StreamInv, FreshInv, OneWorker, NEW w \in Workers, Work(w) \/ WorkerDies(w)
  PROVE  FreshInv'
<1>1. /\ TypeOK /\ queue \in [Messages -> QueueEntry] /\ WorkerInv(w)
      /\ pc \in [Workers -> Busy \union {"idle", "ended"}]
      /\ \A m \in Messages : queue[m].state # "unsent" => m <= version
  BY DEF StreamInv, TypeOK, QueueEntry, FreshInv
<1>2. ASSUME NEW m \in Messages, Receive(w, m)
      PROVE  FreshInv'
  <2>1. m <= version
    BY <1>1, <1>2 DEF Receive
  <2>2. \A n \in Messages : n # m => queue'[n] = queue[n]
    BY <1>1, <1>2 DEF Receive
  <2>3. pc'[w] = "process" /\ held'[w].msg = m
    BY <1>1, <1>2 DEF Receive, TypeOK
  <2>4. UNCHANGED <<version, stored, itemsPut>>
    BY <1>2 DEF Receive, records
  <2>5. QED
    BY <1>1, <2>1, <2>2, <2>3, <2>4, FreshInvOther
<1>3. CASE CreateItems(w)
  <2>1. read'[w] = version /\ UNCHANGED <<version, queue, held, stored, itemsPut>> /\ pc[w] = "process"
    BY <1>1, <1>3 DEF CreateItems, records, TypeOK
  <2>2. held[w].msg <= version /\ \A i \in Items : stored[i] <= version
    BY <2>1 DEF FreshInv, Busy
  <2>3. version <= version /\ version >= held[w].msg /\ \A i \in Items : version >= stored[i]
    BY <1>1, <2>2, FreshTypes
  <2>4. QED
    BY <1>1, <2>1, <2>2, <2>3, FreshInvOther
<1>4. CASE CreateRaises(w) \/ ParseRaises(w)
  <2>1. /\ UNCHANGED <<version, queue, held, stored, itemsPut>> /\ pc[w] = "process"
        /\ pc'[w] \in {"error", "handle"}
    BY <1>1, <1>4 DEF CreateRaises, ParseRaises, Fails, records
  <2>2. held[w].msg <= version
    BY <2>1 DEF FreshInv, Busy
  <2>3. QED
    BY <1>1, <2>1, <2>2, FreshInvOther
<1>5. CASE PutItem(w) \/ (PutRaises(w) /\ pc[w] = "items" /\ RecordItem(w))
  BY <1>5, FreshInvItem DEF PutItem, PutRaises
<1>6. CASE PutUpdate(w) \/ PutError(w) \/ (PutRaises(w) /\ ~(pc[w] = "items" /\ RecordItem(w)))
  <2>1. /\ UNCHANGED <<version, queue, held, read, stored, itemsPut>>
        /\ pc[w] \in {"items", "updates", "error"}
    BY <1>6 DEF PutUpdate, PutError, PutRaises, RecordUpdate, RecordError, records
  <2>2. pc'[w] \in {"items", "updates"} => pc[w] = "updates"
    BY <1>1, <1>6 DEF PutUpdate, PutError, PutRaises, Fails, Advance
  <2>3. held[w].msg <= version
    BY <2>1 DEF FreshInv, Busy
  <2>4. pc[w] = "updates" => read[w] <= version /\ read[w] >= held[w].msg /\ \A i \in Items : read[w] >= stored[i]
    BY DEF FreshInv
  <2>5. QED
    BY <1>1, <2>1, <2>2, <2>3, <2>4, FreshInvOther
<1>7. CASE FinishMessage(w) \/ DropMessage(w) \/ LeaveMessage(w) \/ WorkerDies(w) \/ Restart(w)
  <2>1. UNCHANGED <<version, stored, itemsPut>>
    BY <1>7 DEF FinishMessage, DropMessage, Delete, LeaveMessage, WorkerDies, Restart, records
  <2>2. pc'[w] \in {"idle", "ended"}
    <3>1. CASE Restart(w)
      BY <1>1, <3>1 DEF Restart
    <3>2. CASE Ends(w) \/ EndMessage(w)
      BY <1>1, <3>2, ForgetFacts
    <3>3. QED
      BY <1>7, <3>1, <3>2 DEF FinishMessage, DropMessage, Delete, LeaveMessage, WorkerDies
  <2>3. \A m \in Messages : queue'[m].state # "unsent" => m <= version
    <3>1. CASE UNCHANGED queue
      BY <1>1, <3>1
    <3>2. CASE pc[w] \in {"delete", "handle"} /\ queue' = [queue EXCEPT ![held[w].msg].state = "deleted"]
      <4>1. held[w].msg \in Messages /\ held[w].msg <= version
        BY <1>1, <3>2 DEF WorkerInv, FreshInv, Busy
      <4>2. \A n \in Messages \ {held[w].msg} : queue'[n] = queue[n]
        BY <1>1, <3>2, <4>1, QueueFacts
      <4>3. QED
        BY <1>1, <4>1, <4>2
    <3>3. QED
      BY <1>7, <3>1, <3>2 DEF FinishMessage, DropMessage, Delete, LeaveMessage, WorkerDies, Restart
  <2>4. QED
    BY <2>1, <2>2, <2>3, FreshInvOther DEF Busy
<1>8. QED
  BY <1>2, <1>3, <1>4, <1>5, <1>6, <1>7 DEF Work

\* With one worker, the record of every item is at least as new as the last event all of
\* whose items and updates are put, whatever raises, dies or is delivered again.  (Two
\* workers may put in the other order, so the hypothesis is needed.)
THEOREM OneWorkerKeepsFresh ==
  ASSUME OneWorker
  PROVE  Spec => []RecordsAreFresh
<1>1. StreamInv /\ FreshInv /\ [Next]_vars => FreshInv'
  <2> SUFFICES ASSUME StreamInv, FreshInv, [Next]_vars
               PROVE  FreshInv'
    OBVIOUS
  <2>1. CASE UNCHANGED vars
    BY <2>1 DEF vars, worker, records, FreshInv
  <2>2. QED
    BY <2>1, FreshInvQueue, FreshInvWork DEF Next
<1>2. FreshInv /\ StreamInv => RecordsAreFresh
  BY DEF FreshInv, RecordsAreFresh, Persisted
<1>3. QED
  BY FreshInvInit, StreamInvInvariant, <1>1, <1>2, PTL DEF Spec

-----------------------------------------------------------------------------
(* Timely processing: deletions are accepted.                              *)

\* The events not yet sent are in no queue; a worker's message is hidden and its receipt the one of the last delivery, and no
\* other worker has the same message.
Holds(w) ==
  pc[w] \in Busy =>
    /\ queue[held[w].msg].state = "hidden" /\ queue[held[w].msg].count = held[w].receipt
    /\ \A x \in Workers : pc[x] \in Busy /\ held[x].msg = held[w].msg => x = w

HoldInv ==
  /\ \A m \in Messages : m > version => queue[m].state = "unsent"
  /\ \A w \in Workers : Holds(w)

LEMMA HoldInvInit ==
  ASSUME Init
  PROVE  HoldInv
BY DEF Init, HoldInv, Holds, Busy

\* A worker that goes on with the same message, or lets go of it.
LEMMA HoldInvGoesOn ==
  ASSUME HoldInv, NEW w \in Workers, Others(w), UNCHANGED <<version, queue>>,
         pc'[w] \in Busy => pc[w] \in Busy /\ held'[w] = held[w]
  PROVE  HoldInv'
<1>1. \A x \in Workers : pc'[x] \in Busy => pc[x] \in Busy /\ held'[x] = held[x]
  BY DEF Others
<1>2. QED
  BY <1>1 DEF HoldInv, Holds

\* A change to a message that no worker has, or has no more.
LEMMA HoldInvChange ==
  ASSUME HoldInv, NEW m \in Messages,
         \A n \in Messages : n # m => queue'[n] = queue[n],
         \A n \in Messages : n > version' => n > version /\ n # m,
         \A x \in Workers : pc'[x] \in Busy =>
           pc[x] \in Busy /\ held'[x] = held[x] /\ held[x].msg \in Messages \ {m}
  PROVE  HoldInv'
<1>1. \A n \in Messages : n > version' => queue'[n].state = "unsent"
  BY DEF HoldInv
<1>2. \A x \in Workers : pc'[x] \in Busy => queue'[held'[x].msg] = queue[held[x].msg]
  OBVIOUS
<1>3. \A x \in Workers : Holds(x)'
  BY <1>2 DEF HoldInv, Holds
<1>4. QED
  BY <1>1, <1>3 DEF HoldInv

LEMMA HoldInvQueue ==
  ASSUME TimelyProcessing, StreamInv, HoldInv, SendEvent \/ \E m \in Messages : Reappear(m)
  PROVE  HoldInv'
<1>1. /\ queue \in [Messages -> QueueEntry] /\ UNCHANGED <<pc, held>>
      /\ \A w \in Workers : pc[w] \in Busy => held[w].msg \in Messages
  BY DEF StreamInv, WorkerInv, TypeOK, QueueEntry, SendEvent, Reappear, worker
<1>2. CASE SendEvent
  <2>1. /\ queue' = [queue EXCEPT ![version + 1].state = "visible"] /\ version + 1 \in Messages
        /\ version' = version + 1 /\ version \in Nat /\ Messages \subseteq Nat
    BY <1>2, StreamingAssumption DEF SendEvent, StreamInv, TypeOK, Messages
  <2>2. \A n \in Messages : n # version + 1 => queue'[n] = queue[n]
    BY <1>1, <2>1, QueueFacts
  <2>3. queue[version + 1].state = "unsent"
    BY <2>1 DEF HoldInv
  <2>4. \A w \in Workers : pc[w] \in Busy => held[w].msg # version + 1
    BY <2>3 DEF HoldInv, Holds
  <2>5. \A n \in Messages : n > version' => n > version /\ n # version + 1
    BY <2>1
  <2>6. QED
    BY <1>1, <2>1, <2>2, <2>4, <2>5, HoldInvChange
<1>3. ASSUME NEW m \in Messages, Reappear(m)
      PROVE  HoldInv'
  <2>1. /\ queue' = [queue EXCEPT ![m].state = "visible"] /\ queue[m].state = "hidden"
        /\ version' = version
    BY <1>3 DEF Reappear
  <2>2. \A n \in Messages : n # m => queue'[n] = queue[n]
    BY <1>1, <2>1, QueueFacts
  <2>3. \A n \in Messages : n > version' => n > version /\ n # m
    BY <2>1 DEF HoldInv
  <2>4. \A w \in Workers : pc[w] \in Busy => held[w].msg # m
    <3> SUFFICES ASSUME NEW w \in Workers, pc[w] \in Busy, held[w].msg = m
                 PROVE  FALSE
      OBVIOUS
    <3>1. queue[held[w].msg].state = "hidden" /\ queue[held[w].msg].count = held[w].receipt
      BY DEF HoldInv, Holds
    <3>2. ReceiptIsValid(w)
      BY <3>1 DEF ReceiptIsValid
    <3>3. QED
      BY <1>3, <3>2 DEF Reappear
  <2>5. QED
    BY <1>1, <2>2, <2>3, <2>4, HoldInvChange
<1>4. QED
  BY <1>2, <1>3

\* A delivery makes the message the worker's own: it was visible, so nobody had it.
LEMMA HoldInvReceive ==
  ASSUME StreamInv, HoldInv, NEW w \in Workers, NEW m \in Messages, Receive(w, m)
  PROVE  HoldInv'
<1>1. /\ queue' = [queue EXCEPT ![m] = [state |-> "hidden", count |-> @.count + 1]]
      /\ held' = [held EXCEPT ![w] = [msg |-> m, receipt |-> queue[m].count + 1]]
      /\ pc' = [pc EXCEPT ![w] = "process"]
      /\ version' = version /\ queue[m].state = "visible"
  BY DEF Receive
<1>2. /\ queue \in [Messages -> QueueEntry]
      /\ pc \in [Workers -> Busy \union {"idle", "ended"}]
      /\ held \in [Workers -> [msg : Messages \union {0}, receipt : 0..MaxDequeues]]
      /\ \A x \in Workers : pc[x] \in Busy => held[x].msg \in Messages
  BY DEF StreamInv, WorkerInv, TypeOK, QueueEntry
<1>3. /\ queue'[m].state = "hidden" /\ queue'[m].count = queue[m].count + 1
      /\ \A n \in Messages : n # m => queue'[n] = queue[n]
  BY <1>1, <1>2
<1>4. /\ held'[w].msg = m /\ held'[w].receipt = queue[m].count + 1
      /\ \A x \in Workers : x # w => pc'[x] = pc[x] /\ held'[x] = held[x]
  BY <1>1, <1>2
<1>5. \A x \in Workers : pc[x] \in Busy => held[x].msg # m
  BY <1>1 DEF HoldInv, Holds
<1>6. Holds(w)'
  BY <1>3, <1>4, <1>5 DEF Holds
<1>7. \A x \in Workers : x # w => Holds(x)'
  BY <1>2, <1>3, <1>4, <1>5 DEF HoldInv, Holds
<1>8. \A n \in Messages : n > version' => queue'[n].state = "unsent"
  BY <1>1, <1>3 DEF HoldInv
<1>9. QED
  BY <1>6, <1>7, <1>8 DEF HoldInv

LEMMA HoldInvWork ==
  ASSUME StreamInv, HoldInv, NEW w \in Workers, Work(w) \/ WorkerDies(w)
  PROVE  HoldInv'
<1>1. /\ TypeOK /\ queue \in [Messages -> QueueEntry]
      /\ pc \in [Workers -> Busy \union {"idle", "ended"}]
      /\ \A x \in Workers : pc[x] \in Busy => held[x].msg \in Messages
  BY DEF StreamInv, WorkerInv, TypeOK, QueueEntry
<1>2. CASE \/ CreateItems(w) \/ CreateRaises(w) \/ ParseRaises(w)
           \/ PutItem(w) \/ PutUpdate(w) \/ PutError(w) \/ PutRaises(w)
  <2>1. UNCHANGED <<version, queue, held>> /\ pc[w] \in Busy
    BY <1>2 DEF CreateItems, CreateRaises, ParseRaises, PutItem, PutUpdate, PutError, PutRaises, Busy
  <2>2. \A x \in Workers \ {w} : pc'[x] = pc[x] /\ next'[x] = next[x]
    BY <1>1, <1>2 DEF CreateItems, CreateRaises, ParseRaises, PutItem, PutUpdate, PutError,
                      PutRaises, Fails, Advance, TypeOK
  <2>3. QED
    BY <2>1, <2>2, HoldInvGoesOn DEF Others
<1>3. CASE Restart(w)
  <2>1. UNCHANGED <<version, queue, held, next>> /\ pc' = [pc EXCEPT ![w] = "idle"]
    BY <1>3 DEF Restart
  <2>2. pc'[w] \notin Busy /\ Others(w)
    BY <1>1, <2>1 DEF Others, Busy
  <2>3. QED
    BY <2>1, <2>2, HoldInvGoesOn
<1>4. CASE FinishMessage(w) \/ DropMessage(w) \/ LeaveMessage(w) \/ WorkerDies(w)
  <2>1. Ends(w) \/ EndMessage(w)
    BY <1>4 DEF FinishMessage, DropMessage, Delete, LeaveMessage, WorkerDies
  <2>2. Others(w) /\ pc'[w] \notin Busy
    BY <1>1, <2>1, ForgetFacts DEF Busy
  <2>3. /\ version' = version
        /\ \/ UNCHANGED queue
           \/ pc[w] \in Busy /\ queue' = [queue EXCEPT ![held[w].msg].state = "deleted"]
    BY <1>4 DEF FinishMessage, DropMessage, Delete, LeaveMessage, WorkerDies, Busy
  <2>4. CASE UNCHANGED queue
    BY <2>2, <2>3, <2>4, HoldInvGoesOn
  <2>5. CASE pc[w] \in Busy /\ queue' = [queue EXCEPT ![held[w].msg].state = "deleted"]
    <3>1. held[w].msg \in Messages
      BY <1>1, <2>5
    <3>2. \A n \in Messages : n # held[w].msg => queue'[n] = queue[n]
      BY <1>1, <2>5, <3>1, QueueFacts
    <3>3. \A n \in Messages : n > version' => n > version /\ n # held[w].msg
      BY <2>3, <2>5 DEF HoldInv, Holds
    <3>4. \A x \in Workers : pc'[x] \in Busy =>
            pc[x] \in Busy /\ held'[x] = held[x] /\ held[x].msg \in Messages \ {held[w].msg}
      BY <1>1, <2>2, <2>5 DEF HoldInv, Holds, Others
    <3>5. QED
      BY <3>1, <3>2, <3>3, <3>4, HoldInvChange
  <2>6. QED
    BY <2>3, <2>4, <2>5
<1>5. QED
  BY <1>2, <1>3, <1>4, HoldInvReceive DEF Work

\* If every message is handled within its visibility timeout, no deletion is refused, with
\* any number of workers and whichever of them die: the message of a worker is delivered
\* to no other, and that of a dead one is nobody's to delete.
THEOREM TimelyDeletionsAccepted ==
  ASSUME TimelyProcessing
  PROVE  Spec => []DeletionsAreAccepted
<1>1. StreamInv /\ HoldInv /\ [Next]_vars => HoldInv'
  <2> SUFFICES ASSUME StreamInv, HoldInv, [Next]_vars
               PROVE  HoldInv'
    OBVIOUS
  <2>1. CASE UNCHANGED vars
    BY <2>1 DEF vars, worker, HoldInv, Holds
  <2>2. QED
    BY <2>1, HoldInvQueue, HoldInvWork DEF Next
<1>2. HoldInv => DeletionsAreAccepted
  BY DEF HoldInv, Holds, DeletionsAreAccepted, ReceiptIsValid, Busy
<1>3. QED
  BY HoldInvInit, StreamInvInvariant, <1>1, <1>2, PTL DEF Spec

=============================================================================
