--------------------------- MODULE StreamingTask ---------------------------
(***************************************************************************)
(* The workers of a streaming item creation task (StreamingTaskMixin.run   *)
(* of task/streaming.py with StreamingCreateItemsTask of                   *)
(* dataset/streaming.py), the storage queue they share and the Cosmos DB   *)
(* records they write.                                                     *)
(*                                                                         *)
(* The messages are the storage events of one blob: message m announces    *)
(* its version m.  A received message is hidden for the visibility timeout *)
(* and may be received again after it; its pop receipt is valid until then *)
(* and is identified with its dequeue_count.  Kubernetes runs the workers  *)
(* and restarts those that end.                                            *)
(***************************************************************************)
EXTENDS Naturals

CONSTANTS
  Workers,          \* replicas of the Deployment
  NumMessages,      \* storage events
  NumItems,         \* items create_items_function makes of the blob
  Malformed,        \* messages that are no StorageEvent, or wait for their items
  Barren,           \* messages create_items_function returns no items for
  MessageLimit,     \* streaming_options.message_limit, 0 for None
  MaxDequeues,      \* bound on dequeue_count
  CallsMayRaise,    \* may create_items_function and puts raise?
  WorkersMayDie,    \* may a worker end anywhere?
  TimelyProcessing  \* is the visibility timeout longer than any processing?

Messages == 1..NumMessages
Items == 1..NumItems
Drop == 3  \* deliveries after which a failure deletes the message

ASSUME StreamingAssumption ==
  /\ {NumMessages, NumItems, MessageLimit} \subseteq Nat
  /\ MaxDequeues \in Nat /\ MaxDequeues >= Drop
  /\ Malformed \subseteq Messages /\ Barren \subseteq Messages
  /\ {CallsMayRaise, WorkersMayDie, TimelyProcessing} \subseteq BOOLEAN

VARIABLES
  version,   \* of the blob, and number of messages sent
  queue,     \* message -> [state, count], count being its dequeue_count
  pc,        \* where each worker is
  held,      \* worker -> [msg, receipt], the message at hand
  read,      \* worker -> version of the blob its items were made of
  next,      \* worker -> item whose record is put next
  handled,   \* worker -> message_count, unless there is no limit
  stored,    \* item -> version its StacItemRecord was made of, 0 for none
  itemsPut,  \* message -> items whose StacItemRecord was put for it
  updatesPut,\* message -> items whose ItemUpdatedRecord was put for it
  errorsPut  \* messages with a CreateItemErrorRecord

records == <<stored, itemsPut, updatesPut, errorsPut>>
worker == <<pc, held, read, next, handled>>
vars == <<version, queue, worker, records>>

NoMessage == [msg |-> 0, receipt |-> 0]
Busy == {"process", "items", "updates", "error", "delete", "handle"}

TypeOK ==
  /\ version \in 0..NumMessages
  /\ queue \in [Messages -> [state : {"unsent", "visible", "hidden", "deleted"},
                             count : 0..MaxDequeues]]
  /\ pc \in [Workers -> Busy \union {"idle", "ended"}]
  /\ held \in [Workers -> [msg : Messages \union {0}, receipt : 0..MaxDequeues]]
  /\ read \in [Workers -> 0..NumMessages]
  /\ next \in [Workers -> 1..(NumItems + 1)]
  /\ handled \in [Workers -> 0..MessageLimit]
  /\ stored \in [Items -> 0..NumMessages]
  /\ itemsPut \in [Messages -> SUBSET Items]
  /\ updatesPut \in [Messages -> SUBSET Items]
  /\ errorsPut \subseteq Messages

(***************************************************************************)
(* The blob and the queue                                                  *)
(***************************************************************************)
\* The blob is written anew and its event reaches the queue.
SendEvent ==
  /\ version < NumMessages
  /\ version' = version + 1
  /\ queue' = [queue EXCEPT ![version + 1].state = "visible"]
  /\ UNCHANGED <<worker, records>>

ReceiptIsValid(w) ==
  LET m == queue[held[w].msg] IN m.state # "deleted" /\ m.count = held[w].receipt

\* The visibility timeout ends.
Reappear(m) ==
  /\ queue[m].state = "hidden"
  /\ TimelyProcessing =>
       \A w \in Workers : pc[w] \in Busy /\ held[w].msg = m => ~ReceiptIsValid(w)
  /\ queue' = [queue EXCEPT ![m].state = "visible"]
  /\ UNCHANGED <<version, worker, records>>

(***************************************************************************)
(* A worker                                                                *)
(***************************************************************************)
Receive(w, m) ==
  /\ pc[w] = "idle"
  /\ queue[m].state = "visible"
  /\ queue[m].count < MaxDequeues
  /\ queue' = [queue EXCEPT ![m] = [state |-> "hidden", count |-> @.count + 1]]
  /\ held' = [held EXCEPT ![w] = [msg |-> m, receipt |-> queue[m].count + 1]]
  /\ pc' = [pc EXCEPT ![w] = "process"]
  /\ UNCHANGED <<version, read, next, handled, records>>

\* Wrong version of CreateItems: the items are made of what the event says
CreateItemsFromEvent(w) ==
  /\ pc[w] = "process" /\ held[w].msg \notin Malformed
  /\ read' = [read EXCEPT ![w] = held[w].msg]
  /\ pc' = [pc EXCEPT ![w] = IF held[w].msg \in Barren \/ NumItems = 0 THEN "delete" ELSE "items"]
  /\ UNCHANGED <<version, queue, held, next, handled, records>>

\* create_items_function reads the blob and returns its items.
CreateItems(w) ==
  /\ pc[w] = "process" /\ held[w].msg \notin Malformed
  /\ read' = [read EXCEPT ![w] = version]
  /\ next' = [next EXCEPT ![w] = 1]
  /\ pc' = [pc EXCEPT ![w] = IF held[w].msg \in Barren \/ NumItems = 0 THEN "delete" ELSE "items"]
  /\ UNCHANGED <<version, queue, held, handled, records>>

\* It raises, or its items are not valid: process_message returns an error.
CreateRaises(w) ==
  /\ CallsMayRaise
  /\ pc[w] = "process" /\ held[w].msg \notin Malformed
  /\ pc' = [pc EXCEPT ![w] = "error"]
  /\ UNCHANGED <<version, queue, held, read, next, handled, records>>

\* An exception reaches the loop of run.
Fails(w) == pc' = [pc EXCEPT ![w] = "handle"]

\* The message is not parsed, or create_items_function asks to wait.
ParseRaises(w) ==
  /\ pc[w] = "process" /\ held[w].msg \in Malformed
  /\ Fails(w)
  /\ UNCHANGED <<version, queue, held, read, next, handled, records>>

RecordItem(w) ==
  /\ stored' = [stored EXCEPT ![next[w]] = read[w]]
  /\ itemsPut' = [itemsPut EXCEPT ![held[w].msg] = @ \union {next[w]}]
  /\ UNCHANGED <<updatesPut, errorsPut>>

RecordUpdate(w) ==
  /\ updatesPut' = [updatesPut EXCEPT ![held[w].msg] = @ \union {next[w]}]
  /\ UNCHANGED <<stored, itemsPut, errorsPut>>

RecordError(w) ==
  /\ errorsPut' = errorsPut \union {held[w].msg}
  /\ UNCHANGED <<stored, itemsPut, updatesPut>>

\* The next put of the loop at hand, or the step after the loop.
Advance(w, after) ==
  IF next[w] < NumItems
    THEN next' = [next EXCEPT ![w] = @ + 1] /\ UNCHANGED pc
    ELSE next' = [next EXCEPT ![w] = 1] /\ pc' = [pc EXCEPT ![w] = after]

\* Wrong version of PutItem: one loop puts the item and then its update, and
\* stops at the first
PutItemOnce(w) ==
  /\ pc[w] = "items"
  /\ RecordItem(w)
  /\ next' = [next EXCEPT ![w] = 1] /\ pc' = [pc EXCEPT ![w] = "updates"]
  /\ UNCHANGED <<version, queue, held, read, handled>>

PutItem(w) ==
  /\ pc[w] = "items"
  /\ RecordItem(w) /\ Advance(w, "updates")
  /\ UNCHANGED <<version, queue, held, read, handled>>

PutUpdate(w) ==
  /\ pc[w] = "updates"
  /\ RecordUpdate(w) /\ Advance(w, "delete")
  /\ UNCHANGED <<version, queue, held, read, handled>>

PutError(w) ==
  /\ pc[w] = "error"
  /\ RecordError(w)
  /\ pc' = [pc EXCEPT ![w] = "delete"]
  /\ UNCHANGED <<version, queue, held, read, next, handled>>

\* A put raises, having taken effect or not.
PutRaises(w) ==
  /\ CallsMayRaise
  /\ \/ pc[w] \in {"items", "updates", "error"} /\ UNCHANGED records
     \/ pc[w] = "items" /\ RecordItem(w)
     \/ pc[w] = "updates" /\ RecordUpdate(w)
     \/ pc[w] = "error" /\ RecordError(w)
  /\ Fails(w)
  /\ UNCHANGED <<version, queue, held, read, next, handled>>

\* What a worker knows of a message ends with its iteration.
Forget(w) ==
  /\ held' = [held EXCEPT ![w] = NoMessage]
  /\ read' = [read EXCEPT ![w] = 0]
  /\ next' = [next EXCEPT ![w] = 1]

\* run ends, by an exception or for message_limit.
Ends(w) ==
  /\ pc' = [pc EXCEPT ![w] = "ended"]
  /\ handled' = [handled EXCEPT ![w] = 0]
  /\ Forget(w)

\* The message has been handled: message_count and message_limit.
EndMessage(w) ==
  \/ /\ MessageLimit = 0
     /\ pc' = [pc EXCEPT ![w] = "idle"]
     /\ Forget(w) /\ UNCHANGED handled
  \/ /\ handled[w] + 1 < MessageLimit
     /\ pc' = [pc EXCEPT ![w] = "idle"]
     /\ handled' = [handled EXCEPT ![w] = @ + 1]
     /\ Forget(w)
  \/ MessageLimit > 0 /\ handled[w] + 1 >= MessageLimit /\ Ends(w)

\* delete_message, which raises out of run when the receipt is not valid.
Delete(w) ==
  /\ \/ /\ ReceiptIsValid(w)
        /\ queue' = [queue EXCEPT ![held[w].msg].state = "deleted"]
        /\ EndMessage(w)
     \/ ~ReceiptIsValid(w) /\ Ends(w) /\ UNCHANGED queue
  /\ UNCHANGED <<version, records>>

\* The queue always says when a message will be visible again, so that
\* next_visible_on is not None.
FinishMessage(w) == pc[w] = "delete" /\ Delete(w)

\* Wrong versions of DropMessage: on the second delivery, falling through to
\* the deletion of processed messages, or without a deletion
DropMessageEarly(w) ==
  /\ pc[w] = "handle" /\ held[w].receipt >= Drop - 1
  /\ Delete(w)

DropMessageTwice(w) ==
  /\ pc[w] = "handle" /\ held[w].receipt >= Drop /\ ReceiptIsValid(w)
  /\ queue' = [queue EXCEPT ![held[w].msg].state = "deleted"]
  /\ pc' = [pc EXCEPT ![w] = "delete"]
  /\ UNCHANGED <<version, held, read, next, handled, records>>

DropMessageLeaves(w) ==
  /\ pc[w] = "handle" /\ held[w].receipt >= Drop
  /\ EndMessage(w)
  /\ UNCHANGED <<version, queue, records>>

DropMessage(w) ==
  /\ pc[w] = "handle" /\ held[w].receipt >= Drop
  /\ Delete(w)

\* The message is left to reappear.
LeaveMessage(w) ==
  /\ pc[w] = "handle" /\ held[w].receipt < Drop
  /\ EndMessage(w)
  /\ UNCHANGED <<version, queue, records>>

\* A replica is stopped, or receive_messages or delete_message raises.
WorkerDies(w) ==
  /\ WorkersMayDie
  /\ pc[w] # "ended"
  /\ Ends(w)
  /\ UNCHANGED <<version, queue, records>>

Restart(w) ==
  /\ pc[w] = "ended"
  /\ pc' = [pc EXCEPT ![w] = "idle"]
  /\ UNCHANGED <<version, queue, held, read, next, handled, records>>

(***************************************************************************)
(* The specification                                                       *)
(***************************************************************************)
Init ==
  /\ version = 0
  /\ queue = [m \in Messages |-> [state |-> "unsent", count |-> 0]]
  /\ pc = [w \in Workers |-> "idle"]
  /\ held = [w \in Workers |-> NoMessage]
  /\ read = [w \in Workers |-> 0]
  /\ next = [w \in Workers |-> 1]
  /\ handled = [w \in Workers |-> 0]
  /\ stored = [i \in Items |-> 0]
  /\ itemsPut = [m \in Messages |-> {}]
  /\ updatesPut = [m \in Messages |-> {}]
  /\ errorsPut = {}

Work(w) ==
  \/ \E m \in Messages : Receive(w, m)
  \/ CreateItems(w) \/ CreateRaises(w) \/ ParseRaises(w)
  \/ PutItem(w) \/ PutUpdate(w) \/ PutError(w) \/ PutRaises(w)
  \/ FinishMessage(w) \/ DropMessage(w) \/ LeaveMessage(w) \/ Restart(w)

Next ==
  \/ SendEvent
  \/ \E m \in Messages : Reappear(m)
  \/ \E w \in Workers : Work(w) \/ WorkerDies(w)

Spec == Init /\ [][Next]_vars

\* Visibility timeouts end, and Kubernetes runs and restarts every replica.
Fairness ==
  /\ \A m \in Messages : WF_vars(Reappear(m))
  /\ \A w \in Workers : WF_vars(Work(w))

FairSpec == Spec /\ Fairness

(***************************************************************************)
(* Properties                                                              *)
(***************************************************************************)
Persisted(m) == itemsPut[m] = Items /\ updatesPut[m] = Items

Accounted(m) == Persisted(m) \/ m \in errorsPut \/ m \in Barren

\* No message leaves the queue before the third delivery without all of its
\* records: those of every item, or that of the error.
NoSilentLoss ==
  \A m \in Messages : queue[m].state = "deleted" =>
    Accounted(m) \/ queue[m].count >= Drop

\* An item is announced as updated for a message only when all records of the
\* message's items have been put.
UpdatesFollowItems ==
  \A m \in Messages : updatesPut[m] # {} => itemsPut[m] = Items

\* While only one worker runs, the record of every item is at least as new as
\* the last event whose items were persisted.
RecordsAreFresh ==
  \A m \in Messages : Persisted(m) => \A i \in Items : stored[i] >= m

\* If messages are processed within the visibility timeout and workers do not
\* die, no worker is brought down by the deletion of a message it no longer
\* holds.
DeletionsAreAccepted ==
  \A w \in Workers : pc[w] \in {"delete", "handle"} => ReceiptIsValid(w)

\* Every message is processed or dropped in the end.
MessagesAreSettled ==
  \A m \in Messages : queue[m].state # "unsent" ~> queue[m].state = "deleted"

=============================================================================
