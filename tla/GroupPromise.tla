---------------------------- MODULE GroupPromise ----------------------------
(***************************************************************************)
(* What execute_job_partitions relies on when it hands a group of job      *)
(* partitions to a thread, and all it looks at when the thread is done:    *)
(* whether the thread raised, and each partition's state.  It takes the    *)
(* job for COMPLETED when no thread raised and no partition is FAILED.     *)
(***************************************************************************)
CONSTANT Partitions

VARIABLES
  phase,   \* of the thread: "active", "done" (returned) or "aborted" (raised)
  verdict  \* of each partition: "new", "succeeded" or "failed"

vars == <<phase, verdict>>

TypeOK ==
  /\ phase \in {"active", "done", "aborted"}
  /\ verdict \in [Partitions -> {"new", "succeeded", "failed"}]

Init ==
  /\ phase = "active"
  /\ verdict = [p \in Partitions |-> "new"]

\* Only a partition not settled yet can succeed.
Succeed(p) ==
  /\ phase = "active" /\ verdict[p] = "new"
  /\ verdict' = [verdict EXCEPT ![p] = "succeeded"]
  /\ UNCHANGED phase

\* A success may still be taken back, as a notification fails; a failure not.
Fail(p) ==
  /\ phase = "active"
  /\ verdict' = [verdict EXCEPT ![p] = "failed"]
  /\ UNCHANGED phase

Return ==
  /\ phase = "active"
  /\ \/ \E p \in Partitions : verdict[p] = "failed"
     \/ \A p \in Partitions : verdict[p] = "succeeded"
  /\ phase' = "done"
  /\ UNCHANGED verdict

Raise ==
  /\ phase = "active"
  /\ phase' = "aborted"
  /\ UNCHANGED verdict

Next == Return \/ Raise \/ \E p \in Partitions : Succeed(p) \/ Fail(p)

Spec == Init /\ [][Next]_vars

=============================================================================
