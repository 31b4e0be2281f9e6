---------------------------- MODULE RunLifecycle ----------------------------
(***************************************************************************)
(* What the WorkflowRunRecord in Cosmos DB promises to whoever reads it    *)
(* (the server's routes, the command line, the change feed functions): the *)
(* order in which the statuses of a run and of its jobs may change, and    *)
(* which of them change together.  Nothing of the executor is visible.     *)
(***************************************************************************)
EXTENDS Naturals

CONSTANTS
  NumJobs,
  AnswersMayBeLost \* may an update take effect and yet raise?

Jobs == 1..NumJobs  \* in the order of execution (sort_jobs)

VARIABLE record     \* [status, jobs]

RunStatus == {"submitted", "running", "completed", "failed"}
JobStatus == {"pending", "running", "completed", "failed", "skipped", "cancelled"}

TypeOK == record \in [status : RunStatus, jobs : [Jobs -> JobStatus]]

Finished == {"completed", "skipped"}

Init == record = [status |-> "submitted", jobs |-> [j \in Jobs |-> "pending"]]

\* The run is given up: the submission failed, or the executor did, at any
\* point before the verdict: or after it, if the update that completed the run
\* took effect and yet raised.
GiveUp ==
  /\ record.status \in {"submitted", "running"} \/ (AnswersMayBeLost /\ record.status = "completed")
  /\ record' = [record EXCEPT !.status = "failed"]

Begin ==
  /\ record.status = "submitted"
  /\ record' = [record EXCEPT !.status = "running"]

\* Jobs run one at a time, each after all those before it have finished.
StartJob(j) ==
  /\ record.status = "running"
  /\ record.jobs[j] = "pending"
  /\ \A i \in 1..(j - 1) : record.jobs[i] \in Finished
  /\ record' = [record EXCEPT !.jobs[j] = "running"]

FinishJob(j) ==
  /\ record.status = "running"
  /\ record.jobs[j] = "running"
  /\ \E s \in Finished : record' = [record EXCEPT !.jobs[j] = s]

\* A failing job takes the run and the jobs still to come with it, at once.
FailJob(j) ==
  /\ record.status = "running"
  /\ record.jobs[j] = "running"
  /\ record' = [status |-> "failed",
                jobs   |-> [i \in Jobs |-> IF i = j THEN "failed"
                                           ELSE IF record.jobs[i] = "pending" THEN "cancelled"
                                           ELSE record.jobs[i]]]

Complete ==
  /\ record.status = "running"
  /\ \A j \in Jobs : record.jobs[j] \in Finished
  /\ record' = [record EXCEPT !.status = "completed"]

Next ==
  \/ GiveUp \/ Begin \/ Complete
  \/ \E j \in Jobs : StartJob(j) \/ FinishJob(j) \/ FailJob(j)

Spec == Init /\ [][Next]_record

=============================================================================
