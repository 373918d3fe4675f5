------------------------------ MODULE JobQueue ------------------------------
(***************************************************************************)
(* The jobs table of ProofLens and the operations of queue/queue.py on one *)
(* row of it.  A row is the part of a Job that decides what may happen to  *)
(* it next: its status, the attempts charged to its budget, and whether    *)
(* its scheduled_at has passed ("due").  The clock is abstracted to that   *)
(* bit: a row that fail() schedules in the future is not due until the     *)
(* environment lets time pass (Tick).                                      *)
(*                                                                         *)
(* Jobs are the (tenant, event) pairs that LSQ may send; the unique        *)
(* constraint on that pair gives each at most one row, so a job and its    *)
(* event are the same value here and "absent" is a row not inserted yet.   *)
(***************************************************************************)
EXTENDS Naturals, FiniteSets

CONSTANTS
  Jobs,         \* the (tenant_id, event_id) pairs that may be enqueued
  MaxAttempts   \* jobs.max_attempts (settings.queue_max_attempts)

ASSUME JobQueueAssumption == MaxAttempts \in Nat \ {0}

VARIABLE
  jobs          \* the committed rows of the jobs table

(***************************************************************************)
(* "failed" is a value of the JobStatus enum that claim_batch accepts and  *)
(* no code ever stores; it is kept so that Claimable reads as the query.   *)
(***************************************************************************)
Status == {"absent", "queued", "in_progress", "done", "failed", "dead_letter"}

Row == [status : Status, attempts : Nat, due : BOOLEAN]

(***************************************************************************)
(* The errors fail() tells apart: FatalError, ProviderOverloaded (529),    *)
(* RetryableError (429), and every other exception.                        *)
(***************************************************************************)
ErrorKind == {"fatal", "overloaded", "retryable", "other"}

AbsentRow == [status |-> "absent", attempts |-> 0, due |-> FALSE]

\* enqueue: the row a first delivery inserts
FreshRow == [status |-> "queued", attempts |-> 0, due |-> TRUE]

\* faulty variant: a query that also picks up jobs in progress
Claimable_InProgressToo(row) ==
  row.status \in {"queued", "failed", "in_progress"} /\ row.due

\* claim_batch: the WHERE clause
Claimable(row) == row.status \in {"queued", "failed"} /\ row.due

\* faulty variant: the attempt is charged and the status forgotten
Claimed_StatusKept(row) ==
  [status |-> row.status, attempts |-> row.attempts + 1, due |-> row.due]

\* claim_batch: the update of a selected row
Claimed(row) ==
  [status |-> "in_progress", attempts |-> row.attempts + 1, due |-> row.due]

\* complete
Completed(row) ==
  [status |-> "done", attempts |-> row.attempts, due |-> row.due]

\* fail: an overloaded provider is refunded its attempt
Charged(row, kind) ==
  IF kind = "overloaded" /\ row.attempts > 0 THEN row.attempts - 1
                                             ELSE row.attempts

\* faulty variant: a status the job_status enum does not have
DeadLetter_Unknown(row, n) ==
  [status |-> "dead", attempts |-> n, due |-> row.due]

\* fail: out of budget, or hopeless
DeadLetter(row, n) ==
  [status |-> "dead_letter", attempts |-> n, due |-> row.due]

\* faulty variant: > for >= on the budget
Failed_OneMore(row, kind) ==
  IF kind = "fatal" \/ Charged(row, kind) > MaxAttempts
    THEN DeadLetter(row, Charged(row, kind))
    ELSE [status |-> "queued", attempts |-> Charged(row, kind), due |-> FALSE]

\* faulty variant: a retry is rescheduled without leaving in_progress
Failed_NotRequeued(row, kind) ==
  IF kind = "fatal" \/ Charged(row, kind) >= MaxAttempts
    THEN DeadLetter(row, Charged(row, kind))
    ELSE [status |-> "in_progress", attempts |-> Charged(row, kind), due |-> FALSE]

(***************************************************************************)
(* fail: dead-letter at once on a FatalError (before any refund), dead-    *)
(* letter when the budget is spent, else reschedule with backoff.          *)
(***************************************************************************)
Failed(row, kind) ==
  IF kind = "fatal"
    THEN DeadLetter(row, row.attempts)
  ELSE IF Charged(row, kind) >= MaxAttempts
    THEN DeadLetter(row, Charged(row, kind))
    ELSE [status |-> "queued", attempts |-> Charged(row, kind), due |-> FALSE]

(***************************************************************************)
(* The actions on the table that are not a worker's.                       *)
(***************************************************************************)

\* faulty variant: a repeated delivery puts a finished job back in the queue
Enqueue_Reopens(j) ==
  /\ jobs[j].status \in {"absent", "done"}
  /\ jobs' = [jobs EXCEPT ![j] = FreshRow]

\* A webhook delivery whose transaction commits (module WebhookIntake has
\* the steps): a new event gets a row, a known one is left as it is.
Enqueue(j) ==
  /\ jobs[j].status = "absent"
  /\ jobs' = [jobs EXCEPT ![j] = FreshRow]

\* scheduled_at <= now() becomes true of a rescheduled row
Tick(j) ==
  /\ jobs[j].status = "queued"
  /\ ~jobs[j].due
  /\ jobs' = [jobs EXCEPT ![j] =
             [status |-> "queued", attempts |-> jobs[j].attempts, due |-> TRUE]]

\* faulty variant: a replay that does not reset attempts
Replay_BudgetKept(j) ==
  /\ jobs[j].status = "dead_letter"
  /\ jobs' = [jobs EXCEPT ![j] =
             [status |-> "queued", attempts |-> jobs[j].attempts, due |-> TRUE]]

\* The operator's replay of a dead letter (docs/RUNBOOK.md, "Jobs dead-lettering")
Replay(j) ==
  /\ jobs[j].status = "dead_letter"
  /\ jobs' = [jobs EXCEPT ![j] = FreshRow]

Terminal(j) == jobs[j].status \in {"done", "dead_letter"}
=============================================================================
