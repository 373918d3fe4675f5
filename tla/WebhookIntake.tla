--------------------------- MODULE WebhookIntake ---------------------------
(***************************************************************************)
(* Webhook deliveries on their way to the jobs table: lsq_webhook          *)
(* (api/app.py), the get_repo dependency that commits it (api/deps.py),    *)
(* and enqueue (db/repo.py, queue/queue.py).                               *)
(*                                                                         *)
(* The handler is a coroutine that calls the database synchronously, so    *)
(* from its first lookup to its return it occupies the event loop of its   *)
(* process -- also while PostgreSQL makes its INSERT wait for another      *)
(* transaction that holds the same (tenant, event) key.  get_repo's exit   *)
(* (commit, or rollback after an exception) runs in a thread, which the    *)
(* event loop has to start.  FastAPI up to 0.117 runs that exit before it  *)
(* sends the response, later versions after; pyproject.toml accepts both.  *)
(***************************************************************************)
EXTENDS Naturals, FiniteSets

CONSTANTS
  Requests,     \* webhook deliveries
  Processes,    \* API processes, each with one event loop
  Events,       \* (tenant_id, event_id) keys
  EventOf,      \* the event a delivery carries
  ProcessOf,    \* the process that receives it
  Invalid,      \* deliveries with an unknown tenant, a bad signature or payload
  CommitFirst,  \* whether get_repo's exit runs before the response is sent
  Nobody,
  MaxRefused,   \* bound: commits refused by the database
  MaxCrashes    \* bound: process deaths

ASSUME IntakeAssumption ==
  /\ EventOf \in [Requests -> Events]
  /\ ProcessOf \in [Requests -> Processes]
  /\ Invalid \subseteq Requests
  /\ CommitFirst \in BOOLEAN
  /\ Nobody \notin Requests
  /\ MaxRefused \in Nat /\ MaxCrashes \in Nat

VARIABLES
  pc,        \* where each delivery is
  outcome,   \* what its handler decided
  answer,    \* the response LSQ received
  holds,     \* deliveries whose transaction holds an uncommitted row
  rows,      \* committed rows of the jobs table, per event
  loop,      \* the handler that occupies each event loop
  refused, crashes

vars == <<pc, outcome, answer, holds, rows, loop, refused, crashes>>

Outcome == {"none", "accepted", "duplicate", "error", "rejected"}

TypeOK ==
  /\ pc \in [Requests -> {"sent", "missed", "inserting", "returned", "exiting",
                          "exited", "closed"}]
  /\ outcome \in [Requests -> Outcome]
  /\ answer \in [Requests -> Outcome]
  /\ holds \subseteq Requests
  /\ rows \in [Events -> Nat]
  /\ loop \in [Processes -> Requests \cup {Nobody}]
  /\ refused \in Nat /\ crashes \in Nat

Init ==
  /\ pc = [r \in Requests |-> "sent"]
  /\ outcome = [r \in Requests |-> "none"]
  /\ answer = [r \in Requests |-> "none"]
  /\ holds = {}
  /\ rows = [e \in Events |-> 0]
  /\ loop = [p \in Processes |-> Nobody]
  /\ refused = 0 /\ crashes = 0
-----------------------------------------------------------------------------
Stored(r) == rows[EventOf[r]] > 0

LoopFree(r) == loop[ProcessOf[r]] = Nobody

Go(r, to) == pc' = [pc EXCEPT ![r] = to]

\* the handler goes on, keeping the event loop
KeepLoop(r) == loop' = [loop EXCEPT ![ProcessOf[r]] = r]

\* the handler returns or raises: its coroutine gives the event loop up
Return(r, what) ==
  /\ Go(r, "returned")
  /\ outcome' = [outcome EXCEPT ![r] = what]
  /\ loop' = [loop EXCEPT ![ProcessOf[r]] = Nobody]

\* lsq_webhook up to PostgresRepo.enqueue's own lookup
Receive(r) ==
  /\ pc[r] = "sent"
  /\ LoopFree(r)
  /\ \/ r \in Invalid /\ Return(r, "rejected")
     \/ r \notin Invalid /\ Stored(r) /\ Return(r, "duplicate")
     \/ /\ r \notin Invalid /\ ~Stored(r)
        /\ Go(r, "missed") /\ KeepLoop(r) /\ UNCHANGED outcome
  /\ UNCHANGED <<answer, holds, rows, refused, crashes>>

\* queue.enqueue's second lookup; a row found only now is reported as created
LookAgain(r) ==
  /\ pc[r] = "missed"
  /\ \/ Stored(r) /\ Return(r, "accepted")
     \/ ~Stored(r) /\ Go(r, "inserting") /\ UNCHANGED <<outcome, loop>>
  /\ UNCHANGED <<answer, holds, rows, refused, crashes>>

\* an uncommitted row with the same key makes the INSERT wait
KeyFree(r) == \A q \in holds : EventOf[q] # EventOf[r]

\* faulty variant: no unique constraint on (tenant_id, event_id)
Insert_NoConstraint(r) ==
  /\ pc[r] = "inserting"
  /\ Return(r, "accepted") /\ holds' = holds \cup {r}
  /\ UNCHANGED <<answer, rows, refused, crashes>>

\* faulty variant: the acknowledgement carries the new job's status
Insert_JobStatus(r) ==
  /\ pc[r] = "inserting"
  /\ KeyFree(r)
  /\ \/ Stored(r) /\ Return(r, "error") /\ UNCHANGED holds
     \/ ~Stored(r) /\ Return(r, "queued") /\ holds' = holds \cup {r}
  /\ UNCHANGED <<answer, rows, refused, crashes>>

\* the flush of the new row, under the unique constraint
Insert(r) ==
  /\ pc[r] = "inserting"
  /\ KeyFree(r)
  /\ \/ Stored(r) /\ Return(r, "error") /\ UNCHANGED holds
     \/ ~Stored(r) /\ Return(r, "accepted") /\ holds' = holds \cup {r}
  /\ UNCHANGED <<answer, rows, refused, crashes>>
-----------------------------------------------------------------------------
\* the response leaves before get_repo's exit, or after it
Respond(r) ==
  /\ pc[r] = (IF CommitFirst THEN "exited" ELSE "returned")
  /\ answer[r] = "none"
  /\ LoopFree(r)
  /\ answer' = [answer EXCEPT ![r] = outcome[r]]
  /\ IF CommitFirst THEN Go(r, "closed") ELSE UNCHANGED pc
  /\ UNCHANGED <<outcome, holds, rows, loop, refused, crashes>>

\* the event loop hands get_repo's exit to a thread
BeginExit(r) ==
  /\ pc[r] = "returned"
  /\ CommitFirst \/ answer[r] # "none"
  /\ LoopFree(r)
  /\ Go(r, "exiting")
  /\ UNCHANGED <<outcome, answer, holds, rows, loop, refused, crashes>>

AfterExit == IF CommitFirst THEN "exited" ELSE "closed"

\* faulty variant: get_repo forgets its commit
Exit_NoCommit(r) ==
  /\ pc[r] = "exiting"
  /\ holds' = holds \ {r}
  /\ Go(r, AfterExit)
  /\ UNCHANGED <<outcome, answer, rows, loop, refused, crashes>>

\* faulty variant: get_repo leaves the transaction open
Exit_NeverEnds(r) ==
  /\ pc[r] = "exiting" /\ r \notin holds
  /\ Go(r, AfterExit)
  /\ UNCHANGED <<outcome, answer, holds, rows, loop, refused, crashes>>

\* get_repo's exit in its thread: commit (or rollback, which leaves no row)
Exit(r) ==
  /\ pc[r] = "exiting"
  /\ rows' = IF r \in holds THEN [rows EXCEPT ![EventOf[r]] = @ + 1] ELSE rows
  /\ holds' = holds \ {r}
  /\ Go(r, AfterExit)
  /\ UNCHANGED <<outcome, answer, loop, refused, crashes>>

\* the commit raises and the transaction is rolled back; the client is told
\* so only if it has no response yet
ExitRefused(r) ==
  /\ pc[r] = "exiting"
  /\ refused < MaxRefused
  /\ refused' = refused + 1
  /\ holds' = holds \ {r}
  /\ outcome' = [outcome EXCEPT ![r] = "error"]
  /\ Go(r, AfterExit)
  /\ UNCHANGED <<answer, rows, loop, crashes>>

\* the process dies: its connections and open transactions go with it
Crash(p) ==
  /\ crashes < MaxCrashes
  /\ crashes' = crashes + 1
  /\ LET hit == {r \in Requests : ProcessOf[r] = p /\ pc[r] # "sent"} IN
       /\ pc' = [r \in Requests |-> IF r \in hit THEN "closed" ELSE pc[r]]
       /\ holds' = holds \ hit
  /\ loop' = [loop EXCEPT ![p] = Nobody]
  /\ UNCHANGED <<outcome, answer, rows, refused>>

Serve(r) ==
  \/ Receive(r) \/ LookAgain(r) \/ Insert(r)
  \/ Respond(r) \/ BeginExit(r) \/ Exit(r) \/ ExitRefused(r)

Next == (\E r \in Requests : Serve(r)) \/ (\E p \in Processes : Crash(p))

Spec == Init /\ [][Next]_vars

\* the event loop and its threads run whatever is ready
FairSpec == Spec /\ \A r \in Requests : WF_vars(Serve(r))
-----------------------------------------------------------------------------
\* "enqueuing a duplicate event is a no-op" (queue/queue.py:4): however its
\* deliveries interleave, an event has at most one row, committed or pending.
OneRowPerEvent ==
  \A e \in Events :
    rows[e] + Cardinality({r \in holds : EventOf[r] = e}) <= 1

\* LSQ is told accepted or duplicate only of an event that is in the table when
\* the request is over: no acknowledged event is lost.  True where the commit
\* precedes the response, false where it follows.
AckedIsStored ==
  \A r \in Requests :
    (pc[r] = "closed" /\ answer[r] \in {"accepted", "duplicate"}) => Stored(r)

\* "Ack fast" (api/app.py:138): every delivery the server began on is answered,
\* unless its process died.
EventuallyAnswered ==
  \A r \in Requests :
    pc[r] \notin {"sent", "closed"} ~> (answer[r] # "none" \/ pc[r] = "closed")

\* Seen from outside, the deliveries are those of module DeliveryContract (where
\* the commit precedes the response): an event is known when it has its one row.
Contract == INSTANCE DeliveryContract WITH
  known <- {e \in Events : rows[e] = 1},
  told  <- answer

ImplementsContract == Contract!DSpec
=============================================================================
