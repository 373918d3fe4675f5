-------------------------- MODULE DeliveryContract --------------------------
(***************************************************************************)
(* What LSQ is promised of its deliveries (queue/queue.py:1-6, the         *)
(* responses of lsq_webhook, api/app.py): an event enters the table once,  *)
(* on behalf of a valid delivery that is still waiting for its answer, it  *)
(* never leaves, and whoever is told accepted or duplicate is told so of   *)
(* an event that is there.  A delivery is answered at most once.           *)
(*                                                                         *)
(* Processes, event loops, lookups, transactions and deaths are absent:    *)
(* module WebhookIntake implements this one where the commit precedes the  *)
(* response.  It is the atomic insertion that Worker's Deliver stands for. *)
(***************************************************************************)
CONSTANTS Requests, EventOf, Invalid

VARIABLES
  known,   \* the events in the table
  told     \* the answer to each delivery

dvars == <<known, told>>

DInit ==
  /\ known = {}
  /\ told = [r \in Requests |-> "none"]

Acknowledgements == {"accepted", "duplicate"}

Store(r) ==
  /\ r \notin Invalid /\ EventOf[r] \notin known /\ told[r] = "none"
  /\ known' = known \cup {EventOf[r]}
  /\ UNCHANGED told

Tell(r, what) ==
  /\ told[r] = "none"
  /\ what \in Acknowledgements => r \notin Invalid /\ EventOf[r] \in known
  /\ what = "rejected" => r \in Invalid
  /\ told' = [told EXCEPT ![r] = what]
  /\ UNCHANGED known

DNext ==
  \E r \in Requests :
    \/ Store(r)
    \/ \E what \in Acknowledgements \cup {"rejected", "error"} : Tell(r, what)

DSpec == DInit /\ [][DNext]_dvars
=============================================================================
