-------------------------- MODULE MCWebhookIntake --------------------------
(***************************************************************************)
(* Three deliveries of event e1 and one each of e2 and of an invalid       *)
(* request.  Spread: no process receives the same event twice.  Together:  *)
(* one process receives everything.  MCIntakeEarly has two deliveries of   *)
(* e1 only, and commits that follow the responses.                         *)
(***************************************************************************)
EXTENDS WebhookIntake

CONSTANTS r1, r2, r3, other, forged, e1, e2, p1, p2, p3

MCEventOf == [r \in Requests |-> IF r = other THEN e2 ELSE e1]

Spread == [r \in Requests |-> CASE r = r1 -> p1 [] r = r2 -> p2 [] r = r3 -> p3
                              [] OTHER -> p1]

Together == [r \in Requests |-> p1]
=============================================================================
