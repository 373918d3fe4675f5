---------------------------- MODULE JobContract ----------------------------
(***************************************************************************)
(* What ProofLens promises of a delivered event, whoever works on it       *)
(* (queue/queue.py:1-6, docs/ARCHITECTURE.md "PostgreSQL does triple duty" *)
(* and "Fail-open"): it is taken up at most MaxAttempts times per round,   *)
(* ends done or dead-lettered, is scored exactly once if it ends done, and *)
(* only an operator starts another round, and only of a dead letter.       *)
(*                                                                         *)
(* Workers, claims, transactions, LSQ and the clock are absent: module     *)
(* Worker implements this one by a refinement mapping.                     *)
(***************************************************************************)
EXTENDS Naturals

CONSTANTS Jobs, MaxAttempts

VARIABLES
  phase,    \* where each event is
  tries,    \* the attempts of the current round
  scored    \* how many verdicts are on record for it

cvars == <<phase, tries, scored>>

Phase == {"absent", "queued", "in_progress", "done", "dead_letter"}

CInit ==
  /\ phase = [j \in Jobs |-> "absent"]
  /\ tries = [j \in Jobs |-> 0]
  /\ scored = [j \in Jobs |-> 0]

Move(j, from, to) ==
  /\ phase[j] = from
  /\ phase' = [phase EXCEPT ![j] = to]

\* a first delivery of the event, or the operator's new round
Admit(j) ==
  /\ Move(j, "absent", "queued") \/ Move(j, "dead_letter", "queued")
  /\ tries' = [tries EXCEPT ![j] = 0]
  /\ UNCHANGED scored

\* some worker takes up a set of waiting events together
Take(S) ==
  /\ \A j \in S : phase[j] = "queued" /\ tries[j] < MaxAttempts
  /\ phase' = [j \in Jobs |-> IF j \in S THEN "in_progress" ELSE phase[j]]
  /\ tries' = [j \in Jobs |-> IF j \in S THEN tries[j] + 1 ELSE tries[j]]
  /\ UNCHANGED scored

\* the verdict goes on record together with the end of the job
Finish(j) ==
  /\ scored[j] = 0
  /\ Move(j, "in_progress", "done")
  /\ scored' = [scored EXCEPT ![j] = 1]
  /\ UNCHANGED tries

\* an attempt failed: charged, or refunded when the provider was overloaded
Charge(j) ==
  \/ UNCHANGED tries
  \/ tries[j] > 0 /\ tries' = [tries EXCEPT ![j] = @ - 1]

Retry(j) ==
  /\ Move(j, "in_progress", "queued")
  /\ Charge(j)
  /\ tries'[j] < MaxAttempts
  /\ UNCHANGED scored

GiveUp(j) ==
  /\ Move(j, "in_progress", "dead_letter")
  /\ Charge(j)
  /\ UNCHANGED scored

CNext ==
  \/ \E j \in Jobs : Admit(j) \/ Finish(j) \/ Retry(j) \/ GiveUp(j)
  \/ \E S \in SUBSET Jobs : Take(S)

CSpec == CInit /\ [][CNext]_cvars
=============================================================================
