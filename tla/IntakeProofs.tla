---------------------------- MODULE IntakeProofs ----------------------------
(***************************************************************************)
(* Deliveries of webhook events, for any number of deliveries, processes,  *)
(* deaths and refused commits: an event has one row at most, and, where    *)
(* the commit precedes the response, what is acknowledged is in the table. *)
(***************************************************************************)
EXTENDS WebhookIntake, FiniteSetTheorems, TLAPS

(* Whoever holds an uncommitted row has accepted its event and has not     *)
(* committed, holds it alone, and no row of that event is committed.       *)
HoldersAreAlone ==
  \A r \in holds :
    /\ pc[r] \in {"returned", "exiting"} /\ outcome[r] = "accepted"
    /\ rows[EventOf[r]] = 0
    /\ \A s \in holds : EventOf[s] = EventOf[r] => s = r

AtMostOneCommitted == \A e \in Events : rows[e] <= 1

(* What a handler has decided to say is true already, or will be when its  *)
(* transaction commits; afterwards it is true, and said only then.         *)
Promise(r) == outcome[r] \in {"accepted", "duplicate"}

PromisesAreKept ==
  \A r \in Requests :
    /\ pc[r] \in {"returned", "exiting"} /\ Promise(r) => r \in holds \/ Stored(r)
    /\ pc[r] = "exited" /\ Promise(r) => Stored(r)
    /\ answer[r] # "none" => pc[r] = "closed"
    /\ answer[r] \in {"accepted", "duplicate"} => Stored(r)

IInv == TypeOK /\ HoldersAreAlone /\ AtMostOneCommitted

(* No delivery has begun at the start.                                     *)
LEMMA IntakeInit == Init => IInv /\ PromisesAreKept
BY IntakeAssumption
   DEF Init, IInv, TypeOK, Outcome, HoldersAreAlone, AtMostOneCommitted, PromisesAreKept, Promise, Stored

(* Every step keeps types, the exclusive holders and the single row.       *)
LEMMA IntakeNext == IInv /\ [Next]_vars => IInv'
<1> SUFFICES ASSUME IInv, [Next]_vars
             PROVE  IInv'
  OBVIOUS
<1> USE IntakeAssumption DEF IInv, TypeOK, Outcome, HoldersAreAlone, AtMostOneCommitted, Go
<1>1. CASE UNCHANGED vars
  BY <1>1 DEF vars
<1>2. ASSUME NEW r \in Requests, Receive(r)
      PROVE  IInv'
  BY <1>2 DEF Receive, Return, KeepLoop
<1>3. ASSUME NEW r \in Requests, LookAgain(r)
      PROVE  IInv'
  BY <1>3 DEF LookAgain, Return
<1>4. ASSUME NEW r \in Requests, Insert(r)
      PROVE  IInv'
  BY <1>4 DEF Insert, Return, KeyFree, Stored
<1>5. ASSUME NEW r \in Requests, Respond(r)
      PROVE  IInv'
  BY <1>5 DEF Respond
<1>6. ASSUME NEW r \in Requests, BeginExit(r)
      PROVE  IInv'
  BY <1>6 DEF BeginExit
<1>7. ASSUME NEW r \in Requests, Exit(r)
      PROVE  IInv'
  BY <1>7 DEF Exit, AfterExit
<1>8. ASSUME NEW r \in Requests, ExitRefused(r)
      PROVE  IInv'
  BY <1>8 DEF ExitRefused, AfterExit
<1>9. ASSUME NEW p \in Processes, Crash(p)
      PROVE  IInv'
  BY <1>9 DEF Crash
<1> QED
  BY <1>1, <1>2, <1>3, <1>4, <1>5, <1>6, <1>7, <1>8, <1>9 DEF Next, Serve

(* Rows are never deleted.                                                 *)
LEMMA RowsStay ==
  ASSUME IInv, [Next]_vars, NEW r \in Requests, Stored(r)
  PROVE  Stored(r)'
<1> USE IntakeAssumption DEF IInv, TypeOK, Stored
<1>1. ASSUME NEW q \in Requests, Exit(q)
      PROVE  Stored(r)'
  BY <1>1 DEF Exit
<1>2. CASE ~\E q \in Requests : Exit(q)
  BY <1>2 DEF Next, Serve, vars, Receive, LookAgain, Insert, Respond, BeginExit, ExitRefused, Crash
<1> QED
  BY <1>1, <1>2

(* Where the commit precedes the response, no step breaks a promise.       *)
LEMMA PromisesNext ==
  ASSUME CommitFirst, IInv, PromisesAreKept, [Next]_vars
  PROVE  PromisesAreKept'
<1> USE IntakeAssumption DEF IInv, TypeOK, Outcome, PromisesAreKept, Promise, HoldersAreAlone, Go
<1>s. \A r \in Requests : Stored(r) => Stored(r)'
  BY RowsStay
<1>1. CASE UNCHANGED vars
  BY <1>1 DEF vars, Stored
<1>2. ASSUME NEW r \in Requests, Receive(r)
      PROVE  PromisesAreKept'
  BY <1>2, <1>s DEF Receive, Return
<1>3. ASSUME NEW r \in Requests, LookAgain(r)
      PROVE  PromisesAreKept'
  BY <1>3, <1>s DEF LookAgain, Return
<1>4. ASSUME NEW r \in Requests, Insert(r)
      PROVE  PromisesAreKept'
  BY <1>4, <1>s DEF Insert, Return
<1>5. ASSUME NEW r \in Requests, Respond(r)
      PROVE  PromisesAreKept'
  BY <1>5, <1>s DEF Respond
<1>6. ASSUME NEW r \in Requests, BeginExit(r)
      PROVE  PromisesAreKept'
  BY <1>6, <1>s DEF BeginExit
<1>7. ASSUME NEW r \in Requests, Exit(r)
      PROVE  PromisesAreKept'
  <2>1. r \in holds => Stored(r)'
    BY <1>7 DEF Exit, Stored
  <2> QED
    BY <1>7, <1>s, <2>1 DEF Exit, AfterExit
<1>8. ASSUME NEW r \in Requests, ExitRefused(r)
      PROVE  PromisesAreKept'
  BY <1>8, <1>s DEF ExitRefused, AfterExit
<1>9. ASSUME NEW p \in Processes, Crash(p)
      PROVE  PromisesAreKept'
  BY <1>9, <1>s DEF Crash
<1> QED
  BY <1>1, <1>2, <1>3, <1>4, <1>5, <1>6, <1>7, <1>8, <1>9 DEF Next, Serve

(* The inductive invariant of the intake.                                  *)
THEOREM IntakeInvariant == Spec => []IInv
BY IntakeInit, IntakeNext, PTL DEF Spec

(* A delivery is at a known stage with a known outcome, and every event    *)
(* loop is free or has one delivery.                                       *)
THEOREM IntakeTypeCorrect == Spec => []TypeOK
BY IntakeInvariant, PTL DEF IInv

(* "Enqueuing a duplicate event is a no-op": one row per event, committed  *)
(* or pending, however deliveries interleave, die or fail to commit.       *)
THEOREM OneRowTheorem == Spec => []OneRowPerEvent
<1>1. IInv => OneRowPerEvent
  <2> SUFFICES ASSUME IInv, NEW e \in Events
               PROVE  rows[e] + Cardinality({r \in holds : EventOf[r] = e}) <= 1
    BY DEF OneRowPerEvent
  <2> DEFINE pending == {r \in holds : EventOf[r] = e}
  <2>1. rows[e] \in Nat /\ rows[e] <= 1
    BY DEF IInv, TypeOK, AtMostOneCommitted
  <2>2. CASE pending = {}
    BY <2>1, <2>2, FS_EmptySet
  <2>3. CASE pending # {}
    <3>1. PICK r \in holds : EventOf[r] = e
      BY <2>3
    <3>2. pending = {r} /\ rows[e] = 0
      BY <3>1 DEF IInv, HoldersAreAlone
    <3>3. Cardinality({r}) = 1
      BY FS_Singleton
    <3> QED
      BY <3>2, <3>3
  <2> QED
    BY <2>2, <2>3
<1> QED
  BY <1>1, IntakeInvariant, PTL

(* An acknowledged event is in the table, with the versions of FastAPI     *)
(* that leave the dependency before they respond.                          *)
THEOREM AckedTheorem == CommitFirst => (Spec => []AckedIsStored)
<1> SUFFICES ASSUME CommitFirst
             PROVE  Spec => []AckedIsStored
  OBVIOUS
<1>1. IInv /\ PromisesAreKept /\ [Next]_vars => (IInv /\ PromisesAreKept)'
  BY IntakeNext, PromisesNext
<1>2. PromisesAreKept => AckedIsStored
  BY DEF PromisesAreKept, AckedIsStored
<1> QED
  BY IntakeInit, <1>1, <1>2, PTL DEF Spec

(* Only a valid delivery looks the table up, is accepted or called a       *)
(* duplicate; only an invalid one is rejected; whoever returned has decided.*)
OnlyTheValid ==
  \A r \in Requests :
    /\ pc[r] \in {"missed", "inserting"} => r \notin Invalid
    /\ Promise(r) => r \notin Invalid
    /\ outcome[r] = "rejected" => r \in Invalid
    /\ pc[r] \in {"returned", "exiting", "exited"} => outcome[r] # "none"

(* Every step keeps the valid and the invalid apart.                       *)
LEMMA ValidNext ==
  ASSUME IInv, OnlyTheValid, [Next]_vars
  PROVE  OnlyTheValid'
<1> USE IntakeAssumption DEF IInv, TypeOK, Outcome, OnlyTheValid, Promise, Go
<1>1. CASE UNCHANGED vars
  BY <1>1 DEF vars
<1>2. ASSUME NEW r \in Requests, Receive(r)
      PROVE  OnlyTheValid'
  BY <1>2 DEF Receive, Return
<1>3. ASSUME NEW r \in Requests, LookAgain(r)
      PROVE  OnlyTheValid'
  BY <1>3 DEF LookAgain, Return
<1>4. ASSUME NEW r \in Requests, Insert(r)
      PROVE  OnlyTheValid'
  BY <1>4 DEF Insert, Return
<1>5. ASSUME NEW r \in Requests, Respond(r) \/ BeginExit(r)
      PROVE  OnlyTheValid'
  BY <1>5 DEF Respond, BeginExit
<1>6. ASSUME NEW r \in Requests, Exit(r) \/ ExitRefused(r)
      PROVE  OnlyTheValid'
  BY <1>6 DEF Exit, ExitRefused, AfterExit
<1>7. ASSUME NEW p \in Processes, Crash(p)
      PROVE  OnlyTheValid'
  BY <1>7 DEF Crash
<1> QED
  BY <1>1, <1>2, <1>3, <1>4, <1>5, <1>6, <1>7 DEF Next, Serve

(* The commit of a holder is what enters its event into the table.         *)
LEMMA ExitStores ==
  ASSUME IInv, PromisesAreKept, OnlyTheValid, NEW r \in Requests, Exit(r)
  PROVE  Contract!Store(r) \/ UNCHANGED Contract!dvars
<1> DEFINE known == {e \in Events : rows[e] = 1}
<1>1. answer' = answer
  BY DEF Exit
<1>2. CASE r \notin holds
  BY <1>1, <1>2 DEF Exit, Contract!dvars
<1>3. CASE r \in holds
  <2>1. pc[r] = "exiting" /\ outcome[r] = "accepted" /\ rows[EventOf[r]] = 0
    BY <1>3 DEF Exit, IInv, HoldersAreAlone
  <2>2. r \notin Invalid /\ answer[r] = "none"
    BY <2>1 DEF OnlyTheValid, PromisesAreKept, Promise
  <2>3. EventOf[r] \in Events /\ rows \in [Events -> Nat]
    BY IntakeAssumption DEF IInv, TypeOK
  <2>4. rows' = [rows EXCEPT ![EventOf[r]] = @ + 1]
    BY <1>3 DEF Exit
  <2>5. \A e \in Events : rows'[e] = 1 <=> e = EventOf[r] \/ rows[e] = 1
    BY <2>1, <2>3, <2>4
  <2>6. known' = known \cup {EventOf[r]} /\ EventOf[r] \notin known
    BY <2>1, <2>3, <2>5
  <2> QED
    BY <1>1, <2>2, <2>6 DEF Contract!Store
<1> QED
  BY <1>2, <1>3

(* A response tells what the contract allows to be told.                   *)
LEMMA RespondTells ==
  ASSUME CommitFirst, IInv, PromisesAreKept, OnlyTheValid, NEW r \in Requests, Respond(r)
  PROVE  Contract!Tell(r, outcome[r])
<1>1. /\ pc[r] = "exited" /\ answer[r] = "none" /\ rows' = rows
      /\ answer' = [answer EXCEPT ![r] = outcome[r]]
  BY DEF Respond
<1>2. Promise(r) => r \notin Invalid /\ rows[EventOf[r]] > 0
  BY <1>1 DEF PromisesAreKept, OnlyTheValid, Stored
<1>3. /\ EventOf[r] \in Events /\ rows[EventOf[r]] \in Nat /\ rows[EventOf[r]] <= 1
  BY IntakeAssumption DEF IInv, TypeOK, AtMostOneCommitted
<1>4. Promise(r) => r \notin Invalid /\ EventOf[r] \in {e \in Events : rows[e] = 1}
  BY <1>2, <1>3
<1>5. outcome[r] = "rejected" => r \in Invalid
  BY DEF OnlyTheValid
<1> QED
  BY <1>1, <1>4, <1>5 DEF Contract!Tell, Contract!Acknowledgements, Promise

(* Every step of the intake is a step of the contract, or none.            *)
LEMMA IntakeSimulates ==
  ASSUME CommitFirst, IInv, PromisesAreKept, OnlyTheValid, [Next]_vars
  PROVE  [Contract!DNext]_(Contract!dvars)
<1>1. ASSUME NEW r \in Requests, Exit(r)
      PROVE  [Contract!DNext]_(Contract!dvars)
  BY <1>1, ExitStores DEF Contract!DNext
<1>2. ASSUME NEW r \in Requests, Respond(r)
      PROVE  [Contract!DNext]_(Contract!dvars)
  <2>1. outcome[r] \in Contract!Acknowledgements \cup {"rejected", "error"}
    BY <1>2 DEF Respond, IInv, TypeOK, Outcome, OnlyTheValid, Contract!Acknowledgements
  <2> QED
    BY <1>2, <2>1, RespondTells DEF Contract!DNext
<1>3. CASE ~\E r \in Requests : Exit(r) \/ Respond(r)
  <2>1. rows' = rows /\ answer' = answer
    BY <1>3 DEF Next, Serve, vars, Receive, LookAgain, Insert, BeginExit, ExitRefused, Crash
  <2> QED
    BY <2>1 DEF Contract!dvars
<1> QED
  BY <1>1, <1>2, <1>3

(* The intake implements the contract of its deliveries: the two lookups,  *)
(* the waiting INSERT and the commit are one atomic insertion, made before *)
(* the answer, on behalf of a valid delivery and never twice.              *)
THEOREM IntakeImplementsContract == CommitFirst => (Spec => ImplementsContract)
<1> SUFFICES ASSUME CommitFirst
             PROVE  Spec => ImplementsContract
  OBVIOUS
<1> DEFINE Inv == IInv /\ PromisesAreKept /\ OnlyTheValid
<1>1. Init => Inv /\ Contract!DInit
  <2>1. Init => OnlyTheValid
    BY DEF Init, OnlyTheValid, Promise
  <2>2. Init => Contract!DInit
    BY DEF Init, Contract!DInit
  <2> QED
    BY <2>1, <2>2, IntakeInit
<1>2. Inv /\ [Next]_vars => Inv'
  BY IntakeNext, PromisesNext, ValidNext
<1>3. Inv /\ [Next]_vars => [Contract!DNext]_(Contract!dvars)
  BY IntakeSimulates
<1> QED
  BY <1>1, <1>2, <1>3, PTL DEF Spec, ImplementsContract, Contract!DSpec
=============================================================================
