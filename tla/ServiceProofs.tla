---------------------------- MODULE ServiceProofs ----------------------------
(***************************************************************************)
(* For any number of requests of every kind: the duplicate gate of the score *)
(* endpoint and the bulk rows, the tenant's org map, the reviews and their *)
(* audit entries, and what a key still gives access to once it, or its     *)
(* tenant, is switched off.                                                *)
(***************************************************************************)
EXTENDS Service, FiniteSetTheorems, TLAPS

IsTxn(t) ==
    t = [tenant |-> t.tenant, at |-> t.at, locks |-> t.locks, read |-> t.read, write |-> t.write]

(* The functions and records the variables are made of.                    *)
Shape ==
    /\ clock = [tick |-> clock.tick, serial |-> clock.serial] /\ clock.serial \in Int
    /\ pc = [q \in Requests |-> pc[q]]
    /\ txn = [q \in Requests |-> txn[q]]
    /\ reply = [q \in Requests |-> reply[q]]
    /\ results = [id \in DOMAIN results |-> results[id]]
    /\ \A id \in DOMAIN results : IsRow(results[id]) /\ results[id].id = id

(* The photo of a tenant and a remembered hash are within the thresholds.  *)
Alike(tenant, image, h) ==
    Hash[image] # None /\ h.tenant = tenant /\ Likeness(Hash[image], h.hash) # "new"

(* Of the hashes S, one that the photo resembles has a number below n.     *)
Recalls(S, tenant, image, n) == \E h \in S : Alike(tenant, image, h) /\ h.n < n

(* So many hashes of S are newer than h that no lookup reads it.           *)
Behind(S, h) == Cardinality({g \in S : g.tenant = h.tenant /\ g.n > h.n}) >= MaxCandidates

(* A request that has found nothing its photo resembles.                   *)
LooksFresh(q) == \/ pc[q] = "ask" /\ txn[q].read = "new"
                 \/ pc[q] = "exit" /\ txn[q].write.code # "recycled"

(* What its photo resembles was recorded after q's transaction began, or   *)
(* is out of reach.                                                        *)
Unnoticed(q) ==
    \A h \in hashes : Alike(txn[q].tenant, call[q].image, h) =>
       Behind(hashes, h) \/ (h.id \in Requests /\ reply[h.id].done >= txn[q].at.n)

(* Where a scoring request may be, and what it carries there.              *)
Flow(q) ==
    /\ pc[q] \in {"new", "admitted", "run", "look", "ask", "exit", "closed"}
    /\ pc[q] # "closed" => reply[q] = NoReply /\ q \notin DOMAIN results
    /\ pc[q] \in {"run", "look", "ask", "exit"} =>
          IsTxn(txn[q]) /\ txn[q].at.n \in Int /\ txn[q].at.n <= clock.serial
    /\ pc[q] = "ask" =>
          \/ txn[q].read = "new"
          \/ txn[q].read = "near"
             /\ Recalls(hashes, txn[q].tenant, call[q].image, clock.serial + 1)
    /\ pc[q] = "exit" =>
          /\ IsRow(txn[q].write) /\ txn[q].write.id = q
          /\ txn[q].write.tenant = txn[q].tenant
          /\ txn[q].write.image = call[q].image
          /\ txn[q].write.at = txn[q].at
          /\ txn[q].read \in Int /\ txn[q].read <= clock.serial
          /\ txn[q].write.code = "recycled" =>
                Recalls(hashes, txn[q].tenant, call[q].image, txn[q].read)
    /\ LooksFresh(q) => Unnoticed(q)

(* The results of this behaviour's requests.                               *)
Kept ==
    /\ \A q \in Requests : q \in DOMAIN results =>
          /\ IsScoring(q) /\ pc[q] = "closed"
          /\ reply[q].status = 200 /\ reply[q].code = results[q].code
          /\ reply[q].done \in Int
          /\ results[q].at.n \in Int /\ results[q].at.n <= clock.serial
          /\ results[q].image = call[q].image
    /\ \A q \in Requests : IsScoring(q) /\ reply[q].status = 200 => q \in DOMAIN results

(* q's photo is remembered, a recycled one after a photo it resembles.     *)
Remembers(q) ==
    \E own \in hashes :
       /\ own.id = q
       /\ results[q].code = "recycled" =>
             Recalls(hashes, results[q].tenant, results[q].image, own.n)

(* The hash store: what was there, and the photos on record that have one. *)
Store ==
    /\ IsFiniteSet(hashes) /\ Seeds.hashes \subseteq hashes
    /\ \A h \in hashes : h.n \in Int /\ h.n <= clock.serial
    /\ \A h \in hashes \ Seeds.hashes :
          /\ h.id \in Requests /\ h.id \in DOMAIN results
          /\ results[h.id].tenant = h.tenant /\ Hash[results[h.id].image] = h.hash
    /\ \A q \in Requests : q \in DOMAIN results =>
          /\ Hash[call[q].image] # None => Remembers(q)
          /\ results[q].code = "recycled" => Remembers(q)

(* The inductive invariant.                                                *)
GateInv ==
    /\ Shape
    /\ \A q \in Requests : IsScoring(q) => Flow(q)
    /\ Kept
    /\ Store
    /\ LateCopiesAreCaught

(* ---- the steps that only move one request ------------------------------ *)

Moves(q) ==
    /\ pc' = [pc EXCEPT ![q] = pc'[q]]
    /\ txn' = [txn EXCEPT ![q] = txn'[q]]
    /\ reply' = [reply EXCEPT ![q] = reply'[q]]
    /\ early' = early

Quiet(q) ==
    /\ Moves(q)
    /\ pc[q] # "closed"
    /\ results' = results /\ hashes' = hashes /\ call' = call
    /\ clock' = clock \/ NextSerial

(* A handler that goes on to its next stage moves its own request only.    *)
LEMMA GoesMoves ==
  ASSUME Shape, NEW q \in Requests, NEW stage, NEW t, Goes(q, stage, t)
  PROVE  Moves(q) /\ pc'[q] = stage /\ txn'[q] = t /\ reply'[q] = reply[q]
BY DEF Shape, Goes, Moves

(* So does one that answers: its transaction is over.                      *)
LEMMA AnswersMoves ==
  ASSUME Shape, NEW q \in Requests, NEW r, Answers(q, r)
  PROVE  Moves(q) /\ pc'[q] = "closed" /\ txn'[q] = NoTxn /\ reply'[q] = r
BY DEF Shape, Answers, Moves

(* A step that moves one request keeps the shape, and no serial goes back. *)
LEMMA ShapeKept ==
  ASSUME Shape, NEW q \in Requests, Moves(q), clock' = clock \/ NextSerial,
         results' = results
  PROVE  Shape' /\ clock.serial <= clock'.serial
<1>1. /\ clock' = [tick |-> clock'.tick, serial |-> clock'.serial]
      /\ clock'.serial \in Int /\ clock.serial <= clock'.serial
  <2>1. CASE clock' = clock
    BY <2>1 DEF Shape
  <2>2. CASE NextSerial
    <3>1. clock' = [tick |-> clock.tick, serial |-> clock.serial + 1]
      BY <2>2 DEF NextSerial, Shape
    <3> QED
      BY <3>1 DEF Shape
  <2> QED
    BY <2>1, <2>2
<1>2. /\ pc' = [p \in Requests |-> pc'[p]]
      /\ txn' = [p \in Requests |-> txn'[p]]
      /\ reply' = [p \in Requests |-> reply'[p]]
  BY DEF Shape, Moves
<1> QED
  BY <1>1, <1>2 DEF Shape, IsRow

(* A step that records nothing keeps the gate, if a scoring request that   *)
(* takes it still flows and is not answered with a verdict.                *)
LEMMA QuietStep ==
  ASSUME GateInv, NEW q \in Requests, Quiet(q),
         IsScoring(q) => Flow(q)' /\ reply'[q].status # 200
  PROVE  GateInv'
<1>1. Shape' /\ clock.serial <= clock'.serial
  BY ShapeKept DEF GateInv, Quiet
<1>2. q \notin DOMAIN results
  BY DEF GateInv, Kept, Quiet
<1>3. /\ \A p \in Requests \ {q} :
            pc'[p] = pc[p] /\ txn'[p] = txn[p] /\ reply'[p] = reply[p]
      /\ results' = results /\ hashes' = hashes /\ call' = call
      /\ clock.serial \in Int /\ clock'.serial \in Int
  BY <1>1 DEF GateInv, Shape, Moves, Quiet
<1>4. \A p \in Requests : IsScoring(p)' = IsScoring(p)
  BY <1>3 DEF IsScoring, Op
<1>5. ASSUME NEW p \in Requests, IsScoring(p)'
      PROVE  Flow(p)'
  <2>1. CASE p = q
    BY <2>1, <1>4, <1>5
  <2>2. CASE p # q
    <3>1. Flow(p)
      BY <1>4, <1>5 DEF GateInv
    <3>2. (LooksFresh(p) => Unnoticed(p))'
      <4>1. \A h \in hashes : h.id \in Requests /\ h \notin Seeds.hashes => h.id # q
        BY <1>2 DEF GateInv, Store
      <4>2. \A h \in Seeds.hashes : h.id \notin Requests
        BY SeedsAssumption
      <4>3. \A h \in hashes : h.id \in Requests => reply'[h.id] = reply[h.id]
        BY <1>3, <4>1, <4>2
      <4> QED
        BY <1>3, <2>2, <3>1, <4>3 DEF Flow, LooksFresh, Unnoticed
    <3>3. (pc[p] \in {"run", "look", "ask", "exit"} =>
             IsTxn(txn[p]) /\ txn[p].at.n \in Int /\ txn[p].at.n <= clock.serial)'
      BY <1>1, <1>3, <2>2, <3>1 DEF Flow, IsTxn
    <3>4. (pc[p] = "ask" =>
             \/ txn[p].read = "new"
             \/ txn[p].read = "near"
                /\ Recalls(hashes, txn[p].tenant, call[p].image, clock.serial + 1))'
      <4>1. \A h \in hashes : h.n \in Int
        BY DEF GateInv, Store
      <4> QED
        BY <1>1, <1>3, <2>2, <3>1, <4>1 DEF Flow, Recalls
    <3>5. (pc[p] = "exit" => txn[p].read \in Int /\ txn[p].read <= clock.serial)'
      BY <1>1, <1>3, <2>2, <3>1 DEF Flow
    <3> QED
      BY <1>3, <2>2, <3>1, <3>2, <3>3, <3>4, <3>5 DEF Flow, IsRow
  <2> QED
    BY <2>1, <2>2
<1>6. Kept'
  <2>1. (\A p \in Requests : p \in DOMAIN results =>
           /\ IsScoring(p) /\ pc[p] = "closed"
           /\ reply[p].status = 200 /\ reply[p].code = results[p].code
           /\ reply[p].done \in Int
           /\ results[p].at.n \in Int /\ results[p].at.n <= clock.serial
           /\ results[p].image = call[p].image)'
    BY <1>1, <1>2, <1>3, <1>4 DEF GateInv, Kept
  <2>2. (\A p \in Requests : IsScoring(p) /\ reply[p].status = 200 => p \in DOMAIN results)'
    BY <1>3, <1>4 DEF GateInv, Kept
  <2> QED
    BY <2>1, <2>2 DEF Kept
<1>7. Store'
  BY <1>1, <1>3 DEF GateInv, Store, Remembers
<1>8. LateCopiesAreCaught'
  BY <1>2, <1>3, SeedsAssumption DEF GateInv, Store, LateCopiesAreCaught, Stored, Resembles, Outdated
<1> QED
  BY <1>1, <1>5, <1>6, <1>7, <1>8 DEF GateInv

(* A step that belongs to no scoring request.                              *)
LEMMA OtherStep ==
  ASSUME GateInv, NEW q \in Requests, Quiet(q), ~IsScoring(q)
  PROVE  GateInv'
BY QuietStep

(* ---- the middlewares, keys and tenants --------------------------------- *)

(* The middlewares: a request goes on to its key, or is turned away.       *)
LEMMA ArriveStep ==
  ASSUME GateInv, NEW q \in Requests, Arrive(q)
  PROVE  GateInv'
<1>1. Shape /\ (IsScoring(q) => Flow(q))
  BY DEF GateInv
<1>2. /\ Quiet(q)
      /\ pc'[q] \in {"admitted", "closed"}
      /\ pc'[q] = "admitted" => reply'[q] = reply[q]
      /\ pc'[q] = "closed" => reply'[q].status # 200
  BY <1>1, GoesMoves, AnswersMoves DEF Arrive, Quiet, tables
<1>3. IsScoring(q) => Flow(q)' /\ reply'[q].status # 200
  BY <1>1, <1>2 DEF Flow, LooksFresh, Arrive, NoReply, Quiet
<1> QED
  BY <1>2, <1>3, QuietStep

(* What a transaction carries when it has just begun.                      *)
LEMMA BeganIsATxn ==
  ASSUME NEW tenant
  PROVE  /\ IsTxn(Began(tenant)) /\ Began(tenant).tenant = tenant
         /\ Began(tenant).at.n = clock.serial + 1
BY DEF IsTxn, Began, Stamp

(* The key is looked up and the request's transaction begins.              *)
LEMMA RequireTenantStep ==
  ASSUME GateInv, NEW q \in Requests, RequireTenant(q)
  PROVE  GateInv'
<1>1. Shape /\ (IsScoring(q) => Flow(q))
  BY DEF GateInv
<1>2. /\ Quiet(q) /\ NextSerial /\ pc[q] = "admitted"
      /\ \/ pc'[q] = "closed" /\ reply'[q].status # 200
         \/ /\ pc'[q] = "run" /\ reply'[q] = reply[q]
            /\ txn'[q] = Began(TenantForApiKey(call[q].key))
  BY <1>1, GoesMoves, AnswersMoves DEF RequireTenant, Quiet, tables
<1>3. clock'.serial = clock.serial + 1 /\ clock.serial \in Int
  BY <1>1, <1>2 DEF NextSerial, Shape
<1>4. IsScoring(q) => Flow(q)' /\ reply'[q].status # 200
  <2>1. CASE pc'[q] = "closed"
    BY <2>1, <1>2 DEF Flow, LooksFresh
  <2>2. CASE pc'[q] = "run"
    <3>1. IsTxn(txn[q])' /\ txn'[q].at.n = clock.serial + 1
      BY <1>2, <2>2, BeganIsATxn DEF IsTxn
    <3> QED
      BY <1>1, <1>2, <1>3, <2>2, <3>1 DEF Flow, LooksFresh, NoReply, Quiet
  <2> QED
    BY <1>2, <2>1, <2>2
<1> QED
  BY <1>2, <1>4, QuietStep

(* Scripts and administrators.                                             *)
LEMMA AdministrationStep ==
  ASSUME GateInv, NEW q \in Requests,
         \/ MintKey(q) \/ RevokeKey(q) \/ CommitKey(q)
         \/ LookUpTenant(q) \/ InsertTenant(q) \/ UpdateTenant(q) \/ CommitTenant(q)
  PROVE  GateInv'
<1>1. Shape
  BY DEF GateInv
<1>2. ~IsScoring(q)
  BY DEF MintKey, RevokeKey, CommitKey, LookUpTenant, InsertTenant, UpdateTenant, CommitTenant,
         AdminOps, IsScoring
<1>3. CASE MintKey(q) \/ RevokeKey(q) \/ LookUpTenant(q)
  <2>1. Quiet(q)
    BY <1>1, <1>3, GoesMoves, AnswersMoves DEF MintKey, RevokeKey, LookUpTenant, Quiet, tables
  <2> QED
    BY <2>1, <1>2, OtherStep
<1>4. CASE CommitKey(q) \/ CommitTenant(q)
  <2>1. Quiet(q)
    BY <1>1, <1>4, AnswersMoves DEF CommitKey, CommitTenant, Quiet, ambient
  <2> QED
    BY <2>1, <1>2, OtherStep
<1>5. CASE InsertTenant(q) \/ UpdateTenant(q)
  <2>1. Quiet(q)
    BY <1>1, <1>5, GoesMoves, AnswersMoves DEF InsertTenant, UpdateTenant, Quiet, tables, ambient
  <2> QED
    BY <2>1, <1>2, OtherStep
<1> QED
  BY <1>3, <1>4, <1>5

(* ---- records and reports ----------------------------------------------- *)

(* Reviews up to their commit, listings and the org map leave results and  *)
(* hashes alone.                                                           *)
LEMMA RecordsStep ==
  ASSUME GateInv, NEW q \in Requests, RecordStep(q), ~CommitReview(q)
  PROVE  GateInv'
<1>1. Shape /\ (IsScoring(q) => pc[q] \in {"new", "admitted", "run", "look", "ask", "exit", "closed"})
  BY DEF GateInv, Flow
<1>2. CASE LoadForReview(q) \/ WriteReview(q) \/ GetResult(q)
  <2>1. Quiet(q) /\ ~IsScoring(q)
    BY <1>1, <1>2, GoesMoves, AnswersMoves
       DEF LoadForReview, WriteReview, GetResult, Quiet, tables, ambient, IsScoring
  <2> QED
    BY <2>1, OtherStep
<1>3. CASE CountResults(q)
  <2>1. Quiet(q) /\ ~IsScoring(q)
    BY <1>1, <1>3, GoesMoves, AnswersMoves DEF CountResults, Quiet, tables, IsScoring
  <2> QED
    BY <2>1, OtherStep
<1>4. CASE ListPage(q) \/ ListUnderNode(q)
  <2>1. ASSUME NEW rows, NEW total, GetsPage(q, rows, total)
        PROVE  Moves(q)
    BY <1>1, <2>1, GoesMoves, AnswersMoves DEF GetsPage
  <2>2. Quiet(q) /\ ~IsScoring(q)
    BY <1>4, <2>1 DEF ListPage, ListUnderNode, Quiet, tables, IsScoring
  <2> QED
    BY <2>2, OtherStep
<1>5. CASE StartUpload(q) \/ ReadStatusRows(q)
  <2>1. Quiet(q) /\ ~IsScoring(q)
    BY <1>1, <1>5, GoesMoves, AnswersMoves DEF StartUpload, ReadStatusRows, Quiet, tables, IsScoring
  <2> QED
    BY <2>1, OtherStep
<1>6. CASE StartDelete(q) \/ DeleteAndInsert(q) \/ PreviewUpload(q) \/ ReadStatusReps(q)
  <2>1. Quiet(q) /\ ~IsScoring(q)
    BY <1>1, <1>6, GoesMoves, AnswersMoves
       DEF StartDelete, DeleteAndInsert, PreviewUpload, ReadStatusReps, Quiet, tables, ambient
  <2> QED
    BY <2>1, OtherStep
<1>7. CASE CommitUpload(q)
  <2>1. Quiet(q) /\ ~IsScoring(q)
    BY <1>1, <1>7, AnswersMoves DEF CommitUpload, Quiet, ambient, IsScoring
  <2> QED
    BY <2>1, OtherStep
<1> QED
  BY <1>2, <1>3, <1>4, <1>5, <1>6, <1>7 DEF RecordStep

(* Reports only read.                                                      *)
LEMMA ReportsStep ==
  ASSUME GateInv, NEW q \in Requests, ReportStep(q)
  PROVE  GateInv'
<1>1. Shape /\ (IsScoring(q) => pc[q] \in {"new", "admitted", "run", "look", "ask", "exit", "closed"})
  BY DEF GateInv, Flow
<1>2. ASSUME NEW stage, NEW what, Reads(q, stage, what)
      PROVE  Moves(q) /\ UNCHANGED <<tables, ambient>>
  BY <1>1, <1>2, GoesMoves DEF Reads
<1>3. CASE CountItems(q) \/ ReadAgentRows(q)
  <2>1. Quiet(q) /\ ~IsScoring(q)
    BY <1>1, <1>2, <1>3, AnswersMoves
       DEF CountItems, ReadAgentRows, Quiet, tables, ambient, IsScoring
  <2> QED
    BY <2>1, OtherStep
<1>4. CASE FetchItems(q) \/ CountPrevious(q) \/ FetchPrevious(q) \/ CountAgent(q) \/ FetchAgent(q)
  <2>1. pc[q] \in {"items", "before", "previous", "count", "fetch"}
    BY <1>4 DEF FetchItems, CountPrevious, FetchPrevious, CountAgent, FetchAgent
  <2>2. \E stage, what : Reads(q, stage, what)
    BY <1>4 DEF FetchItems, CountPrevious, FetchPrevious, CountAgent, FetchAgent
  <2>3. Moves(q) /\ UNCHANGED <<tables, ambient>>
    BY <2>2, <1>2
  <2>4. Quiet(q) /\ ~IsScoring(q)
    BY <1>1, <2>1, <2>3 DEF Quiet, tables, ambient
  <2> QED
    BY <2>4, OtherStep
<1>5. CASE ReadMap(q) \/ LookForAny(q) \/ ShowCard(q)
  <2>1. Quiet(q) /\ ~IsScoring(q)
    BY <1>1, <1>2, <1>5, AnswersMoves
       DEF ReadMap, LookForAny, ShowCard, Quiet, tables, ambient, IsScoring
  <2> QED
    BY <2>1, OtherStep
<1> QED
  BY <1>3, <1>4, <1>5 DEF ReportStep

(* ---- scoring ----------------------------------------------------------- *)

(* Getting a place: the transaction t goes on to the lookup, or a 503.     *)
LEMMA PlaceStep ==
  ASSUME GateInv, NEW q \in Requests, IsScoring(q), NEW t, TakesPlace(q, t),
         UNCHANGED <<results, hashes, call>>, clock' = clock \/ NextSerial,
         pc[q] # "closed", IsTxn(t), t.at.n \in Int, t.at.n <= clock'.serial
  PROVE  GateInv'
<1>1. Shape /\ Flow(q)
  BY DEF GateInv
<1>2. /\ Quiet(q)
      /\ \/ pc'[q] = "closed" /\ reply'[q].status # 200
         \/ pc'[q] = "look" /\ reply'[q] = reply[q] /\ txn'[q] = t
  BY <1>1, GoesMoves, AnswersMoves DEF TakesPlace, Quiet
<1>3. Flow(q)' /\ reply'[q].status # 200
  <2>1. CASE pc'[q] = "closed"
    BY <2>1, <1>2 DEF Flow, LooksFresh
  <2>2. CASE pc'[q] = "look"
    <3>1. IsTxn(txn[q])'
      BY <1>2, <2>2 DEF IsTxn
    <3> QED
      BY <1>1, <1>2, <2>2, <3>1 DEF Flow, LooksFresh, NoReply
  <2> QED
    BY <1>2, <2>1, <2>2
<1> QED
  BY <1>2, <1>3, QuietStep

(* A bulk row's transaction begins with its place.                         *)
LEMMA StartRowStep ==
  ASSUME GateInv, NEW q \in Requests, StartRow(q)
  PROVE  GateInv'
<1>1. /\ IsScoring(q) /\ pc[q] # "closed" /\ NextSerial
      /\ TakesPlace(q, Began(call[q].tenant)) /\ UNCHANGED <<results, hashes, call>>
  BY DEF StartRow, IsScoring, tables
<1>2. clock'.serial = clock.serial + 1 /\ clock.serial \in Int
  BY <1>1 DEF NextSerial, GateInv, Shape
<1>3. /\ IsTxn(Began(call[q].tenant))
      /\ Began(call[q].tenant).at.n \in Int /\ Began(call[q].tenant).at.n <= clock'.serial
  BY <1>2, BeganIsATxn
<1> QED
  BY <1>1, <1>3, PlaceStep

(* A request has had its transaction since its key was looked up.          *)
LEMMA StartScoreStep ==
  ASSUME GateInv, NEW q \in Requests, StartScore(q)
  PROVE  GateInv'
<1>1. Shape /\ IsScoring(q) /\ Flow(q) /\ pc[q] = "run"
  BY DEF GateInv, StartScore, IsScoring
<1>2. UNCHANGED <<results, hashes, call, clock>>
  BY DEF StartScore, tables
<1>3. CASE Answers(q, [status |-> 400])
  <2>1. Quiet(q) /\ pc'[q] = "closed" /\ reply'[q].status # 200
    BY <1>1, <1>2, <1>3, AnswersMoves DEF Quiet
  <2>2. Flow(q)'
    BY <2>1 DEF Flow, LooksFresh
  <2> QED
    BY <2>1, <2>2, QuietStep
<1>4. CASE TakesPlace(q, txn[q])
  <2>1. IsTxn(txn[q]) /\ txn[q].at.n \in Int /\ txn[q].at.n <= clock'.serial
    BY <1>1, <1>2 DEF Flow
  <2> QED
    BY <1>1, <1>2, <1>4, <2>1, PlaceStep
<1> QED
  BY <1>3, <1>4 DEF StartScore

(* A transaction that has written its row and got its hash's number.       *)
LEMMA Recorded ==
  ASSUME NEW t, IsTxn(t), NEW w, NEW n
  PROVE  [t EXCEPT !.write = w, !.read = n]
           = [tenant |-> t.tenant, at |-> t.at, locks |-> t.locks, read |-> n, write |-> w]
<1>1. PICK a, b, c, d, e :
         t = [tenant |-> a, at |-> b, locks |-> c, read |-> d, write |-> e]
  BY DEF IsTxn
<1>2. [t EXCEPT !.write = w, !.read = n] = [[t EXCEPT !.write = w] EXCEPT !.read = n]
  OBVIOUS
<1>3. [t EXCEPT !.write = w]
        = [tenant |-> a, at |-> b, locks |-> c, read |-> d, write |-> w]
  BY <1>1
<1>4. [[tenant |-> a, at |-> b, locks |-> c, read |-> d, write |-> w] EXCEPT !.read = n]
        = [tenant |-> a, at |-> b, locks |-> c, read |-> n, write |-> w]
  OBVIOUS
<1>5. t.tenant = a /\ t.at = b /\ t.locks = c
  BY <1>1
<1> QED
  BY <1>2, <1>3, <1>4, <1>5

(* What recording a verdict writes.                                        *)
LEMMA RecordVerdictMoves ==
  ASSUME Shape, NEW q \in Requests, NEW verdict, IsTxn(txn[q]), RecordVerdict(q, verdict)
  PROVE  /\ Moves(q) /\ pc'[q] = "exit" /\ reply'[q] = reply[q]
         /\ txn'[q] = [tenant |-> txn[q].tenant, at |-> txn[q].at, locks |-> txn[q].locks,
                       read |-> clock.serial + 1, write |-> ResultRow(q, verdict)]
         /\ txn'[q].tenant = txn[q].tenant /\ txn'[q].at = txn[q].at
         /\ txn'[q].write = ResultRow(q, verdict)
         /\ NextSerial /\ clock'.serial = clock.serial + 1
<1>1. /\ Goes(q, "exit", [txn[q] EXCEPT !.write = ResultRow(q, verdict),
                                        !.read = clock.serial + 1])
      /\ NextSerial
  BY DEF RecordVerdict
<1>2. [txn[q] EXCEPT !.write = ResultRow(q, verdict), !.read = clock.serial + 1]
        = [tenant |-> txn[q].tenant, at |-> txn[q].at, locks |-> txn[q].locks,
           read |-> clock.serial + 1, write |-> ResultRow(q, verdict)]
  BY Recorded
<1>3. clock'.serial = clock.serial + 1
  BY <1>1 DEF NextSerial, Shape
<1>4. /\ Moves(q) /\ pc'[q] = "exit" /\ reply'[q] = reply[q]
      /\ txn'[q] = [tenant |-> txn[q].tenant, at |-> txn[q].at, locks |-> txn[q].locks,
                    read |-> clock.serial + 1, write |-> ResultRow(q, verdict)]
  BY <1>1, <1>2, GoesMoves
<1>5. /\ txn'[q].tenant = txn[q].tenant /\ txn'[q].at = txn[q].at
      /\ txn'[q].write = ResultRow(q, verdict)
  BY <1>4
<1> QED
  BY <1>1, <1>3, <1>4, <1>5

(* Between its lookup and its verdict a request is answered 503, goes on   *)
(* to the model with what it found, or gets its verdict.                   *)
LEMMA ModelTurns ==
  ASSUME NEW q \in Requests, LookForDuplicate(q) \/ ModelAnswers(q) \/ ModelFails(q)
  PROVE  /\ pc[q] \in {"look", "ask"} /\ call' = call
         /\ \/ \E r : r.status = 503 /\ Answers(q, r) /\ clock' = clock
            \/ \E found, t : /\ t = [txn[q] EXCEPT !.read = found]
                             /\ Goes(q, "ask", t) /\ clock' = clock
            \/ \E verdict : RecordVerdict(q, verdict)
<1>1. CASE LookForDuplicate(q)
  <2>1. PICK found : /\ \/ \E verdict : RecordVerdict(q, verdict)
                        \/ Goes(q, "ask", [txn[q] EXCEPT !.read = found]) /\ clock' = clock
    BY <1>1, Zenon DEF LookForDuplicate
  <2> QED
    BY <1>1, <2>1 DEF LookForDuplicate
<1>2. CASE ModelAnswers(q)
  BY <1>2, Zenon DEF ModelAnswers
<1>3. CASE ModelFails(q)
  <2>1. \/ Answers(q, [status |-> 503]) /\ clock' = clock
        \/ \E verdict : RecordVerdict(q, verdict)
    BY <1>3, Zenon DEF ModelFails
  <2> QED
    BY <1>3, <2>1 DEF ModelFails
<1> QED
  BY <1>1, <1>2, <1>3

(* A verdict is written for a photo that resembles a remembered one, or    *)
(* for one that has looked fresh.                                          *)
LEMMA VerdictStep ==
  ASSUME GateInv, NEW q \in Requests, IsScoring(q), NEW verdict, RecordVerdict(q, verdict),
         pc[q] \in {"look", "ask"}, UNCHANGED <<results, hashes, call>>,
         \/ /\ verdict.code = "recycled"
            /\ Recalls(hashes, txn[q].tenant, call[q].image, clock.serial + 1)
         \/ verdict.code # "recycled" /\ Unnoticed(q)
  PROVE  GateInv'
<1>1. Shape /\ Flow(q) /\ IsTxn(txn[q]) /\ clock.serial \in Int
  BY DEF GateInv, Flow, Shape
<1> DEFINE row == ResultRow(q, verdict)
<1>2. /\ Quiet(q) /\ pc'[q] = "exit" /\ reply'[q] = reply[q]
      /\ txn'[q] = [tenant |-> txn[q].tenant, at |-> txn[q].at, locks |-> txn[q].locks,
                    read |-> clock.serial + 1, write |-> row]
      /\ clock'.serial = clock.serial + 1
  BY <1>1, RecordVerdictMoves DEF Quiet
<1>3. /\ IsRow(row) /\ row.id = q /\ row.tenant = txn[q].tenant /\ row.image = call[q].image
      /\ row.at = txn[q].at /\ row.code = verdict.code
  BY DEF ResultRow, IsRow
<1> HIDE DEF row
<1>4. /\ IsTxn(txn[q])' /\ txn'[q].tenant = txn[q].tenant /\ txn'[q].at = txn[q].at
      /\ txn'[q].write = row /\ txn'[q].read = clock.serial + 1
  BY <1>2 DEF IsTxn
<1>5. (LooksFresh(q) => Unnoticed(q))'
  <2>1. SUFFICES ASSUME LooksFresh(q)'
                 PROVE  Unnoticed(q)'
    OBVIOUS
  <2>2. row.code # "recycled"
    BY <1>2, <1>4, <2>1 DEF LooksFresh
  <2>3. Unnoticed(q)
    BY <1>3, <2>2
  <2>4. reply' = reply
    BY <1>1, <1>2 DEF Quiet, Moves, Shape
  <2> QED
    BY <1>4, <2>3, <2>4 DEF Unnoticed
<1>6. /\ IsRow(txn[q].write)'
      /\ row.code = "recycled" => Recalls(hashes, txn[q].tenant, call[q].image, txn[q].read)'
  BY <1>3, <1>4 DEF IsRow
<1>7. Flow(q)' /\ reply'[q].status # 200
  BY <1>1, <1>2, <1>3, <1>4, <1>5, <1>6 DEF Flow, NoReply, IsRow
<1> QED
  BY <1>2, <1>7, QuietStep

(* What the lookup finds: a remembered photo that this one resembles, or   *)
(* none within its reach.                                                  *)
LEMMA Lookup ==
  ASSUME GateInv, NEW q \in Requests, NEW found,
         found = Duplicate(txn[q].tenant, call[q].image)
  PROVE  \/ /\ found \in {"exact", "near"}
            /\ Recalls(hashes, txn[q].tenant, call[q].image, clock.serial + 1)
         \/ found = "new" /\ Unnoticed(q)
<1>1. /\ clock.serial \in Int
      /\ \A h \in hashes : h.n \in Int /\ h.n <= clock.serial
  BY DEF GateInv, Shape, Store
<1>2. found \in {"exact", "near", "new"}
  BY DEF Duplicate
<1>3. CASE found # "new"
  <2>1. found \in Matches(txn[q].tenant, call[q].image)
    BY <1>3 DEF Duplicate
  <2>2. PICK h \in hashes : /\ Hash[call[q].image] # None /\ h.tenant = txn[q].tenant
                            /\ Likeness(Hash[call[q].image], h.hash) = found
    BY <2>1 DEF Matches
  <2>3. h.n < clock.serial + 1
    BY <1>1
  <2> QED
    BY <1>2, <1>3, <2>2, <2>3 DEF Recalls, Alike
<1>4. CASE found = "new"
  <2>1. ASSUME NEW h \in hashes, Alike(txn[q].tenant, call[q].image, h), ~Outdated(h)
        PROVE  FALSE
    <3>1. Likeness(Hash[call[q].image], h.hash) \in Matches(txn[q].tenant, call[q].image)
      BY <2>1 DEF Matches, Alike
    <3>2. Likeness(Hash[call[q].image], h.hash) \in {"exact", "near"}
      BY <2>1 DEF Likeness, Alike
    <3> QED
      BY <1>4, <3>1, <3>2 DEF Duplicate
  <2> QED
    BY <1>4, <2>1 DEF Unnoticed, Outdated, Behind
<1> QED
  BY <1>2, <1>3, <1>4

(* A verdict has a band, and its ground says whether it reads "recycled".  *)
LEMMA GroundIsNamed ==
  ASSUME NEW image, NEW found \in {"exact", "near", "new"}, NEW judged \in BOOLEAN,
         NEW verdict \in Graded[Ground(image, found, judged)]
  PROVE  /\ (verdict.code = "recycled") <=> (found # "new")
         /\ verdict.band \in Bands
<1>1. /\ Ground(image, found, judged) \in Grounds
      /\ (Ground(image, found, judged) \in {"exact", "near"}) <=> (found # "new")
  BY DEF Ground, Grounds
<1> QED
  BY <1>1, ScoreAssumption

(* A duplicate has a remembered photo that it resembles; a photo that goes *)
(* on to the model carries what the lookup found.                          *)
LEMMA LookForDuplicateStep ==
  ASSUME GateInv, NEW q \in Requests, LookForDuplicate(q)
  PROVE  GateInv'
<1> DEFINE found == Duplicate(txn[q].tenant, call[q].image)
<1>1. Shape /\ pc[q] = "look" /\ UNCHANGED <<results, hashes, call>>
  BY DEF GateInv, LookForDuplicate, tables
<1>2. CASE ~IsScoring(q)
  <2>1. Quiet(q)
    BY <1>1, GoesMoves DEF LookForDuplicate, RecordVerdict, Quiet
  <2> QED
    BY <2>1, <1>2, OtherStep
<1>3. /\ found \in {"exact", "near", "new"}
      /\ found # "new" => Recalls(hashes, txn[q].tenant, call[q].image, clock.serial + 1)
      /\ found = "new" => Unnoticed(q)
  BY Lookup
<1> HIDE DEF found
<1>4. ASSUME IsScoring(q), NEW verdict \in Graded[Ground(call[q].image, found, FALSE)],
             RecordVerdict(q, verdict)
      PROVE  GateInv'
  <2>1. (verdict.code = "recycled") <=> (found # "new")
    BY <1>3, <1>4, GroundIsNamed
  <2> QED
    BY <1>1, <1>3, <1>4, <2>1, VerdictStep
<1>5. ASSUME IsScoring(q), found # "exact", Goes(q, "ask", [txn[q] EXCEPT !.read = found]),
             clock' = clock
      PROVE  GateInv'
  <2>1. Flow(q) /\ IsTxn(txn[q])
    BY <1>1, <1>5 DEF GateInv, Flow
  <2>2. [txn[q] EXCEPT !.read = found]
          = [tenant |-> txn[q].tenant, at |-> txn[q].at, locks |-> txn[q].locks,
             read |-> found, write |-> txn[q].write]
    BY <2>1 DEF IsTxn
  <2>3. /\ Quiet(q) /\ pc'[q] = "ask" /\ reply'[q] = reply[q] /\ reply' = reply
        /\ txn'[q] = [tenant |-> txn[q].tenant, at |-> txn[q].at, locks |-> txn[q].locks,
                      read |-> found, write |-> txn[q].write]
    <3>1. Moves(q) /\ pc'[q] = "ask" /\ reply'[q] = reply[q]
          /\ txn'[q] = [txn[q] EXCEPT !.read = found]
      BY <1>1, <1>5, GoesMoves
    <3>2. reply' = reply
      BY <1>5 DEF Goes
    <3> QED
      BY <1>1, <1>5, <2>2, <3>1, <3>2 DEF Quiet
  <2>4. IsTxn(txn[q])' /\ txn'[q].tenant = txn[q].tenant /\ txn'[q].at = txn[q].at
        /\ txn'[q].read = found
    BY <2>3 DEF IsTxn
  <2>5. (LooksFresh(q) => Unnoticed(q))'
    BY <1>1, <1>3, <2>3, <2>4 DEF LooksFresh, Unnoticed
  <2>6. Flow(q)' /\ reply'[q].status # 200
    BY <1>1, <1>3, <1>5, <2>1, <2>3, <2>4, <2>5 DEF Flow, NoReply
  <2> QED
    BY <2>3, <2>6, QuietStep
<1> QED
  BY <1>2, <1>4, <1>5 DEF LookForDuplicate, found

(* Judged or not, a photo's verdict is "recycled" if and only if its lookup *)
(* had found a near duplicate.                                             *)
LEMMA ModelStep ==
  ASSUME GateInv, NEW q \in Requests, ModelAnswers(q) \/ ModelFails(q)
  PROVE  GateInv'
<1>1. Shape /\ pc[q] = "ask" /\ UNCHANGED <<results, hashes, call>>
  BY DEF GateInv, ModelAnswers, ModelFails, tables
<1>2. CASE ~IsScoring(q)
  <2>1. Quiet(q)
    BY <1>1, GoesMoves, AnswersMoves DEF ModelAnswers, ModelFails, RecordVerdict, Quiet
  <2> QED
    BY <2>1, <1>2, OtherStep
<1>3. ASSUME IsScoring(q), NEW judged \in BOOLEAN,
             NEW verdict \in Graded[Ground(call[q].image, txn[q].read, judged)],
             RecordVerdict(q, verdict)
      PROVE  GateInv'
  <2>1. /\ txn[q].read \in {"near", "new"}
        /\ txn[q].read = "near" =>
              Recalls(hashes, txn[q].tenant, call[q].image, clock.serial + 1)
        /\ txn[q].read = "new" => Unnoticed(q)
    BY <1>1, <1>3 DEF GateInv, Flow, LooksFresh
  <2>2. (verdict.code = "recycled") <=> (txn[q].read # "new")
    BY <1>3, <2>1, GroundIsNamed
  <2> QED
    BY <1>1, <1>3, <2>1, <2>2, VerdictStep
<1>4. CASE IsScoring(q) /\ Answers(q, [status |-> 503]) /\ clock' = clock
  <2>1. Quiet(q) /\ pc'[q] = "closed" /\ reply'[q].status # 200
    BY <1>1, <1>4, AnswersMoves DEF Quiet
  <2>2. Flow(q)'
    BY <2>1 DEF Flow, LooksFresh
  <2> QED
    BY <2>1, <2>2, QuietStep
<1> QED
  BY <1>2, <1>3, <1>4 DEF ModelAnswers, ModelFails

(* A refused commit leaves nothing behind.                                 *)
LEMMA RefusedStep ==
  ASSUME GateInv, NEW q \in Requests, CommitRefused(q)
  PROVE  GateInv'
<1>1. Quiet(q) /\ pc'[q] = "closed" /\ reply'[q].status # 200
  BY AnswersMoves DEF GateInv, CommitRefused, Quiet, tables
<1>2. Flow(q)'
  BY <1>1 DEF Flow, LooksFresh
<1> QED
  BY <1>1, <1>2, QuietStep

(* Among more hashes, no more are within reach.                            *)
LEMMA BehindStays ==
  ASSUME NEW S, NEW T, IsFiniteSet(T), S \subseteq T, NEW h, Behind(S, h)
  PROVE  Behind(T, h)
<1> DEFINE newer(U) == {g \in U : g.tenant = h.tenant /\ g.n > h.n}
<1>1. newer(S) \subseteq newer(T) /\ newer(T) \subseteq T
  OBVIOUS
<1>2. IsFiniteSet(newer(T))
  BY <1>1, FS_Subset
<1>3. IsFiniteSet(newer(S)) /\ Cardinality(newer(S)) <= Cardinality(newer(T))
  BY <1>1, <1>2, FS_Subset
<1>4. Cardinality(newer(S)) \in Nat /\ Cardinality(newer(T)) \in Nat
  BY <1>2, <1>3, FS_CardinalityType
<1>5. Cardinality(newer(S)) >= MaxCandidates /\ MaxCandidates \in Nat
  BY ScoreAssumption DEF Behind
<1> HIDE DEF newer
<1>6. Cardinality(newer(T)) >= MaxCandidates
  BY <1>3, <1>4, <1>5
<1> QED
  BY <1>6 DEF Behind, newer

(* The verdict joins the record and its hash the store in one commit: what *)
(* was there is not newer, the requests still asking began before it.      *)
LEMMA CommitScoreStep ==
  ASSUME GateInv, NEW q \in Requests, CommitScore(q)
  PROVE  GateInv'
<1>0. PICK row, n : row = txn[q].write /\ n = txn[q].read
  OBVIOUS
<1> DEFINE own == [id |-> q, tenant |-> row.tenant, hash |-> Hash[row.image], n |-> n]
<1>1. /\ Shape /\ IsScoring(q) /\ Flow(q) /\ pc[q] = "exit" /\ Kept /\ Store
      /\ q \notin DOMAIN results /\ clock.serial \in Int
  BY DEF GateInv, CommitScore, Flow, Shape
<1>2. /\ IsRow(row) /\ row.id = q /\ row.at.n \in Int /\ row.at.n <= clock.serial
      /\ row.tenant = txn[q].tenant /\ row.image = call[q].image /\ row.at = txn[q].at
      /\ n \in Int /\ n <= clock.serial
      /\ row.code = "recycled" => Recalls(hashes, row.tenant, row.image, n)
  BY <1>0, <1>1 DEF Flow
<1>3. /\ Moves(q) /\ pc'[q] = "closed"
      /\ reply'[q] = [status |-> 200, code |-> row.code, done |-> clock.serial]
      /\ clock' = clock /\ call' = call
      /\ hashes' = IF Hash[row.image] = None THEN hashes ELSE hashes \cup {own}
      /\ results' = [id \in DOMAIN results \cup {q} |-> IF id = q THEN row ELSE results[id]]
  BY <1>0, <1>1, <1>2, AnswersMoves DEF CommitScore, Remembered
<1>4. /\ \A p \in Requests \ {q} :
            pc'[p] = pc[p] /\ txn'[p] = txn[p] /\ reply'[p] = reply[p]
      /\ reply'[q].status = 200 /\ reply'[q].code = row.code /\ reply'[q].done = clock.serial
      /\ \A p \in Requests : IsScoring(p)' = IsScoring(p)
  BY <1>1, <1>3 DEF Shape, Moves, IsScoring, Op
<1>5. /\ DOMAIN results' = DOMAIN results \cup {q} /\ results'[q] = row
      /\ \A id \in DOMAIN results : results'[id] = results[id]
  BY <1>1, <1>3
<1>6. /\ own.id = q /\ own.tenant = row.tenant /\ own.hash = Hash[row.image] /\ own.n = n
      /\ hashes \subseteq hashes' /\ hashes' \subseteq hashes \cup {own}
      /\ Hash[row.image] # None => own \in hashes'
      /\ IsFiniteSet(hashes')
  <2>1. IsFiniteSet(hashes) /\ IsFiniteSet(hashes \cup {own})
    BY <1>1, FS_AddElement DEF Store
  <2> QED
    BY <1>3, <2>1
<1> HIDE DEF own
<1>7. Shape'
  <2>1. (\A id \in DOMAIN results : IsRow(results[id]) /\ results[id].id = id)'
    BY <1>1, <1>2, <1>5 DEF Shape, IsRow
  <2>2. (results = [id \in DOMAIN results |-> results[id]])'
    BY <1>3, <1>5
  <2> QED
    BY ZenonT(30), <1>1, <1>3, <2>1, <2>2 DEF Shape, Moves
<1>8. \A tenant, image, m : Recalls(hashes, tenant, image, m) => Recalls(hashes', tenant, image, m)
  BY <1>6 DEF Recalls
<1>9. \A h : Behind(hashes, h) => Behind(hashes', h)
  BY <1>6, BehindStays
<1>10. \A h \in hashes : h.id # q
  BY <1>1, SeedsAssumption DEF Store
<1>11. ASSUME NEW p \in Requests, IsScoring(p)'
       PROVE  Flow(p)'
  <2>1. CASE p = q
    BY <1>3, <2>1 DEF Flow, LooksFresh
  <2>2. CASE p # q
    <3>1. Flow(p)
      BY <1>4, <1>11 DEF GateInv
    <3>2. ASSUME LooksFresh(p)
          PROVE  Unnoticed(p)'
      <4>1. Unnoticed(p) /\ txn[p].at.n \in Int /\ txn[p].at.n <= clock.serial
        BY <3>1, <3>2 DEF Flow, LooksFresh
      <4>2. reply'[q].done >= txn[p].at.n
        BY <1>1, <1>4, <4>1
      <4>3. SUFFICES ASSUME NEW h \in hashes', Alike(txn[p].tenant, call[p].image, h)
                     PROVE  \/ Behind(hashes', h)
                            \/ h.id \in Requests /\ reply'[h.id].done >= txn[p].at.n
        <5>1. call'[p] = call[p] /\ txn'[p] = txn[p]
          BY <1>3, <1>4, <2>2
        <5> QED
          BY <4>3, <5>1 DEF Unnoticed, Alike, Likeness
      <4>4. CASE h \in hashes
        BY <1>4, <1>9, <1>10, <4>1, <4>3, <4>4 DEF Unnoticed
      <4>5. CASE h = own
        BY <1>6, <4>2, <4>5
      <4> QED
        BY <1>6, <4>4, <4>5
    <3>3. (LooksFresh(p) => Unnoticed(p))'
      BY <1>4, <2>2, <3>2 DEF LooksFresh
    <3>4. (pc[p] = "exit" =>
             /\ IsRow(txn[p].write) /\ txn[p].write.id = p
             /\ txn[p].write.tenant = txn[p].tenant
             /\ txn[p].write.image = call[p].image
             /\ txn[p].write.at = txn[p].at
             /\ txn[p].read \in Int /\ txn[p].read <= clock.serial
             /\ txn[p].write.code = "recycled" =>
                   Recalls(hashes, txn[p].tenant, call[p].image, txn[p].read))'
      <4>1. call'[p] = call[p] /\ txn'[p] = txn[p] /\ pc'[p] = pc[p] /\ clock' = clock
        BY <1>3, <1>4, <2>2
      <4>2. SUFFICES ASSUME pc[p] = "exit"
                     PROVE  (/\ IsRow(txn[p].write) /\ txn[p].write.id = p
                             /\ txn[p].write.tenant = txn[p].tenant
                             /\ txn[p].write.image = call[p].image
                             /\ txn[p].write.at = txn[p].at
                             /\ txn[p].read \in Int /\ txn[p].read <= clock.serial
                             /\ txn[p].write.code = "recycled" =>
                                   Recalls(hashes, txn[p].tenant, call[p].image, txn[p].read))'
        BY <4>1
      <4>3. /\ IsRow(txn[p].write)' /\ txn[p].write.id = p
            /\ txn[p].write.tenant = txn[p].tenant
            /\ txn[p].write.image = call[p].image
            /\ txn[p].write.at = txn[p].at
            /\ txn[p].read \in Int /\ txn[p].read <= clock.serial
            /\ txn[p].write.code = "recycled" =>
                  Recalls(hashes', txn[p].tenant, call[p].image, txn[p].read)
        BY <1>8, <3>1, <4>1, <4>2 DEF Flow, IsRow
      <4> QED
        BY <4>1, <4>3
    <3>5. (pc[p] = "ask" =>
             \/ txn[p].read = "new"
             \/ txn[p].read = "near"
                /\ Recalls(hashes, txn[p].tenant, call[p].image, clock.serial + 1))'
      BY <1>3, <1>4, <1>8, <2>2, <3>1 DEF Flow
    <3> QED
      BY <1>3, <1>4, <1>5, <2>2, <3>1, <3>3, <3>4, <3>5 DEF Flow, IsTxn
  <2> QED
    BY <2>1, <2>2
<1>12. Kept'
  <2>1. (\A p \in Requests : p \in DOMAIN results =>
           /\ IsScoring(p) /\ pc[p] = "closed"
           /\ reply[p].status = 200 /\ reply[p].code = results[p].code
           /\ reply[p].done \in Int
           /\ results[p].at.n \in Int /\ results[p].at.n <= clock.serial
           /\ results[p].image = call[p].image)'
    BY <1>1, <1>2, <1>3, <1>4, <1>5 DEF Kept
  <2>2. (\A p \in Requests : IsScoring(p) /\ reply[p].status = 200 => p \in DOMAIN results)'
    BY <1>1, <1>4, <1>5 DEF Kept
  <2> QED
    BY <2>1, <2>2 DEF Kept
<1>13. Store'
  <2>1. (/\ IsFiniteSet(hashes) /\ Seeds.hashes \subseteq hashes
         /\ \A h \in hashes : h.n \in Int /\ h.n <= clock.serial)'
    BY <1>1, <1>2, <1>3, <1>6 DEF Store
  <2>2. (\A h \in hashes \ Seeds.hashes :
           /\ h.id \in Requests /\ h.id \in DOMAIN results
           /\ results[h.id].tenant = h.tenant /\ Hash[results[h.id].image] = h.hash)'
    BY <1>1, <1>5, <1>6, <1>10 DEF Store
  <2>3. ASSUME NEW p \in Requests, p \in DOMAIN results'
        PROVE  (/\ Hash[call[p].image] # None => Remembers(p)
                /\ results[p].code = "recycled" => Remembers(p))'
    <3>1. CASE p = q
      <4>1. row.code = "recycled" => Hash[row.image] # None
        BY <1>2 DEF Recalls, Alike
      <4>2. Hash[row.image] # None => Remembers(q)'
        BY <1>2, <1>5, <1>6, <1>8 DEF Remembers
      <4> QED
        BY <1>2, <1>3, <1>5, <3>1, <4>1, <4>2
    <3>2. CASE p # q
      <4>1. /\ Hash[call[p].image] # None => Remembers(p)
            /\ results[p].code = "recycled" => Remembers(p)
        BY <1>1, <1>5, <2>3, <3>2 DEF Store
      <4>2. Remembers(p) => Remembers(p)'
        BY <1>5, <1>6, <1>8, <2>3, <3>2 DEF Remembers
      <4> QED
        BY <1>3, <1>5, <2>3, <3>2, <4>1, <4>2
    <3> QED
      BY <3>1, <3>2
  <2> QED
    BY <2>1, <2>2, <2>3 DEF Store
<1>14. LateCopiesAreCaught'
  <2>1. SUFFICES ASSUME NEW p \in Requests, NEW h \in hashes', p \in DOMAIN results', h.id # p,
                        Alike(results'[p].tenant, results'[p].image, h),
                        \/ h \in Seeds.hashes
                        \/ h.id \in Requests /\ reply'[h.id].done < results'[p].at.n
                 PROVE  results'[p].code = "recycled" \/ Behind(hashes', h)
    BY DEF LateCopiesAreCaught, Stored, Resembles, Alike, Outdated, Behind
  <2>2. CASE p # q /\ h \in hashes
    <3>1. p \in DOMAIN results /\ results'[p] = results[p] /\ h.id # q
      BY <1>5, <1>10, <2>1, <2>2
    <3>2. results[p].code = "recycled" \/ Behind(hashes, h)
      BY <1>4, <2>1, <2>2, <3>1
         DEF GateInv, LateCopiesAreCaught, Stored, Resembles, Alike, Outdated, Behind
    <3> QED
      BY <1>9, <3>1, <3>2
  <2>3. CASE p = q /\ h \in hashes
    <3>1. SUFFICES ASSUME row.code # "recycled"
                   PROVE  Behind(hashes', h)
      BY <1>5, <2>3
    <3>2. Unnoticed(q)
      BY <1>0, <1>1, <3>1 DEF Flow, LooksFresh
    <3>3. Alike(txn[q].tenant, call[q].image, h)
      BY <1>2, <1>5, <2>1, <2>3
    <3>4. Behind(hashes, h) \/ (h.id \in Requests /\ reply[h.id].done >= row.at.n)
      BY <1>2, <2>3, <3>2, <3>3 DEF Unnoticed
    <3>5. ASSUME h.id \in Requests, reply[h.id].done >= row.at.n
          PROVE  FALSE
      <4>1. h \notin Seeds.hashes
        BY <3>5, SeedsAssumption
      <4>2. reply'[h.id] = reply[h.id] /\ reply[h.id].done \in Int
        BY <1>1, <1>4, <1>10, <2>3, <3>5, <4>1 DEF Store, Kept
      <4> QED
        BY <1>2, <1>5, <2>1, <2>3, <3>5, <4>1, <4>2
    <3> QED
      BY <1>9, <3>4, <3>5
  <2>4. CASE p # q /\ h = own /\ h \notin hashes
    <3>1. p \in DOMAIN results /\ results'[p] = results[p]
      BY <1>5, <2>1, <2>4
    <3>2. results[p].at.n \in Int /\ results[p].at.n <= clock.serial
      BY <1>1, <3>1 DEF Kept
    <3>3. h \notin Seeds.hashes /\ h.id = q
      BY <1>1, <1>6, <2>4 DEF Store
    <3> QED
      BY <1>1, <1>4, <2>1, <3>1, <3>2, <3>3
  <2>5. CASE p = q /\ h = own
    BY <1>6, <2>1, <2>5
  <2> QED
    BY <1>6, <2>2, <2>3, <2>4, <2>5
<1> QED
  BY <1>7, <1>11, <1>12, <1>13, <1>14 DEF GateInv

(* A review changes one column the gate does not look at.                  *)
LEMMA CommitReviewStep ==
  ASSUME GateInv, NEW q \in Requests, CommitReview(q)
  PROVE  GateInv'
<1>1. Shape /\ Kept /\ Store /\ LateCopiesAreCaught /\ ~IsScoring(q) /\ pc[q] = "exit"
  BY DEF GateInv, CommitReview, IsScoring
<1>2. /\ Moves(q) /\ pc'[q] = "closed"
      /\ hashes' = hashes /\ call' = call /\ clock' = clock
  BY <1>1, AnswersMoves DEF CommitReview, ambient
<1>3. /\ \A p \in Requests \ {q} :
            pc'[p] = pc[p] /\ txn'[p] = txn[p] /\ reply'[p] = reply[p]
      /\ \A p \in Requests : IsScoring(p)' = IsScoring(p)
      /\ q \notin DOMAIN results
  BY <1>1, <1>2 DEF Shape, Kept, Moves, IsScoring, Op
<1>4. /\ results' = [id \in DOMAIN results |-> results'[id]]
      /\ DOMAIN results' = DOMAIN results
      /\ \A id \in DOMAIN results :
            /\ IsRow(results'[id]) /\ results'[id].id = id
            /\ results'[id].tenant = results[id].tenant
            /\ results'[id].image = results[id].image
            /\ results'[id].code = results[id].code /\ results'[id].at = results[id].at
  <2>1. CASE results' = results
    BY <1>1, <2>1 DEF Shape
  <2>2. CASE results' # results
    <3> DEFINE id == call[q].target
               status == txn[q].write.status
    <3>1. results' = [results EXCEPT ![id] = [results[id] EXCEPT !.review = status]]
      BY <2>2 DEF CommitReview
    <3> HIDE DEF id, status
    <3>2. /\ results' = [i \in DOMAIN results |-> results'[i]]
          /\ DOMAIN results' = DOMAIN results
          /\ \A i \in DOMAIN results :
                results'[i] = IF i = id THEN [results[i] EXCEPT !.review = status] ELSE results[i]
      BY <1>1, <3>1 DEF Shape
    <3>3. ASSUME NEW i \in DOMAIN results
          PROVE  LET r == [results[i] EXCEPT !.review = status]
                 IN  /\ IsRow(r) /\ r.id = results[i].id /\ r.tenant = results[i].tenant
                     /\ r.image = results[i].image /\ r.code = results[i].code
                     /\ r.at = results[i].at
      <4>1. IsRow(results[i])
        BY <1>1, <3>3 DEF Shape
      <4>2. [results[i] EXCEPT !.review = status]
              = [id |-> results[i].id, tenant |-> results[i].tenant, rep |-> results[i].rep,
                 image |-> results[i].image, band |-> results[i].band,
                 code |-> results[i].code, at |-> results[i].at,
                 source |-> results[i].source, review |-> status]
        BY <4>1 DEF IsRow
      <4> QED
        BY <4>2 DEF IsRow
    <3> QED
      <4>1. ASSUME NEW i \in DOMAIN results
            PROVE  /\ IsRow(results'[i]) /\ results'[i].id = i
                   /\ results'[i].tenant = results[i].tenant
                   /\ results'[i].image = results[i].image
                   /\ results'[i].code = results[i].code /\ results'[i].at = results[i].at
        <5>1. results[i].id = i /\ IsRow(results[i])
          BY <1>1, <4>1 DEF Shape
        <5>2. CASE i = id
          BY <3>2, <3>3, <4>1, <5>1, <5>2
        <5>3. CASE i # id
          BY <3>2, <4>1, <5>1, <5>3
        <5> QED
          BY <5>2, <5>3
      <4> QED
        BY <3>2, <4>1
  <2> QED
    BY <2>1, <2>2
<1>5. Shape'
  BY <1>1, <1>2, <1>4 DEF Shape, Moves, IsRow
<1>6. \A h \in hashes : h.id # q
  <2>1. \A h \in Seeds.hashes : h.id # q
    BY SeedsAssumption
  <2> QED
    BY <1>1, <1>3, <2>1 DEF Store
<1>7. ASSUME NEW p \in Requests, IsScoring(p)'
      PROVE  Flow(p)'
  <2>1. IsScoring(p) /\ p # q /\ Flow(p)
    BY <1>1, <1>3, <1>7 DEF GateInv
  <2>2. pc'[p] = pc[p] /\ txn'[p] = txn[p] /\ reply'[p] = reply[p]
    BY <1>3, <2>1
  <2>3. (LooksFresh(p) => Unnoticed(p))'
    BY <1>2, <1>3, <1>6, <2>1, <2>2 DEF Flow, LooksFresh, Unnoticed
  <2>4. (pc[p] = "exit" =>
           /\ IsRow(txn[p].write) /\ txn[p].write.id = p
           /\ txn[p].write.tenant = txn[p].tenant
           /\ txn[p].write.image = call[p].image
           /\ txn[p].write.at = txn[p].at
           /\ txn[p].read \in Int /\ txn[p].read <= clock.serial
           /\ txn[p].write.code = "recycled" =>
                 Recalls(hashes, txn[p].tenant, call[p].image, txn[p].read))'
    BY <1>2, <2>1, <2>2 DEF Flow, IsRow
  <2> QED
    BY <1>2, <1>4, <2>1, <2>2, <2>3, <2>4 DEF Flow, IsTxn
<1>8. Kept'
  <2>1. (\A p \in Requests : p \in DOMAIN results =>
           /\ IsScoring(p) /\ pc[p] = "closed"
           /\ reply[p].status = 200 /\ reply[p].code = results[p].code
           /\ reply[p].done \in Int
           /\ results[p].at.n \in Int /\ results[p].at.n <= clock.serial
           /\ results[p].image = call[p].image)'
    BY <1>1, <1>2, <1>3, <1>4 DEF Kept
  <2>2. (\A p \in Requests : IsScoring(p) /\ reply[p].status = 200 => p \in DOMAIN results)'
    BY <1>1, <1>3, <1>4 DEF Kept
  <2> QED
    BY <2>1, <2>2 DEF Kept
<1>9. Store'
  BY <1>1, <1>2, <1>4 DEF Store, Remembers
<1>10. LateCopiesAreCaught'
  <2>1. SUFFICES ASSUME NEW p \in Requests, NEW h \in hashes, p \in DOMAIN results', h.id # p,
                        Alike(results'[p].tenant, results'[p].image, h),
                        \/ h \in Seeds.hashes
                        \/ h.id \in Requests /\ reply'[h.id].done < results'[p].at.n
                 PROVE  results'[p].code = "recycled" \/ Behind(hashes, h)
    BY <1>2 DEF LateCopiesAreCaught, Stored, Resembles, Alike, Outdated, Behind
  <2>2. p \in DOMAIN results /\ Alike(results[p].tenant, results[p].image, h)
    BY <1>4, <2>1
  <2>3. h \in Seeds.hashes \/ (h.id \in Requests /\ reply[h.id].done < results[p].at.n)
    BY <1>3, <1>4, <1>6, <2>1, <2>2
  <2>4. results[p].code = "recycled" \/ Behind(hashes, h)
    BY <1>1, <2>1, <2>2, <2>3
       DEF LateCopiesAreCaught, Stored, Resembles, Alike, Outdated, Behind
  <2> QED
    BY <1>4, <2>2, <2>4
<1> QED
  BY <1>5, <1>7, <1>8, <1>9, <1>10 DEF GateInv

(* No handler moves: time passes, a response leaves early, or nothing      *)
(* changes.                                                                *)
Rests == Tick \/ (\E q \in Requests : Respond(q)) \/ UNCHANGED vars

(* Then the gate stays as it is.                                           *)
LEMMA RestStep ==
  ASSUME GateInv, Rests
  PROVE  GateInv'
<1>0. UNCHANGED <<results, hashes, call, pc, txn, reply>> /\ (Tick \/ clock' = clock)
  BY DEF Rests, Tick, Respond, vars, tables, flow, ambient
<1>1. /\ clock' = [tick |-> clock'.tick, serial |-> clock'.serial]
      /\ clock'.serial = clock.serial
  <2>1. CASE clock' = clock
    BY <2>1 DEF GateInv, Shape
  <2>2. CASE Tick
    <3>1. clock' = [tick |-> clock.tick + 1, serial |-> clock.serial]
      BY <2>2 DEF Tick, GateInv, Shape
    <3> QED
      BY <3>1
  <2> QED
    BY <1>0, <2>1, <2>2
<1>2. Shape'
  BY <1>0, <1>1 DEF GateInv, Shape, IsRow
<1>3. ASSUME NEW p \in Requests, IsScoring(p)'
      PROVE  Flow(p)'
  <2>1. Flow(p)
    BY <1>0, <1>3 DEF GateInv, IsScoring, Op
  <2> QED
    BY <1>0, <1>1, <2>1 DEF Flow, IsTxn, IsRow, LooksFresh, Unnoticed
<1>4. Kept'
  BY <1>0, <1>1 DEF GateInv, Kept, IsScoring, Op
<1>5. Store'
  BY <1>0, <1>1 DEF GateInv, Store, Remembers
<1>6. LateCopiesAreCaught'
  BY <1>0 DEF GateInv, LateCopiesAreCaught, Stored, Resembles, Outdated
<1> QED
  BY <1>2, <1>3, <1>4, <1>5, <1>6 DEF GateInv

(* What the seeded results are: rows, each stored under its own identity.  *)
LEMMA SeedRows ==
  LET old == Seeds.results IN
  /\ old = [id \in DOMAIN old |-> old[id]]
  /\ \A id \in DOMAIN old : IsRow(old[id]) /\ old[id].id = id
BY ZenonT(30), SeedsAssumption

(* The seeded tables satisfy the gate's invariant before any request.      *)
LEMMA GateInit == Init => GateInv
<1> SUFFICES ASSUME Init
             PROVE  GateInv
  OBVIOUS
<1>1. /\ clock = [tick |-> FirstTick, serial |-> Seeds.serial]
      /\ results = Seeds.results /\ hashes = Seeds.hashes
      /\ pc = [q \in Requests |-> IF Op(q) = "none" THEN "closed" ELSE "new"]
      /\ txn = [q \in Requests |-> NoTxn]
      /\ reply = [q \in Requests |-> NoReply]
      /\ DOMAIN results \cap Requests = {}
  BY SeedsAssumption DEF Init
<1>2. Shape
  <2>1. clock = [tick |-> clock.tick, serial |-> clock.serial] /\ clock.serial \in Int
    BY <1>1, SeedsAssumption
  <2>2. /\ results = [id \in DOMAIN results |-> results[id]]
        /\ \A id \in DOMAIN results : IsRow(results[id]) /\ results[id].id = id
    BY <1>1, SeedRows
  <2> QED
    BY <1>1, <2>1, <2>2 DEF Shape
<1>3. ASSUME NEW q \in Requests, IsScoring(q)
      PROVE  Flow(q)
  <2>1. pc[q] = "new" /\ reply[q] = NoReply /\ q \notin DOMAIN results
    BY <1>1, <1>3 DEF IsScoring
  <2> QED
    BY <2>1 DEF Flow, LooksFresh
<1>4. Kept /\ LateCopiesAreCaught
  <2>1. \A q \in Requests : reply[q].status # 200 /\ q \notin DOMAIN results
    BY <1>1 DEF NoReply
  <2> QED
    BY <2>1 DEF Kept, LateCopiesAreCaught, Stored
<1>5. Store
  <2>1. /\ IsFiniteSet(Seeds.hashes) /\ Seeds.serial \in Nat
        /\ \A h \in Seeds.hashes : h.n \in 1..Seeds.serial
    BY SeedsAssumption
  <2>2. \A h \in hashes : h.n \in Int /\ h.n <= clock.serial
    BY <1>1, <2>1
  <2> QED
    BY <1>1, <2>1, <2>2 DEF Store
<1> QED
  BY <1>2, <1>3, <1>4, <1>5 DEF GateInv

(* Every step of the service keeps it.                                     *)
LEMMA GateNext == GateInv /\ [Next]_vars => GateInv'
<1> SUFFICES ASSUME GateInv, [Next]_vars
             PROVE  GateInv'
  OBVIOUS
<1>1. CASE Rests
  BY <1>1, RestStep
<1>2. ASSUME NEW q \in Requests, Step(q)
      PROVE  GateInv'
  <2>1. CASE ApiStep(q)
    BY <2>1, ArriveStep, RequireTenantStep, AdministrationStep DEF ApiStep
  <2>2. CASE ScoreStep(q)
    BY <2>2, StartRowStep, StartScoreStep, LookForDuplicateStep, ModelStep, CommitScoreStep
       DEF ScoreStep
  <2>3. CASE RecordStep(q)
    BY <2>3, RecordsStep, CommitReviewStep
  <2>4. CASE ReportStep(q)
    BY <2>4, ReportsStep
  <2> QED
    BY <1>2, <2>1, <2>2, <2>3, <2>4 DEF Step
<1> QED
  BY <1>1, <1>2, RefusedStep DEF Next, Rests

(* The inductive invariant of the gate holds in every state of the service.*)
THEOREM GateInvariant == Spec => []GateInv
BY GateInit, GateNext, PTL DEF Spec

(* A photo within the thresholds of one that was on record when its        *)
(* request began is called a duplicate, unless MaxCandidates newer ones    *)
(* hide that one, whatever the mix of requests and bulk rows.              *)
THEOREM LateCopiesTheorem == Spec => []LateCopiesAreCaught
<1>1. GateInv => LateCopiesAreCaught
  BY DEF GateInv
<1> QED
  BY <1>1, GateInvariant, PTL

(* Whatever is called a duplicate resembles a photo of its tenant that was *)
(* remembered before it.                                                   *)
THEOREM RecycledTheorem == Spec => []RecycledHasAnOriginal
<1>1. GateInv => RecycledHasAnOriginal
  <2> SUFFICES ASSUME GateInv, NEW q \in Requests, q \in DOMAIN results,
                      results[q].code = "recycled"
               PROVE  \E h, own \in hashes :
                         own.id = q /\ h.n < own.n /\ Resembles(results[q], h)
    BY DEF RecycledHasAnOriginal, Stored
  <2>1. PICK own \in hashes :
          own.id = q /\ Recalls(hashes, results[q].tenant, results[q].image, own.n)
    BY DEF GateInv, Store, Remembers
  <2>2. PICK h \in hashes : h.n < own.n /\ Alike(results[q].tenant, results[q].image, h)
    BY <2>1 DEF Recalls
  <2> QED
    BY <2>1, <2>2 DEF Alike, Resembles
<1> QED
  BY <1>1, GateInvariant, PTL

(* What is on record is what its request was answered; a client told 200   *)
(* after the commit finds its photo there, whichever FastAPI it talks to;  *)
(* and hashes and results come together.                                   *)
THEOREM AnsweredTheorem == Spec => []AnsweredIsKept
<1>1. GateInv => AnsweredIsKept
  <2> SUFFICES ASSUME GateInv
               PROVE  AnsweredIsKept
    OBVIOUS
  <2>1. ASSUME NEW q \in Requests, IsScoring(q)
        PROVE  /\ Stored(q) => Told(q) = 200 /\ reply[q].code = results[q].code
               /\ (Told(q) = 200 /\ q \notin early) => Stored(q)
    BY <2>1 DEF GateInv, Kept, Stored, Told
  <2>2. ASSUME NEW q \in Requests, IsScoring(q), Stored(q), Hash[call[q].image] # None
        PROVE  \E h \in hashes : h.id = q
    BY <2>2 DEF GateInv, Store, Remembers, Stored
  <2>3. \A h \in hashes \ Seeds.hashes :
          /\ h.id \in DOMAIN results /\ results[h.id].tenant = h.tenant
          /\ Hash[results[h.id].image] = h.hash
    BY DEF GateInv, Store
  <2> QED
    BY <2>1, <2>2, <2>3 DEF AnsweredIsKept
<1> QED
  BY <1>1, GateInvariant, PTL

(* ---- where a request may be -------------------------------------------- *)

Idle == {"new", "admitted", "closed"}

(* The stages of each operation's handler while its transaction is open.   *)
Fits(stage, op) ==
    /\ stage = "run" => op \in DataOps
    /\ stage \in {"look", "ask"} => op \in {"score", "row"}
    /\ stage = "rows" => op = "list"
    /\ stage = "write" => op \in {"review", "create", "update"}
    /\ stage \in {"delete", "lock", "preview"} => op = "upload"
    /\ stage \in {"items", "before", "previous", "map"} => op = "summary"
    /\ stage \in {"count", "fetch", "ever", "card"} => op = "scorecard"
    /\ stage = "reps" => op = "status"
    /\ stage = "exit" =>
          op \in {"score", "row", "review", "upload", "mint", "revoke", "create", "update"}
    /\ stage \in {"new", "admitted", "closed", "run", "look", "ask", "rows", "write", "delete",
                  "lock", "preview", "items", "before", "previous", "map", "count", "fetch",
                  "ever", "card", "reps", "exit"}

(* A transaction that has begun before the n-th or as the n-th.            *)
Begun(t, n) == IsTxn(t) /\ t.at.n \in Int /\ t.at.n <= n

(* A request's stage fits its operation, and from its first statement to   *)
(* its answer it has a transaction that has begun.                         *)
Place(q) ==
    /\ Fits(pc[q], Op(q))
    /\ pc[q] \in Idle => txn[q] = NoTxn
    /\ pc[q] \notin Idle => Begun(txn[q], clock.serial)
    /\ pc[q] # "closed" => reply[q] = NoReply

PlaceInv ==
    /\ Shape
    /\ call \in Plans
    /\ page = [q \in Requests |-> page[q]]
    /\ \A q \in Requests : Place(q)

(* What a step of the service that is q's leaves alone.                    *)
Turn(q) ==
    /\ Moves(q) /\ call' = call /\ pc[q] # "closed"
    /\ clock' = clock \/ NextSerial

(* A transaction stays one when it reads.                                  *)
LEMMA Reading ==
  ASSUME NEW t, IsTxn(t), NEW v
  PROVE  LET u == [t EXCEPT !.read = v] IN
         /\ IsTxn(u) /\ \A n : Begun(t, n) => Begun(u, n)
         /\ u.tenant = t.tenant /\ u.at = t.at /\ u.locks = t.locks
         /\ u.read = v /\ u.write = t.write
<1>1. [t EXCEPT !.read = v] = [tenant |-> t.tenant, at |-> t.at, locks |-> t.locks,
                               read |-> v, write |-> t.write]
  BY DEF IsTxn
<1> QED
  BY <1>1 DEF IsTxn, Begun

(* And when it writes.                                                     *)
LEMMA Writing ==
  ASSUME NEW t, IsTxn(t), NEW v
  PROVE  LET u == [t EXCEPT !.write = v] IN
         /\ IsTxn(u) /\ \A n : Begun(t, n) => Begun(u, n)
         /\ u.tenant = t.tenant /\ u.at = t.at /\ u.locks = t.locks
         /\ u.read = t.read /\ u.write = v
<1>1. [t EXCEPT !.write = v] = [tenant |-> t.tenant, at |-> t.at, locks |-> t.locks,
                                read |-> t.read, write |-> v]
  BY DEF IsTxn
<1> QED
  BY <1>1 DEF IsTxn, Begun

(* And when it locks what it writes.                                       *)
LEMMA Locking ==
  ASSUME NEW t, IsTxn(t), NEW v, NEW w
  PROVE  LET u == Holding(t, w, v) IN
         /\ IsTxn(u) /\ \A n : Begun(t, n) => Begun(u, n)
         /\ u.tenant = t.tenant /\ u.at = t.at /\ u.locks = w
         /\ u.read = t.read /\ u.write = v
<1>1. Holding(t, w, v) = [tenant |-> t.tenant, at |-> t.at, locks |-> w, read |-> t.read,
                          write |-> v]
  <2>1. Holding(t, w, v) = [[t EXCEPT !.locks = w] EXCEPT !.write = v]
    BY DEF Holding
  <2>2. [t EXCEPT !.locks = w] = [tenant |-> t.tenant, at |-> t.at, locks |-> w,
                                  read |-> t.read, write |-> t.write]
    BY DEF IsTxn
  <2>3. [[tenant |-> t.tenant, at |-> t.at, locks |-> w, read |-> t.read, write |-> t.write]
            EXCEPT !.write = v]
          = [tenant |-> t.tenant, at |-> t.at, locks |-> w, read |-> t.read, write |-> v]
    OBVIOUS
  <2> QED
    BY <2>1, <2>2, <2>3
<1> QED
  BY <1>1 DEF IsTxn, Begun

(* So the other requests stay where they are.                              *)
LEMMA OthersStay ==
  ASSUME PlaceInv, NEW q \in Requests, Turn(q)
  PROVE  /\ clock.serial \in Int /\ clock'.serial \in Int /\ clock.serial <= clock'.serial
         /\ \A p \in Requests \ {q} : /\ pc'[p] = pc[p] /\ txn'[p] = txn[p] /\ reply'[p] = reply[p]
                                      /\ Place(p)'
         /\ \A p \in Requests : Op(p)' = Op(p)
<1>1. /\ clock.serial \in Int /\ clock'.serial \in Int /\ clock.serial <= clock'.serial
  <2>1. CASE clock' = clock
    BY <2>1 DEF PlaceInv, Shape
  <2>2. CASE NextSerial
    BY <2>2 DEF NextSerial, PlaceInv, Shape
  <2> QED BY <2>1, <2>2 DEF Turn
<1>2. \A p \in Requests \ {q} : pc'[p] = pc[p] /\ txn'[p] = txn[p] /\ reply'[p] = reply[p]
  BY DEF PlaceInv, Shape, Turn, Moves
<1>3. \A p \in Requests : Op(p)' = Op(p)
  BY DEF Turn, Op
<1>4. ASSUME NEW p \in Requests \ {q}
      PROVE  Place(p)'
  <2>1. Place(p)
    BY DEF PlaceInv
  <2>2. Fits(pc[p], Op(p))'
    BY <1>2, <1>3, <2>1 DEF Place, Fits
  <2> QED
    BY <1>1, <1>2, <2>1, <2>2 DEF Place, Begun, IsTxn, NoTxn, NoReply, NoStamp
<1> QED
  BY <1>1, <1>2, <1>3, <1>4

(* A request that answers has no transaction any more.                     *)
LEMMA AnswersTurn ==
  ASSUME PlaceInv, NEW q \in Requests, NEW r, Answers(q, r), call' = call, pc[q] # "closed",
         clock' = clock \/ NextSerial
  PROVE  Turn(q) /\ Place(q)'
<1>1. Moves(q) /\ pc'[q] = "closed" /\ txn'[q] = NoTxn /\ reply'[q] = r
  BY AnswersMoves DEF PlaceInv
<1> QED
  BY <1>1 DEF Turn, Place, Fits, Idle, NoTxn, NoStamp

(* A request that goes on does so where its operation does.                *)
LEMMA GoesTurn ==
  ASSUME PlaceInv, NEW q \in Requests, NEW stage, NEW t, Goes(q, stage, t), call' = call,
         pc[q] # "closed", clock' = clock \/ NextSerial,
         Fits(stage, Op(q)), stage # "closed",
         \/ stage \in Idle /\ t = NoTxn
         \/ stage \notin Idle /\ Begun(t, clock'.serial)
  PROVE  Turn(q) /\ Place(q)'
<1>1. Moves(q) /\ pc'[q] = stage /\ txn'[q] = t /\ reply'[q] = reply[q]
  BY GoesMoves DEF PlaceInv
<1>2. Turn(q)
  BY <1>1 DEF Turn
<1>3. Op(q)' = Op(q) /\ reply[q] = NoReply
  BY DEF Op, PlaceInv, Place
<1>4. Begun(txn'[q], clock'.serial) <=> Begun(txn[q], clock.serial)'
  BY DEF Begun, IsTxn
<1>5. Fits(pc'[q], Op(q)') <=> Fits(pc[q], Op(q))'
  BY DEF Fits, DataOps
<1> QED
  BY <1>1, <1>2, <1>3, <1>4, <1>5 DEF Place, NoTxn, NoStamp, NoReply

(* A transaction that has just begun, and what it may carry already.       *)
LEMMA BeganFits ==
  ASSUME PlaceInv, NextSerial, NEW tenant, NEW v
  PROVE  /\ clock'.serial = clock.serial + 1 /\ clock.serial \in Int
         /\ Begun(Began(tenant), clock'.serial)
         /\ Begun([Began(tenant) EXCEPT !.write = v], clock'.serial)
         /\ Begun([Began(tenant) EXCEPT !.read = v], clock'.serial)
<1>1. clock'.serial = clock.serial + 1 /\ clock.serial \in Int
  BY DEF NextSerial, PlaceInv, Shape
<1>2. IsTxn(Began(tenant)) /\ Began(tenant).at.n = clock.serial + 1
  BY BeganIsATxn
<1>3. /\ IsTxn([Began(tenant) EXCEPT !.write = v])
      /\ [Began(tenant) EXCEPT !.write = v].at = Began(tenant).at
  BY <1>2, Reading, Writing
<1>4. /\ IsTxn([Began(tenant) EXCEPT !.read = v])
      /\ [Began(tenant) EXCEPT !.read = v].at = Began(tenant).at
  BY <1>2, Reading, Writing
<1> QED
  BY <1>1, <1>2, <1>3, <1>4 DEF Begun

(* The transaction of a request that is under way.                         *)
LEMMA UnderWay ==
  ASSUME PlaceInv, NEW q \in Requests, pc[q] \notin Idle, clock' = clock, NEW v, NEW w
  PROVE  /\ Begun(txn[q], clock'.serial)
         /\ Begun([txn[q] EXCEPT !.write = v], clock'.serial)
         /\ Begun([txn[q] EXCEPT !.read = v], clock'.serial)
         /\ Begun(Holding(txn[q], w, v), clock'.serial)
<1>1. Begun(txn[q], clock'.serial) /\ IsTxn(txn[q])
  BY DEF PlaceInv, Place, Begun
<1> QED
  BY <1>1, Reading, Writing, Locking

(* An arriving request is turned away or admitted.                         *)
LEMMA Arrives ==
  ASSUME NEW q \in Requests, Arrive(q)
  PROVE  \/ \E a : Answers(q, [status |-> 429, retry |-> a.retry])
         \/ Answers(q, [status |-> 413])
         \/ Goes(q, "admitted", NoTxn)
<1>1. PICK a : /\ \/ Answers(q, [status |-> 429, retry |-> a.retry])
                  \/ Answers(q, [status |-> 413])
                  \/ Goes(q, "admitted", NoTxn)
  <2>1. PICK a : a = IF Op(q) \in LimitedOps
                     THEN Admit(windows, Client(call[q]), Op(q) = "score", clock.tick)
                     ELSE [by |-> "none", windows |-> windows, retry |-> 0]
    OBVIOUS
  <2>2. \/ a.by # "none" /\ Answers(q, [status |-> 429, retry |-> a.retry])
        \/ a.by = "none" /\ call[q].big /\ Answers(q, [status |-> 413])
        \/ a.by = "none" /\ ~call[q].big /\ Goes(q, "admitted", NoTxn)
    BY <2>1, Zenon DEF Arrive
  <2> QED
    BY <2>2
<1> QED
  BY <1>1

(* The middlewares, keys and tenants.                                      *)
LEMMA ApiTurn ==
  ASSUME PlaceInv, NEW q \in Requests, ApiStep(q)
  PROVE  Turn(q) /\ Place(q)'
<1>1. CASE Arrive(q)
  <2>1. pc[q] # "closed" /\ call' = call /\ clock' = clock
    BY <1>1 DEF Arrive
  <2>2. CASE Goes(q, "admitted", NoTxn)
    <3>1. Fits("admitted", Op(q))
      BY DEF Fits
    <3> QED
      BY <2>1, <2>2, <3>1, GoesTurn DEF Idle
  <2> QED
    BY <1>1, <2>1, <2>2, AnswersTurn DEF Arrive
<1>2. CASE RequireTenant(q)
  <2>1. pc[q] # "closed" /\ call' = call /\ NextSerial /\ Op(q) \in DataOps
    BY <1>2 DEF RequireTenant
  <2>2. CASE Goes(q, "run", Began(TenantForApiKey(call[q].key)))
    <3>1. Fits("run", Op(q)) /\ "run" \notin Idle
      BY <2>1 DEF Fits, Idle
    <3> QED
      BY <2>1, <2>2, <3>1, GoesTurn, BeganFits
  <2> QED
    BY <1>2, <2>1, <2>2, AnswersTurn DEF RequireTenant
<1>3. CASE MintKey(q)
  <2>1. pc[q] # "closed" /\ call' = call /\ NextSerial /\ Op(q) = "mint"
    BY <1>3 DEF MintKey
  <2>2. CASE Goes(q, "exit", [Began(call[q].slug) EXCEPT !.write = [key |-> call[q].key]])
    <3>1. Fits("exit", Op(q)) /\ "exit" \notin Idle
      BY <2>1 DEF Fits, Idle
    <3> QED
      BY <2>1, <2>2, <3>1, GoesTurn, BeganFits
  <2> QED
    BY <1>3, <2>1, <2>2, AnswersTurn DEF MintKey
<1>4. CASE RevokeKey(q)
  <2>1. pc[q] # "closed" /\ call' = call /\ NextSerial /\ Op(q) = "revoke"
    BY <1>4 DEF RevokeKey
  <2>2. Fits("exit", Op(q)) /\ "exit" \notin Idle
    BY <2>1 DEF Fits, Idle
  <2> QED
    BY <1>4, <2>1, <2>2, GoesTurn, BeganFits DEF RevokeKey
<1>5. CASE CommitKey(q) \/ CommitTenant(q)
  <2>1. pc[q] # "closed" /\ call' = call /\ clock' = clock
    BY <1>5 DEF CommitKey, CommitTenant, ambient
  <2> QED
    BY <1>5, <2>1, AnswersTurn DEF CommitKey, CommitTenant
<1>6. CASE LookUpTenant(q)
  <2>1. pc[q] # "closed" /\ call' = call /\ NextSerial /\ Op(q) \in {"create", "update"}
    BY <1>6 DEF LookUpTenant, AdminOps
  <2>2. CASE \E state : Goes(q, "write", [Began(call[q].slug) EXCEPT !.read = state])
    <3>1. Fits("write", Op(q)) /\ "write" \notin Idle
      BY <2>1 DEF Fits, Idle
    <3> QED
      BY <2>1, <2>2, <3>1, GoesTurn, BeganFits
  <2>3. CASE \E r : Answers(q, r)
    BY <2>1, <2>3, AnswersTurn
  <2> QED
    BY <1>6, <2>2, <2>3 DEF LookUpTenant
<1>7. CASE InsertTenant(q)
  <2>1. /\ pc[q] # "closed" /\ pc[q] \notin Idle
        /\ call' = call /\ clock' = clock /\ Op(q) = "create"
    BY <1>7 DEF InsertTenant, ambient, Idle
  <2>2. CASE \E v, w : Goes(q, "exit", Holding(txn[q], w, v))
    <3>1. Fits("exit", Op(q)) /\ "exit" \notin Idle
      BY <2>1 DEF Fits, Idle
    <3> QED
      BY <2>1, <2>2, <3>1, GoesTurn, UnderWay
  <2> QED
    BY <1>7, <2>1, <2>2, AnswersTurn DEF InsertTenant
<1>8. CASE UpdateTenant(q)
  <2>1. /\ pc[q] # "closed" /\ pc[q] \notin Idle
        /\ call' = call /\ clock' = clock /\ Op(q) = "update"
    BY <1>8 DEF UpdateTenant, ambient, Idle
  <2>2. \/ Goes(q, "exit", txn[q])
        \/ \E v, w : Goes(q, "exit", Holding(txn[q], w, v))
    BY <1>8 DEF UpdateTenant
  <2>3. Fits("exit", Op(q)) /\ "exit" \notin Idle
    BY <2>1 DEF Fits, Idle
  <2> QED
    BY <2>1, <2>2, <2>3, GoesTurn, UnderWay
<1> QED
  BY <1>1, <1>2, <1>3, <1>4, <1>5, <1>6, <1>7, <1>8 DEF ApiStep

(* Scoring.                                                                *)
LEMMA ScoreTurn ==
  ASSUME PlaceInv, NEW q \in Requests, ScoreStep(q)
  PROVE  Turn(q) /\ Place(q)'
<1>0. /\ Place(q)
      /\ pc[q] = "look" \/ pc[q] = "ask" => Op(q) \in {"score", "row"} /\ pc[q] \notin Idle
  BY DEF PlaceInv, Place, Fits, Idle
<1>1. CASE StartRow(q) \/ StartScore(q)
  <2>1. /\ pc[q] # "closed" /\ call' = call
        /\ (clock' = clock \/ NextSerial)
        /\ Op(q) \in {"score", "row"}
    BY <1>1 DEF StartRow, StartScore
  <2>2. \/ \E r : Answers(q, r)
        \/ \E t : Goes(q, "look", t) /\ Begun(t, clock'.serial)
    <3>1. CASE StartRow(q)
      <4>1. NextSerial /\ TakesPlace(q, Began(call[q].tenant))
        BY <3>1 DEF StartRow
      <4>2. Begun(Began(call[q].tenant), clock'.serial)
        BY <4>1, BeganFits
      <4> QED
        BY <4>1, <4>2 DEF TakesPlace
    <3>2. CASE StartScore(q)
      <4>1. Begun(txn[q], clock'.serial)
        BY <3>2, UnderWay DEF StartScore, Idle
      <4> QED
        BY <3>2, <4>1 DEF StartScore, TakesPlace
    <3> QED
      BY <1>1, <3>1, <3>2
  <2>3. Fits("look", Op(q)) /\ "look" \notin Idle /\ "look" # "closed"
    BY <2>1 DEF Fits, Idle
  <2>4. ASSUME NEW t, Goes(q, "look", t), Begun(t, clock'.serial)
        PROVE  Turn(q) /\ Place(q)'
    BY <2>1, <2>3, <2>4, GoesTurn
  <2> QED
    BY <2>1, <2>2, <2>4, AnswersTurn
<1>2. CASE LookForDuplicate(q) \/ ModelAnswers(q) \/ ModelFails(q)
  <2>1. /\ pc[q] \in {"look", "ask"} /\ pc[q] # "closed" /\ pc[q] \notin Idle /\ call' = call
        /\ Op(q) \in {"score", "row"}
    BY <1>0, <1>2, ModelTurns
  <2>2. Fits("ask", Op(q)) /\ "ask" \notin Idle /\ Fits("exit", Op(q)) /\ "exit" \notin Idle
    BY <2>1 DEF Fits, Idle
  <2>3. ASSUME NEW r, Answers(q, r), clock' = clock
        PROVE  Turn(q) /\ Place(q)'
    BY <2>1, <2>3, AnswersTurn
  <2>4. ASSUME NEW found, Goes(q, "ask", [txn[q] EXCEPT !.read = found]), clock' = clock
        PROVE  Turn(q) /\ Place(q)'
    BY <2>1, <2>2, <2>4, GoesTurn, UnderWay
  <2>5. ASSUME NEW verdict, RecordVerdict(q, verdict)
        PROVE  Turn(q) /\ Place(q)'
    <3>1. IsTxn(txn[q]) /\ txn[q].at.n \in Int /\ txn[q].at.n <= clock.serial /\ clock.serial \in Int
      BY <1>0, <2>1 DEF Place, Begun, PlaceInv, Shape
    <3>2. /\ Moves(q) /\ pc'[q] = "exit" /\ reply'[q] = reply[q]
          /\ txn'[q].at = txn[q].at /\ NextSerial /\ clock'.serial = clock.serial + 1
      BY <2>5, <3>1, RecordVerdictMoves DEF PlaceInv
    <3>3. IsTxn(txn[q])'
      <4>1. PICK n, row : txn'[q] = [tenant |-> txn[q].tenant, at |-> txn[q].at,
                                     locks |-> txn[q].locks, read |-> n, write |-> row]
        BY <2>5, <3>1, RecordVerdictMoves DEF PlaceInv
      <4> QED
        BY <4>1 DEF IsTxn
    <3>4. Begun(txn[q], clock.serial)'
      BY <3>1, <3>2, <3>3 DEF Begun
    <3>5. Op(q)' = Op(q)
      BY <2>1 DEF Op
    <3>6. Fits(pc[q], Op(q))' /\ pc'[q] \notin Idle
      <4>1. Fits(pc[q], Op(q))' <=> Fits(pc'[q], Op(q)')
        BY DEF Fits, DataOps
      <4> QED
        BY <2>2, <3>2, <3>5, <4>1
    <3>7. reply'[q] = NoReply
      BY <1>0, <2>1, <3>2 DEF Place
    <3> QED
      BY <2>1, <3>2, <3>4, <3>6, <3>7 DEF Turn, Place, Idle, NoReply
  <2> QED
    BY <1>2, <2>3, <2>4, <2>5, ModelTurns
<1>3. CASE CommitScore(q)
  <2>1. pc[q] # "closed" /\ call' = call /\ clock' = clock
    BY <1>3 DEF CommitScore
  <2> QED
    BY <1>3, <2>1, AnswersTurn DEF CommitScore
<1> QED
  BY <1>1, <1>2, <1>3 DEF ScoreStep

(* Records.                                                                *)
LEMMA RecordTurn ==
  ASSUME PlaceInv, NEW q \in Requests, RecordStep(q)
  PROVE  Turn(q) /\ Place(q)'
<1>0. /\ Place(q)
      /\ pc[q] \in {"delete", "lock", "preview"} => Op(q) = "upload" /\ pc[q] \notin Idle
  BY DEF PlaceInv, Place, Fits, Idle
<1>1. CASE LoadForReview(q) \/ WriteReview(q) \/ CommitReview(q)
  <2>1. /\ pc[q] # "closed" /\ pc[q] \notin Idle /\ call' = call /\ clock' = clock
        /\ Op(q) = "review"
    BY <1>1 DEF LoadForReview, WriteReview, CommitReview, ambient, Idle
  <2>2. \/ \E r : Answers(q, r)
        \/ \E v : Goes(q, "write", [txn[q] EXCEPT !.read = v])
        \/ \E v, w : Goes(q, "exit", Holding(txn[q], w, v))
    BY <1>1 DEF LoadForReview, WriteReview, CommitReview
  <2>3. Fits("write", Op(q)) /\ "write" \notin Idle /\ Fits("exit", Op(q)) /\ "exit" \notin Idle
    BY <2>1 DEF Fits, Idle
  <2> QED
    BY <2>1, <2>2, <2>3, AnswersTurn, GoesTurn, UnderWay
<1>2. CASE GetResult(q)
  <2>1. pc[q] # "closed" /\ call' = call /\ clock' = clock
    BY <1>2 DEF GetResult, ambient
  <2> QED
    BY <1>2, <2>1, AnswersTurn DEF GetResult
<1>3. CASE CountResults(q) \/ ListPage(q) \/ ListUnderNode(q)
  <2>1. /\ pc[q] # "closed" /\ pc[q] \notin Idle /\ call' = call /\ clock' = clock
        /\ Op(q) = "list"
    BY <1>3 DEF CountResults, ListPage, ListUnderNode, Idle
  <2>2. \/ \E r : Answers(q, r)
        \/ \E v : Goes(q, "rows", [txn[q] EXCEPT !.read = v])
        \/ Goes(q, "new", NoTxn)
    BY <1>3 DEF CountResults, ListPage, ListUnderNode, GetsPage
  <2>3. Fits("rows", Op(q)) /\ "rows" \notin Idle /\ Fits("new", Op(q)) /\ "new" \in Idle
    BY <2>1 DEF Fits, Idle
  <2> QED
    BY <2>1, <2>2, <2>3, AnswersTurn, GoesTurn, UnderWay
<1>4. CASE StartUpload(q)
  <2>1. /\ pc[q] # "closed" /\ call' = call
        /\ (clock' = clock \/ NextSerial)
        /\ Op(q) = "upload"
    BY <1>4 DEF StartUpload
  <2>2. \/ \E r : Answers(q, r)
        \/ NextSerial /\ \E v : Goes(q, "delete", [Began(DevTenant) EXCEPT !.read = v])
    BY <1>4 DEF StartUpload
  <2>3. Fits("delete", Op(q)) /\ "delete" \notin Idle /\ "delete" # "closed"
    BY <2>1 DEF Fits, Idle
  <2>4. ASSUME NextSerial, NEW v, Goes(q, "delete", [Began(DevTenant) EXCEPT !.read = v])
        PROVE  Turn(q) /\ Place(q)'
    BY <2>1, <2>3, <2>4, GoesTurn, BeganFits
  <2> QED
    BY <2>1, <2>2, <2>4, AnswersTurn
<1>5. CASE StartDelete(q) \/ DeleteAndInsert(q) \/ PreviewUpload(q)
  <2>1. /\ pc[q] # "closed" /\ pc[q] \notin Idle /\ call' = call /\ clock' = clock
        /\ Op(q) = "upload"
    BY <1>0, <1>5 DEF StartDelete, DeleteAndInsert, PreviewUpload, ambient
  <2>2. \/ \E v : Goes(q, "lock", [txn[q] EXCEPT !.write = v])
        \/ \E v, w : Goes(q, "preview", Holding(txn[q], w, v))
        \/ \E v : Goes(q, "exit", [txn[q] EXCEPT !.read = v])
    BY <1>5 DEF StartDelete, DeleteAndInsert, PreviewUpload
  <2>3. \A stage \in {"lock", "preview", "exit"} : Fits(stage, Op(q)) /\ stage \notin Idle
    BY <2>1 DEF Fits, Idle
  <2> QED
    BY <2>1, <2>2, <2>3, GoesTurn, UnderWay
<1>6. CASE CommitUpload(q) \/ ReadStatusReps(q)
  <2>1. pc[q] # "closed" /\ call' = call /\ clock' = clock
    BY <1>6 DEF CommitUpload, ReadStatusReps, ambient
  <2> QED
    BY <1>6, <2>1, AnswersTurn DEF CommitUpload, ReadStatusReps
<1>7. CASE ReadStatusRows(q)
  <2>1. pc[q] # "closed" /\ call' = call /\ NextSerial /\ Op(q) = "status"
    BY <1>7 DEF ReadStatusRows
  <2>2. \/ \E r : Answers(q, r)
        \/ \E v : Goes(q, "reps", [Began(DevTenant) EXCEPT !.read = v])
    BY <1>7 DEF ReadStatusRows
  <2>3. Fits("reps", Op(q)) /\ "reps" \notin Idle
    BY <2>1 DEF Fits, Idle
  <2> QED
    BY <2>1, <2>2, <2>3, AnswersTurn, GoesTurn, BeganFits
<1> QED
  BY <1>1, <1>2, <1>3, <1>4, <1>5, <1>6, <1>7 DEF RecordStep

(* Reports.                                                                *)
LEMMA ReportTurn ==
  ASSUME PlaceInv, NEW q \in Requests, ReportStep(q)
  PROVE  Turn(q) /\ Place(q)'
<1>0. /\ Place(q)
      /\ pc[q] \in {"items", "before", "previous", "map"} => Op(q) = "summary"
      /\ pc[q] \in {"count", "fetch", "ever", "card"} => Op(q) = "scorecard"
  BY DEF PlaceInv, Place, Fits
<1>1. pc[q] # "closed" /\ pc[q] \notin Idle /\ call' = call /\ clock' = clock
  BY DEF ReportStep, CountItems, FetchItems, CountPrevious, FetchPrevious, ReadMap,
         ReadAgentRows, CountAgent, FetchAgent, LookForAny, ShowCard, Reads, ambient, Idle
<1>2. /\ \/ \E r : Answers(q, r)
         \/ \E stage, v : /\ Goes(q, stage, [txn[q] EXCEPT !.read = v])
                          /\ \/ Op(q) = "summary" /\ stage \in {"items", "before", "previous", "map"}
                             \/ Op(q) = "scorecard" /\ stage \in {"count", "fetch", "ever", "card"}
  <2>1. CASE \/ CountItems(q) \/ FetchItems(q) \/ CountPrevious(q) \/ FetchPrevious(q) \/ ReadMap(q)
    <3>1. Op(q) = "summary"
      BY <1>0, <2>1 DEF CountItems, FetchItems, CountPrevious, FetchPrevious, ReadMap
    <3> QED
      BY <2>1, <3>1 DEF CountItems, FetchItems, CountPrevious, FetchPrevious, ReadMap, Reads
  <2>2. CASE \/ ReadAgentRows(q) \/ CountAgent(q) \/ FetchAgent(q) \/ LookForAny(q) \/ ShowCard(q)
    <3>1. Op(q) = "scorecard"
      BY <1>0, <2>2 DEF ReadAgentRows, CountAgent, FetchAgent, LookForAny, ShowCard
    <3> QED
      <4>1. CASE ReadAgentRows(q)
        BY <3>1, <4>1 DEF ReadAgentRows, Reads
      <4>2. CASE CountAgent(q)
        BY <3>1, <4>2 DEF CountAgent, Reads
      <4>3. CASE FetchAgent(q)
        BY <3>1, <4>3 DEF FetchAgent, Reads
      <4>4. CASE LookForAny(q) \/ ShowCard(q)
        BY <3>1, <4>4 DEF LookForAny, ShowCard, Reads
      <4> QED
        BY <2>2, <4>1, <4>2, <4>3, <4>4
  <2> QED
    BY <2>1, <2>2 DEF ReportStep
<1>3. \A stage \in {"items", "before", "previous", "map", "count", "fetch", "ever", "card"} :
         /\ stage \notin Idle
         /\ Op(q) = "summary" /\ stage \in {"items", "before", "previous", "map"} => Fits(stage, Op(q))
         /\ Op(q) = "scorecard" /\ stage \in {"count", "fetch", "ever", "card"} => Fits(stage, Op(q))
  BY DEF Fits, Idle, DataOps
<1> QED
  BY <1>1, <1>2, <1>3, AnswersTurn, GoesTurn, UnderWay

(* Every step of the service is the turn of one request, or of nobody.     *)
LEMMA StepTurn ==
  ASSUME PlaceInv, NEW q \in Requests, Step(q) \/ CommitRefused(q)
  PROVE  Turn(q) /\ Place(q)'
<1>1. CASE Step(q)
  BY <1>1, ApiTurn, ScoreTurn, RecordTurn, ReportTurn DEF Step
<1>2. CASE CommitRefused(q)
  <2>1. pc[q] # "closed" /\ call' = call /\ clock' = clock
    BY <1>2 DEF CommitRefused
  <2> QED
    BY <1>2, <2>1, AnswersTurn DEF CommitRefused
<1> QED
  BY <1>1, <1>2

(* Which steps write which table.                                          *)
LEMMA WhoWrites ==
  ASSUME NEW q \in Requests, Step(q) \/ CommitRefused(q)
  PROVE  /\ CommitUpload(q) \/ hierarchy' = hierarchy
         /\ CommitReview(q) \/ audit' = audit
         /\ CommitScore(q) \/ CommitReview(q) \/ results' = results
         /\ CommitScore(q) \/ hashes' = hashes
         /\ CommitKey(q) \/ keys' = keys
         /\ CommitTenant(q) \/ tenants' = tenants
         /\ Arrive(q) \/ (windows' = windows /\ hits' = hits)
         /\ CountResults(q) \/ ListPage(q) \/ ListUnderNode(q) \/ page' = page
<1>1. CASE ApiStep(q)
  <2>1. CASE Arrive(q) \/ RequireTenant(q) \/ MintKey(q) \/ RevokeKey(q) \/ LookUpTenant(q)
    BY <2>1 DEF Arrive, RequireTenant, MintKey, RevokeKey, LookUpTenant, tables
  <2>2. CASE CommitKey(q) \/ CommitTenant(q)
    BY <2>2 DEF CommitKey, CommitTenant, ambient
  <2>3. CASE InsertTenant(q) \/ UpdateTenant(q)
    BY <2>3 DEF InsertTenant, UpdateTenant, tables, ambient
  <2> QED
    BY <1>1, <2>1, <2>2, <2>3 DEF ApiStep
<1>2. CASE ScoreStep(q)
  BY <1>2 DEF ScoreStep, StartRow, StartScore, LookForDuplicate, ModelAnswers, ModelFails,
              CommitScore, tables
<1>3. CASE RecordStep(q)
  BY <1>3 DEF RecordStep, LoadForReview, WriteReview, CommitReview, GetResult, CountResults,
              ListPage, ListUnderNode, StartUpload, StartDelete, DeleteAndInsert, PreviewUpload,
              CommitUpload, ReadStatusRows, ReadStatusReps, tables, ambient
<1>4. CASE ReportStep(q)
  BY <1>4 DEF ReportStep, CountItems, FetchItems, CountPrevious, FetchPrevious, ReadMap,
              ReadAgentRows, CountAgent, FetchAgent, LookForAny, ShowCard, Reads, tables, ambient
<1>5. CASE CommitRefused(q)
  BY <1>5 DEF CommitRefused, tables
<1> QED
  BY <1>1, <1>2, <1>3, <1>4, <1>5 DEF Step

(* Which steps a request can take, by its operation.                       *)
LEMMA WhoSteps ==
  ASSUME PlaceInv, NEW q \in Requests, Step(q)
  PROVE  /\ Op(q) = "upload" => \/ Arrive(q) \/ StartUpload(q) \/ StartDelete(q)
                                \/ DeleteAndInsert(q) \/ PreviewUpload(q) \/ CommitUpload(q)
         /\ Op(q) = "review" => \/ Arrive(q) \/ RequireTenant(q) \/ LoadForReview(q)
                                \/ WriteReview(q) \/ CommitReview(q)
         /\ Op(q) \in {"score", "row"} =>
               Arrive(q) \/ RequireTenant(q) \/ ScoreStep(q)
         /\ Op(q) = "get" => Arrive(q) \/ RequireTenant(q) \/ GetResult(q)
         /\ Op(q) = "list" => \/ Arrive(q) \/ RequireTenant(q) \/ CountResults(q)
                              \/ ListPage(q) \/ ListUnderNode(q)
         /\ Op(q) = "summary" => \/ Arrive(q) \/ RequireTenant(q) \/ CountItems(q)
                                 \/ FetchItems(q) \/ CountPrevious(q) \/ FetchPrevious(q)
                                 \/ ReadMap(q)
         /\ Op(q) = "scorecard" => \/ Arrive(q) \/ RequireTenant(q) \/ ReadAgentRows(q)
                                   \/ CountAgent(q) \/ FetchAgent(q) \/ LookForAny(q)
                                   \/ ShowCard(q)
         /\ Op(q) \in AdminOps => \/ Arrive(q) \/ LookUpTenant(q) \/ InsertTenant(q)
                                  \/ UpdateTenant(q) \/ CommitTenant(q)
<1>1. Fits(pc[q], Op(q))
  BY DEF PlaceInv, Place
<1>2. CASE ApiStep(q)
  BY <1>2 DEF ApiStep, MintKey, RevokeKey, CommitKey, LookUpTenant, InsertTenant, UpdateTenant,
              CommitTenant, RequireTenant, AdminOps, DataOps
<1>3. CASE ScoreStep(q)
  <2>1. Op(q) \in {"score", "row"}
    BY <1>1, <1>3 DEF ScoreStep, StartRow, StartScore, LookForDuplicate, ModelAnswers,
                      ModelFails, CommitScore, IsScoring, Fits
  <2> QED
    BY <1>3, <2>1 DEF AdminOps
<1>4. CASE RecordStep(q)
  <2>1. LoadForReview(q) \/ WriteReview(q) \/ CommitReview(q) => Op(q) = "review"
    BY DEF LoadForReview, WriteReview, CommitReview
  <2>2. GetResult(q) => Op(q) = "get"
    BY DEF GetResult
  <2>3. CountResults(q) \/ ListPage(q) \/ ListUnderNode(q) => Op(q) = "list"
    BY <1>1 DEF CountResults, ListPage, ListUnderNode, Fits
  <2>4. ASSUME \/ StartUpload(q) \/ StartDelete(q) \/ DeleteAndInsert(q)
               \/ PreviewUpload(q) \/ CommitUpload(q)
        PROVE  Op(q) = "upload"
    BY <1>1, <2>4 DEF StartUpload, StartDelete, DeleteAndInsert, PreviewUpload, CommitUpload, Fits
  <2>5. ReadStatusRows(q) \/ ReadStatusReps(q) => Op(q) = "status"
    BY <1>1 DEF ReadStatusRows, ReadStatusReps, Fits
  <2>6. \/ LoadForReview(q) \/ WriteReview(q) \/ CommitReview(q)
        \/ GetResult(q)
        \/ CountResults(q) \/ ListPage(q) \/ ListUnderNode(q)
        \/ StartUpload(q) \/ StartDelete(q) \/ DeleteAndInsert(q)
        \/ PreviewUpload(q) \/ CommitUpload(q)
        \/ ReadStatusRows(q) \/ ReadStatusReps(q)
    BY <1>4 DEF RecordStep
  <2>7. {"status", "review", "get", "list", "upload"} \cap AdminOps = {}
    BY DEF AdminOps
  <2>8. CASE LoadForReview(q) \/ WriteReview(q) \/ CommitReview(q)
    BY <2>1, <2>7, <2>8
  <2>9. CASE GetResult(q)
    BY <2>2, <2>7, <2>9
  <2>10. CASE CountResults(q) \/ ListPage(q) \/ ListUnderNode(q)
    BY <2>3, <2>7, <2>10
  <2>11. CASE \/ StartUpload(q) \/ StartDelete(q) \/ DeleteAndInsert(q)
              \/ PreviewUpload(q) \/ CommitUpload(q)
    <3>1. Op(q) = "upload"
      BY <2>4, <2>11
    <3>2. Op(q) \notin AdminOps
      BY <2>7, <3>1
    <3> QED
      BY <2>11, <3>1, <3>2
  <2>12. CASE ReadStatusRows(q) \/ ReadStatusReps(q)
    BY <2>5, <2>7, <2>12
  <2> QED
    BY <2>6, <2>8, <2>9, <2>10, <2>11, <2>12
<1>5. CASE ReportStep(q)
  BY <1>1, <1>5 DEF ReportStep, CountItems, FetchItems, CountPrevious, FetchPrevious, ReadMap,
              ReadAgentRows, CountAgent, FetchAgent, LookForAny, ShowCard, Fits, AdminOps, DataOps
<1> QED
  BY <1>2, <1>3, <1>4, <1>5 DEF Step

(* A listing client's progress is its own.                                 *)
LEMMA PageMoves ==
  ASSUME PlaceInv, NEW q \in Requests, Step(q) \/ CommitRefused(q)
  PROVE  page' = [page EXCEPT ![q] = page'[q]]
<1>1. page = [p \in Requests |-> page[p]]
  BY DEF PlaceInv
<1>2. CASE page' = page
  BY <1>1, <1>2
<1>3. CASE CountResults(q)
  BY <1>1, <1>3 DEF CountResults
<1>4. ASSUME NEW rows, NEW total, GetsPage(q, rows, total)
      PROVE  page' = [page EXCEPT ![q] = page'[q]]
  BY <1>1, <1>4 DEF GetsPage
<1> QED
  BY <1>2, <1>3, <1>4, WhoWrites DEF ListPage, ListUnderNode

(* The places of the requests are an invariant.                            *)
LEMMA PlaceInit == Init => PlaceInv
<1> SUFFICES ASSUME Init
             PROVE  PlaceInv
  OBVIOUS
<1>1. Shape
  BY GateInit DEF GateInv
<1>2. ASSUME NEW q \in Requests
      PROVE  Place(q)
  <2>1. pc[q] \in {"new", "closed"} /\ txn[q] = NoTxn /\ reply[q] = NoReply
    BY DEF Init
  <2> QED
    BY <2>1 DEF Place, Fits, Idle
<1>3. call \in Plans /\ page = [q \in Requests |-> page[q]]
  BY DEF Init
<1> QED
  BY <1>1, <1>2, <1>3 DEF PlaceInv

(* Every step leaves each request at a stage of its own handler.           *)
LEMMA PlaceNext == PlaceInv /\ GateInv' /\ [Next]_vars => PlaceInv'
<1> SUFFICES ASSUME PlaceInv, Shape', [Next]_vars
             PROVE  PlaceInv'
  BY DEF GateInv
<1>1. ASSUME NEW q \in Requests, Step(q) \/ CommitRefused(q)
      PROVE  PlaceInv'
  <2>1. Turn(q) /\ Place(q)'
    BY <1>1, StepTurn
  <2>2. \A p \in Requests : Place(p)'
    BY <2>1, OthersStay
  <2>3. (page = [p \in Requests |-> page[p]])'
    BY <1>1, PageMoves DEF PlaceInv
  <2> QED
    BY <2>1, <2>2, <2>3 DEF PlaceInv, Turn
<1>2. CASE Rests
  <2>1. pc' = pc /\ txn' = txn /\ reply' = reply /\ call' = call /\ page' = page
    BY <1>2 DEF Rests, Tick, Respond, vars, flow, ambient
  <2>2. clock'.serial = clock.serial
    BY <1>2 DEF Rests, Tick, Respond, vars, ambient, PlaceInv, Shape
  <2>3. ASSUME NEW p \in Requests
        PROVE  Place(p)'
    <3>1. Place(p)
      BY DEF PlaceInv
    <3> QED
      BY <2>1, <2>2, <3>1 DEF Place, Fits, Op, Begun, IsTxn, NoTxn, NoReply, NoStamp
  <2> QED
    BY <2>1, <2>3 DEF PlaceInv
<1> QED
  BY <1>1, <1>2 DEF Next, Rests

(* Both invariants are kept together.                                      *)
LEMMA BothNext == GateInv /\ PlaceInv /\ [Next]_vars => GateInv' /\ PlaceInv'
BY GateNext, PlaceNext

(* Where each request is, with its transaction, in every state.            *)
THEOREM PlaceInvariant == Spec => [](GateInv /\ PlaceInv)
BY GateInit, PlaceInit, BothNext, PTL DEF Spec

(* ---- the org map ------------------------------------------------------- *)

(* The rows one upload writes.                                             *)
Own(rows, q) == rows # {} /\ \A h \in rows : h.upload = q /\ h.tenant = DevTenant

(* A row is seeded, or comes from an upload that was answered.             *)
Known(h) == h.upload \in Requests => h.upload \in Uploads /\ h \in reply[h.upload].rows

(* All or nothing of each upload.                                          *)
Whole(S) == \A h \in S : h.upload \in Requests => reply[h.upload].rows \subseteq S

(* A row that was committed before q's transaction began.                  *)
Old(h, q) ==
    h.tenant = DevTenant /\ (h.upload \in Requests => reply[h.upload].done < txn[q].at.n)

(* What an upload under way has read and is about to write: its own rows,  *)
(* and the whole earlier uploads it deletes, among them every old row that *)
(* is still there.  From the preview on it holds the locks of those rows.  *)
Uploading(q) ==
    LET w == txn[q].write IN
    /\ pc[q] = "delete" => Own(txn[q].read.rows, q)
    /\ pc[q] \in {"delete", "lock", "preview", "exit"} => txn[q].tenant = DevTenant
    /\ pc[q] \in {"lock", "preview", "exit"} =>
          /\ w = [rows |-> w.rows, gone |-> w.gone]
          /\ Own(w.rows, q)
          /\ \A h \in w.gone : h.tenant = DevTenant /\ Known(h)
          /\ Whole(w.gone)
          /\ \A h \in hierarchy : Old(h, q) => h \in w.gone
    /\ pc[q] \in {"preview", "exit"} => txn[q].locks = w.gone /\ w.gone \subseteq hierarchy

Deletes(q) == Op(q) = "upload" /\ pc[q] \in {"preview", "exit"}

Current == {q \in Uploads : \E h \in hierarchy : h.upload = q}

MapInv ==
    /\ \A q \in Requests : Op(q) = "upload" => Uploading(q)
    /\ \A p, q \in Requests : p # q /\ Deletes(p) /\ Deletes(q) =>
          txn[p].write.gone \cap txn[q].write.gone = {}
    /\ \A p \in Uploads : /\ Own(reply[p].rows, p)
                          /\ reply[p].at.n \in Int /\ reply[p].done \in Int
                          /\ reply[p].at.n <= reply[p].done /\ reply[p].done <= clock.serial
    /\ \A h \in hierarchy : Known(h)
    /\ Whole(hierarchy)
    /\ Uploads # {} => Current # {} /\ \A h \in OrgRows(DevTenant) : h.upload \in Requests
    /\ \A p, q \in Current : ~(reply[p].done < reply[q].at.n)

(* The invariant says that the map is made of whole uploads that overlap.  *)
LEMMA MapIsWhole == MapInv => UploadReplacesTheMap
<1> SUFFICES ASSUME MapInv
             PROVE  UploadReplacesTheMap
  OBVIOUS
<1>1. ASSUME Uploads # {}
      PROVE  OrgRows(DevTenant) = UNION {reply[q].rows : q \in Current}
  <2>1. ASSUME NEW h \in OrgRows(DevTenant)
        PROVE  \E q \in Current : h \in reply[q].rows
    <3>1. h \in hierarchy /\ h.upload \in Requests
      BY <1>1, <2>1 DEF MapInv, OrgRows
    <3>2. h.upload \in Uploads /\ h \in reply[h.upload].rows
      BY <3>1 DEF MapInv, Known
    <3> QED
      BY <3>1, <3>2 DEF Current
  <2>2. ASSUME NEW q \in Current, NEW h \in reply[q].rows
        PROVE  h \in OrgRows(DevTenant)
    <3>1. q \in Uploads /\ q \in Requests
      BY DEF Current, Uploads
    <3>2. PICK g \in hierarchy : g.upload = q
      BY DEF Current
    <3>3. h \in hierarchy
      BY <3>1, <3>2 DEF MapInv, Whole
    <3>4. h.tenant = DevTenant
      BY <3>1 DEF MapInv, Own
    <3> QED
      BY <3>3, <3>4 DEF OrgRows
  <2>3. ASSUME NEW h
        PROVE  h \in OrgRows(DevTenant) <=> h \in UNION {reply[q].rows : q \in Current}
    BY <2>1, <2>2
  <2> QED
    BY <2>3
<1>2. Uploads # {} => Current # {}
  BY DEF MapInv
<1>3. \A p, q \in Current : ~(reply[p].done < reply[q].at.n)
  BY DEF MapInv
<1> QED
  BY <1>1, <1>2, <1>3 DEF UploadReplacesTheMap, Current

(* A step that commits no upload leaves the others' alone.                 *)
LEMMA MapQuiet ==
  ASSUME PlaceInv, MapInv, NEW q \in Requests, Turn(q), hierarchy' = hierarchy,
         Op(q) = "upload" =>
            /\ reply'[q].status # 200
            /\ Uploading(q)'
            /\ Deletes(q)' => \A p \in Requests \ {q} : Deletes(p) =>
                                 txn[p].write.gone \cap txn'[q].write.gone = {}
  PROVE  MapInv'
<1>1. /\ clock.serial \in Int /\ clock'.serial \in Int /\ clock.serial <= clock'.serial
      /\ \A p \in Requests \ {q} : pc'[p] = pc[p] /\ txn'[p] = txn[p] /\ reply'[p] = reply[p]
      /\ \A p \in Requests : Op(p)' = Op(p)
  BY OthersStay
<1>2. q \notin Uploads /\ q \notin Uploads'
  BY <1>1 DEF Uploads, Ended, PlaceInv, Place, Turn, NoReply
<1>3. Uploads' = Uploads /\ \A p \in Uploads : reply'[p] = reply[p] /\ p # q
  BY <1>1, <1>2 DEF Uploads, Ended
<1>4. \A h : Known(h)' <=> Known(h)
  BY <1>3 DEF Known
<1>5. ASSUME NEW S, \A h \in S : Known(h)
      PROVE  Whole(S)' <=> Whole(S)
  BY <1>3, <1>5 DEF Whole, Known
<1>6. ASSUME NEW p \in Requests \ {q}, NEW h \in hierarchy
      PROVE  Old(h, p)' => Old(h, p)
  <2>1. Known(h)
    BY DEF MapInv
  <2> QED
    BY <1>1, <1>3, <2>1 DEF Old, Known
<1>7. ASSUME NEW p \in Requests, Op(p)' = "upload"
      PROVE  Uploading(p)'
  <2>1. CASE p = q
    BY <1>1, <1>7, <2>1
  <2>2. CASE p # q
    <3>1. Uploading(p)
      BY <1>1, <1>7 DEF MapInv
    <3>2. (pc[p] \in {"lock", "preview", "exit"} =>
             LET w == txn[p].write IN
             /\ w = [rows |-> w.rows, gone |-> w.gone]
             /\ Own(w.rows, p)
             /\ \A h \in w.gone : h.tenant = DevTenant /\ Known(h)
             /\ Whole(w.gone)
             /\ \A h \in hierarchy : Old(h, p) => h \in w.gone)'
      BY <1>1, <1>4, <1>5, <1>6, <2>2, <3>1 DEF Uploading, Own
    <3> QED
      BY <1>1, <2>2, <3>1, <3>2 DEF Uploading, Own
  <2> QED
    BY <2>1, <2>2
<1>8. (\A p, r \in Requests : p # r /\ Deletes(p) /\ Deletes(r) =>
          txn[p].write.gone \cap txn[r].write.gone = {})'
  BY <1>1 DEF MapInv, Deletes
<1>9. /\ Whole(hierarchy)'
      /\ \A h \in hierarchy' : Known(h)'
  BY <1>4, <1>5 DEF MapInv
<1>10. Current' = Current /\ OrgRows(DevTenant)' = OrgRows(DevTenant)
  BY <1>3 DEF Current, OrgRows
<1>11. (\A p \in Uploads : /\ Own(reply[p].rows, p)
                           /\ reply[p].at.n \in Int /\ reply[p].done \in Int
                           /\ reply[p].at.n <= reply[p].done /\ reply[p].done <= clock.serial)'
  BY <1>1, <1>3 DEF MapInv, Own
<1>12. (\A p, r \in Current : ~(reply[p].done < reply[r].at.n))'
  BY <1>3, <1>10 DEF MapInv, Current
<1>13. (Uploads # {} => Current # {} /\ \A h \in OrgRows(DevTenant) : h.upload \in Requests)'
  BY <1>3, <1>10 DEF MapInv
<1>14. (\A p \in Requests : Op(p) = "upload" => Uploading(p))'
  BY <1>7
<1> QED
  BY Zenon, <1>8, <1>9, <1>11, <1>12, <1>13, <1>14 DEF MapInv

(* A parsed file has rows, and they carry the mark of their upload.        *)
LEMMA ParsedRowsAreOwn ==
  ASSUME call \in Plans, NEW q \in Requests, Op(q) = "upload", ~CsvRefused(call[q].file, Today)
  PROVE  Own({MapRow(q, r) : r \in ParseCsv(call[q].file, Today)}, q)
<1>1. PICK cells : cells = call[q].file.rows
  OBVIOUS
<1>2. cells # <<>> /\ cells \in Seq({cells[i] : i \in DOMAIN cells})
  <2>1. cells # <<>>
    BY <1>1 DEF CsvRefused
  <2>2. call[q].file.rows \in Seq({call[q].file.rows[i] : i \in DOMAIN call[q].file.rows})
    BY Zenon, PlansAssumption DEF Op
  <2> QED
    BY Zenon, <1>1, <2>1, <2>2
<1>3. 1 \in DOMAIN cells
  <2>1. PICK S : cells \in Seq(S)
    BY <1>2
  <2> QED
    BY <1>2, <2>1
<1>4. ParseCsv(call[q].file, Today) # {}
  BY <1>1, <1>3 DEF ParseCsv
<1>5. \A r : MapRow(q, r).tenant = DevTenant /\ MapRow(q, r).upload = q
  BY DEF MapRow
<1> QED
  BY <1>4, <1>5 DEF Own

(* An upload's steps up to its commit.                                     *)
LEMMA MapWorks ==
  ASSUME PlaceInv, MapInv, NEW q \in Requests, Op(q) = "upload",
         \/ Arrive(q) \/ StartUpload(q) \/ StartDelete(q) \/ DeleteAndInsert(q)
         \/ PreviewUpload(q) \/ CommitRefused(q)
  PROVE  MapInv'
<1>1. Shape /\ Place(q) /\ Uploading(q) /\ call \in Plans
  BY DEF PlaceInv, MapInv
<1>2. Turn(q) /\ Op(q)' = Op(q)
  <2>1. Turn(q)
    BY StepTurn DEF Step, ApiStep, RecordStep
  <2> QED
    BY <2>1, OthersStay
<1>3. CASE \/ Arrive(q) \/ CommitRefused(q)
           \/ StartUpload(q) /\ ~(\E t : Goes(q, "delete", t))
  <2>1. pc'[q] \in {"admitted", "closed"} /\ reply'[q].status # 200 /\ hierarchy' = hierarchy
    BY <1>1, <1>3, GoesMoves, AnswersMoves
       DEF Arrive, CommitRefused, StartUpload, tables, Place, NoReply
  <2>2. Uploading(q)' /\ ~Deletes(q)'
    BY <2>1 DEF Uploading, Deletes
  <2> QED
    BY <1>2, <2>1, <2>2, MapQuiet
<1>4. CASE StartUpload(q) /\ \E t : Goes(q, "delete", t)
  <2>1. PICK t : Goes(q, "delete", t)
    BY <1>4
  <2>2. pc'[q] = "delete" /\ txn'[q] = t /\ reply'[q] = reply[q]
    BY <1>1, <2>1, GoesMoves
  <2>0. PICK rows : rows = {MapRow(q, r) : r \in ParseCsv(call[q].file, Today)}
    OBVIOUS
  <2>3. /\ Goes(q, "delete", [Began(DevTenant) EXCEPT !.read = [rows |-> rows]])
        /\ ~CsvRefused(call[q].file, Today)
        /\ hierarchy' = hierarchy
    <3>1. ASSUME NEW r, Answers(q, r)
          PROVE  FALSE
      BY <1>1, <2>2, <3>1, AnswersMoves
    <3> QED
      BY <1>4, <2>0, <3>1 DEF StartUpload, tables
  <2>4. Own(rows, q)
    BY <1>1, <2>0, <2>3, ParsedRowsAreOwn
  <2>5. txn'[q] = [Began(DevTenant) EXCEPT !.read = [rows |-> rows]]
    BY <1>1, <2>3, GoesMoves
  <2>6. txn'[q].tenant = DevTenant /\ txn'[q].read = [rows |-> rows]
    BY <2>5, BeganIsATxn, Reading
  <2>7. Uploading(q)' /\ ~Deletes(q)' /\ reply'[q].status # 200
    BY <1>1, <1>2, <2>2, <2>4, <2>6 DEF Uploading, Deletes, Own, Place, NoReply, Turn
  <2> QED
    BY <1>2, <2>3, <2>7, MapQuiet
<1>5. CASE StartDelete(q)
  <2>0. PICK w : w = [rows |-> txn[q].read.rows, gone |-> OrgRows(txn[q].tenant)]
    OBVIOUS
  <2>1. /\ pc[q] = "delete" /\ pc'[q] = "lock" /\ reply'[q] = reply[q]
        /\ txn'[q] = [txn[q] EXCEPT !.write = w] /\ hierarchy' = hierarchy
    BY <1>1, <1>5, <2>0, GoesMoves DEF StartDelete, tables
  <2>2. IsTxn(txn[q]) /\ txn[q].tenant = DevTenant /\ Own(txn[q].read.rows, q)
    BY <1>1, <2>1 DEF Place, Idle, Begun, Uploading
  <2>3. txn'[q].tenant = DevTenant /\ txn'[q].write = w
    BY <2>1, <2>2, Writing
  <2>4. /\ w = [rows |-> w.rows, gone |-> w.gone]
        /\ Own(w.rows, q) /\ w.gone = OrgRows(DevTenant)
    BY <2>0, <2>2
  <2>5. \A h \in w.gone : h \in hierarchy /\ h.tenant = DevTenant /\ Known(h)
    BY <2>4 DEF MapInv, OrgRows
  <2>6. Whole(w.gone)
    BY <2>4, <2>5 DEF MapInv, Whole, Known, Own, OrgRows
  <2>7. reply' = reply /\ Uploads' = Uploads
    BY <1>5 DEF StartDelete, Goes, Uploads, Ended, ambient, Op
  <2>8. Uploading(q)' /\ ~Deletes(q)'
    <3>1. \A h \in hierarchy' : Old(h, q)' => h \in w.gone
      BY <2>1, <2>4 DEF Old, OrgRows
    <3>2. /\ \A h \in w.gone : h.tenant = DevTenant /\ Known(h)'
          /\ Whole(w.gone)'
      BY <2>5, <2>6, <2>7 DEF Known, Whole
    <3> QED
      BY <2>1, <2>3, <2>4, <3>1, <3>2 DEF Uploading, Deletes, Own
  <2> QED
    BY <1>1, <1>2, <2>1, <2>8, MapQuiet DEF Place, NoReply, Turn
<1>6. CASE DeleteAndInsert(q)
  <2>a. PICK left : left = txn[q].write.gone \cap hierarchy
    OBVIOUS
  <2>b. PICK w : w = [rows |-> txn[q].write.rows, gone |-> left]
    OBVIOUS
  <2>c. PICK u : u = Holding(txn[q], left, w)
    OBVIOUS
  <2>0. IsTxn(txn[q]) /\ pc[q] = "lock" /\ txn[q].tenant = DevTenant
    BY <1>1, <1>6 DEF DeleteAndInsert, Place, Idle, Begun, Uploading
  <2>1. /\ pc'[q] = "preview" /\ reply'[q] = reply[q] /\ hierarchy' = hierarchy
        /\ txn'[q] = u
        /\ txn[q].write.gone \cap LockedByOthers(q) = {}
    <3>4. Goes(q, "preview", u)
      BY <1>6, <2>a, <2>b, <2>c DEF DeleteAndInsert
    <3> QED
      BY <1>1, <1>6, <3>4, GoesMoves DEF DeleteAndInsert, tables
  <2>2. left \subseteq hierarchy /\ left \subseteq txn[q].write.gone
    BY <2>a
  <2>3. w.rows = txn[q].write.rows /\ w.gone = left /\ w = [rows |-> w.rows, gone |-> w.gone]
    BY <2>b
  <2>4. \A h : h \in left <=> h \in txn[q].write.gone /\ h \in hierarchy
    BY <2>a
  <2>5. txn'[q].tenant = DevTenant /\ txn'[q].write = w /\ txn'[q].locks = left /\ txn'[q].at = txn[q].at
    <3>1. u.tenant = txn[q].tenant /\ u.at = txn[q].at /\ u.locks = left /\ u.write = w
      BY <2>0, <2>c, Locking
    <3> QED
      BY <2>0, <2>1, <3>1
  <2>6. reply' = reply /\ Uploads' = Uploads
    BY <1>6 DEF DeleteAndInsert, Goes, Uploads, Ended, ambient, Op
  <2>7. Whole(left) /\ \A h \in left : h.tenant = DevTenant /\ Known(h)
    BY <1>1, <2>0, <2>2, <2>4 DEF Uploading, Whole, MapInv
  <2>8. \A h \in hierarchy : Old(h, q) => h \in left
    BY <1>1, <2>0, <2>4 DEF Uploading
  <2>9. Uploading(q)'
    BY <1>1, <2>0, <2>1, <2>2, <2>3, <2>5, <2>6, <2>7, <2>8
       DEF Uploading, Own, Whole, Known, Old
  <2>10. ASSUME NEW p \in Requests \ {q}, Deletes(p)
         PROVE  txn[p].write.gone \cap left = {}
    <3>1. txn[p].locks = txn[p].write.gone
      BY <2>10 DEF MapInv, Deletes, Uploading
    <3>2. txn[p].locks \subseteq LockedByOthers(q)
      BY DEF LockedByOthers
    <3> QED
      BY <2>1, <2>2, <3>1, <3>2
  <2> QED
    BY <1>1, <1>2, <2>0, <2>1, <2>3, <2>5, <2>9, <2>10, MapQuiet DEF Place, NoReply, Turn
<1>7. CASE PreviewUpload(q)
  <2>a. PICK v : Goes(q, "exit", [txn[q] EXCEPT !.read = v])
    BY <1>7 DEF PreviewUpload
  <2>0. IsTxn(txn[q]) /\ pc[q] = "preview" /\ txn[q].tenant = DevTenant
    BY <1>1, <1>7 DEF PreviewUpload, Place, Idle, Begun, Uploading
  <2>1. /\ pc'[q] = "exit" /\ reply'[q] = reply[q] /\ hierarchy' = hierarchy
        /\ txn'[q] = [txn[q] EXCEPT !.read = v]
    BY <1>1, <1>7, <2>a, GoesMoves DEF PreviewUpload, tables
  <2>2. /\ txn'[q].tenant = DevTenant /\ txn'[q].write = txn[q].write
        /\ txn'[q].locks = txn[q].locks /\ txn'[q].at = txn[q].at
    BY <2>0, <2>1, Reading
  <2>3. reply' = reply /\ Uploads' = Uploads
    BY <1>7 DEF PreviewUpload, Goes, Uploads, Ended, ambient, Op
  <2>4. Uploading(q)'
    BY <1>1, <2>0, <2>1, <2>2, <2>3 DEF Uploading, Own, Whole, Known, Old
  <2>5. Deletes(q)
    BY <2>0 DEF Deletes
  <2>6. reply'[q].status # 200
    BY <1>1, <2>0, <2>1 DEF Place, NoReply
  <2>7. \A p \in Requests \ {q} : Deletes(p) => txn[p].write.gone \cap txn'[q].write.gone = {}
    BY <2>2, <2>5 DEF MapInv
  <2> QED
    BY <1>2, <2>1, <2>4, <2>6, <2>7, MapQuiet
<1> QED
  BY <1>3, <1>4, <1>5, <1>6, <1>7

(* An upload that commits deletes whole uploads, every old row among them, *)
(* and adds its own rows.                                                  *)
LEMMA MapCommit ==
  ASSUME PlaceInv, MapInv, NEW q \in Requests, CommitUpload(q)
  PROVE  MapInv'
<1>0. PICK w : w = txn[q].write
  OBVIOUS
<1>1. /\ Shape /\ Place(q) /\ Uploading(q)
      /\ pc[q] = "exit" /\ Op(q) = "upload" /\ pc[q] \notin Idle
  BY DEF PlaceInv, MapInv, CommitUpload, Idle
<1>2. /\ Own(w.rows, q) /\ txn[q].locks = w.gone /\ w.gone \subseteq hierarchy
      /\ \A h \in w.gone : h.tenant = DevTenant /\ Known(h)
      /\ Whole(w.gone)
      /\ \A h \in hierarchy : Old(h, q) => h \in w.gone
  BY <1>0, <1>1 DEF Uploading
<1>3. Turn(q) /\ clock' = clock
  <2>1. Step(q)
    BY DEF Step, RecordStep
  <2> QED
    BY <2>1, StepTurn DEF CommitUpload, ambient
<1>4. /\ clock.serial \in Int
      /\ \A p \in Requests \ {q} : pc'[p] = pc[p] /\ txn'[p] = txn[p] /\ reply'[p] = reply[p]
      /\ \A p \in Requests : Op(p)' = Op(p)
  BY <1>3, OthersStay
<1>5. /\ pc'[q] = "closed" /\ txn'[q] = NoTxn
      /\ reply'[q].status = 200 /\ reply'[q].rows = w.rows
      /\ reply'[q].at = txn[q].at /\ reply'[q].done = clock.serial
  <2>1. PICK m : Answers(q, [status |-> 200, rows |-> w.rows, matched |-> m,
                             at |-> txn[q].at, done |-> clock.serial])
    BY <1>0 DEF CommitUpload
  <2> QED
    BY <1>1, <2>1, AnswersMoves
<1>6. hierarchy' = (hierarchy \ w.gone) \cup w.rows
  BY <1>0 DEF CommitUpload
<1>7. q \notin Uploads /\ Uploads' = Uploads \cup {q}
  <2>1. reply[q].status # 200
    BY <1>1 DEF Place, NoReply
  <2> QED
    BY <1>1, <1>4, <1>5, <2>1 DEF Uploads, Ended
<1>8. \A p \in Uploads : p \in Requests /\ p # q /\ reply'[p] = reply[p]
  BY <1>4, <1>7 DEF Uploads
<1>9. txn[q].at.n \in Int /\ txn[q].at.n <= clock.serial
  BY <1>1 DEF Place, Begun
<1>10. ASSUME NEW h, Known(h)
       PROVE  Known(h)' /\ h.upload # q
  BY <1>7, <1>8, <1>10, <1>1 DEF Known
<1>11. \A h \in w.rows : Known(h)' /\ h.upload = q /\ h.tenant = DevTenant
  BY <1>2, <1>5, <1>7 DEF Own, Known
<1>12. ASSUME NEW p \in Requests, Op(p)' = "upload"
       PROVE  Uploading(p)'
  <2>1. CASE p = q
    BY <1>5, <2>1 DEF Uploading
  <2>2. CASE p # q
    <3>1. Uploading(p) /\ Place(p)
      BY <1>4, <1>12 DEF MapInv, PlaceInv
    <3>2. pc'[p] = pc[p] /\ txn'[p] = txn[p]
      BY <1>4, <2>2
    <3>3. ASSUME pc[p] \in {"lock", "preview", "exit"}
          PROVE  /\ \A h \in txn[p].write.gone : h.tenant = DevTenant /\ Known(h)'
                 /\ Whole(txn[p].write.gone)'
                 /\ \A h \in hierarchy' : Old(h, p)' => h \in txn[p].write.gone
      <4>1. \A h \in txn[p].write.gone : h.tenant = DevTenant /\ Known(h)
        BY <3>1, <3>3 DEF Uploading
      <4>2. \A h \in txn[p].write.gone : h.tenant = DevTenant /\ Known(h)'
        BY <1>10, <4>1
      <4>3. \A h \in txn[p].write.gone :
               h.upload \in Requests => reply'[h.upload] = reply[h.upload]
        BY <1>4, <1>10, <4>1
      <4>4. Whole(txn[p].write.gone)
        BY <3>1, <3>3 DEF Uploading
      <4>5. Whole(txn[p].write.gone)'
        BY <3>2, <4>3, <4>4 DEF Whole
      <4>6. txn[p].at.n \in Int /\ txn[p].at.n <= clock.serial
        BY <3>1, <3>3 DEF Place, Begun, Idle
      <4>7. ASSUME NEW h \in hierarchy', Old(h, p)'
            PROVE  h \in txn[p].write.gone
        <5>1. CASE h \in w.rows
          BY <1>4, <1>5, <1>11, <3>2, <4>6, <4>7, <5>1 DEF Old
        <5>2. CASE h \in hierarchy
          <6>1. Known(h) /\ h.upload # q
            BY <1>10, <5>2 DEF MapInv
          <6>2. Old(h, p)
            BY <1>4, <3>2, <4>7, <6>1 DEF Old
          <6> QED
            BY <3>1, <3>3, <5>2, <6>2 DEF Uploading
        <5> QED
          BY <1>6, <5>1, <5>2
      <4> QED
        BY <4>2, <4>5, <4>7
    <3>4. ASSUME pc[p] \in {"preview", "exit"}
          PROVE  txn[p].write.gone \subseteq hierarchy'
      <4>1. Deletes(p) /\ Deletes(q)
        BY <1>1, <1>4, <1>12, <3>4 DEF Deletes
      <4>2. txn[p].write.gone \cap w.gone = {}
        BY <1>0, <2>2, <4>1 DEF MapInv
      <4>3. txn[p].write.gone \subseteq hierarchy
        BY <3>1, <3>4 DEF Uploading
      <4> QED
        BY <1>6, <4>2, <4>3
    <3>5. (pc[p] \in {"lock", "preview", "exit"} =>
             LET v == txn[p].write IN
             /\ v = [rows |-> v.rows, gone |-> v.gone]
             /\ Own(v.rows, p)
             /\ \A h \in v.gone : h.tenant = DevTenant /\ Known(h)
             /\ Whole(v.gone)
             /\ \A h \in hierarchy : Old(h, p) => h \in v.gone)'
      BY <3>1, <3>2, <3>3 DEF Uploading, Own, Whole
    <3> QED
      BY <3>1, <3>2, <3>4, <3>5 DEF Uploading, Own
  <2> QED
    BY <2>1, <2>2
<1>13. (\A p, r \in Requests : p # r /\ Deletes(p) /\ Deletes(r) =>
          txn[p].write.gone \cap txn[r].write.gone = {})'
  BY <1>4, <1>5 DEF MapInv, Deletes
<1>14. (\A p \in Uploads : /\ Own(reply[p].rows, p)
                           /\ reply[p].at.n \in Int /\ reply[p].done \in Int
                           /\ reply[p].at.n <= reply[p].done /\ reply[p].done <= clock.serial)'
  BY <1>2, <1>3, <1>4, <1>5, <1>7, <1>8, <1>9 DEF MapInv, Own
<1>15. \A h \in hierarchy' : Known(h)'
  BY <1>6, <1>10, <1>11 DEF MapInv
<1>16. Whole(hierarchy)'
  <2>1. ASSUME NEW h \in hierarchy', h.upload \in Requests
        PROVE  reply'[h.upload].rows \subseteq hierarchy'
    <3>1. CASE h \in w.rows
      BY <1>5, <1>6, <1>11, <3>1
    <3>2. CASE h \in hierarchy /\ h \notin w.gone
      <4>1. PICK p : p = h.upload
        OBVIOUS
      <4>2. p \in Uploads /\ h \in reply[p].rows /\ reply'[p] = reply[p]
        BY <1>8, <2>1, <3>2, <4>1 DEF MapInv, Known
      <4>3. reply[p].rows \subseteq hierarchy
        BY <2>1, <3>2, <4>1 DEF MapInv, Whole
      <4>4. ASSUME NEW g \in reply[p].rows, g \in w.gone
            PROVE  FALSE
        <5>1. g.upload = p /\ p \in Requests
          BY <1>8, <4>2 DEF MapInv, Own
        <5>2. reply[p].rows \subseteq w.gone
          BY <1>2, <4>4, <5>1 DEF Whole
        <5> QED
          BY <3>2, <4>2, <5>2
      <4> QED
        BY <1>6, <4>1, <4>2, <4>3, <4>4
    <3> QED
      BY <1>6, <2>1, <3>1, <3>2
  <2> QED
    BY <2>1 DEF Whole
<1>17. Current' # {} /\ \A h \in OrgRows(DevTenant)' : h.upload \in Requests
  <2>1. q \in Current'
    BY <1>2, <1>6, <1>7, <1>11 DEF Current, Own
  <2>2. ASSUME NEW h \in hierarchy', h.tenant = DevTenant
        PROVE  h.upload \in Requests
    BY <1>2, <1>6, <1>11, <2>2 DEF Old
  <2> QED
    BY <2>1, <2>2 DEF OrgRows
<1>18. ASSUME NEW p \in Current', NEW r \in Current'
       PROVE  ~(reply'[p].done < reply'[r].at.n)
  <2>1. ASSUME NEW c \in Current', c # q
        PROVE  /\ c \in Current /\ c \in Uploads
               /\ \E h \in hierarchy : h \notin w.gone /\ h.upload = c
    <3>1. c \in Uploads
      BY <1>7, <2>1 DEF Current
    <3>2. \E h \in hierarchy' : h.upload = c
      BY DEF Current
    <3>3. \E h \in hierarchy : h \notin w.gone /\ h.upload = c
      BY <1>6, <1>11, <2>1, <3>2
    <3> QED
      BY <3>1, <3>3 DEF Current
  <2>2. CASE p # q /\ r # q
    BY <1>8, <2>1, <2>2 DEF MapInv
  <2>3. CASE p = q /\ r # q
    BY <1>4, <1>5, <1>8, <2>1, <2>3 DEF MapInv
  <2>4. CASE p # q /\ r = q
    <3>1. p \in Uploads /\ reply'[p] = reply[p]
      BY <1>8, <2>1, <2>4
    <3>2. PICK h \in hierarchy : h \notin w.gone /\ h.upload = p
      BY <2>1, <2>4
    <3>3. h.tenant = DevTenant
      <4>1. Known(h)
        BY DEF MapInv
      <4>2. h \in reply[p].rows
        BY <1>8, <3>1, <3>2, <4>1 DEF Known
      <4> QED
        BY <3>1, <4>2 DEF MapInv, Own
    <3>4. ~Old(h, q)
      BY <1>2, <3>2
    <3> QED
      BY <1>5, <2>4, <3>1, <3>2, <3>3, <3>4 DEF Old
  <2>5. CASE p = q /\ r = q
    BY <1>4, <1>5, <1>9, <2>5
  <2> QED
    BY <2>2, <2>3, <2>4, <2>5
<1> QED
  BY <1>12, <1>13, <1>14, <1>15, <1>16, <1>17, <1>18 DEF MapInv

(* Before the first upload, every row is a seeded one.                     *)
LEMMA MapInit == Init => MapInv
<1> SUFFICES ASSUME Init
             PROVE  MapInv
  OBVIOUS
<1>1. /\ pc = [q \in Requests |-> IF Op(q) = "none" THEN "closed" ELSE "new"]
      /\ reply = [q \in Requests |-> NoReply]
      /\ hierarchy = Seeds.hierarchy
  BY DEF Init
<1>2. Uploads = {}
  BY <1>1 DEF Uploads, Ended, NoReply
<1>3. \A h \in hierarchy : h.upload \notin Requests
  BY <1>1, SeedsAssumption
<1>4. \A q \in Requests : pc[q] \in {"new", "closed"}
  BY <1>1
<1> QED
  BY <1>2, <1>3, <1>4 DEF MapInv, Uploading, Deletes, Known, Whole, Current

(* Every step keeps the map's invariant.                                   *)
LEMMA MapNext == PlaceInv /\ MapInv /\ [Next]_vars => MapInv'
<1> SUFFICES ASSUME PlaceInv, MapInv, [Next]_vars
             PROVE  MapInv'
  OBVIOUS
<1>1. ASSUME NEW q \in Requests, Step(q) \/ CommitRefused(q)
      PROVE  MapInv'
  <2>1. CASE Op(q) = "upload"
    <3>1. CASE Step(q)
      <4>1. \/ Arrive(q) \/ StartUpload(q) \/ StartDelete(q)
            \/ DeleteAndInsert(q) \/ PreviewUpload(q) \/ CommitUpload(q)
        BY <2>1, <3>1, WhoSteps
      <4> QED
        BY <2>1, <4>1, MapWorks, MapCommit
    <3> QED
      BY <1>1, <2>1, <3>1, MapWorks
  <2>2. CASE Op(q) # "upload"
    <3>1. ~CommitUpload(q)
      BY <2>2 DEF CommitUpload
    <3>2. hierarchy' = hierarchy
      BY <1>1, <3>1, WhoWrites
    <3>3. Turn(q)
      BY <1>1, StepTurn
    <3> QED
      BY <2>2, <3>2, <3>3, MapQuiet
  <2> QED
    BY <2>1, <2>2
<1>2. CASE Rests
  <2>1. /\ pc' = pc /\ txn' = txn /\ reply' = reply /\ call' = call /\ hierarchy' = hierarchy
    BY <1>2 DEF Rests, Tick, Respond, vars, flow, tables, ambient
  <2>2. clock'.serial = clock.serial
    BY <1>2 DEF Rests, Tick, Respond, vars, ambient, PlaceInv, Shape
  <2>3. /\ Uploads' = Uploads
        /\ \A h : Known(h)' <=> Known(h)
        /\ \A S : Whole(S)' <=> Whole(S)
        /\ \A p \in Requests : Op(p)' = Op(p)
    BY <2>1 DEF Uploads, Ended, Op, Known, Whole
  <2>4. \A p \in Requests : Uploading(p) => Uploading(p)'
    BY <2>1, <2>3 DEF Uploading, Own, Old
  <2> QED
    BY <2>1, <2>2, <2>3, <2>4 DEF MapInv, Deletes, Current, OrgRows, Own
<1> QED
  BY <1>1, <1>2 DEF Next, Rests

(* The org map is made of whole uploads that overlapped, and the seeded    *)
(* rows are gone after the first, however uploads interleave.              *)
THEOREM UploadTheorem == Spec => []UploadReplacesTheMap
<1>1. Init => GateInv /\ PlaceInv /\ MapInv
  BY GateInit, PlaceInit, MapInit
<1>2. GateInv /\ PlaceInv /\ MapInv /\ [Next]_vars => (GateInv /\ PlaceInv /\ MapInv)'
  BY BothNext, MapNext
<1> QED
  BY <1>1, <1>2, MapIsWhole, PTL DEF Spec

(* ---- the rows of the results table ------------------------------------- *)

(* What no step changes of a row.                                          *)
SameVerdict(r, s) ==
    /\ r.id = s.id /\ r.tenant = s.tenant /\ r.rep = s.rep /\ r.image = s.image
    /\ r.band = s.band /\ r.code = s.code /\ r.at = s.at /\ r.source = s.source

(* Rows stay: only a review changes one, in one column, and only a scoring *)
(* request adds one, its own.                                              *)
LEMMA RowsStay ==
  ASSUME GateInv, NEW q \in Requests, Step(q) \/ CommitRefused(q)
  PROVE  /\ \A id \in DOMAIN results :
               /\ id \in DOMAIN results' /\ SameVerdict(results'[id], results[id])
               /\ \/ results'[id].review = results[id].review
                  \/ /\ CommitReview(q) /\ id = call[q].target
                     /\ txn[q].write.status # None /\ results'[id].review = txn[q].write.status
         /\ \A id \in DOMAIN results' :
               \/ id \in DOMAIN results
               \/ CommitScore(q) /\ id = q /\ results'[q] = txn[q].write
<1>1. Shape
  BY DEF GateInv
<1>2. CASE results' = results
  BY <1>2 DEF SameVerdict
<1>3. CASE CommitScore(q)
  <2>1. q \notin DOMAIN results
    BY <1>3 DEF GateInv, Flow, CommitScore
  <2>2. PICK row : row = txn[q].write
    OBVIOUS
  <2>3. results' = [id \in DOMAIN results \cup {q} |-> IF id = q THEN row ELSE results[id]]
    BY <1>3, <2>2 DEF CommitScore
  <2>4. /\ DOMAIN results' = DOMAIN results \cup {q} /\ results'[q] = row
        /\ \A id \in DOMAIN results : results'[id] = results[id]
    BY <2>1, <2>3
  <2> QED
    BY <1>3, <2>2, <2>4 DEF SameVerdict
<1>4. CASE CommitReview(q) /\ results' # results
  <2>1. PICK target, status : target = call[q].target /\ status = txn[q].write.status
    OBVIOUS
  <2>2. /\ status # None
        /\ results' = [results EXCEPT ![target] = [results[target] EXCEPT !.review = status]]
    BY <1>4, <2>1 DEF CommitReview
  <2>3. /\ DOMAIN results' = DOMAIN results
        /\ \A id \in DOMAIN results :
              results'[id] = IF id = target THEN [results[id] EXCEPT !.review = status]
                             ELSE results[id]
    BY <1>1, <2>2 DEF Shape
  <2>4. ASSUME NEW id \in DOMAIN results
        PROVE  LET r == [results[id] EXCEPT !.review = status]
               IN  SameVerdict(r, results[id]) /\ r.review = status
    <3>1. [results[id] EXCEPT !.review = status]
            = [id |-> results[id].id, tenant |-> results[id].tenant, rep |-> results[id].rep,
               image |-> results[id].image, band |-> results[id].band,
               code |-> results[id].code, at |-> results[id].at,
               source |-> results[id].source, review |-> status]
      BY <1>1 DEF Shape, IsRow
    <3> QED
      BY <3>1 DEF SameVerdict
  <2> QED
    BY <1>4, <2>1, <2>2, <2>3, <2>4 DEF SameVerdict
<1> QED
  BY <1>2, <1>3, <1>4, WhoWrites

(* ---- reviews ----------------------------------------------------------- *)

(* A review that has loaded its row, and one that has written it: no row   *)
(* loses its decision, and a row that is not written has one.              *)
Decides(q) ==
    LET id == call[q].target IN
    /\ pc[q] = "write" =>
          id \in DOMAIN results /\ (txn[q].read.review # None => results[id].review # None)
    /\ pc[q] = "exit" =>
          /\ id \in DOMAIN results
          /\ txn[q].write.status \in {None, call[q].decision}
          /\ txn[q].write.status = None => results[id].review # None

ReviewInv ==
    /\ \A q \in Requests : Op(q) = "review" => Decides(q)
    /\ \A q \in Requests : IsScoring(q) /\ pc[q] = "exit" => txn[q].write.review = None
    /\ \A id \in DOMAIN results : results[id].review # None =>
          \E a \in audit : a.result = id /\ a.decision = results[id].review
    /\ \A a \in audit : a.result \in DOMAIN results /\ results[a.result].review # None

(* The others' reviews go on as long as rows and decisions stay.           *)
LEMMA DecidesStays ==
  ASSUME NEW p \in Requests, Decides(p), call' = call, pc'[p] = pc[p], txn'[p] = txn[p],
         \A id \in DOMAIN results : /\ id \in DOMAIN results'
                                    /\ results[id].review # None => results'[id].review # None
  PROVE  Decides(p)'
BY DEF Decides

(* A step of a review.                                                     *)
LEMMA DecidesStep ==
  ASSUME GateInv, PlaceInv, ReviewInv, NEW q \in Requests, Op(q) = "review",
         Step(q) \/ CommitRefused(q)
  PROVE  Decides(q)'
<1>1. Shape /\ Place(q) /\ Decides(q) /\ call' = call /\ call[q].decision # None
  <2>1. call' = call /\ call \in Plans
    BY StepTurn DEF Turn, PlaceInv
  <2>2. call[q].decision # None
    BY <2>1, PlansAssumption DEF Op
  <2> QED
    BY <2>1, <2>2 DEF PlaceInv, ReviewInv
<1>2. CASE Arrive(q) \/ RequireTenant(q)
  <2>1. pc'[q] \notin {"write", "exit"}
    BY <1>1, <1>2, GoesMoves, AnswersMoves DEF Arrive, RequireTenant
  <2> QED
    BY <2>1 DEF Decides
<1>3. CASE CommitReview(q) \/ CommitRefused(q)
  <2>1. pc'[q] = "closed"
    BY <1>1, <1>3, AnswersMoves DEF CommitReview, CommitRefused
  <2> QED
    BY <2>1 DEF Decides
<1>4. CASE LoadForReview(q)
  <2>1. PICK id : id = call[q].target
    OBVIOUS
  <2>2. CASE \E r : Answers(q, r)
    <3>1. pc'[q] = "closed"
      BY <1>1, <2>2, AnswersMoves
    <3> QED
      BY <3>1 DEF Decides
  <2>3. CASE id \in DOMAIN results /\ Goes(q, "write", [txn[q] EXCEPT !.read = results[id]])
    <3>1. IsTxn(txn[q]) /\ results' = results
      BY <1>1, <1>4 DEF LoadForReview, Place, Begun, Idle, tables
    <3>2. pc'[q] = "write" /\ txn'[q] = [txn[q] EXCEPT !.read = results[id]]
      BY <1>1, <2>3, GoesMoves
    <3>3. txn'[q].read = results[id]
      BY <3>1, <3>2, Reading
    <3> QED
      BY <1>1, <2>1, <2>3, <3>1, <3>2, <3>3 DEF Decides
  <2> QED
    BY <1>4, <2>1, <2>2, <2>3 DEF LoadForReview
<1>5. CASE WriteReview(q)
  <2>1. PICK status : status = IF txn[q].read.review = call[q].decision THEN None
                               ELSE call[q].decision
    OBVIOUS
  <2>2. PICK w, v : v = [status |-> status] /\ Goes(q, "exit", Holding(txn[q], w, v))
    BY <1>5, <2>1 DEF WriteReview
  <2>3. IsTxn(txn[q]) /\ results' = results /\ pc[q] = "write"
    BY <1>1, <1>5 DEF WriteReview, Place, Begun, Idle, tables
  <2>4. pc'[q] = "exit" /\ txn'[q] = Holding(txn[q], w, v)
    BY <1>1, <2>2, GoesMoves
  <2>5. txn'[q].write.status = status
    BY <2>2, <2>3, <2>4, Locking
  <2> QED
    BY <1>1, <2>1, <2>3, <2>4, <2>5 DEF Decides
<1> QED
  BY <1>2, <1>3, <1>4, <1>5, WhoSteps

(* A verdict is written without a decision.                                *)
LEMMA Undecided ==
  ASSUME GateInv, PlaceInv, ReviewInv, NEW q \in Requests, IsScoring(q),
         Step(q) \/ CommitRefused(q), pc'[q] = "exit"
  PROVE  txn'[q].write.review = None
<1>1. Shape /\ Place(q)
  BY DEF PlaceInv
<1>2. ASSUME NEW r, Answers(q, r)
      PROVE  FALSE
  BY <1>1, <1>2, AnswersMoves
<1>3. ASSUME NEW stage, NEW t, Goes(q, stage, t)
      PROVE  stage = "exit" /\ txn'[q] = t
  BY <1>1, <1>3, GoesMoves
<1>4. \E verdict : RecordVerdict(q, verdict)
  <2>1. Arrive(q) \/ RequireTenant(q) \/ ScoreStep(q)
    BY <1>2, WhoSteps DEF IsScoring, CommitRefused
  <2>2. ~Arrive(q) /\ ~RequireTenant(q)
    BY <1>2, <1>3 DEF Arrive, RequireTenant
  <2>3. ~StartRow(q) /\ ~StartScore(q) /\ ~CommitScore(q)
    BY <1>2, <1>3 DEF StartRow, StartScore, TakesPlace, CommitScore
  <2>4. LookForDuplicate(q) \/ ModelAnswers(q) \/ ModelFails(q)
    BY <2>1, <2>2, <2>3 DEF ScoreStep
  <2> QED
    BY <1>2, <1>3, <2>4, ModelTurns
<1>5. PICK verdict : RecordVerdict(q, verdict)
  BY <1>4
<1>6. PICK row : row = ResultRow(q, verdict)
  OBVIOUS
<1>7. IsTxn(txn[q])
  <2>1. pc[q] \notin Idle
    <3>1. Step(q)
      BY <1>2 DEF CommitRefused
    <3>2. Arrive(q) \/ RequireTenant(q) \/ ScoreStep(q)
      BY <3>1, WhoSteps DEF IsScoring
    <3>3. ~Arrive(q) /\ ~StartRow(q) /\ ~RequireTenant(q)
      BY <1>2, <1>3 DEF Arrive, StartRow, TakesPlace, RequireTenant
    <3> QED
      BY <3>2, <3>3 DEF ScoreStep, StartScore, LookForDuplicate, ModelAnswers, ModelFails,
                        CommitScore, Idle
  <2> QED
    BY <1>1, <2>1 DEF Place, Begun
<1>8. txn'[q].write = row
  BY <1>1, <1>5, <1>6, <1>7, RecordVerdictMoves
<1> QED
  BY <1>6, <1>8 DEF ResultRow

(* Every step keeps the reviews and their audit.                           *)
LEMMA ReviewNext == GateInv /\ PlaceInv /\ ReviewInv /\ [Next]_vars => ReviewInv'
<1> SUFFICES ASSUME GateInv, PlaceInv, ReviewInv, [Next]_vars
             PROVE  ReviewInv'
  OBVIOUS
<1>1. ASSUME NEW q \in Requests, Step(q) \/ CommitRefused(q)
      PROVE  ReviewInv'
  <2>1. /\ Turn(q) /\ call' = call
        /\ \A p \in Requests \ {q} : pc'[p] = pc[p] /\ txn'[p] = txn[p]
        /\ \A p \in Requests : Op(p)' = Op(p)
    <3>1. Turn(q)
      BY <1>1, StepTurn
    <3> QED
      BY <3>1, OthersStay DEF Turn
  <2>2. /\ \A id \in DOMAIN results :
              /\ id \in DOMAIN results'
              /\ \/ results'[id].review = results[id].review
                 \/ /\ CommitReview(q) /\ id = call[q].target
                    /\ txn[q].write.status # None
                    /\ results'[id].review = txn[q].write.status
        /\ \A id \in DOMAIN results' :
              \/ id \in DOMAIN results
              \/ CommitScore(q) /\ id = q /\ results'[q] = txn[q].write
    BY <1>1, RowsStay
  <2>3. \A id \in DOMAIN results : results[id].review # None => results'[id].review # None
    BY <2>2
  <2>4. ASSUME NEW p \in Requests, Op(p)' = "review"
        PROVE  Decides(p)'
    <3>1. CASE p = q
      BY <1>1, <2>1, <2>4, <3>1, DecidesStep
    <3>2. CASE p # q
      BY <2>1, <2>2, <2>3, <2>4, <3>2, DecidesStays DEF ReviewInv
    <3> QED
      BY <3>1, <3>2
  <2>5. ASSUME NEW p \in Requests, IsScoring(p)', pc'[p] = "exit"
        PROVE  txn'[p].write.review = None
    <3>1. IsScoring(p)
      BY <2>1, <2>5 DEF IsScoring
    <3>2. CASE p = q
      BY <1>1, <2>5, <3>1, <3>2, Undecided
    <3>3. CASE p # q
      BY <2>1, <2>5, <3>1, <3>3 DEF ReviewInv
    <3> QED
      BY <3>2, <3>3
  <2>6. CASE CommitReview(q)
    <3>1. PICK id, decision : id = call[q].target /\ decision = call[q].decision
      OBVIOUS
    <3>2. PICK event : event.result = id /\ event.decision = decision
                       /\ audit' = audit \cup {event}
      BY <2>6, <3>1 DEF CommitReview
    <3>3. /\ id \in DOMAIN results
          /\ txn[q].write.status \in {None, decision}
          /\ txn[q].write.status = None => results[id].review # None
      BY <2>6, <3>1 DEF ReviewInv, Decides, CommitReview
    <3>4. \A i \in DOMAIN results' : i \in DOMAIN results
      BY <2>2, <2>6 DEF CommitReview, CommitScore, IsScoring
    <3>5. ASSUME NEW i \in DOMAIN results', results'[i].review # None
          PROVE  \E a \in audit' : a.result = i /\ a.decision = results'[i].review
      <4>1. CASE results'[i].review = results[i].review
        BY <3>2, <3>4, <3>5, <4>1 DEF ReviewInv
      <4>2. CASE results'[i].review # results[i].review
        BY <2>2, <3>1, <3>2, <3>3, <3>4, <3>5, <4>2
      <4> QED
        BY <4>1, <4>2
    <3>6. results'[id].review # None
      <4>1. CASE txn[q].write.status = None
        BY <2>3, <3>3, <4>1
      <4>2. CASE txn[q].write.status # None
        <5>1. results' = [results EXCEPT ![id] = [results[id] EXCEPT !.review = txn[q].write.status]]
          BY <2>6, <3>1, <4>2 DEF CommitReview
        <5>2. results = [i \in DOMAIN results |-> results[i]] /\ IsRow(results[id])
          BY <3>3 DEF GateInv, Shape
        <5>3. results'[id].review = txn[q].write.status
          BY <3>3, <5>1, <5>2 DEF IsRow
        <5> QED
          BY <4>2, <5>3
      <4> QED
        BY <4>1, <4>2
    <3>7. ASSUME NEW a \in audit'
          PROVE  a.result \in DOMAIN results' /\ results'[a.result].review # None
      BY <2>2, <2>3, <3>2, <3>3, <3>6 DEF ReviewInv
    <3> QED
      BY <2>4, <2>5, <3>5, <3>7 DEF ReviewInv
  <2>7. CASE ~CommitReview(q)
    <3>1. audit' = audit
      BY <1>1, <2>7, WhoWrites
    <3>2. \A id \in DOMAIN results : id \in DOMAIN results' /\ results'[id].review = results[id].review
      BY <2>2, <2>7
    <3>3. ASSUME NEW i \in DOMAIN results', results'[i].review # None
          PROVE  \E a \in audit' : a.result = i /\ a.decision = results'[i].review
      <4>1. CASE i \in DOMAIN results
        BY <3>1, <3>2, <3>3, <4>1 DEF ReviewInv
      <4>2. CASE i \notin DOMAIN results
        <5>1. CommitScore(q) /\ results'[i] = txn[q].write
          BY <2>2, <4>2
        <5>2. txn[q].write.review = None
          BY <5>1 DEF CommitScore, ReviewInv
        <5> QED
          BY <3>3, <5>1, <5>2
      <4> QED
        BY <4>1, <4>2
    <3>4. ASSUME NEW a \in audit'
          PROVE  a.result \in DOMAIN results' /\ results'[a.result].review # None
      BY <3>1, <3>2 DEF ReviewInv
    <3> QED
      BY <2>4, <2>5, <3>3, <3>4 DEF ReviewInv
  <2> QED
    BY <2>6, <2>7
<1>2. CASE Rests
  <2>1. /\ pc' = pc /\ txn' = txn /\ call' = call /\ results' = results /\ audit' = audit
    BY <1>2 DEF Rests, Tick, Respond, vars, flow, tables, ambient
  <2> QED
    BY <2>1 DEF ReviewInv, Decides, IsScoring, Op
<1> QED
  BY <1>1, <1>2 DEF Next, Rests

(* Nothing is reviewed at the start.                                       *)
LEMMA ReviewInit == Init => ReviewInv
<1> SUFFICES ASSUME Init
             PROVE  ReviewInv
  OBVIOUS
<1>1. /\ \A q \in Requests : pc[q] \in {"new", "closed"}
      /\ results = Seeds.results /\ audit = {}
  BY DEF Init
<1>2. \A id \in DOMAIN results : results[id].review = None
  BY <1>1, SeedsAssumption
<1> QED
  BY <1>1, <1>2 DEF ReviewInv, Decides

(* A decision on a result is always that of an audit event, and every      *)
(* audit event is about a decided result.                                  *)
THEOREM ReviewTheorem == Spec => []ReviewIsAudited
<1>1. Init => GateInv /\ PlaceInv /\ ReviewInv
  BY GateInit, PlaceInit, ReviewInit
<1>2. GateInv /\ PlaceInv /\ ReviewInv /\ [Next]_vars => (GateInv /\ PlaceInv /\ ReviewInv)'
  BY BothNext, ReviewNext
<1>3. ReviewInv => ReviewIsAudited
  BY DEF ReviewInv, ReviewIsAudited
<1> QED
  BY <1>1, <1>2, <1>3, PTL DEF Spec

(* ---- keys and tenants -------------------------------------------------- *)

KeyInv ==
    /\ keys = [k \in DOMAIN keys |-> keys[k]]
    /\ \A k \in DOMAIN keys :
          keys[k] = [tenant |-> keys[k].tenant, off |-> keys[k].off] /\ keys[k].tenant \in Slugs
    /\ tenants = [slug \in Slugs |-> tenants[slug]]
    /\ \A slug \in Slugs : tenants[slug].state = "active" => tenants[slug].off = None
    /\ \A q \in Requests : Op(q) = "mint" /\ pc[q] # "closed" => call[q].key \notin DOMAIN keys

(* A key keeps its tenant, and whatever is switched off is so as of now.   *)
KeysStay ==
    /\ \A k \in DOMAIN keys :
          /\ k \in DOMAIN keys' /\ keys'[k].tenant = keys[k].tenant
          /\ keys'[k].off \in {keys[k].off, clock.serial}
    /\ \A slug \in Slugs : tenants'[slug].off \in {tenants[slug].off, None, clock.serial}

(* Every step of a request keeps the keys and says when they were switched off. *)
LEMMA KeyStep ==
  ASSUME GateInv, PlaceInv, KeyInv, NEW q \in Requests, Step(q) \/ CommitRefused(q)
  PROVE  KeyInv' /\ KeysStay
<1>1. /\ Turn(q) /\ call' = call /\ call \in Plans /\ pc[q] # "closed"
      /\ \A p \in Requests \ {q} : pc'[p] = pc[p]
      /\ \A p \in Requests : Op(p)' = Op(p)
  <2>1. Turn(q)
    BY StepTurn
  <2> QED
    BY <2>1, OthersStay DEF Turn, PlaceInv
<1>2. ASSUME NEW p \in Requests, pc'[p] # "closed"
      PROVE  pc[p] # "closed"
  BY <1>1, <1>2
<1>3. CASE CommitKey(q)
  <2>1. PICK k, c : k = call[q].key /\ c = call[q]
    OBVIOUS
  <2>2. /\ tenants' = tenants /\ pc'[q] = "closed"
        /\ Op(q) = "mint" => k \notin DOMAIN keys /\ c.slug \in Slugs
    <3>1. pc'[q] = "closed"
      BY <1>3, AnswersMoves DEF CommitKey, PlaceInv
    <3>2. Op(q) = "mint" => k \notin DOMAIN keys /\ c.slug \in Slugs
      BY <1>1, <2>1, PlansAssumption DEF KeyInv, Op
    <3> QED
      BY <1>3, <3>1, <3>2 DEF CommitKey
  <2>3. /\ keys' = [i \in DOMAIN keys' |-> keys'[i]]
        /\ \A i \in DOMAIN keys' : i \in DOMAIN keys \/ (Op(q) = "mint" /\ i = k)
        /\ \A i \in DOMAIN keys : i \in DOMAIN keys'
        /\ \A i \in DOMAIN keys : i # k => keys'[i] = keys[i]
        /\ Op(q) = "mint" => keys'[k] = [tenant |-> c.slug, off |-> None]
        /\ Op(q) # "mint" /\ k \in DOMAIN keys =>
              keys'[k] = [keys[k] EXCEPT !.off = clock.serial]
    BY <1>3, <2>1 DEF CommitKey
  <2>4. ASSUME NEW i \in DOMAIN keys
        PROVE  /\ keys'[i] = [tenant |-> keys[i].tenant, off |-> keys'[i].off]
               /\ keys'[i].off \in {keys[i].off, clock.serial}
    <3>1. keys[i] = [tenant |-> keys[i].tenant, off |-> keys[i].off]
      BY DEF KeyInv
    <3>2. CASE i # k
      BY <2>3, <3>1, <3>2
    <3>3. CASE i = k
      <4>1. [keys[i] EXCEPT !.off = clock.serial]
              = [tenant |-> keys[i].tenant, off |-> clock.serial]
        BY <3>1
      <4> QED
        BY <2>2, <2>3, <3>3, <4>1
    <3> QED
      BY <3>2, <3>3
  <2>5. ASSUME NEW i \in DOMAIN keys'
        PROVE  /\ keys'[i] = [tenant |-> keys'[i].tenant, off |-> keys'[i].off]
               /\ keys'[i].tenant \in Slugs
    <3>1. CASE i \in DOMAIN keys
      <4>1. keys'[i] = [tenant |-> keys[i].tenant, off |-> keys'[i].off]
        BY <2>4, <3>1
      <4>2. keys'[i].tenant = keys[i].tenant
        BY <4>1
      <4> QED
        BY <3>1, <4>1, <4>2 DEF KeyInv
    <3>2. CASE i \notin DOMAIN keys
      BY <2>2, <2>3, <3>2
    <3> QED
      BY <3>1, <3>2
  <2>6. ASSUME NEW p \in Requests, Op(p)' = "mint", pc'[p] # "closed"
        PROVE  call'[p].key \notin DOMAIN keys'
    <3>1. p # q /\ call[p].key \notin DOMAIN keys /\ Op(p) = "mint"
      BY <1>1, <1>2, <2>2, <2>6 DEF KeyInv
    <3>2. Op(q) = "mint" => call[p].key # k
      <4>1. Op(q) = "mint" => \A r \in Requests \ {q} : call[r].op = "mint" => call[r].key # call[q].key
        BY <1>1, PlansAssumption DEF Op
      <4> QED
        BY <2>1, <3>1, <4>1 DEF Op
    <3> QED
      BY <1>1, <2>3, <3>1, <3>2
  <2> QED
    BY <2>2, <2>3, <2>4, <2>5, <2>6 DEF KeyInv, KeysStay
<1>4. CASE CommitTenant(q)
  <2>1. PICK slug, to : slug = call[q].slug /\ to = txn[q].write.state
    OBVIOUS
  <2>2. keys' = keys /\ slug \in Slugs
    BY <1>1, <1>4, <2>1, PlansAssumption DEF CommitTenant, Op, AdminOps
  <2>3. CASE tenants' = tenants
    BY <1>1, <1>2, <2>2, <2>3 DEF KeyInv, KeysStay
  <2>4. CASE tenants' # tenants
    <3>1. PICK t : t = [state |-> to, off |-> IF to = "active" THEN None ELSE clock.serial]
      OBVIOUS
    <3>2. tenants' = [tenants EXCEPT ![slug] = t]
      BY <1>4, <2>1, <2>4, <3>1 DEF CommitTenant
    <3>3. /\ tenants' = [s \in Slugs |-> tenants'[s]] /\ tenants'[slug] = t
          /\ \A s \in Slugs : s # slug => tenants'[s] = tenants[s]
      BY <2>2, <3>2 DEF KeyInv
    <3>4. t.state = "active" => t.off = None
      BY <3>1
    <3>5. t.off \in {None, clock.serial}
      BY <3>1
    <3>6. (\A s \in Slugs : tenants[s].state = "active" => tenants[s].off = None)'
      BY <3>3, <3>4 DEF KeyInv
    <3>7. \A s \in Slugs : tenants'[s].off \in {tenants[s].off, None, clock.serial}
      BY <3>3, <3>5
    <3> QED
      BY <1>1, <1>2, <2>2, <3>3, <3>6, <3>7 DEF KeyInv, KeysStay
  <2> QED
    BY <2>3, <2>4
<1>5. CASE ~CommitKey(q) /\ ~CommitTenant(q)
  <2>1. keys' = keys /\ tenants' = tenants
    BY <1>5, WhoWrites
  <2> QED
    BY <1>1, <1>2, <2>1 DEF KeyInv, KeysStay
<1> QED
  BY <1>3, <1>4, <1>5

(* ---- transactions ------------------------------------------------------ *)

(* From its first statement to its answer a transaction keeps its tenant   *)
(* and its stamp.                                                          *)
LEMMA SameTxn ==
  ASSUME PlaceInv, NEW q \in Requests, Step(q), pc[q] \notin Idle
  PROVE  \/ pc'[q] \in Idle
         \/ txn'[q].tenant = txn[q].tenant /\ txn'[q].at = txn[q].at
<1>1. Shape /\ IsTxn(txn[q])
  BY DEF PlaceInv, Place, Begun
<1>2. ASSUME NEW r, Answers(q, r)
      PROVE  pc'[q] \in Idle
  BY <1>1, <1>2, AnswersMoves DEF Idle
<1>3. ASSUME NEW stage, NEW v, Goes(q, stage, [txn[q] EXCEPT !.read = v])
      PROVE  txn'[q].tenant = txn[q].tenant /\ txn'[q].at = txn[q].at
  <2>1. txn'[q] = [txn[q] EXCEPT !.read = v]
    BY <1>1, <1>3, GoesMoves
  <2> QED
    BY <1>1, <2>1, Reading
<1>4. ASSUME NEW stage, NEW v, Goes(q, stage, [txn[q] EXCEPT !.write = v])
      PROVE  txn'[q].tenant = txn[q].tenant /\ txn'[q].at = txn[q].at
  <2>1. txn'[q] = [txn[q] EXCEPT !.write = v]
    BY <1>1, <1>4, GoesMoves
  <2> QED
    BY <1>1, <2>1, Writing
<1>5. ASSUME NEW stage, NEW v, NEW w, Goes(q, stage, Holding(txn[q], w, v))
      PROVE  txn'[q].tenant = txn[q].tenant /\ txn'[q].at = txn[q].at
  BY <1>1, <1>5, GoesMoves, Locking
<1>6. ASSUME NEW stage, Goes(q, stage, txn[q])
      PROVE  txn'[q].tenant = txn[q].tenant /\ txn'[q].at = txn[q].at
  BY <1>1, <1>6, GoesMoves
<1>7. ASSUME NEW t, Goes(q, "new", t)
      PROVE  pc'[q] \in Idle
  BY <1>1, <1>7, GoesMoves DEF Idle
<1>8. CASE ApiStep(q)
  <2>1. InsertTenant(q) \/ UpdateTenant(q) \/ CommitKey(q) \/ CommitTenant(q)
    BY <1>8 DEF ApiStep, Arrive, RequireTenant, MintKey, RevokeKey, LookUpTenant, Idle
  <2> QED
    BY <1>2, <1>5, <1>6, <2>1 DEF InsertTenant, UpdateTenant, CommitKey, CommitTenant
<1>9. CASE ScoreStep(q)
  <2>1. \/ StartScore(q) \/ LookForDuplicate(q) \/ ModelAnswers(q) \/ ModelFails(q)
        \/ CommitScore(q)
    BY <1>9 DEF ScoreStep, StartRow, Idle
  <2>2. CASE StartScore(q)
    BY <1>2, <1>6, <2>2 DEF StartScore, TakesPlace
  <2>3. CASE LookForDuplicate(q) \/ ModelAnswers(q) \/ ModelFails(q)
    <3>1. ASSUME NEW verdict, RecordVerdict(q, verdict)
          PROVE  txn'[q].tenant = txn[q].tenant /\ txn'[q].at = txn[q].at
      BY <1>1, <3>1, RecordVerdictMoves
    <3> QED
      BY <1>2, <1>3, <2>3, <3>1, ModelTurns
  <2>4. CASE CommitScore(q)
    BY <1>2, <2>4 DEF CommitScore
  <2> QED
    BY <2>1, <2>2, <2>3, <2>4
<1>10. CASE RecordStep(q)
  <2>1. ~StartUpload(q) /\ ~ReadStatusRows(q)
    BY DEF StartUpload, ReadStatusRows, Idle
  <2>2. CASE LoadForReview(q) \/ WriteReview(q) \/ CommitReview(q) \/ GetResult(q)
    BY <1>2, <1>3, <1>5, <2>2 DEF LoadForReview, WriteReview, CommitReview, GetResult
  <2>3. CASE CountResults(q) \/ ListPage(q) \/ ListUnderNode(q)
    BY <1>2, <1>3, <1>7, <2>3 DEF CountResults, ListPage, ListUnderNode, GetsPage
  <2>4. CASE StartDelete(q) \/ DeleteAndInsert(q) \/ PreviewUpload(q) \/ CommitUpload(q)
             \/ ReadStatusReps(q)
    BY <1>2, <1>3, <1>4, <1>5, <2>4 DEF StartDelete, DeleteAndInsert, PreviewUpload,
                                        CommitUpload, ReadStatusReps
  <2> QED
    BY <1>10, <2>1, <2>2, <2>3, <2>4 DEF RecordStep
<1>11. CASE ReportStep(q)
  BY <1>2, <1>3, <1>11
     DEF ReportStep, CountItems, FetchItems, CountPrevious, FetchPrevious, ReadMap,
         ReadAgentRows, CountAgent, FetchAgent, LookForAny, ShowCard, Reads
<1> QED
  BY <1>8, <1>9, <1>10, <1>11 DEF Step

(* A data request begins its transaction in require_tenant.                *)
LEMMA DataBegins ==
  ASSUME PlaceInv, NEW q \in Requests, Op(q) \in DataOps, Step(q), pc[q] \in Idle,
         pc'[q] \notin Idle
  PROVE  LET k == call[q].key IN
         /\ k \in DOMAIN keys /\ keys[k].off = None /\ tenants[keys[k].tenant].state = "active"
         /\ txn'[q].tenant = keys[k].tenant
<1>1. Shape
  BY DEF PlaceInv
<1>2. ASSUME NEW r, Answers(q, r)
      PROVE  FALSE
  BY <1>1, <1>2, AnswersMoves DEF Idle
<1>3. RequireTenant(q)
  <2>1. Arrive(q) \/ RequireTenant(q)
    <3>1. ApiStep(q) => Arrive(q) \/ RequireTenant(q)
      BY DEF ApiStep, MintKey, RevokeKey, LookUpTenant, InsertTenant, UpdateTenant,
             CommitKey, CommitTenant, Idle, DataOps, AdminOps
    <3>2. ~ScoreStep(q)
      BY DEF ScoreStep, StartRow, StartScore, LookForDuplicate, ModelAnswers, ModelFails,
             CommitScore, Idle, DataOps
    <3>3. ~RecordStep(q)
      BY DEF RecordStep, LoadForReview, WriteReview, CommitReview, GetResult, CountResults,
             ListPage, ListUnderNode, StartUpload, StartDelete, DeleteAndInsert, PreviewUpload,
             CommitUpload, ReadStatusRows, ReadStatusReps, Idle, DataOps
    <3>4. ~ReportStep(q)
      BY DEF ReportStep, CountItems, FetchItems, CountPrevious, FetchPrevious, ReadMap,
             ReadAgentRows, CountAgent, FetchAgent, LookForAny, ShowCard, Idle
    <3> QED
      BY <3>1, <3>2, <3>3, <3>4 DEF Step
  <2>2. ~Arrive(q)
    BY <1>1, <1>2, GoesMoves DEF Arrive, Idle
  <2> QED
    BY <2>1, <2>2
<1>4. PICK tenant : tenant = TenantForApiKey(call[q].key)
  OBVIOUS
<1>5. tenant # None /\ Goes(q, "run", Began(tenant))
  BY <1>2, <1>3, <1>4 DEF RequireTenant
<1>6. txn'[q].tenant = tenant
  BY <1>1, <1>5, GoesMoves, BeganIsATxn
<1> QED
  BY <1>4, <1>5, <1>6 DEF TenantForApiKey

(* ---- who may do what, and when ----------------------------------------- *)

(* A transaction that began before the key or its tenant was switched off. *)
Covered(k, n) == \A off \in {keys[k].off, tenants[keys[k].tenant].off} \ {None} : n <= off

(* Whatever a data request does, it began while its key was good.          *)
Allowed(q) ==
    LET k == call[q].key IN
    /\ pc[q] \notin Idle =>
          /\ k \in DOMAIN keys /\ txn[q].tenant = keys[k].tenant
          /\ Covered(k, txn[q].at.n)
    /\ q \in DOMAIN results => k \in DOMAIN keys /\ Covered(k, results[q].at.n)
    /\ \A a \in audit : a.by = q =>
          /\ k \in DOMAIN keys /\ Covered(k, a.at.n)
          /\ a.at.n \in Int /\ a.at.n <= clock.serial

AccessInv == KeyInv /\ \A q \in Requests : Op(q) \in DataOps => Allowed(q)

(* A key that was good when a transaction began stays so for it.           *)
LEMMA CoveredStays ==
  ASSUME KeyInv, KeysStay, NEW k \in DOMAIN keys, NEW n, n <= clock.serial, Covered(k, n)
  PROVE  Covered(k, n)'
<1>1. keys[k].tenant \in Slugs /\ keys'[k].tenant = keys[k].tenant
  BY DEF KeyInv, KeysStay
<1>2. keys'[k].off \in {keys[k].off, clock.serial}
  BY DEF KeysStay
<1>3. tenants'[keys[k].tenant].off \in {tenants[keys[k].tenant].off, None, clock.serial}
  BY <1>1 DEF KeysStay
<1> QED
  BY <1>1, <1>2, <1>3 DEF Covered

(* Every step of a data request keeps it to what its key was good for.     *)
LEMMA AllowedStep ==
  ASSUME GateInv, PlaceInv, AccessInv, NEW q \in Requests, Op(q) \in DataOps,
         Step(q) \/ CommitRefused(q)
  PROVE  Allowed(q)'
<1>1. PICK k : k = call[q].key
  OBVIOUS
<1>2. keys' = keys /\ tenants' = tenants /\ call' = call
  <2>1. ~CommitKey(q) /\ ~CommitTenant(q)
    BY DEF CommitKey, CommitTenant, DataOps, AdminOps
  <2> QED
    BY <2>1, WhoWrites, StepTurn DEF Turn
<1>3. \A i, n : Covered(i, n)' <=> Covered(i, n)
  BY <1>2 DEF Covered
<1>4. Allowed(q) /\ Place(q) /\ Shape
  BY DEF AccessInv, PlaceInv
<1>5. clock.serial \in Int /\ clock'.serial \in Int /\ clock.serial <= clock'.serial
  <2>1. Turn(q)
    BY StepTurn
  <2> QED
    BY <2>1, OthersStay
<1>6. ASSUME pc'[q] \notin Idle
      PROVE  /\ k \in DOMAIN keys' /\ txn'[q].tenant = keys'[k].tenant
             /\ Covered(k, txn[q].at.n)'
  <2>0. Step(q)
    <3>1. ASSUME CommitRefused(q)
          PROVE  FALSE
      BY <1>4, <1>6, <3>1, AnswersMoves DEF CommitRefused, Idle
    <3> QED
      BY <3>1
  <2>1. CASE pc[q] \in Idle
    <3>1. /\ k \in DOMAIN keys /\ keys[k].off = None /\ tenants[keys[k].tenant].state = "active"
          /\ txn'[q].tenant = keys[k].tenant
      BY <1>1, <1>6, <2>0, <2>1, DataBegins
    <3>2. tenants[keys[k].tenant].off = None
      BY <3>1 DEF AccessInv, KeyInv
    <3>3. \A n : Covered(k, n)
      BY <3>1, <3>2 DEF Covered
    <3> QED
      BY <1>2, <1>3, <3>1, <3>3
  <2>2. CASE pc[q] \notin Idle
    <3>1. txn'[q].tenant = txn[q].tenant /\ txn'[q].at = txn[q].at
      BY <1>6, <2>0, <2>2, SameTxn
    <3> QED
      BY <1>1, <1>2, <1>3, <1>4, <2>2, <3>1 DEF Allowed
  <2> QED
    BY <2>1, <2>2
<1>7. ASSUME q \in DOMAIN results'
      PROVE  k \in DOMAIN keys' /\ Covered(k, results[q].at.n)'
  <2>1. CASE q \in DOMAIN results
    <3>1. results'[q].at = results[q].at
      BY <2>1, RowsStay DEF SameVerdict
    <3> QED
      BY <1>1, <1>2, <1>3, <1>4, <2>1, <3>1 DEF Allowed
  <2>2. CASE q \notin DOMAIN results
    <3>1. CommitScore(q) /\ results'[q] = txn[q].write
      BY <1>7, <2>2, RowsStay
    <3>2. pc[q] = "exit" /\ txn[q].write.at = txn[q].at
      BY <3>1 DEF CommitScore, GateInv, Flow
    <3> QED
      BY <1>1, <1>2, <1>3, <1>4, <3>1, <3>2 DEF Allowed, Idle
  <2> QED
    BY <2>1, <2>2
<1>8. ASSUME NEW a \in audit', a.by = q
      PROVE  /\ k \in DOMAIN keys' /\ Covered(k, a.at.n)'
             /\ a.at.n \in Int /\ a.at.n <= clock'.serial
  <2>1. CASE a \in audit
    BY <1>1, <1>2, <1>3, <1>4, <1>5, <1>8, <2>1 DEF Allowed
  <2>2. CASE a \notin audit
    <3>1. CommitReview(q)
      BY <2>2, WhoWrites
    <3>2. pc[q] \notin Idle /\ a.at = txn[q].at
      BY <2>2, <3>1 DEF CommitReview, Idle
    <3> QED
      BY <1>1, <1>2, <1>3, <1>4, <1>5, <3>2 DEF Allowed, Place, Begun
  <2> QED
    BY <2>1, <2>2
<1> QED
  BY <1>1, <1>2, <1>6, <1>7, <1>8 DEF Allowed

(* Every step keeps that of every request.                                 *)
LEMMA AccessNext == GateInv /\ PlaceInv /\ AccessInv /\ [Next]_vars => AccessInv'
<1> SUFFICES ASSUME GateInv, PlaceInv, AccessInv, [Next]_vars
             PROVE  AccessInv'
  OBVIOUS
<1>1. ASSUME NEW q \in Requests, Step(q) \/ CommitRefused(q)
      PROVE  AccessInv'
  <2>1. KeyInv' /\ KeysStay
    BY <1>1, KeyStep DEF AccessInv
  <2>2. /\ call' = call
        /\ clock.serial \in Int /\ clock'.serial \in Int /\ clock.serial <= clock'.serial
        /\ \A p \in Requests \ {q} : pc'[p] = pc[p] /\ txn'[p] = txn[p]
        /\ \A p \in Requests : Op(p)' = Op(p)
    <3>1. Turn(q)
      BY <1>1, StepTurn
    <3> QED
      BY <3>1, OthersStay DEF Turn
  <2>3. ASSUME NEW p \in Requests, Op(p)' \in DataOps
        PROVE  Allowed(p)'
    <3>1. Op(p) \in DataOps /\ Allowed(p)
      BY <2>2, <2>3 DEF AccessInv
    <3>2. CASE p = q
      BY <1>1, <3>1, <3>2, AllowedStep
    <3>3. CASE p # q
      <4>1. PICK k : k = call[p].key
        OBVIOUS
      <4>2. ASSUME NEW n, k \in DOMAIN keys, n <= clock.serial, Covered(k, n)
            PROVE  Covered(k, n)' /\ k \in DOMAIN keys' /\ keys'[k].tenant = keys[k].tenant
        BY <2>1, <4>2, CoveredStays DEF AccessInv, KeysStay
      <4>3. ASSUME pc'[p] \notin Idle
            PROVE  /\ k \in DOMAIN keys' /\ txn'[p].tenant = keys'[k].tenant
                   /\ Covered(k, txn[p].at.n)'
        <5>1. txn[p].at.n <= clock.serial
          BY <2>2, <3>3, <4>3 DEF PlaceInv, Place, Begun
        <5> QED
          BY <2>2, <3>1, <3>3, <4>1, <4>2, <4>3, <5>1 DEF Allowed
      <4>4. ASSUME p \in DOMAIN results'
            PROVE  k \in DOMAIN keys' /\ Covered(k, results[p].at.n)'
        <5>1. p \in DOMAIN results /\ results'[p].at = results[p].at
          BY <1>1, <3>3, <4>4, RowsStay DEF SameVerdict
        <5>2. results[p].at.n <= clock.serial
          BY <5>1 DEF GateInv, Kept
        <5> QED
          BY <3>1, <4>1, <4>2, <5>1, <5>2 DEF Allowed
      <4>5. ASSUME NEW a \in audit', a.by = p
            PROVE  /\ k \in DOMAIN keys' /\ Covered(k, a.at.n)'
                   /\ a.at.n \in Int /\ a.at.n <= clock'.serial
        <5>1. a \in audit
          <6>1. CASE audit' = audit
            BY <4>5, <6>1
          <6>2. CASE CommitReview(q)
            <7>1. PICK event : event.by = q /\ audit' = audit \cup {event}
              BY <6>2 DEF CommitReview
            <7> QED
              BY <3>3, <4>5, <7>1
          <6> QED
            BY <1>1, <6>1, <6>2, WhoWrites
        <5> QED
          BY <2>2, <3>1, <4>1, <4>2, <4>5, <5>1 DEF Allowed
      <4> QED
        BY <2>2, <4>1, <4>3, <4>4, <4>5 DEF Allowed
    <3> QED
      BY <3>2, <3>3
  <2> QED
    BY <2>1, <2>3 DEF AccessInv
<1>2. CASE Rests
  <2>1. /\ pc' = pc /\ txn' = txn /\ call' = call /\ results' = results /\ audit' = audit
        /\ keys' = keys /\ tenants' = tenants
    BY <1>2 DEF Rests, Tick, Respond, vars, flow, tables, ambient
  <2>2. clock'.serial = clock.serial
    BY <1>2 DEF Rests, Tick, Respond, vars, ambient, PlaceInv, Shape
  <2>3. KeyInv'
    BY <2>1 DEF AccessInv, KeyInv, Op
  <2>4. \A p \in Requests : Allowed(p) => Allowed(p)'
    BY <2>1, <2>2 DEF Allowed, Covered
  <2> QED
    BY <2>1, <2>3, <2>4 DEF AccessInv, Op
<1> QED
  BY <1>1, <1>2 DEF Next, Rests

(* At the start no data request has begun.                                 *)
LEMMA AccessInit == Init => AccessInv
<1> SUFFICES ASSUME Init
             PROVE  AccessInv
  OBVIOUS
<1>1. /\ \A q \in Requests : pc[q] \in Idle
      /\ results = Seeds.results /\ audit = {} /\ keys = Seeds.keys /\ tenants = Seeds.tenants
      /\ call \in Plans
  BY DEF Init, Idle
<1>2. KeyInv
  <2>1. ASSUME NEW q \in Requests, Op(q) = "mint"
        PROVE  call[q].key \notin DOMAIN keys
    BY <1>1, <2>1, PlansAssumption DEF Op
  <2>2. ASSUME NEW k \in DOMAIN keys
        PROVE  keys[k] = [tenant |-> keys[k].tenant, off |-> keys[k].off]
               /\ keys[k].tenant \in Slugs
    BY <1>1, SeedsAssumption
  <2>3. keys = [k \in DOMAIN keys |-> keys[k]]
    BY <1>1, SeedsAssumption
  <2>4. /\ tenants = [slug \in Slugs |-> tenants[slug]]
        /\ \A slug \in Slugs : tenants[slug].state = "active" => tenants[slug].off = None
    BY ZenonT(30), <1>1, SeedsAssumption
  <2> QED
    BY <2>1, <2>2, <2>3, <2>4 DEF KeyInv
<1>3. \A q \in Requests : q \notin DOMAIN results
  BY <1>1, SeedsAssumption
<1> QED
  BY <1>1, <1>2, <1>3 DEF AccessInv, Allowed

(* No request that begins after its key or its tenant was switched off     *)
(* leaves a verdict or a decision.                                         *)
THEOREM NoWorkTheorem == Spec => []NoWorkForTheInactive
<1>1. Init => GateInv /\ PlaceInv /\ AccessInv
  BY GateInit, PlaceInit, AccessInit
<1>2. GateInv /\ PlaceInv /\ AccessInv /\ [Next]_vars => (GateInv /\ PlaceInv /\ AccessInv)'
  BY BothNext, AccessNext
<1>3. AccessInv => NoWorkForTheInactive
  <2> SUFFICES ASSUME AccessInv, NEW q \in Requests, Op(q) \in DataOps, NEW k, k = call[q].key,
                      NEW off \in {keys[k].off, tenants[keys[k].tenant].off} \ {None},
                      NEW at \in {results[id].at.n : id \in {q} \cap DOMAIN results}
                                   \cup {a.at.n : a \in {a \in audit : a.by = q}}
               PROVE  at <= off
    BY DEF NoWorkForTheInactive
  <2>1. Allowed(q)
    BY DEF AccessInv
  <2>2. CASE at \in {results[id].at.n : id \in {q} \cap DOMAIN results}
    BY <2>1, <2>2 DEF Allowed, Covered
  <2>3. CASE at \in {a.at.n : a \in {a \in audit : a.by = q}}
    BY <2>1, <2>3 DEF Allowed, Covered
  <2> QED
    BY <2>2, <2>3
<1> QED
  BY <1>1, <1>2, <1>3, PTL DEF Spec

(* ---- requests as atomic changes ---------------------------------------- *)

(* A review's audit event carries the tenant of the row it loaded.         *)
LoadInv ==
    \A q \in Requests : Op(q) = "review" /\ pc[q] \in {"write", "exit"} =>
       call[q].target \in DOMAIN results /\ txn[q].read.tenant = results[call[q].target].tenant

(* A review loads its row once, and rows keep their tenant.                *)
LEMMA LoadStep ==
  ASSUME GateInv, PlaceInv, LoadInv, NEW q \in Requests, Op(q) = "review",
         Step(q) \/ CommitRefused(q), pc'[q] \in {"write", "exit"}
  PROVE  LET id == call[q].target
         IN  id \in DOMAIN results /\ txn'[q].read.tenant = results[id].tenant
<1>1. Shape /\ Place(q)
  BY DEF PlaceInv
<1>2. PICK id : id = call[q].target
  OBVIOUS
<1>3. ASSUME NEW r, Answers(q, r)
      PROVE  FALSE
  BY <1>1, <1>3, AnswersMoves
<1>4. LoadForReview(q) \/ WriteReview(q)
  <2>1. \/ Arrive(q) \/ RequireTenant(q) \/ LoadForReview(q) \/ WriteReview(q) \/ CommitReview(q)
    BY <1>3, WhoSteps DEF CommitRefused
  <2>2. ~Arrive(q) /\ ~RequireTenant(q)
    BY <1>1, <1>3, GoesMoves DEF Arrive, RequireTenant
  <2> QED
    BY <1>3, <2>1, <2>2 DEF CommitReview
<1>5. IsTxn(txn[q])
  BY <1>1, <1>4 DEF LoadForReview, WriteReview, Place, Begun, Idle
<1>6. CASE LoadForReview(q)
  <2>1. id \in DOMAIN results /\ Goes(q, "write", [txn[q] EXCEPT !.read = results[id]])
    BY <1>2, <1>3, <1>6 DEF LoadForReview
  <2>2. txn'[q] = [txn[q] EXCEPT !.read = results[id]]
    BY <1>1, <2>1, GoesMoves
  <2>3. txn'[q].read = results[id]
    BY <1>5, <2>2, Reading
  <2> QED
    BY <1>2, <2>1, <2>3
<1>7. CASE WriteReview(q)
  <2>1. PICK w, v : Goes(q, "exit", Holding(txn[q], w, v))
    BY <1>7 DEF WriteReview
  <2>2. txn'[q] = Holding(txn[q], w, v)
    BY <1>1, <2>1, GoesMoves
  <2>3. txn'[q].read = txn[q].read
    BY <1>5, <2>2, Locking
  <2> QED
    BY <1>2, <1>7, <2>3 DEF LoadInv, WriteReview
<1> QED
  BY <1>4, <1>6, <1>7

(* Every step keeps it.                                                    *)
LEMMA LoadNext == GateInv /\ PlaceInv /\ LoadInv /\ [Next]_vars => LoadInv'
<1> SUFFICES ASSUME GateInv, PlaceInv, LoadInv, [Next]_vars
             PROVE  LoadInv'
  OBVIOUS
<1>1. ASSUME NEW q \in Requests, Step(q) \/ CommitRefused(q)
      PROVE  LoadInv'
  <2>1. /\ call' = call
        /\ \A p \in Requests \ {q} : pc'[p] = pc[p] /\ txn'[p] = txn[p]
        /\ \A p \in Requests : Op(p)' = Op(p)
    <3>1. Turn(q)
      BY <1>1, StepTurn
    <3> QED
      BY <3>1, OthersStay DEF Turn
  <2>2. \A id \in DOMAIN results : id \in DOMAIN results' /\ results'[id].tenant = results[id].tenant
    BY <1>1, RowsStay DEF SameVerdict
  <2>3. ASSUME NEW p \in Requests, Op(p) = "review", pc'[p] \in {"write", "exit"}
        PROVE  LET id == call[p].target
               IN  id \in DOMAIN results /\ txn'[p].read.tenant = results[id].tenant
    <3>1. CASE p = q
      BY <1>1, <2>3, <3>1, LoadStep
    <3>2. CASE p # q
      BY <2>1, <2>3, <3>2 DEF LoadInv
    <3> QED
      BY <3>1, <3>2
  <2> QED
    BY <2>1, <2>2, <2>3 DEF LoadInv
<1>2. CASE Rests
  <2>1. pc' = pc /\ txn' = txn /\ call' = call /\ results' = results
    BY <1>2 DEF Rests, Tick, Respond, vars, flow, tables, ambient
  <2> QED
    BY <2>1 DEF LoadInv, Op
<1> QED
  BY <1>1, <1>2 DEF Next, Rests

(* A request that is under way has not ended; one that gets a status ends,  *)
(* and what its client was told before stands.                             *)
LEMMA TurnEnds ==
  ASSUME PlaceInv, NEW q \in Requests, Turn(q), reply'[q].status # 0
  PROVE  Contract!Ends(q)
<1>1. /\ \A p \in Requests \ {q} : reply'[p] = reply[p]
      /\ call' = call /\ early' = early
  BY DEF PlaceInv, Shape, Turn, Moves
<1>2. reply[q].status = 0
  BY DEF PlaceInv, Place, Turn, NoReply
<1>3. /\ \A p \in Requests \ {q} : Told(p)' = Told(p)
      /\ Told(q)' # 0 /\ (Told(q) = 0 \/ Told(q)' = Told(q))
  BY <1>1, <1>2 DEF Told
<1>4. [p \in Requests |-> Told(p)'] = [[p \in Requests |-> Told(p)] EXCEPT ![q] = Told(q)']
  BY <1>3
<1>5. /\ q \notin {p \in Requests : reply[p].status # 0}
      /\ {p \in Requests : reply'[p].status # 0} = {p \in Requests : reply[p].status # 0} \cup {q}
  BY <1>1, <1>2
<1> QED
  BY <1>1, <1>3, <1>4, <1>5 DEF Contract!Ends

(* Whoever commits has succeeded.                                          *)
LEMMA CommitSucceeds ==
  ASSUME PlaceInv, NEW q \in Requests, NEW ops, Op(q) \in ops, Step(q),
         NEW r, Answers(q, r), r.status = 200
  PROVE  Contract!Succeeds(q, ops)
<1>1. Turn(q)
  BY StepTurn
<1>2. reply'[q] = r
  BY AnswersMoves DEF PlaceInv
<1>3. Contract!Ends(q)
  BY <1>1, <1>2, TurnEnds
<1>4. Told(q)' = 200
  BY <1>2 DEF Told
<1> QED
  BY <1>3, <1>4 DEF Contract!Succeeds, Op

(* The response of a request that writes may leave before its commit.      *)
LEMMA RespondsEarly ==
  ASSUME PlaceInv, NEW q \in Requests, Respond(q)
  PROVE  Contract!AnswerEarly(q)
<1>1. Op(q) \in {"score", "review", "upload", "create", "update"}
  BY DEF PlaceInv, Place, Fits, Respond, OfflineOps
<1>2. reply[q].status = 0 /\ q \notin early
  BY DEF PlaceInv, Place, Respond, NoReply
<1>3. /\ reply' = reply /\ early' = early \cup {q} /\ call' = call
      /\ UNCHANGED <<tenants, keys, results, audit, hashes, hierarchy>>
  BY DEF Respond, tables, ambient
<1>4. /\ \A p \in Requests \ {q} : Told(p)' = Told(p)
      /\ Told(q) = 0 /\ Told(q)' = 200
  BY <1>2, <1>3 DEF Told
<1>5. [p \in Requests |-> Told(p)'] = [[p \in Requests |-> Told(p)] EXCEPT ![q] = 200]
  BY <1>4
<1> QED
  BY <1>1, <1>2, <1>3, <1>4, <1>5 DEF Contract!AnswerEarly, Contract!rtables, Op

(* The handlers that go on answer nothing, the others a status.            *)
LEMMA SomeStatus ==
  ASSUME PlaceInv, NEW q \in Requests, Step(q) \/ CommitRefused(q)
  PROVE  reply' = reply \/ reply'[q].status # 0
<1>1. ASSUME NEW r, Answers(q, r), r.status # 0
      PROVE  reply'[q].status # 0
  BY <1>1, AnswersMoves DEF PlaceInv
<1>2. ASSUME NEW stage, NEW t, Goes(q, stage, t)
      PROVE  reply' = reply
  BY <1>2 DEF Goes
<1>3. CASE ApiStep(q)
  <2>1. CASE Arrive(q)
    <3>1. ASSUME NEW a, Answers(q, [status |-> 429, retry |-> a.retry])
          PROVE  reply'[q].status # 0
      BY <1>1, <3>1
    <3>2. ASSUME Answers(q, [status |-> 413])
          PROVE  reply'[q].status # 0
      BY <1>1, <3>2
    <3>3. ASSUME Goes(q, "admitted", NoTxn)
          PROVE  reply' = reply
      BY <3>3 DEF Goes
    <3> QED
      BY <2>1, <3>1, <3>2, <3>3, Arrives
  <2>2. CASE RequireTenant(q) \/ MintKey(q) \/ RevokeKey(q)
    BY <1>1, <1>2, <2>2 DEF RequireTenant, MintKey, RevokeKey
  <2>3. CASE CommitKey(q) \/ CommitTenant(q)
    BY <1>1, <2>3 DEF CommitKey, CommitTenant
  <2>4. CASE LookUpTenant(q) \/ InsertTenant(q) \/ UpdateTenant(q)
    BY <1>1, <1>2, <2>4 DEF LookUpTenant, InsertTenant, UpdateTenant
  <2> QED
    BY <1>3, <2>1, <2>2, <2>3, <2>4 DEF ApiStep
<1>4. CASE ScoreStep(q)
  <2>1. CASE StartRow(q) \/ StartScore(q)
    BY <1>1, <1>2, <2>1 DEF StartRow, StartScore, TakesPlace
  <2>2. CASE LookForDuplicate(q) \/ ModelAnswers(q) \/ ModelFails(q)
    <3>1. ASSUME NEW verdict, RecordVerdict(q, verdict)
          PROVE  reply' = reply
      BY <3>1 DEF RecordVerdict, Goes
    <3> QED
      BY <1>1, <1>2, <2>2, <3>1, ModelTurns
  <2>3. CASE CommitScore(q)
    BY <1>1, <2>3 DEF CommitScore
  <2> QED
    BY <1>4, <2>1, <2>2, <2>3 DEF ScoreStep
<1>5. CASE RecordStep(q)
  <2>1. CASE LoadForReview(q) \/ WriteReview(q) \/ CommitReview(q) \/ GetResult(q)
    BY <1>1, <1>2, <2>1 DEF LoadForReview, WriteReview, CommitReview, GetResult
  <2>2. CASE CountResults(q) \/ ListPage(q) \/ ListUnderNode(q)
    <3>1. ASSUME NEW rows, NEW total, GetsPage(q, rows, total)
          PROVE  reply' = reply \/ reply'[q].status # 0
      BY <1>1, <1>2, <3>1 DEF GetsPage
    <3> QED
      BY <1>1, <1>2, <2>2, <3>1 DEF CountResults, ListPage, ListUnderNode
  <2>3. CASE StartUpload(q) \/ StartDelete(q) \/ DeleteAndInsert(q) \/ PreviewUpload(q)
    BY <1>1, <1>2, <2>3 DEF StartUpload, StartDelete, DeleteAndInsert, PreviewUpload
  <2>4. CASE CommitUpload(q) \/ ReadStatusRows(q) \/ ReadStatusReps(q)
    BY <1>1, <1>2, <2>4 DEF CommitUpload, ReadStatusRows, ReadStatusReps
  <2> QED
    BY <1>5, <2>1, <2>2, <2>3, <2>4 DEF RecordStep
<1>6. CASE ReportStep(q)
  <2>0. ASSUME NEW stage, NEW what, Reads(q, stage, what)
        PROVE  reply' = reply
    BY <2>0 DEF Reads, Goes
  <2>1. CASE \/ CountItems(q) \/ ReadAgentRows(q) \/ LookForAny(q)
    <3>1. \/ Answers(q, [status |-> 400]) \/ Answers(q, [status |-> 404])
          \/ \E stage, what : Reads(q, stage, what)
      BY <2>1 DEF CountItems, ReadAgentRows, LookForAny
    <3> QED
      BY <1>1, <2>0, <3>1
  <2>2. CASE ReadMap(q)
    <3>1. PICK body :
             Answers(q, [status |-> 200, tenant |-> txn[q].tenant,
                         org |-> OrgRows(txn[q].tenant), range |-> txn[q].read.range,
                         total |-> txn[q].read.total, items |-> txn[q].read.items,
                         prev |-> txn[q].read.prev, body |-> body])
      BY <2>2, Zenon DEF ReadMap
    <3> QED
      BY <1>1, <3>1
  <2>3. CASE ShowCard(q)
    <3>1. PICK body :
             Answers(q, [status |-> 200, tenant |-> txn[q].tenant, range |-> txn[q].read.range,
                         items |-> txn[q].read.items, prev |-> {}, body |-> body])
      BY <2>3, Zenon DEF ShowCard
    <3> QED
      BY <1>1, <3>1
  <2>4. CASE \/ FetchItems(q) \/ CountPrevious(q) \/ FetchPrevious(q)
             \/ CountAgent(q) \/ FetchAgent(q)
    <3>1. \E stage, what : Reads(q, stage, what)
      BY <2>4 DEF FetchItems, CountPrevious, FetchPrevious, CountAgent, FetchAgent
    <3> QED
      BY <2>0, <3>1
  <2> QED
    BY <1>6, <2>1, <2>2, <2>3, <2>4 DEF ReportStep
<1>7. CASE CommitRefused(q)
  BY <1>1, <1>7 DEF CommitRefused
<1> QED
  BY <1>3, <1>4, <1>5, <1>6, <1>7 DEF Step

(* The commit of a verdict adds one row, with its hash.                    *)
LEMMA ScoreAdds ==
  ASSUME GateInv, PlaceInv, ReviewInv, NEW q \in Requests, CommitScore(q)
  PROVE  Contract!AddResult(q)
<1>1. PICK row : row = txn[q].write
  OBVIOUS
<1>2. /\ Flow(q) /\ Kept /\ pc[q] = "exit" /\ IsScoring(q)
      /\ q \notin DOMAIN results
  BY DEF GateInv, CommitScore, Flow
<1>3. /\ results' = [id \in DOMAIN results \cup {q} |-> IF id = q THEN row ELSE results[id]]
      /\ UNCHANGED <<tenants, keys, audit, hierarchy>>
  BY <1>1 DEF CommitScore
<1>4. results'[q] = row
  BY <1>3
<1>5. /\ row.id = q /\ row.image = call[q].image /\ row.review = None
      /\ row.tenant = txn[q].tenant
  BY <1>1, <1>2 DEF Flow, ReviewInv
<1>6. ASSUME row.code = "recycled"
      PROVE  \E h \in hashes : h.tenant = row.tenant /\ Contract!Alike(Hash[row.image], h.hash)
  <2>1. PICK h \in hashes : Alike(row.tenant, row.image, h)
    BY <1>1, <1>2, <1>5, <1>6 DEF Flow, Recalls
  <2> QED
    BY <2>1 DEF Alike, Likeness, Contract!Alike
<1>7. Contract!Succeeds(q, {"score", "row"})
  <2>1. PICK r : Answers(q, r) /\ r.status = 200
    <3>1. Answers(q, [status |-> 200, code |-> row.code, done |-> clock.serial])
      BY <1>1 DEF CommitScore
    <3> QED
      BY <3>1
  <2>2. Step(q) /\ Op(q) \in {"score", "row"}
    BY <1>2 DEF Step, ScoreStep, IsScoring
  <2> QED
    BY <2>1, <2>2, CommitSucceeds
<1>8. \/ Hash[row.image] = None /\ hashes' = hashes
      \/ \E h \in hashes' :
           /\ hashes' = hashes \cup {h} /\ h.id = q
           /\ h.tenant = row.tenant /\ h.hash = Hash[row.image] /\ h.hash # None
  <2>1. PICK h : h = [id |-> row.id, tenant |-> row.tenant, hash |-> Hash[row.image],
                      n |-> txn[q].read]
    OBVIOUS
  <2>2. hashes' = IF Hash[row.image] = None THEN hashes ELSE hashes \cup {h}
    BY <1>1, <2>1 DEF CommitScore, Remembered
  <2> QED
    BY <1>5, <2>1, <2>2
<1> QED
  BY <1>2, <1>3, <1>4, <1>5, <1>6, <1>7, <1>8 DEF Contract!AddResult

(* The commit of a review decides one row and adds its audit event.        *)
LEMMA ReviewReviews ==
  ASSUME PlaceInv, ReviewInv, LoadInv, GateInv, NEW q \in Requests, CommitReview(q)
  PROVE  Contract!Review(q)
<1>1. PICK id, decision, status :
         id = call[q].target /\ decision = call[q].decision /\ status = txn[q].write.status
  OBVIOUS
<1>2. Op(q) = "review" /\ pc[q] = "exit" /\ Step(q)
  BY DEF CommitReview, Step, RecordStep
<1>3. /\ id \in DOMAIN results /\ status \in {None, decision}
      /\ status = None => results[id].review # None
      /\ decision # None
  <2>1. call[q].decision # None
    BY <1>2, PlansAssumption DEF PlaceInv, Op
  <2> QED
    BY <1>1, <1>2, <2>1 DEF ReviewInv, Decides
<1>4. results' = results \/ results' = [results EXCEPT ![id].review = decision]
  BY <1>1, <1>3 DEF CommitReview
<1>5. results'[id].review # None
  <2>1. /\ results'[id].review = results[id].review
           \/ (status # None /\ results'[id].review = status)
    BY <1>1, <1>2, <1>3, RowsStay
  <2>2. CASE status = None
    BY <1>3, <2>1, <2>2
  <2>3. CASE status # None
    <3>1. results' = [results EXCEPT ![id] = [results[id] EXCEPT !.review = status]]
      BY <1>1, <2>3 DEF CommitReview
    <3>2. results = [i \in DOMAIN results |-> results[i]] /\ IsRow(results[id])
      BY <1>3 DEF GateInv, Shape
    <3>3. results'[id].review = status
      BY <1>3, <3>1, <3>2 DEF IsRow
    <3> QED
      BY <2>3, <3>3
  <2> QED
    BY <2>2, <2>3
<1>6. PICK event : /\ event = [by |-> q, at |-> txn[q].at, tenant |-> txn[q].read.tenant,
                               result |-> id, decision |-> decision]
                   /\ audit' = audit \cup {event}
  BY <1>1 DEF CommitReview
<1>7. /\ event \in audit' /\ event.by = q /\ event.result = id /\ event.decision = decision
      /\ event.tenant = results[id].tenant
  <2>1. txn[q].read.tenant = results[id].tenant
    BY <1>1, <1>2 DEF LoadInv
  <2> QED
    BY <1>6, <2>1
<1>8. Contract!Succeeds(q, {"review"})
  <2>1. PICK r : Answers(q, r) /\ r.status = 200
    <3>1. Answers(q, [status |-> 200, review |-> decision])
      BY <1>1 DEF CommitReview
    <3> QED
      BY <3>1
  <2> QED
    BY <1>2, <2>1, CommitSucceeds
<1>9. UNCHANGED <<tenants, keys, hashes, hierarchy>>
  BY DEF CommitReview
<1> QED
  BY <1>1, <1>3, <1>4, <1>5, <1>6, <1>7, <1>8, <1>9 DEF Contract!Review

(* The commit of an upload takes rows of its tenant away and adds its own. *)
LEMMA UploadReplaces ==
  ASSUME PlaceInv, MapInv, NEW q \in Requests, CommitUpload(q)
  PROVE  Contract!ReplaceMap(q)
<1>1. Op(q) = "upload" /\ pc[q] = "exit" /\ Step(q)
  BY DEF CommitUpload, Step, RecordStep
<1>2. PICK gone, rows : gone = txn[q].write.gone /\ rows = txn[q].write.rows
  OBVIOUS
<1>3. /\ \A h \in gone : h.tenant = DevTenant
      /\ \A h \in rows : h.upload = q /\ h.tenant = DevTenant
  BY <1>1, <1>2 DEF MapInv, Uploading, Own
<1>4. hierarchy' = (hierarchy \ gone) \cup rows /\ UNCHANGED <<tenants, keys, results, audit, hashes>>
  BY <1>2 DEF CommitUpload
<1>5. Contract!Succeeds(q, {"upload"})
  <2>1. PICK r : Answers(q, r) /\ r.status = 200
    <3>1. PICK m : m = txn[q].read.matched
      OBVIOUS
    <3>2. Answers(q, [status |-> 200, rows |-> rows, matched |-> m, at |-> txn[q].at,
                      done |-> clock.serial])
      BY <1>2, <3>1 DEF CommitUpload
    <3> QED
      BY <3>2
  <2> QED
    BY <1>1, <2>1, CommitSucceeds
<1>6. /\ \A h \in hierarchy \ hierarchy' : h.tenant = DevTenant
      /\ \A h \in hierarchy' \ hierarchy : h.tenant = DevTenant /\ h.upload = q
  BY <1>3, <1>4
<1> QED
  BY <1>4, <1>5, <1>6 DEF Contract!ReplaceMap

(* The commit of a key changes that key only.                              *)
LEMMA KeyChanges ==
  ASSUME GateInv, PlaceInv, AccessInv, NEW q \in Requests, CommitKey(q)
  PROVE  Contract!ChangeKey(q)
<1>1. Op(q) \in {"mint", "revoke"} /\ Step(q)
  BY DEF CommitKey, Step, ApiStep
<1>2. PICK k : k = call[q].key
  OBVIOUS
<1>3. /\ DOMAIN keys \subseteq DOMAIN keys' /\ DOMAIN keys' \subseteq DOMAIN keys \cup {k}
      /\ \A o \in DOMAIN keys : o # k => keys'[o] = keys[o]
      /\ UNCHANGED <<tenants, results, audit, hashes, hierarchy>>
  BY <1>2 DEF CommitKey
<1>4. \A o \in DOMAIN keys : keys'[o].tenant = keys[o].tenant
  BY <1>1, KeyStep DEF AccessInv, KeysStay
<1>5. Contract!Succeeds(q, {"mint", "revoke"})
  BY <1>1, CommitSucceeds DEF CommitKey
<1> QED
  BY <1>2, <1>3, <1>4, <1>5 DEF Contract!ChangeKey

(* The commit of an administrator changes one tenant only.                 *)
LEMMA TenantChanges ==
  ASSUME PlaceInv, NEW q \in Requests, CommitTenant(q)
  PROVE  Contract!ChangeTenant(q)
<1>1. Op(q) \in {"create", "update"} /\ Step(q)
  BY DEF CommitTenant, Step, ApiStep, AdminOps
<1>2. PICK t : \/ tenants' = tenants
               \/ tenants' = [tenants EXCEPT ![call[q].slug] = t]
  BY DEF CommitTenant
<1>3. /\ DOMAIN tenants' = DOMAIN tenants
      /\ \A slug \in DOMAIN tenants : slug # call[q].slug => tenants'[slug] = tenants[slug]
  BY <1>2
<1>4. UNCHANGED <<keys, results, audit, hashes, hierarchy>>
  BY DEF CommitTenant
<1>5. Contract!Succeeds(q, {"create", "update"})
  BY <1>1, CommitSucceeds DEF CommitTenant
<1> QED
  BY <1>3, <1>4, <1>5 DEF Contract!ChangeTenant

(* Any other step leaves the tables alone, whether it answers or goes on.  *)
LEMMA OthersLeaveAlone ==
  ASSUME PlaceInv, NEW q \in Requests, Step(q) \/ CommitRefused(q),
         ~CommitScore(q), ~CommitReview(q), ~CommitUpload(q), ~CommitKey(q), ~CommitTenant(q)
  PROVE  Contract!LeaveAlone(q) \/ UNCHANGED Contract!rvars
<1>1. UNCHANGED <<tenants, keys, results, audit, hashes, hierarchy>>
  BY WhoWrites
<1>2. Turn(q) /\ call' = call
  BY StepTurn DEF Turn
<1>3. CASE reply' = reply
  <2>1. early' = early
    BY <1>2 DEF Turn, Moves
  <2> QED
    BY <1>1, <1>2, <1>3, <2>1 DEF Contract!rvars, Contract!rtables, Told
<1>4. CASE reply'[q].status # 0
  BY <1>1, <1>2, <1>4, TurnEnds DEF Contract!LeaveAlone, Contract!rtables
<1> QED
  BY <1>3, <1>4, SomeStatus

(* What the proof knows of every state.                                    *)
RequestInv == GateInv /\ PlaceInv /\ MapInv /\ ReviewInv /\ AccessInv /\ LoadInv

(* Every step of the service is a step of the contract, or none.           *)
LEMMA ServiceSimulates ==
  ASSUME RequestInv, [Next]_vars
  PROVE  [Contract!RNext]_(Contract!rvars)
<1>1. ASSUME NEW q \in Requests, Step(q) \/ CommitRefused(q)
      PROVE  [Contract!RNext]_(Contract!rvars)
  <2>1. CASE CommitScore(q)
    BY <2>1, ScoreAdds DEF RequestInv, Contract!RNext
  <2>2. CASE CommitReview(q)
    BY <2>2, ReviewReviews DEF RequestInv, Contract!RNext
  <2>3. CASE CommitUpload(q)
    BY <2>3, UploadReplaces DEF RequestInv, Contract!RNext
  <2>4. CASE CommitKey(q)
    BY <2>4, KeyChanges DEF RequestInv, Contract!RNext
  <2>5. CASE CommitTenant(q)
    BY <2>5, TenantChanges DEF RequestInv, Contract!RNext
  <2>6. CASE /\ ~CommitScore(q) /\ ~CommitReview(q) /\ ~CommitUpload(q)
             /\ ~CommitKey(q) /\ ~CommitTenant(q)
    BY <1>1, <2>6, OthersLeaveAlone DEF RequestInv, Contract!RNext
  <2> QED
    BY <2>1, <2>2, <2>3, <2>4, <2>5, <2>6
<1>2. CASE Tick \/ UNCHANGED vars
  <2>1. /\ reply' = reply /\ early' = early /\ call' = call
        /\ UNCHANGED <<tenants, keys, results, audit, hashes, hierarchy>>
    BY <1>2 DEF Tick, vars, flow, tables
  <2> QED
    BY <2>1 DEF Contract!rvars, Contract!rtables, Told
<1>3. ASSUME NEW q \in Requests, Respond(q)
      PROVE  Contract!RNext
  BY <1>3, RespondsEarly DEF RequestInv, Contract!RNext
<1> QED
  BY <1>1, <1>2, <1>3 DEF Next

(* Requests as RecordContract describes them: whatever the statements,     *)
(* locks, waits, refused commits and other requests in between, each one   *)
(* ends once and changes the tables only in the step that ends it, if its  *)
(* client is told 200, then or before: the verdict with the hash its photo *)
(* has, the decision with its audit event, the upload as a whole.          *)
THEOREM ServiceImplementsContract == Spec => ImplementsContract
<1>1. Init => RequestInv /\ Contract!RInit
  <2>1. Init => LoadInv
    BY DEF Init, LoadInv
  <2>2. Init => Contract!RInit
    <3> SUFFICES ASSUME Init
                 PROVE  Contract!RInit
      OBVIOUS
    <3>1. /\ \A q \in Requests : Told(q) = 0 /\ reply[q].status = 0
          /\ [q \in Requests |-> Told(q)] = [q \in Requests |-> 0]
          /\ {q \in Requests : reply[q].status # 0} = {}
      BY DEF Init, NoReply, Told
    <3> QED
      BY <3>1 DEF Init, Contract!RInit
  <2> QED
    BY <2>1, <2>2, GateInit, PlaceInit, MapInit, ReviewInit, AccessInit DEF RequestInv
<1>2. RequestInv /\ [Next]_vars => RequestInv'
  BY BothNext, MapNext, ReviewNext, AccessNext, LoadNext DEF RequestInv
<1>3. RequestInv /\ [Next]_vars => [Contract!RNext]_(Contract!rvars)
  BY ServiceSimulates
<1> QED
  BY <1>1, <1>2, <1>3, PTL DEF Spec, ImplementsContract, Contract!RSpec
=============================================================================
