---------------------------- MODULE AnswerProofs -----------------------------
(***************************************************************************)
(* What the answers show, for any number of requests of every kind: no row *)
(* of another tenant, a total that the list behind it agrees with, all rows *)
(* to a client that pages, every result counted once in a report; whom the *)
(* rate limiter turns away; and that the service keeps its types.          *)
(***************************************************************************)
EXTENDS ServiceProofs, RateLimiterProofs

(* ---- what a request may show ------------------------------------------- *)

(* The results of the tenant that owns q's key.                            *)
Mine(q) ==
    {id \in DOMAIN results : /\ call[q].key \in DOMAIN keys
                             /\ results[id].tenant = keys[call[q].key].tenant}

Shows(q, S) == \A r \in S : r.id \in Mine(q)

(* What q has read so far, and what it was answered.                       *)
Gathered(q) ==
    LET r == txn[q].read IN
    /\ pc[q] \in {"rows", "items", "previous"} => Shows(q, r.first)
    /\ pc[q] \in {"before", "previous", "map", "ever", "card"} => Shows(q, r.items)
    /\ pc[q] = "map" => Shows(q, r.prev)
    /\ Op(q) = "review" /\ pc[q] \in {"write", "exit"} => call[q].target \in Mine(q)

Answered(q) ==
    Ended(q, 200) =>
       /\ Op(q) \in {"get", "summary", "scorecard"} => Shows(q, reply[q].items)
       /\ Op(q) = "summary" => Shows(q, reply[q].prev)
       /\ Op(q) = "review" => call[q].target \in Mine(q)

IsPage(p) == p = [offset |-> p.offset, got |-> p.got, base |-> p.base]

ShownInv ==
    /\ \A q \in Requests : IsPage(page[q])
    /\ \A q \in Requests : Op(q) \in DataOps => Gathered(q) /\ Answered(q)
    /\ \A q \in Requests : Op(q) = "list" => page[q].got \subseteq Mine(q)

(* A selection of the tenant's rows shows only its own.                    *)
LEMMA MatchingIsMine ==
  ASSUME GateInv, AccessInv, NEW q \in Requests, Op(q) \in DataOps, pc[q] \notin Idle
  PROVE  /\ \A f : Shows(q, Matching(txn[q].tenant, f))
         /\ \A id \in DOMAIN results : results[id].tenant = txn[q].tenant => id \in Mine(q)
<1>1. call[q].key \in DOMAIN keys /\ txn[q].tenant = keys[call[q].key].tenant
  BY DEF AccessInv, Allowed
<1>2. \A id \in DOMAIN results : results[id].id = id
  BY DEF GateInv, Shape
<1>3. ASSUME NEW f, NEW r \in Matching(txn[q].tenant, f)
      PROVE  r.id \in Mine(q)
  <2>1. r \in {results[id] : id \in DOMAIN results} /\ r.tenant = txn[q].tenant
    BY DEF Matching
  <2> QED
    BY <1>1, <1>2, <2>1 DEF Mine
<1> QED
  BY <1>1, <1>3 DEF Mine, Shows

(* And so does whatever is selected from it.                               *)
LEMMA SelectionsShow ==
  ASSUME GateInv, AccessInv, NEW q \in Requests, Op(q) \in DataOps, pc[q] \notin Idle,
         NEW first, Shows(q, first), NEW f
  PROVE  /\ \A s \in Selections(q, first, f) : Shows(q, Fetched(s.all))
         /\ Shows(q, Fetched(Matching(txn[q].tenant, f)))
<1>1. PICK S : S = Matching(txn[q].tenant, f)
  OBVIOUS
<1>2. Shows(q, S)
  BY <1>1, MatchingIsMine
<1>3. ASSUME NEW T, Shows(q, T)
      PROVE  Shows(q, Fetched(T))
  BY <1>3 DEF Shows, Fetched, Slice
<1>4. ASSUME NEW s \in Selections(q, first, f)
      PROVE  Shows(q, s.all)
  <2>1. CASE ~AtNode(call[q])
    <3>1. s = [total |-> Cardinality(first), all |-> S]
      BY <1>1, <1>4, <2>1 DEF Selections
    <3> QED
      BY <1>2, <3>1
  <2>2. CASE AtNode(call[q])
    <3>1. PICK rows : /\ rows \in RowLists(OrgRows(txn[q].tenant))
                      /\ s = [total |-> Cardinality(UnderNode(first, rows, call[q].dim, call[q].node)),
                              all |-> UnderNode(first, rows, call[q].dim, call[q].node)]
      BY <1>4, <2>2 DEF Selections
    <3>2. s.all \subseteq first
      BY <3>1 DEF UnderNode
    <3> QED
      BY <3>2 DEF Shows
  <2> QED
    BY <2>1, <2>2
<1> QED
  BY <1>1, <1>2, <1>3, <1>4

(* Nothing that is somebody's becomes somebody else's.                     *)
LEMMA MineStays ==
  ASSUME GateInv, PlaceInv, AccessInv, NEW q \in Requests, Step(q) \/ CommitRefused(q)
  PROVE  \A p \in Requests : /\ \A id \in Mine(p) : id \in Mine(p)'
                             /\ \A S : Shows(p, S) => Shows(p, S)'
<1>1. call' = call /\ KeysStay
  BY StepTurn, KeyStep DEF Turn, AccessInv
<1>2. \A id \in DOMAIN results : id \in DOMAIN results' /\ results'[id].tenant = results[id].tenant
  BY RowsStay DEF SameVerdict
<1>3. ASSUME NEW p \in Requests, NEW id \in Mine(p)
      PROVE  id \in Mine(p)'
  BY <1>1, <1>2, <1>3 DEF Mine, KeysStay
<1> QED
  BY <1>3 DEF Shows

(* A step after which nothing is at hand and nothing is shown.             *)
LEMMA NothingShown ==
  ASSUME NEW q \in Requests, pc'[q] \in {"new", "admitted", "closed", "run", "look", "ask",
                                         "count", "fetch"}
  PROVE  Gathered(q)'
BY DEF Gathered

(* The middlewares and require_tenant show nothing, nor does a failure.    *)
LEMMA AtTheDoor ==
  ASSUME PlaceInv, NEW q \in Requests, Arrive(q) \/ RequireTenant(q) \/ CommitRefused(q)
  PROVE  Gathered(q)' /\ Answered(q)'
<1>1. Shape /\ reply[q].status # 200
  <2>1. pc[q] # "closed"
    BY DEF Arrive, RequireTenant, CommitRefused
  <2> QED
    BY <2>1 DEF PlaceInv, Place, NoReply
<1>2. ASSUME NEW r, Answers(q, r), r.status # 200
      PROVE  Gathered(q)' /\ Answered(q)'
  <2>1. pc'[q] = "closed" /\ reply'[q].status # 200
    BY <1>1, <1>2, AnswersMoves
  <2> QED
    BY <2>1, NothingShown DEF Answered, Ended
<1>3. ASSUME NEW stage, NEW t, Goes(q, stage, t), stage \in {"admitted", "run"}
      PROVE  Gathered(q)' /\ Answered(q)'
  <2>1. pc'[q] = stage /\ reply'[q].status # 200
    BY <1>1, <1>3, GoesMoves
  <2> QED
    BY <1>3, <2>1, NothingShown DEF Answered, Ended
<1>4. CASE Arrive(q)
  <2>1. \/ \E a : Answers(q, [status |-> 429, retry |-> a.retry])
        \/ Answers(q, [status |-> 413])
        \/ Goes(q, "admitted", NoTxn)
    BY <1>4, Arrives
  <2>2. CASE \E a : Answers(q, [status |-> 429, retry |-> a.retry])
    BY <1>2, <2>2
  <2>3. CASE Answers(q, [status |-> 413])
    BY <1>2, <2>3
  <2>4. CASE Goes(q, "admitted", NoTxn)
    BY <1>3, <2>4
  <2> QED
    BY <2>1, <2>2, <2>3, <2>4
<1>5. CASE RequireTenant(q)
  BY <1>2, <1>3, <1>5 DEF RequireTenant
<1>6. CASE CommitRefused(q)
  BY <1>2, <1>6 DEF CommitRefused
<1> QED
  BY <1>4, <1>5, <1>6

(* What a review answers is a row of its tenant: the row it has written.   *)
LEMMA ReviewShows ==
  ASSUME GateInv, PlaceInv, AccessInv, ShownInv, NEW q \in Requests, Op(q) = "review", Step(q)
  PROVE  Gathered(q)' /\ Answered(q)'
<1>1. /\ Shape /\ Gathered(q) /\ pc[q] # "closed" /\ reply[q] = NoReply
      /\ call' = call /\ Op(q)' = Op(q) /\ Op(q) \in DataOps
  <2>1. Turn(q)
    BY StepTurn
  <2>2. Op(q)' = Op(q)
    BY <2>1, OthersStay
  <2> QED
    BY <2>1, <2>2 DEF Turn, PlaceInv, Place, ShownInv, DataOps
<1>2. \A id \in Mine(q) : id \in Mine(q)'
  BY MineStays
<1>3. ASSUME NEW r, Answers(q, r), r.status # 200
      PROVE  Gathered(q)' /\ Answered(q)'
  <2>1. pc'[q] = "closed" /\ reply'[q].status # 200
    BY <1>1, <1>3, AnswersMoves
  <2> QED
    BY <2>1, NothingShown DEF Answered, Ended
<1>4. ASSUME NEW stage, NEW t, Goes(q, stage, t),
             \/ stage \in {"admitted", "run"}
             \/ stage \in {"write", "exit"} /\ call[q].target \in Mine(q)
      PROVE  Gathered(q)' /\ Answered(q)'
  <2>1. pc'[q] = stage /\ reply'[q].status # 200
    BY <1>1, <1>4, GoesMoves DEF NoReply
  <2> QED
    BY <1>1, <1>2, <1>4, <2>1 DEF Gathered, Answered, Ended
<1>5. CASE Arrive(q) \/ RequireTenant(q)
  BY <1>5, AtTheDoor
<1>6. CASE LoadForReview(q)
  <2>1. pc[q] \notin Idle
    BY <1>6 DEF LoadForReview, Idle
  <2>2. \A id \in DOMAIN results : results[id].tenant = txn[q].tenant => id \in Mine(q)
    BY <1>1, <2>1, MatchingIsMine
  <2> QED
    BY <1>3, <1>4, <1>6, <2>2 DEF LoadForReview
<1>7. CASE WriteReview(q)
  <2>1. call[q].target \in Mine(q)
    BY <1>1, <1>7 DEF WriteReview, Gathered
  <2> QED
    BY <1>4, <1>7, <2>1 DEF WriteReview
<1>8. CASE CommitReview(q)
  <2>1. call[q].target \in Mine(q)
    BY <1>1, <1>8 DEF CommitReview, Gathered
  <2>2. pc'[q] = "closed"
    BY <1>1, <1>8, AnswersMoves DEF CommitReview
  <2> QED
    BY <1>1, <1>2, <2>1, <2>2, NothingShown DEF Answered
<1> QED
  BY <1>5, <1>6, <1>7, <1>8, WhoSteps

(* So is the one result a client asks for.                                 *)
LEMMA GetShows ==
  ASSUME GateInv, PlaceInv, AccessInv, ShownInv, NEW q \in Requests, Op(q) = "get", Step(q)
  PROVE  Gathered(q)' /\ Answered(q)'
<1>1. /\ Shape /\ reply[q] = NoReply /\ Op(q)' = Op(q) /\ Op(q) \in DataOps
  <2>1. Turn(q)
    BY StepTurn
  <2>2. Op(q)' = Op(q)
    BY <2>1, OthersStay
  <2> QED
    BY <2>1, <2>2 DEF Turn, PlaceInv, Place, DataOps
<1>2. \A S : Shows(q, S) => Shows(q, S)'
  BY MineStays
<1>3. ASSUME NEW r, Answers(q, r), r.status # 200 \/ Shows(q, r.items)
      PROVE  Gathered(q)' /\ Answered(q)'
  <2>1. pc'[q] = "closed" /\ reply'[q] = r
    BY <1>1, <1>3, AnswersMoves
  <2>2. Gathered(q)'
    BY <2>1, NothingShown
  <2>3. r.status # 200 \/ Shows(q, reply[q].items)'
    <3>1. PICK S : S = r.items
      OBVIOUS
    <3> QED
      BY <1>2, <1>3, <2>1, <3>1 DEF Shows
  <2> QED
    BY <1>1, <2>1, <2>2, <2>3 DEF Answered, Ended
<1>4. CASE Arrive(q) \/ RequireTenant(q)
  BY <1>4, AtTheDoor
<1>5. CASE GetResult(q)
  <2>1. pc[q] \notin Idle
    BY <1>5 DEF GetResult, Idle
  <2>2. \A id \in DOMAIN results : results[id].tenant = txn[q].tenant => id \in Mine(q)
    BY <1>1, <2>1, MatchingIsMine
  <2>3. PICK id : id = call[q].target
    OBVIOUS
  <2>4. CASE Answers(q, [status |-> 404])
    BY <1>3, <2>4
  <2>5. CASE /\ id \in DOMAIN results /\ results[id].tenant = txn[q].tenant
             /\ Answers(q, [status |-> 200, items |-> {results[id]}])
    <3>1. id \in Mine(q) /\ results[id].id = id
      BY <2>2, <2>5 DEF GateInv, Shape
    <3> QED
      BY <1>3, <2>5, <3>1 DEF Shows
  <2> QED
    BY <1>5, <2>3, <2>4, <2>5 DEF GetResult
<1> QED
  BY <1>4, <1>5, WhoSteps

(* So are the rows of a page, which the list is drawn from.                *)
LEMMA ListShows ==
  ASSUME GateInv, PlaceInv, AccessInv, ShownInv, NEW q \in Requests, Op(q) = "list",
         Step(q) \/ CommitRefused(q)
  PROVE  /\ Gathered(q)' /\ Answered(q)'
         /\ IsPage(page[q])' /\ (page[q].got \subseteq Mine(q))'
<1>1. /\ Shape /\ Gathered(q) /\ Op(q)' = Op(q) /\ Op(q) \in DataOps
      /\ IsPage(page[q]) /\ page[q].got \subseteq Mine(q)
      /\ page = [p \in Requests |-> page[p]]
  <2>1. Turn(q)
    BY StepTurn
  <2>2. Op(q)' = Op(q)
    BY <2>1, OthersStay
  <2> QED
    BY <2>1, <2>2 DEF Turn, PlaceInv, Place, ShownInv, DataOps
<1>2. /\ \A id \in Mine(q) : id \in Mine(q)'
      /\ \A S : Shows(q, S) => Shows(q, S)'
  BY MineStays
<1>3. ASSUME page' = page
      PROVE  IsPage(page[q])' /\ (page[q].got \subseteq Mine(q))'
  BY <1>1, <1>2, <1>3 DEF IsPage
<1>4. CASE Arrive(q) \/ RequireTenant(q) \/ CommitRefused(q)
  <2>1. page' = page
    BY <1>4 DEF Arrive, RequireTenant, CommitRefused
  <2> QED
    BY <1>3, <1>4, <2>1, AtTheDoor
<1>5. ASSUME NEW rows, NEW total, GetsPage(q, rows, total), Shows(q, rows)
      PROVE  /\ Gathered(q)' /\ Answered(q)'
             /\ IsPage(page[q])' /\ (page[q].got \subseteq Mine(q))'
  <2>1. pc'[q] \in {"closed", "new"}
    BY <1>1, <1>5, GoesMoves, AnswersMoves DEF GetsPage
  <2>2. Gathered(q)' /\ Answered(q)'
    BY <1>1, <2>1, NothingShown DEF Answered
  <2>3. page'[q] = [offset |-> page[q].offset + call[q].limit,
                    got |-> page[q].got \cup {r.id : r \in rows}, base |-> page[q].base]
    BY <1>1, <1>5 DEF GetsPage, IsPage
  <2>4. {r.id : r \in rows} \subseteq Mine(q)
    BY <1>5 DEF Shows
  <2>5. page'[q].got \subseteq Mine(q)
    BY <1>1, <2>3, <2>4
  <2> QED
    BY <1>2, <2>2, <2>3, <2>5 DEF IsPage
<1>6. CASE CountResults(q) \/ ListPage(q) \/ ListUnderNode(q)
  <2>1. pc[q] \notin Idle
    BY <1>6 DEF CountResults, ListPage, ListUnderNode, Idle
  <2>2. \A f : Shows(q, Matching(txn[q].tenant, f))
    BY <1>1, <2>1, MatchingIsMine
  <2>3. CASE CountResults(q)
    <3>1. CASE Answers(q, [status |-> 400]) /\ UNCHANGED page
      <4>1. pc'[q] = "closed" /\ reply'[q].status # 200
        BY <1>1, <3>1, AnswersMoves
      <4> QED
        BY <1>3, <3>1, <4>1, NothingShown DEF Answered, Ended
    <3>2. CASE ~(Answers(q, [status |-> 400]) /\ UNCHANGED page)
      <4>0. PICK first : first = Matching(txn[q].tenant, ListFilter(call[q]))
        OBVIOUS
      <4>a. PICK v : v = [filter |-> ListFilter(call[q]), first |-> first]
        OBVIOUS
      <4>1. /\ v.first = first
            /\ Goes(q, "rows", [txn[q] EXCEPT !.read = v])
            /\ page' = IF page[q].offset = 0 THEN [page EXCEPT ![q].base = first] ELSE page
        BY <2>3, <3>2, <4>0, <4>a DEF CountResults
      <4>2. pc'[q] = "rows" /\ txn'[q] = [txn[q] EXCEPT !.read = v] /\ reply'[q] = reply[q]
        BY <1>1, <4>1, GoesMoves
      <4>3. txn'[q].read = v
        BY <2>1, <4>2, Reading DEF PlaceInv, Place, Begun
      <4>4. Shows(q, first)'
        BY <1>2, <2>2, <4>0
      <4>5. Gathered(q)' /\ Answered(q)'
        BY <1>1, <4>1, <4>2, <4>3, <4>4 DEF Gathered, Answered, Shows
      <4>6. IsPage(page'[q]) /\ page'[q].got = page[q].got
        BY <1>1, <4>1 DEF IsPage
      <4> QED
        BY <1>1, <1>2, <4>5, <4>6 DEF IsPage
    <3> QED
      BY <3>1, <3>2
  <2>4. CASE ListPage(q)
    <3>1. PICK S : S = Matching(txn[q].tenant, txn[q].read.filter)
      OBVIOUS
    <3>2. PICK rows : rows = Slice(S, page[q].offset, call[q].limit)
      OBVIOUS
    <3>3. Shows(q, rows)
      BY <2>2, <3>1, <3>2 DEF Slice, Shows
    <3> QED
      BY <1>5, <2>4, <3>1, <3>2, <3>3 DEF ListPage
  <2>5. CASE ListUnderNode(q)
    <3>1. PICK l, S : /\ S = UnderNode(txn[q].read.first, l, call[q].dim, call[q].node)
                      /\ GetsPage(q, Slice(S, page[q].offset, call[q].limit), Cardinality(S))
      BY <2>5 DEF ListUnderNode
    <3>2. PICK rows : rows = Slice(S, page[q].offset, call[q].limit)
      OBVIOUS
    <3>3. Shows(q, txn[q].read.first)
      BY <1>1, <2>5 DEF ListUnderNode, Gathered
    <3>4. Shows(q, rows)
      BY <3>1, <3>2, <3>3 DEF UnderNode, Slice, Shows
    <3> QED
      BY <1>5, <3>1, <3>2, <3>4
  <2> QED
    BY <1>6, <2>3, <2>4, <2>5
<1> QED
  BY <1>4, <1>6, WhoSteps

(* A report that reads on.                                                 *)
LEMMA ReadsOn ==
  ASSUME PlaceInv, NEW q \in Requests, pc[q] \notin Idle, NEW stage, NEW v, Reads(q, stage, v)
  PROVE  pc'[q] = stage /\ txn'[q].read = v /\ reply'[q].status # 200
<1>1. Shape /\ IsTxn(txn[q]) /\ reply[q].status # 200
  <2>1. Shape /\ Place(q) /\ pc[q] # "closed"
    BY DEF PlaceInv, Idle
  <2> QED
    BY <2>1 DEF Place, Begun, NoReply
<1>2. pc'[q] = stage /\ txn'[q] = [txn[q] EXCEPT !.read = v] /\ reply'[q] = reply[q]
  BY <1>1, GoesMoves DEF Reads
<1> QED
  BY <1>1, <1>2, Reading

(* The items of a dashboard summary and of the period before are of its tenant. *)
LEMMA SummaryShows ==
  ASSUME GateInv, PlaceInv, AccessInv, ShownInv, NEW q \in Requests, Op(q) = "summary", Step(q)
  PROVE  Gathered(q)' /\ Answered(q)'
<1>1. /\ Shape /\ Gathered(q) /\ Op(q)' = Op(q) /\ Op(q) \in DataOps
  <2>1. Turn(q)
    BY StepTurn
  <2>2. Op(q)' = Op(q)
    BY <2>1, OthersStay
  <2> QED
    BY <2>1, <2>2 DEF Turn, PlaceInv, Place, ShownInv, DataOps
<1>2. \A S : Shows(q, S) => Shows(q, S)'
  BY MineStays
<1>3. CASE Arrive(q) \/ RequireTenant(q)
  BY <1>3, AtTheDoor
<1>4. CASE ~Arrive(q) /\ ~RequireTenant(q)
  <2>0. \/ CountItems(q) \/ FetchItems(q) \/ CountPrevious(q) \/ FetchPrevious(q) \/ ReadMap(q)
    BY <1>4, WhoSteps
  <2>1. pc[q] \notin Idle
    BY <2>0 DEF CountItems, FetchItems, CountPrevious, FetchPrevious, ReadMap, Idle
  <2>2. \A f : Shows(q, First(q, f))
    BY <1>1, <2>1, MatchingIsMine DEF First
  <2>3. ASSUME NEW stage, NEW v, Reads(q, stage, v), stage \in {"items", "before", "previous", "map"},
               stage \in {"items", "previous"} => Shows(q, v.first),
               stage \in {"before", "previous", "map"} => Shows(q, v.items),
               stage = "map" => Shows(q, v.prev)
        PROVE  Gathered(q)' /\ Answered(q)'
    <3>1. pc'[q] = stage /\ txn'[q].read = v /\ reply'[q].status # 200
      BY <2>1, <2>3, ReadsOn
    <3>2. PICK a, b, c : a = v.first /\ b = v.items /\ c = v.prev
      OBVIOUS
    <3>3. /\ stage \in {"items", "previous"} => Shows(q, a)'
          /\ stage \in {"before", "previous", "map"} => Shows(q, b)'
          /\ stage = "map" => Shows(q, c)'
      BY <1>2, <2>3, <3>2
    <3>4. Gathered(q)'
      BY <1>1, <2>3, <3>1, <3>2, <3>3 DEF Gathered, Shows
    <3> QED
      BY <3>1, <3>4 DEF Answered, Ended
  <2>4. CASE CountItems(q)
    <3>1. CASE Answers(q, [status |-> 400])
      <4>1. pc'[q] = "closed" /\ reply'[q].status # 200
        BY <1>1, <3>1, AnswersMoves
      <4> QED
        BY <4>1, NothingShown DEF Answered, Ended
    <3>2. CASE \E range : Reads(q, "items", [range |-> range, first |-> First(q, In(range))])
      BY <2>2, <2>3, <3>2
    <3> QED
      BY <2>4, <3>1, <3>2 DEF CountItems
  <2>5. CASE FetchItems(q)
    <3>1. PICK r : r = txn[q].read
      OBVIOUS
    <3>2. PICK s \in Selections(q, r.first, In(r.range)) :
             Reads(q, "before", [range |-> r.range, today |-> Today, total |-> s.total,
                                 items |-> Fetched(s.all)])
      BY <2>5, <3>1 DEF FetchItems
    <3>3. Shows(q, r.first)
      BY <1>1, <2>5, <3>1 DEF FetchItems, Gathered
    <3>4. Shows(q, Fetched(s.all))
      BY <1>1, <2>1, <3>2, <3>3, SelectionsShow
    <3> QED
      BY <2>3, <3>2, <3>4
  <2>6. CASE CountPrevious(q)
    <3>1. PICK r : r = txn[q].read
      OBVIOUS
    <3>2. Shows(q, r.items)
      BY <1>1, <2>6, <3>1 DEF CountPrevious, Gathered
    <3> QED
      BY <2>2, <2>3, <2>6, <3>1, <3>2 DEF CountPrevious
  <2>7. CASE FetchPrevious(q)
    <3>1. PICK r : r = txn[q].read
      OBVIOUS
    <3>2. PICK s \in Selections(q, r.first, In(PreviousRange(r.range))) :
             Reads(q, "map", [range |-> r.range, today |-> r.today, total |-> r.total,
                              items |-> r.items, prev |-> Fetched(s.all)])
      BY <2>7, <3>1 DEF FetchPrevious
    <3>3. Shows(q, r.first) /\ Shows(q, r.items)
      BY <1>1, <2>7, <3>1 DEF FetchPrevious, Gathered
    <3>4. Shows(q, Fetched(s.all))
      BY <1>1, <2>1, <3>2, <3>3, SelectionsShow
    <3> QED
      BY <2>3, <3>2, <3>3, <3>4
  <2>8. CASE ReadMap(q)
    <3>1. PICK items, prev : items = txn[q].read.items /\ prev = txn[q].read.prev
      OBVIOUS
    <3>2. PICK r : Answers(q, r) /\ r.items = items /\ r.prev = prev
      BY <2>8, <3>1 DEF ReadMap
    <3>3. Shows(q, items) /\ Shows(q, prev)
      BY <1>1, <2>8, <3>1 DEF ReadMap, Gathered
    <3>4. pc'[q] = "closed" /\ reply'[q] = r
      BY <1>1, <3>2, AnswersMoves
    <3>5. Shows(q, items)' /\ Shows(q, prev)'
      BY <1>2, <3>3
    <3> QED
      BY <1>1, <3>2, <3>4, <3>5, NothingShown DEF Answered, Shows
  <2> QED
    BY <2>0, <2>4, <2>5, <2>6, <2>7, <2>8
<1> QED
  BY <1>3, <1>4

(* So are those of an agent's scorecard.                                   *)
LEMMA CardShows ==
  ASSUME GateInv, PlaceInv, AccessInv, ShownInv, NEW q \in Requests, Op(q) = "scorecard", Step(q)
  PROVE  Gathered(q)' /\ Answered(q)'
<1>1. /\ Shape /\ Gathered(q) /\ Op(q)' = Op(q) /\ Op(q) \in DataOps
  <2>1. Turn(q)
    BY StepTurn
  <2>2. Op(q)' = Op(q)
    BY <2>1, OthersStay
  <2> QED
    BY <2>1, <2>2 DEF Turn, PlaceInv, Place, ShownInv, DataOps
<1>2. \A S : Shows(q, S) => Shows(q, S)'
  BY MineStays
<1>3. CASE Arrive(q) \/ RequireTenant(q)
  BY <1>3, AtTheDoor
<1>4. CASE ~Arrive(q) /\ ~RequireTenant(q)
  <2>0. \/ ReadAgentRows(q) \/ CountAgent(q) \/ FetchAgent(q) \/ LookForAny(q) \/ ShowCard(q)
    BY <1>4, WhoSteps
  <2>1. pc[q] \notin Idle
    BY <2>0 DEF ReadAgentRows, CountAgent, FetchAgent, LookForAny, ShowCard, Idle
  <2>2. ASSUME NEW stage, NEW v, Reads(q, stage, v),
               \/ stage \in {"count", "fetch"}
               \/ stage \in {"ever", "card"} /\ Shows(q, v.items)
        PROVE  Gathered(q)' /\ Answered(q)'
    <3>1. pc'[q] = stage /\ txn'[q].read = v /\ reply'[q].status # 200
      BY <2>1, <2>2, ReadsOn
    <3>2. PICK b : b = v.items
      OBVIOUS
    <3>3. stage \in {"ever", "card"} => Shows(q, b)'
      BY <1>2, <2>2, <3>2
    <3>4. Gathered(q)'
      BY <1>1, <2>2, <3>1, <3>2, <3>3 DEF Gathered, Shows
    <3> QED
      BY <3>1, <3>4 DEF Answered, Ended
  <2>3. ASSUME NEW r, Answers(q, r), r.status # 200
        PROVE  Gathered(q)' /\ Answered(q)'
    <3>1. pc'[q] = "closed" /\ reply'[q].status # 200
      BY <1>1, <2>3, AnswersMoves
    <3> QED
      BY <3>1, NothingShown DEF Answered, Ended
  <2>4. CASE ReadAgentRows(q)
    <3>1. CASE Answers(q, [status |-> 400])
      BY <2>3, <3>1
    <3>2. CASE \E range, rows : Reads(q, "count", [range |-> range, rows |-> rows])
      BY <2>2, <3>2
    <3> QED
      BY <2>4, <3>1, <3>2 DEF ReadAgentRows
  <2>5. CASE CountAgent(q)
    BY <2>2, <2>5 DEF CountAgent
  <2>6. CASE FetchAgent(q)
    <3>1. PICK S : S = Fetched(Matching(txn[q].tenant, AgentFilter(q)))
      OBVIOUS
    <3>2. PICK stage, v : /\ Reads(q, stage, v) /\ stage \in {"ever", "card"}
                          /\ v.items = S
      BY <2>6, <3>1 DEF FetchAgent, First
    <3>3. Shows(q, S)
      BY <1>1, <2>1, <3>1, MatchingIsMine DEF Shows, Fetched, Slice
    <3> QED
      BY <2>2, <3>2, <3>3
  <2>7. CASE LookForAny(q)
    <3>1. PICK v : v = txn[q].read
      OBVIOUS
    <3>2. Answers(q, [status |-> 404]) \/ Reads(q, "card", v)
      BY <2>7, <3>1 DEF LookForAny
    <3>3. Shows(q, v.items)
      BY <1>1, <2>7, <3>1 DEF LookForAny, Gathered
    <3> QED
      BY <2>2, <2>3, <3>2, <3>3
  <2>8. CASE ShowCard(q)
    <3>1. PICK items : items = txn[q].read.items
      OBVIOUS
    <3>2. PICK r : Answers(q, r) /\ r.items = items
      BY <2>8, <3>1 DEF ShowCard
    <3>3. Shows(q, items)
      BY <1>1, <2>8, <3>1 DEF ShowCard, Gathered
    <3>4. pc'[q] = "closed" /\ reply'[q] = r
      BY <1>1, <3>2, AnswersMoves
    <3>5. Shows(q, items)'
      BY <1>2, <3>3
    <3> QED
      BY <1>1, <3>2, <3>4, <3>5, NothingShown DEF Answered, Shows
  <2> QED
    BY <2>0, <2>4, <2>5, <2>6, <2>7, <2>8
<1> QED
  BY <1>3, <1>4

(* Every step keeps what may be shown within the tenant.                   *)
LEMMA ShownNext ==
  GateInv /\ PlaceInv /\ AccessInv /\ ShownInv /\ [Next]_vars => ShownInv'
<1> SUFFICES ASSUME GateInv, PlaceInv, AccessInv, ShownInv, [Next]_vars
             PROVE  ShownInv'
  OBVIOUS
<1>1. ASSUME NEW q \in Requests, Step(q) \/ CommitRefused(q)
      PROVE  ShownInv'
  <2>1. /\ call' = call /\ Place(q)'
        /\ \A p \in Requests \ {q} : pc'[p] = pc[p] /\ txn'[p] = txn[p] /\ reply'[p] = reply[p]
        /\ \A p \in Requests : Op(p)' = Op(p)
        /\ page' = [page EXCEPT ![q] = page'[q]] /\ page = [p \in Requests |-> page[p]]
    <3>1. Turn(q) /\ Place(q)'
      BY <1>1, StepTurn
    <3> QED
      BY <1>1, <3>1, OthersStay, PageMoves DEF Turn, PlaceInv
  <2>2. \A p \in Requests : /\ \A id \in Mine(p) : id \in Mine(p)'
                            /\ \A S : Shows(p, S) => Shows(p, S)'
    BY <1>1, MineStays
  <2>3. Op(q) # "list" => page' = page
    BY <1>1, WhoWrites DEF CountResults, ListPage, ListUnderNode
  <2>4. ASSUME NEW p \in Requests \ {q}, Op(p) \in DataOps
        PROVE  Gathered(p)' /\ Answered(p)'
    <3>1. Gathered(p) /\ Answered(p)
      BY <2>4 DEF ShownInv
    <3>2. \A S : Shows(p, S) => Shows(p, S)'
      BY <2>2
    <3>3. PICK r, a : r = txn[p].read /\ a = reply[p]
      OBVIOUS
    <3>4. PICK first, items, prev : first = r.first /\ items = r.items /\ prev = r.prev
      OBVIOUS
    <3>5. PICK now, before : now = a.items /\ before = a.prev
      OBVIOUS
    <3>6. Gathered(p)'
      <4>1. /\ pc[p] \in {"rows", "items", "previous"} => Shows(p, first)'
            /\ pc[p] \in {"before", "previous", "map", "ever", "card"} => Shows(p, items)'
            /\ pc[p] = "map" => Shows(p, prev)'
        BY <3>1, <3>2, <3>3, <3>4 DEF Gathered
      <4> QED
        BY <2>1, <2>2, <3>1, <3>3, <3>4, <4>1 DEF Gathered, Shows
    <3>7. Answered(p)'
      <4>1. Ended(p, 200) =>
               /\ Op(p) \in {"get", "summary", "scorecard"} => Shows(p, now)'
               /\ Op(p) = "summary" => Shows(p, before)'
        BY <3>1, <3>2, <3>3, <3>5 DEF Answered
      <4> QED
        BY <2>1, <2>2, <3>1, <3>3, <3>5, <4>1 DEF Answered, Ended, Shows
    <3> QED
      BY <3>6, <3>7
  <2>5. ASSUME Op(q) \in DataOps
        PROVE  Gathered(q)' /\ Answered(q)'
    <3>1. CASE CommitRefused(q)
      BY <3>1, AtTheDoor
    <3>2. CASE Step(q) /\ Op(q) = "score"
      <4>1. Gathered(q)'
        BY <2>1, <3>2 DEF Place, Fits, Gathered
      <4> QED
        BY <2>1, <3>2, <4>1 DEF Answered
    <3>3. CASE Step(q) /\ Op(q) # "score"
      BY <2>5, <3>3, ReviewShows, GetShows, ListShows, SummaryShows, CardShows DEF DataOps
    <3> QED
      BY <1>1, <3>1, <3>2, <3>3
  <2>6. \A p \in Requests : Op(p)' \in DataOps => Gathered(p)' /\ Answered(p)'
    BY <2>1, <2>4, <2>5
  <2>7. ASSUME NEW p \in Requests
        PROVE  IsPage(page[p])' /\ (Op(p) = "list" => page[p].got \subseteq Mine(p))'
    <3>1. IsPage(page[p]) /\ (Op(p) = "list" => page[p].got \subseteq Mine(p))
      BY DEF ShownInv
    <3>2. CASE p = q /\ Op(q) = "list"
      BY <1>1, <2>1, <3>2, ListShows
    <3>3. CASE ~(p = q /\ Op(q) = "list")
      <4>1. page'[p] = page[p]
        BY <2>1, <2>3, <3>3
      <4> QED
        BY <2>1, <2>2, <3>1, <4>1 DEF IsPage
    <3> QED
      BY <3>2, <3>3
  <2> QED
    BY <2>6, <2>7 DEF ShownInv
<1>2. CASE Rests
  <2>1. /\ pc' = pc /\ txn' = txn /\ reply' = reply /\ call' = call /\ page' = page
        /\ results' = results /\ keys' = keys
    BY <1>2 DEF Rests, Tick, Respond, vars, flow, tables, ambient
  <2>2. \A p \in Requests : Mine(p)' = Mine(p) /\ Op(p)' = Op(p)
    BY <2>1 DEF Mine, Op
  <2>3. \A p \in Requests : Gathered(p) /\ Answered(p) => Gathered(p)' /\ Answered(p)'
    BY <2>1, <2>2 DEF Gathered, Answered, Ended, Shows
  <2> QED
    BY <2>1, <2>2, <2>3 DEF ShownInv, IsPage
<1> QED
  BY <1>1, <1>2 DEF Next, Rests

(* At the start nothing has been shown.                                    *)
LEMMA ShownInit == Init => ShownInv
<1> SUFFICES ASSUME Init
             PROVE  ShownInv
  OBVIOUS
<1>1. /\ \A q \in Requests : pc[q] \in {"new", "closed"} /\ reply[q] = NoReply
      /\ page = [q \in Requests |-> [offset |-> 0, got |-> {}, base |-> {}]]
  BY DEF Init
<1> QED
  BY <1>1 DEF ShownInv, IsPage, Gathered, Answered, Ended, NoReply

(* Whatever a request is shown, and whatever it decides about, belongs to  *)
(* the tenant of its key.                                                  *)
THEOREM TenantTheorem == Spec => []AnswersStayInTenant
<1>1. Init => GateInv /\ PlaceInv /\ AccessInv /\ ShownInv
  BY GateInit, PlaceInit, AccessInit, ShownInit
<1>2. GateInv /\ PlaceInv /\ AccessInv /\ ShownInv /\ [Next]_vars
      => (GateInv /\ PlaceInv /\ AccessInv /\ ShownInv)'
  BY BothNext, AccessNext, ShownNext
<1>3. ShownInv => AnswersStayInTenant
  <2> SUFFICES ASSUME ShownInv, NEW q \in Requests, Op(q) \in DataOps, Ended(q, 200)
               PROVE  LET mine == {id \in DOMAIN results :
                                     results[id].tenant = keys[call[q].key].tenant}
                      IN  /\ Op(q) \in {"get", "summary", "scorecard"} =>
                                {r.id : r \in reply[q].items} \subseteq mine
                          /\ Op(q) = "summary" => {r.id : r \in reply[q].prev} \subseteq mine
                          /\ Op(q) = "list" => page[q].got \subseteq mine
                          /\ Op(q) = "review" => call[q].target \in mine
    BY DEF AnswersStayInTenant
  <2>1. \A id \in Mine(q) : id \in DOMAIN results /\ results[id].tenant = keys[call[q].key].tenant
    BY DEF Mine
  <2>2. Answered(q)
    BY DEF ShownInv
  <2>3. Op(q) = "list" => page[q].got \subseteq Mine(q)
    BY DEF ShownInv
  <2> QED
    BY <2>1, <2>2, <2>3 DEF Answered, Shows
<1> QED
  BY <1>1, <1>2, <1>3, PTL DEF Spec

(* ---- drilling down ----------------------------------------------------- *)

(* The rows a summary was grouped by are one order of the org map it read. *)
LEMMA GroupsAgree ==
  ASSUME NEW items, NEW rows, NEW field, field \notin {"none", "agent"},
         NEW g \in Groups(items, rows, field), g.node # Unmapped
  PROVE  g.items = UnderNode(items, rows, field, g.node)
<1>1. PICK key \in {GroupKey(rows, r, field) : r \in items} :
         g = [node  |-> GroupLabel(rows, key, field),
              agent |-> IF field = "agent" /\ key # Unmapped THEN key ELSE None,
              items |-> {r \in items : GroupKey(rows, r, field) = key}]
  BY DEF Groups
<1>2. g.node = key /\ g.items = {r \in items : NodeLabel(rows, r, field) = key}
  BY <1>1 DEF GroupLabel, GroupKey
<1>3. key # None
  BY <1>1, <1>2 DEF GroupKey, NodeLabel
<1>4. ASSUME NEW r \in items
      PROVE  NodeLabel(rows, r, field) = key <=> NodeMatch(rows, r.rep, r.at.day, field, key)
  BY <1>2, <1>3 DEF NodeLabel, NodeMatch
<1> QED
  BY <1>2, <1>4 DEF UnderNode

(* Every step leaves the answered totals in agreement with their lists.    *)
LEMMA DrillNext == PlaceInv /\ DrillDownAgrees /\ [Next]_vars => DrillDownAgrees'
<1> SUFFICES ASSUME PlaceInv, DrillDownAgrees, [Next]_vars
             PROVE  DrillDownAgrees'
  OBVIOUS
<1>1. ASSUME NEW q \in Requests, Step(q) \/ CommitRefused(q)
      PROVE  DrillDownAgrees'
  <2>1. /\ call' = call /\ Shape /\ reply[q].status # 200
        /\ \A p \in Requests \ {q} : reply'[p] = reply[p]
    <3>1. Turn(q)
      BY <1>1, StepTurn
    <3> QED
      BY <3>1, OthersStay DEF Turn, PlaceInv, Place, NoReply
  <2>2. ASSUME Op(q) = "summary", reply'[q].status = 200, call[q].field \notin {"none", "agent"}
        PROVE  \E rows \in RowLists(reply'[q].org) : \A g \in reply'[q].body.groups :
                  g.node # Unmapped =>
                     g.items = UnderNode(reply'[q].items, rows, call[q].field, g.node)
    <3>1. ASSUME NEW stage, NEW t, Goes(q, stage, t)
          PROVE  FALSE
      BY <2>1, <2>2, <3>1, GoesMoves
    <3>2. ASSUME NEW r, r.status # 200, Answers(q, r)
          PROVE  FALSE
      BY <2>1, <2>2, <3>2, AnswersMoves
    <3>3. ReadMap(q)
      <4>1. ~RequireTenant(q) /\ ~CommitRefused(q)
        <5>1. ~Answers(q, [status |-> 401]) /\ ~Answers(q, [status |-> 500])
          BY <3>2
        <5> QED
          BY <3>1, <5>1 DEF RequireTenant, CommitRefused
      <4>2. ~Arrive(q)
        <5>1. ASSUME Arrive(q)
              PROVE  \/ \E a : Answers(q, [status |-> 429, retry |-> a.retry])
                     \/ Answers(q, [status |-> 413])
                     \/ Goes(q, "admitted", NoTxn)
          BY <5>1, Arrives
        <5>2. \A a : ~Answers(q, [status |-> 429, retry |-> a.retry])
          BY <3>2
        <5>3. ~Answers(q, [status |-> 413]) /\ ~Goes(q, "admitted", NoTxn)
          BY <3>1, <3>2
        <5> QED
          BY <5>1, <5>2, <5>3
      <4>3. ~CountItems(q) /\ ~FetchItems(q) /\ ~CountPrevious(q) /\ ~FetchPrevious(q)
        <5>1. ~Answers(q, [status |-> 400])
          BY <3>2
        <5> QED
          BY <3>1, <5>1 DEF CountItems, FetchItems, CountPrevious, FetchPrevious, Reads
      <4> QED
        BY <1>1, <2>2, <4>1, <4>2, <4>3, WhoSteps
    <3>4. PICK items, field, org : items = txn[q].read.items /\ field = call[q].field
                                   /\ org = OrgRows(txn[q].tenant)
      OBVIOUS
    <3>5. PICK rows \in RowLists(org) : \E r :
             /\ Answers(q, r) /\ r.org = org /\ r.items = items
             /\ r.body.groups = Groups(items, rows, field)
      BY <2>2, <3>3, <3>4 DEF ReadMap, AggregateRange
    <3>6. /\ reply'[q].org = org /\ reply'[q].items = items
          /\ reply'[q].body.groups = Groups(items, rows, field)
      BY <2>1, <3>5, AnswersMoves
    <3>7. \A g \in Groups(items, rows, field) :
             g.node # Unmapped => g.items = UnderNode(items, rows, field, g.node)
      BY <2>2, <3>4, GroupsAgree
    <3> QED
      BY <3>4, <3>6, <3>7
  <2>3. ASSUME NEW p \in Requests, Op(p) = "summary", reply'[p].status = 200,
               call[p].field \notin {"none", "agent"}
        PROVE  \E rows \in RowLists(reply'[p].org) : \A g \in reply'[p].body.groups :
                  g.node # Unmapped =>
                     g.items = UnderNode(reply'[p].items, rows, call[p].field, g.node)
    <3>1. CASE p = q
      BY <2>2, <2>3, <3>1
    <3>2. CASE p # q
      <4>1. reply'[p] = reply[p]
        BY <2>1, <3>2
      <4> QED
        BY <2>3, <4>1 DEF DrillDownAgrees, Ended
    <3> QED
      BY <3>1, <3>2
  <2> QED
    BY <2>1, <2>3 DEF DrillDownAgrees, Ended, Op, UnderNode
<1>2. CASE Rests
  <2>1. reply' = reply /\ call' = call
    BY <1>2 DEF Rests, Tick, Respond, vars, flow, ambient
  <2> QED
    BY <2>1 DEF DrillDownAgrees, Ended, Op, UnderNode
<1> QED
  BY <1>1, <1>2 DEF Next, Rests

(* A group of a summary is what listing its node would return, under one   *)
(* order of the org map the summary read.                                  *)
THEOREM DrillTheorem == Spec => []DrillDownAgrees
<1>1. Init => GateInv /\ PlaceInv /\ DrillDownAgrees
  <2>1. Init => DrillDownAgrees
    BY DEF Init, DrillDownAgrees, Ended, NoReply
  <2> QED
    BY <2>1, GateInit, PlaceInit
<1>2. GateInv /\ PlaceInv /\ DrillDownAgrees /\ [Next]_vars
      => (GateInv /\ PlaceInv /\ DrillDownAgrees)'
  BY BothNext, DrillNext
<1> QED
  BY <1>1, <1>2, PTL DEF Spec

(* ---- pages of a list --------------------------------------------------- *)

(* The oldest and the newest of some rows.                                 *)
LEMMA OldestAndNewest ==
  ASSUME NEW T, IsFiniteSet(T), T # {}, \A r \in T : r.at.n \in Int
  PROVE  /\ \E r \in T : \A s \in T : r.at.n <= s.at.n
         /\ \E r \in T : \A s \in T : s.at.n <= r.at.n
<1>1. PICK f, g : f = [r \in T |-> r.at.n] /\ g = [r \in T |-> 0 - r.at.n]
  OBVIOUS
<1>2. IsFiniteSet({f[r] : r \in T}) /\ IsFiniteSet({g[r] : r \in T})
  BY FiniteImage
<1>3. {f[r] : r \in T} \in SUBSET Int /\ {g[r] : r \in T} \in SUBSET Int
  BY <1>1
<1>4. PICK m \in {f[r] : r \in T} : \A n \in {f[r] : r \in T} : m <= n
  <2>1. PICK F : F = {f[r] : r \in T}
    OBVIOUS
  <2>2. IsFiniteSet(F) /\ F \in SUBSET Int /\ F # {}
    BY <1>2, <1>3, <2>1
  <2>3. PICK m \in F : \A n \in F : m <= n
    BY <2>2, FiniteLeast
  <2> QED
    BY <2>1, <2>3
<1>5. PICK h \in {g[r] : r \in T} : \A n \in {g[r] : r \in T} : h <= n
  <2>1. PICK G : G = {g[r] : r \in T}
    OBVIOUS
  <2>2. IsFiniteSet(G) /\ G \in SUBSET Int /\ G # {}
    BY <1>2, <1>3, <2>1
  <2>3. PICK h \in G : \A n \in G : h <= n
    BY <2>2, FiniteLeast
  <2> QED
    BY <2>1, <2>3
<1>6. PICK r \in T : m = f[r]
  BY <1>4
<1>7. PICK s \in T : h = g[s]
  BY <1>5
<1>8. \A t \in T : f[t] = t.at.n /\ g[t] = 0 - t.at.n
  BY <1>1
<1>9. \A t \in T : r.at.n <= t.at.n
  BY <1>4, <1>6, <1>8
<1>10. ASSUME NEW t \in T
       PROVE  t.at.n <= s.at.n
  <2>1. g[s] <= g[t]
    BY <1>5, <1>7
  <2> QED
    BY <1>8, <2>1
<1> QED
  BY <1>9, <1>10

(* Rows with stamps of their own: if one of them comes after the page, the *)
(* page is full.                                                           *)
LEMMA FullPage ==
  ASSUME NEW S, IsFiniteSet(S), \A r \in S : r.at.n \in Int,
         \A r, s \in S : r.at.n = s.at.n => r = s,
         NEW k \in Nat, NEW m \in Nat,
         NEW last \in S, Cardinality(Newer(S, last)) >= k + m
  PROVE  Cardinality(Slice(S, k, m)) >= m
<1>1. \A r \in S : /\ IsFiniteSet(Newer(S, r)) /\ Cardinality(Newer(S, r)) \in Nat
                   /\ Newer(S, r) \subseteq S
  BY FS_Subset, FS_CardinalityType DEF Newer
<1> DEFINE Low(j) == {r \in S : Cardinality(Newer(S, r)) < j}
<1>2. ASSUME NEW j \in Nat
      PROVE  IsFiniteSet(Low(j)) /\ Cardinality(Low(j)) \in Nat
  BY FS_Subset, FS_CardinalityType
<1>3. ASSUME NEW j \in Nat
      PROVE  Cardinality(Low(j)) <= j
  <2>1. CASE Low(j) = {}
    <3>1. Cardinality(Low(j)) = 0
      BY <2>1, FS_EmptySet
    <3> QED
      BY <3>1
  <2>2. CASE Low(j) # {}
    <3>1. PICK r \in Low(j) : \A s \in Low(j) : r.at.n <= s.at.n
      BY <1>2, <2>2, OldestAndNewest
    <3>2. r \in S /\ Cardinality(Newer(S, r)) < j
      OBVIOUS
    <3>3. Low(j) \ {r} \in SUBSET Newer(S, r)
      <4>1. ASSUME NEW s \in Low(j), s # r
            PROVE  s \in Newer(S, r)
        BY <3>1, <4>1 DEF Newer
      <4> QED
        BY <4>1
    <3>4. Cardinality(Low(j) \ {r}) <= Cardinality(Newer(S, r))
      BY <1>1, <3>2, <3>3, FS_Subset
    <3>5. Cardinality(Low(j) \ {r}) = Cardinality(Low(j)) - 1
      BY <1>2, <3>1, FS_RemoveElement
    <3>6. PICK a, b : a = Cardinality(Low(j)) /\ b = Cardinality(Newer(S, r))
      OBVIOUS
    <3>7. a \in Nat /\ b \in Nat /\ b < j /\ a - 1 <= b
      BY <1>1, <1>2, <3>2, <3>4, <3>5, <3>6
    <3> QED
      BY <3>6, <3>7
  <2> QED
    BY <2>1, <2>2
<1>4. Cardinality(Low(k + m)) >= k + m
  <2> DEFINE High == {r \in S : Cardinality(Newer(S, r)) >= k + m}
  <2>1. IsFiniteSet(High) /\ last \in High
    BY FS_Subset
  <2>2. PICK r \in High : \A s \in High : s.at.n <= r.at.n
    BY <2>1, OldestAndNewest
  <2>3. r \in S /\ Cardinality(Newer(S, r)) >= k + m
    OBVIOUS
  <2>4. Newer(S, r) \in SUBSET Low(k + m)
    <3>1. ASSUME NEW s \in Newer(S, r)
          PROVE  s \in Low(k + m)
      <4>1. s \in S /\ s.at.n > r.at.n
        BY DEF Newer
      <4>2. s \notin High
        BY <2>2, <2>3, <4>1
      <4> QED
        BY <1>1, <4>1, <4>2
    <3> QED
      BY <3>1
  <2>5. Cardinality(Newer(S, r)) <= Cardinality(Low(k + m))
    BY <1>2, <2>4, FS_Subset
  <2> QED
    BY <1>1, <1>2, <2>3, <2>5
<1>5. Slice(S, k, m) = Low(k + m) \ Low(k)
  BY <1>1 DEF Slice
<1>6. Low(k) \in SUBSET Low(k + m)
  BY <1>1
<1>7. /\ IsFiniteSet(Slice(S, k, m)) /\ Cardinality(Slice(S, k, m)) \in Nat
      /\ Low(k + m) = Slice(S, k, m) \cup Low(k)
      /\ Slice(S, k, m) \cap Low(k) = {}
  <2>1. Slice(S, k, m) \in SUBSET S
    BY DEF Slice
  <2> QED
    BY <1>5, <1>6, <2>1, FS_Subset, FS_CardinalityType
<1> HIDE DEF Low
<1>8. Cardinality(Low(k + m)) = Cardinality(Slice(S, k, m)) + Cardinality(Low(k))
  <2>1. PICK A, B : A = Slice(S, k, m) /\ B = Low(k)
    OBVIOUS
  <2>2. IsFiniteSet(A) /\ IsFiniteSet(B) /\ A \cap B = {}
    BY <1>2, <1>7, <2>1
  <2>3. Cardinality(A \cup B) = Cardinality(A) + Cardinality(B) - Cardinality({})
    BY <2>2, FS_Union
  <2>4. Cardinality(A) \in Nat /\ Cardinality(B) \in Nat /\ Cardinality({}) = 0
    BY <2>2, FS_CardinalityType, FS_EmptySet
  <2>5. A \cup B = Low(k + m)
    BY <1>7, <2>1
  <2>6. PICK a, b, c : a = Cardinality(A) /\ b = Cardinality(B) /\ c = Cardinality(A \cup B)
    OBVIOUS
  <2>7. a \in Nat /\ b \in Nat /\ c = a + b
    BY <2>3, <2>4, <2>6
  <2> QED
    BY <2>1, <2>5, <2>6, <2>7
<1>9. PICK a, b, c : /\ a = Cardinality(Slice(S, k, m)) /\ b = Cardinality(Low(k))
                     /\ c = Cardinality(Low(k + m))
  OBVIOUS
<1>10. a \in Nat /\ b \in Nat /\ c = a + b /\ b <= k /\ c >= k + m
  BY <1>2, <1>3, <1>4, <1>7, <1>8, <1>9
<1> QED
  BY <1>9, <1>10

(* Transactions are numbered as they begin, and each result keeps the      *)
(* number of the transaction that recorded it.                             *)
StampInv ==
    /\ clock.tick \in 0..LastTick
    /\ IsFiniteSet(DOMAIN results)
    /\ \A id \in DOMAIN results :
          /\ results[id].at.n \in Int /\ results[id].at.n <= clock.serial
          /\ results[id].at.day \in Int
    /\ \A id, o \in DOMAIN results : results[id].at.n = results[o].at.n => id = o
    /\ \A q \in Requests : pc[q] \notin Idle =>
          /\ txn[q].at.day \in Int
          /\ \A id \in DOMAIN results : results[id].at.n # txn[q].at.n
          /\ \A p \in Requests : pc[p] \notin Idle /\ txn[p].at.n = txn[q].at.n => p = q

(* The day, which never goes back.                                         *)
LEMMA Days ==
  ASSUME NEW t \in Nat, NEW u \in Nat, t <= u
  PROVE  /\ t \div DayLength \in Nat /\ u \div DayLength \in Nat
         /\ t \div DayLength <= u \div DayLength
<1>1. PICK d : d = DayLength
  OBVIOUS
<1>2. d \in Nat /\ d > 0
  BY <1>1, ClockAssumption
<1>3. PICK a, b : a = t \div d /\ b = u \div d
  OBVIOUS
<1>4. a \in Nat /\ b \in Nat /\ a * d <= u /\ u < b * d + d
  BY <1>2, <1>3, Quotient
<1>5. a * d < (b + 1) * d
  BY <1>2, <1>4, Times
<1>6. a < b + 1
  BY <1>2, <1>4, <1>5, Times
<1> QED
  BY <1>1, <1>3, <1>4, <1>6

(* What begins a transaction takes the next number.                        *)
LEMMA Begins ==
  ASSUME PlaceInv, NEW q \in Requests, Step(q), pc[q] \in Idle, pc'[q] \notin Idle
  PROVE  NextSerial /\ txn'[q].at = Stamp
<1>1. Shape
  BY DEF PlaceInv
<1>2. ASSUME NEW r, Answers(q, r)
      PROVE  FALSE
  BY <1>1, <1>2, AnswersMoves DEF Idle
<1>3. ASSUME NEW stage, NEW tenant, Goes(q, stage, Began(tenant))
      PROVE  txn'[q].at = Stamp
  BY <1>1, <1>3, GoesMoves DEF Began
<1>4. ASSUME NEW stage, NEW tenant, NEW v, Goes(q, stage, [Began(tenant) EXCEPT !.write = v])
      PROVE  txn'[q].at = Stamp
  <2>1. txn'[q] = [Began(tenant) EXCEPT !.write = v]
    BY <1>1, <1>4, GoesMoves
  <2> QED
    BY <2>1 DEF Began
<1>5. ASSUME NEW stage, NEW tenant, NEW v, Goes(q, stage, [Began(tenant) EXCEPT !.read = v])
      PROVE  txn'[q].at = Stamp
  <2>1. txn'[q] = [Began(tenant) EXCEPT !.read = v]
    BY <1>1, <1>5, GoesMoves
  <2> QED
    BY <2>1 DEF Began
<1>6. CASE ApiStep(q)
  <2>1. ~Arrive(q)
    BY <1>1, <1>2, GoesMoves DEF Arrive, Idle
  <2>2. RequireTenant(q) \/ MintKey(q) \/ RevokeKey(q) \/ LookUpTenant(q)
    BY <1>6, <2>1 DEF ApiStep, InsertTenant, UpdateTenant, CommitKey, CommitTenant, Idle
  <2>3. CASE RequireTenant(q)
    BY <1>2, <1>3, <1>4, <1>5, <2>3 DEF RequireTenant
  <2>4. CASE MintKey(q) \/ RevokeKey(q)
    BY <1>2, <1>3, <1>4, <1>5, <2>4 DEF MintKey, RevokeKey
  <2>5. CASE LookUpTenant(q)
    BY <1>2, <1>3, <1>4, <1>5, <2>5 DEF LookUpTenant
  <2> QED
    BY <2>2, <2>3, <2>4, <2>5
<1>7. CASE ScoreStep(q)
  <2>1. StartRow(q)
    BY <1>7 DEF ScoreStep, StartScore, LookForDuplicate, ModelAnswers, ModelFails, CommitScore,
                Idle
  <2> QED
    BY <1>2, <1>3, <2>1 DEF StartRow, TakesPlace
<1>8. CASE RecordStep(q)
  <2>1. StartUpload(q) \/ ReadStatusRows(q)
    BY <1>8 DEF RecordStep, LoadForReview, WriteReview, CommitReview, GetResult, CountResults,
                ListPage, ListUnderNode, StartDelete, DeleteAndInsert, PreviewUpload,
                CommitUpload, ReadStatusReps, Idle
  <2>2. CASE StartUpload(q)
    BY <1>2, <1>5, <2>2 DEF StartUpload
  <2>3. CASE ReadStatusRows(q)
    BY <1>2, <1>5, <2>3 DEF ReadStatusRows
  <2> QED
    BY <2>1, <2>2, <2>3
<1>9. ~ReportStep(q)
  BY DEF ReportStep, CountItems, FetchItems, CountPrevious, FetchPrevious, ReadMap,
         ReadAgentRows, CountAgent, FetchAgent, LookForAny, ShowCard, Idle
<1> QED
  BY <1>6, <1>7, <1>8, <1>9 DEF Step

(* So no two transactions, and no two results, share a number.             *)
LEMMA StampNext == GateInv /\ PlaceInv /\ StampInv /\ [Next]_vars => StampInv'
<1> SUFFICES ASSUME GateInv, PlaceInv, StampInv, [Next]_vars
             PROVE  StampInv'
  OBVIOUS
<1>1. ASSUME NEW q \in Requests, Step(q) \/ CommitRefused(q)
      PROVE  StampInv'
  <2>1. /\ Turn(q) /\ Place(q)' /\ Place(q) /\ Shape
        /\ clock.serial \in Int /\ clock'.serial \in Int /\ clock.serial <= clock'.serial
        /\ \A p \in Requests \ {q} : pc'[p] = pc[p] /\ txn'[p] = txn[p]
    <3>1. Turn(q) /\ Place(q)'
      BY <1>1, StepTurn
    <3> QED
      BY <1>1, <3>1, OthersStay DEF PlaceInv
  <2>2. clock'.tick = clock.tick
    BY <2>1 DEF Turn, NextSerial, Shape
  <2>3. \A id \in DOMAIN results : id \in DOMAIN results' /\ results'[id].at = results[id].at
    BY <1>1, RowsStay DEF SameVerdict
  <2>4. \A p \in Requests : pc[p] \notin Idle =>
           txn[p].at.n \in Int /\ txn[p].at.n <= clock.serial /\ pc[p] # "closed"
    BY DEF PlaceInv, Place, Begun, Idle
  <2>5. ASSUME NEW id \in DOMAIN results', id \notin DOMAIN results
        PROVE  id = q /\ pc[q] \notin Idle /\ pc'[q] \in Idle /\ results'[q].at = txn[q].at
    <3>1. CommitScore(q) /\ id = q /\ results'[q] = txn[q].write
      BY <1>1, <2>5, RowsStay
    <3>2. pc[q] = "exit" /\ IsScoring(q)
      BY <3>1 DEF CommitScore
    <3>3. txn[q].write.at = txn[q].at
      BY <3>2 DEF GateInv, Flow
    <3>4. pc'[q] = "closed"
      BY <2>1, <3>1, AnswersMoves DEF CommitScore
    <3> QED
      BY <3>1, <3>2, <3>3, <3>4 DEF Idle
  <2>6. IsFiniteSet(DOMAIN results')
    <3>1. DOMAIN results' \in SUBSET (DOMAIN results \cup {q})
      BY <2>5
    <3>2. IsFiniteSet(DOMAIN results \cup {q})
      BY FS_AddElement DEF StampInv
    <3> QED
      BY <3>1, <3>2, FS_Subset
  <2>7. \A id \in DOMAIN results' :
           /\ results'[id].at.n \in Int /\ results'[id].at.n <= clock'.serial
           /\ results'[id].at.day \in Int
    BY <2>1, <2>3, <2>4, <2>5 DEF StampInv
  <2>8. \A id, o \in DOMAIN results' : results'[id].at.n = results'[o].at.n => id = o
    BY <2>3, <2>5 DEF StampInv
  <2>9. CASE pc'[q] \in Idle
    <3>1. ASSUME NEW p \in Requests, pc'[p] \notin Idle
          PROVE  /\ pc[p] \notin Idle /\ txn'[p] = txn[p] /\ p # q
    BY <2>1, <2>9, <3>1
    <3>2. \A p \in Requests : pc'[p] \notin Idle =>
            \A id \in DOMAIN results' : results'[id].at.n # txn'[p].at.n
      BY <2>3, <2>5, <3>1 DEF StampInv
    <3> QED
      BY <2>2, <2>6, <2>7, <2>8, <3>1, <3>2 DEF StampInv
  <2>10. CASE pc'[q] \notin Idle
    <3>1. results' = results /\ Step(q)
      <4>1. ASSUME NEW r, Answers(q, r)
            PROVE  FALSE
        BY <2>1, <2>10, <4>1, AnswersMoves DEF Idle
      <4>2. CASE CommitScore(q)
        BY <4>1, <4>2 DEF CommitScore
      <4>3. CASE CommitReview(q)
        BY <4>1, <4>3 DEF CommitReview
      <4>4. CASE CommitRefused(q)
        BY <4>1, <4>4 DEF CommitRefused
      <4> QED
        BY <1>1, <4>2, <4>3, <4>4, WhoWrites
    <3>2. CASE pc[q] \notin Idle
      <4>1. txn'[q].at = txn[q].at
        BY <2>10, <3>1, <3>2, SameTxn
      <4>2. \A p \in Requests : pc'[p] \notin Idle => pc[p] \notin Idle /\ txn'[p].at = txn[p].at
        BY <2>1, <3>2, <4>1
      <4> QED
        BY <2>2, <2>6, <2>7, <2>8, <3>1, <4>2 DEF StampInv
    <3>3. CASE pc[q] \in Idle
      <4>1. NextSerial /\ txn'[q].at = Stamp
        BY <2>10, <3>1, <3>3, Begins
      <4>2. Today \in Int
        BY <2>2, Days, ClockAssumption DEF StampInv, Today
      <4>3. txn'[q].at.n = clock.serial + 1 /\ txn'[q].at.day \in Int
        BY <4>1, <4>2 DEF Stamp
      <4>4. \A p \in Requests \ {q} : pc'[p] \notin Idle =>
               /\ pc[p] \notin Idle /\ txn'[p] = txn[p]
               /\ txn[p].at.n \in Int /\ txn[p].at.n <= clock.serial
        BY <2>1, <2>4
      <4>5. \A id \in DOMAIN results : results[id].at.n # txn'[q].at.n
        BY <2>1, <4>3 DEF StampInv
      <4>6. ASSUME NEW p \in Requests, pc'[p] \notin Idle
            PROVE  /\ txn'[p].at.day \in Int
                   /\ \A id \in DOMAIN results' : results'[id].at.n # txn'[p].at.n
        BY <3>1, <4>3, <4>4, <4>5, <4>6 DEF StampInv
      <4>7. ASSUME NEW p \in Requests, NEW o \in Requests, pc'[p] \notin Idle, pc'[o] \notin Idle,
                   txn'[p].at.n = txn'[o].at.n
            PROVE  p = o
        BY <2>1, <4>3, <4>4, <4>7 DEF StampInv
      <4> QED
        BY <2>2, <2>6, <2>7, <2>8, <4>6, <4>7 DEF StampInv
    <3> QED
      BY <3>2, <3>3
  <2> QED
    BY <2>9, <2>10
<1>2. CASE Rests
  <2>1. /\ pc' = pc /\ txn' = txn /\ results' = results
        /\ clock'.serial = clock.serial /\ clock'.tick \in 0..LastTick
    BY <1>2, ClockAssumption DEF Rests, Tick, Respond, vars, flow, tables, ambient, PlaceInv, Shape, StampInv
  <2> QED
    BY <2>1 DEF StampInv
<1> QED
  BY <1>1, <1>2 DEF Next, Rests

(* The seeded rows carry stamps of the past, no two the same.              *)
LEMMA StampInit == Init => StampInv
<1> SUFFICES ASSUME Init
             PROVE  StampInv
  OBVIOUS
<1>1. results = Seeds.results /\ clock.serial = Seeds.serial /\ clock.tick = FirstTick
  BY DEF Init
<1>2. \A q \in Requests : pc[q] \in Idle
  BY DEF Init, Idle
<1>3. IsFiniteSet(DOMAIN results) /\ Seeds.serial \in Nat
  BY <1>1, SeedsAssumption
<1>4. \A id \in DOMAIN results : results[id].at.n \in 1..Seeds.serial /\ results[id].at.day \in Int
  BY <1>1, SeedsAssumption
<1>5. \A id, o \in DOMAIN results : results[id].at.n = results[o].at.n => id = o
  BY <1>1, SeedsAssumption
<1> QED
  BY <1>1, <1>2, <1>3, <1>4, <1>5, ClockAssumption DEF StampInv

(* ---- what a paging client has yet to see ------------------------------- *)

(* The WHERE clause of a list that does not ask for a review status.       *)
Where(r, tenant, f) ==
    /\ r.tenant = tenant
    /\ f.band # None => r.band = f.band
    /\ f.reason # None => r.code = f.reason
    /\ f.rep # None => r.rep = NormalizeId(f.rep)
    /\ f.range # None => InRange(r, f.range)

PageDays == 0..LastDay

(* list_results' filter on day d.                                          *)
FilterOn(c, d) ==
    IF c.from = None /\ c.to = None THEN c.filter
    ELSE [c.filter EXCEPT !.range = ResolveRange(c.from, c.to, d)]

(* The listings PagingMissesNothing is about.                              *)
Lists(q) == Op(q) = "list" /\ ~AtNode(call[q]) /\ call[q].filter.review = None

Asked(q) == IF pc[q] = "rows" THEN txn[q].read.filter ELSE ListFilter(call[q])

(* The results that come before one with number n.                         *)
Ahead(tenant, f, n) ==
    {id \in DOMAIN results : Where(results[id], tenant, f) /\ results[id].at.n > n}

(* A result of the first page's day is still listed, and the client has    *)
(* seen it or has yet to come to it.                                       *)
Wanted(q, b) ==
    LET tenant == keys[call[q].key].tenant IN
    /\ call[q].key \in DOMAIN keys
    /\ b.id \in DOMAIN results /\ Where(results[b.id], tenant, Asked(q))
    /\ \/ b.id \in page[q].got
       \/ Cardinality(Ahead(tenant, Asked(q), results[b.id].at.n)) >= page[q].offset

Reader(q) ==
    /\ page[q].offset \in Nat
    /\ pc[q] = "rows" => \E d \in PageDays : d <= Today /\ txn[q].read.filter = FilterOn(call[q], d)
    /\ pc[q] # "closed" => \A b \in page[q].base : Wanted(q, b)
    /\ Ended(q, 200) => {b.id : b \in page[q].base} \subseteq page[q].got

PageInv == \A q \in Requests : Lists(q) => Reader(q)

(* What matches a filter, in terms of the results' ids.                    *)
LEMMA MatchingIsWhere ==
  ASSUME NEW tenant, NEW f, f.review = None
  PROVE  Matching(tenant, f) = {r \in {results[id] : id \in DOMAIN results} : Where(r, tenant, f)}
<1>1. None # "pending"
  BY PlansAssumption
<1> QED
  BY <1>1 DEF Matching, Where

(* A filter that asked for a review status would still ask for it.         *)
LEMMA FilterParts ==
  ASSUME NEW q \in Requests, call \in Plans, Lists(q), NEW d
  PROVE  LET f == FilterOn(call[q], d) IN
         /\ f.review = None /\ f.band = call[q].filter.band /\ f.reason = call[q].filter.reason
         /\ f.rep = call[q].filter.rep
         /\ f.range = IF call[q].from = None /\ call[q].to = None THEN call[q].filter.range
                      ELSE ResolveRange(call[q].from, call[q].to, d)
<1>1. PICK g : g = call[q].filter
  OBVIOUS
<1>2. g = [band |-> g.band, reason |-> g.reason, rep |-> g.rep, review |-> g.review,
           range |-> g.range]
  BY <1>1, PlansAssumption DEF Lists, Op
<1>3. PICK x : x = ResolveRange(call[q].from, call[q].to, d)
  OBVIOUS
<1>4. [g EXCEPT !.range = x] = [band |-> g.band, reason |-> g.reason, rep |-> g.rep,
                                review |-> g.review, range |-> x]
  BY <1>2
<1> QED
  BY <1>1, <1>3, <1>4 DEF FilterOn, Lists

(* A later day's filter lets through whatever an earlier day's did.        *)
LEMMA Widens ==
  ASSUME NEW q \in Requests, call \in Plans, Lists(q), NEW d \in PageDays, NEW e \in Int, d <= e,
         NEW r, r.at.day \in Int, NEW tenant, Where(r, tenant, FilterOn(call[q], d))
  PROVE  Where(r, tenant, FilterOn(call[q], e))
<1>1. PICK c, f, g : c = call[q] /\ f = FilterOn(c, d) /\ g = FilterOn(c, e)
  OBVIOUS
<1>2. /\ g.band = f.band /\ g.reason = f.reason /\ g.rep = f.rep
      /\ f.range = IF c.from = None /\ c.to = None THEN c.filter.range
                   ELSE ResolveRange(c.from, c.to, d)
      /\ g.range = IF c.from = None /\ c.to = None THEN c.filter.range
                   ELSE ResolveRange(c.from, c.to, e)
  BY <1>1, FilterParts
<1>3. CASE c.from = None /\ c.to = None
  BY <1>1, <1>2, <1>3 DEF Where
<1>4. CASE ~(c.from = None /\ c.to = None)
  <2>1. f.range = ResolveRange(c.from, c.to, d) /\ g.range = ResolveRange(c.from, c.to, e)
    BY <1>2, <1>4
  <2>2. StartDay(c.from, c.to, d) = StartDay(c.from, c.to, e)
    BY <1>4 DEF StartDay, EndDay
  <2>3. f.range # None
    <3>1. c.op = "list" /\ d \in 0..LastDay
      BY <1>1 DEF Lists, Op, PageDays
    <3>2. PICK plan \in Plans : plan = call
      OBVIOUS
    <3>3. plan[q].op = "list" /\ c = plan[q]
      BY <1>1, <3>1, <3>2
    <3>4. \A day \in 0..LastDay : ResolveRange(plan[q].from, plan[q].to, day) # None
      BY <3>3, PlansAssumption
    <3> QED
      BY <2>1, <3>1, <3>3, <3>4
  <2>4. InRange(r, f.range)
    BY <1>1, <2>3 DEF Where
  <2>5. InRange(r, g.range)
    <3>1. CASE c.to = None
      <4>1. /\ f.range.start = g.range.start
            /\ f.range.end = d + 1 /\ g.range.end = e + 1
        BY <2>1, <2>2, <3>1 DEF ResolveRange, EndDay
      <4> QED
        BY <2>4, <4>1 DEF InRange, PageDays
    <3>2. CASE c.to # None
      <4>1. f.range = g.range
        BY <2>1, <2>2, <3>2 DEF ResolveRange, EndDay
      <4> QED
        BY <2>4, <4>1
    <3> QED
      BY <3>1, <3>2
  <2> QED
    BY <1>1, <1>2, <2>5 DEF Where
<1> QED
  BY <1>3, <1>4

(* Counting rows is counting ids.                                          *)
LEMMA AheadCounts ==
  ASSUME Shape, StampInv, NEW tenant, NEW f, f.review = None, NEW r
  PROVE  LET S == Newer(Matching(tenant, f), r) IN
         /\ IsFiniteSet(S) /\ IsFiniteSet(Ahead(tenant, f, r.at.n))
         /\ Cardinality(S) = Cardinality(Ahead(tenant, f, r.at.n))
         /\ IsFiniteSet(Matching(tenant, f))
<1>1. PICK A, S, g, M : /\ A = Ahead(tenant, f, r.at.n) /\ S = Newer(Matching(tenant, f), r)
                        /\ M = Matching(tenant, f) /\ g = [s \in S |-> s.id]
  OBVIOUS
<1>2. \A id \in DOMAIN results : results[id].id = id
  BY DEF Shape
<1>3. M = {s \in {results[id] : id \in DOMAIN results} : Where(s, tenant, f)}
  BY <1>1, MatchingIsWhere
<1>4. IsFiniteSet(M)
  <2>1. IsFiniteSet({results[id] : id \in DOMAIN results})
    BY FiniteImage DEF StampInv
  <2> QED
    BY <1>3, <2>1, FS_Subset
<1>5. IsFiniteSet(S) /\ IsFiniteSet(A)
  <2>1. S \in SUBSET M /\ A \in SUBSET DOMAIN results
    BY <1>1 DEF Newer, Ahead
  <2> QED
    BY <1>4, <2>1, FS_Subset DEF StampInv
<1>6. S = {results[id] : id \in A}
  <2>1. \A s \in S : s \in {results[id] : id \in A}
    BY <1>1, <1>3 DEF Newer, Ahead
  <2>2. \A id \in A : results[id] \in S
    BY <1>1, <1>3 DEF Newer, Ahead
  <2> QED
    BY <2>1, <2>2
<1>7. A = {g[s] : s \in S}
  <2>1. \A s \in S : g[s] = s.id
    BY <1>1
  <2>2. \A id \in A : results[id] \in S /\ g[results[id]] = id
    BY <1>1, <1>2, <1>6, <2>1 DEF Ahead
  <2>3. \A s \in S : g[s] \in A
    <3>1. ASSUME NEW s \in S
          PROVE  s.id \in A
      <4>1. PICK id \in A : s = results[id]
        BY <1>6
      <4>2. id \in DOMAIN results
        BY <1>1 DEF Ahead
      <4> QED
        BY <1>2, <4>1, <4>2
    <3> QED
      BY <2>1, <3>1
  <2> QED
    BY <2>2, <2>3
<1>8. Cardinality(S) <= Cardinality(A) /\ Cardinality(A) <= Cardinality(S)
  BY <1>5, <1>6, <1>7, FiniteImage
<1>9. Cardinality(S) \in Nat /\ Cardinality(A) \in Nat
  BY <1>5, FS_CardinalityType
<1>10. PICK m, n : m = Cardinality(S) /\ n = Cardinality(A)
  OBVIOUS
<1>11. m = n
  BY <1>8, <1>9, <1>10
<1> QED
  BY <1>1, <1>4, <1>5, <1>10, <1>11

(* What is wanted stays wanted while rows stay and the filter only widens. *)
LEMMA WantedStays ==
  ASSUME StampInv, StampInv', NEW q \in Requests, NEW b, Wanted(q, b),
         call' = call, page'[q].got = page[q].got, page'[q].offset = page[q].offset,
         page[q].offset \in Nat,
         \A k \in DOMAIN keys : k \in DOMAIN keys' /\ keys'[k].tenant = keys[k].tenant,
         \A id \in DOMAIN results : id \in DOMAIN results' /\ SameVerdict(results'[id], results[id]),
         \A r, tenant : r.at.day \in Int /\ Where(r, tenant, Asked(q))
                           => Where(r, tenant, Asked(q)')
  PROVE  Wanted(q, b)'
<1>1. PICK k, tenant, f, g : /\ k = call[q].key /\ tenant = keys[k].tenant
                             /\ f = Asked(q) /\ g = Asked(q)'
  OBVIOUS
<1>2. /\ k \in DOMAIN keys' /\ keys'[k].tenant = tenant
      /\ b.id \in DOMAIN results /\ b.id \in DOMAIN results' /\ Where(results[b.id], tenant, f)
  BY <1>1 DEF Wanted
<1>3. ASSUME NEW id \in DOMAIN results, Where(results[id], tenant, f)
      PROVE  /\ id \in DOMAIN results' /\ Where(results'[id], tenant, g)
             /\ results'[id].at = results[id].at
  <2>1. Where(results[id], tenant, g)
    BY <1>1, <1>3 DEF StampInv
  <2>2. SameVerdict(results'[id], results[id])
    OBVIOUS
  <2> QED
    BY <2>1, <2>2 DEF Where, SameVerdict, InRange
<1>4. PICK n, A, B : /\ n = results[b.id].at.n /\ A = Ahead(tenant, f, n)
                     /\ B = {id \in DOMAIN results' : /\ Where(results'[id], tenant, g)
                                                      /\ results'[id].at.n > n}
  OBVIOUS
<1>5. A \in SUBSET B /\ IsFiniteSet(B)
  <2>1. B \in SUBSET DOMAIN results'
    BY <1>4
  <2>2. A \in SUBSET B
    BY <1>3, <1>4 DEF Ahead
  <2> QED
    BY <2>1, <2>2, FS_Subset DEF StampInv
<1>6. Cardinality(A) <= Cardinality(B) /\ Cardinality(A) \in Nat /\ Cardinality(B) \in Nat
  BY <1>5, FS_Subset, FS_CardinalityType
<1>7. PICK x, y : x = Cardinality(A) /\ y = Cardinality(B)
  OBVIOUS
<1>8. b.id \in page[q].got \/ x >= page[q].offset
  BY <1>1, <1>4, <1>7 DEF Wanted
<1>9. b.id \in page[q].got \/ y >= page[q].offset
  BY <1>6, <1>7, <1>8
<1>10. results'[b.id].at.n = n /\ Where(results'[b.id], tenant, g)
  BY <1>2, <1>3, <1>4
<1>11. y = Cardinality(Ahead(tenant, g, n)')
  BY <1>4, <1>7 DEF Ahead
<1> QED
  BY <1>1, <1>2, <1>4, <1>9, <1>10, <1>11 DEF Wanted

(* Today is a day of the behaviour, and it never goes back.                *)
LEMMA TodayGoesOn ==
  ASSUME StampInv, clock'.tick \in {clock.tick, clock.tick + 1}
  PROVE  /\ Today \in PageDays /\ Today \in Int
         /\ Today' \in Int /\ Today <= Today'
         /\ clock'.tick = clock.tick => Today' = Today
<1>1. clock.tick \in Nat /\ clock'.tick \in Nat /\ clock.tick <= clock'.tick
      /\ LastTick \in Nat /\ clock.tick <= LastTick
  BY ClockAssumption DEF StampInv
<1>2. Today \in Nat /\ Today' \in Nat /\ Today <= Today'
  BY <1>1, Days DEF Today
<1>3. Today <= LastDay /\ LastDay \in Nat
  BY <1>1, Days DEF Today, LastDay
<1>4. clock'.tick = clock.tick => Today' = Today
  BY DEF Today
<1> QED
  BY <1>2, <1>3, <1>4 DEF PageDays

(* A client that waits misses nothing meanwhile.                           *)
LEMMA ReaderStays ==
  ASSUME PlaceInv, StampInv, StampInv', NEW q \in Requests, Lists(q), Reader(q),
         call' = call, pc'[q] = pc[q], txn'[q] = txn[q], reply'[q] = reply[q],
         page'[q] = page[q], clock'.tick \in {clock.tick, clock.tick + 1},
         \A k \in DOMAIN keys : k \in DOMAIN keys' /\ keys'[k].tenant = keys[k].tenant,
         \A id \in DOMAIN results : id \in DOMAIN results' /\ SameVerdict(results'[id], results[id])
  PROVE  Reader(q)'
<1>1. Today \in PageDays /\ Today \in Int /\ Today' \in Int /\ Today <= Today'
  BY TodayGoesOn
<1>2. \A r, tenant : r.at.day \in Int /\ Where(r, tenant, Asked(q))
                        => Where(r, tenant, Asked(q)')
  <2>1. CASE pc[q] = "rows"
    BY <2>1 DEF Asked
  <2>2. CASE pc[q] # "rows"
    <3>1. Asked(q) = FilterOn(call[q], Today) /\ Asked(q)' = FilterOn(call[q], Today')
      BY <2>2 DEF Asked, ListFilter, FilterOn
    <3>2. PICK d, e : d = Today /\ e = Today'
      OBVIOUS
    <3> QED
      BY <1>1, <3>1, <3>2, Widens DEF PlaceInv
  <2> QED
    BY <2>1, <2>2
<1>3. pc'[q] # "closed" => \A b \in page'[q].base : Wanted(q, b)'
  BY <1>2, WantedStays DEF Reader
<1>4. (pc[q] = "rows" => \E d \in PageDays : d <= Today /\ txn[q].read.filter = FilterOn(call[q], d))'
  <2>1. ASSUME pc[q] = "rows"
        PROVE  \E d \in PageDays : d <= Today' /\ txn'[q].read.filter = FilterOn(call'[q], d)
    <3>1. PICK d \in PageDays : d <= Today /\ txn[q].read.filter = FilterOn(call[q], d)
      BY <2>1 DEF Reader
    <3>2. d <= Today'
      BY <1>1, <3>1 DEF PageDays
    <3> QED
      BY <3>1, <3>2
  <2> QED
    BY <2>1
<1>5. (Ended(q, 200) => {b.id : b \in page[q].base} \subseteq page[q].got)'
  BY DEF Reader, Ended
<1> QED
  BY <1>3, <1>4, <1>5 DEF Reader

(* What the middlewares and require_tenant do to a paging client.          *)
LEMMA ReaderEnters ==
  ASSUME PlaceInv, StampInv, StampInv', NEW q \in Requests, Lists(q), Reader(q),
         Arrive(q) \/ RequireTenant(q) \/ CommitRefused(q)
  PROVE  Reader(q)'
<1>1. /\ call' = call /\ page' = page /\ results' = results /\ keys' = keys
      /\ clock'.tick = clock.tick /\ pc[q] \notin {"rows", "closed"}
  BY DEF Arrive, RequireTenant, CommitRefused, tables, NextSerial, PlaceInv, Shape
<1>2. pc'[q] # "rows" /\ reply'[q].status # 200
  <2>1. Shape /\ reply[q].status # 200
    BY <1>1 DEF PlaceInv, Place, NoReply
  <2>2. ASSUME NEW r, Answers(q, r), r.status # 200
        PROVE  pc'[q] # "rows" /\ reply'[q].status # 200
    BY <2>1, <2>2, AnswersMoves
  <2>3. ASSUME NEW stage, NEW t, Goes(q, stage, t), stage # "rows"
        PROVE  pc'[q] # "rows" /\ reply'[q].status # 200
    BY <2>1, <2>3, GoesMoves
  <2>4. CASE Arrive(q)
    <3>1. \/ \E a : Answers(q, [status |-> 429, retry |-> a.retry])
          \/ Answers(q, [status |-> 413])
          \/ Goes(q, "admitted", NoTxn)
      BY <2>4, Arrives
    <3>2. CASE \E a : Answers(q, [status |-> 429, retry |-> a.retry])
      BY <2>2, <3>2
    <3> QED
      BY <2>2, <2>3, <3>1, <3>2
  <2>5. CASE RequireTenant(q) \/ CommitRefused(q)
    BY <2>2, <2>3, <2>5 DEF RequireTenant, CommitRefused
  <2> QED
    BY <2>4, <2>5
<1>3. Asked(q)' = Asked(q)
  BY <1>1, <1>2 DEF Asked, ListFilter, Today
<1>4. \A id \in DOMAIN results : SameVerdict(results[id], results[id])
  BY DEF SameVerdict
<1>5. \A b \in page'[q].base : Wanted(q, b)'
  BY <1>1, <1>3, <1>4, WantedStays DEF Reader
<1> QED
  BY <1>1, <1>2, <1>5 DEF Reader, Ended

(* The first statement of a page: what matches then is what the client is  *)
(* to see.                                                                 *)
LEMMA ReaderCounts ==
  ASSUME GateInv, PlaceInv, AccessInv, StampInv, StampInv', ShownInv, NEW q \in Requests, Lists(q),
         Reader(q), CountResults(q)
  PROVE  Reader(q)'
<1>1. /\ Shape /\ call' = call /\ results' = results /\ keys' = keys /\ clock' = clock
      /\ pc[q] = "run" /\ reply[q].status # 200 /\ Op(q) = "list"
  BY DEF CountResults, tables, PlaceInv, Place, NoReply
<1>2. CASE Answers(q, [status |-> 400]) /\ UNCHANGED page
  <2>1. pc'[q] = "closed" /\ reply'[q].status # 200
    BY <1>1, <1>2, AnswersMoves
  <2> QED
    BY <1>2, <2>1 DEF Reader, Ended
<1>3. CASE ~(Answers(q, [status |-> 400]) /\ UNCHANGED page)
  <2>1. PICK f, first, v : /\ f = ListFilter(call[q]) /\ first = Matching(txn[q].tenant, f)
                           /\ v = [filter |-> f, first |-> first]
    OBVIOUS
  <2>2. /\ Goes(q, "rows", [txn[q] EXCEPT !.read = v])
        /\ page' = IF page[q].offset = 0 THEN [page EXCEPT ![q].base = first] ELSE page
    BY <1>3, <2>1 DEF CountResults
  <2>3. pc'[q] = "rows" /\ txn'[q] = [txn[q] EXCEPT !.read = v] /\ reply'[q] = reply[q]
    BY <1>1, <2>2, GoesMoves
  <2>4. txn'[q].read.filter = f
    <3>1. txn'[q].read = v
      BY <1>1, <2>3, Reading DEF PlaceInv, Place, Begun, Idle
    <3> QED
      BY <2>1, <3>1
  <2>5. Asked(q) = f /\ Asked(q)' = f
    BY <1>1, <2>1, <2>3, <2>4 DEF Asked
  <2>6. f = FilterOn(call[q], Today) /\ Today \in PageDays /\ Today \in Int /\ Today' = Today
    BY <1>1, <2>1, TodayGoesOn DEF ListFilter, FilterOn
  <2>7. f.review = None
    BY <2>6, FilterParts DEF PlaceInv
  <2>8. page'[q].offset = page[q].offset /\ page'[q].got = page[q].got
    BY <2>2 DEF ShownInv, IsPage, PlaceInv
  <2>9. \A b \in page'[q].base : Wanted(q, b)'
    <3>1. CASE page[q].offset # 0
      <4>1. \A id \in DOMAIN results : SameVerdict(results[id], results[id])
        BY DEF SameVerdict
      <4> QED
        BY <1>1, <2>2, <2>5, <2>8, <3>1, <4>1, WantedStays DEF Reader
    <3>2. CASE page[q].offset = 0
      <4>1. page'[q].base = first
        BY <2>2, <3>2 DEF ShownInv, IsPage, PlaceInv
      <4>2. PICK k, tenant : k = call[q].key /\ tenant = txn[q].tenant
        OBVIOUS
      <4>3. k \in DOMAIN keys /\ tenant = keys[k].tenant
        BY <1>1, <4>2 DEF AccessInv, Allowed, Idle, DataOps
      <4>4. ASSUME NEW b \in first
            PROVE  /\ b.id \in DOMAIN results /\ results[b.id] = b /\ Where(b, tenant, f)
                   /\ Cardinality(Ahead(tenant, f, b.at.n)) >= 0
        <5>1. b \in {results[id] : id \in DOMAIN results} /\ Where(b, tenant, f)
          BY <2>1, <2>7, <4>2, MatchingIsWhere
        <5>2. b.id \in DOMAIN results /\ results[b.id] = b
          BY <1>1, <5>1 DEF Shape
        <5>3. IsFiniteSet(Ahead(tenant, f, b.at.n))
          BY <1>1, <2>7, AheadCounts
        <5>4. PICK n : n = Cardinality(Ahead(tenant, f, b.at.n))
          OBVIOUS
        <5>5. n \in Nat
          BY <5>3, <5>4, FS_CardinalityType
        <5> QED
          BY <5>1, <5>2, <5>4, <5>5
      <4>5. ASSUME NEW b \in first
            PROVE  Wanted(q, b)'
        <5>1. Ahead(tenant, f, results[b.id].at.n)' = Ahead(tenant, f, b.at.n)
          BY <1>1, <4>4 DEF Ahead
        <5> QED
          BY <1>1, <2>5, <2>8, <3>2, <4>2, <4>3, <4>4, <5>1 DEF Wanted
      <4> QED
        BY <4>1, <4>5
    <3> QED
      BY <3>1, <3>2
  <2>10. \E d \in PageDays : d <= Today' /\ txn'[q].read.filter = FilterOn(call'[q], d)
    BY <1>1, <2>4, <2>6 DEF FilterOn
  <2> QED
    BY <1>1, <2>3, <2>8, <2>9, <2>10 DEF Reader, Ended
<1> QED
  BY <1>2, <1>3

(* The second one: a page, after which a client that got a short one has   *)
(* seen everything it was to see.                                          *)
LEMMA ReaderGets ==
  ASSUME GateInv, PlaceInv, AccessInv, StampInv, StampInv', ShownInv, NEW q \in Requests, Lists(q),
         Reader(q), ListPage(q)
  PROVE  Reader(q)'
<1>1. /\ Shape /\ call' = call /\ results' = results /\ keys' = keys /\ clock' = clock
      /\ pc[q] = "rows" /\ reply[q].status # 200 /\ Op(q) = "list" /\ call \in Plans
  BY DEF ListPage, tables, PlaceInv, Place, NoReply
<1>2. PICK k, tenant, f, offset, limit :
         /\ k = call[q].key /\ tenant = txn[q].tenant /\ f = txn[q].read.filter
         /\ offset = page[q].offset /\ limit = call[q].limit
  OBVIOUS
<1>3. k \in DOMAIN keys /\ tenant = keys[k].tenant
  BY <1>1, <1>2 DEF AccessInv, Allowed, Idle, DataOps
<1>4. limit \in Nat /\ limit > 0 /\ offset \in Nat /\ offset + limit \in Nat
  <2>1. limit \in Nat \ {0}
    BY <1>1, <1>2, PlansAssumption DEF Op
  <2>2. offset \in Nat
    BY <1>2 DEF Reader
  <2> QED
    BY <2>1, <2>2
<1>5. PICK M, rows : M = Matching(tenant, f) /\ rows = Slice(M, offset, limit)
  OBVIOUS
<1>6. PICK total : GetsPage(q, rows, total)
  BY <1>2, <1>5 DEF ListPage
<1>7. /\ page'[q].offset = offset + limit /\ page'[q].got = page[q].got \cup {r.id : r \in rows}
      /\ page'[q].base = page[q].base
  <2>1. IsPage(page[q]) /\ page = [p \in Requests |-> page[p]]
    BY DEF ShownInv, PlaceInv
  <2>2. page'[q] = [offset |-> page[q].offset + call[q].limit,
                    got |-> page[q].got \cup {r.id : r \in rows}, base |-> page[q].base]
    BY <1>6, <2>1 DEF GetsPage, IsPage
  <2> QED
    BY <1>2, <2>2
<1>8. PICK d \in PageDays : d <= Today /\ f = FilterOn(call[q], d)
  BY <1>1, <1>2 DEF Reader
<1>9. f.review = None /\ Asked(q) = f
  BY <1>1, <1>2, <1>8, FilterParts DEF Asked
<1>10. /\ IsFiniteSet(M) /\ \A r \in M : r.at.n \in Int
       /\ \A r, s \in M : r.at.n = s.at.n => r = s
       /\ \A id \in DOMAIN results : Where(results[id], tenant, f) => results[id] \in M
  <2>1. IsFiniteSet(M)
    BY <1>1, <1>5, <1>9, AheadCounts
  <2>2. M = {r \in {results[id] : id \in DOMAIN results} : Where(r, tenant, f)}
    BY <1>5, <1>9, MatchingIsWhere
  <2> QED
    BY <2>1, <2>2 DEF StampInv
<1>11. ASSUME NEW b \in page[q].base, b.id \notin page'[q].got
       PROVE  /\ b.id \in DOMAIN results /\ Where(results[b.id], tenant, f)
              /\ Cardinality(Ahead(tenant, f, results[b.id].at.n)) >= offset + limit
              /\ Cardinality(rows) >= limit
  <2>1. PICK r : r = results[b.id]
    OBVIOUS
  <2>2. Wanted(q, b)
    BY <1>1 DEF Reader
  <2>3. /\ b.id \in DOMAIN results /\ Where(r, tenant, f)
        /\ Cardinality(Ahead(tenant, f, r.at.n)) >= offset
    BY <1>2, <1>3, <1>7, <1>9, <1>11, <2>1, <2>2 DEF Wanted
  <2>4. r \in M /\ r.id = b.id
    BY <1>1, <1>10, <2>1, <2>3 DEF Shape
  <2>5. PICK n : n = Cardinality(Newer(M, r))
    OBVIOUS
  <2>6. n = Cardinality(Ahead(tenant, f, r.at.n)) /\ n \in Nat
    BY <1>1, <1>5, <1>9, <2>5, AheadCounts, FS_CardinalityType
  <2>7. r \notin rows
    BY <1>7, <1>11, <2>4
  <2>8. n >= offset + limit
    <3>1. ~(offset <= n /\ n < offset + limit)
      BY <1>5, <2>4, <2>5, <2>7 DEF Slice
    <3>2. n >= offset
      BY <2>3, <2>6
    <3> QED
      BY <1>4, <2>6, <3>1, <3>2
  <2>9. Cardinality(rows) >= limit
    BY <1>4, <1>5, <1>10, <2>4, <2>5, <2>8, FullPage
  <2> QED
    BY <2>1, <2>3, <2>6, <2>8, <2>9
<1>12. CASE Cardinality(rows) < limit
  <2>1. {b.id : b \in page[q].base} \subseteq page'[q].got
    <3>1. ASSUME NEW b \in page[q].base
          PROVE  b.id \in page'[q].got
      <4>1. PICK n : n = Cardinality(rows)
        OBVIOUS
      <4>2. IsFiniteSet(rows)
        BY <1>5, <1>10, FS_Subset DEF Slice
      <4>3. n \in Nat
        BY <4>1, <4>2, FS_CardinalityType
      <4>4. ~(n >= limit)
        BY <1>4, <1>12, <4>1, <4>3
      <4> QED
        BY <1>11, <4>1, <4>4
    <3> QED
      BY <3>1
  <2>2. pc'[q] = "closed"
    BY <1>1, <1>2, <1>6, <1>12, AnswersMoves DEF GetsPage
  <2> QED
    BY <1>4, <1>7, <2>1, <2>2 DEF Reader
<1>13. CASE ~(Cardinality(rows) < limit)
  <2>1. pc'[q] = "new" /\ reply'[q] = reply[q]
    BY <1>1, <1>2, <1>6, <1>13, GoesMoves DEF GetsPage
  <2>2. PICK e, g : e = Today /\ g = FilterOn(call[q], e)
    OBVIOUS
  <2>3. Today \in PageDays /\ Today \in Int /\ Today' = Today
    BY <1>1, TodayGoesOn
  <2>4. Asked(q)' = g
    BY <1>1, <2>1, <2>2, <2>3 DEF Asked, ListFilter, FilterOn
  <2>5. \A id \in DOMAIN results : Where(results[id], tenant, f) => Where(results[id], tenant, g)
    <3>1. e \in Int /\ d <= e
      BY <1>8, <2>2, <2>3
    <3> QED
      BY <1>1, <1>8, <2>2, <3>1, Widens DEF StampInv
  <2>6. g.review = None
    BY <1>1, <2>2, FilterParts
  <2>7. ASSUME NEW b \in page[q].base
        PROVE  Wanted(q, b)'
    <3>1. b.id \in DOMAIN results /\ Where(results[b.id], tenant, f)
      BY <1>1, <1>2, <1>3, <1>9 DEF Reader, Wanted
    <3>2. PICK n, A, B : /\ n = results[b.id].at.n /\ A = Ahead(tenant, f, n)
                         /\ B = Ahead(tenant, g, n)
      OBVIOUS
    <3>3. A \in SUBSET B
      BY <2>5, <3>2 DEF Ahead
    <3>4. IsFiniteSet(B)
      <4>1. B \in SUBSET DOMAIN results
        BY <3>2 DEF Ahead
      <4> QED
        BY <4>1, FS_Subset DEF StampInv
    <3>5. PICK x, y : x = Cardinality(A) /\ y = Cardinality(B)
      OBVIOUS
    <3>6. x \in Nat /\ y \in Nat /\ x <= y
      BY <3>3, <3>4, <3>5, FS_Subset, FS_CardinalityType
    <3>7. b.id \in page'[q].got \/ x >= offset + limit
      BY <1>11, <3>2, <3>5
    <3>8. b.id \in page'[q].got \/ y >= offset + limit
      BY <1>4, <3>6, <3>7
    <3>9. Ahead(tenant, g, results[b.id].at.n)' = B
      BY <1>1, <3>2 DEF Ahead
    <3>10. Where(results[b.id], tenant, g)
      BY <2>5, <3>1
    <3> QED
      BY <1>1, <1>2, <1>3, <1>7, <2>4, <3>1, <3>5, <3>8, <3>9, <3>10 DEF Wanted
  <2> QED
    BY <1>1, <1>4, <1>7, <2>1, <2>7 DEF Reader, Ended
<1> QED
  BY <1>12, <1>13

(* Every step of the service keeps every paging client's promise.          *)
LEMMA PageNext ==
  GateInv /\ PlaceInv /\ AccessInv /\ StampInv /\ StampInv' /\ ShownInv /\ PageInv /\ [Next]_vars
     => PageInv'
<1> SUFFICES ASSUME GateInv, PlaceInv, AccessInv, StampInv, StampInv', ShownInv, PageInv,
                    [Next]_vars
             PROVE  PageInv'
  OBVIOUS
<1>1. ASSUME NEW q \in Requests, Step(q) \/ CommitRefused(q)
      PROVE  PageInv'
  <2>1. /\ Turn(q) /\ call' = call
        /\ \A p \in Requests \ {q} : pc'[p] = pc[p] /\ txn'[p] = txn[p] /\ reply'[p] = reply[p]
        /\ page' = [page EXCEPT ![q] = page'[q]] /\ page = [p \in Requests |-> page[p]]
    <3>1. Turn(q)
      BY <1>1, StepTurn
    <3> QED
      BY <1>1, <3>1, OthersStay, PageMoves DEF Turn, PlaceInv
  <2>2. clock'.tick = clock.tick
    BY <2>1 DEF Turn, NextSerial, PlaceInv, Shape
  <2>3. \A k \in DOMAIN keys : k \in DOMAIN keys' /\ keys'[k].tenant = keys[k].tenant
    BY <1>1, KeyStep DEF KeysStay, AccessInv
  <2>4. \A id \in DOMAIN results : id \in DOMAIN results' /\ SameVerdict(results'[id], results[id])
    BY <1>1, RowsStay
  <2>5. \A p \in Requests : Lists(p)' <=> Lists(p)
    BY <2>1 DEF Lists, Op
  <2>6. ASSUME NEW p \in Requests \ {q}, Lists(p)
        PROVE  Reader(p)'
    <3>1. page'[p] = page[p]
      BY <2>1
    <3> QED
      BY <2>1, <2>2, <2>3, <2>4, <2>6, <3>1, ReaderStays DEF PageInv
  <2>7. ASSUME Lists(q)
        PROVE  Reader(q)'
    <3>1. \/ Arrive(q) \/ RequireTenant(q) \/ CommitRefused(q) \/ CountResults(q)
          \/ ListPage(q) \/ ListUnderNode(q)
      BY <1>1, <2>7, WhoSteps DEF Lists
    <3>2. ~ListUnderNode(q)
      BY <2>7 DEF Lists, ListUnderNode
    <3> QED
      BY <2>7, <3>1, <3>2, ReaderEnters, ReaderCounts, ReaderGets DEF PageInv
  <2> QED
    BY <2>5, <2>6, <2>7 DEF PageInv
<1>2. CASE Rests
  <2>1. /\ pc' = pc /\ txn' = txn /\ reply' = reply /\ call' = call /\ page' = page
        /\ results' = results /\ keys' = keys
    BY <1>2 DEF Rests, Tick, Respond, vars, flow, tables, ambient
  <2>2. clock'.tick \in {clock.tick, clock.tick + 1}
    BY <1>2 DEF Rests, Tick, Respond, vars, ambient, PlaceInv, Shape
  <2>3. \A p \in Requests : Lists(p)' <=> Lists(p)
    BY <2>1 DEF Lists, Op
  <2>4. \A id \in DOMAIN results : SameVerdict(results[id], results[id])
    BY DEF SameVerdict
  <2> QED
    BY <2>1, <2>2, <2>3, <2>4, ReaderStays DEF PageInv
<1> QED
  BY <1>1, <1>2 DEF Next, Rests

(* At the start no page has been read and every row is ahead.              *)
LEMMA PageInit == Init => PageInv
<1> SUFFICES ASSUME Init
             PROVE  PageInv
  OBVIOUS
<1>1. ASSUME NEW q \in Requests
      PROVE  /\ pc[q] \in {"new", "closed"} /\ reply[q].status # 200
             /\ page[q] = [offset |-> 0, got |-> {}, base |-> {}]
  BY DEF Init, NoReply
<1> QED
  BY <1>1 DEF PageInv, Reader, Ended

(* A client that reads until a page is short has seen whatever there was   *)
(* when it began.                                                          *)
THEOREM PagingTheorem == Spec => []PagingMissesNothing
<1>1. Init => GateInv /\ PlaceInv /\ AccessInv /\ StampInv /\ ShownInv /\ PageInv
  BY GateInit, PlaceInit, AccessInit, StampInit, ShownInit, PageInit
<1>2. GateInv /\ PlaceInv /\ AccessInv /\ StampInv /\ ShownInv /\ PageInv /\ [Next]_vars
        => (GateInv /\ PlaceInv /\ AccessInv /\ StampInv /\ ShownInv /\ PageInv)'
  BY BothNext, AccessNext, StampNext, ShownNext, PageNext
<1>3. PageInv => PagingMissesNothing
  BY DEF PageInv, PagingMissesNothing, Lists, Reader
<1> QED
  BY <1>1, <1>2, <1>3, PTL DEF Spec

(* ---- reports: a range of days cut into buckets ------------------------- *)

(* A range of days of the calendar, and finitely many results of its days. *)
IsRange(g) ==
    /\ g.start \in Nat /\ g.end \in Nat /\ g.start < g.end /\ g.end - 1 <= LastDay
    /\ None \notin {g, PreviousRange(g)}

Within(S, g) == IsFiniteSet(S) /\ \A r \in S : r.at.day \in Int /\ InRange(r, g)

(* The month of a day starts no later, and no other one in between.        *)
LEMMA MonthIs ==
  ASSUME NEW d \in Nat
  PROVE  /\ MonthOf(d) \in MonthStarts /\ MonthOf(d) \in Nat /\ MonthOf(d) <= d
         /\ \A m \in MonthStarts : m <= d => m <= MonthOf(d)
<1> DEFINE T == {n \in 0..d : d - n \in MonthStarts}
           S == {m \in MonthStarts : m <= d}
<1>1. MonthStarts \subseteq Nat /\ 0 \in MonthStarts
  BY AnalyticsAssumption
<1>2. T \in SUBSET Nat /\ T \in SUBSET Int /\ d \in T /\ \A n \in T : n <= d
  BY <1>1
<1>3. PICK n \in T : \A k \in T : n <= k
  <2> HIDE DEF T
  <2>1. IsFiniteSet(T)
    BY <1>2, FS_BoundedSetOfNaturals
  <2> QED
    BY <1>2, <2>1, FiniteLeast
<1>4. d - n \in S
  BY <1>1, <1>3
<1>5. ASSUME NEW m \in S
      PROVE  d - n >= m
  <2>1. d - m \in T
    BY <1>1, <1>5
  <2> QED
    BY <1>1, <1>3, <1>5, <2>1
<1>6. PICK x : x = MonthOf(d)
  OBVIOUS
<1>7. x \in S /\ \A m \in S : x >= m
  <2>1. x = Max(S)
    BY <1>6 DEF MonthOf
  <2> HIDE DEF S
  <2> QED
    BY <1>4, <1>5, <2>1 DEF Max
<1> QED
  BY <1>1, <1>6, <1>7

(* A month that has begun has a next one.                                  *)
LEMMA NextIs ==
  ASSUME NEW d \in Nat, d <= LastDay
  PROVE  /\ NextMonth(d) \in MonthStarts /\ NextMonth(d) \in Nat /\ d < NextMonth(d)
         /\ \A m \in MonthStarts : d < m => NextMonth(d) <= m
<1>1. MonthStarts \subseteq Nat
  BY AnalyticsAssumption
<1>2. PICK b \in MonthStarts : d < b
  <2>1. d \in 0..LastDay
    <3>1. LastDay \in Nat
      BY ClockAssumption, Days DEF LastDay
    <3> QED
      BY <3>1
  <2>2. \A day \in 0..LastDay : \E m \in MonthStarts : day < m
    BY ClockAssumption
  <2> QED
    BY <2>1, <2>2
<1> DEFINE T == {n \in MonthStarts : d < n /\ n <= b}
           S == {n \in MonthStarts : n > d}
<1>3. T \in SUBSET Nat /\ T \in SUBSET Int /\ b \in T /\ \A n \in T : n <= b
  <2>1. T \subseteq MonthStarts /\ (\A n \in T : n <= b) /\ b \in Nat
    BY <1>1
  <2>2. b \in T
    BY <1>2, <2>1
  <2> HIDE DEF T
  <2> QED
    BY <1>1, <2>1, <2>2
<1>4. PICK n \in T : \A k \in T : n <= k
  <2> HIDE DEF T
  <2>1. IsFiniteSet(T)
    BY <1>1, <1>3, FS_BoundedSetOfNaturals
  <2> QED
    BY <1>3, <2>1, FiniteLeast
<1>5. n \in S /\ \A k \in S : n <= k
  BY <1>1, <1>2, <1>4
<1>6. PICK x : x = NextMonth(d)
  OBVIOUS
<1>7. x \in S /\ \A k \in S : x <= k
  <2>1. x = Min(S)
    BY <1>6 DEF NextMonth
  <2> HIDE DEF S
  <2> QED
    BY <1>5, <2>1 DEF Min
<1> QED
  BY <1>1, <1>6, <1>7

(* Edges cut the range: finitely many of them, each of some days of it,     *)
(* apart from each other, and every day between two.                       *)
Cut(E, g) ==
    /\ IsFiniteSet(E)
    /\ \A e \in E : e.from \in Int /\ e.to \in Int /\ e.from < e.to /\ e.from < g.end
    /\ \A e, f \in E : e = f \/ e.to <= f.from \/ f.to <= e.from
    /\ \A d \in Int : g.start <= d /\ d < g.end => \E e \in E : e.from <= d /\ d < e.to

(* One edge for each day.                                                  *)
LEMMA DailyCuts ==
  ASSUME NEW g, IsRange(g)
  PROVE  Cut(BucketEdges(g, "daily"), g)
<1> DEFINE D == g.start..(g.end - 1)
           f == [d \in D |-> [from |-> d, to |-> d + 1]]
           E == {f[d] : d \in D}
<1>1. BucketEdges(g, "daily") = E
  BY DEF BucketEdges
<1>2. IsFiniteSet(D)
  BY FiniteRange DEF IsRange
<1>3. IsFiniteSet(E)
  <2> HIDE DEF D, f
  <2> QED
    BY <1>2, FiniteImage
<1>4. \A d \in D : f[d].from = d /\ f[d].to = d + 1 /\ d \in Int /\ d < g.end
  BY DEF IsRange
<1>5. \A d \in Int : g.start <= d /\ d < g.end => d \in D
  BY DEF IsRange
<1>6. Cut(E, g)
  <2> HIDE DEF D, f
  <2> QED
    BY <1>3, <1>4, <1>5 DEF Cut
<1> QED
  BY <1>1, <1>6

(* One edge for each seven days from the range's start.                    *)
LEMMA WeeklyCuts ==
  ASSUME NEW g, IsRange(g)
  PROVE  Cut(BucketEdges(g, "weekly"), g)
<1>1. PICK s, n : s = g.start /\ n = g.end
  OBVIOUS
<1>2. s \in Nat /\ n \in Nat /\ s < n
  BY <1>1 DEF IsRange
<1> DEFINE K == {k \in 0..(n - s) : s + 7 * k < n}
           f == [k \in K |-> [from |-> s + 7 * k, to |-> s + 7 * k + 7]]
           E == {f[k] : k \in K}
<1>3. BucketEdges(g, "weekly") = E
  BY <1>1 DEF BucketEdges
<1>4. IsFiniteSet(E)
  <2>1. n - s \in Nat /\ K \in SUBSET (0..(n - s))
    BY <1>2
  <2> HIDE DEF K, f
  <2>2. IsFiniteSet(K)
    BY <2>1, FiniteRange, FS_Subset
  <2> QED
    BY <2>2, FiniteImage
<1>5. \A k \in K : /\ f[k].from = s + 7 * k /\ f[k].to = s + 7 * k + 7
                   /\ k \in Nat /\ s + 7 * k < n
  BY <1>2
<1>6. ASSUME NEW d \in Int, s <= d, d < n
      PROVE  \E k \in K : s + 7 * k <= d /\ d < s + 7 * k + 7
  <2>1. PICK k : k = (d - s) \div 7
    OBVIOUS
  <2>2. k \in Nat /\ k * 7 <= d - s /\ d - s < k * 7 + 7
    BY <1>2, <1>6, <2>1, Quotient
  <2> QED
    BY <1>2, <1>6, <2>2
<1>7. Cut(E, g)
  <2> HIDE DEF K
  <2>1. \A e \in E : \E k \in K : e = f[k]
    OBVIOUS
  <2>2. \A k \in K : f[k] \in E
    OBVIOUS
  <2> HIDE DEF f, E
  <2>3. \A e \in E : e.from \in Int /\ e.to \in Int /\ e.from < e.to /\ e.from < n
    BY <1>2, <1>5, <2>1
  <2>4. ASSUME NEW a \in E, NEW b \in E
        PROVE  a = b \/ a.to <= b.from \/ b.to <= a.from
    <3>1. PICK k, l \in K : a = f[k] /\ b = f[l]
      BY <2>1
    <3>2. CASE k = l
      BY <3>1, <3>2
    <3>3. CASE k # l
      <4>1. k \in Nat /\ l \in Nat /\ a.from = s + 7 * k /\ b.from = s + 7 * l
            /\ a.to = s + 7 * k + 7 /\ b.to = s + 7 * l + 7
        BY <1>5, <3>1
      <4> QED
        BY <1>2, <3>3, <4>1
    <3> QED
      BY <3>2, <3>3
  <2>5. \A d \in Int : s <= d /\ d < n => \E e \in E : e.from <= d /\ d < e.to
    BY <1>5, <1>6, <2>2
  <2> QED
    BY <1>1, <1>4, <2>3, <2>4, <2>5 DEF Cut
<1> QED
  BY <1>3, <1>7

(* One edge for each calendar month that the range meets.                  *)
LEMMA MonthlyCuts ==
  ASSUME NEW g, IsRange(g)
  PROVE  Cut(BucketEdges(g, "monthly"), g)
<1>1. PICK s, n : s = g.start /\ n = g.end
  OBVIOUS
<1>2. s \in Nat /\ n \in Nat /\ s < n /\ n - 1 <= LastDay /\ MonthStarts \subseteq Nat
      /\ LastDay \in Nat
  BY <1>1, AnalyticsAssumption, ClockAssumption, Days DEF IsRange, LastDay
<1> DEFINE M == {m \in MonthStarts : MonthOf(s) <= m /\ m < n}
           f == [m \in M |-> [from |-> m, to |-> NextMonth(m)]]
           E == {f[m] : m \in M}
<1>3. BucketEdges(g, "monthly") = E
  BY <1>1 DEF BucketEdges
<1>4. IsFiniteSet(E)
  <2>1. M \in SUBSET Nat /\ \A m \in M : m <= n
    <3>1. M \subseteq Nat /\ \A m \in M : m < n
      BY <1>2
    <3> HIDE DEF M
    <3> QED
      BY <1>2, <3>1
  <2> HIDE DEF M, f
  <2>2. IsFiniteSet(M)
    BY <1>2, <2>1, FS_BoundedSetOfNaturals
  <2> QED
    BY <2>2, FiniteImage
<1>5. ASSUME NEW m \in M
      PROVE  /\ f[m].from = m /\ f[m].to = NextMonth(m) /\ m \in Nat /\ m < n
             /\ NextMonth(m) \in Nat /\ m < NextMonth(m)
             /\ \A k \in M : m < k => NextMonth(m) <= k
  <2>1. m \in Nat /\ m < n /\ m <= LastDay
    BY <1>2, <1>5
  <2> QED
    BY <2>1, NextIs
<1>6. ASSUME NEW d \in Int, s <= d, d < n
      PROVE  \E m \in M : m <= d /\ d < NextMonth(m)
  <2>1. PICK m : m = MonthOf(d)
    OBVIOUS
  <2>2. d \in Nat
    BY <1>2, <1>6
  <2>3. m \in MonthStarts /\ m \in Nat /\ m <= d /\ \A k \in MonthStarts : k <= d => k <= m
    BY <2>1, <2>2, MonthIs
  <2>4. MonthOf(s) \in MonthStarts /\ MonthOf(s) \in Nat /\ MonthOf(s) <= s
    BY <1>2, MonthIs
  <2>5. MonthOf(s) <= m /\ m < n /\ m <= LastDay
    BY <1>2, <1>6, <2>2, <2>3, <2>4
  <2>6. NextMonth(m) \in MonthStarts /\ NextMonth(m) \in Nat /\ m < NextMonth(m)
    BY <2>3, <2>5, NextIs
  <2>7. ~(NextMonth(m) <= d)
    BY <2>2, <2>3, <2>6
  <2> QED
    BY <2>2, <2>3, <2>5, <2>6, <2>7
<1>7. Cut(E, g)
  <2> HIDE DEF M
  <2>1. \A e \in E : \E m \in M : e = f[m]
    OBVIOUS
  <2>2. \A m \in M : f[m] \in E
    OBVIOUS
  <2> HIDE DEF f, E
  <2>3. \A e \in E : e.from \in Int /\ e.to \in Int /\ e.from < e.to /\ e.from < n
    BY <1>2, <1>5, <2>1
  <2>4. ASSUME NEW a \in E, NEW b \in E
        PROVE  a = b \/ a.to <= b.from \/ b.to <= a.from
    <3>1. PICK k, l \in M : a = f[k] /\ b = f[l]
      BY <2>1
    <3> QED
      BY <1>5, <3>1
  <2>5. \A d \in Int : s <= d /\ d < n => \E e \in E : e.from <= d /\ d < e.to
    BY <1>5, <1>6, <2>2
  <2> QED
    BY <1>1, <1>4, <2>3, <2>4, <2>5 DEF Cut
<1> QED
  BY <1>3, <1>7

(* Whatever the kind of buckets.                                           *)
LEMMA EdgesCut ==
  ASSUME NEW g, IsRange(g), NEW bucket \in {"daily", "weekly", "monthly"}
  PROVE  Cut(BucketEdges(g, bucket), g)
BY DailyCuts, WeeklyCuts, MonthlyCuts

(* Parts that share no result sum to the whole.                            *)
LEMMA PartsAdd ==
  ASSUME NEW B, IsFiniteSet(B), NEW items, IsFiniteSet(items),
         \A b \in B : b.items \subseteq items,
         \A i \in items : \E b \in B : i \in b.items,
         \A b, c \in B : b = c \/ b.items \cap c.items = {}
  PROVE  /\ Parts({b.items : b \in B}, items)
         /\ SumFunction([b \in B |-> Cardinality(b.items)]) = Cardinality(items)
<1> DEFINE P == [b \in B |-> b.items]
<1>1. \A b \in B : P[b] = b.items /\ IsFiniteSet(P[b])
  BY FS_Subset
<1>2. \A b, c \in B : b = c \/ P[b] \cap P[c] = {}
  BY <1>1
<1>3. UNION {P[b] : b \in B} = items /\ UNION {b.items : b \in B} = items
  OBVIOUS
<1>4. [b \in B |-> Cardinality(b.items)] = [b \in B |-> Cardinality(P[b])]
  OBVIOUS
<1>5. SumFunction([b \in B |-> Cardinality(P[b])]) = Cardinality(items)
  <2>1. \A b \in B : IsFiniteSet(P[b])
    BY <1>1
  <2>2. UNION {P[b] : b \in B} = items
    BY <1>3
  <2> HIDE DEF P
  <2> QED
    BY <1>2, <2>1, <2>2, SumOfParts
<1>6. Parts({b.items : b \in B}, items)
  BY <1>3 DEF Parts
<1>7. SumFunction([b \in B |-> Cardinality(b.items)]) = Cardinality(items)
  BY <1>4, <1>5
<1> QED
  BY <1>6, <1>7

InBuckets(B, items, g) ==
    /\ Parts({b.items : b \in B}, items)
    /\ SumFunction([b \in B |-> Cardinality(b.items)]) = Cardinality(items)
    /\ Max({b.last : b \in B}) = g.end - 1

(* Every result of the range is in one bucket, and the last bucket ends    *)
(* with the range.                                                         *)
LEMMA BucketsPart ==
  ASSUME NEW g, IsRange(g), NEW bucket \in {"daily", "weekly", "monthly"},
         NEW items, Within(items, g), NEW today, NEW B, B = BuildBuckets(items, g, bucket, today)
  PROVE  InBuckets(B, items, g)
<1>1. PICK E : E = BucketEdges(g, bucket) /\ Cut(E, g)
  BY EdgesCut
<1>2. PICK s, n : s = g.start /\ n = g.end /\ s \in Nat /\ n \in Nat /\ s < n
  BY DEF IsRange
<1> DEFINE f == [e \in E |-> [from       |-> e.from,
                              last       |-> Min({e.to - 1, n - 1}),
                              items      |-> {r \in items : e.from <= r.at.day /\ r.at.day < e.to},
                              incomplete |-> e.from <= today /\ today < e.to]]
<1>3. B = {f[e] : e \in E}
  BY <1>1, <1>2 DEF BuildBuckets
<1>4. ASSUME NEW e \in E
      PROVE  /\ f[e] \in B
             /\ f[e].items = {r \in items : e.from <= r.at.day /\ r.at.day < e.to}
             /\ f[e].last = Min({e.to - 1, n - 1})
  BY <1>3
<1>5. \A b \in B : \E e \in E : b = f[e]
  BY <1>3
<1>6. IsFiniteSet(E) /\ \A e \in E : e.from \in Int /\ e.to \in Int /\ e.from < e.to /\ e.from < n
  BY <1>1, <1>2 DEF Cut
<1>7. \A r \in items : r.at.day \in Int /\ s <= r.at.day /\ r.at.day < n
  BY <1>2 DEF Within, InRange
<1>8. \A d \in Int : s <= d /\ d < n => \E e \in E : e.from <= d /\ d < e.to
  BY <1>1, <1>2 DEF Cut
<1>9. IsFiniteSet(B)
  <2> HIDE DEF f
  <2> QED
    BY <1>3, <1>6, FiniteImage
<1> HIDE DEF f
<1>10. \A b \in B : b.items \subseteq items
  BY <1>4, <1>5
<1>11. \A r \in items : \E b \in B : r \in b.items
  BY <1>4, <1>7, <1>8
<1>12. ASSUME NEW b \in B, NEW c \in B
       PROVE  b = c \/ b.items \cap c.items = {}
  <2>1. PICK e, h \in E : b = f[e] /\ c = f[h]
    BY <1>5
  <2>2. CASE e = h
    BY <2>1, <2>2
  <2>3. CASE e # h
    <3>1. e.to <= h.from \/ h.to <= e.from
      BY <1>1, <2>3 DEF Cut
    <3>2. \A r \in b.items : r \in items /\ e.from <= r.at.day /\ r.at.day < e.to
      BY <1>4, <2>1
    <3>3. \A r \in c.items : r \in items /\ h.from <= r.at.day /\ r.at.day < h.to
      BY <1>4, <2>1
    <3>4. ASSUME NEW r \in b.items, r \in c.items
          PROVE  FALSE
      BY <1>6, <1>7, <3>1, <3>2, <3>3, <3>4
    <3> QED
      BY <3>4
  <2> QED
    BY <2>2, <2>3
<1>13. Max({b.last : b \in B}) = n - 1
  <2>1. ASSUME NEW a \in Int, NEW d \in Int
        PROVE  Min({a, d}) \in {a, d} /\ Min({a, d}) <= a /\ Min({a, d}) <= d
    <3> DEFINE S == {a, d}
    <3>1. \E x \in S : \A y \in S : x <= y
      OBVIOUS
    <3>2. PICK x : x = Min(S) /\ x \in S /\ \A y \in S : x <= y
      BY <3>1 DEF Min
    <3> QED
      BY <3>2
  <2>2. \A e \in E : f[e].last \in Int /\ f[e].last <= n - 1
                     /\ (e.to >= n => f[e].last = n - 1)
    <3> SUFFICES ASSUME NEW e \in E
                 PROVE  f[e].last \in Int /\ f[e].last <= n - 1
                        /\ (e.to >= n => f[e].last = n - 1)
      OBVIOUS
    <3>1. e.to - 1 \in Int /\ n - 1 \in Int /\ e.to \in Int /\ f[e].last = Min({e.to - 1, n - 1})
      BY <1>2, <1>4, <1>6
    <3>2. PICK m : m = Min({e.to - 1, n - 1})
      OBVIOUS
    <3>3. m \in {e.to - 1, n - 1} /\ m <= e.to - 1 /\ m <= n - 1
      BY <2>1, <3>1, <3>2
    <3> QED
      BY <1>2, <3>1, <3>2, <3>3
  <2>3. PICK e \in E : e.from <= n - 1 /\ n - 1 < e.to
    BY <1>2, <1>8
  <2>4. e.to >= n
    BY <1>2, <1>6, <2>3
  <2> DEFINE L == {b.last : b \in B}
  <2>5. n - 1 \in L /\ \A x \in L : x \in Int /\ x <= n - 1
    <3>1. f[e] \in B /\ f[e].last = n - 1
      BY <1>4, <2>2, <2>4
    <3>2. f[e].last \in L
      BY <3>1
    <3>3. \A b \in B : b.last \in Int /\ b.last <= n - 1
      BY <1>5, <2>2
    <3> QED
      BY <3>1, <3>2, <3>3
  <2> HIDE DEF L
  <2>6. PICK x : x = Max(L) /\ x \in L /\ \A y \in L : x >= y
    <3>1. \A y \in L : n - 1 >= y
      BY <1>2, <2>5
    <3> QED
      BY <2>5, <3>1 DEF Max
  <2>7. Max(L) = n - 1
    BY <1>2, <2>5, <2>6
  <2> QED
    BY <2>7 DEF L
<1>14. /\ Parts({b.items : b \in B}, items)
       /\ SumFunction([b \in B |-> Cardinality(b.items)]) = Cardinality(items)
  BY <1>9, <1>10, <1>11, <1>12, PartsAdd DEF Within
<1> QED
  BY <1>2, <1>13, <1>14 DEF InBuckets

(* Every result is in one group.                                           *)
LEMMA GroupsPart ==
  ASSUME NEW items, IsFiniteSet(items), NEW rows, NEW field, NEW B, B = Groups(items, rows, field)
  PROVE  SumFunction([b \in B |-> Cardinality(b.items)]) = Cardinality(items)
<1> DEFINE k == [r \in items |-> GroupKey(rows, r, field)]
           K == {k[r] : r \in items}
           f == [key \in K |-> [node  |-> GroupLabel(rows, key, field),
                                agent |-> IF field = "agent" /\ key # Unmapped THEN key ELSE None,
                                items |-> {r \in items : GroupKey(rows, r, field) = key}]]
<1>1. {GroupKey(rows, r, field) : r \in items} = K
  OBVIOUS
<1>2. B = {f[key] : key \in K}
  <2>1. B = {f[key] : key \in {GroupKey(rows, r, field) : r \in items}}
    BY DEF Groups
  <2> HIDE DEF f
  <2> QED
    BY <1>1, <2>1
<1>3. \A key \in K : f[key].items = {r \in items : k[r] = key}
  OBVIOUS
<1>4. IsFiniteSet(B)
  <2> HIDE DEF k, f
  <2>1. IsFiniteSet(K)
    BY FiniteImage
  <2> HIDE DEF K
  <2> QED
    BY <1>2, <2>1, FiniteImage
<1>5. \A r \in items : k[r] \in K
  OBVIOUS
<1> HIDE DEF k, K, f
<1>6. \A b \in B : \E key \in K : b = f[key]
  BY <1>2
<1>7. \A key \in K : f[key] \in B
  BY <1>2
<1>8. \A b \in B : b.items \subseteq items
  BY <1>3, <1>6
<1>9. \A r \in items : \E b \in B : r \in b.items
  BY <1>3, <1>5, <1>7
<1>10. \A b, c \in B : b = c \/ b.items \cap c.items = {}
  BY <1>3, <1>6
<1> QED
  BY <1>4, <1>8, <1>9, <1>10, PartsAdd

(* Every result of the range is on one of its days.                        *)
LEMMA SeriesParts ==
  ASSUME NEW g, IsRange(g), NEW items, Within(items, g), NEW series, series = FillSeries(items, g)
  PROVE  SumFunction([d \in DOMAIN series |-> series[d].count]) = Cardinality(items)
<1> DEFINE D == g.start..(g.end - 1)
           P == [d \in D |-> {r \in items : r.at.day = d}]
<1>1. DOMAIN series = D /\ \A d \in D : series[d].count = Cardinality(P[d])
  BY DEF FillSeries, Tally
<1>2. IsFiniteSet(D)
  BY FiniteRange DEF IsRange
<1>3. \A d \in D : IsFiniteSet(P[d])
  BY FS_Subset DEF Within
<1>4. \A d, e \in D : d = e \/ P[d] \cap P[e] = {}
  OBVIOUS
<1>5. \A r \in items : r.at.day \in D
  BY DEF Within, InRange, IsRange
<1>6. UNION {P[d] : d \in D} = items
  <2>1. \A r \in items : r \in P[r.at.day]
    BY <1>5
  <2>2. \A d \in D : P[d] \subseteq items
    OBVIOUS
  <2> HIDE DEF D, P
  <2> QED
    BY <1>5, <2>1, <2>2
<1>7. SumFunction([d \in D |-> Cardinality(P[d])]) = Cardinality(items)
  <2> HIDE DEF D, P
  <2> QED
    BY <1>2, <1>3, <1>4, <1>6, SumOfParts
<1>8. [d \in DOMAIN series |-> series[d].count] = [d \in D |-> Cardinality(P[d])]
  <2> HIDE DEF D, P
  <2> QED
    BY <1>1
<1> QED
  BY <1>7, <1>8

(* ---- reports, step by step --------------------------------------------- *)

Reporting(q) == Op(q) \in {"summary", "scorecard"}

(* What a report has read is of its range of days, or of the one before.   *)
Dated(q) ==
    LET r == txn[q].read IN
    /\ pc[q] \in {"items", "before", "previous", "map", "count", "fetch", "ever", "card"} =>
          IsRange(r.range)
    /\ pc[q] = "items" => Within(r.first, r.range)
    /\ pc[q] \in {"before", "previous", "map", "ever", "card"} => Within(r.items, r.range)
    /\ pc[q] = "previous" => Within(r.first, PreviousRange(r.range))
    /\ pc[q] = "map" => Within(r.prev, PreviousRange(r.range))

(* What EveryItemCountedOnce says of one report.                           *)
CountedOnce(op, field, r) ==
    LET sizes(parts) == [p \in parts |-> Cardinality(p.items)] IN
    /\ Parts({b.items : b \in r.body.buckets}, r.items)
    /\ SumFunction(sizes(r.body.buckets)) = Cardinality(r.items)
    /\ Max({b.last : b \in r.body.buckets}) = r.range.end - 1
    /\ op = "summary" =>
         /\ SumFunction([d \in DOMAIN r.body.series |-> r.body.series[d].count])
              = Cardinality(r.items)
         /\ SumFunction(sizes(r.body.groups))
              = IF field = "none" THEN 0 ELSE Cardinality(r.items)
         /\ \A i \in r.items, p \in r.prev : p.at.day < i.at.day
         /\ \A p \in r.prev : r.range.start - p.at.day <= r.range.end - r.range.start

CountInv ==
    /\ clock.tick >= FirstTick
    /\ \A q \in Requests : Reporting(q) =>
          Dated(q) /\ (Ended(q, 200) => CountedOnce(Op(q), call[q].field, reply[q]))

(* Which is what the property says of them all.                            *)
LEMMA CountInvCounts == CountInv => EveryItemCountedOnce
BY DEF CountInv, Reporting, CountedOnce, EveryItemCountedOnce

(* A range that a report accepts is one of the calendar.                   *)
LEMMA AcceptedRange ==
  ASSUME PlaceInv, StampInv, CountInv, NEW q \in Requests, Reporting(q),
         NEW g, g = ResolveRange(call[q].from, call[q].to, Today),
         ~RangeRefused(call[q].from, call[q].to, Today)
  PROVE  IsRange(g)
<1>1. PICK from, to, day : from = call[q].from /\ to = call[q].to /\ day = Today
  OBVIOUS
<1>2. day \in FirstDay..LastDay /\ day \in Nat /\ LastDay \in Nat
  <2>1. clock.tick \in Nat /\ FirstTick \in Nat /\ LastTick \in Nat
        /\ FirstTick <= clock.tick /\ clock.tick <= LastTick
    BY ClockAssumption DEF StampInv, CountInv
  <2>2. FirstDay \in Nat /\ day \in Nat /\ LastDay \in Nat /\ FirstDay <= day /\ day <= LastDay
    BY <1>1, <2>1, Days DEF FirstDay, LastDay, Today
  <2> QED
    BY <2>2
<1>3. /\ from \in Nat \cup {None} /\ to \in Nat \cup {None}
      /\ g.start >= 0 /\ None \notin {g, PreviousRange(g)}
  <2>1. call \in Plans
    BY DEF PlaceInv
  <2> QED
    BY <1>1, <1>2, <2>1, PlansAssumption DEF Reporting, Op
<1>4. /\ g.start = StartDay(from, to, day) /\ g.end = EndDay(from, to, day) + 1
  BY <1>1 DEF ResolveRange
<1>5. /\ g.start <= EndDay(from, to, day)
      /\ to # None => EndDay(from, to, day) <= day
  <2>1. EndDay(from, to, day) \in Nat /\ StartDay(from, to, day) \in Int
    BY <1>2, <1>3, AnalyticsAssumption DEF EndDay, StartDay
  <2> QED
    BY <1>1, <1>2, <1>4, <2>1 DEF RangeRefused
<1>6. EndDay(from, to, day) \in Nat /\ StartDay(from, to, day) \in Int
      /\ (to = None => EndDay(from, to, day) = day)
  BY <1>2, <1>3, AnalyticsAssumption DEF EndDay, StartDay
<1> QED
  BY <1>2, <1>3, <1>4, <1>5, <1>6 DEF IsRange

(* A selection by days is of those days.                                   *)
LEMMA MatchingWithin ==
  ASSUME GateInv, StampInv, NEW tenant, NEW f, NEW g, f.range = g, g # None
  PROVE  Within(Matching(tenant, f), g)
<1> DEFINE all == {results[id] : id \in DOMAIN results}
<1>1. IsFiniteSet(all)
  BY FiniteImage DEF StampInv
<1>2. Matching(tenant, f) \subseteq all /\ \A r \in Matching(tenant, f) : InRange(r, g)
  BY DEF Matching
<1>3. \A r \in all : r.at.day \in Int
  BY DEF StampInv
<1> HIDE DEF all
<1> QED
  BY <1>1, <1>2, <1>3, FS_Subset DEF Within

(* And so is whatever is selected from it.                                 *)
LEMMA PartWithin ==
  ASSUME NEW S, NEW g, Within(S, g), NEW T \in SUBSET S
  PROVE  Within(T, g)
BY FS_Subset DEF Within

(* And so are the rows of it that are there when the second query comes.    *)
LEMMA SelectionsWithin ==
  ASSUME GateInv, StampInv, NEW q \in Requests, NEW g, g # None, NEW first, Within(first, g),
         NEW f, f.range = g, NEW s \in Selections(q, first, f)
  PROVE  Within(Fetched(s.all), g)
<1>1. Within(s.all, g)
  <2>1. CASE ~AtNode(call[q])
    <3>1. s = [total |-> Cardinality(first), all |-> Matching(txn[q].tenant, f)]
      BY <2>1 DEF Selections
    <3> QED
      BY <3>1, MatchingWithin
  <2>2. CASE AtNode(call[q])
    <3>1. PICK rows : /\ rows \in RowLists(OrgRows(txn[q].tenant))
                      /\ s = [total |-> Cardinality(UnderNode(first, rows, call[q].dim, call[q].node)),
                              all |-> UnderNode(first, rows, call[q].dim, call[q].node)]
      BY <2>2 DEF Selections
    <3>2. s.all \subseteq first
      BY <3>1 DEF UnderNode
    <3> QED
      BY <3>2, PartWithin
  <2> QED
    BY <2>1, <2>2
<1>2. Fetched(s.all) \subseteq s.all
  BY DEF Fetched, Slice
<1> QED
  BY <1>1, <1>2, PartWithin

(* The filters of a report name its range.                                 *)
LEMMA FiltersInRange ==
  ASSUME NEW g, NEW agent
  PROVE  In(g).range = g /\ [In(g) EXCEPT !.rep = agent].range = g
BY DEF In, NoFilter

(* The body of a summary counts each item once.                            *)
LEMMA SummaryCounts ==
  ASSUME NEW g, IsRange(g), NEW items, Within(items, g), NEW prev, Within(prev, PreviousRange(g)),
         NEW rows, NEW bucket \in {"daily", "weekly", "monthly"}, NEW field, NEW today,
         NEW r, r.range = g, r.items = items, r.prev = prev,
         r.body = AggregateRange(items, prev, rows, g, bucket, field, today)
  PROVE  CountedOnce("summary", field, r)
<1>1. PICK B, series, G : /\ B = BuildBuckets(items, g, bucket, today)
                          /\ series = FillSeries(items, g)
                          /\ G = IF field = "none" THEN {} ELSE Groups(items, rows, field)
  OBVIOUS
<1>2. r.body.buckets = B /\ r.body.series = series /\ r.body.groups = G
  BY <1>1 DEF AggregateRange
<1>3. InBuckets(B, items, g)
  BY <1>1, BucketsPart
<1>4. SumFunction([d \in DOMAIN series |-> series[d].count]) = Cardinality(items)
  BY <1>1, SeriesParts
<1>5. SumFunction([b \in G |-> Cardinality(b.items)])
        = IF field = "none" THEN 0 ELSE Cardinality(items)
  <2>1. CASE field = "none"
    <3>1. G = {} /\ DOMAIN [b \in G |-> Cardinality(b.items)] = {}
      BY <1>1, <2>1
    <3> QED
      BY <2>1, <3>1, SumOfNone DEF SumFunction
  <2>2. CASE field # "none"
    <3>1. G = Groups(items, rows, field) /\ IsFiniteSet(items)
      BY <1>1, <2>2 DEF Within
    <3>2. SumFunction([b \in G |-> Cardinality(b.items)]) = Cardinality(items)
      BY <3>1, GroupsPart
    <3> QED
      BY <2>2, <3>2
  <2> QED
    BY <2>1, <2>2
<1>6. /\ \A i \in items, p \in prev : p.at.day < i.at.day
      /\ \A p \in prev : g.start - p.at.day <= g.end - g.start
  BY DEF Within, InRange, PreviousRange, IsRange
<1> QED
  BY <1>2, <1>3, <1>4, <1>5, <1>6 DEF CountedOnce, InBuckets

(* And that of a scorecard.                                                *)
LEMMA CardCounts ==
  ASSUME NEW g, IsRange(g), NEW items, Within(items, g),
         NEW bucket \in {"daily", "weekly", "monthly"}, NEW field, NEW today,
         NEW r, r.range = g, r.items = items,
         r.body.buckets = BuildBuckets(items, g, bucket, today)
  PROVE  CountedOnce("scorecard", field, r)
<1>1. PICK B : B = BuildBuckets(items, g, bucket, today)
  OBVIOUS
<1>2. InBuckets(B, items, g)
  BY <1>1, BucketsPart
<1> QED
  BY <1>1, <1>2 DEF CountedOnce, InBuckets

(* The middlewares and a refusal leave a report nothing to count.          *)
LEMMA NothingCounted ==
  ASSUME PlaceInv, NEW q \in Requests,
         \/ Arrive(q) \/ RequireTenant(q) \/ CommitRefused(q)
         \/ \E r : r.status # 200 /\ Answers(q, r)
  PROVE  Dated(q)' /\ ~Ended(q, 200)'
<1>1. Shape /\ (pc[q] # "closed" => reply[q].status # 200)
  BY DEF PlaceInv, Place, NoReply
<1>2. ASSUME NEW r, r.status # 200, Answers(q, r)
      PROVE  Dated(q)' /\ ~Ended(q, 200)'
  <2>1. pc'[q] = "closed" /\ reply'[q] = r
    BY <1>1, <1>2, AnswersMoves
  <2> QED
    BY <1>2, <2>1 DEF Dated, Ended
<1>3. ASSUME NEW stage, NEW t, Goes(q, stage, t), stage \in {"admitted", "run"}, pc[q] # "closed"
      PROVE  Dated(q)' /\ ~Ended(q, 200)'
  <2>1. pc'[q] = stage /\ reply'[q].status # 200
    BY <1>1, <1>3, GoesMoves
  <2> QED
    BY <1>3, <2>1 DEF Dated, Ended
<1>4. CASE Arrive(q)
  <2>1. pc[q] # "closed"
    BY <1>4 DEF Arrive
  <2>2. \/ \E a : Answers(q, [status |-> 429, retry |-> a.retry])
        \/ Answers(q, [status |-> 413])
        \/ Goes(q, "admitted", NoTxn)
    BY <1>4, Arrives
  <2>3. CASE \E a : Answers(q, [status |-> 429, retry |-> a.retry])
    BY <1>2, <2>3
  <2>4. CASE Answers(q, [status |-> 413])
    BY <1>2, <2>4
  <2>5. CASE Goes(q, "admitted", NoTxn)
    BY <1>3, <2>1, <2>5
  <2> QED
    BY <2>2, <2>3, <2>4, <2>5
<1>5. CASE RequireTenant(q)
  BY <1>2, <1>3, <1>5 DEF RequireTenant
<1>6. CASE CommitRefused(q)
  BY <1>2, <1>6 DEF CommitRefused
<1> QED
  BY <1>2, <1>4, <1>5, <1>6

(* A summary reads what is of its range and of the one before.             *)
LEMMA SummaryDated ==
  ASSUME GateInv, PlaceInv, StampInv, CountInv, NEW q \in Requests, Op(q) = "summary", Step(q)
  PROVE  Dated(q)' /\ (Ended(q, 200)' => CountedOnce("summary", call[q].field, reply'[q]))
<1>1. Reporting(q) /\ Dated(q) /\ Shape
  BY DEF CountInv, Reporting, PlaceInv
<1>2. CASE Arrive(q) \/ RequireTenant(q)
  BY <1>2, NothingCounted
<1>3. CASE ~Arrive(q) /\ ~RequireTenant(q)
  <2>0. \/ CountItems(q) \/ FetchItems(q) \/ CountPrevious(q) \/ FetchPrevious(q) \/ ReadMap(q)
    BY <1>3, WhoSteps
  <2>1. pc[q] \notin Idle
    BY <2>0 DEF CountItems, FetchItems, CountPrevious, FetchPrevious, ReadMap, Idle
  <2>2. \A f, g : f.range = g /\ g # None => Within(First(q, f), g)
    BY MatchingWithin DEF First
  <2>3. ASSUME NEW stage, NEW v, Reads(q, stage, v), stage \in {"items", "before", "previous", "map"},
               IsRange(v.range),
               stage = "items" => Within(v.first, v.range),
               stage \in {"before", "previous", "map"} => Within(v.items, v.range),
               stage = "previous" => Within(v.first, PreviousRange(v.range)),
               stage = "map" => Within(v.prev, PreviousRange(v.range))
        PROVE  Dated(q)' /\ ~Ended(q, 200)'
    <3>1. pc'[q] = stage /\ txn'[q].read = v /\ reply'[q].status # 200
      BY <2>1, <2>3, ReadsOn
    <3> QED
      BY <2>3, <3>1 DEF Dated, Ended, IsRange, Within, InRange, PreviousRange
  <2>4. CASE CountItems(q)
    <3>1. CASE Answers(q, [status |-> 400])
      BY <3>1, NothingCounted
    <3>2. CASE ~Answers(q, [status |-> 400])
      <4>1. PICK g : g = ResolveRange(call[q].from, call[q].to, Today)
        OBVIOUS
      <4>2. /\ ~RangeRefused(call[q].from, call[q].to, Today)
            /\ Reads(q, "items", [range |-> g, first |-> First(q, In(g))])
        BY <2>4, <3>2, <4>1 DEF CountItems
      <4>3. IsRange(g)
        BY <1>1, <4>1, <4>2, AcceptedRange
      <4>4. Within(First(q, In(g)), g)
        BY <2>2, <4>3, FiltersInRange DEF IsRange
      <4> QED
        BY <2>3, <4>2, <4>3, <4>4
    <3> QED
      BY <3>1, <3>2
  <2>5. CASE FetchItems(q)
    <3>1. PICK r : r = txn[q].read
      OBVIOUS
    <3>2. PICK s \in Selections(q, r.first, In(r.range)) :
             Reads(q, "before", [range |-> r.range, today |-> Today, total |-> s.total,
                                 items |-> Fetched(s.all)])
      BY <2>5, <3>1 DEF FetchItems
    <3>3. IsRange(r.range) /\ Within(r.first, r.range)
      BY <1>1, <2>5, <3>1 DEF FetchItems, Dated
    <3>4. Within(Fetched(s.all), r.range)
      BY <3>2, <3>3, FiltersInRange, SelectionsWithin DEF IsRange
    <3> QED
      BY <2>3, <3>2, <3>3, <3>4
  <2>6. CASE CountPrevious(q)
    <3>1. PICK r : r = txn[q].read
      OBVIOUS
    <3>2. IsRange(r.range) /\ Within(r.items, r.range)
      BY <1>1, <2>6, <3>1 DEF CountPrevious, Dated
    <3>3. PICK p : p = PreviousRange(r.range) /\ p # None
      BY <3>2 DEF IsRange
    <3>4. Within(First(q, In(p)), p)
      BY <2>2, <3>3, FiltersInRange
    <3>5. Reads(q, "previous", [range |-> r.range, today |-> r.today, total |-> r.total,
                                items |-> r.items, first |-> First(q, In(p))])
      BY <2>6, <3>1, <3>3 DEF CountPrevious
    <3> QED
      BY <2>3, <3>2, <3>3, <3>4, <3>5
  <2>7. CASE FetchPrevious(q)
    <3>1. PICK r : r = txn[q].read
      OBVIOUS
    <3>2. PICK s \in Selections(q, r.first, In(PreviousRange(r.range))) :
             Reads(q, "map", [range |-> r.range, today |-> r.today, total |-> r.total,
                              items |-> r.items, prev |-> Fetched(s.all)])
      BY <2>7, <3>1 DEF FetchPrevious
    <3>3. /\ IsRange(r.range) /\ Within(r.items, r.range)
          /\ Within(r.first, PreviousRange(r.range))
      BY <1>1, <2>7, <3>1 DEF FetchPrevious, Dated
    <3>4. Within(Fetched(s.all), PreviousRange(r.range))
      BY <3>2, <3>3, FiltersInRange, SelectionsWithin DEF IsRange
    <3> QED
      BY <2>3, <3>2, <3>3, <3>4
  <2>8. CASE ReadMap(q)
    <3>1. PICK v, c, bucket, field : v = txn[q].read /\ c = call[q] /\ bucket = c.bucket /\ field = c.field
      OBVIOUS
    <3>2. PICK rows, r : /\ Answers(q, r) /\ r.range = v.range /\ r.items = v.items /\ r.prev = v.prev
                         /\ r.body = AggregateRange(v.items, v.prev, rows, v.range, bucket, field,
                                                    v.today)
      BY <2>8, <3>1 DEF ReadMap
    <3>3. /\ IsRange(v.range) /\ Within(v.items, v.range)
          /\ Within(v.prev, PreviousRange(v.range))
      BY <1>1, <2>8, <3>1 DEF ReadMap, Dated
    <3>4. bucket \in {"daily", "weekly", "monthly"}
      BY <3>1, PlansAssumption DEF PlaceInv, Op
    <3>5. CountedOnce("summary", field, r)
      BY <3>2, <3>3, <3>4, SummaryCounts
    <3>6. pc'[q] = "closed" /\ reply'[q] = r
      BY <1>1, <3>2, AnswersMoves
    <3> QED
      BY <3>1, <3>5, <3>6 DEF Dated
  <2> QED
    BY <2>0, <2>4, <2>5, <2>6, <2>7, <2>8
<1> QED
  BY <1>2, <1>3

(* So does a scorecard.                                                    *)
LEMMA CardDated ==
  ASSUME GateInv, PlaceInv, StampInv, CountInv, NEW q \in Requests, Op(q) = "scorecard", Step(q)
  PROVE  Dated(q)' /\ (Ended(q, 200)' => CountedOnce("scorecard", call[q].field, reply'[q]))
<1>1. Reporting(q) /\ Dated(q) /\ Shape
  BY DEF CountInv, Reporting, PlaceInv
<1>2. CASE Arrive(q) \/ RequireTenant(q)
  BY <1>2, NothingCounted
<1>3. CASE ~Arrive(q) /\ ~RequireTenant(q)
  <2>0. \/ ReadAgentRows(q) \/ CountAgent(q) \/ FetchAgent(q) \/ LookForAny(q) \/ ShowCard(q)
    BY <1>3, WhoSteps
  <2>1. pc[q] \notin Idle
    BY <2>0 DEF ReadAgentRows, CountAgent, FetchAgent, LookForAny, ShowCard, Idle
  <2>2. ASSUME NEW stage, NEW v, Reads(q, stage, v), stage \in {"count", "fetch", "ever", "card"},
               IsRange(v.range), stage \in {"ever", "card"} => Within(v.items, v.range)
        PROVE  Dated(q)' /\ ~Ended(q, 200)'
    <3>1. pc'[q] = stage /\ txn'[q].read = v /\ reply'[q].status # 200
      BY <2>1, <2>2, ReadsOn
    <3> QED
      BY <2>2, <3>1 DEF Dated, Ended, IsRange, Within, InRange, PreviousRange
  <2>3. CASE ReadAgentRows(q)
    <3>1. CASE Answers(q, [status |-> 400])
      BY <3>1, NothingCounted
    <3>2. CASE ~Answers(q, [status |-> 400])
      <4>1. PICK g : g = ResolveRange(call[q].from, call[q].to, Today)
        OBVIOUS
      <4>2. ~RangeRefused(call[q].from, call[q].to, Today)
        BY <2>3, <3>2 DEF ReadAgentRows
      <4>3. PICK rows : Reads(q, "count", [range |-> g, rows |-> rows])
        BY <2>3, <3>2, <4>1 DEF ReadAgentRows
      <4>4. IsRange(g)
        BY <1>1, <4>1, <4>2, AcceptedRange
      <4> QED
        BY <2>2, <4>3, <4>4
    <3> QED
      BY <3>1, <3>2
  <2>4. CASE CountAgent(q)
    <3>1. IsRange(txn[q].read.range)
      BY <1>1, <2>4 DEF CountAgent, Dated
    <3> QED
      BY <2>2, <2>4, <3>1 DEF CountAgent
  <2>5. CASE FetchAgent(q)
    <3>1. PICK r : r = txn[q].read
      OBVIOUS
    <3>2. PICK S : S = Fetched(First(q, AgentFilter(q)))
      OBVIOUS
    <3>3. PICK stage, v : /\ Reads(q, stage, v) /\ stage \in {"ever", "card"}
                          /\ v.items = S /\ v.range = r.range
      BY <2>5, <3>1, <3>2 DEF FetchAgent
    <3>4. IsRange(r.range)
      BY <1>1, <2>5, <3>1 DEF FetchAgent, Dated
    <3>5. Within(First(q, AgentFilter(q)), r.range)
      <4>1. PICK f : f = AgentFilter(q)
        OBVIOUS
      <4>2. f.range = r.range
        BY <3>1, <4>1, FiltersInRange DEF AgentFilter
      <4>3. Within(Matching(txn[q].tenant, f), r.range)
        BY <3>4, <4>2, MatchingWithin DEF IsRange
      <4> QED
        BY <4>1, <4>3 DEF First
    <3>6. Within(S, r.range)
      BY <3>2, <3>5, PartWithin DEF Fetched, Slice
    <3> QED
      BY <2>2, <3>3, <3>4, <3>6
  <2>6. CASE LookForAny(q)
    <3>1. PICK v : v = txn[q].read
      OBVIOUS
    <3>2. Answers(q, [status |-> 404]) \/ Reads(q, "card", v)
      BY <2>6, <3>1 DEF LookForAny
    <3>3. IsRange(v.range) /\ Within(v.items, v.range)
      BY <1>1, <2>6, <3>1 DEF LookForAny, Dated
    <3>4. CASE Answers(q, [status |-> 404])
      BY <3>4, NothingCounted
    <3> QED
      BY <2>2, <3>2, <3>3, <3>4
  <2>7. CASE ShowCard(q)
    <3>1. PICK v, bucket, today : v = txn[q].read /\ bucket = call[q].bucket /\ today = Today
      OBVIOUS
    <3>2. PICK r : /\ Answers(q, r) /\ r.range = v.range /\ r.items = v.items
                   /\ r.body.buckets = BuildBuckets(v.items, v.range, bucket, today)
      BY <2>7, <3>1 DEF ShowCard, Scorecard
    <3>3. IsRange(v.range) /\ Within(v.items, v.range)
      BY <1>1, <2>7, <3>1 DEF ShowCard, Dated
    <3>4. bucket \in {"daily", "weekly", "monthly"}
      BY <3>1, PlansAssumption DEF PlaceInv, Op
    <3>5. CountedOnce("scorecard", call[q].field, r)
      BY <3>2, <3>3, <3>4, CardCounts
    <3>6. pc'[q] = "closed" /\ reply'[q] = r
      BY <1>1, <3>2, AnswersMoves
    <3> QED
      BY <3>5, <3>6 DEF Dated
  <2> QED
    BY <2>0, <2>3, <2>4, <2>5, <2>6, <2>7
<1> QED
  BY <1>2, <1>3

(* Every step keeps reports to their ranges.                               *)
LEMMA CountNext ==
  GateInv /\ PlaceInv /\ StampInv /\ CountInv /\ [Next]_vars => CountInv'
<1> SUFFICES ASSUME GateInv, PlaceInv, StampInv, CountInv, [Next]_vars
             PROVE  CountInv'
  OBVIOUS
<1>1. ASSUME NEW q \in Requests, Step(q) \/ CommitRefused(q)
      PROVE  CountInv'
  <2>1. /\ call' = call /\ clock'.tick = clock.tick
        /\ \A p \in Requests \ {q} : pc'[p] = pc[p] /\ txn'[p] = txn[p] /\ reply'[p] = reply[p]
    <3>1. Turn(q)
      BY <1>1, StepTurn
    <3>2. clock'.tick = clock.tick
      BY <3>1 DEF Turn, NextSerial, PlaceInv, Shape
    <3> QED
      BY <3>1, <3>2, OthersStay DEF Turn
  <2>2. ASSUME NEW p \in Requests, p # q, Reporting(p)
        PROVE  Dated(p)' /\ (Ended(p, 200)' => CountedOnce(Op(p), call[p].field, reply'[p]))
    <3>1. Dated(p)'
      BY <2>1, <2>2 DEF CountInv, Dated, IsRange, Within, InRange, PreviousRange
    <3> QED
      BY <2>1, <2>2, <3>1 DEF CountInv, Ended
  <2>3. ASSUME Reporting(q)
        PROVE  Dated(q)' /\ (Ended(q, 200)' => CountedOnce(Op(q), call[q].field, reply'[q]))
    <3>1. CASE CommitRefused(q)
      BY <3>1, NothingCounted
    <3>2. CASE Step(q)
      BY <2>3, <3>2, SummaryDated, CardDated DEF Reporting
    <3> QED
      BY <1>1, <3>1, <3>2
  <2>4. \A p \in Requests : Reporting(p)' = Reporting(p) /\ Op(p)' = Op(p)
    BY <2>1 DEF Reporting, Op
  <2>5. \A p \in Requests : Reporting(p) =>
           Dated(p)' /\ (Ended(p, 200)' => CountedOnce(Op(p), call[p].field, reply'[p]))
    BY <2>2, <2>3
  <2> QED
    BY <2>1, <2>4, <2>5 DEF CountInv, CountedOnce, Parts
<1>2. CASE Rests
  <2>1. pc' = pc /\ txn' = txn /\ reply' = reply /\ call' = call
    BY <1>2 DEF Rests, Tick, Respond, vars, flow, ambient
  <2>2. clock'.tick >= FirstTick
    <3>1. clock.tick \in Int /\ FirstTick \in Int /\ clock.tick >= FirstTick
      BY ClockAssumption DEF StampInv, CountInv
    <3>2. clock'.tick \in {clock.tick, clock.tick + 1}
      BY <1>2 DEF Rests, Tick, Respond, vars, ambient, PlaceInv, Shape
    <3> QED
      BY <3>1, <3>2
  <2>3. ASSUME NEW p \in Requests, Reporting(p)
        PROVE  Dated(p)' /\ (Ended(p, 200)' => CountedOnce(Op(p), call[p].field, reply'[p]))
    BY <2>1, <2>3 DEF CountInv, Dated, IsRange, Within, InRange, PreviousRange, Ended
  <2> QED
    BY <2>1, <2>2, <2>3 DEF CountInv, CountedOnce, Parts, Reporting, Op
<1> QED
  BY <1>1, <1>2 DEF Next, Rests

(* At the start no report has been read or answered.                       *)
LEMMA CountInit == Init => CountInv
<1> SUFFICES ASSUME Init
             PROVE  CountInv
  OBVIOUS
<1>1. clock.tick >= FirstTick
  BY ClockAssumption DEF Init
<1>2. ASSUME NEW q \in Requests
      PROVE  pc[q] \in {"new", "closed"} /\ reply[q].status # 200
  BY DEF Init, NoReply
<1> QED
  BY <1>1, <1>2 DEF CountInv, Dated, Ended

(* Every result of a report is counted in one bucket, one group and one    *)
(* day (api/analytics.py, api/date_range.py), for any calendar, range and  *)
(* org map, while others store and upload.                                 *)
THEOREM CountingTheorem == Spec => []EveryItemCountedOnce
<1>1. Init => GateInv /\ PlaceInv /\ StampInv /\ CountInv
  BY GateInit, PlaceInit, StampInit, CountInit
<1>2. GateInv /\ PlaceInv /\ StampInv /\ CountInv /\ [Next]_vars
        => (GateInv /\ PlaceInv /\ StampInv /\ CountInv)'
  BY BothNext, StampNext, CountNext
<1> QED
  BY <1>1, <1>2, CountInvCounts, PTL DEF Spec

(* ---- the rate limiter -------------------------------------------------- *)

Tiers == {"compute", "general"}

Passed(client, tier) == {h \in Counts(client, tier) : h.by # tier}

(* Every arrival is one of a request, which arrives once for each page, and *)
(* it was turned away only by a tier with a limit.                         *)
Arrived(h) ==
    /\ h.q \in Requests /\ h.by \in {"none"} \cup Tiers
    /\ h.tick \in Int /\ h.tick <= clock.tick
    /\ h.page \in Int /\ h.page <= page[h.q].offset
    /\ pc[h.q] = "new" => h.page < page[h.q].offset
    /\ h.by # "none" => Limit[h.by] # 0 /\ Op(h.q) \in LimitedOps

Fair(client, tier) ==
    /\ Records(windows, <<client, tier>>, Counts(client, tier), Passed(client, tier),
               Limit[tier], clock.tick)
    /\ Slides(Passed(client, tier), Limit[tier])

Earned(h) ==
    Cardinality(Since(Counts(Client(call[h.q]), h.by), h.tick - Window + 1, h.tick + 1))
       > Limit[h.by]

LimitInv ==
    /\ IsTable(windows, clock.tick)
    /\ IsFiniteSet(hits) /\ \A h \in hits : Arrived(h)
    /\ \A q \in Requests : page[q].offset \in Nat
    /\ \A q \in Requests : \A tier \in Tiers : Limit[tier] # 0 => Fair(Client(call[q]), tier)
    /\ \A h \in hits : h.by # "none" => Earned(h)

(* What is counted are finitely many requests up to now.                   *)
LEMMA CountsCount ==
  ASSUME LimitInv, NEW client, NEW tier
  PROVE  Counting(Counts(client, tier), Passed(client, tier), clock.tick)
<1>1. Counts(client, tier) \subseteq hits /\ Passed(client, tier) \subseteq Counts(client, tier)
  BY DEF Counts, Passed
<1>2. IsFiniteSet(Counts(client, tier))
  BY <1>1, FS_Subset DEF LimitInv
<1> QED
  BY <1>1, <1>2 DEF Counting, LimitInv, Arrived

(* It is the invariant from which both properties follow.                  *)
LEMMA LimitsHold == LimitInv => SlidingBound /\ RefusalIsEarned
<1> SUFFICES ASSUME LimitInv
             PROVE  SlidingBound /\ RefusalIsEarned
  OBVIOUS
<1>1. RefusalIsEarned
  BY DEF LimitInv, Earned, RefusalIsEarned
<1>2. ASSUME NEW client \in {Client(call[h.q]) : h \in hits}, NEW tier \in DOMAIN Limit,
             Limit[tier] # 0, NEW h \in hits
      PROVE  Cardinality({g \in Since(Counts(client, tier), h.tick, h.tick + Window) : g.by # tier})
                <= 2 * Limit[tier]
  <2>1. tier \in Tiers
    BY RateLimiterAssumption DEF Tiers
  <2>2. PICK q \in Requests : client = Client(call[q])
    BY DEF LimitInv, Arrived
  <2>3. Slides(Passed(client, tier), Limit[tier])
    BY <1>2, <2>1, <2>2 DEF LimitInv, Fair
  <2>4. h.tick \in Int
    BY DEF LimitInv, Arrived
  <2>5. {g \in Since(Counts(client, tier), h.tick, h.tick + Window) : g.by # tier}
          = Span(Passed(client, tier), h.tick, h.tick + Window)
    BY DEF Since, Span, Passed
  <2> QED
    BY <2>3, <2>4, <2>5 DEF Slides
<1>3. SlidingBound
  BY <1>2 DEF SlidingBound
<1> QED
  BY <1>1, <1>3

(* A step that is no arrival lets a request arrive again only for a later  *)
(* page.                                                                   *)
LEMMA PagesForth ==
  ASSUME PlaceInv, ShownInv, LimitInv, NEW q \in Requests, Step(q) \/ CommitRefused(q), ~Arrive(q),
         NEW p \in Requests
  PROVE  /\ page'[p].offset \in Nat /\ page[p].offset <= page'[p].offset
         /\ pc'[p] = "new" => \/ pc[p] = "new" /\ page'[p].offset = page[p].offset
                              \/ page[p].offset < page'[p].offset
<1>1. /\ page = [o \in Requests |-> page[o]] /\ page' = [page EXCEPT ![q] = page'[q]]
      /\ \A o \in Requests \ {q} : pc'[o] = pc[o]
      /\ page[p].offset \in Nat /\ IsPage(page[q]) /\ Shape /\ call \in Plans
  <2>1. Turn(q)
    BY StepTurn
  <2> QED
    BY <2>1, OthersStay, PageMoves DEF PlaceInv, LimitInv, ShownInv
<1>2. CASE p # q
  BY <1>1, <1>2
<1>3. CASE p = q /\ (ListPage(q) \/ ListUnderNode(q))
  <2>1. PICK rows, total : GetsPage(q, rows, total)
    BY <1>3 DEF ListPage, ListUnderNode
  <2>2. page'[q] = [offset |-> page[q].offset + call[q].limit,
                    got |-> page[q].got \cup {r.id : r \in rows}, base |-> page[q].base]
    BY <1>1, <2>1 DEF GetsPage, IsPage
  <2>3. Op(q) = "list"
    BY <1>3 DEF ListPage, ListUnderNode
  <2>4. call[q].limit \in Nat \ {0}
    BY <1>1, <2>3, PlansAssumption DEF Op
  <2> QED
    BY <1>1, <1>3, <2>2, <2>4
<1>4. CASE p = q /\ CountResults(q)
  <2>1. page'[q].offset = page[q].offset
    BY <1>1, <1>4 DEF CountResults, IsPage
  <2>2. pc'[q] # "new"
    BY <1>1, <1>4, GoesMoves, AnswersMoves DEF CountResults
  <2> QED
    BY <1>1, <1>4, <2>1, <2>2
<1>5. CASE p = q /\ ~(CountResults(q) \/ ListPage(q) \/ ListUnderNode(q))
  <2>1. page' = page
    BY <1>5, WhoWrites
  <2>0. Shape
    BY <1>1
  <2>2. ASSUME NEW r, Answers(q, r)
        PROVE  pc'[q] # "new"
    BY <2>0, <2>2, AnswersMoves
  <2>3. ASSUME NEW stage, NEW t, Goes(q, stage, t), stage # "new"
        PROVE  pc'[q] # "new"
    BY <2>0, <2>3, GoesMoves
  <2>4. ASSUME ApiStep(q)
        PROVE  pc'[q] # "new"
    BY <2>2, <2>3, <2>4 DEF ApiStep, RequireTenant, MintKey, RevokeKey, CommitKey, LookUpTenant,
                            InsertTenant, UpdateTenant, CommitTenant
  <2>5. ASSUME ScoreStep(q)
        PROVE  pc'[q] # "new"
    BY <2>2, <2>3, <2>5 DEF ScoreStep, StartRow, StartScore, TakesPlace, LookForDuplicate,
                            RecordVerdict, ModelAnswers, ModelFails, CommitScore
  <2>6. ASSUME RecordStep(q)
        PROVE  pc'[q] # "new"
    BY <1>5, <2>2, <2>3, <2>6
       DEF RecordStep, LoadForReview, WriteReview, CommitReview, GetResult, StartUpload,
           StartDelete, DeleteAndInsert, PreviewUpload, CommitUpload, ReadStatusRows,
           ReadStatusReps
  <2>7. ASSUME ReportStep(q)
        PROVE  pc'[q] # "new"
    BY <2>2, <2>3, <2>7
       DEF ReportStep, CountItems, FetchItems, CountPrevious, FetchPrevious, ReadMap,
           ReadAgentRows, CountAgent, FetchAgent, LookForAny, ShowCard, Reads
  <2>8. ASSUME CommitRefused(q)
        PROVE  pc'[q] # "new"
    BY <2>2, <2>8 DEF CommitRefused
  <2>9. pc'[q] # "new"
    BY <2>4, <2>5, <2>6, <2>7, <2>8 DEF Step
  <2> QED
    BY <1>1, <1>5, <2>1, <2>9
<1> QED
  BY <1>2, <1>3, <1>4, <1>5

(* A step that is no arrival leaves the limiter alone.                     *)
LEMMA LimitStays ==
  ASSUME PlaceInv, ShownInv, LimitInv, NEW q \in Requests, Step(q) \/ CommitRefused(q), ~Arrive(q)
  PROVE  LimitInv'
<1>1. windows' = windows /\ hits' = hits /\ call' = call /\ clock'.tick = clock.tick
  <2>1. Turn(q) /\ Shape
    BY StepTurn DEF PlaceInv
  <2>2. clock'.tick = clock.tick
    BY <2>1 DEF Turn, NextSerial, Shape
  <2> QED
    BY <2>1, <2>2, WhoWrites DEF Turn
<1>2. \A p \in Requests :
         /\ page'[p].offset \in Nat /\ page[p].offset <= page'[p].offset
         /\ pc'[p] = "new" => \/ pc[p] = "new" /\ page'[p].offset = page[p].offset
                              \/ page[p].offset < page'[p].offset
         /\ page[p].offset \in Nat
  BY PagesForth DEF LimitInv
<1>3. \A p \in Requests : Op(p)' = Op(p)
  BY <1>1 DEF Op
<1>4. ASSUME NEW h \in hits
      PROVE  Arrived(h)'
  <2>1. Arrived(h) /\ h.q \in Requests
    BY DEF LimitInv, Arrived
  <2> QED
    BY <1>1, <1>2, <1>3, <2>1 DEF Arrived
<1>5. \A client, tier : Counts(client, tier)' = Counts(client, tier)
  BY <1>1 DEF Counts, Op
<1>6. \A client, tier : Fair(client, tier) => Fair(client, tier)'
  <2>1. \A client, tier : Passed(client, tier)' = Passed(client, tier)
    BY <1>5 DEF Passed
  <2> QED
    BY <1>1, <1>5, <2>1 DEF Fair
<1>7. \A h : Earned(h) => Earned(h)'
  BY <1>1, <1>5 DEF Earned
<1> QED
  BY <1>1, <1>2, <1>4, <1>6, <1>7 DEF LimitInv

(* Nor does time make it forget what it must know.                         *)
LEMMA LimitTicks ==
  ASSUME PlaceInv, StampInv, LimitInv, Rests
  PROVE  LimitInv'
<1>1. /\ windows' = windows /\ hits' = hits /\ call' = call /\ pc' = pc /\ page' = page
      /\ clock.tick \in Int /\ clock'.tick \in {clock.tick, clock.tick + 1}
  BY DEF Rests, Tick, Respond, vars, flow, tables, ambient, PlaceInv, Shape, StampInv
<1>2. PICK now, later : now = clock.tick /\ later = clock'.tick
  OBVIOUS
<1>3. now \in Int /\ later \in {now, now + 1} /\ now <= later
  BY <1>1, <1>2
<1>4. \A client, tier : /\ Counts(client, tier)' = Counts(client, tier)
                        /\ Passed(client, tier)' = Passed(client, tier)
  BY <1>1 DEF Counts, Passed, Op
<1>5. IsTable(windows, clock.tick)'
  BY <1>1, <1>2, <1>3 DEF LimitInv, IsTable, Windows
<1>6. \A h \in hits : Arrived(h)'
  BY <1>1, <1>2, <1>3 DEF LimitInv, Arrived, Op
<1>7. ASSUME NEW client, NEW tier \in Tiers, Limit[tier] # 0, Fair(client, tier)
      PROVE  Fair(client, tier)'
  <2>1. PICK C, P, limit, k : /\ C = Counts(client, tier) /\ P = Passed(client, tier)
                              /\ limit = Limit[tier] /\ k = <<client, tier>>
    OBVIOUS
  <2>2. limit \in Nat /\ Counting(C, P, now)
    BY <1>2, <2>1, CountsCount, RateLimiterAssumption DEF Tiers
  <2>3. Records(windows, k, C, P, limit, now) /\ Slides(P, limit)
    BY <1>2, <1>7, <2>1 DEF Fair
  <2>4. Records(windows, k, C, P, limit, later)
    <3>1. CASE later = now
      BY <2>3, <3>1
    <3>2. CASE later = now + 1
      BY <1>3, <2>2, <2>3, <3>2, RestsOn, StandsOn DEF Records
    <3> QED
      BY <1>3, <3>1, <3>2
  <2> QED
    BY <1>1, <1>2, <1>4, <2>1, <2>3, <2>4 DEF Fair
<1>8. \A h : Earned(h) => Earned(h)'
  BY <1>1, <1>4 DEF Earned
<1>9. \A p \in Requests : page'[p].offset \in Nat
  BY <1>1 DEF LimitInv
<1> QED
  BY <1>1, <1>5, <1>6, <1>7, <1>8, <1>9 DEF LimitInv

(* An arrival is counted and judged as it should.                          *)
LEMMA LimitArrives ==
  ASSUME PlaceInv, StampInv, LimitInv, NEW q \in Requests, Arrive(q)
  PROVE  LimitInv'
<1>1. PICK a : a = IF Op(q) \in LimitedOps
                   THEN Admit(windows, Client(call[q]), Op(q) = "score", clock.tick)
                   ELSE [by |-> "none", windows |-> windows, retry |-> 0]
  OBVIOUS
<1>2. PICK h, now, client, compute :
         /\ h = [q |-> q, page |-> page[q].offset, by |-> a.by, tick |-> clock.tick]
         /\ now = clock.tick /\ client = Client(call[q]) /\ compute = (Op(q) = "score")
  OBVIOUS
<1>3. /\ windows' = a.windows /\ hits' = hits \cup {h} /\ call' = call /\ clock' = clock
      /\ page' = page /\ pc[q] = "new"
      /\ h.q = q /\ h.page = page[q].offset /\ h.by = a.by /\ h.tick = now
  BY <1>1, <1>2 DEF Arrive
<1>4. now \in Int /\ compute \in BOOLEAN /\ IsTable(windows, now) /\ Shape
  BY <1>2 DEF StampInv, LimitInv, PlaceInv
<1>5. \A p \in Requests : /\ pc'[p] = "new" => pc[p] = "new" /\ p # q
                          /\ page[p].offset \in Nat /\ Op(p)' = Op(p)
  <2>1. pc'[q] # "new"
    <3>1. \/ \E r : Answers(q, [status |-> 429, retry |-> r.retry])
          \/ Answers(q, [status |-> 413])
          \/ Goes(q, "admitted", NoTxn)
      BY Arrives
    <3>2. CASE \E r : Answers(q, [status |-> 429, retry |-> r.retry])
      BY <1>4, <3>2, AnswersMoves
    <3>3. CASE Answers(q, [status |-> 413])
      BY <1>4, <3>3, AnswersMoves
    <3>4. CASE Goes(q, "admitted", NoTxn)
      BY <1>4, <3>4, GoesMoves
    <3> QED
      BY <3>1, <3>2, <3>3, <3>4
  <2>2. \A p \in Requests \ {q} : pc'[p] = pc[p]
    BY StepTurn, OthersStay DEF Step, ApiStep
  <2> QED
    BY <1>3, <2>1, <2>2 DEF LimitInv, Op
<1>6. h \notin hits
  BY <1>3 DEF LimitInv, Arrived
<1>7. /\ IsTable(a.windows, now) /\ a.by \in {"none", "compute", "general"}
      /\ a.by # "none" => Limit[a.by] # 0 /\ Op(q) \in LimitedOps
      /\ a.by = "compute" => compute
  <2>1. CASE Op(q) \in LimitedOps
    <3>1. a = Admit(windows, client, compute, now)
      BY <1>1, <1>2, <2>1
    <3> QED
      BY <1>4, <2>1, <3>1, AdmitTable
  <2>2. CASE Op(q) \notin LimitedOps
    <3>1. a.by = "none" /\ a.windows = windows
      BY <1>1, <2>2
    <3> QED
      BY <1>4, <3>1
  <2> QED
    BY <2>1, <2>2
<1>8. ASSUME NEW g \in hits'
      PROVE  Arrived(g)'
  <2>1. CASE g \in hits
    <3>1. Arrived(g)
      BY <2>1 DEF LimitInv
    <3> QED
      BY <1>3, <1>5, <3>1 DEF Arrived
  <2>2. CASE g = h
    BY <1>2, <1>3, <1>4, <1>5, <1>7, <2>2 DEF Arrived, Tiers
  <2> QED
    BY <1>3, <2>1, <2>2
<1>9. ASSUME NEW c, NEW tier \in Tiers
      PROVE  /\ Counts(c, tier) \subseteq Counts(c, tier)'
             /\ IsFiniteSet(Counts(c, tier)')
             /\ Limit[tier] # 0 /\ Fair(c, tier) =>
                   /\ Fair(c, tier)'
                   /\ c = client /\ a.by = tier =>
                        Cardinality(Span(Counts(c, tier)', now - Window + 1, now + 1)) > Limit[tier]
  <2>1. PICK C, P, limit, k : /\ C = Counts(c, tier) /\ P = Passed(c, tier)
                              /\ limit = Limit[tier] /\ k = <<c, tier>>
    OBVIOUS
  <2>2. PICK limited \in BOOLEAN : limited <=> Op(q) \in LimitedOps
    OBVIOUS
  <2>3. PICK counted \in BOOLEAN :
           counted <=> c = client /\ (IF tier = "compute" THEN compute ELSE a.by # "compute")
    OBVIOUS
  <2>4. PICK D, Q : /\ D = (IF limited /\ counted THEN C \cup {h} ELSE C)
                    /\ Q = (IF limited /\ counted /\ a.by # tier THEN P \cup {h} ELSE P)
    OBVIOUS
  <2>5. Counting(C, P, now) /\ h \notin C
    BY <1>2, <1>6, <2>1, CountsCount DEF Counts
  <2>6. Counts(c, tier)' = D /\ Passed(c, tier)' = Q
    <3>1. \A g \in hits : /\ g \in Counts(c, tier)' <=> g \in C
                          /\ g \in Passed(c, tier)' <=> g \in P
      BY <1>3, <2>1 DEF Counts, Passed, Op
    <3>2. /\ h \in Counts(c, tier)' <=> limited /\ counted
          /\ h \in Passed(c, tier)' <=> limited /\ counted /\ a.by # tier
      BY <1>2, <1>3, <2>2, <2>3 DEF Counts, Passed, Op
    <3>3. /\ Counts(c, tier)' \subseteq hits \cup {h} /\ Passed(c, tier)' \subseteq hits \cup {h}
          /\ C \subseteq hits /\ P \subseteq hits
      BY <1>3, <2>1 DEF Counts, Passed
    <3> QED
      BY <2>4, <3>1, <3>2, <3>3
  <2>7. C \subseteq D /\ IsFiniteSet(D)
    BY <2>4, <2>5, FS_AddElement DEF Counting
  <2>8. ASSUME limit # 0, Fair(c, tier)
        PROVE  /\ Counting(D, Q, now) /\ Records(a.windows, k, D, Q, limit, now)
               /\ Slides(Q, limit)
               /\ c = client /\ a.by = tier => Cardinality(Span(D, now - Window + 1, now + 1)) > limit
    <3>1. Records(windows, k, C, P, limit, now) /\ Slides(P, limit)
      BY <1>2, <2>1, <2>8 DEF Fair
    <3>2. CASE limited
      <4>1. a = Admit(windows, client, compute, now)
        BY <1>1, <1>2, <2>2, <3>2
      <4>2. /\ D = IF counted THEN C \cup {h} ELSE C
            /\ Q = IF counted /\ a.by # tier THEN P \cup {h} ELSE P
        BY <2>4, <3>2
      <4>3. tier \in {"compute", "general"} /\ Limit[tier] # 0 /\ h.tick = now
        BY <1>3, <2>1, <2>8 DEF Tiers
      <4>4. Records(windows, <<c, tier>>, C, P, Limit[tier], now) /\ Slides(P, Limit[tier])
        BY <2>1, <3>1
      <4>5. Joins(windows, client, compute, now, a, h, c, tier, counted, C, P, D, Q)
        BY Zenon, <1>4, <2>3, <2>5, <4>1, <4>2, <4>3, <4>4 DEF Joins
      <4>7. /\ Counting(D, Q, now) /\ Records(a.windows, <<c, tier>>, D, Q, Limit[tier], now)
            /\ Slides(Q, Limit[tier])
            /\ c = client /\ a.by = tier =>
                  Cardinality(Span(D, now - Window + 1, now + 1)) > Limit[tier]
        BY Zenon, <4>5, AdmitRecords
      <4> QED
        BY <2>1, <4>7
    <3>3. CASE ~limited
      <4>1. a.by = "none" /\ a.windows = windows
        BY <1>1, <2>2, <3>3
      <4>2. D = C /\ Q = P
        BY <2>4, <3>3
      <4>3. a.by # tier
        BY <4>1 DEF Tiers
      <4> QED
        BY <2>5, <3>1, <4>1, <4>2, <4>3
    <3> QED
      BY <3>2, <3>3
  <2>9. Fair(c, tier)' <=> Records(a.windows, k, D, Q, limit, now) /\ Slides(Q, limit)
    <3>1. windows' = a.windows /\ clock'.tick = now
      BY <1>2, <1>3
    <3> QED
      BY <2>1, <2>6, <3>1 DEF Fair
  <2> QED
    BY <2>1, <2>6, <2>7, <2>8, <2>9
<1>10. ASSUME NEW p \in Requests, NEW tier \in Tiers, Limit[tier] # 0
       PROVE  Fair(Client(call[p]), tier)'
  <2>1. PICK c : c = Client(call[p])
    OBVIOUS
  <2>2. Fair(c, tier)
    BY <1>10, <2>1 DEF LimitInv
  <2>3. Fair(c, tier)'
    BY Zenon, <1>9, <1>10, <2>2
  <2>4. c = Client(call'[p])
    BY <1>3, <2>1
  <2> QED
    BY Zenon, <2>3, <2>4 DEF Fair, Counts, Passed
<1>11. ASSUME NEW g \in hits', g.by # "none"
       PROVE  Earned(g)'
  <2>1. Arrived(g)'
    BY <1>8
  <2>2. PICK c, tier : c = Client(call[g.q]) /\ tier = g.by
    OBVIOUS
  <2>3. tier \in Tiers /\ Limit[tier] # 0 /\ g.q \in Requests /\ g.tick \in Int
    BY <1>11, <2>1, <2>2 DEF Arrived
  <2>0. PICK from, until : from = g.tick - Window + 1 /\ until = g.tick + 1
    OBVIOUS
  <2>4. PICK S, T : /\ S = Since(Counts(c, tier), from, until)
                    /\ T = {e \in Counts(c, tier)' : from <= e.tick /\ e.tick < until}
    OBVIOUS
  <2>5. Earned(g)' <=> Cardinality(T) > Limit[tier]
    BY <1>3, <2>0, <2>2, <2>4 DEF Earned, Since
  <2>6. CASE g \in hits
    <3>1. Cardinality(S) > Limit[tier]
      BY <1>11, <2>0, <2>2, <2>4, <2>6 DEF LimitInv, Earned
    <3>2. S \subseteq T /\ IsFiniteSet(T)
      BY <1>9, <2>3, <2>4, FS_Subset DEF Since
    <3>3. PICK x, y : x = Cardinality(S) /\ y = Cardinality(T)
      OBVIOUS
    <3>4. x \in Nat /\ y \in Nat /\ x <= y
      BY <3>2, <3>3, Fewer
    <3>5. Limit[tier] \in Nat
      BY <2>3, RateLimiterAssumption DEF Tiers
    <3> QED
      BY <2>5, <3>1, <3>3, <3>4, <3>5
  <2>7. CASE g = h
    <3>1. c = client /\ a.by = tier /\ g.tick = now
      BY <1>2, <1>3, <2>2, <2>7
    <3>2. Fair(c, tier)
      BY <2>2, <2>3 DEF LimitInv
    <3>3. Cardinality(Span(Counts(c, tier)', now - Window + 1, now + 1)) > Limit[tier]
      BY <1>9, <2>3, <3>1, <3>2
    <3>4. T = Span(Counts(c, tier)', now - Window + 1, now + 1)
      BY <2>0, <2>4, <3>1 DEF Span
    <3> QED
      BY <2>5, <3>3, <3>4
  <2> QED
    BY <1>3, <2>6, <2>7
<1>12. IsFiniteSet(hits') /\ IsTable(windows', clock'.tick)
  BY <1>2, <1>3, <1>7, FS_AddElement DEF LimitInv
<1>13. \A p \in Requests : \A tier \in Tiers : Limit[tier] # 0 => Fair(Client(call[p]), tier)'
  BY <1>10
<1> QED
  BY <1>3, <1>5, <1>8, <1>11, <1>12, <1>13 DEF LimitInv

(* At the start the table is empty and nobody has arrived.                 *)
LEMMA LimitInit == Init => LimitInv
<1> SUFFICES ASSUME Init
             PROVE  LimitInv
  OBVIOUS
<1>1. /\ windows = <<>> /\ hits = {} /\ clock.tick = FirstTick
      /\ \A q \in Requests : page[q].offset = 0
  BY DEF Init
<1>2. DOMAIN windows = {} /\ IsTable(windows, clock.tick)
  BY <1>1 DEF IsTable
<1>3. IsFiniteSet(hits) /\ Cardinality({}) = 0
  BY <1>1, FS_EmptySet
<1>4. ASSUME NEW client, NEW tier \in Tiers
      PROVE  Fair(client, tier)
  <2>1. Counts(client, tier) = {} /\ Passed(client, tier) = {} /\ Limit[tier] \in Nat
    BY <1>1, RateLimiterAssumption DEF Counts, Passed, Tiers
  <2>2. \A a, b : From({}, a) = {} /\ Span({}, a, b) = {}
    BY DEF From, Span
  <2>3. /\ Cardinality({}) <= Limit[tier] /\ Cardinality({}) <= 2 * Limit[tier]
    <3>1. PICK limit \in Nat : limit = Limit[tier]
      BY <2>1
    <3> QED
      BY <1>3, <3>1
  <2>4. Slides({}, Limit[tier])
    BY <2>2, <2>3 DEF Slides
  <2>5. Rested({}, {}, Limit[tier], clock.tick)
    BY <2>2, <2>3 DEF Rested
  <2>6. Records(windows, <<client, tier>>, {}, {}, Limit[tier], clock.tick)
    BY <1>2, <2>5 DEF Records
  <2> QED
    BY <2>1, <2>4, <2>6 DEF Fair
<1> QED
  BY <1>1, <1>2, <1>3, <1>4 DEF LimitInv

(* In every reachable state the table stands for the requests counted.     *)
THEOREM LimitInvariant == Spec => []LimitInv
<1>1. Init => GateInv /\ PlaceInv /\ AccessInv /\ StampInv /\ ShownInv /\ LimitInv
  BY GateInit, PlaceInit, AccessInit, StampInit, ShownInit, LimitInit
<1>2. ASSUME PlaceInv, StampInv, ShownInv, LimitInv, [Next]_vars
      PROVE  LimitInv'
  <2>1. ASSUME NEW q \in Requests, Step(q) \/ CommitRefused(q)
        PROVE  LimitInv'
    BY <1>2, <2>1, LimitStays, LimitArrives
  <2> QED
    BY <1>2, <2>1, LimitTicks DEF Next, Rests
<1>3. GateInv /\ PlaceInv /\ AccessInv /\ StampInv /\ ShownInv /\ LimitInv /\ [Next]_vars
        => (GateInv /\ PlaceInv /\ AccessInv /\ StampInv /\ ShownInv /\ LimitInv)'
  BY <1>2, BothNext, AccessNext, StampNext, ShownNext
<1> QED
  BY <1>1, <1>3, PTL DEF Spec

(* Any Window seconds see at most twice the limit of a client's requests   *)
(* pass a tier, however its windows fall.                                  *)
THEOREM SlidingTheorem == Spec => []SlidingBound
<1>1. LimitInv => SlidingBound
  BY LimitsHold
<1> QED
  BY <1>1, LimitInvariant, PTL

(* Nobody is turned away who has not sent more than the limit within the   *)
(* window.                                                                 *)
THEOREM RefusalTheorem == Spec => []RefusalIsEarned
<1>1. LimitInv => RefusalIsEarned
  BY LimitsHold
<1> QED
  BY <1>1, LimitInvariant, PTL

(* ---- the types ---------------------------------------------------------- *)

(* An id that normalize_id has made.                                       *)
Normal(id) == NormalizeId(id) = id

States == {"absent", "active", "inactive"}

(* What q is about to write.                                               *)
Writes(q) ==
    LET w == txn[q].write IN
    /\ IsScoring(q) /\ pc[q] \notin Idle => txn[q].tenant \in Slugs
    /\ IsScoring(q) /\ pc[q] = "exit" =>
          w.tenant \in Slugs /\ w.band \in Bands /\ Normal(w.rep)
    /\ Op(q) \in AdminOps /\ pc[q] = "write" => w = None
    /\ Op(q) \in AdminOps /\ pc[q] = "exit" => w = None \/ w.state \in States
    /\ Op(q) = "upload" /\ pc[q] = "delete" => \A r \in txn[q].read.rows : Normal(r.agent)
    /\ Op(q) = "upload" /\ pc[q] \in {"lock", "preview", "exit"} =>
          \A r \in w.rows : Normal(r.agent)

(* The tables, as far as the other invariants do not tell.                 *)
TablesType ==
    /\ clock.serial \in Nat
    /\ \A w \in DOMAIN windows : windows[w].start >= FirstTick
    /\ tenants \in [Slugs -> [state : States, off : Nat \cup {None}]]
    /\ \A id \in DOMAIN results :
          results[id].tenant \in Slugs /\ results[id].band \in Bands /\ Normal(results[id].rep)
    /\ \A h \in hierarchy : Normal(h.agent)

PlacesType ==
    /\ scoring \subseteq Requests /\ IsFiniteSet(scoring) /\ Cardinality(scoring) <= ScorePlaces
    /\ early \subseteq Requests
    /\ refusals \in 0..MaxRefusals

TypeInv == TablesType /\ PlacesType /\ \A q \in Requests : Writes(q)

KnownInv == GateInv /\ PlaceInv /\ AccessInv /\ StampInv /\ CountInv /\ LimitInv

(* Together with what is known already it is the type invariant.           *)
LEMMA TypesFit == KnownInv /\ TypeInv => TypeOK
<1> SUFFICES ASSUME KnownInv, TypeInv
             PROVE  TypeOK
  OBVIOUS
<1> USE DEF KnownInv, TypeInv
<1>1. clock \in [tick : FirstTick..LastTick, serial : Nat]
  <2>1. clock = [tick |-> clock.tick, serial |-> clock.serial]
    BY DEF PlaceInv, Shape
  <2>2. clock.tick \in FirstTick..LastTick
    BY ClockAssumption DEF StampInv, CountInv
  <2> QED
    BY <2>1, <2>2 DEF TablesType
<1>2. \A w \in DOMAIN windows : windows[w].start \in FirstTick..LastTick /\ windows[w].count > 0
  <2>1. clock.tick \in Int /\ clock.tick <= LastTick
    BY ClockAssumption DEF StampInv
  <2>2. ASSUME NEW w \in DOMAIN windows
        PROVE  windows[w].start \in FirstTick..LastTick /\ windows[w].count > 0
    <3>1. windows[w] \in Windows(clock.tick)
      BY DEF LimitInv, IsTable
    <3>2. windows[w].start >= FirstTick
      BY DEF TablesType
    <3> QED
      BY <2>1, <3>1, <3>2, ClockAssumption DEF Windows
  <2> QED
    BY <2>2
<1>3. \A id \in DOMAIN results :
         /\ results[id].id = id /\ results[id].tenant \in Slugs
         /\ results[id].band \in Bands /\ results[id].at.n <= clock.serial
         /\ results[id].rep = None \/ NormalizeId(results[id].rep) = results[id].rep
  BY DEF TablesType, PlaceInv, Shape, StampInv, Normal
<1>4. \A h \in hashes : h.tenant \in Slugs
  <2>1. \A h \in Seeds.hashes : h.tenant \in Slugs
    BY SeedsAssumption
  <2>2. \A h \in hashes \ Seeds.hashes : h.id \in DOMAIN results /\ results[h.id].tenant = h.tenant
    BY DEF GateInv, Store
  <2> QED
    BY <2>1, <2>2 DEF TablesType
<1>5. \A q \in Requests : pc[q] \in {"new", "closed"} => txn[q] = NoTxn
  BY DEF PlaceInv, Place, Idle
<1>6. \A k \in DOMAIN keys : keys[k].tenant \in Slugs
  BY DEF AccessInv, KeyInv
<1> QED
  BY <1>1, <1>2, <1>3, <1>4, <1>5, <1>6 DEF TypeOK, TablesType, PlacesType, States, Normal

(* Normalising twice changes nothing more.                                 *)
LEMMA NormalIs ==
  ASSUME NEW id \in Spellings \cup {None}
  PROVE  Normal(NormalizeId(id))
BY HierarchyAssumption DEF Normal, NormalizeId

(* Who takes a place of the limiter and who gives one back.                *)
LEMMA WhoScores ==
  ASSUME NEW q \in Requests, Step(q) \/ CommitRefused(q)
  PROVE  /\ \/ scoring' = scoring \/ scoring' = scoring \ {q}
            \/ Cardinality(scoring) < ScorePlaces /\ scoring' = scoring \cup {q}
         /\ refusals' = refusals \/ (refusals < MaxRefusals /\ refusals' = refusals + 1)
<1>1. CASE ApiStep(q)
  BY <1>1 DEF ApiStep, Arrive, RequireTenant, MintKey, RevokeKey, CommitKey, LookUpTenant,
              InsertTenant, UpdateTenant, CommitTenant, ambient
<1>2. CASE ScoreStep(q)
  <2>1. CASE StartRow(q)
    BY <2>1 DEF StartRow, TakesPlace
  <2>2. CASE StartScore(q)
    BY <2>2 DEF StartScore, TakesPlace
  <2>3. CASE LookForDuplicate(q)
    BY <2>3 DEF LookForDuplicate, RecordVerdict
  <2>4. CASE ModelAnswers(q)
    BY <2>4 DEF ModelAnswers, RecordVerdict
  <2>5. CASE ModelFails(q)
    BY <2>5 DEF ModelFails, RecordVerdict
  <2>6. CASE CommitScore(q)
    BY <2>6 DEF CommitScore
  <2> QED
    BY <1>2, <2>1, <2>2, <2>3, <2>4, <2>5, <2>6 DEF ScoreStep
<1>3. CASE RecordStep(q)
  BY <1>3 DEF RecordStep, LoadForReview, WriteReview, CommitReview, GetResult, CountResults,
              ListPage, ListUnderNode, StartUpload, StartDelete, DeleteAndInsert, PreviewUpload,
              CommitUpload, ReadStatusRows, ReadStatusReps, ambient
<1>4. CASE ReportStep(q)
  BY <1>4 DEF ReportStep, CountItems, FetchItems, CountPrevious, FetchPrevious, ReadMap,
              ReadAgentRows, CountAgent, FetchAgent, LookForAny, ShowCard, Reads, ambient
<1>5. CASE CommitRefused(q)
  BY <1>5 DEF CommitRefused
<1> QED
  BY <1>1, <1>2, <1>3, <1>4, <1>5 DEF Step

(* So there are never more in the limiter than it has places.              *)
LEMMA PlacesStay ==
  ASSUME PlacesType, NEW q \in Requests, Step(q) \/ CommitRefused(q), early' = early
  PROVE  PlacesType'
<1>1. /\ \/ scoring' = scoring \/ scoring' = scoring \ {q}
         \/ Cardinality(scoring) < ScorePlaces /\ scoring' = scoring \cup {q}
      /\ refusals' = refusals \/ (refusals < MaxRefusals /\ refusals' = refusals + 1)
  BY WhoScores
<1>2. PICK n : n = Cardinality(scoring) /\ n \in Nat /\ n <= ScorePlaces
  BY FS_CardinalityType DEF PlacesType
<1>3. IsFiniteSet(scoring) /\ scoring \subseteq Requests /\ ScorePlaces \in Nat
  BY ScoreAssumption DEF PlacesType
<1>4. scoring' \subseteq Requests /\ IsFiniteSet(scoring') /\ Cardinality(scoring') <= ScorePlaces
  <2>1. CASE scoring' = scoring
    BY <1>2, <1>3, <2>1
  <2>2. CASE scoring' = scoring \ {q}
    <3>1. IsFiniteSet(scoring \ {q}) /\ Cardinality(scoring \ {q}) \in {n, n - 1}
      BY <1>2, <1>3, FS_RemoveElement
    <3> QED
      BY <1>2, <1>3, <2>2, <3>1
  <2>3. CASE n < ScorePlaces /\ scoring' = scoring \cup {q}
    <3>1. IsFiniteSet(scoring \cup {q}) /\ Cardinality(scoring \cup {q}) \in {n, n + 1}
      BY <1>2, <1>3, FS_AddElement
    <3> QED
      BY <1>2, <1>3, <2>3, <3>1
  <2> QED
    BY <1>1, <1>2, <2>1, <2>2, <2>3
<1>5. refusals' \in 0..MaxRefusals
  BY <1>1, RefusalsAssumption DEF PlacesType
<1> QED
  BY <1>4, <1>5 DEF PlacesType

(* The tables stay tables.                                                 *)
LEMMA TablesStay ==
  ASSUME KnownInv, TypeInv, NEW q \in Requests, Step(q) \/ CommitRefused(q)
  PROVE  TablesType'
<1> USE DEF KnownInv, TypeInv
<1>1. Turn(q) /\ Shape /\ call' = call
  BY StepTurn DEF PlaceInv, Turn
<1>2. clock'.serial \in Nat /\ clock.serial \in Nat
  BY <1>1 DEF Turn, NextSerial, Shape, TablesType
<1>3. \A w \in DOMAIN windows' : windows'[w].start >= FirstTick
  <2>1. CASE Arrive(q)
    <3>1. PICK a : a = IF Op(q) \in LimitedOps
                       THEN Admit(windows, Client(call[q]), Op(q) = "score", clock.tick)
                       ELSE [by |-> "none", windows |-> windows, retry |-> 0]
      OBVIOUS
    <3>2. windows' = a.windows
      BY <2>1, <3>1 DEF Arrive
    <3>3. PICK now, client, compute :
             now = clock.tick /\ client = Client(call[q]) /\ compute = (Op(q) = "score")
      OBVIOUS
    <3>4. /\ now \in Int /\ IsTable(windows, now) /\ compute \in BOOLEAN
          /\ FirstTick \in Int /\ FirstTick <= now
          /\ \A w \in DOMAIN windows : windows[w].start >= FirstTick
      BY <3>3, ClockAssumption DEF StampInv, CountInv, LimitInv, TablesType
    <3>5. CASE Op(q) \in LimitedOps
      <4>1. a = Admit(windows, client, compute, now)
        BY <3>1, <3>3, <3>5
      <4> QED
        BY <3>2, <3>4, <4>1, AdmitStarts
    <3>6. CASE Op(q) \notin LimitedOps
      BY <3>1, <3>2, <3>4, <3>6
    <3> QED
      BY <3>5, <3>6
  <2>2. CASE windows' = windows
    BY <2>2 DEF TablesType
  <2> QED
    BY <2>1, <2>2, WhoWrites
<1>4. tenants' \in [Slugs -> [state : States, off : Nat \cup {None}]]
  <2>1. CASE CommitTenant(q)
    <3>1. PICK w, slug : w = txn[q].write /\ slug = call[q].slug
      OBVIOUS
    <3>2. w = None \/ w.state \in States
      BY <2>1, <3>1 DEF CommitTenant, Writes
    <3>3. tenants' = IF w = None THEN tenants
                     ELSE [tenants EXCEPT ![slug] =
                             [state |-> w.state, off |-> IF w.state = "active" THEN None
                                                         ELSE clock.serial]]
      BY <2>1, <3>1 DEF CommitTenant
    <3> QED
      BY <1>2, <3>2, <3>3 DEF TablesType
  <2>2. CASE tenants' = tenants
    BY <2>2 DEF TablesType
  <2> QED
    BY <2>1, <2>2, WhoWrites
<1>5. ASSUME NEW id \in DOMAIN results'
      PROVE  /\ results'[id].tenant \in Slugs /\ results'[id].band \in Bands
             /\ Normal(results'[id].rep)
  <2>1. CASE id \in DOMAIN results
    BY <2>1, RowsStay DEF SameVerdict, TablesType
  <2>2. CASE CommitScore(q) /\ id = q /\ results'[q] = txn[q].write
    BY <2>2 DEF CommitScore, Writes
  <2> QED
    BY <1>5, <2>1, <2>2, RowsStay
<1>6. \A h \in hierarchy' : Normal(h.agent)
  <2>1. CASE CommitUpload(q)
    <3>1. \A r \in txn[q].write.rows : Normal(r.agent)
      BY <2>1 DEF CommitUpload, Writes
    <3>2. hierarchy' \subseteq hierarchy \cup txn[q].write.rows
      BY <2>1 DEF CommitUpload
    <3> QED
      BY <3>1, <3>2 DEF TablesType
  <2>2. CASE hierarchy' = hierarchy
    BY <2>2 DEF TablesType
  <2> QED
    BY <2>1, <2>2, WhoWrites
<1> QED
  BY <1>2, <1>3, <1>4, <1>5, <1>6 DEF TablesType, Normal

(* A request that is between its stages is about to write nothing.         *)
LEMMA NothingToWrite ==
  ASSUME NEW q \in Requests, pc'[q] \in Idle \/ Op(q)' \notin {"score", "row", "upload"} \cup AdminOps
  PROVE  Writes(q)'
BY DEF Writes, Idle, IsScoring

(* A photo's row is of its tenant, with one of the bands and a normal id.  *)
LEMMA ScoringWrites ==
  ASSUME KnownInv, TypeInv, NEW q \in Requests, IsScoring(q), Step(q)
  PROVE  Writes(q)'
<1> USE DEF KnownInv, TypeInv
<1>1. /\ Turn(q) /\ Place(q)' /\ Shape /\ call' = call /\ call \in Plans
      /\ IsScoring(q)' /\ Op(q)' = Op(q) /\ Op(q) \notin {"upload"} \cup AdminOps
  BY StepTurn DEF PlaceInv, Turn, IsScoring, Op, AdminOps
<1>2. CASE pc'[q] \in Idle
  BY <1>2, NothingToWrite
<1>3. CASE pc'[q] \notin Idle
  <2>1. txn'[q].tenant \in Slugs
    <3>1. CASE pc[q] \notin Idle
      BY <1>3, <3>1, SameTxn DEF Writes
    <3>2. CASE pc[q] \in Idle
      <4>1. CASE Op(q) = "score"
        <5>1. call[q].key \in DOMAIN keys /\ txn'[q].tenant = keys[call[q].key].tenant
          BY <1>3, <3>2, <4>1, DataBegins DEF DataOps
        <5> QED
          BY <5>1 DEF AccessInv, KeyInv
      <4>2. CASE Op(q) = "row"
        <5>1. ~Arrive(q) /\ ~RequireTenant(q)
          BY <4>2 DEF Arrive, RequireTenant, OfflineOps, DataOps
        <5>2. StartRow(q)
          <6>1. ScoreStep(q)
            BY <4>2, <5>1, WhoSteps
          <6>2. pc[q] \notin {"run", "look", "ask", "exit"}
            BY <3>2 DEF Idle
          <6> QED
            BY <6>1, <6>2 DEF ScoreStep, StartScore, LookForDuplicate, ModelAnswers, ModelFails,
                              CommitScore
        <5>3. Goes(q, "look", Began(call[q].tenant))
          <6>1. ~\E r : Answers(q, r)
            BY <1>1, <1>3, AnswersMoves DEF Idle
          <6> QED
            BY <5>2, <6>1 DEF StartRow, TakesPlace
        <5>4. txn'[q].tenant = call[q].tenant
          BY <1>1, <5>3, GoesMoves, BeganIsATxn
        <5> QED
          BY <1>1, <4>2, <5>4, PlansAssumption DEF Op
      <4> QED
        BY <4>1, <4>2 DEF IsScoring
    <3> QED
      BY <3>1, <3>2
  <2>2. ASSUME pc'[q] = "exit"
        PROVE  LET w == txn'[q].write IN
               w.tenant \in Slugs /\ w.band \in Bands /\ Normal(w.rep)
    <3>1. ~\E r : Answers(q, r)
      BY <1>1, <1>3, AnswersMoves DEF Idle
    <3>2. \A stage, t : Goes(q, stage, t) => stage = "exit"
      BY <1>1, <2>2, GoesMoves
    <3>3. Arrive(q) \/ RequireTenant(q) \/ ScoreStep(q)
      BY WhoSteps DEF IsScoring
    <3>4. ~Arrive(q) /\ ~RequireTenant(q)
      BY <3>1, <3>2 DEF Arrive, RequireTenant
    <3>5. ~StartRow(q) /\ ~StartScore(q) /\ ~CommitScore(q)
      BY <3>1, <3>2 DEF StartRow, StartScore, TakesPlace, CommitScore
    <3>6. pc[q] \in {"look", "ask"}
      BY <3>3, <3>4, <3>5 DEF ScoreStep, LookForDuplicate, ModelAnswers, ModelFails
    <3>7. PICK verdict : RecordVerdict(q, verdict) /\ verdict.band \in Bands
      <4>1. LookForDuplicate(q) \/ ModelAnswers(q) \/ ModelFails(q)
        BY <3>3, <3>4, <3>5 DEF ScoreStep
      <4>2. PICK image, found, judged, verdict :
               /\ found \in {"exact", "near", "new"} /\ judged \in BOOLEAN
               /\ verdict \in Graded[Ground(image, found, judged)]
               /\ RecordVerdict(q, verdict)
        <5>1. CASE LookForDuplicate(q)
          <6>1. PICK found : found = Duplicate(txn[q].tenant, call[q].image)
            OBVIOUS
          <6>2. found \in {"exact", "near", "new"}
            BY <6>1 DEF Duplicate
          <6> QED
            BY <3>2, <5>1, <6>1, <6>2 DEF LookForDuplicate
        <5>2. CASE ModelAnswers(q) \/ ModelFails(q)
          <6>1. txn[q].read \in {"exact", "near", "new"}
            BY <5>2 DEF ModelAnswers, ModelFails, GateInv, Flow
          <6> QED
            BY <3>1, <5>2, <6>1 DEF ModelAnswers, ModelFails
        <5> QED
          BY <4>1, <5>1, <5>2
      <4> QED
        BY <4>2, GroundIsNamed
    <3>8. IsTxn(txn[q]) /\ txn[q].tenant \in Slugs
      <4>1. pc[q] \notin Idle
        BY <3>6 DEF Idle
      <4> QED
        BY <4>1 DEF PlaceInv, Place, Begun, Writes
    <3>9. txn'[q].write = ResultRow(q, verdict)
      BY <1>1, <3>7, <3>8, RecordVerdictMoves
    <3>10. Normal(NormalizeId(call[q].rep))
      <4>1. call[q].rep \in Spellings \cup {None}
        BY <1>1, PlansAssumption DEF IsScoring, Op
      <4> QED
        BY <4>1, NormalIs
    <3> QED
      BY <3>7, <3>8, <3>9, <3>10 DEF ResultRow
  <2> QED
    BY <1>1, <1>3, <2>1, <2>2 DEF Writes, Idle
<1> QED
  BY <1>2, <1>3

(* An administrator leaves a tenant active or inactive.                    *)
LEMMA AdminWrites ==
  ASSUME KnownInv, TypeInv, NEW q \in Requests, Op(q) \in AdminOps, Step(q)
  PROVE  Writes(q)'
<1> USE DEF KnownInv, TypeInv
<1>1. /\ Turn(q) /\ Shape /\ call' = call /\ call \in Plans
      /\ Op(q)' = Op(q) /\ Op(q) \in {"create", "update"}
  BY StepTurn DEF PlaceInv, Turn, Op, AdminOps
<1>2. ASSUME NEW r, Answers(q, r)
      PROVE  Writes(q)'
  <2>1. pc'[q] \in Idle
    BY <1>1, <1>2, AnswersMoves DEF Idle
  <2> QED
    BY <2>1, NothingToWrite
<1>3. ASSUME NEW stage, NEW t, Goes(q, stage, t), stage \in {"admitted", "write", "exit"},
             stage = "write" => t.write = None,
             stage = "exit" => t.write = None \/ t.write.state \in States
      PROVE  Writes(q)'
  <2>1. pc'[q] = stage /\ txn'[q] = t
    BY <1>1, <1>3, GoesMoves
  <2> QED
    BY <1>1, <1>3, <2>1 DEF Writes, IsScoring, AdminOps
<1>4. CASE Arrive(q)
  BY <1>2, <1>3, <1>4, Arrives
<1>5. CASE LookUpTenant(q)
  <2>1. CASE \E r : Answers(q, r)
    BY <1>2, <2>1
  <2>2. CASE ~\E r : Answers(q, r)
    <3>1. PICK slug, state, t : /\ Goes(q, "write", t)
                                /\ t = [Began(slug) EXCEPT !.read = state]
      BY <1>5, <2>2 DEF LookUpTenant
    <3>2. t.write = None
      BY <3>1 DEF Began
    <3> QED
      BY <1>3, <3>1, <3>2
  <2> QED
    BY <2>1, <2>2
<1>6. CASE InsertTenant(q) \/ UpdateTenant(q)
  <2>1. pc[q] = "write" /\ IsTxn(txn[q]) /\ txn[q].write = None
    BY <1>1, <1>6 DEF InsertTenant, UpdateTenant, PlaceInv, Place, Begun, Idle, Writes, AdminOps
  <2>2. ASSUME NEW locks, NEW to \in States, Goes(q, "exit", Holding(txn[q], locks, [state |-> to]))
        PROVE  Writes(q)'
    <3>1. Holding(txn[q], locks, [state |-> to]).write = [state |-> to]
      BY <2>1, Locking
    <3> QED
      BY <1>3, <2>2, <3>1
  <2>3. CASE InsertTenant(q)
    BY <1>2, <2>2, <2>3 DEF InsertTenant, States
  <2>4. CASE UpdateTenant(q)
    <3>1. call[q].to \in States
      BY <1>1, <2>4, PlansAssumption DEF UpdateTenant, Op, States
    <3>2. CASE Goes(q, "exit", txn[q])
      BY <1>3, <2>1, <3>2
    <3>3. CASE ~Goes(q, "exit", txn[q])
      BY <2>2, <2>4, <3>1, <3>3 DEF UpdateTenant
    <3> QED
      BY <3>2, <3>3
  <2> QED
    BY <1>6, <2>3, <2>4
<1>7. CASE CommitTenant(q)
  BY <1>2, <1>7 DEF CommitTenant
<1> QED
  BY <1>4, <1>5, <1>6, <1>7, WhoSteps

(* The rows of an upload have normal ids, as its file was parsed.          *)
LEMMA UploadWrites ==
  ASSUME KnownInv, TypeInv, NEW q \in Requests, Op(q) = "upload", Step(q)
  PROVE  Writes(q)'
<1> USE DEF KnownInv, TypeInv
<1>1. Turn(q) /\ Shape /\ call' = call /\ call \in Plans /\ Op(q)' = "upload"
  BY StepTurn DEF PlaceInv, Turn, Op
<1>2. ASSUME NEW r, Answers(q, r)
      PROVE  Writes(q)'
  <2>1. pc'[q] \in Idle
    BY <1>1, <1>2, AnswersMoves DEF Idle
  <2> QED
    BY <2>1, NothingToWrite
<1>3. ASSUME NEW stage, NEW t, Goes(q, stage, t),
             stage \in {"admitted", "delete", "lock", "preview", "exit"},
             stage = "delete" => \A r \in t.read.rows : Normal(r.agent),
             stage \in {"lock", "preview", "exit"} => \A r \in t.write.rows : Normal(r.agent)
      PROVE  Writes(q)'
  <2>1. pc'[q] = stage /\ txn'[q] = t
    BY <1>1, <1>3, GoesMoves
  <2> QED
    BY <1>1, <1>3, <2>1 DEF Writes, IsScoring, AdminOps, Normal
<1>4. CASE Arrive(q)
  BY <1>2, <1>3, <1>4, Arrives
<1>5. CASE StartUpload(q)
  <2>1. CASE \E r : Answers(q, r)
    BY <1>2, <2>1
  <2>2. CASE ~\E r : Answers(q, r)
    <3>1. PICK t, parsed, rows : /\ Goes(q, "delete", t)
                                 /\ t = [Began(DevTenant) EXCEPT !.read = [rows |-> rows]]
                                 /\ parsed = ParseCsv(call[q].file, Today)
                                 /\ rows = {MapRow(q, r) : r \in parsed}
      BY <1>5, <2>2 DEF StartUpload
    <3>2. t.read.rows = rows
      BY <3>1 DEF Began
    <3>3. ASSUME NEW r \in rows
          PROVE  Normal(r.agent)
      <4>1. PICK file : file = call[q].file
        OBVIOUS
      <4>2. PICK i \in DOMAIN file.rows : r.agent = NormalizeId(file.rows[i].agent)
        <5>1. PICK s \in parsed : r = MapRow(q, s)
          BY <3>1
        <5>2. PICK i \in DOMAIN file.rows : s = ParsedRow(file.rows[i], Today)
          BY <3>1, <4>1 DEF ParseCsv
        <5>3. s.agent = NormalizeId(file.rows[i].agent)
          BY ONLY <5>2 DEF ParsedRow
        <5>4. r.agent = s.agent
          BY ONLY <5>1 DEF MapRow
        <5> QED
          BY ONLY <5>2, <5>3, <5>4
      <4>3. file.rows[i].agent \in Spellings \cup {None}
        BY <1>1, <4>1, <4>2, PlansAssumption DEF Op
      <4> QED
        BY <4>2, <4>3, NormalIs
    <3> QED
      BY <1>3, <3>1, <3>2, <3>3
  <2> QED
    BY <2>1, <2>2
<1>6. CASE StartDelete(q) \/ DeleteAndInsert(q) \/ PreviewUpload(q)
  <2>1. IsTxn(txn[q])
    BY <1>6 DEF StartDelete, DeleteAndInsert, PreviewUpload, PlaceInv, Place, Begun, Idle
  <2>2. CASE StartDelete(q)
    <3>1. PICK gone, rows : /\ Goes(q, "lock", [txn[q] EXCEPT !.write = [rows |-> rows, gone |-> gone]])
                            /\ rows = txn[q].read.rows
      BY <2>2 DEF StartDelete
    <3>2. \A r \in rows : Normal(r.agent)
      BY <2>2, <3>1 DEF StartDelete, Writes
    <3>3. [txn[q] EXCEPT !.write = [rows |-> rows, gone |-> gone]].write.rows = rows
      BY <2>1, Writing
    <3> QED
      BY <1>3, <3>1, <3>2, <3>3
  <2>3. CASE DeleteAndInsert(q)
    <3>1. PICK left, rows : /\ Goes(q, "preview", Holding(txn[q], left, [rows |-> rows, gone |-> left]))
                            /\ rows = txn[q].write.rows
      BY <2>3 DEF DeleteAndInsert
    <3>2. \A r \in rows : Normal(r.agent)
      BY <2>3, <3>1 DEF DeleteAndInsert, Writes
    <3>3. Holding(txn[q], left, [rows |-> rows, gone |-> left]).write.rows = rows
      BY <2>1, Locking
    <3> QED
      BY <1>3, <3>1, <3>2, <3>3
  <2>4. CASE PreviewUpload(q)
    <3>1. PICK v : Goes(q, "exit", [txn[q] EXCEPT !.read = v])
      BY <2>4 DEF PreviewUpload
    <3>2. \A r \in txn[q].write.rows : Normal(r.agent)
      BY <2>4 DEF PreviewUpload, Writes
    <3>3. [txn[q] EXCEPT !.read = v].write = txn[q].write
      BY <2>1, Reading
    <3> QED
      BY <1>3, <3>1, <3>2, <3>3
  <2> QED
    BY <1>6, <2>2, <2>3, <2>4
<1>7. CASE CommitUpload(q)
  BY <1>2, <1>7 DEF CommitUpload
<1> QED
  BY <1>4, <1>5, <1>6, <1>7, WhoSteps

(* Every step keeps the types.                                             *)
LEMMA TypeNext == KnownInv /\ TypeInv /\ [Next]_vars => TypeInv'
<1> SUFFICES ASSUME KnownInv, TypeInv, [Next]_vars
             PROVE  TypeInv'
  OBVIOUS
<1>1. ASSUME NEW q \in Requests, Step(q) \/ CommitRefused(q)
      PROVE  TypeInv'
  <2>1. TablesType' /\ PlacesType'
    <3>1. early' = early
      BY <1>1, StepTurn DEF KnownInv, Turn, Moves
    <3> QED
      BY <1>1, <3>1, TablesStay, PlacesStay DEF TypeInv
  <2>2. Shape /\ \A p \in Requests : Op(p)' = Op(p)
    BY <1>1, StepTurn, OthersStay DEF KnownInv, PlaceInv
  <2>3. Writes(q)'
    <3>1. CASE CommitRefused(q)
      <4>1. pc'[q] \in Idle
        BY <2>2, <3>1, AnswersMoves DEF CommitRefused, Idle
      <4> QED
        BY <4>1, NothingToWrite
    <3>2. CASE Step(q)
      <4>1. CASE Op(q) \notin {"score", "row", "upload"} \cup AdminOps
        BY <2>2, <4>1, NothingToWrite
      <4> QED
        BY <3>2, <4>1, ScoringWrites, AdminWrites, UploadWrites DEF IsScoring
    <3> QED
      BY <1>1, <3>1, <3>2
  <2>4. ASSUME NEW p \in Requests \ {q}
        PROVE  Writes(p)'
    <3>1. pc'[p] = pc[p] /\ txn'[p] = txn[p] /\ Op(p)' = Op(p)
      BY <1>1, <2>2, StepTurn, OthersStay DEF KnownInv
    <3> QED
      BY <3>1 DEF TypeInv, Writes, IsScoring, Normal
  <2> QED
    BY <2>1, <2>3, <2>4 DEF TypeInv
<1>2. CASE Rests
  <2>1. /\ clock'.serial = clock.serial /\ windows' = windows /\ tenants' = tenants
        /\ results' = results /\ hierarchy' = hierarchy /\ scoring' = scoring
        /\ refusals' = refusals /\ pc' = pc /\ txn' = txn /\ call' = call
        /\ (early \subseteq Requests => early' \subseteq Requests)
    BY <1>2 DEF Rests, Tick, Respond, vars, flow, tables, ambient, KnownInv, PlaceInv, Shape
  <2>2. TablesType' /\ PlacesType'
    BY <2>1 DEF TypeInv, TablesType, PlacesType, Normal
  <2>3. \A q \in Requests : Writes(q)'
    BY <2>1 DEF TypeInv, Writes, IsScoring, Op, Normal
  <2> QED
    BY <2>2, <2>3 DEF TypeInv
<1> QED
  BY <1>1, <1>2 DEF Next, Rests

(* The service starts with them.                                           *)
LEMMA TypeInit == Init => TypeInv
<1> SUFFICES ASSUME Init
             PROVE  TypeInv
  OBVIOUS
<1>1. TablesType
  <2>1. /\ clock.serial = Seeds.serial /\ windows = <<>> /\ tenants = Seeds.tenants
        /\ results = Seeds.results /\ hierarchy = Seeds.hierarchy
    BY DEF Init
  <2>2. DOMAIN windows = {}
    BY <2>1
  <2> QED
    BY <2>1, <2>2, SeedsAssumption DEF TablesType, States, Normal
<1>2. PlacesType
  BY FS_EmptySet, ScoreAssumption, RefusalsAssumption DEF Init, PlacesType
<1>3. ASSUME NEW q \in Requests
      PROVE  Writes(q)
  <2>1. pc[q] \in {"new", "closed"}
    BY DEF Init
  <2> QED
    BY <2>1 DEF Writes, Idle
<1> QED
  BY <1>1, <1>2, <1>3 DEF TypeInv

(* The tables of the service, the places of its scoring limiter and the    *)
(* windows of its rate limiter keep their types (db/models.py), for any    *)
(* number of requests of every kind.                                       *)
THEOREM ServiceTypeCorrect == Spec => []TypeOK
<1>1. Init => GateInv /\ PlaceInv /\ AccessInv /\ StampInv /\ CountInv
  BY GateInit, PlaceInit, AccessInit, StampInit, CountInit
<1>2. GateInv /\ PlaceInv /\ AccessInv /\ StampInv /\ CountInv /\ [Next]_vars
        => (GateInv /\ PlaceInv /\ AccessInv /\ StampInv /\ CountInv)'
  BY BothNext, AccessNext, StampNext, CountNext
<1>3. GateInv /\ PlaceInv /\ AccessInv /\ StampInv /\ CountInv /\ LimitInv => KnownInv
  BY DEF KnownInv
<1> QED
  BY <1>1, <1>2, <1>3, LimitInvariant, TypeInit, TypeNext, TypesFit, PTL DEF Spec
=============================================================================
