------------------------------- MODULE Reports -------------------------------
(***************************************************************************)
(* The reading side: GET /v1/analytics/summary (api/scoring.py) and        *)
(* GET /v1/dse/{agent_id} (api/dse.py).  Each makes several statements,    *)
(* and READ COMMITTED lets the tables change between any two of them.  A   *)
(* reply keeps, beside its body, what the body was computed from.          *)
(***************************************************************************)
EXTENDS Records

CONSTANTS
    ReportLimit,     \* limit=5000, _SCORECARD_LIMIT
    RecentLimit      \* _RECENT_LIMIT

NoFilter == [band |-> None, reason |-> None, rep |-> None, review |-> None, range |-> None]
In(range) == [NoFilter EXCEPT !.range = range]

(* list_results as two statements.  Without a node the first one counts    *)
(* and the second one fetches; with one the first fetches everything and   *)
(* the second reads the org map.                                           *)
First(q, f) == Matching(txn[q].tenant, f)

Selections(q, first, f) ==
    IF ~AtNode(call[q])
    THEN {[total |-> Cardinality(first), all |-> Matching(txn[q].tenant, f)]}
    ELSE {LET S == UnderNode(first, rows, call[q].dim, call[q].node)
          IN  [total |-> Cardinality(S), all |-> S] : rows \in RowLists(OrgRows(txn[q].tenant))}

Fetched(S) == Slice(S, 0, ReportLimit)

Reads(q, stage, what) ==
    /\ Goes(q, stage, [txn[q] EXCEPT !.read = what])
    /\ UNCHANGED <<tables, ambient>>

(* ---- /v1/analytics/summary --------------------------------------------- *)

CountItems(q) ==
    LET c == call[q]
        range == ResolveRange(c.from, c.to, Today)
        bad == InvalidDim(c) \/ RangeRefused(c.from, c.to, Today)
    IN  /\ pc[q] = "run" /\ Op(q) = "summary"
        /\ \/ /\ bad
              /\ Answers(q, [status |-> 400])
              /\ UNCHANGED <<tables, ambient>>
           \/ /\ ~bad
              /\ Reads(q, "items", [range |-> range, first |-> First(q, In(range))])

FetchItems(q) ==
    LET r == txn[q].read IN
    /\ pc[q] = "items"
    /\ \E s \in Selections(q, r.first, In(r.range)) :
         Reads(q, "before", [range |-> r.range, today |-> Today,
                             total |-> s.total, items |-> Fetched(s.all)])

CountPrevious(q) ==
    LET r == txn[q].read IN
    /\ pc[q] = "before"
    /\ Reads(q, "previous", [range |-> r.range, today |-> r.today, total |-> r.total,
                             items |-> r.items, first |-> First(q, In(PreviousRange(r.range)))])

FetchPrevious(q) ==
    LET r == txn[q].read IN
    /\ pc[q] = "previous"
    /\ \E s \in Selections(q, r.first, In(PreviousRange(r.range))) :
         Reads(q, "map", [range |-> r.range, today |-> r.today, total |-> r.total,
                          items |-> r.items, prev |-> Fetched(s.all)])

ReadMap(q) ==
    LET c == call[q]
        r == txn[q].read
        org == OrgRows(txn[q].tenant)
    IN  /\ pc[q] = "map" /\ Op(q) = "summary"
        /\ \E rows \in RowLists(org) :
             Answers(q, [status |-> 200, tenant |-> txn[q].tenant, org |-> org,
                         range |-> r.range, total |-> r.total, items |-> r.items,
                         prev |-> r.prev,
                         body |-> AggregateRange(r.items, r.prev, rows, r.range,
                                                 c.bucket, c.field, r.today)])
        /\ UNCHANGED <<tables, ambient>>

(* ---- /v1/dse/{agent_id} ------------------------------------------------ *)

ReadAgentRows(q) ==
    LET c == call[q]
        range == ResolveRange(c.from, c.to, Today)
    IN  /\ pc[q] = "run" /\ Op(q) = "scorecard"
        /\ \/ /\ RangeRefused(c.from, c.to, Today)
              /\ Answers(q, [status |-> 400])
              /\ UNCHANGED <<tables, ambient>>
           \/ /\ ~RangeRefused(c.from, c.to, Today)
              /\ \E rows \in RowLists(OrgRows(txn[q].tenant)) :
                   Reads(q, "count", [range |-> range, rows |-> rows])

AgentFilter(q) == [In(txn[q].read.range) EXCEPT !.rep = call[q].agent]

CountAgent(q) ==
    LET r == txn[q].read IN
    /\ pc[q] = "count"
    /\ Reads(q, "fetch", [range |-> r.range, rows |-> r.rows,
                          total |-> Cardinality(First(q, AgentFilter(q)))])

FetchAgent(q) ==
    LET r == txn[q].read IN
    /\ pc[q] = "fetch"
    /\ Reads(q, IF LatestRow(r.rows, call[q].agent) = None /\ r.total = 0
                THEN "ever" ELSE "card",
             [range |-> r.range, rows |-> r.rows, total |-> r.total,
              items |-> Fetched(First(q, AgentFilter(q)))])

(* No row and nothing in the range: unknown only if there is no result at  *)
(* all.                                                                    *)
LookForAny(q) ==
    /\ pc[q] = "ever"
    /\ \/ /\ First(q, [NoFilter EXCEPT !.rep = call[q].agent]) = {}
          /\ Answers(q, [status |-> 404])
          /\ UNCHANGED <<tables, ambient>>
       \/ /\ First(q, [NoFilter EXCEPT !.rep = call[q].agent]) # {}
          /\ Reads(q, "card", txn[q].read)

(* The body of the scorecard.  Whatever is not Clear counts as flagged.    *)
Scorecard(agent, r, bucket, today) ==
    LET row == LatestRow(r.rows, agent)
    IN  [agent     |-> IF NormalizeId(agent) = None THEN agent ELSE NormalizeId(agent),
         name      |-> AgentDisplayName(r.rows, agent),
         chain     |-> IF row = None THEN None ELSE row.node,
         bands     |-> Tally(r.items),
         reasons   |-> ReasonCounts(r.items),
         buckets   |-> BuildBuckets(r.items, r.range, bucket, today),
         recent    |-> Slice({i \in r.items : i.band # "Clear"}, 0, RecentLimit),
         truncated |-> r.total > ReportLimit]

ShowCard(q) ==
    LET r == txn[q].read IN
    /\ pc[q] = "card"
    /\ Answers(q, [status |-> 200, tenant |-> txn[q].tenant, range |-> r.range,
                   items |-> r.items, prev |-> {},
                   body |-> Scorecard(call[q].agent, r, call[q].bucket, Today)])
    /\ UNCHANGED <<tables, ambient>>

ReportStep(q) ==
    \/ CountItems(q) \/ FetchItems(q) \/ CountPrevious(q) \/ FetchPrevious(q) \/ ReadMap(q)
    \/ ReadAgentRows(q) \/ CountAgent(q) \/ FetchAgent(q) \/ LookForAny(q) \/ ShowCard(q)
==============================================================================
