------------------------------- MODULE Records -------------------------------
(***************************************************************************)
(* The records behind the dashboards: reviews of stored verdicts, paged    *)
(* listing, and the org map's upload and status (api/scoring.py,           *)
(* api/hierarchy_admin.py, the rest of db/repo.py).  Their commits are      *)
(* get_repo's, before or after the response (module Api).                  *)
(***************************************************************************)
EXTENDS Api

CONSTANTS
    StatusDays       \* how far back hierarchy_status looks for reps

(* ---- review ------------------------------------------------------------ *)

(* record_review loads the row by id and tenant: 404 if there is none.     *)
LoadForReview(q) ==
    LET id == call[q].target
        found == id \in DOMAIN results /\ results[id].tenant = txn[q].tenant
    IN  /\ pc[q] = "run" /\ Op(q) = "review"
        /\ \/ ~found /\ Answers(q, [status |-> 404])
           \/ found /\ Goes(q, "write", [txn[q] EXCEPT !.read = results[id]])
        /\ UNCHANGED <<tables, ambient>>

(* The flush waits for the row.  It writes the columns whose value differs *)
(* from what was loaded: reviewed_at always, review_status only if the     *)
(* decision changed.                                                       *)
WriteReview(q) ==
    LET decision == call[q].decision
        lock == [result |-> call[q].target]
    IN  /\ pc[q] = "write" /\ Op(q) = "review" /\ lock \notin LockedByOthers(q)
        /\ Goes(q, "exit",
                Holding(txn[q], {lock}, [status |-> IF txn[q].read.review = decision
                                                    THEN None ELSE decision]))
        /\ UNCHANGED <<tables, ambient>>

(* faulty variant: a second decision is not audited again *)
CommitReview_AuditedOnce(q) ==
    LET id == call[q].target
    IN  /\ pc[q] = "exit" /\ Op(q) = "review"
        /\ results' = IF txn[q].write.status = None THEN results
                      ELSE [results EXCEPT ![id].review = txn[q].write.status]
        /\ audit' = IF \E a \in audit : a.result = id THEN audit
                    ELSE audit \cup {[by |-> q, at |-> txn[q].at, tenant |-> txn[q].read.tenant,
                                      result |-> id, decision |-> call[q].decision]}
        /\ Answers(q, [status |-> 200, review |-> call[q].decision])
        /\ UNCHANGED <<tenants, keys, hashes, hierarchy, ambient>>

CommitReview(q) ==
    LET id == call[q].target
    IN  /\ pc[q] = "exit" /\ Op(q) = "review"
        /\ results' = IF txn[q].write.status = None THEN results
                      ELSE [results EXCEPT ![id].review = txn[q].write.status]
        /\ audit' = audit \cup {[by |-> q, at |-> txn[q].at, tenant |-> txn[q].read.tenant,
                                 result |-> id, decision |-> call[q].decision]}
        /\ Answers(q, [status |-> 200, review |-> call[q].decision])
        /\ UNCHANGED <<tenants, keys, hashes, hierarchy, ambient>>

(* ---- one result -------------------------------------------------------- *)

GetResult(q) ==
    LET id == call[q].target
        found == id \in DOMAIN results /\ results[id].tenant = txn[q].tenant
    IN  /\ pc[q] = "run" /\ Op(q) = "get"
        /\ \/ ~found /\ Answers(q, [status |-> 404])
           \/ found /\ Answers(q, [status |-> 200, items |-> {results[id]}])
        /\ UNCHANGED <<tables, ambient>>

(* ---- listing ----------------------------------------------------------- *)

(* faulty variant: the tenant is left out of the WHERE clause *)
Matching_AnyTenant(tenant, f) ==
    {r \in {results[id] : id \in DOMAIN results} :
       /\ f.band # None => r.band = f.band
       /\ f.reason # None => r.code = f.reason
       /\ f.rep # None => r.rep = NormalizeId(f.rep)
       /\ f.range # None => InRange(r, f.range)}

(* The WHERE clause of list_results; a filter field that is None is absent.*)
Matching(tenant, f) ==
    {r \in {results[id] : id \in DOMAIN results} :
       /\ r.tenant = tenant
       /\ f.band # None => r.band = f.band
       /\ f.reason # None => r.code = f.reason
       /\ f.rep # None => r.rep = NormalizeId(f.rep)
       /\ f.review = "pending" => r.review = None
       /\ f.review \notin {None, "pending"} => r.review = f.review
       /\ f.range # None => InRange(r, f.range)}

(* The rows after the offset, newest first.                                *)
Newer(S, r) == {s \in S : s.at.n > r.at.n}

(* faulty variant: the row at the offset is skipped *)
Slice_AfterOffset(S, offset, limit) ==
    {r \in S : offset < Cardinality(Newer(S, r)) /\ Cardinality(Newer(S, r)) < offset + limit}

Slice(S, offset, limit) ==
    {r \in S : offset <= Cardinality(Newer(S, r)) /\ Cardinality(Newer(S, r)) < offset + limit}

OrgRows(tenant) == {h \in hierarchy : h.tenant = tenant}

(* dim and node: the rows whose rep sat at the node on the day of scoring. *)
UnderNode(S, rows, dim, node) ==
    {r \in S : NodeMatch(rows, r.rep, r.at.day, dim, node)}

(* "if dim and node": one without the other restricts nothing.             *)
AtNode(c) == c.dim # None /\ c.node # None

(* Agents are no org level.                                                *)
InvalidDim(c) == c.dim = "agent"

ListFilter(c) ==
    IF c.from = None /\ c.to = None THEN c.filter
    ELSE [c.filter EXCEPT !.range = ResolveRange(c.from, c.to, Today)]

(* Without a node, the total is a COUNT and the page a second statement;   *)
(* with one, all matching rows are read, then the org map, and both the    *)
(* total and the page are computed.                                        *)
CountResults(q) ==
    LET c == call[q]
        bad == \/ InvalidDim(c)
               \/ (c.from # None \/ c.to # None) /\ RangeRefused(c.from, c.to, Today)
        first == Matching(txn[q].tenant, ListFilter(c))
    IN  /\ pc[q] = "run" /\ Op(q) = "list"
        /\ \/ bad /\ Answers(q, [status |-> 400]) /\ UNCHANGED page
           \/ /\ ~bad
              /\ page' = IF page[q].offset = 0 THEN [page EXCEPT ![q].base = first] ELSE page
              /\ Goes(q, "rows", [txn[q] EXCEPT !.read = [filter |-> ListFilter(c),
                                                        first  |-> first]])
        /\ UNCHANGED <<tables, clock, windows, hits, call, scoring, refusals>>

(* The client keeps what it got and asks for the next page until one comes *)
(* back short.                                                             *)
GetsPage(q, rows, total) ==
    /\ page' = [page EXCEPT ![q].got = @ \cup {r.id : r \in rows},
                            ![q].offset = @ + call[q].limit]
    /\ IF Cardinality(rows) < call[q].limit
       THEN Answers(q, [status |-> 200, total |-> total])
       ELSE Goes(q, "new", NoTxn)

ListPage(q) ==
    /\ pc[q] = "rows" /\ Op(q) = "list" /\ ~AtNode(call[q])
    /\ GetsPage(q, Slice(Matching(txn[q].tenant, txn[q].read.filter),
                         page[q].offset, call[q].limit),
                Cardinality(txn[q].read.first))
    /\ UNCHANGED <<tables, clock, windows, hits, call, scoring, refusals>>

ListUnderNode(q) ==
    /\ pc[q] = "rows" /\ Op(q) = "list" /\ AtNode(call[q])
    /\ \E rows \in RowLists(OrgRows(txn[q].tenant)) :
         LET S == UnderNode(txn[q].read.first, rows, call[q].dim, call[q].node)
         IN  GetsPage(q, Slice(S, page[q].offset, call[q].limit), Cardinality(S))
    /\ UNCHANGED <<tables, clock, windows, hits, call, scoring, refusals>>

(* ---- the org map ------------------------------------------------------- *)

(* A row of the table, made of a row of the file.                          *)
MapRow(q, r) == [tenant |-> DevTenant, upload |-> q, agent |-> r.agent, name |-> r.name,
                 node |-> r.node, from |-> r.from]

(* upload_hierarchy parses the file before it touches the database, then   *)
(* looks up DEFAULT_TENANT.                                                *)
StartUpload(q) ==
    /\ pc[q] = "admitted" /\ Op(q) = "upload"
    /\ \/ /\ CsvRefused(call[q].file, Today) /\ Answers(q, [status |-> 400])
          /\ UNCHANGED clock
       \/ /\ ~CsvRefused(call[q].file, Today) /\ tenants[DevTenant].state # "active"
          /\ NextSerial /\ Answers(q, [status |-> 404])
       \/ /\ ~CsvRefused(call[q].file, Today) /\ tenants[DevTenant].state = "active"
          /\ NextSerial
          /\ Goes(q, "delete",
                  [Began(DevTenant) EXCEPT !.read = [rows |->
                     {MapRow(q, r) : r \in ParseCsv(call[q].file, Today)}]])
    /\ UNCHANGED <<tables, windows, hits, call, page, scoring, refusals>>

(* faulty variant: only the agents of the new file are replaced *)
StartDelete_ItsAgents(q) ==
    /\ pc[q] = "delete"
    /\ Goes(q, "lock", [txn[q] EXCEPT !.write =
              [rows |-> txn[q].read.rows,
               gone |-> {h \in OrgRows(txn[q].tenant) :
                           \E r \in txn[q].read.rows : r.agent = h.agent}]])
    /\ UNCHANGED <<tables, ambient>>

(* replace_hierarchy's DELETE sees the rows committed when it starts.      *)
StartDelete(q) ==
    /\ pc[q] = "delete"
    /\ Goes(q, "lock", [txn[q] EXCEPT !.write = [rows |-> txn[q].read.rows,
                                                 gone |-> OrgRows(txn[q].tenant)]])
    /\ UNCHANGED <<tables, ambient>>

(* It waits for the rows another upload is deleting, skips those that are  *)
(* gone when the wait ends, and never sees the rows that upload inserted.  *)
(* The INSERTs follow at the flush; nothing forbids two rows for one agent *)
(* and day.                                                                *)
DeleteAndInsert(q) ==
    LET gone == txn[q].write.gone
        left == gone \cap hierarchy
    IN  /\ pc[q] = "lock" /\ gone \cap LockedByOthers(q) = {}
        /\ Goes(q, "preview", Holding(txn[q], left, [rows |-> txn[q].write.rows, gone |-> left]))
        /\ UNCHANGED <<tables, ambient>>

(* hierarchy_status: the reps of the last days, matched against the org    *)
(* map whatever its rows' dates.                                           *)
RecentReps(tenant) ==
    {r.rep : r \in {results[id] : id \in {id \in DOMAIN results :
        /\ results[id].tenant = tenant /\ results[id].rep # None
        /\ results[id].at.day >= Today - StatusDays}}}

(* The upload's answer previews the match rate from inside the transaction, *)
(* which sees its own rows beside what others have committed.              *)
PreviewUpload(q) ==
    LET org == (OrgRows(txn[q].tenant) \ txn[q].write.gone) \cup txn[q].write.rows
    IN  /\ pc[q] = "preview"
        /\ Goes(q, "exit", [txn[q] EXCEPT !.read = [matched |->
                              RecentReps(txn[q].tenant) \cap {h.agent : h \in org}]])
        /\ UNCHANGED <<tables, ambient>>

CommitUpload(q) ==
    /\ pc[q] = "exit" /\ Op(q) = "upload"
    /\ hierarchy' = (hierarchy \ txn[q].write.gone) \cup txn[q].write.rows
    /\ Answers(q, [status |-> 200, rows |-> txn[q].write.rows, matched |-> txn[q].read.matched,
                   at |-> txn[q].at, done |-> clock.serial])
    /\ UNCHANGED <<tenants, keys, results, audit, hashes, ambient>>

ReadStatusRows(q) ==
    /\ pc[q] = "admitted" /\ Op(q) = "status"
    /\ NextSerial
    /\ \/ tenants[DevTenant].state # "active" /\ Answers(q, [status |-> 404])
       \/ /\ tenants[DevTenant].state = "active"
          /\ Goes(q, "reps", [Began(DevTenant) EXCEPT !.read = OrgRows(DevTenant)])
    /\ UNCHANGED <<tables, windows, hits, call, page, scoring, refusals>>

ReadStatusReps(q) ==
    LET reps == RecentReps(DevTenant)
        agents == {h.agent : h \in txn[q].read}
    IN  /\ pc[q] = "reps"
        /\ Answers(q, [status |-> 200, org |-> txn[q].read,
                       matched |-> reps \cap agents, unmapped |-> reps \ agents])
        /\ UNCHANGED <<tables, ambient>>

RecordStep(q) ==
    \/ LoadForReview(q) \/ WriteReview(q) \/ CommitReview(q)
    \/ GetResult(q) \/ CountResults(q) \/ ListPage(q) \/ ListUnderNode(q)
    \/ StartUpload(q) \/ StartDelete(q) \/ DeleteAndInsert(q)
    \/ PreviewUpload(q) \/ CommitUpload(q)
    \/ ReadStatusRows(q) \/ ReadStatusReps(q)
==============================================================================
