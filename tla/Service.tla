------------------------------- MODULE Service -------------------------------
(***************************************************************************)
(* The HTTP service as a whole: any mix of requests, the rows that bulk    *)
(* jobs score, and the scripts, over one database.                         *)
(***************************************************************************)
EXTENDS ScoreApi, Reports

(* A row of the results table.                                             *)
IsRow(r) ==
    r = [id |-> r.id, tenant |-> r.tenant, rep |-> r.rep, image |-> r.image, band |-> r.band,
         code |-> r.code, at |-> r.at, source |-> r.source, review |-> r.review]

(* The tables the service starts from: earlier results, not yet reviewed,  *)
(* and the hashes of earlier photos; no row of the org map from the        *)
(* uploads to come; ids in the form normalize_id gives them; and whatever  *)
(* the past has numbered has a number of its own, not above the serial.    *)
ASSUME SeedsAssumption ==
    LET old == Seeds.results IN
    /\ Seeds.serial \in Nat
    /\ old = [id \in DOMAIN old |-> old[id]] /\ DOMAIN old \cap Requests = {}
    /\ IsFiniteSet(DOMAIN old)
    /\ \A id \in DOMAIN old :
          /\ IsRow(old[id]) /\ old[id].id = id /\ old[id].review = None
          /\ old[id].at.n \in 1..Seeds.serial /\ old[id].at.day \in Int
          /\ old[id].tenant \in Slugs /\ old[id].band \in Bands
          /\ NormalizeId(old[id].rep) = old[id].rep
    /\ \A id, o \in DOMAIN old : old[id].at.n = old[o].at.n => id = o
    /\ IsFiniteSet(Seeds.hashes)
    /\ \A h \in Seeds.hashes :
          /\ h.id \notin Requests /\ h.tenant \in Slugs
          /\ h.hash # None /\ h.n \in 1..Seeds.serial
    /\ \A h \in Seeds.hierarchy : h.upload \notin Requests /\ NormalizeId(h.agent) = h.agent
    /\ Seeds.tenants \in [Slugs -> [state : {"absent", "active", "inactive"}, off : Nat \cup {None}]]
    /\ \A slug \in Slugs : Seeds.tenants[slug].state = "active" => Seeds.tenants[slug].off = None
    /\ Seeds.keys = [k \in DOMAIN Seeds.keys |-> Seeds.keys[k]]
    /\ \A k \in DOMAIN Seeds.keys :
          LET key == Seeds.keys[k]
          IN  key = [tenant |-> key.tenant, off |-> key.off] /\ key.tenant \in Slugs

(* What a call must be to reach its handler: a decision is one of a list   *)
(* (api/scoring.py:50), a page asks for 1 to 200 rows (:179), a file has a *)
(* list of rows, and a minted key was never handed out before, since it is *)
(* drawn from secrets.token_urlsafe (service/api_keys.py:22).  A report's  *)
(* buckets are one of three kinds (api/scoring.py:249, api/dse.py:100), and *)
(* its range does not reach back before the first day of the calendar, on  *)
(* which datetime.date raises.  None is no range of days and no review     *)
(* status.                                                                 *)
ASSUME PlansAssumption ==
    /\ None # "pending"
    /\ \A plan \in Plans : \A q \in Requests :
          LET c == plan[q] IN
          /\ c.op \in {"mint", "create", "update"} => c.slug \in Slugs
          /\ c.op = "update" => c.to \in {"active", "inactive"}
          /\ c.op = "row" => c.tenant \in Slugs
          /\ c.op \in {"score", "row"} => c.rep \in Spellings \cup {None}
          /\ c.op = "review" => c.decision # None
          /\ c.op = "list" =>
                /\ c.limit \in Nat \ {0}
                /\ \A day \in 0..LastDay : ResolveRange(c.from, c.to, day) # None
                /\ c.filter = [band |-> c.filter.band, reason |-> c.filter.reason, rep |-> c.filter.rep,
                               review |-> c.filter.review, range |-> c.filter.range]
          /\ c.op \in {"summary", "scorecard"} =>
                /\ c.bucket \in {"daily", "weekly", "monthly"}
                /\ c.from \in Nat \cup {None} /\ c.to \in Nat \cup {None}
                /\ \A day \in FirstDay..LastDay :
                      LET range == ResolveRange(c.from, c.to, day)
                      IN  range.start >= 0 /\ None \notin {range, PreviousRange(range)}
          /\ c.op = "upload" =>
                /\ c.file.rows \in Seq({c.file.rows[i] : i \in DOMAIN c.file.rows})
                /\ \A i \in DOMAIN c.file.rows : c.file.rows[i].agent \in Spellings \cup {None}
          /\ c.op = "mint" =>
                /\ c.key \notin DOMAIN Seeds.keys
                /\ \A p \in Requests \ {q} : plan[p].op = "mint" => plan[p].key # c.key

Init ==
    /\ clock = [tick |-> FirstTick, serial |-> Seeds.serial]
    /\ windows = <<>> /\ hits = {}
    /\ tenants = Seeds.tenants /\ keys = Seeds.keys /\ results = Seeds.results
    /\ audit = {} /\ hashes = Seeds.hashes /\ hierarchy = Seeds.hierarchy
    /\ call \in Plans
    /\ pc = [q \in Requests |-> IF Op(q) = "none" THEN "closed" ELSE "new"]
    /\ txn = [q \in Requests |-> NoTxn]
    /\ page = [q \in Requests |-> [offset |-> 0, got |-> {}, base |-> {}]]
    /\ reply = [q \in Requests |-> NoReply] /\ early = {}
    /\ scoring = {} /\ refusals = 0

Step(q) == ApiStep(q) \/ ScoreStep(q) \/ RecordStep(q) \/ ReportStep(q)

Over == \A q \in Requests : pc[q] = "closed"

Next == Tick \/ \E q \in Requests : Step(q) \/ CommitRefused(q) \/ Respond(q)

(* The event loop and its threads run what is ready, statements end, and   *)
(* every provider call has a timeout.                                      *)
Fairness == \A q \in Requests : WF_vars(Step(q))

Spec == Init /\ [][Next]_vars /\ Fairness

TypeOK ==
    /\ clock \in [tick : FirstTick..LastTick, serial : Nat]
    /\ \A w \in DOMAIN windows : windows[w].start \in FirstTick..LastTick /\ windows[w].count > 0
    /\ tenants \in [Slugs -> [state : {"absent", "active", "inactive"}, off : Nat \cup {None}]]
    /\ \A k \in DOMAIN keys : keys[k].tenant \in Slugs
    /\ \A id \in DOMAIN results :
          /\ results[id].id = id /\ results[id].tenant \in Slugs
          /\ results[id].band \in Bands /\ results[id].at.n <= clock.serial
          /\ results[id].rep = None \/ NormalizeId(results[id].rep) = results[id].rep
    /\ \A h \in hashes : h.tenant \in Slugs
    /\ \A h \in hierarchy : NormalizeId(h.agent) = h.agent
    /\ scoring \subseteq Requests /\ Cardinality(scoring) <= ScorePlaces
    /\ \A q \in Requests : pc[q] \in {"new", "closed"} => txn[q] = NoTxn
    /\ early \subseteq Requests
    /\ refusals \in 0..MaxRefusals

(* ---- scoring ----------------------------------------------------------- *)

Stored(q) == q \in DOMAIN results

(* How a request has ended.  200 is a transaction that has committed: what *)
(* is said below of answers is said of those, whenever the client had them.*)
Ended(q, status) == reply[q].status = status

(* What the client was told: a 200 that left early stands.                 *)
Told(q) == IF q \in early THEN 200 ELSE reply[q].status

(* A verdict on record is the one its request was answered with, and a     *)
(* client told 200 after the commit finds its photo on record; a 200 that  *)
(* left before the commit is no such promise.  "A failed Live AI call must *)
(* not poison the duplicate store" (api/scoring.py:117): a hash comes with *)
(* a result of its tenant, and with every result whose photo has one.      *)
AnsweredIsKept ==
    /\ \A q \in Requests : IsScoring(q) =>
          /\ Stored(q) => Told(q) = 200 /\ reply[q].code = results[q].code
          /\ (Told(q) = 200 /\ q \notin early) => Stored(q)
          /\ (Stored(q) /\ Hash[call[q].image] # None) => \E h \in hashes : h.id = q
    /\ \A h \in hashes \ Seeds.hashes :
          /\ h.id \in DOMAIN results /\ results[h.id].tenant = h.tenant
          /\ Hash[results[h.id].image] = h.hash

(* The photo is within the thresholds of a remembered one of its tenant.   *)
Resembles(r, h) ==
    /\ Hash[r.image] # None /\ h.tenant = r.tenant
    /\ Likeness(Hash[r.image], h.hash) # "new"

(* What is called a duplicate resembles a photo of its tenant that was     *)
(* remembered before it: two photos scored at once never are each other's  *)
(* original, and whoever goes from match to match comes to a photo that    *)
(* was not called a duplicate, or was there before.                        *)
RecycledHasAnOriginal ==
    \A q \in Requests : (Stored(q) /\ results[q].code = "recycled") =>
       \E h, own \in hashes : own.id = q /\ h.n < own.n /\ Resembles(results[q], h)

(* Two copies scored at once may both look fresh, but a photo within the   *)
(* thresholds of one that was on record when its request began is called a *)
(* duplicate, whether the endpoint or a bulk job scored them -- unless the *)
(* tenant has remembered MaxCandidates photos since.                       *)
LateCopiesAreCaught ==
    \A q \in Requests : \A h \in hashes :
       (/\ Stored(q) /\ h.id # q /\ Resembles(results[q], h)
        /\ \/ h \in Seeds.hashes
           \/ h.id \in Requests /\ reply[h.id].done < results[q].at.n)
       => results[q].code = "recycled" \/ Outdated(h)

(* ---- access ------------------------------------------------------------ *)

(* The requests of one client that one tier has let pass or turned away.   *)
Counts(client, tier) ==
    {h \in hits : /\ Op(h.q) \in LimitedOps /\ Client(call[h.q]) = client
                  /\ IF tier = "compute" THEN Op(h.q) = "score" ELSE h.by # "compute"}

Since(S, tick, until) == {h \in S : tick <= h.tick /\ h.tick < until}

(* Fixed windows let a client send its limit on both sides of an edge, and *)
(* no more: any Window seconds see at most twice the limit.                *)
SlidingBound ==
    \A client \in {Client(call[h.q]) : h \in hits} : \A tier \in DOMAIN Limit :
       Limit[tier] # 0 =>
         \A h \in hits :
            Cardinality({g \in Since(Counts(client, tier), h.tick, h.tick + Window) :
                           g.by # tier}) <= 2 * Limit[tier]

(* Nobody is turned away who has not sent more than the limit in the last  *)
(* Window seconds.  A call refused by the compute tier has not "consumed   *)
(* the shared general budget" (api/ratelimit.py:93).                       *)
RefusalIsEarned ==
    \A h \in hits : h.by # "none" =>
       Cardinality(Since(Counts(Client(call[h.q]), h.by), h.tick - Window + 1, h.tick + 1))
          > Limit[h.by]

(* No request that begins after its tenant was deactivated, or its key     *)
(* revoked, leaves a verdict or a decision behind; one that is under way   *)
(* may finish.                                                             *)
NoWorkForTheInactive ==
    \A q \in Requests : (Op(q) \in DataOps /\ Ended(q, 200)) =>
       LET k == keys[call[q].key]
       IN  \A off \in {k.off, tenants[k.tenant].off} \ {None} :
              \A at \in {results[id].at.n : id \in {q} \cap DOMAIN results}
                        \cup {a.at.n : a \in {a \in audit : a.by = q}} : at <= off

(* Every row an answer shows or a decision changes belongs to the tenant   *)
(* of the key, whatever the others write meanwhile.                        *)
AnswersStayInTenant ==
    \A q \in Requests : (Op(q) \in DataOps /\ Ended(q, 200)) =>
       LET mine == {id \in DOMAIN results : results[id].tenant = keys[call[q].key].tenant}
       IN  /\ Op(q) \in {"get", "summary", "scorecard"} => {r.id : r \in reply[q].items} \subseteq mine
           /\ Op(q) = "summary" => {r.id : r \in reply[q].prev} \subseteq mine
           /\ Op(q) = "list" => page[q].got \subseteq mine
           /\ Op(q) = "review" => call[q].target \in mine

(* ---- records ----------------------------------------------------------- *)

(* A decision is on a result only with the audit event that explains it,   *)
(* and no audit event is about an undecided result.                        *)
ReviewIsAudited ==
    /\ \A id \in DOMAIN results : results[id].review # None =>
          \E a \in audit : a.result = id /\ a.decision = results[id].review
    /\ \A a \in audit : results[a.result].review # None

(* A client that reads page after page until one is short has seen every   *)
(* result there was when it began, though newer ones push the rest down.   *)
PagingMissesNothing ==
    \A q \in Requests :
       (Op(q) = "list" /\ Ended(q, 200) /\ ~AtNode(call[q]) /\ call[q].filter.review = None)
       => {r.id : r \in page[q].base} \subseteq page[q].got

Uploads == {q \in Requests : Op(q) = "upload" /\ Ended(q, 200)}

(* "Atomically replace this tenant's hierarchy" (service/repo.py:97), as   *)
(* far as it holds: the org map is made of whole uploads, the seeded one   *)
(* is gone after the first, and two uploads are there together only if     *)
(* their transactions overlapped.  An upload counts once it has committed, *)
(* also where its 200 left before.                                         *)
UploadReplacesTheMap ==
    LET current == {q \in Uploads : \E h \in hierarchy : h.upload = q}
    IN  /\ Uploads # {} => OrgRows(DevTenant) = UNION {reply[q].rows : q \in current}
        /\ Uploads # {} => current # {}
        /\ \A p, q \in current : ~(reply[p].done < reply[q].at.n)

(* ---- reports ----------------------------------------------------------- *)

Parts(sets, whole) ==
    /\ UNION sets = whole
    /\ \A s, t \in sets : s = t \/ s \cap t = {}

(* A report counts each of its results in one bucket, one group and one    *)
(* day, its buckets have disjoint days that end with the range, and the    *)
(* previous period is the equal stretch of days before it.                 *)
EveryItemCountedOnce ==
    \A q \in Requests : (Op(q) \in {"summary", "scorecard"} /\ Ended(q, 200)) =>
       LET r == reply[q]
           sizes(parts) == [p \in parts |-> Cardinality(p.items)]
           counts(series) == [d \in DOMAIN series |-> series[d].count]
       IN  /\ Parts({b.items : b \in r.body.buckets}, r.items)
           /\ SumFunction(sizes(r.body.buckets)) = Cardinality(r.items)
           /\ Max({b.last : b \in r.body.buckets}) = r.range.end - 1
           /\ Op(q) = "summary" =>
                /\ SumFunction(counts(r.body.series)) = Cardinality(r.items)
                /\ SumFunction(sizes(r.body.groups))
                     = IF call[q].field = "none" THEN 0 ELSE Cardinality(r.items)
                /\ \A i \in r.items, p \in r.prev : p.at.day < i.at.day
                /\ \A p \in r.prev : r.range.start - p.at.day <= r.range.end - r.range.start

(* A group of the summary is what listing its node returns.                *)
DrillDownAgrees ==
    \A q \in Requests : (Op(q) = "summary" /\ Ended(q, 200) /\ call[q].field \notin {"none", "agent"}) =>
       \E rows \in RowLists(reply[q].org) : \A g \in reply[q].body.groups :
          g.node # Unmapped => g.items = UnderNode(reply[q].items, rows, call[q].field, g.node)

(* ---- all requests ------------------------------------------------------ *)

(* Whatever holds locks, places or the commit's failure: every request is  *)
(* answered.                                                               *)
EveryRequestAnswered == <>Over

(* Whatever the requests do at the same time, each of them is one of the   *)
(* atomic requests of module RecordContract.                               *)
Contract == INSTANCE RecordContract WITH
    answer <- [q \in Requests |-> Told(q)],
    ended  <- {q \in Requests : reply[q].status # 0}

ImplementsContract == Contract!RSpec
==============================================================================
