--------------------------- MODULE RecordContract ---------------------------
(***************************************************************************)
(* What one request may do to the tables, whatever others do at the same   *)
(* time (get_repo and get_session, api/deps.py: commit, or roll back and   *)
(* leave nothing): it ends once, it changes the tables in the step that    *)
(* ends it or never, and the change is one of these.  A change is always   *)
(* answered 200, when it is made or before; a 200 that came before the end *)
(* may also be followed by no change at all.                               *)
(* A result is added, with its photo's hash if the photo has one, and never *)
(* removed, and only its review changes, together with the audit event; an *)
(* upload adds its own rows and takes rows of its tenant away.             *)
(*                                                                         *)
(* Stages, statements, locks, transactions, the clock, limits and places   *)
(* are absent: module Service implements this one.                         *)
(***************************************************************************)
EXTENDS Integers

CONSTANTS Requests, Plans, Seeds, DevTenant, None,
          Hash, Distance, DupExact, DupNear   \* what makes two photos alike

VARIABLES tenants, keys, results, audit, hashes, hierarchy, call,
          answer,  \* the status each request was answered with, 0 before
          ended    \* the requests whose transaction is over

rtables == <<tenants, keys, results, audit, hashes, hierarchy>>
rvars   == <<rtables, call, answer, ended>>

RInit ==
  /\ tenants = Seeds.tenants /\ keys = Seeds.keys /\ results = Seeds.results
  /\ audit = {} /\ hashes = Seeds.hashes /\ hierarchy = Seeds.hierarchy
  /\ call \in Plans
  /\ answer = [q \in Requests |-> 0] /\ ended = {}

\* the response leaves before the commit: only a 200 does, and only that of a
\* request over HTTP that writes
AnswerEarly(q) ==
  /\ call[q].op \in {"score", "review", "upload", "create", "update"}
  /\ q \notin ended /\ answer[q] = 0
  /\ answer' = [answer EXCEPT ![q] = 200]
  /\ UNCHANGED <<rtables, call, ended>>

\* for the first and only time; what was answered stands
Ends(q) ==
  /\ q \notin ended /\ ended' = ended \cup {q}
  /\ answer'[q] # 0 /\ (answer[q] = 0 \/ answer'[q] = answer[q])
  /\ answer' = [answer EXCEPT ![q] = answer'[q]]
  /\ UNCHANGED call

Succeeds(q, ops) == call[q].op \in ops /\ Ends(q) /\ answer'[q] = 200

\* refused, failed, or it only reads
LeaveAlone(q) == Ends(q) /\ UNCHANGED rtables

Alike(x, y) == Distance[x, y] <= DupExact \/ Distance[x, y] <= DupNear

AddResult(q) ==
  LET row == results'[q] IN
  /\ Succeeds(q, {"score", "row"})
  /\ q \notin DOMAIN results
  /\ results' = [id \in DOMAIN results \cup {q} |-> IF id = q THEN row ELSE results[id]]
  /\ row.id = q /\ row.image = call[q].image /\ row.review = None
  /\ row.code = "recycled" =>
       \E h \in hashes : h.tenant = row.tenant /\ Alike(Hash[row.image], h.hash)
  /\ \/ Hash[row.image] = None /\ hashes' = hashes
     \/ \E h \in hashes' :
          /\ hashes' = hashes \cup {h} /\ h.id = q
          /\ h.tenant = row.tenant /\ h.hash = Hash[row.image] /\ h.hash # None
  /\ UNCHANGED <<tenants, keys, audit, hierarchy>>

Review(q) ==
  LET id == call[q].target IN
  /\ Succeeds(q, {"review"})
  /\ id \in DOMAIN results
  /\ \/ results' = results
     \/ results' = [results EXCEPT ![id].review = call[q].decision]
  /\ results'[id].review # None
  /\ \E event \in audit' :
       /\ event.by = q /\ event.result = id /\ event.decision = call[q].decision
       /\ event.tenant = results[id].tenant
       /\ audit' = audit \cup {event}
  /\ UNCHANGED <<tenants, keys, hashes, hierarchy>>

ReplaceMap(q) ==
  /\ Succeeds(q, {"upload"})
  /\ \A h \in hierarchy \ hierarchy' : h.tenant = DevTenant
  /\ \A h \in hierarchy' \ hierarchy : h.tenant = DevTenant /\ h.upload = q
  /\ UNCHANGED <<tenants, keys, results, audit, hashes>>

ChangeKey(q) ==
  LET k == call[q].key IN
  /\ Succeeds(q, {"mint", "revoke"})
  /\ DOMAIN keys \subseteq DOMAIN keys' /\ DOMAIN keys' \subseteq DOMAIN keys \cup {k}
  /\ \A o \in DOMAIN keys : /\ o # k => keys'[o] = keys[o]
                            /\ keys'[o].tenant = keys[o].tenant
  /\ UNCHANGED <<tenants, results, audit, hashes, hierarchy>>

ChangeTenant(q) ==
  /\ Succeeds(q, {"create", "update"})
  /\ DOMAIN tenants' = DOMAIN tenants
  /\ \A slug \in DOMAIN tenants : slug # call[q].slug => tenants'[slug] = tenants[slug]
  /\ UNCHANGED <<keys, results, audit, hashes, hierarchy>>

RNext ==
  \E q \in Requests :
    \/ AnswerEarly(q) \/ LeaveAlone(q)
    \/ AddResult(q) \/ Review(q) \/ ReplaceMap(q) \/ ChangeKey(q) \/ ChangeTenant(q)

RSpec == RInit /\ [][RNext]_rvars
=============================================================================
