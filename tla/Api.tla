--------------------------------- MODULE Api ---------------------------------
(***************************************************************************)
(* The HTTP service around the tables: what every request goes through     *)
(* (rate limit, body size, API key, its own database transaction) and the  *)
(* tables the requests share.  The handlers are in ScoreApi, Records and   *)
(* Reports; Service puts them together.                                    *)
(*                                                                         *)
(* A request is a call: a record whose field op names the operation.  One  *)
(* action stands for one database statement with the code around it, and   *)
(* what a transaction has written stays in txn[q].write until its commit.  *)
(* Isolation is READ COMMITTED: each statement reads the committed tables. *)
(*                                                                         *)
(* get_repo commits when the handler has returned.  Up to 0.117 FastAPI    *)
(* does that before it sends the response, later versions after it, and    *)
(* pyproject.toml accepts both: the order is left open for every request.  *)
(***************************************************************************)
EXTENDS Analytics, RateLimiter

CONSTANTS
    Requests,        \* the requests of one behaviour
    Plans,           \* which calls they make: a set of functions from Requests
    Slugs, DevTenant,\* tenants, and DEFAULT_TENANT
    Seeds,           \* initial contents of the tables
    Hash,            \* the dHash of each photo; None of bytes that do not decode
    DayLength,       \* seconds in a day
    FirstTick, LastTick,    \* when the behaviour starts, and when its time stops
    MaxRefusals      \* commits the database may refuse

FirstDay == FirstTick \div DayLength
LastDay  == LastTick \div DayLength

(* The calendar goes on after the last day.                                *)
ASSUME ClockAssumption ==
    /\ DayLength \in Nat \ {0} /\ FirstTick \in Nat /\ LastTick \in Nat /\ FirstTick <= LastTick
    /\ \A day \in 0..LastDay : \E m \in MonthStarts : day < m

ASSUME RefusalsAssumption == MaxRefusals \in Nat

VARIABLES
    clock,       \* [tick, serial]: the time; the last number given to a transaction
                 \* or to a row of image_hashes
    windows,     \* the rate limiter's table
    hits,        \* history: the arrivals and what the rate limiter said
    tenants,     \* [slug -> [state, off]], off: the serial when deactivated
    keys,        \* [api key -> [tenant, off]], off: the serial when revoked
    results,     \* [result id -> row]
    audit,       \* the rows of audit_log that reviews write
    hashes,      \* image_hashes: [id, tenant, hash, n], id: the result it came with
    hierarchy,   \* the rows of the org map, with their tenant
    call,        \* what each request asks
    pc,          \* where its handler is
    txn,         \* its database transaction
    page,        \* a listing client's progress over several requests
    reply,       \* how it ended, and with what answer
    early,       \* history: the requests whose 200 left before their commit
    scoring,     \* the requests that hold a place of _score_limiter
    refusals     \* commits refused so far

tables  == <<tenants, keys, results, audit, hashes, hierarchy>>
flow    == <<pc, txn, reply, early>>
ambient == <<clock, windows, hits, call, page, scoring, refusals>>
vars    == <<clock, windows, hits, tenants, keys, results, audit, hashes,
             hierarchy, call, pc, txn, page, reply, early, scoring, refusals>>

Today == clock.tick \div DayLength

NoStamp == [n |-> 0, day |-> 0]
NoTxn   == [tenant |-> None, at |-> NoStamp, locks |-> {}, read |-> None, write |-> None]
NoReply == [status |-> 0]

Op(q) == call[q].op

(* Which paths the rate limiter covers, which ones carry an API key, and   *)
(* which "requests" are no requests: the rows of bulk jobs, and scripts    *)
(* run by an operator.                                                     *)
DataOps  == {"score", "review", "get", "list", "summary", "scorecard"}
LimitedOps == DataOps \cup {"upload", "status"}
AdminOps == {"create", "update"}
OfflineOps == {"row", "mint", "revoke"}

(* _bucket_key: the bearer key, else the address.                          *)
Client(c) == IF c.op \in DataOps THEN c.key ELSE "ip"

Goes(q, stage, t) ==
    /\ pc' = [pc EXCEPT ![q] = stage]
    /\ txn' = [txn EXCEPT ![q] = t]
    /\ UNCHANGED <<reply, early>>

(* The request is over and its transaction with it: committed, or rolled   *)
(* back.  Whoever has no response yet gets this one.                       *)
Answers(q, r) ==
    /\ pc' = [pc EXCEPT ![q] = "closed"]
    /\ txn' = [txn EXCEPT ![q] = NoTxn]
    /\ reply' = [reply EXCEPT ![q] = r]
    /\ UNCHANGED early

(* A transaction's first statement fixes the created_at of its rows; no    *)
(* two transactions start in the same microsecond.                         *)
Stamp == [n |-> clock.serial + 1, day |-> Today]
Began(tenant) == [tenant |-> tenant, at |-> Stamp, locks |-> {}, read |-> None, write |-> None]
NextSerial == clock' = [clock EXCEPT !.serial = @ + 1]

(* Row locks: what a flushed statement holds beside what it has written,   *)
(* and what a waiting one waits for.                                       *)
Holding(t, locks, write) == [t EXCEPT !.locks = locks, !.write = write]
LockedByOthers(q) == UNION {txn[p].locks : p \in Requests \ {q}}

(* ---- the middlewares --------------------------------------------------- *)

(* Arrival on the event loop: the rate limiter, then the body's size.  The *)
(* middleware that was added last runs first, so an oversized body has     *)
(* already been counted.                                                   *)
Arrive(q) ==
    LET a == IF Op(q) \in LimitedOps
             THEN Admit(windows, Client(call[q]), Op(q) = "score", clock.tick)
             ELSE [by |-> "none", windows |-> windows, retry |-> 0]
    IN  /\ pc[q] = "new" /\ Op(q) \notin OfflineOps
        /\ windows' = a.windows
        /\ hits' = hits \cup {[q |-> q, page |-> page[q].offset, by |-> a.by,
                               tick |-> clock.tick]}
        /\ \/ a.by # "none" /\ Answers(q, [status |-> 429, retry |-> a.retry])
           \/ a.by = "none" /\ call[q].big /\ Answers(q, [status |-> 413])
           \/ a.by = "none" /\ ~call[q].big /\ Goes(q, "admitted", NoTxn)
        /\ UNCHANGED <<tables, clock, call, page, scoring, refusals>>

(* ---- API keys ---------------------------------------------------------- *)

(* tenant_for_api_key: the active tenant of a key that is not revoked.     *)
(* faulty variant: a revoked key still works *)
TenantForApiKey_Revoked(k) ==
    IF k \in DOMAIN keys /\ tenants[keys[k].tenant].state = "active"
    THEN keys[k].tenant ELSE None

TenantForApiKey(k) ==
    IF /\ k \in DOMAIN keys /\ keys[k].off = None
       /\ tenants[keys[k].tenant].state = "active"
    THEN keys[k].tenant ELSE None

(* require_tenant, which runs before the handler of every data route.      *)
RequireTenant(q) ==
    LET tenant == TenantForApiKey(call[q].key)
    IN  /\ pc[q] = "admitted" /\ Op(q) \in DataOps
        /\ NextSerial
        /\ \/ tenant = None /\ Answers(q, [status |-> 401])
           \/ tenant # None /\ Goes(q, "run", Began(tenant))
        /\ UNCHANGED <<tables, windows, hits, call, page, scoring, refusals>>

(* mint_key, by the script: an active tenant's new key, or ValueError.     *)
MintKey(q) ==
    /\ pc[q] = "new" /\ Op(q) = "mint"
    /\ NextSerial
    /\ \/ tenants[call[q].slug].state # "active" /\ Answers(q, [status |-> 404])
       \/ /\ tenants[call[q].slug].state = "active"
          /\ Goes(q, "exit", [Began(call[q].slug) EXCEPT !.write = [key |-> call[q].key]])
    /\ UNCHANGED <<tables, windows, hits, call, page, scoring, refusals>>

RevokeKey(q) ==
    /\ pc[q] = "new" /\ Op(q) = "revoke"
    /\ NextSerial
    /\ Goes(q, "exit", [Began(None) EXCEPT !.write = [key |-> call[q].key]])
    /\ UNCHANGED <<tables, windows, hits, call, page, scoring, refusals>>

CommitKey(q) ==
    /\ pc[q] = "exit" /\ Op(q) \in {"mint", "revoke"}
    /\ keys' = [k \in DOMAIN keys \cup (IF Op(q) = "mint" THEN {call[q].key} ELSE {}) |->
                  IF k # call[q].key THEN keys[k]
                  ELSE IF Op(q) = "mint" THEN [tenant |-> call[q].slug, off |-> None]
                  ELSE [keys[k] EXCEPT !.off = clock.serial]]
    /\ Answers(q, [status |-> 200])
    /\ UNCHANGED <<tenants, results, audit, hashes, hierarchy, ambient>>

(* ---- tenant administration --------------------------------------------- *)

(* create_tenant looks the slug up; update, deactivate and delete load the *)
(* row or answer 404.                                                      *)
LookUpTenant(q) ==
    LET state == tenants[call[q].slug].state
    IN  /\ pc[q] = "admitted" /\ Op(q) \in AdminOps
        /\ NextSerial
        /\ \/ Op(q) = "create" /\ state # "absent" /\ Answers(q, [status |-> 409])
           \/ Op(q) = "update" /\ state = "absent" /\ Answers(q, [status |-> 404])
           \/ /\ (Op(q) = "create") = (state = "absent")
              /\ Goes(q, "write", [Began(call[q].slug) EXCEPT !.read = state])
        /\ UNCHANGED <<tables, windows, hits, call, page, scoring, refusals>>

(* The INSERT waits for whoever is inserting the same slug, and breaks the  *)
(* unique constraint if the slug was taken in between.                     *)
InsertTenant(q) ==
    LET slug == call[q].slug
    IN  /\ pc[q] = "write" /\ Op(q) = "create" /\ [slug |-> slug] \notin LockedByOthers(q)
        /\ \/ tenants[slug].state # "absent" /\ Answers(q, [status |-> 500])
           \/ /\ tenants[slug].state = "absent"
              /\ Goes(q, "exit", Holding(txn[q], {[slug |-> slug]}, [state |-> "active"]))
        /\ UNCHANGED <<tables, ambient>>

(* update, deactivate and delete, which is an alias of deactivate: the     *)
(* flush waits for the row, but only if the row it loaded says otherwise.  *)
UpdateTenant(q) ==
    LET lock == [slug |-> call[q].slug]
        to   == call[q].to
    IN  /\ pc[q] = "write" /\ Op(q) = "update"
        /\ \/ txn[q].read = to /\ Goes(q, "exit", txn[q])
           \/ /\ txn[q].read # to /\ lock \notin LockedByOthers(q)
              /\ Goes(q, "exit", Holding(txn[q], {lock}, [state |-> to]))
        /\ UNCHANGED <<tables, ambient>>

CommitTenant(q) ==
    LET slug == call[q].slug
    IN  /\ pc[q] = "exit" /\ Op(q) \in AdminOps
        /\ tenants' = IF txn[q].write = None THEN tenants
                      ELSE [tenants EXCEPT ![slug] =
                              [state |-> txn[q].write.state,
                               off   |-> IF txn[q].write.state = "active" THEN None
                                         ELSE clock.serial]]
        /\ Answers(q, [status |-> 200])
        /\ UNCHANGED <<keys, results, audit, hashes, hierarchy, ambient>>

(* ---- any request ------------------------------------------------------- *)

(* faulty variant: the hash was committed on its own before *)
CommitRefused_HashStays(q) ==
    LET row == txn[q].write
    IN  /\ pc[q] = "exit" /\ txn[q].write # None /\ refusals < MaxRefusals
        /\ refusals' = refusals + 1
        /\ hashes' = IF Op(q) \notin {"score", "row"} THEN hashes
                     ELSE hashes \cup {[id |-> q, tenant |-> row.tenant,
                                       hash |-> Hash[row.image], n |-> txn[q].read]}
        /\ scoring' = scoring \ {q}
        /\ Answers(q, [status |-> 500])
        /\ UNCHANGED <<tenants, keys, results, audit, hierarchy, clock, windows, hits, call,
                       page>>

(* get_repo, get_session: the commit raises and the transaction is rolled  *)
(* back.  A client without a response gets a 500, one that had its 200     *)
(* learns nothing; a bulk row gets an error, and its thread ends.          *)
CommitRefused(q) ==
    /\ pc[q] = "exit" /\ txn[q].write # None /\ refusals < MaxRefusals
    /\ refusals' = refusals + 1
    /\ Answers(q, [status |-> 500])
    /\ scoring' = scoring \ {q}
    /\ UNCHANGED <<tables, clock, windows, hits, call, page>>

(* The handler has returned its 200, and it is sent before the commit.     *)
Respond(q) ==
    /\ pc[q] = "exit" /\ Op(q) \notin OfflineOps /\ q \notin early
    /\ early' = early \cup {q}
    /\ UNCHANGED <<tables, ambient, pc, txn, reply>>

Tick ==
    /\ clock.tick < LastTick
    /\ clock' = [clock EXCEPT !.tick = @ + 1]
    /\ UNCHANGED <<tables, flow, windows, hits, call, page, scoring, refusals>>

ApiStep(q) ==
    \/ Arrive(q) \/ RequireTenant(q)
    \/ MintKey(q) \/ RevokeKey(q) \/ CommitKey(q)
    \/ LookUpTenant(q) \/ InsertTenant(q) \/ UpdateTenant(q) \/ CommitTenant(q)
==============================================================================
