------------------------------- MODULE ScoreApi -------------------------------
(***************************************************************************)
(* api/scoring.py: POST /v1/score and the scoring core it shares with bulk *)
(* rows.  What one scoring computes is in Pipeline; here a verdict is any  *)
(* that its ground allows.  Photos are compared by their dHashes, and      *)
(* distances are no equivalence: near duplicates form chains.              *)
(***************************************************************************)
EXTENDS Api

CONSTANTS
    DefaultBackend,  \* VISION_BACKEND
    Misconfigured,   \* backends that cannot be constructed
    ScorePlaces,     \* _SCORE_CONCURRENCY
    Distance,        \* Hamming distance of two dHashes
    DupExact, DupNear,  \* the tenants' thresholds
    MaxCandidates,   \* hashes a lookup reads, newest first
    Screens, Blurred,   \* photos the recapture and the blur check object to
    Graded           \* verdicts [band, code] a photo can get, by what decides them

(* What decides a verdict: an exact or a near duplicate, a photo of a      *)
(* screen, the model's judgment, or without it the blur, or nothing.       *)
Grounds == {"exact", "near", "screen", "judged", "blurred", "unseen"}

(* "recycled" is the duplicate gate's reason, never the model's, and it    *)
(* outranks all others (Pipeline's WorstEvidenceIsNamed).                  *)
ASSUME ScoreAssumption ==
    /\ ScorePlaces \in Nat \ {0} /\ MaxCandidates \in Nat \ {0}
    /\ \A ground \in Grounds : Graded[ground] # {} /\ \A verdict \in Graded[ground] :
          /\ verdict.band \in Bands
          /\ (verdict.code = "recycled") <=> (ground \in {"exact", "near"})

IsScoring(q) == Op(q) \in {"score", "row"}

Explicit(q)  == call[q].backend # None
Requested(q) == IF Explicit(q) THEN call[q].backend ELSE DefaultBackend
(* build_vision_backend succeeds.                                          *)
Builds(q)    == Requested(q) \notin Misconfigured
LiveAi(q)    == Explicit(q) /\ Requested(q) # "stub"

Unavailable(q) == Explicit(q) /\ ~Builds(q)

(* A thread with a place of the limiter, which both kinds share.  A        *)
(* backend the caller named and that cannot be built is a 503.             *)
TakesPlace(q, t) ==
    /\ Cardinality(scoring) < ScorePlaces
    /\ \/ Unavailable(q) /\ Answers(q, [status |-> 503]) /\ UNCHANGED scoring
       \/ ~Unavailable(q) /\ Goes(q, "look", t) /\ scoring' = scoring \cup {q}

(* A bulk job's row, its photo fetched: no API key, the job's tenant, and  *)
(* a transaction that is opened inside the thread.                         *)
StartRow(q) ==
    /\ pc[q] = "new" /\ Op(q) = "row"
    /\ NextSerial
    /\ TakesPlace(q, Began(call[q].tenant))
    /\ UNCHANGED <<tables, windows, hits, call, page, refusals>>

(* A request waits for its place with its transaction open.                *)
StartScore(q) ==
    /\ pc[q] = "run" /\ Op(q) = "score"
    /\ \/ call[q].image = None /\ Answers(q, [status |-> 400]) /\ UNCHANGED scoring
       \/ call[q].image # None /\ TakesPlace(q, txn[q])
    /\ UNCHANGED <<tables, clock, windows, hits, call, page, refusals>>

(* record_result and _remember_hash: one transaction with both rows.       *)
(* faulty variant: the rep's id is stored as it was sent *)
ResultRow_AsSent(q, verdict) ==
    [id |-> q, tenant |-> txn[q].tenant, rep |-> call[q].rep, image |-> call[q].image,
     band |-> verdict.band, code |-> verdict.code, at |-> txn[q].at,
     source |-> IF Op(q) = "score" THEN "direct" ELSE "bulk", review |-> None]

ResultRow(q, verdict) ==
    [id |-> q, tenant |-> txn[q].tenant, rep |-> NormalizeId(call[q].rep),
     image |-> call[q].image, band |-> verdict.band, code |-> verdict.code,
     at |-> txn[q].at, source |-> IF Op(q) = "score" THEN "direct" ELSE "bulk",
     review |-> None]

(* The flush gives the hash its number.  The request's thread ends here; a *)
(* row's own commits before it ends.                                       *)
RecordVerdict(q, verdict) ==
    /\ NextSerial
    /\ Goes(q, "exit", [txn[q] EXCEPT !.write = ResultRow(q, verdict),
                                      !.read = clock.serial + 1])
    /\ scoring' = IF Op(q) = "score" THEN scoring \ {q} ELSE scoring

(* ---- the hash store ---------------------------------------------------- *)

(* A hash behind the newest MaxCandidates of its tenant is read no more.   *)
Outdated(h) ==
    Cardinality({g \in hashes : g.tenant = h.tenant /\ g.n > h.n}) >= MaxCandidates

Likeness(x, y) ==
    IF Distance[x, y] <= DupExact THEN "exact"
    ELSE IF Distance[x, y] <= DupNear THEN "near" ELSE "new"

(* faulty variant: the hashes of all tenants *)
Matches_AnyTenant(tenant, image) ==
    IF Hash[image] = None THEN {}
    ELSE {Likeness(Hash[image], h.hash) : h \in {h \in hashes : ~Outdated(h)}}

(* faulty variant: the oldest hashes are read, not the newest *)
Matches_OldestFirst(tenant, image) ==
    LET old(h) == Cardinality({g \in hashes : g.tenant = tenant /\ g.n < h.n})
    IN  IF Hash[image] = None THEN {}
        ELSE {Likeness(Hash[image], h.hash) :
                h \in {h \in hashes : h.tenant = tenant /\ old(h) < MaxCandidates}}

(* How the hashes that transactions have committed resemble the photo.     *)
Matches(tenant, image) ==
    IF Hash[image] = None THEN {}
    ELSE {Likeness(Hash[image], h.hash) : h \in {h \in hashes : h.tenant = tenant /\ ~Outdated(h)}}

(* nearest: the smallest distance decides.                                 *)
Duplicate(tenant, image) ==
    LET found == Matches(tenant, image)
    IN  IF "exact" \in found THEN "exact" ELSE IF "near" \in found THEN "near" ELSE "new"

(* _remember_hash: bytes without a dHash leave nothing.                    *)
Remembered(row, n) ==
    IF Hash[row.image] = None THEN hashes
    ELSE hashes \cup {[id |-> row.id, tenant |-> row.tenant, hash |-> Hash[row.image], n |-> n]}

(* ---- the verdict ------------------------------------------------------- *)

(* The most severe of what fired.                                          *)
Ground(image, duplicate, judged) ==
    IF duplicate # "new" THEN duplicate
    ELSE IF image \in Screens THEN "screen"
    ELSE IF judged THEN "judged"
    ELSE IF image \in Blurred THEN "blurred" ELSE "unseen"

(* _free_hard_gate_fired: an exact duplicate and a photo of a screen are   *)
(* not shown to the model; a near duplicate is.                            *)
LookForDuplicate(q) ==
    LET found == Duplicate(txn[q].tenant, call[q].image)
        rejected == found = "exact" \/ call[q].image \in Screens
    IN  /\ pc[q] = "look"
        /\ \/ /\ rejected
              /\ \E verdict \in Graded[Ground(call[q].image, found, FALSE)] :
                    RecordVerdict(q, verdict)
           \/ /\ ~rejected
              /\ Goes(q, "ask", [txn[q] EXCEPT !.read = found])
              /\ UNCHANGED <<clock, scoring>>
        /\ UNCHANGED <<tables, windows, hits, call, page, refusals>>

(* The stub decodes the photo itself.                                      *)
ModelAnswers(q) ==
    /\ pc[q] = "ask" /\ Builds(q)
    /\ Requested(q) = "stub" => Hash[call[q].image] # None
    /\ \E verdict \in Graded[Ground(call[q].image, txn[q].read, TRUE)] : RecordVerdict(q, verdict)
    /\ UNCHANGED <<tables, windows, hits, call, page, refusals>>

CanFail(q) == Requested(q) # "stub" \/ Hash[call[q].image] = None

(* faulty variant: the 503 does not give the place back *)
ModelFails_PlaceKept(q) ==
    /\ pc[q] = "ask" /\ CanFail(q)
    /\ \/ LiveAi(q) /\ Answers(q, [status |-> 503]) /\ UNCHANGED <<clock, scoring>>
       \/ /\ ~LiveAi(q)
          /\ \E verdict \in Graded[Ground(call[q].image, txn[q].read, FALSE)] :
                RecordVerdict(q, verdict)
    /\ UNCHANGED <<tables, windows, hits, call, page, refusals>>

(* The provider fails, or the default backend could not be built: whoever  *)
(* asked for Live AI by name gets a 503 and leaves nothing behind, anyone  *)
(* else the verdict of the free checks, which is kept.                     *)
ModelFails(q) ==
    /\ pc[q] = "ask" /\ CanFail(q)
    /\ \/ /\ LiveAi(q)
          /\ Answers(q, [status |-> 503])
          /\ scoring' = scoring \ {q}
          /\ UNCHANGED clock
       \/ /\ ~LiveAi(q)
          /\ \E verdict \in Graded[Ground(call[q].image, txn[q].read, FALSE)] :
                RecordVerdict(q, verdict)
    /\ UNCHANGED <<tables, windows, hits, call, page, refusals>>

(* get_repo's commit (api/deps.py:24), before or after the response, or a  *)
(* bulk row's own (service/bulk.py:179).                                   *)
CommitScore(q) ==
    LET row == txn[q].write
    IN  /\ pc[q] = "exit" /\ IsScoring(q)
        /\ results' = [id \in DOMAIN results \cup {q} |->
                         IF id = q THEN row ELSE results[id]]
        /\ hashes' = Remembered(row, txn[q].read)
        /\ Answers(q, [status |-> 200, code |-> row.code, done |-> clock.serial])
        /\ scoring' = scoring \ {q}
        /\ UNCHANGED <<tenants, keys, audit, hierarchy, clock, windows, hits, call, page,
                       refusals>>

ScoreStep(q) ==
    \/ StartRow(q) \/ StartScore(q) \/ LookForDuplicate(q)
    \/ ModelAnswers(q) \/ ModelFails(q) \/ CommitScore(q)
==============================================================================
