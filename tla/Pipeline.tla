------------------------------ MODULE Pipeline ------------------------------
(***************************************************************************)
(* engine/pipeline.py and engine/checks: one photo from its raw facts to a *)
(* stored verdict.  The four free checks run first; if one of them already *)
(* rejects the photo the paid vision call is skipped; otherwise the model  *)
(* is asked, at most twice.  With the hybrid backend one attempt is two    *)
(* calls: the scout perceives, then the reasoner may replace its judgment. *)
(*                                                                         *)
(* What the provider answers, and whether it answers, is nondeterministic. *)
(***************************************************************************)
EXTENDS Fusion

CONSTANTS
  Photos,         \* what the free checks can measure on a photo
  Perceptions,    \* what the scout can say of it
  Judgments,      \* what the reasoner can answer
  HYBRID,         \* the two-stage backend is configured
  STRAY_ERRORS    \* the reasoner can fail with an error its caller does not list

MaxTries == 2     \* relevance.run: one try and one retry

(* The EXIF a photo can carry, time stamp and position, and what it scores. *)
ExifScore == [absent |-> 450, bare |-> 600, time |-> 750, gps |-> 700, both |-> 850]

Photo ==
  [header     : BOOLEAN,       \* Pillow opens it: EXIF is readable
   pil        : BOOLEAN,       \* Pillow decodes it to the end: it has a dHash
   cv2        : BOOLEAN,       \* CV2_AVAILABLE on the host that scores it
   gray       : BOOLEAN,       \* OpenCV decodes it, within the pixel budget
   exif       : DOMAIN ExifScore,
   variance   : Nat,           \* of the Laplacian
   distance   : Nat \cup {None},  \* dHash distance to the nearest stored hash
   screen     : BOOLEAN]       \* bezel and (moire or glare)

Judgment   == [plausibility : 0..100, visit : (0..100) \cup {None},
               confidence : {"high", "moderate", "low"}]
Perception == [people : 0..100, screen : BOOLEAN, graphic : BOOLEAN,
               plausibility : 0..100, visit : (0..100) \cup {None},
               confidence : {"high", "moderate", "low"}]

ASSUME InputsAssumption ==
  /\ Photos \subseteq Photo
  /\ Perceptions \subseteq Perception
  /\ Judgments \subseteq Judgment
  /\ {HYBRID, STRAY_ERRORS} \subseteq BOOLEAN

VARIABLES
  photo,       \* the submitted photo
  pc,          \* "free" "gate" "reason" "fuse" "record" "done"
  checks,      \* outcome of every check that has run
  tries,       \* vision attempts that failed
  perception,  \* what the scout last said; <<>> before it said anything
  verdict,     \* the engine's verdict; <<>> before fusion
  stored       \* the row record_result writes; <<>> before

vars == <<photo, pc, checks, tries, perception, verdict, stored>>

-----------------------------------------------------------------------------
Outcome(available, score, data) == [available |-> available, score |-> score, data |-> data]
NotRun == Outcome(FALSE, None, <<>>)

(* exif.run: presence is a mild bonus, never a gate. *)
ExifCheck(p) == Outcome(TRUE, IF p.header THEN ExifScore[p.exif] ELSE 500, <<>>)

(* From 0 at lo to 100.0 at hi in a straight line, rounded to a tenth. *)
Ramp(x, lo, hi) ==
  IF x <= lo THEN {0}
  ELSE IF x >= hi THEN {1000} ELSE Rounded(1000 * (x - lo), hi - lo)

(* blur.run_on_gray: a photo that cannot be decoded scores 0 without the flag. *)
SharpnessChecks(p) ==
  LET T      == Cfg.thresholds
      scores == IF p.gray THEN Ramp(p.variance, T.blur_floor, T.sharp_ok) ELSE {0}
  IN  IF p.cv2
      THEN {Outcome(TRUE, s, [blurred |-> p.gray /\ p.variance <= T.blur_floor]) : s \in scores}
      ELSE {Outcome(FALSE, None, [blurred |-> FALSE])}

(* uniqueness.run against the nearest hash of the tenant. *)
UniquenessChecks(p) ==
  LET T      == Cfg.thresholds
      exact  == p.distance # None /\ p.distance <= T.dup_exact
      near   == p.distance # None /\ ~ exact /\ p.distance <= T.dup_near
      scores == IF exact THEN {0} ELSE IF near THEN {200}
                ELSE IF p.distance = None THEN {1000}
                ELSE Ramp(p.distance, T.dup_near, T.unique_distance)
  IN  IF p.pil
      THEN {Outcome(TRUE, s, [exact |-> exact, near |-> near]) : s \in scores}
      ELSE {Outcome(TRUE, 0, [exact |-> FALSE, near |-> FALSE])}

(* recapture.run_on_gray *)
RecaptureCheck(p) ==
  IF p.cv2
  THEN Outcome(TRUE, IF ~ p.gray THEN 500 ELSE IF p.screen THEN 0 ELSE 1000,
               [screen |-> p.gray /\ p.screen])
  ELSE Outcome(FALSE, None, [screen |-> FALSE])

(* faulty variant: a near duplicate skips the vision call too *)
FreeHardGate_NearToo(cs) ==
  \/ cs["uniqueness"].available /\ (cs["uniqueness"].data.exact \/ cs["uniqueness"].data.near)
  \/ cs["recapture"].available /\ cs["recapture"].data.screen

(* _free_hard_gate_fired *)
FreeHardGate(cs) ==
  \/ cs["uniqueness"].available /\ cs["uniqueness"].data.exact
  \/ cs["recapture"].available /\ cs["recapture"].data.screen

(* faulty variant: axis weights that do not sum to one *)
ContentScore_Overweight(a) ==
  LET visit == IF a.visit = None THEN a.plausibility ELSE a.visit
      both  == 10 * a.plausibility + 4 * visit
  IN  IF RedFlag(a) /\ both > 250 THEN 250 ELSE both

(* relevance.run on an answer: the two axes blended, capped by a red flag. *)
ContentScore(a) ==
  LET visit == IF a.visit = None THEN a.plausibility ELSE a.visit
      both  == 6 * a.plausibility + 4 * visit
  IN  IF RedFlag(a) /\ both > 250 THEN 250 ELSE both

ContentCheck(a) == Outcome(TRUE, ContentScore(a), a)

(* HybridBackend.assess: only the judgment fields are the reasoner's to set. *)
Refined(a, j) ==
  [a EXCEPT !.plausibility = j.plausibility, !.visit = j.visit, !.confidence = j.confidence]

(* Integral rounding of the stored score: Python rounds halves to even. *)
RoundEven(tenths) ==
  LET whole == tenths \div 10
      rest  == tenths % 10
  IN  IF rest > 5 \/ (rest = 5 /\ whole % 2 = 1) THEN whole + 1 ELSE whole

-----------------------------------------------------------------------------
CheckNames == {"exif", "sharpness", "uniqueness", "recapture", "content"}

Init ==
  /\ photo \in Photos
  /\ pc = "free"
  /\ checks = [n \in CheckNames |-> NotRun]
  /\ tries = 0
  /\ perception = <<>>
  /\ verdict = <<>>
  /\ stored = <<>>

(* Steps 1 to 4 of score: the free checks, in one thread, without waiting. *)
RunFreeChecks ==
  /\ pc = "free"
  /\ \E sharp \in SharpnessChecks(photo), uniq \in UniquenessChecks(photo) :
       checks' = [checks EXCEPT !["exif"]       = ExifCheck(photo),
                                !["sharpness"]  = sharp,
                                !["uniqueness"] = uniq,
                                !["recapture"]  = RecaptureCheck(photo)]
  /\ pc' = "gate"
  /\ UNCHANGED <<photo, tries, perception, verdict, stored>>

SkipContent ==
  /\ pc = "gate"
  /\ FreeHardGate(checks)
  /\ checks' = [checks EXCEPT !["content"] = NotRun]
  /\ pc' = "fuse"
  /\ UNCHANGED <<photo, tries, perception, verdict, stored>>

(* vision.assess raised: once more, or score without the check. *)
AttemptFailed ==
  /\ tries' = tries + 1
  /\ pc' = IF tries' < MaxTries THEN "gate" ELSE "fuse"
  /\ UNCHANGED <<photo, checks, perception, verdict, stored>>

ScoutFails ==
  /\ pc = "gate"
  /\ ~ FreeHardGate(checks)
  /\ AttemptFailed

ScoutAnswers ==
  /\ pc = "gate"
  /\ ~ FreeHardGate(checks)
  /\ \E a \in Perceptions :
       /\ perception' = a
       /\ IF HYBRID
          THEN pc' = "reason" /\ UNCHANGED checks
          ELSE pc' = "fuse"   /\ checks' = [checks EXCEPT !["content"] = ContentCheck(a)]
  /\ UNCHANGED <<photo, tries, verdict, stored>>

ReasonerRefines ==
  /\ pc = "reason"
  /\ \E j \in Judgments :
       checks' = [checks EXCEPT !["content"] = ContentCheck(Refined(perception, j))]
  /\ pc' = "fuse"
  /\ UNCHANGED <<photo, tries, perception, verdict, stored>>

(* VisionUnavailable, ValidationError or ValueError: the scout's own judgment. *)
ReasonerDegrades ==
  /\ pc = "reason"
  /\ checks' = [checks EXCEPT !["content"] = ContentCheck(perception)]
  /\ pc' = "fuse"
  /\ UNCHANGED <<photo, tries, perception, verdict, stored>>

(* Any other exception (a connection reset while the body is read, a JSON   *)
(* array where an object was asked for) leaves assess, and the whole        *)
(* attempt counts as failed.                                                *)
ReasonerBreaks ==
  /\ pc = "reason"
  /\ STRAY_ERRORS
  /\ AttemptFailed

FuseChecks ==
  /\ pc = "fuse"
  /\ verdict' \in Fuse(checks)
  /\ pc' = "record"
  /\ UNCHANGED <<photo, checks, tries, perception, stored>>

(* record_result: int(round(score)) beside the band decided from the score. *)
Record ==
  /\ pc = "record"
  /\ stored' = [score |-> RoundEven(verdict.score), band |-> verdict.band,
                reason |-> verdict.reason]
  /\ pc' = "done"
  /\ UNCHANGED <<photo, checks, tries, perception, verdict>>

Finished ==
  /\ pc = "done"
  /\ UNCHANGED vars

Next ==
  \/ RunFreeChecks \/ SkipContent
  \/ ScoutFails \/ ScoutAnswers
  \/ ReasonerRefines \/ ReasonerDegrades \/ ReasonerBreaks
  \/ FuseChecks \/ Record
  \/ Finished

Spec == Init /\ [][Next]_vars

-----------------------------------------------------------------------------
(* Every variable holds a value of its kind at every step, and no score     *)
(* leaves 0..100.0 (engine/types.py CheckOutcome and Verdict).              *)
TypeOK ==
  /\ photo \in Photos
  /\ pc \in {"free", "gate", "reason", "fuse", "record", "done"}
  /\ DOMAIN checks = CheckNames
  /\ \A n \in CheckNames : /\ checks[n].available \in BOOLEAN
                            /\ checks[n].score \in (0..1000) \cup {None}
  /\ tries \in 0..MaxTries
  /\ perception \in Perceptions \cup {<<>>}
  /\ verdict \in Verdicts \cup {<<>>}
  /\ stored = <<>> \/ (stored.score \in 0..100 /\ stored.band \in Bands)

Fused    == verdict # <<>>
Answered == checks["content"].available
Skipped  == FreeHardGate(checks)

Duplicate == photo.pil /\ photo.distance # None /\ photo.distance <= Cfg.thresholds.dup_near
Exact     == photo.pil /\ photo.distance # None /\ photo.distance <= Cfg.thresholds.dup_exact
SeenAsScreen == photo.cv2 /\ photo.gray /\ photo.screen
Blurred      == photo.cv2 /\ photo.gray /\ photo.variance <= Cfg.thresholds.blur_floor

(* "Clear" is earned by evidence, not by the absence of it: the scout did    *)
(* answer and saw people and no red flag, whatever the reasoner made of it,  *)
(* the judgment passed the plausibility gate and, when confident, the visit  *)
(* gate, and no free check objected.                                         *)
ClearIsEarned ==
  (Fused /\ verdict.band = "Clear") =>
    /\ Answered
    /\ perception.people > 0 /\ ~ RedFlag(perception)
    /\ checks["content"].data.plausibility >= Cfg.thresholds.plausibility_gate
    /\ (checks["content"].data.confidence = "high") =>
          /\ perception.people # 1
          /\ \/ checks["content"].data.visit = None
             \/ checks["content"].data.visit >= Cfg.thresholds.visit_context_gate
    /\ ~ Duplicate /\ ~ SeenAsScreen /\ ~ Blurred

(* Integrity failures land in Suspect whatever the other signals say: an     *)
(* exact duplicate, a photo of a screen, a designed graphic, a photo without *)
(* people (the caps of scoring_config.py:43-54).                             *)
IntegrityIsSuspect ==
  (Fused /\ \/ Exact \/ SeenAsScreen
            \/ Answered /\ (RedFlag(perception) \/ perception.people = 0))
     => verdict.band = "Suspect"

(* The reason names the most severe evidence: a re-upload reads "recycled"   *)
(* even when it is blurred or a graphic, a screen is named before content,   *)
(* and "Unassessed" is kept for photos nobody looked at: the model never     *)
(* answered and no other gate had anything to say.                           *)
WorstEvidenceIsNamed ==
  Fused =>
    /\ (verdict.reason = "recycled") <=> Duplicate
    /\ (verdict.reason = "screen_recapture") <=>
          (~ Duplicate /\ (SeenAsScreen \/ (Answered /\ perception.screen)))
    /\ (verdict.reason = "too_blurred") =>
          (Blurred /\ (Answered => perception.people > 0 /\ ~ RedFlag(perception)))
    /\ (verdict.band = "Unassessed") <=>
          (~ Answered /\ ~ Duplicate /\ ~ SeenAsScreen /\ ~ Blurred)

(* Skipping the paid call cannot change the outcome: whatever the model      *)
(* could have said, band and reason would have been the same.                *)
SkippingIsSafe ==
  (Fused /\ Skipped) =>
    \A a \in Perceptions : \A v \in Fuse([checks EXCEPT !["content"] = ContentCheck(a)]) :
      v.band = verdict.band /\ v.reason = verdict.reason

(* "An ambiguous read lowers confidence, it does not manufacture a flag"     *)
(* (fuse.py:104): the same assessment given less surely never scores lower,  *)
(* nor does a more plausible reading of the same scene, although content     *)
(* weight, red-flag ceiling and two gates all read it.                       *)
KinderReadingsNeverHurt ==
  (Fused /\ Answered) =>
    LET seen          == checks["content"].data
        Reading(p, c) == [seen EXCEPT !.plausibility = p, !.confidence = c]
    IN  \A p \in {a.plausibility : a \in Perceptions}, c \in {seen.confidence, "low"} :
          p >= seen.plausibility =>
            \E v \in Fuse([checks EXCEPT !["content"] = ContentCheck(Reading(p, c))]) :
              v.score >= verdict.score

-----------------------------------------------------------------------------
(* What the repository says and the code does not do.                        *)

(* vision/hybrid.py:3-5: a stage-two failure keeps the scout's own judgment, *)
(* so a photo the scout once answered for is never left unassessed.           *)
StageTwoFailsOpen ==
  (Fused /\ perception # <<>>) => verdict.band # "Unassessed"
=============================================================================
