------------------------------- MODULE Fusion -------------------------------
(***************************************************************************)
(* engine/fusion/fuse.py: five check outcomes become one verdict.  The     *)
(* soft blend is a renormalised weighted average; every hard gate that     *)
(* fires may only cap it downward; the reason is the most severe one that  *)
(* fired.                                                                  *)
(*                                                                         *)
(* Scores and caps are integers in TENTHS of a point (69.5 is 695), the    *)
(* precision round(x, 1) leaves.  A quotient that falls exactly between    *)
(* two tenths is rounded by Python according to how the binary float       *)
(* happened to come out: both neighbours are possible results, so fuse is  *)
(* a set of possible verdicts (a singleton everywhere else).               *)
(***************************************************************************)
EXTENDS Integers, FiniteSetsExt

CONSTANT Cfg    \* the tenant's ScoringConfig: weights, thresholds, caps, bands

None == -1      \* Python's None, where a number may be absent

Ceilings == {"duplicate", "near_duplicate", "screen_recapture", "designed_graphic",
             "no_people", "low_plausibility", "weak_visit_context", "not_a_visit",
             "too_blurred", "no_content"}

ScoringConfig ==
  [weights    : [{"content", "sharpness", "uniqueness", "exif"} -> Nat],
   thresholds : [{"blur_floor", "sharp_ok", "dup_exact", "dup_near", "unique_distance",
                  "plausibility_gate", "visit_context_gate", "no_visit_suspect_gate"} -> Int],
   caps       : [Ceilings -> Int],
   bands      : [{"clear", "doubtful"} -> Int]]

ASSUME CfgAssumption == Cfg \in ScoringConfig

(* What the comment on Caps promises, and the defaults keep: integrity       *)
(* failures cap below Doubtful, every other gate below Clear, and the milder *)
(* of two alternative gates has the higher cap.  No validator checks it of a *)
(* tenant's own numbers.                                                     *)
CapsKeepTheirPromise ==
  /\ \A c \in {"duplicate", "screen_recapture", "designed_graphic", "no_people"} :
       Cfg.caps[c] < Cfg.bands.doubtful
  /\ \A c \in Ceilings : Cfg.caps[c] < Cfg.bands.clear
  /\ 0 < Cfg.bands.doubtful /\ Cfg.bands.doubtful <= Cfg.bands.clear
  /\ Cfg.caps.not_a_visit <= Cfg.caps.weak_visit_context
  /\ Cfg.thresholds.dup_exact <= Cfg.thresholds.dup_near

(* The nearest integers to n / d; two of them when n / d lies half-way. *)
Rounded(n, d) == {q \in {n \div d, (n \div d) + 1} : 2 * (n - q * d) <= d /\ 2 * (q * d - n) <= d}

Least(S) == {s \in S : \A t \in S : s <= t}

-----------------------------------------------------------------------------
(* REASON_PRIORITY: a smaller rank is more severe. *)
Severity ==
  [recycled                |-> 1,
   screen_recapture        |-> 2,
   designed_graphic        |-> 3,
   no_people_or_irrelevant |-> 4,
   not_a_visit             |-> 5,
   single_person           |-> 6,
   no_visit_context        |-> 7,
   too_blurred             |-> 8,
   no_content_analysis     |-> 9,
   clear                   |-> 10]

Reasons == DOMAIN Severity

(* faulty variant: the table read from its end *)
MostSevere_Mildest(reasons) ==
  {r \in reasons \cup {"clear"} : \A s \in reasons : Severity[r] >= Severity[s]}

(* most_severe: "clear" when nothing fired.  A singleton. *)
MostSevere(reasons) ==
  {r \in reasons \cup {"clear"} : \A s \in reasons \cup {"clear"} : Severity[r] <= Severity[s]}

(* The checks the blend reads: available, scored, and carrying a weight. *)
Blended(checks) ==
  {n \in DOMAIN Cfg.weights : /\ checks[n].available
                              /\ checks[n].score # None
                              /\ Cfg.weights[n] > 0}

(* _blend, rounded to a tenth: 50.0 when nothing can be blended. *)
Blend(checks) ==
  LET names  == Blended(checks)
      totalW == SumFunctionOnSet(Cfg.weights, names)
      acc    == SumFunction([n \in names |-> Cfg.weights[n] * checks[n].score])
  IN  IF names = {} THEN {500} ELSE Rounded(acc, totalW)

-----------------------------------------------------------------------------
Fires(condition, why, ceiling) ==
  IF condition THEN {[reason |-> why, cap |-> Cfg.caps[ceiling]]} ELSE {}

(* has_red_flag of a content assessment. *)
RedFlag(d) == d.screen \/ d.graphic

DuplicateGates(uniq) ==
  IF ~ uniq.available
  THEN {}
  ELSE      Fires(uniq.data.exact, "recycled", "duplicate")
       \cup Fires(~ uniq.data.exact /\ uniq.data.near, "recycled", "near_duplicate")

(* faulty variant: the confidence test the wrong way round *)
MeetingGates_Swapped(d) ==
  LET T            == Cfg.thresholds
      sure         == d.confidence # "high"
      seesContext  == d.visit # None
      clearlyNone  == seesContext /\ d.visit < T.no_visit_suspect_gate
      weak         == seesContext /\ d.visit < T.visit_context_gate
  IN  IF d.people = 0 \/ RedFlag(d)
      THEN {}
      ELSE      Fires(sure /\ clearlyNone, "not_a_visit", "not_a_visit")
           \cup Fires(sure /\ d.people = 1, "single_person", "weak_visit_context")
           \cup Fires(sure /\ d.people # 1 /\ weak, "no_visit_context", "weak_visit_context")
           \cup Fires(~ sure /\ clearlyNone, "no_visit_context", "weak_visit_context")

(* The gates that ask for a meeting: only on a real capture with people. *)
MeetingGates(d) ==
  LET T            == Cfg.thresholds
      sure         == d.confidence = "high"
      seesContext  == d.visit # None
      clearlyNone  == seesContext /\ d.visit < T.no_visit_suspect_gate
      weak         == seesContext /\ d.visit < T.visit_context_gate
  IN  IF d.people = 0 \/ RedFlag(d)
      THEN {}
      ELSE      Fires(sure /\ clearlyNone, "not_a_visit", "not_a_visit")
           \cup Fires(sure /\ d.people = 1, "single_person", "weak_visit_context")
           \cup Fires(sure /\ d.people # 1 /\ weak, "no_visit_context", "weak_visit_context")
           \cup Fires(~ sure /\ clearlyNone, "no_visit_context", "weak_visit_context")

(* faulty variant: the plausibility gate read from the no-people branch only *)
ContentGates_NoPlausibility(content) ==
  LET d == content.data IN
  IF ~ content.available
  THEN Fires(TRUE, "no_content_analysis", "no_content")
  ELSE      Fires(d.screen, "screen_recapture", "screen_recapture")
       \cup Fires(d.graphic, "designed_graphic", "designed_graphic")
       \cup Fires(d.people = 0, "no_people_or_irrelevant", "no_people")
       \cup MeetingGates(d)

ContentGates(content) ==
  LET d == content.data IN
  IF ~ content.available
  THEN Fires(TRUE, "no_content_analysis", "no_content")
  ELSE      Fires(d.screen, "screen_recapture", "screen_recapture")
       \cup Fires(d.graphic, "designed_graphic", "designed_graphic")
       \cup Fires(d.people = 0, "no_people_or_irrelevant", "no_people")
       \cup Fires(d.people # 0 /\ d.plausibility < Cfg.thresholds.plausibility_gate,
                  "no_people_or_irrelevant", "low_plausibility")
       \cup MeetingGates(d)

(* _gates: every hard gate that fired, with the cap it imposes. *)
Gates(checks) ==
       DuplicateGates(checks["uniqueness"])
  \cup Fires(checks["recapture"].available /\ checks["recapture"].data.screen,
             "screen_recapture", "screen_recapture")
  \cup ContentGates(checks["content"])
  \cup Fires(checks["sharpness"].available /\ checks["sharpness"].data.blurred,
             "too_blurred", "too_blurred")

-----------------------------------------------------------------------------
BandFor(score) ==
  IF score >= Cfg.bands.clear THEN "Clear"
  ELSE IF score >= Cfg.bands.doubtful THEN "Doubtful" ELSE "Suspect"

Clamped(x) == IF x < 0 THEN 0 ELSE IF x > 1000 THEN 1000 ELSE x

(* faulty variant: only the cap of the reason that is shown applies *)
Scores_ShownCapOnly(checks) ==
  LET shown     == MostSevere({g.reason : g \in Gates(checks)})
      Capped(b) == Least({b} \cup {g.cap : g \in {h \in Gates(checks) : h.reason \in shown}})
  IN  {Clamped(s) : s \in UNION {Capped(b) : b \in Blend(checks)}}

(* The lowest cap wins, and never raises the blend. *)
Scores(checks) ==
  LET Capped(b) == Least({b} \cup {g.cap : g \in Gates(checks)})
  IN  {Clamped(s) : s \in UNION {Capped(b) : b \in Blend(checks)}}

VerdictOf(score, why) ==
  [score  |-> score,
   reason |-> why,
   band   |-> IF why = "no_content_analysis" THEN "Unassessed" ELSE BandFor(score)]

(* fuse: the verdicts these outcomes can lead to. *)
Fuse(checks) ==
  {VerdictOf(s, why) : s \in Scores(checks),
                       why \in MostSevere({g.reason : g \in Gates(checks)})}

Bands == {"Clear", "Doubtful", "Suspect", "Unassessed"}
Verdicts == [score : 0..1000, reason : Reasons, band : Bands]
=============================================================================
