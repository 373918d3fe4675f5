--------------------------- MODULE PipelineProofs ---------------------------
(***************************************************************************)
(* Every property of Pipeline's passing run, for every set of photos and   *)
(* answers, every configuration of the right type and either backend.      *)
(* First the operators of Fusion (rounding, blend, gates, caps, severity), *)
(* then the inductive invariant IInv, then the properties.  Those about    *)
(* bands and caps are proved of the configurations that keep the promise   *)
(* the code's comments make (CapsKeepTheirPromise); TypeOK needs nothing.  *)
(***************************************************************************)
EXTENDS Pipeline, NumberLemmas

(* A rounded quotient is a natural number within half a unit of the          *)
(* quotient, and one of the results is not below it by more than that.       *)
LEMMA RoundedIsNear ==
  ASSUME NEW n \in Nat, NEW d \in Nat, d > 0
  PROVE  /\ \A q \in Rounded(n, d) : q \in Nat /\ 2 * (q * d) <= 2 * n + d
         /\ \E q \in Rounded(n, d) : q \in Nat /\ 2 * n <= 2 * (q * d) + d
                   /\ 2 * n + d < 2 * ((q + 1) * d)
<1> DEFINE f == n \div d
<1>1. f \in Nat /\ f * d \in Int /\ f * d <= n /\ n < f * d + d
  <2>1. f \in Nat /\ f * d <= n /\ n < f * d + d
    BY Quotient
  <2> HIDE DEF f
  <2> QED BY <2>1, Times
<1>2. (f + 1) * d = f * d + d /\ ((f + 1) + 1) * d = f * d + d + d
  <2> HIDE DEF f
  <2>1. (f + 1) * d = f * d + d
    BY <1>1, Times
  <2>2. ((f + 1) + 1) * d = (f + 1) * d + d
    BY <1>1, Times
  <2> QED BY <1>1, <2>1, <2>2
<1>3. \A q : q \in Rounded(n, d) <=> /\ q = f \/ q = f + 1
                                     /\ 2 * (n - q * d) <= d
                                     /\ 2 * (q * d - n) <= d
  BY DEF Rounded
<1> HIDE DEF f
<1>4. \A q \in Rounded(n, d) : q \in Nat /\ 2 * (q * d) <= 2 * n + d
  <2> SUFFICES ASSUME NEW q \in Rounded(n, d)
               PROVE  q \in Nat /\ 2 * (q * d) <= 2 * n + d
    OBVIOUS
  <2>1. CASE q = f
    BY <1>1, <2>1
  <2>2. CASE q = f + 1
    <3>1. 2 * (q * d - n) <= d /\ q * d = f * d + d
      BY <1>2, <1>3, <2>2
    <3> QED BY <1>1, <2>2, <3>1
  <2> QED BY <1>3, <2>1, <2>2
<1>5. CASE 2 * (n - f * d) < d
  <2>1. f \in Rounded(n, d)
    BY <1>1, <1>3, <1>5
  <2> QED BY <1>1, <1>2, <1>4, <1>5, <2>1
<1>6. CASE ~ (2 * (n - f * d) < d)
  <2>1. f + 1 \in Rounded(n, d)
    BY <1>1, <1>2, <1>3, <1>6
  <2> QED BY <1>1, <1>2, <1>4, <1>6, <2>1
<1> QED BY <1>4, <1>5, <1>6

(* Rounding keeps the order: of a larger quotient some rounding is at least  *)
(* every rounding of the smaller one.                                        *)
LEMMA RoundedKeepsOrder ==
  ASSUME NEW m \in Nat, NEW n \in Nat, m <= n, NEW d \in Nat, d > 0
  PROVE  \E r \in Rounded(n, d) : \A q \in Rounded(m, d) : q <= r
<1>1. PICK r \in Rounded(n, d) : r \in Nat /\ 2 * n + d < 2 * ((r + 1) * d)
  BY RoundedIsNear
<1>2. ASSUME NEW q \in Rounded(m, d) PROVE q <= r
  <2>1. q \in Nat /\ 2 * (q * d) <= 2 * m + d
    BY RoundedIsNear
  <2>2. q * d \in Int /\ (r + 1) * d \in Int
    BY <1>1, <2>1, Times
  <2>3. q * d < (r + 1) * d
    BY <1>1, <2>1, <2>2
  <2>4. q < r + 1
    BY <1>1, <2>1, <2>3, Times
  <2> QED BY <1>1, <2>1, <2>4
<1> QED BY <1>2

(* The straight line between two thresholds stays between 0 and 100.0, also  *)
(* where a tenant configured the thresholds the wrong way round.             *)
LEMMA RampInRange ==
  ASSUME NEW x \in Int, NEW lo \in Int, NEW hi \in Int
  PROVE  Ramp(x, lo, hi) \subseteq 0..1000
<1>1. CASE x <= lo \/ x >= hi
  BY <1>1 DEF Ramp
<1>2. CASE ~ (x <= lo \/ x >= hi)
  <2> DEFINE d == hi - lo
             n == 1000 * (x - lo)
  <2>1. d \in Nat /\ d > 0 /\ n \in Nat /\ n < 1000 * d /\ Ramp(x, lo, hi) = Rounded(n, d)
    BY <1>2 DEF Ramp
  <2> SUFFICES ASSUME NEW q \in Rounded(n, d) PROVE q \in 0..1000
    BY <2>1
  <2> HIDE DEF d, n
  <2>2. q \in Nat /\ 2 * (q * d) <= 2 * n + d
    BY <2>1, RoundedIsNear
  <2>3. q * d \in Int /\ 1001 * d \in Int /\ 1001 * d = 1000 * d + d
    BY <2>1, <2>2, Times
  <2>4. q * d < 1001 * d
    BY <2>1, <2>2, <2>3
  <2>5. q < 1001
    BY <2>1, <2>2, <2>4, Times
  <2> QED BY <2>2, <2>5
<1> QED BY <1>1, <1>2

-----------------------------------------------------------------------------
(* The checks that carry a weight.                                           *)
WeightNames == {"content", "sharpness", "uniqueness", "exif"}

(* A score, the kind of a check outcome, and the data an available one       *)
(* carries.                                                                  *)
Tenths        == 0..1000
OfKind(o)     == o.available \in BOOLEAN /\ o.score \in (0..1000) \cup {None}
HasData(o, S) == o.available => o.data \in S

Outcomes(cs) ==
  /\ cs = [n \in CheckNames |-> cs[n]]
  /\ \A n \in CheckNames : OfKind(cs[n])
  /\ HasData(cs["uniqueness"], [exact : BOOLEAN, near : BOOLEAN])
  /\ HasData(cs["recapture"], [screen : BOOLEAN])
  /\ HasData(cs["sharpness"], [blurred : BOOLEAN])
  /\ HasData(cs["content"], Perception)

(* The weights are four natural numbers, of checks the pipeline runs.        *)
LEMMA WeightsFinite ==
  /\ DOMAIN Cfg.weights = WeightNames
  /\ \A n \in WeightNames : Cfg.weights[n] \in Nat
  /\ WeightNames \subseteq CheckNames
  /\ IsFiniteSet(WeightNames)
<1>1. IsFiniteSet({"content", "sharpness"}) /\ IsFiniteSet({"uniqueness", "exif"})
  <2>1. IsFiniteSet({"content"}) /\ IsFiniteSet({"uniqueness"})
    BY FS_Singleton
  <2>2. /\ {"content", "sharpness"} = {"content"} \cup {"sharpness"}
        /\ {"uniqueness", "exif"} = {"uniqueness"} \cup {"exif"}
    OBVIOUS
  <2> QED BY <2>1, <2>2, FS_AddElement
<1>2. WeightNames = {"content", "sharpness"} \cup {"uniqueness", "exif"}
  BY DEF WeightNames
<1>3. IsFiniteSet(WeightNames)
  BY <1>1, <1>2, FS_Union
<1> QED BY <1>3, CfgAssumption DEF ScoringConfig, WeightNames, CheckNames

(* When something can be blended, the blend is a rounded quotient of a       *)
(* natural number by a positive one: no division by zero in _blend.          *)
LEMMA BlendOfNatural ==
  ASSUME NEW cs, Outcomes(cs), Blended(cs) # {}
  PROVE  LET acc == SumFunction([n \in Blended(cs) |-> Cfg.weights[n] * cs[n].score])
             w   == SumFunctionOnSet(Cfg.weights, Blended(cs))
         IN  acc \in Nat /\ w \in Nat /\ w > 0 /\ Blend(cs) = Rounded(acc, w)
<1> DEFINE S == Blended(cs)
           f == [n \in S |-> Cfg.weights[n] * cs[n].score]
<1>1. S \subseteq WeightNames /\ IsFiniteSet(S)
  BY WeightsFinite, FS_Subset DEF Blended
<1>2. \A n \in S : Cfg.weights[n] \in Nat /\ Cfg.weights[n] > 0 /\ cs[n].score \in Nat
  <2>1. \A n \in CheckNames : cs[n].score \in Tenths \cup {None}
    <3>1. \A n \in CheckNames : OfKind(cs[n])
      BY DEF Outcomes
    <3>2. ASSUME NEW n \in CheckNames
          PROVE  cs[n].score \in Tenths \cup {None}
      BY <3>1 DEF OfKind, Tenths
    <3> QED BY <3>2
  <2>2. \A n \in S : n \in WeightNames /\ cs[n].score # None /\ Cfg.weights[n] > 0
    BY WeightsFinite DEF Blended
  <2> SUFFICES ASSUME NEW n \in S
               PROVE  Cfg.weights[n] \in Nat /\ Cfg.weights[n] > 0 /\ cs[n].score \in Nat
    OBVIOUS
  <2>3. n \in WeightNames /\ cs[n].score # None /\ Cfg.weights[n] > 0
    BY <2>2
  <2>4. n \in CheckNames /\ Cfg.weights[n] \in Nat
    BY <2>3, WeightsFinite
  <2>5. cs[n].score \in Tenths
    BY <2>1, <2>3, <2>4
  <2>6. cs[n].score \in Nat
    <3>1. Tenths \subseteq Nat
      BY DEF Tenths
    <3> QED BY <2>5, <3>1
  <2>7. Cfg.weights[n] \in Nat
    BY <2>4
  <2>8. Cfg.weights[n] > 0
    BY <2>3
  <2> QED BY <2>6, <2>7, <2>8
<1>3. \A n \in S : f[n] \in Nat
  BY <1>2
<1>4. SumFunctionOnSet(f, S) \in Nat
  <2> HIDE DEF S, f
  <2> QED BY <1>1, <1>3, SumIsNat
<1>5. SumFunction(f) = SumFunctionOnSet(f, S)
  BY DEF SumFunction
<1>6. PICK n \in S : TRUE
  OBVIOUS
<1>7. SumFunctionOnSet(Cfg.weights, S) \in Nat /\ SumFunctionOnSet(Cfg.weights, S) >= Cfg.weights[n]
  <2> HIDE DEF S
  <2> QED BY <1>1, <1>2, SumIsNat
<1>8. Blend(cs) = Rounded(SumFunction(f), SumFunctionOnSet(Cfg.weights, S))
  BY DEF Blend
<1> HIDE DEF S, f
<1> QED BY <1>2, <1>4, <1>5, <1>7, <1>8 DEF S, f

(* The blend is always defined and never negative.                           *)
LEMMA BlendIsNatural ==
  ASSUME NEW cs, Outcomes(cs)
  PROVE  Blend(cs) \subseteq Nat /\ Blend(cs) # {}
<1>1. CASE Blended(cs) = {}
  BY <1>1 DEF Blend
<1>2. CASE Blended(cs) # {}
  <2> DEFINE acc == SumFunction([n \in Blended(cs) |-> Cfg.weights[n] * cs[n].score])
             w   == SumFunctionOnSet(Cfg.weights, Blended(cs))
  <2>1. acc \in Nat /\ w \in Nat /\ w > 0 /\ Blend(cs) = Rounded(acc, w)
    BY <1>2, BlendOfNatural
  <2> HIDE DEF acc, w
  <2> QED BY <2>1, RoundedIsNear
<1> QED BY <1>1, <1>2

-----------------------------------------------------------------------------
(* What the checks say of a duplicate, of a screen, of blur.                 *)
Flagged(cs)     == cs["uniqueness"].available /\ (cs["uniqueness"].data.exact \/ cs["uniqueness"].data.near)
SeesScreen(cs)  == \/ cs["recapture"].available /\ cs["recapture"].data.screen
                   \/ cs["content"].available /\ cs["content"].data.screen
Unreadable(cs)  == cs["sharpness"].available /\ cs["sharpness"].data.blurred

(* The gate Fires puts into its set.                                         *)
Gate(why, ceiling) == [reason |-> why, cap |-> Cfg.caps[ceiling]]

(* A gate is in the set iff its condition holds.                             *)
LEMMA FiresGate ==
  \A why, ceiling, g : \A condition \in BOOLEAN :
    g \in Fires(condition, why, ceiling) <=> condition /\ g = Gate(why, ceiling)
BY DEF Fires, Gate

(* The duplicate gates, spelled out.                                         *)
LEMMA DuplicateGatesAre ==
  ASSUME NEW cs, Outcomes(cs), NEW g
  PROVE  g \in DuplicateGates(cs["uniqueness"]) <=>
           /\ cs["uniqueness"].available
           /\ \/ cs["uniqueness"].data.exact /\ g = Gate("recycled", "duplicate")
              \/ /\ ~ cs["uniqueness"].data.exact /\ cs["uniqueness"].data.near
                 /\ g = Gate("recycled", "near_duplicate")
<1> DEFINE u == cs["uniqueness"]
<1>1. u.available \in BOOLEAN /\ (u.available => u.data.exact \in BOOLEAN /\ u.data.near \in BOOLEAN)
  <2>1. "uniqueness" \in CheckNames
    BY DEF CheckNames
  <2>2. OfKind(u) /\ HasData(u, [exact : BOOLEAN, near : BOOLEAN])
    BY <2>1 DEF Outcomes
  <2> QED
    BY <2>2 DEF OfKind, HasData
<1> HIDE DEF u
<1>2. CASE ~ u.available
  BY <1>2 DEF DuplicateGates, u
<1>3. CASE u.available
  BY <1>1, <1>3, FiresGate DEF DuplicateGates, u
<1> QED BY <1>2, <1>3

(* The gates that ask for a meeting, spelled out.                            *)
LEMMA MeetingGatesAre ==
  ASSUME NEW d \in Perception, NEW g
  PROVE  LET T           == Cfg.thresholds
             sure        == d.confidence = "high"
             clearlyNone == d.visit # None /\ d.visit < T.no_visit_suspect_gate
             weak        == d.visit # None /\ d.visit < T.visit_context_gate
         IN  g \in MeetingGates(d) <=>
               /\ d.people # 0 /\ ~ RedFlag(d)
               /\ \/ sure /\ clearlyNone /\ g = Gate("not_a_visit", "not_a_visit")
                  \/ sure /\ d.people = 1 /\ g = Gate("single_person", "weak_visit_context")
                  \/ sure /\ d.people # 1 /\ weak /\ g = Gate("no_visit_context", "weak_visit_context")
                  \/ ~ sure /\ clearlyNone /\ g = Gate("no_visit_context", "weak_visit_context")
BY FiresGate DEF MeetingGates

(* The gates read from the content check, spelled out.                       *)
LEMMA ContentGatesAre ==
  ASSUME NEW c, c.available \in BOOLEAN, c.available => c.data \in Perception, NEW g
  PROVE  g \in ContentGates(c) <=>
           \/ ~ c.available /\ g = Gate("no_content_analysis", "no_content")
           \/ /\ c.available
              /\ \/ c.data.screen /\ g = Gate("screen_recapture", "screen_recapture")
                 \/ c.data.graphic /\ g = Gate("designed_graphic", "designed_graphic")
                 \/ c.data.people = 0 /\ g = Gate("no_people_or_irrelevant", "no_people")
                 \/ /\ c.data.people # 0
                    /\ c.data.plausibility < Cfg.thresholds.plausibility_gate
                    /\ g = Gate("no_people_or_irrelevant", "low_plausibility")
                 \/ g \in MeetingGates(c.data)
<1>1. CASE ~ c.available
  <2>1. g \in Fires(TRUE, "no_content_analysis", "no_content")
           <=> g = Gate("no_content_analysis", "no_content")
    BY FiresGate
  <2> QED BY <1>1, <2>1 DEF ContentGates
<1>2. CASE c.available
  <2> DEFINE d == c.data
  <2>1. /\ d \in Perception
        /\ d.screen \in BOOLEAN /\ d.graphic \in BOOLEAN
        /\ (d.people = 0) \in BOOLEAN
        /\ (d.people # 0 /\ d.plausibility < Cfg.thresholds.plausibility_gate) \in BOOLEAN
    BY <1>2 DEF Perception
  <2> HIDE DEF d
  <2>2. ContentGates(c) = Fires(d.screen, "screen_recapture", "screen_recapture")
       \cup Fires(d.graphic, "designed_graphic", "designed_graphic")
       \cup Fires(d.people = 0, "no_people_or_irrelevant", "no_people")
       \cup Fires(d.people # 0 /\ d.plausibility < Cfg.thresholds.plausibility_gate,
                  "no_people_or_irrelevant", "low_plausibility")
       \cup MeetingGates(d)
    BY <1>2 DEF ContentGates, d
  <2>3. /\ g \in Fires(d.screen, "screen_recapture", "screen_recapture")
              <=> d.screen /\ g = Gate("screen_recapture", "screen_recapture")
        /\ g \in Fires(d.graphic, "designed_graphic", "designed_graphic")
              <=> d.graphic /\ g = Gate("designed_graphic", "designed_graphic")
        /\ g \in Fires(d.people = 0, "no_people_or_irrelevant", "no_people")
              <=> d.people = 0 /\ g = Gate("no_people_or_irrelevant", "no_people")
        /\ g \in Fires(d.people # 0 /\ d.plausibility < Cfg.thresholds.plausibility_gate,
                        "no_people_or_irrelevant", "low_plausibility")
              <=> /\ d.people # 0
                  /\ d.plausibility < Cfg.thresholds.plausibility_gate
                  /\ g = Gate("no_people_or_irrelevant", "low_plausibility")
    BY DEF Fires, Gate
  <2> QED BY <1>2, <2>2, <2>3 DEF d
<1> QED BY <1>1, <1>2

(* Every gate comes from one of the four checks.                             *)
LEMMA GatesAre ==
  ASSUME NEW cs, Outcomes(cs), NEW g
  PROVE  g \in Gates(cs) <=>
           \/ g \in DuplicateGates(cs["uniqueness"])
           \/ g \in ContentGates(cs["content"])
           \/ /\ cs["recapture"].available /\ cs["recapture"].data.screen
              /\ g = Gate("screen_recapture", "screen_recapture")
           \/ Unreadable(cs) /\ g = Gate("too_blurred", "too_blurred")
<1> DEFINE r == cs["recapture"]
           s == cs["sharpness"]
<1>1. /\ (r.available /\ r.data.screen) \in BOOLEAN
      /\ (s.available /\ s.data.blurred) \in BOOLEAN
  OBVIOUS
<1>2. /\ g \in Fires(r.available /\ r.data.screen, "screen_recapture", "screen_recapture")
            <=> r.available /\ r.data.screen /\ g = Gate("screen_recapture", "screen_recapture")
      /\ g \in Fires(s.available /\ s.data.blurred, "too_blurred", "too_blurred")
            <=> s.available /\ s.data.blurred /\ g = Gate("too_blurred", "too_blurred")
  <2> HIDE DEF r, s
  <2> QED BY <1>1, FiresGate
<1> QED BY <1>2 DEF Gates, Unreadable

(* The reasons that fired.                                                   *)
Why(cs) == {g.reason : g \in Gates(cs)}

(* The configured caps are integers.                                         *)
LEMMA CapsAreIntegers ==
  \A c \in Ceilings : Cfg.caps[c] \in Int
BY CfgAssumption DEF ScoringConfig

(* The fields of a gate.                                                     *)
LEMMA GateIs ==
  \A why, ceiling : Gate(why, ceiling).reason = why /\ Gate(why, ceiling).cap = Cfg.caps[ceiling]
BY DEF Gate

(* A gate carries a reason of the table other than "clear" and a configured  *)
(* cap.                                                                      *)
LEMMA GateIsTyped ==
  ASSUME NEW cs, Outcomes(cs), NEW g \in Gates(cs)
  PROVE  /\ g.reason \in Reasons \ {"clear"}
         /\ \E c \in Ceilings : g.cap = Cfg.caps[c]
         /\ g.cap \in Int
<1> DEFINE Fine(h) == /\ h.reason \in Reasons \ {"clear"}
                      /\ \E c \in Ceilings : h.cap = Cfg.caps[c]
                      /\ h.cap \in Int
<1>1. \A why \in Reasons \ {"clear"}, c \in Ceilings : Fine(Gate(why, c))
  BY GateIs, CapsAreIntegers
<1>2. /\ {"recycled", "screen_recapture", "designed_graphic", "no_people_or_irrelevant",
          "not_a_visit", "single_person", "no_visit_context", "too_blurred",
          "no_content_analysis"} \subseteq Reasons \ {"clear"}
  BY DEF Reasons, Severity
<1> HIDE DEF Fine
<1>3. ASSUME NEW d \in Perception, NEW h \in MeetingGates(d) PROVE Fine(h)
  BY <1>1, <1>2, MeetingGatesAre DEF Ceilings
<1>4. ASSUME NEW c, c.available \in BOOLEAN, c.available => c.data \in Perception,
             NEW h \in ContentGates(c)
      PROVE  Fine(h)
  <2>1. CASE ~ c.available
    <3>1. h = Gate("no_content_analysis", "no_content")
      BY <1>4, <2>1, ContentGatesAre
    <3> QED BY <1>1, <1>2, <3>1 DEF Ceilings
  <2>2. CASE c.available
    <3>1. \/ h = Gate("screen_recapture", "screen_recapture")
          \/ h = Gate("designed_graphic", "designed_graphic")
          \/ h = Gate("no_people_or_irrelevant", "no_people")
          \/ h = Gate("no_people_or_irrelevant", "low_plausibility")
          \/ c.data \in Perception /\ h \in MeetingGates(c.data)
      BY <1>4, <2>2 DEF ContentGates, Fires, Gate
    <3> QED BY <1>1, <1>2, <1>3, <3>1 DEF Ceilings
  <2> QED BY <1>4, <2>1, <2>2
<1>5. ASSUME NEW h \in DuplicateGates(cs["uniqueness"]) PROVE Fine(h)
  BY <1>1, <1>2, DuplicateGatesAre DEF Ceilings
<1>6. ASSUME NEW h \in ContentGates(cs["content"]) PROVE Fine(h)
  <2>1. "content" \in CheckNames
    BY DEF CheckNames
  <2>2. OfKind(cs["content"]) /\ HasData(cs["content"], Perception)
    BY <2>1 DEF Outcomes
  <2>3. /\ cs["content"].available \in BOOLEAN
        /\ cs["content"].available => cs["content"].data \in Perception
    BY <2>2 DEF OfKind, HasData
  <2> QED
    BY <1>4, <1>6, <2>3
<1>7. Fine(g)
  BY <1>1, <1>2, <1>5, <1>6, GatesAre DEF Ceilings
<1> QED BY <1>7 DEF Fine

(* Which reasons fired, in terms of what the checks measured.                *)
LEMMA ReasonsFired ==
  ASSUME NEW cs, Outcomes(cs)
  PROVE  /\ Why(cs) \subseteq Reasons \ {"clear"}
         /\ "recycled" \in Why(cs) <=> Flagged(cs)
         /\ "screen_recapture" \in Why(cs) <=> SeesScreen(cs)
         /\ "too_blurred" \in Why(cs) <=> Unreadable(cs)
         /\ "no_content_analysis" \in Why(cs) <=> ~ cs["content"].available
         /\ cs["content"].available =>
              /\ cs["content"].data.graphic => "designed_graphic" \in Why(cs)
              /\ cs["content"].data.people = 0 => "no_people_or_irrelevant" \in Why(cs)
<1> DEFINE c == cs["content"]
           u == cs["uniqueness"]
<1>0. c.available \in BOOLEAN /\ (c.available => c.data \in Perception)
  BY DEF Outcomes, OfKind, HasData, CheckNames
<1>1. \A r : r \in Why(cs) <=> \E g \in Gates(cs) : g.reason = r
  BY DEF Why
<1>2. Why(cs) \subseteq Reasons \ {"clear"}
  BY <1>1, GateIsTyped
<1>3. \A g \in DuplicateGates(u) : g.reason = "recycled" /\ Flagged(cs)
  BY DuplicateGatesAre, GateIs DEF Flagged
<1>4. ASSUME NEW g \in MeetingGates(c.data), c.available
      PROVE  g.reason \in {"not_a_visit", "single_person", "no_visit_context"}
  <2> HIDE DEF c
  <2> QED BY <1>0, <1>4, MeetingGatesAre, GateIs
<1>5. ASSUME NEW g \in ContentGates(c)
      PROVE  /\ g.reason \in {"no_content_analysis", "screen_recapture", "designed_graphic",
                              "no_people_or_irrelevant", "not_a_visit", "single_person",
                              "no_visit_context"}
             /\ g.reason = "no_content_analysis" => ~ c.available
             /\ g.reason = "screen_recapture" => c.available /\ c.data.screen
  <2> HIDE DEF c
  <2> QED BY <1>0, <1>4, ContentGatesAre, GateIs
<1>6. "recycled" \in Why(cs) <=> Flagged(cs)
  <2>1. ASSUME Flagged(cs) PROVE \E g \in Gates(cs) : g.reason = "recycled"
    <3>1. CASE u.data.exact
      BY <2>1, <3>1, DuplicateGatesAre, GatesAre, GateIs DEF Flagged
    <3>2. CASE ~ u.data.exact
      BY <2>1, <3>2, DuplicateGatesAre, GatesAre, GateIs DEF Flagged
    <3> QED BY <3>1, <3>2
  <2>2. ASSUME NEW g \in Gates(cs), g.reason = "recycled" PROVE Flagged(cs)
    BY <1>3, <1>5, <2>2, GatesAre, GateIs
  <2> QED BY <1>1, <2>1, <2>2
<1>7. "screen_recapture" \in Why(cs) <=> SeesScreen(cs)
  <2>1. ASSUME SeesScreen(cs) PROVE \E g \in Gates(cs) : g.reason = "screen_recapture"
    <3>1. Gate("screen_recapture", "screen_recapture") \in Gates(cs)
      BY <1>0, <2>1, ContentGatesAre, GatesAre DEF SeesScreen
    <3> QED BY <3>1, GateIs
  <2>2. ASSUME NEW g \in Gates(cs), g.reason = "screen_recapture" PROVE SeesScreen(cs)
    BY <1>3, <1>5, <2>2, GatesAre, GateIs DEF SeesScreen
  <2> QED BY <1>1, <2>1, <2>2
<1>8. "too_blurred" \in Why(cs) <=> Unreadable(cs)
  <2>1. ASSUME Unreadable(cs) PROVE \E g \in Gates(cs) : g.reason = "too_blurred"
    BY <2>1, GatesAre, GateIs
  <2>2. ASSUME NEW g \in Gates(cs), g.reason = "too_blurred" PROVE Unreadable(cs)
    BY <1>3, <1>5, <2>2, GatesAre, GateIs
  <2> QED BY <1>1, <2>1, <2>2
<1>9. "no_content_analysis" \in Why(cs) <=> ~ c.available
  <2>1. ASSUME ~ c.available PROVE \E g \in Gates(cs) : g.reason = "no_content_analysis"
    <3>1. Gate("no_content_analysis", "no_content") \in Gates(cs)
      BY <1>0, <2>1, ContentGatesAre, GatesAre
    <3> QED BY <3>1, GateIs
  <2>2. ASSUME NEW g \in Gates(cs), g.reason = "no_content_analysis" PROVE ~ c.available
    BY <1>3, <1>5, <2>2, GatesAre, GateIs
  <2> QED BY <1>1, <2>1, <2>2
<1>10. ASSUME c.available
       PROVE  /\ c.data.graphic => "designed_graphic" \in Why(cs)
              /\ c.data.people = 0 => "no_people_or_irrelevant" \in Why(cs)
  <2>0. \A g \in ContentGates(c) : g \in Gates(cs)
    BY GatesAre
  <2>1. c.data.graphic => Gate("designed_graphic", "designed_graphic") \in ContentGates(c)
    BY <1>10 DEF ContentGates, Fires, Gate
  <2>2. c.data.people = 0 => Gate("no_people_or_irrelevant", "no_people") \in ContentGates(c)
    BY <1>10 DEF ContentGates, Fires, Gate
  <2> QED BY <1>1, <2>0, <2>1, <2>2, GateIs
<1> QED BY <1>2, <1>6, <1>7, <1>8, <1>9, <1>10

(* What the most severe of a set of reasons is, read from the table.         *)
LEMMA MostSevereIs ==
  ASSUME NEW S \in SUBSET (Reasons \ {"clear"}), NEW r \in MostSevere(S)
  PROVE  /\ r \in S \cup {"clear"}
         /\ r = "recycled" <=> "recycled" \in S
         /\ r = "screen_recapture" <=> "screen_recapture" \in S /\ "recycled" \notin S
         /\ r = "too_blurred" =>
              /\ "too_blurred" \in S
              /\ S \cap {"recycled", "screen_recapture", "designed_graphic",
                         "no_people_or_irrelevant"} = {}
         /\ r = "no_content_analysis" => S \subseteq {"no_content_analysis"}
         /\ (r = "clear") <=> (S = {})
<1>1. r \in S \cup {"clear"} /\ \A s \in S \cup {"clear"} : Severity[r] <= Severity[s]
  BY DEF MostSevere
<1>2. /\ r \in Reasons /\ S \subseteq Reasons
  BY <1>1 DEF Reasons, Severity
<1> QED BY <1>1, <1>2 DEF Reasons, Severity

-----------------------------------------------------------------------------
(* A fused score lies between 0 and 100.0 and under every cap that fired.    *)
LEMMA ScoresAre ==
  ASSUME NEW cs, Outcomes(cs), NEW s \in Scores(cs)
  PROVE  /\ s \in 0..1000
         /\ \A g \in Gates(cs) : s <= g.cap \/ s = 0
<1> DEFINE Capped(b) == Least({b} \cup {g.cap : g \in Gates(cs)})
<1>0. PICK x \in UNION {Capped(b) : b \in Blend(cs)} : s = Clamped(x)
  BY DEF Scores
<1>1. PICK b \in Blend(cs) : x \in Capped(b)
  BY <1>0
<1>2. b \in Int
  BY BlendIsNatural
<1>3. \A g \in Gates(cs) : g.cap \in Int
  BY GateIsTyped
<1>4. x \in Int /\ \A g \in Gates(cs) : x <= g.cap
  BY <1>1, <1>2, <1>3 DEF Least
<1>5. s \in 0..1000
  BY <1>0, <1>4 DEF Clamped
<1>6. ASSUME NEW g \in Gates(cs) PROVE s <= g.cap \/ s = 0
  <2>1. g.cap \in Int /\ x <= g.cap
    BY <1>3, <1>4
  <2> QED BY <1>0, <1>4, <2>1 DEF Clamped
<1> QED BY <1>5, <1>6

(* A verdict is a score, the most severe reason and the band of that score.  *)
LEMMA VerdictIs ==
  ASSUME NEW cs, Outcomes(cs), NEW v \in Fuse(cs)
  PROVE  /\ v.score \in Scores(cs) /\ v.score \in 0..1000
         /\ v.reason \in MostSevere(Why(cs)) /\ v.reason \in Reasons
         /\ v.band = IF v.reason = "no_content_analysis" THEN "Unassessed" ELSE BandFor(v.score)
         /\ v = [score |-> v.score, reason |-> v.reason, band |-> v.band]
<1>1. PICK s \in Scores(cs), why \in MostSevere(Why(cs)) : v = VerdictOf(s, why)
  BY DEF Fuse, Why
<1>2. s \in 0..1000
  BY ScoresAre
<1>3. why \in Reasons
  <2>1. Why(cs) \subseteq Reasons \ {"clear"}
    BY ReasonsFired
  <2>2. why \in Why(cs) \cup {"clear"}
    BY <2>1, MostSevereIs
  <2> QED BY <2>1, <2>2 DEF Reasons, Severity
<1> QED BY <1>1, <1>2, <1>3 DEF VerdictOf

(* The band of a score.                                                      *)
LEMMA BandIs ==
  ASSUME NEW s \in Int
  PROVE  /\ BandFor(s) \in {"Clear", "Doubtful", "Suspect"}
         /\ BandFor(s) = "Clear" <=> s >= Cfg.bands.clear
         /\ s < Cfg.bands.doubtful /\ Cfg.bands.doubtful <= Cfg.bands.clear => BandFor(s) = "Suspect"
BY CfgAssumption DEF BandFor, ScoringConfig

(* Fusion returns verdicts.                                                  *)
LEMMA VerdictIsTyped ==
  ASSUME NEW cs, Outcomes(cs), NEW v \in Fuse(cs)
  PROVE  v \in Verdicts
<1>1. v.band \in Bands
  BY VerdictIs, BandIs DEF Bands
<1> QED BY <1>1, VerdictIs DEF Verdicts

(* With caps as the defaults have them, any gate rules out Clear, and an     *)
(* integrity cap means Suspect.                                              *)
LEMMA CapIsKept ==
  ASSUME CapsKeepTheirPromise, NEW cs, Outcomes(cs), NEW v \in Fuse(cs), NEW g \in Gates(cs)
  PROVE  /\ v.band # "Clear"
         /\ g.cap < Cfg.bands.doubtful /\ v.reason # "no_content_analysis" => v.band = "Suspect"
<1> DEFINE s == v.score
<1>1. s \in 0..1000 /\ (s <= g.cap \/ s = 0)
  BY VerdictIs, ScoresAre
<1>2. PICK c \in Ceilings : g.cap = Cfg.caps[c] /\ g.cap \in Int
  BY GateIsTyped
<1>3. /\ g.cap < Cfg.bands.clear /\ Cfg.bands.clear \in Int /\ Cfg.bands.doubtful \in Int
      /\ 0 < Cfg.bands.doubtful /\ Cfg.bands.doubtful <= Cfg.bands.clear
  BY <1>2, CfgAssumption DEF CapsKeepTheirPromise, ScoringConfig
<1>4. s < Cfg.bands.clear /\ (g.cap < Cfg.bands.doubtful => s < Cfg.bands.doubtful)
  <2> HIDE DEF s
  <2> QED BY <1>1, <1>2, <1>3
<1>5. s \in Int /\ ~ (s >= Cfg.bands.clear)
  <2> HIDE DEF s
  <2> QED BY <1>1, <1>3, <1>4
<1>6. BandFor(s) # "Clear" /\ (g.cap < Cfg.bands.doubtful => BandFor(s) = "Suspect")
  BY <1>3, <1>4, <1>5, BandIs
<1>7. v.band = IF v.reason = "no_content_analysis" THEN "Unassessed" ELSE BandFor(s)
  BY VerdictIs
<1> HIDE DEF s
<1> QED BY <1>6, <1>7

(* A free hard gate fixes band and reason whatever the content check holds.  *)
LEMMA FreeGateDecides ==
  ASSUME CapsKeepTheirPromise, NEW cs, Outcomes(cs), FreeHardGate(cs), NEW v \in Fuse(cs)
  PROVE  /\ v.band = "Suspect"
         /\ v.reason = IF Flagged(cs) THEN "recycled" ELSE "screen_recapture"
<1>1. v.reason = IF Flagged(cs) THEN "recycled" ELSE "screen_recapture"
  <2>1. /\ Why(cs) \subseteq Reasons \ {"clear"}
        /\ "recycled" \in Why(cs) <=> Flagged(cs)
        /\ "screen_recapture" \in Why(cs) <=> SeesScreen(cs)
    BY ReasonsFired
  <2>2. Flagged(cs) \/ SeesScreen(cs)
    BY DEF FreeHardGate, Flagged, SeesScreen
  <2>3. v.reason \in MostSevere(Why(cs))
    BY VerdictIs
  <2> QED BY <2>1, <2>2, <2>3, MostSevereIs
<1>2. \E g \in Gates(cs) : g.cap < Cfg.bands.doubtful
  <2>1. CASE cs["uniqueness"].available /\ cs["uniqueness"].data.exact
    <3>1. Gate("recycled", "duplicate") \in Gates(cs)
      BY <2>1, DuplicateGatesAre, GatesAre
    <3> QED BY <3>1, GateIs DEF CapsKeepTheirPromise
  <2>2. CASE cs["recapture"].available /\ cs["recapture"].data.screen
    <3>1. Gate("screen_recapture", "screen_recapture") \in Gates(cs)
      BY <2>2, GatesAre
    <3> QED BY <3>1, GateIs DEF CapsKeepTheirPromise
  <2> QED BY <2>1, <2>2 DEF FreeHardGate
<1> QED BY <1>1, <1>2, CapIsKept

-----------------------------------------------------------------------------
(* The free checks hold what they measure on photo p.                        *)
Free(cs, p) ==
  /\ cs["exif"] = ExifCheck(p)
  /\ cs["sharpness"] \in SharpnessChecks(p)
  /\ cs["uniqueness"] \in UniquenessChecks(p)
  /\ cs["recapture"] = RecaptureCheck(p)

(* Two assessments describe the same scene; they may judge it differently.   *)
SameScene(a, b) == a.people = b.people /\ a.screen = b.screen /\ a.graphic = b.graphic

(* The content check has not run, or judges the scene the scout described.   *)
Content(cs) ==
  \/ cs["content"] = NotRun
  \/ \E a \in Perception : /\ cs["content"] = ContentCheck(a)
                           /\ perception \in Perceptions /\ SameScene(a, perception)

(* The inductive invariant. The checks are those of the photo, and the       *)
(* content check is still empty before the model answered.                   *)
CheckInv ==
  /\ checks = [n \in CheckNames |-> checks[n]]
  /\ pc = "free" => \A n \in CheckNames : checks[n] = NotRun
  /\ pc # "free" => Free(checks, photo)
  /\ Content(checks)
  /\ pc \in {"free", "gate", "reason"} => checks["content"] = NotRun

(* Program counter, attempts and perception agree.                           *)
ControlInv ==
  /\ photo \in Photos
  /\ pc \in {"free", "gate", "reason", "fuse", "record", "done"}
  /\ tries \in 0..MaxTries
  /\ pc \in {"free", "gate", "reason"} => tries < MaxTries
  /\ perception \in Perceptions \cup {<<>>}
  /\ pc = "reason" => perception \in Perceptions

(* The verdict is one that fuse gives for the checks as they are now.        *)
VerdictInv ==
  /\ pc \in {"free", "gate", "reason", "fuse"} => verdict = <<>>
  /\ pc \in {"record", "done"} => verdict \in Fuse(checks)
  /\ stored = <<>> \/ (stored.score \in 0..100 /\ stored.band \in Bands)

IInv == CheckInv /\ ControlInv /\ VerdictInv

(* The outcome of a check that ran.                                          *)
LEMMA OutcomeIs ==
  \A o, d : \A x \in Tenths : o = Outcome(TRUE, x, d) =>
    /\ OfKind(o) /\ o.available /\ o.score = x /\ o.data = d
    /\ \A S : d \in S => HasData(o, S)
BY DEF OfKind, HasData, Outcome, Tenths

(* The outcome of a check that did not run.                                  *)
LEMMA NoOutcomeIs ==
  \A o, d : o = Outcome(FALSE, None, d) =>
    OfKind(o) /\ ~ o.available /\ \A S : HasData(o, S)
BY DEF OfKind, HasData, Outcome

(* What the sharpness check reports of a photo.                              *)
LEMMA SharpnessIs ==
  ASSUME NEW p \in Photo, NEW s \in SharpnessChecks(p)
  PROVE  /\ OfKind(s) /\ HasData(s, [blurred : BOOLEAN])
         /\ s.available /\ s.data.blurred <=>
              p.cv2 /\ p.gray /\ p.variance <= Cfg.thresholds.blur_floor
<1> DEFINE blurred == p.gray /\ p.variance <= Cfg.thresholds.blur_floor
           scores  == IF p.gray
                      THEN Ramp(p.variance, Cfg.thresholds.blur_floor, Cfg.thresholds.sharp_ok)
                      ELSE {0}
           d == [blurred |-> blurred]
<1>1. CASE ~ p.cv2
  <2>1. s = Outcome(FALSE, None, [blurred |-> FALSE])
    BY <1>1 DEF SharpnessChecks
  <2> QED BY <1>1, <2>1, NoOutcomeIs
<1>2. CASE p.cv2
  <2>1. PICK x \in scores : s = Outcome(TRUE, x, d)
    BY <1>2 DEF SharpnessChecks
  <2>2. scores \subseteq Tenths
    <3>1. /\ p.variance \in Int /\ Cfg.thresholds.blur_floor \in Int
          /\ Cfg.thresholds.sharp_ok \in Int
      BY CfgAssumption DEF Photo, ScoringConfig
    <3> QED BY <3>1, RampInRange DEF Tenths
  <2>3. d \in [blurred : BOOLEAN] /\ (d.blurred <=> blurred)
    OBVIOUS
  <2>4. /\ OfKind(s) /\ HasData(s, [blurred : BOOLEAN])
        /\ s.available /\ s.data = d
    <3> HIDE DEF scores, d
    <3> QED BY <2>1, <2>2, <2>3, OutcomeIs
  <2> QED BY <1>2, <2>3, <2>4
<1> QED BY <1>1, <1>2

(* What the uniqueness check reports of a photo.                             *)
LEMMA UniquenessIs ==
  ASSUME NEW p \in Photo, NEW u \in UniquenessChecks(p)
  PROVE  /\ OfKind(u) /\ HasData(u, [exact : BOOLEAN, near : BOOLEAN])
         /\ u.available
         /\ u.data.exact <=> /\ p.pil /\ p.distance # None
                             /\ p.distance <= Cfg.thresholds.dup_exact
         /\ u.data.near <=> /\ p.pil /\ p.distance # None
                            /\ ~ (p.distance <= Cfg.thresholds.dup_exact)
                            /\ p.distance <= Cfg.thresholds.dup_near
<1> DEFINE exact == p.distance # None /\ p.distance <= Cfg.thresholds.dup_exact
           near  == p.distance # None /\ ~ exact /\ p.distance <= Cfg.thresholds.dup_near
           scores == IF exact THEN {0} ELSE IF near THEN {200}
                     ELSE IF p.distance = None THEN {1000}
                     ELSE Ramp(p.distance, Cfg.thresholds.dup_near, Cfg.thresholds.unique_distance)
           d == [exact |-> exact, near |-> near]
<1>1. CASE ~ p.pil
  <2> DEFINE none == [exact |-> FALSE, near |-> FALSE]
  <2>0. 0 \in Tenths
    BY DEF Tenths
  <2>1. u = Outcome(TRUE, 0, none)
    BY <1>1 DEF UniquenessChecks
  <2>2. /\ none \in [exact : BOOLEAN, near : BOOLEAN]
        /\ ~ none.exact /\ ~ none.near
    OBVIOUS
  <2> HIDE DEF none
  <2>3. /\ OfKind(u) /\ HasData(u, [exact : BOOLEAN, near : BOOLEAN]) /\ u.available
        /\ u.data = none
    <3>1. OfKind(u) /\ u.available /\ u.data = none
      BY <2>0, <2>1, OutcomeIs
    <3> QED
      BY <2>2, <3>1 DEF HasData
  <2> QED BY <1>1, <2>2, <2>3
<1>2. CASE p.pil
  <2>1. UniquenessChecks(p) = {Outcome(TRUE, x, d) : x \in scores}
    BY <1>2, Zenon DEF UniquenessChecks
  <2>2. PICK x \in scores : u = Outcome(TRUE, x, d)
    <3> HIDE DEF scores, d
    <3> QED BY <2>1
  <2>3. scores \subseteq Tenths
    <3>1. /\ p.distance \in Int /\ Cfg.thresholds.dup_near \in Int
          /\ Cfg.thresholds.unique_distance \in Int
      BY CfgAssumption DEF Photo, ScoringConfig, None
    <3>2. Ramp(p.distance, Cfg.thresholds.dup_near, Cfg.thresholds.unique_distance) \subseteq 0..1000
      BY <3>1, RampInRange
    <3> HIDE DEF exact, near
    <3> QED BY <3>2 DEF Tenths
  <2>4. d \in [exact : BOOLEAN, near : BOOLEAN] /\ (d.exact <=> exact) /\ (d.near <=> near)
    OBVIOUS
  <2>5. /\ OfKind(u) /\ HasData(u, [exact : BOOLEAN, near : BOOLEAN]) /\ u.available
        /\ u.data = d
    <3> HIDE DEF scores, d
    <3>1. PICK y \in Tenths : u = Outcome(TRUE, y, d)
      BY <2>2, <2>3
    <3>2. OfKind(u) /\ u.available /\ u.data = d /\ \A S : d \in S => HasData(u, S)
      BY <3>1, OutcomeIs
    <3> QED BY <2>4, <3>2
  <2> QED BY <1>2, <2>4, <2>5
<1> QED BY <1>1, <1>2

(* What the EXIF check reports of a photo.                                   *)
LEMMA ExifIs ==
  ASSUME NEW p \in Photo
  PROVE  OfKind(ExifCheck(p))
<1> DEFINE x == IF p.header THEN ExifScore[p.exif] ELSE 500
<1>1. x \in Tenths
  BY DEF Photo, ExifScore, Tenths
<1>2. ExifCheck(p) = Outcome(TRUE, x, <<>>)
  BY DEF ExifCheck
<1> HIDE DEF x
<1> QED BY <1>1, <1>2, OutcomeIs

(* What the recapture check reports of a photo.                              *)
LEMMA RecaptureIs ==
  ASSUME NEW p \in Photo, NEW r, r = RecaptureCheck(p)
  PROVE  /\ OfKind(r) /\ HasData(r, [screen : BOOLEAN])
         /\ r.available /\ r.data.screen <=>
              p.cv2 /\ p.gray /\ p.screen
<1> DEFINE x == IF ~ p.gray THEN 500 ELSE IF p.screen THEN 0 ELSE 1000
           seen == p.gray /\ p.screen
           d == [screen |-> seen]
<1>1. CASE p.cv2
  <2>1. r = Outcome(TRUE, x, d)
    BY <1>1 DEF RecaptureCheck
  <2>2. x \in Tenths
    BY DEF Tenths
  <2>3. d \in [screen : BOOLEAN] /\ (d.screen <=> seen)
    OBVIOUS
  <2>4. PICK y \in Tenths : r = Outcome(TRUE, y, d)
    <3> HIDE DEF x, d, seen
    <3> QED BY <2>1, <2>2
  <2>5. OfKind(r) /\ r.available /\ r.data = d
    <3> HIDE DEF x, d, seen
    <3> QED BY <2>4, OutcomeIs
  <2>6. HasData(r, [screen : BOOLEAN])
    BY <2>3, <2>5 DEF HasData
  <2> QED BY <1>1, <2>3, <2>5, <2>6
<1>2. CASE ~ p.cv2
  <2>1. r = Outcome(FALSE, None, [screen |-> FALSE])
    BY <1>2 DEF RecaptureCheck
  <2> QED BY <1>2, <2>1, NoOutcomeIs
<1> QED BY <1>1, <1>2

(* What the content check reports of an assessment: its score stays within 0 *)
(* and 100.0.                                                                *)
LEMMA ContentCheckIs ==
  ASSUME NEW a \in Perception
  PROVE  /\ OfKind(ContentCheck(a)) /\ HasData(ContentCheck(a), Perception)
         /\ ContentCheck(a).available
         /\ ContentCheck(a).score = ContentScore(a)
         /\ ContentCheck(a).data = a
         /\ ContentScore(a) \in Tenths
<1>1. /\ a.plausibility \in 0..100 /\ a.visit \in (0..100) \cup {None}
      /\ a.screen \in BOOLEAN /\ a.graphic \in BOOLEAN
  BY DEF Perception
<1>2. ContentScore(a) \in Tenths
  <2> DEFINE visit == IF a.visit = None THEN a.plausibility ELSE a.visit
             both  == 6 * a.plausibility + 4 * visit
  <2>1. visit \in 0..100
    BY <1>1
  <2>2. both \in 0..1000
    <3>1. PICK p, v \in 0..100 : p = a.plausibility /\ v = visit
      BY <1>1, <2>1
    <3>2. 6 * p + 4 * v \in 0..1000
      OBVIOUS
    <3> HIDE DEF visit
    <3> QED BY <3>1, <3>2
  <2>3. ContentScore(a) = IF RedFlag(a) /\ both > 250 THEN 250 ELSE both
    BY DEF ContentScore
  <2> HIDE DEF both
  <2> QED BY <2>2, <2>3 DEF Tenths
<1> QED BY <1>2, OutcomeIs DEF ContentCheck

(* The reasoner changes the judgment and keeps the scene.                    *)
LEMMA RefinedIs ==
  ASSUME NEW a \in Perception, NEW j \in Judgment
  PROVE  Refined(a, j) \in Perception /\ SameScene(Refined(a, j), a)
BY DEF Refined, Perception, Judgment, SameScene

(* A check that has not run yet has a proper outcome too.                    *)
LEMMA NotRunIs ==
  OfKind(NotRun) /\ ~ NotRun.available /\ \A S : HasData(NotRun, S)
BY NoOutcomeIs DEF NotRun

(* The five checks together are what fusion expects.                         *)
LEMMA ChecksAreOutcomes ==
  ASSUME NEW cs, NEW p \in Photo, cs = [n \in CheckNames |-> cs[n]],
         Free(cs, p) \/ \A n \in CheckNames : cs[n] = NotRun,
         cs["content"] = NotRun \/ \E a \in Perception : cs["content"] = ContentCheck(a)
  PROVE  Outcomes(cs)
<1>1. OfKind(cs["content"]) /\ HasData(cs["content"], Perception)
  <2>1. OfKind(NotRun) /\ HasData(NotRun, Perception)
    BY NotRunIs
  <2>2. \A a \in Perception : OfKind(ContentCheck(a)) /\ HasData(ContentCheck(a), Perception)
    BY ContentCheckIs
  <2> QED BY <2>1, <2>2
<1>2. CASE \A n \in CheckNames : cs[n] = NotRun
  <2>1. OfKind(NotRun) /\ \A S : HasData(NotRun, S)
    BY NotRunIs
  <2> QED BY <1>2, <2>1 DEF Outcomes, CheckNames
<1>3. CASE Free(cs, p)
  <2>1. OfKind(ExifCheck(p))
    BY ExifIs
  <2>2. OfKind(RecaptureCheck(p)) /\ HasData(RecaptureCheck(p), [screen : BOOLEAN])
    BY RecaptureIs
  <2>3. \A s \in SharpnessChecks(p) : OfKind(s) /\ HasData(s, [blurred : BOOLEAN])
    BY SharpnessIs
  <2>4. \A u \in UniquenessChecks(p) : OfKind(u) /\ HasData(u, [exact : BOOLEAN, near : BOOLEAN])
    BY UniquenessIs
  <2>5. \A n \in CheckNames : OfKind(cs[n])
    BY <1>1, <1>3, <2>1, <2>2, <2>3, <2>4 DEF CheckNames, Free
  <2> QED BY <1>1, <1>3, <2>2, <2>3, <2>4, <2>5 DEF Outcomes, Free
<1> QED BY <1>2, <1>3

(* In every state of the invariant fusion gets what it expects.              *)
LEMMA CheckInvIsTyped ==
  ASSUME CheckInv, photo \in Photos
  PROVE  Outcomes(checks) /\ photo \in Photo
<1>1. photo \in Photo
  BY InputsAssumption
<1> QED BY <1>1, ChecksAreOutcomes DEF CheckInv, Content

(* The invariant holds initially.                                            *)
LEMMA InitInv == Init => IInv
<1> SUFFICES ASSUME Init PROVE IInv
  OBVIOUS
<1>1. CheckInv
  BY DEF Init, CheckInv, Content, CheckNames
<1>2. ControlInv
  BY DEF Init, ControlInv, MaxTries
<1>3. VerdictInv
  BY DEF Init, VerdictInv
<1> QED BY <1>1, <1>2, <1>3 DEF IInv

(* Every step keeps the control part: at most MaxTries attempts, and the     *)
(* reasoner is only asked about a scene the scout described.                 *)
LEMMA ControlStep ==
  ASSUME IInv, [Next]_vars
  PROVE  ControlInv'
<1> USE DEF ControlInv
<1>0. ControlInv
  BY DEF IInv
<1>1. CASE RunFreeChecks
  BY <1>0, <1>1 DEF RunFreeChecks
<1>2. CASE SkipContent
  BY <1>0, <1>2 DEF SkipContent
<1>3. CASE ScoutFails
  BY <1>0, <1>3 DEF ScoutFails, AttemptFailed, MaxTries
<1>4. CASE ScoutAnswers
  BY <1>0, <1>4 DEF ScoutAnswers
<1>5. CASE ReasonerRefines
  BY <1>0, <1>5 DEF ReasonerRefines
<1>6. CASE ReasonerDegrades
  BY <1>0, <1>6 DEF ReasonerDegrades
<1>7. CASE ReasonerBreaks
  BY <1>0, <1>7 DEF ReasonerBreaks, AttemptFailed, MaxTries
<1>8. CASE FuseChecks
  BY <1>0, <1>8 DEF FuseChecks
<1>9. CASE Record
  BY <1>0, <1>9 DEF Record
<1>10. CASE UNCHANGED vars
  BY <1>0, <1>10 DEF vars
<1> QED
  BY <1>1, <1>2, <1>3, <1>4, <1>5, <1>6, <1>7, <1>8, <1>9, <1>10 DEF Next, Finished

(* Every step keeps the check part: the free checks are written once and no  *)
(* later step touches them.                                                  *)
LEMMA CheckStep ==
  ASSUME IInv, [Next]_vars
  PROVE  CheckInv'
<1>0. CheckInv /\ ControlInv
  BY DEF IInv
<1>1. CASE RunFreeChecks
  <2>1. PICK sharp \in SharpnessChecks(photo), uniq \in UniquenessChecks(photo) :
          checks' = [checks EXCEPT !["exif"]       = ExifCheck(photo),
                                   !["sharpness"]  = sharp,
                                   !["uniqueness"] = uniq,
                                   !["recapture"]  = RecaptureCheck(photo)]
    BY <1>1 DEF RunFreeChecks
  <2>2. /\ checks' = [n \in CheckNames |-> checks'[n]]
        /\ checks'["exif"] = ExifCheck(photo) /\ checks'["sharpness"] = sharp
        /\ checks'["uniqueness"] = uniq /\ checks'["recapture"] = RecaptureCheck(photo)
        /\ checks'["content"] = checks["content"]
    BY <1>0, <2>1 DEF CheckInv, CheckNames
  <2>3. pc = "free" /\ pc' = "gate" /\ photo' = photo /\ perception' = perception
    BY <1>1 DEF RunFreeChecks
  <2> QED BY <1>0, <2>2, <2>3 DEF CheckInv, Content, Free, CheckNames
<1>2. ASSUME NEW c, NEW q \in {"reason", "fuse"}, pc \in {"gate", "reason"}, pc' = q, photo' = photo,
             checks' = [checks EXCEPT !["content"] = c],
             \/ c = NotRun
             \/ /\ q = "fuse"
                /\ \E a \in Perception : /\ c = ContentCheck(a)
                                      /\ perception' \in Perceptions /\ SameScene(a, perception')
      PROVE  CheckInv'
  <2>1. /\ checks' = [n \in CheckNames |-> checks'[n]]
        /\ checks'["exif"] = checks["exif"] /\ checks'["sharpness"] = checks["sharpness"]
        /\ checks'["uniqueness"] = checks["uniqueness"] /\ checks'["recapture"] = checks["recapture"]
        /\ checks'["content"] = c
    BY <1>0, <1>2 DEF CheckInv, CheckNames
  <2>2. Free(checks, photo)'
    BY <1>0, <1>2, <2>1 DEF CheckInv, Free
  <2>3. Content(checks)'
    BY <1>2, <2>1 DEF Content
  <2> QED BY <1>2, <2>1, <2>2, <2>3 DEF CheckInv
<1>3. CASE SkipContent
  BY <1>2, <1>3 DEF SkipContent
<1>4. ASSUME AttemptFailed, pc \in {"gate", "reason"} PROVE CheckInv'
  BY <1>0, <1>4 DEF AttemptFailed, CheckInv, Content, Free
<1>5. CASE ScoutAnswers
  <2>1. PICK a \in Perceptions :
          /\ perception' = a
          /\ IF HYBRID
             THEN pc' = "reason" /\ UNCHANGED checks
             ELSE pc' = "fuse"   /\ checks' = [checks EXCEPT !["content"] = ContentCheck(a)]
    BY <1>5 DEF ScoutAnswers
  <2>2. pc = "gate" /\ photo' = photo
    BY <1>5 DEF ScoutAnswers
  <2>3. a \in Perception /\ SameScene(a, a)
    BY InputsAssumption DEF SameScene
  <2>4. CASE HYBRID
    BY <1>0, <2>1, <2>2, <2>4 DEF CheckInv, Content, Free
  <2>5. CASE ~ HYBRID
    BY <1>2, <2>1, <2>2, <2>3, <2>5
  <2> QED BY <2>4, <2>5
<1>6. CASE ReasonerRefines
  <2>1. PICK j \in Judgments :
          checks' = [checks EXCEPT !["content"] = ContentCheck(Refined(perception, j))]
    BY <1>6 DEF ReasonerRefines
  <2>2. /\ pc = "reason" /\ pc' = "fuse" /\ photo' = photo /\ perception' = perception
        /\ perception \in Perceptions
    BY <1>0, <1>6 DEF ReasonerRefines, ControlInv
  <2>3. Refined(perception, j) \in Perception /\ SameScene(Refined(perception, j), perception)
    BY <2>2, InputsAssumption, RefinedIs
  <2> QED BY <1>2, <2>1, <2>2, <2>3
<1>7. CASE ReasonerDegrades
  <2>1. /\ pc = "reason" /\ pc' = "fuse" /\ photo' = photo /\ perception' = perception
        /\ perception \in Perceptions
        /\ checks' = [checks EXCEPT !["content"] = ContentCheck(perception)]
    BY <1>0, <1>7 DEF ReasonerDegrades, ControlInv
  <2>2. perception \in Perception /\ SameScene(perception, perception)
    BY <2>1, InputsAssumption DEF SameScene
  <2> QED BY <1>2, <2>1, <2>2
<1>8. CASE FuseChecks \/ Record
  <2>1. /\ UNCHANGED <<checks, photo, perception>>
        /\ pc \notin {"free", "gate", "reason"} /\ pc' \notin {"free", "gate", "reason"}
    BY <1>8 DEF FuseChecks, Record
  <2> QED BY <1>0, <2>1 DEF CheckInv, Content, Free
<1>9. CASE UNCHANGED vars
  BY <1>0, <1>9 DEF vars, CheckInv, Content, Free
<1> QED
  BY <1>1, <1>3, <1>4, <1>5, <1>6, <1>7, <1>8, <1>9
     DEF Next, Finished, ScoutFails, ReasonerBreaks

(* Every step keeps the verdict part.                                        *)
LEMMA VerdictStep ==
  ASSUME IInv, [Next]_vars
  PROVE  VerdictInv'
<1>0. CheckInv /\ ControlInv /\ VerdictInv /\ Outcomes(checks)
  BY CheckInvIsTyped DEF IInv, ControlInv
<1>1. CASE FuseChecks
  BY <1>0, <1>1 DEF FuseChecks, VerdictInv
<1>2. CASE Record
  <2>1. /\ verdict \in Fuse(checks) /\ pc' = "done" /\ verdict' = verdict /\ checks' = checks
        /\ stored' = [score |-> RoundEven(verdict.score), band |-> verdict.band,
                      reason |-> verdict.reason]
    BY <1>0, <1>2 DEF Record, VerdictInv
  <2>2. verdict.score \in 0..1000 /\ verdict.band \in Bands
    BY <1>0, <2>1, VerdictIsTyped DEF Verdicts
  <2>3. RoundEven(verdict.score) \in 0..100
    <3>1. PICK n \in 0..1000 : n = verdict.score
      BY <2>2
    <3>2. RoundEven(n) \in 0..100
      BY DEF RoundEven
    <3> QED BY <3>1, <3>2
  <2> QED BY <2>1, <2>2, <2>3 DEF VerdictInv
<1>3. ASSUME UNCHANGED <<verdict, stored>>, pc \in {"free", "gate", "reason"},
             pc' \in {"free", "gate", "reason", "fuse"}
      PROVE  VerdictInv'
  BY <1>0, <1>3 DEF VerdictInv
<1>4. CASE UNCHANGED vars
  BY <1>0, <1>4 DEF vars, VerdictInv
<1>5. CASE RunFreeChecks
  BY <1>3, <1>5 DEF RunFreeChecks
<1>6. CASE SkipContent
  BY <1>3, <1>6 DEF SkipContent
<1>7. CASE ScoutFails \/ ReasonerBreaks
  BY <1>3, <1>7 DEF ScoutFails, ReasonerBreaks, AttemptFailed
<1>8. CASE ScoutAnswers
  BY <1>3, <1>8 DEF ScoutAnswers
<1>9. CASE ReasonerRefines \/ ReasonerDegrades
  BY <1>3, <1>9 DEF ReasonerRefines, ReasonerDegrades
<1> QED BY <1>1, <1>2, <1>4, <1>5, <1>6, <1>7, <1>8, <1>9 DEF Next, Finished

(* The inductive invariant holds in every reachable state.                   *)
THEOREM Invariant == Spec => []IInv
<1>1. IInv /\ [Next]_vars => IInv'
  BY CheckStep, ControlStep, VerdictStep DEF IInv
<1> QED BY <1>1, InitInv, PTL DEF Spec

-----------------------------------------------------------------------------
(* What a fused verdict was computed from, in terms of the photo and of what *)
(* the model said of it.                                                     *)
LEMMA FusedChecks ==
  ASSUME IInv, Fused, Cfg.thresholds.dup_exact <= Cfg.thresholds.dup_near
  PROVE  /\ Outcomes(checks) /\ verdict \in Fuse(checks)
         /\ checks["uniqueness"].available
         /\ checks["uniqueness"].data.exact <=> Exact
         /\ Flagged(checks) <=> Duplicate
         /\ Unreadable(checks) <=> Blurred
         /\ checks["recapture"].available /\ checks["recapture"].data.screen <=> SeenAsScreen
         /\ Answered =>
              /\ checks["content"].data \in Perception
              /\ checks["content"].score = ContentScore(checks["content"].data)
              /\ SameScene(checks["content"].data, perception)
              /\ perception \in Perception
<1>1. /\ Outcomes(checks) /\ photo \in Photo
      /\ CheckInv
      /\ verdict \in Fuse(checks) /\ Free(checks, photo)
  BY CheckInvIsTyped DEF IInv, ControlInv, VerdictInv, CheckInv, Fused
<1>2. /\ checks["uniqueness"] \in UniquenessChecks(photo)
      /\ checks["sharpness"] \in SharpnessChecks(photo)
      /\ checks["recapture"] = RecaptureCheck(photo)
  BY <1>1 DEF Free
<1>3. /\ checks["uniqueness"].available
      /\ checks["uniqueness"].data.exact <=> Exact
      /\ checks["uniqueness"].data.near <=>
           /\ photo.pil /\ photo.distance # None
           /\ ~ (photo.distance <= Cfg.thresholds.dup_exact)
           /\ photo.distance <= Cfg.thresholds.dup_near
  BY <1>1, <1>2, UniquenessIs DEF Exact
<1>4. Flagged(checks) <=> Duplicate
  <2>1. /\ photo.distance \in Int
        /\ Cfg.thresholds.dup_exact \in Int /\ Cfg.thresholds.dup_near \in Int
    BY <1>1, CfgAssumption DEF Photo, ScoringConfig, None
  <2>2. photo.distance <= Cfg.thresholds.dup_exact => photo.distance <= Cfg.thresholds.dup_near
    BY <2>1
  <2> QED BY <1>3, <2>2 DEF Flagged, Duplicate, Exact
<1>5. Unreadable(checks) <=> Blurred
  BY <1>1, <1>2, SharpnessIs DEF Unreadable, Blurred
<1>6. checks["recapture"].available /\ checks["recapture"].data.screen <=> SeenAsScreen
  BY <1>1, <1>2, RecaptureIs DEF SeenAsScreen
<1>7. ASSUME Answered
      PROVE  /\ checks["content"].data \in Perception
             /\ checks["content"].score = ContentScore(checks["content"].data)
             /\ SameScene(checks["content"].data, perception)
             /\ perception \in Perception
  <2>1. checks["content"] # NotRun
    BY <1>7, NotRunIs DEF Answered
  <2>2. PICK a \in Perception : /\ checks["content"] = ContentCheck(a)
                                /\ perception \in Perceptions /\ SameScene(a, perception)
    BY <1>1, <2>1 DEF CheckInv, Content
  <2>3. checks["content"].data = a /\ checks["content"].score = ContentScore(a)
    BY <2>2, ContentCheckIs
  <2> QED BY <2>2, <2>3, InputsAssumption
<1> QED BY <1>1, <1>3, <1>4, <1>5, <1>6, <1>7

(* Every variable keeps its type, for every photo, answer, configuration and *)
(* backend: in particular no score leaves 0..100.0 and no blend is divided   *)
(* by zero (engine/types.py).                                                *)
THEOREM TypeCorrect == Spec => []TypeOK
<1>1. IInv => TypeOK
  <2> SUFFICES ASSUME IInv PROVE TypeOK
    OBVIOUS
  <2>1. Outcomes(checks) /\ ControlInv /\ VerdictInv /\ CheckInv
    BY CheckInvIsTyped DEF IInv, ControlInv
  <2>2. verdict \in Verdicts \cup {<<>>}
    BY <2>1, VerdictIsTyped DEF VerdictInv, ControlInv
  <2>3. DOMAIN checks = CheckNames
    BY <2>1 DEF CheckInv
  <2>4. \A n \in CheckNames : OfKind(checks[n])
    BY <2>1 DEF Outcomes
  <2> QED BY <2>1, <2>2, <2>3, <2>4 DEF TypeOK, ControlInv, VerdictInv, OfKind
<1> QED BY <1>1, Invariant, PTL

(* A fired integrity gate means Suspect, whatever else fired.                *)
LEMMA IntegrityGate ==
  ASSUME CapsKeepTheirPromise, NEW cs, Outcomes(cs), NEW v \in Fuse(cs), NEW g \in Gates(cs),
         g.reason # "no_content_analysis", g.cap < Cfg.bands.doubtful
  PROVE  v.band = "Suspect"
<1>1. g.reason \in Why(cs) /\ Why(cs) \subseteq Reasons \ {"clear"}
  BY ReasonsFired DEF Why
<1>2. v.reason \in MostSevere(Why(cs))
  BY VerdictIs
<1>3. v.reason # "no_content_analysis"
  BY <1>1, <1>2, MostSevereIs
<1> QED BY <1>3, CapIsKept

(* Integrity failures land in Suspect (fuse.py, the caps of                  *)
(* scoring_config.py), for every configuration that keeps the promise of its *)
(* caps.                                                                     *)
THEOREM Integrity ==
  ASSUME CapsKeepTheirPromise
  PROVE  Spec => []IntegrityIsSuspect
<1>1. ASSUME IInv PROVE IntegrityIsSuspect
  <2> SUFFICES ASSUME Fused,
                      \/ Exact \/ SeenAsScreen
                      \/ Answered /\ (RedFlag(perception) \/ perception.people = 0)
               PROVE  verdict.band = "Suspect"
    BY DEF IntegrityIsSuspect
  <2> DEFINE d == checks["content"].data
  <2>1. /\ Outcomes(checks) /\ verdict \in Fuse(checks)
        /\ checks["uniqueness"].available
        /\ checks["uniqueness"].data.exact <=> Exact
        /\ checks["recapture"].available /\ checks["recapture"].data.screen <=> SeenAsScreen
        /\ Answered => d \in Perception /\ SameScene(d, perception)
    BY <1>1, FusedChecks DEF CapsKeepTheirPromise
  <2>2. ASSUME NEW why \in {"recycled", "screen_recapture", "designed_graphic",
                            "no_people_or_irrelevant"},
               NEW c \in {"duplicate", "screen_recapture", "designed_graphic", "no_people"},
               Gate(why, c) \in Gates(checks)
        PROVE  verdict.band = "Suspect"
    <3>1. Gate(why, c).reason # "no_content_analysis" /\ Gate(why, c).cap < Cfg.bands.doubtful
      BY GateIs DEF CapsKeepTheirPromise
    <3> QED BY <2>1, <2>2, <3>1, IntegrityGate
  <2>3. CASE Exact
    <3>1. Gate("recycled", "duplicate") \in Gates(checks)
      BY <2>1, <2>3, DuplicateGatesAre, GatesAre
    <3> QED BY <2>2, <3>1
  <2>4. CASE SeenAsScreen
    <3>1. Gate("screen_recapture", "screen_recapture") \in Gates(checks)
      BY <2>1, <2>4, GatesAre
    <3> QED BY <2>2, <3>1
  <2>5. CASE Answered /\ (RedFlag(perception) \/ perception.people = 0)
    <3>1. d.screen \/ d.graphic \/ d.people = 0
      BY <2>1, <2>5 DEF RedFlag, SameScene
    <3>2. \/ Gate("screen_recapture", "screen_recapture") \in ContentGates(checks["content"])
          \/ Gate("designed_graphic", "designed_graphic") \in ContentGates(checks["content"])
          \/ Gate("no_people_or_irrelevant", "no_people") \in ContentGates(checks["content"])
      BY <2>5, <3>1 DEF ContentGates, Fires, Gate, Answered
    <3>3. \A g \in ContentGates(checks["content"]) : g \in Gates(checks)
      BY <2>1, GatesAre
    <3> QED BY <2>2, <3>2, <3>3
  <2> QED BY <2>3, <2>4, <2>5
<1> QED BY <1>1, Invariant, PTL

(* Clear is earned by evidence (fuse.py): no path of failed, skipped or      *)
(* refined calls reaches it otherwise.                                       *)
THEOREM Earned ==
  ASSUME CapsKeepTheirPromise
  PROVE  Spec => []ClearIsEarned
<1>1. ASSUME IInv PROVE ClearIsEarned
  <2> SUFFICES ASSUME Fused, verdict.band = "Clear"
               PROVE  /\ Answered
                      /\ perception.people > 0 /\ ~ RedFlag(perception)
                      /\ checks["content"].data.plausibility >= Cfg.thresholds.plausibility_gate
                      /\ (checks["content"].data.confidence = "high") =>
                            /\ perception.people # 1
                            /\ \/ checks["content"].data.visit = None
                               \/ checks["content"].data.visit >= Cfg.thresholds.visit_context_gate
                      /\ ~ Duplicate /\ ~ SeenAsScreen /\ ~ Blurred
    BY DEF ClearIsEarned
  <2> DEFINE c == checks["content"]
             d == c.data
             T == Cfg.thresholds
  <2>1. /\ Outcomes(checks) /\ verdict \in Fuse(checks)
        /\ Flagged(checks) <=> Duplicate
        /\ Unreadable(checks) <=> Blurred
        /\ checks["recapture"].available /\ checks["recapture"].data.screen <=> SeenAsScreen
        /\ Answered => d \in Perception /\ SameScene(d, perception) /\ perception \in Perception
    BY <1>1, FusedChecks DEF CapsKeepTheirPromise
  <2>2. \A g : g \notin Gates(checks)
    BY <2>1, CapIsKept
  <2>3. Why(checks) = {}
    BY <2>2 DEF Why
  <2>4. ~ Duplicate /\ ~ SeenAsScreen /\ ~ Blurred /\ Answered
    BY <2>1, <2>3, ReasonsFired DEF Answered, SeesScreen
  <2>5. \A g : g \notin ContentGates(c)
    BY <2>1, <2>2, GatesAre
  <2>6. /\ ~ d.screen /\ ~ d.graphic /\ d.people # 0
        /\ ~ (d.plausibility < T.plausibility_gate)
        /\ \A g : g \notin MeetingGates(d)
    BY <2>4, <2>5 DEF ContentGates, Fires, Answered
  <2>7. /\ d \in Perception /\ d.plausibility \in Int /\ d.visit \in Int
        /\ T.plausibility_gate \in Int /\ T.visit_context_gate \in Int
        /\ d.people = perception.people /\ d.screen = perception.screen
        /\ d.graphic = perception.graphic /\ perception.people \in 0..100
    BY <2>1, <2>4, CfgAssumption DEF Perception, ScoringConfig, SameScene, None
  <2>8. perception.people > 0 /\ ~ RedFlag(perception) /\ ~ RedFlag(d)
    BY <2>6, <2>7 DEF RedFlag
  <2>9. d.plausibility >= T.plausibility_gate
    BY <2>6, <2>7
  <2>10. ASSUME d.confidence = "high"
         PROVE  d.people # 1 /\ (d.visit = None \/ d.visit >= T.visit_context_gate)
    <3>1. /\ ~ (d.people = 1)
          /\ ~ (d.people # 1 /\ d.visit # None /\ d.visit < T.visit_context_gate)
      BY <2>6, <2>8, <2>10 DEF MeetingGates, Fires
    <3> HIDE DEF d, T
    <3> QED BY <2>7, <3>1
  <2> QED BY <2>4, <2>7, <2>8, <2>9, <2>10
<1> QED BY <1>1, Invariant, PTL

(* Without a content assessment only three other reasons can fire.           *)
LEMMA NobodyLooked ==
  ASSUME NEW cs, Outcomes(cs), ~ cs["content"].available
  PROVE  Why(cs) \subseteq {"recycled", "screen_recapture", "too_blurred", "no_content_analysis"}
<1> SUFFICES ASSUME NEW g \in Gates(cs)
             PROVE  g.reason \in {"recycled", "screen_recapture", "too_blurred", "no_content_analysis"}
  BY DEF Why
<1>1. ASSUME g \in DuplicateGates(cs["uniqueness"]) PROVE g.reason = "recycled"
  BY <1>1, DuplicateGatesAre, GateIs
<1>2. ASSUME g \in ContentGates(cs["content"]) PROVE g.reason = "no_content_analysis"
  BY <1>2 DEF ContentGates, Fires
<1> QED BY <1>1, <1>2, GatesAre, GateIs

(* The reason names the most severe evidence (REASON_PRIORITY and            *)
(* most_severe of fuse.py).                                                  *)
THEOREM WorstNamed ==
  ASSUME CapsKeepTheirPromise
  PROVE  Spec => []WorstEvidenceIsNamed
<1>1. ASSUME IInv PROVE WorstEvidenceIsNamed
  <2> SUFFICES ASSUME Fused
               PROVE  WorstEvidenceIsNamed!2
    BY DEF WorstEvidenceIsNamed
  <2> DEFINE c == checks["content"]
             d == c.data
             r == verdict.reason
             W == Why(checks)
  <2>1. /\ Outcomes(checks) /\ verdict \in Fuse(checks)
        /\ Flagged(checks) <=> Duplicate
        /\ Unreadable(checks) <=> Blurred
        /\ checks["recapture"].available /\ checks["recapture"].data.screen <=> SeenAsScreen
        /\ Answered => d \in Perception /\ SameScene(d, perception) /\ perception \in Perception
    BY <1>1, FusedChecks DEF CapsKeepTheirPromise
  <2>2. /\ W \subseteq Reasons \ {"clear"}
        /\ "recycled" \in W <=> Duplicate
        /\ "screen_recapture" \in W <=> SeenAsScreen \/ (Answered /\ perception.screen)
        /\ "too_blurred" \in W <=> Blurred
        /\ "no_content_analysis" \in W <=> ~ Answered
        /\ Answered /\ perception.graphic => "designed_graphic" \in W
        /\ Answered /\ perception.people = 0 => "no_people_or_irrelevant" \in W
    BY <2>1, ReasonsFired DEF SeesScreen, Answered, SameScene
  <2>3. /\ r \in W \cup {"clear"}
        /\ r = "recycled" <=> "recycled" \in W
        /\ r = "screen_recapture" <=> "screen_recapture" \in W /\ "recycled" \notin W
        /\ r = "too_blurred" =>
             /\ "too_blurred" \in W
             /\ W \cap {"recycled", "screen_recapture", "designed_graphic",
                        "no_people_or_irrelevant"} = {}
        /\ r = "no_content_analysis" => W \subseteq {"no_content_analysis"}
        /\ (r = "clear") <=> (W = {})
    <3>1. r \in MostSevere(W)
      BY <2>1, VerdictIs
    <3> HIDE DEF r, W
    <3> QED BY <2>2, <3>1, MostSevereIs
  <2> HIDE DEF r, W
  <2>4. r = "recycled" <=> Duplicate
    BY <2>2, <2>3
  <2>5. r = "screen_recapture" <=>
          (~ Duplicate /\ (SeenAsScreen \/ (Answered /\ perception.screen)))
    BY <2>2, <2>3
  <2>6. r = "too_blurred" => (Blurred /\ (Answered => perception.people > 0 /\ ~ RedFlag(perception)))
    <3>1. Answered => perception.people \in 0..100
      BY <2>1 DEF Perception
    <3> QED BY <2>2, <2>3, <3>1 DEF RedFlag
  <2>7. verdict.band = "Unassessed" <=> r = "no_content_analysis"
    <3>1. /\ verdict.score \in 0..1000
          /\ verdict.band = IF r = "no_content_analysis" THEN "Unassessed" ELSE BandFor(verdict.score)
      BY <2>1, VerdictIs DEF r
    <3>2. BandFor(verdict.score) # "Unassessed"
      BY <3>1, BandIs
    <3> QED BY <3>1, <3>2
  <2>8. r = "no_content_analysis" <=> ~ Answered /\ ~ Duplicate /\ ~ SeenAsScreen /\ ~ Blurred
    <3>1. ~ Answered => W \subseteq {"recycled", "screen_recapture", "too_blurred", "no_content_analysis"}
      BY <2>1, NobodyLooked DEF Answered, W
    <3> QED BY <2>2, <2>3, <3>1
  <2> QED BY <2>4, <2>5, <2>6, <2>7, <2>8 DEF r
<1> QED BY <1>1, Invariant, PTL

(* Replacing the content check leaves proper outcomes and the other checks.  *)
LEMMA OtherContent ==
  ASSUME NEW cs, Outcomes(cs), NEW a \in Perception
  PROVE  LET ds == [cs EXCEPT !["content"] = ContentCheck(a)]
         IN  /\ Outcomes(ds)
             /\ \A n \in CheckNames : n # "content" => ds[n] = cs[n]
             /\ ds["content"] = ContentCheck(a)
<1> DEFINE c  == ContentCheck(a)
           ds == [cs EXCEPT !["content"] = c]
<1>1. OfKind(c) /\ HasData(c, Perception)
  BY ContentCheckIs
<1>2. /\ ds = [n \in CheckNames |-> ds[n]]
      /\ \A n \in CheckNames : n # "content" => ds[n] = cs[n]
      /\ ds["content"] = c
  <2>1. cs = [n \in CheckNames |-> cs[n]] /\ "content" \in CheckNames
    BY DEF Outcomes, CheckNames
  <2> HIDE DEF c
  <2> QED BY <2>1
<1> HIDE DEF c, ds
<1>3. \A n \in CheckNames : OfKind(ds[n])
  BY <1>1, <1>2 DEF Outcomes
<1>4. Outcomes(ds)
  BY <1>1, <1>2, <1>3 DEF Outcomes, CheckNames
<1> QED BY <1>2, <1>4 DEF ds, c

(* Skipping the paid call cannot change band or reason (pipeline.py          *)
(* _free_hard_gate_fired against fuse.py _gates).                            *)
THEOREM SkipIsSafe ==
  ASSUME CapsKeepTheirPromise
  PROVE  Spec => []SkippingIsSafe
<1>1. ASSUME IInv PROVE SkippingIsSafe
  <2> SUFFICES ASSUME Fused, Skipped, NEW a \in Perceptions,
                      NEW v \in Fuse([checks EXCEPT !["content"] = ContentCheck(a)])
               PROVE  v.band = verdict.band /\ v.reason = verdict.reason
    BY DEF SkippingIsSafe
  <2> DEFINE other == [checks EXCEPT !["content"] = ContentCheck(a)]
  <2>1. Outcomes(checks) /\ verdict \in Fuse(checks) /\ FreeHardGate(checks)
    BY <1>1, FusedChecks DEF CapsKeepTheirPromise, Skipped
  <2>2. /\ Outcomes(other)
        /\ other["uniqueness"] = checks["uniqueness"]
        /\ other["recapture"] = checks["recapture"]
    <3>1. a \in Perception
      BY InputsAssumption
    <3> QED BY <2>1, <3>1, OtherContent DEF CheckNames
  <2>3. v \in Fuse(other)
    OBVIOUS
  <2> HIDE DEF other
  <2>4. FreeHardGate(other) /\ (Flagged(other) <=> Flagged(checks))
    BY <2>1, <2>2 DEF FreeHardGate, Flagged
  <2> QED BY <2>1, <2>2, <2>3, <2>4, FreeGateDecides
<1> QED BY <1>1, Invariant, PTL

-----------------------------------------------------------------------------
(* Finitely many caps fire.                                                  *)
LEMMA CapsFinite ==
  ASSUME NEW cs, Outcomes(cs)
  PROVE  /\ IsFiniteSet({g.cap : g \in Gates(cs)})
         /\ {g.cap : g \in Gates(cs)} \subseteq Int
<1> DEFINE Name == <<"duplicate", "near_duplicate", "screen_recapture", "designed_graphic",
                     "no_people", "low_plausibility", "weak_visit_context", "not_a_visit",
                     "too_blurred", "no_content">>
           capOf == [i \in 1..10 |-> Cfg.caps[Name[i]]]
           S == {capOf[i] : i \in 1..10}
<1>1. IsFiniteSet(S)
  <2>1. IsFiniteSet(1..10)
    BY FiniteRange
  <2> DEFINE I == 1..10
  <2> HIDE DEF capOf, I
  <2>2. IsFiniteSet({capOf[i] : i \in I})
    BY <2>1, FiniteImage DEF I
  <2> QED BY <2>2 DEF I
<1>2. \A c \in Ceilings : \E i \in 1..10 : Name[i] = c
  <2>1. /\ Name[1] = "duplicate" /\ Name[2] = "near_duplicate" /\ Name[3] = "screen_recapture"
        /\ Name[4] = "designed_graphic" /\ Name[5] = "no_people" /\ Name[6] = "low_plausibility"
        /\ Name[7] = "weak_visit_context" /\ Name[8] = "not_a_visit"
        /\ Name[9] = "too_blurred" /\ Name[10] = "no_content"
    OBVIOUS
  <2>2. /\ 1 \in 1..10 /\ 2 \in 1..10 /\ 3 \in 1..10 /\ 4 \in 1..10 /\ 5 \in 1..10
        /\ 6 \in 1..10 /\ 7 \in 1..10 /\ 8 \in 1..10 /\ 9 \in 1..10 /\ 10 \in 1..10
    OBVIOUS
  <2> HIDE DEF Name
  <2> QED BY <2>1, <2>2, Zenon DEF Ceilings
<1>3. \A g \in Gates(cs) : g.cap \in Int /\ \E c \in Ceilings : g.cap = Cfg.caps[c]
  BY GateIsTyped
<1>4. {g.cap : g \in Gates(cs)} \subseteq S
  <2> SUFFICES ASSUME NEW g \in Gates(cs) PROVE g.cap \in S
    OBVIOUS
  <2>1. PICK c \in Ceilings : g.cap = Cfg.caps[c]
    BY <1>3
  <2>2. PICK i \in 1..10 : Name[i] = c
    BY <1>2
  <2> HIDE DEF Name
  <2>3. g.cap = capOf[i]
    BY <2>1, <2>2
  <2> HIDE DEF capOf
  <2> QED BY <2>2, <2>3
<1> HIDE DEF S
<1> QED BY <1>1, <1>3, <1>4, FS_Subset

(* There always is a most severe reason.                                     *)
LEMMA SomethingIsMostSevere ==
  ASSUME NEW S \in SUBSET Reasons
  PROVE  MostSevere(S) # {}
<1> DEFINE R == S \cup {"clear"}
           Ranks == {Severity[r] : r \in R}
<1>1. R \subseteq Reasons /\ \A r \in Reasons : Severity[r] \in 1..10
  BY DEF Reasons, Severity
<1>2. Ranks \subseteq 1..10 /\ Ranks # {}
  BY <1>1
<1>3. IsFiniteSet(Ranks) /\ Ranks \subseteq Int
  <2>1. IsFiniteSet(1..10)
    BY FiniteRange
  <2>2. \A n \in 1..10 : n \in Int
    OBVIOUS
  <2> HIDE DEF Ranks
  <2>3. Ranks \subseteq Int
    BY <1>2, <2>2, Zenon
  <2>4. IsFiniteSet(Ranks)
    BY <1>2, <2>1, FS_Subset, Zenon
  <2> QED BY <2>3, <2>4
<1>4. PICK m \in Ranks : \A n \in Ranks : m <= n
  <2> HIDE DEF Ranks
  <2> QED BY <1>2, <1>3, FiniteLeast
<1>5. PICK r \in R : Severity[r] = m
  OBVIOUS
<1>6. \A s \in R : Severity[r] <= Severity[s]
  BY <1>4, <1>5
<1> QED BY <1>5, <1>6 DEF MostSevere

(* A blend at least as high under caps at least as high gives a score at     *)
(* least as high.                                                            *)
LEMMA MilderGatesScoreMore ==
  ASSUME NEW cs, Outcomes(cs), NEW ds, Outcomes(ds),
         \E b2 \in Blend(ds) : \A b1 \in Blend(cs) : b1 <= b2,
         \A h \in Gates(ds) : \E g \in Gates(cs) : g.cap <= h.cap,
         NEW s \in Scores(cs)
  PROVE  \E t \in Scores(ds) : s <= t
<1> DEFINE Caps(ks) == {g.cap : g \in Gates(ks)}
           Capped(ks, b) == Least({b} \cup Caps(ks))
<1>1. PICK x \in UNION {Capped(cs, b1) : b1 \in Blend(cs)} : s = Clamped(x)
  BY DEF Scores
<1>2. PICK b \in Blend(cs) : x \in Capped(cs, b)
  BY <1>1
<1>3. PICK b2 \in Blend(ds) : \A b1 \in Blend(cs) : b1 <= b2
  OBVIOUS
<1>4. b \in Int /\ b2 \in Int /\ b <= b2
  BY <1>2, <1>3, BlendIsNatural
<1>5. /\ IsFiniteSet(Caps(ds)) /\ Caps(ds) \subseteq Int /\ Caps(cs) \subseteq Int
  BY CapsFinite
<1>6. x \in Int /\ x <= b /\ \A k \in Caps(cs) : x <= k
  <2> HIDE DEF Caps
  <2> QED BY <1>2, <1>4, <1>5 DEF Least
<1>7. \A k \in Caps(ds) : \E j \in Caps(cs) : j <= k
  OBVIOUS
<1> DEFINE All == {b2} \cup Caps(ds)
<1>8. /\ All \in SUBSET Int /\ IsFiniteSet(All) /\ All # {}
  <2> HIDE DEF Caps
  <2>1. All = Caps(ds) \cup {b2}
    OBVIOUS
  <2> QED BY <1>4, <1>5, <2>1, FS_AddElement
<1>9. PICK y \in All : \A z \in All : y <= z
  <2> HIDE DEF All
  <2> QED BY <1>8, FiniteLeast
<1>10. y \in Int /\ x <= y
  <2> HIDE DEF Caps
  <2>1. CASE y = b2
    BY <1>4, <1>6, <2>1
  <2>2. CASE y \in Caps(ds)
    <3>1. PICK j \in Caps(cs) : j <= y
      BY <1>7, <2>2
    <3>2. x <= j /\ j \in Int /\ y \in Int
      BY <1>5, <1>6, <2>2, <3>1
    <3> QED BY <1>6, <3>1, <3>2
  <2> QED BY <1>9, <2>1, <2>2
<1> HIDE DEF Caps, All
<1>11. Clamped(x) <= Clamped(y)
  BY <1>6, <1>10 DEF Clamped
<1>12. Clamped(y) \in Scores(ds)
  <2>1. y \in Capped(ds, b2)
    BY <1>9 DEF Least, All
  <2>2. y \in UNION {Capped(ds, k) : k \in Blend(ds)}
    <3> HIDE DEF Capped
    <3> QED BY <1>3, <2>1
  <2> QED BY <2>2 DEF Scores, Caps
<1> QED BY <1>1, <1>11, <1>12

(* a reads the same scene as d, at least as plausibly and not more surely.   *)
Kinder(d, a) ==
  /\ a \in Perception
  /\ SameScene(a, d) /\ a.visit = d.visit
  /\ a.plausibility >= d.plausibility
  /\ a.confidence \in {d.confidence, "low"}

(* A kinder reading scores at least as high in the content check, red-flag   *)
(* ceiling included.                                                         *)
LEMMA KinderContentScoresMore ==
  ASSUME NEW d \in Perception, NEW a, Kinder(d, a)
  PROVE  ContentScore(d) <= ContentScore(a)
<1>1. /\ d.plausibility \in 0..100 /\ d.visit \in (0..100) \cup {None}
      /\ a.plausibility \in 0..100 /\ a.visit = d.visit /\ d.plausibility <= a.plausibility
      /\ RedFlag(a) <=> RedFlag(d)
  BY DEF Kinder, Perception, SameScene, RedFlag
<1> DEFINE V(e) == IF e.visit = None THEN e.plausibility ELSE e.visit
           B(e) == 6 * e.plausibility + 4 * V(e)
<1>2. V(d) \in 0..100 /\ V(a) \in 0..100 /\ V(d) <= V(a)
  BY <1>1
<1>3. B(d) \in Int /\ B(a) \in Int /\ B(d) <= B(a)
  <2>1. \A p, q, v, w \in 0..100 : p <= q /\ v <= w =>
          /\ 6 * p + 4 * v \in Int /\ 6 * q + 4 * w \in Int
          /\ 6 * p + 4 * v <= 6 * q + 4 * w
    OBVIOUS
  <2> HIDE DEF V
  <2> QED BY <1>1, <1>2, <2>1, Zenon
<1>4. \A e : ContentScore(e) = IF RedFlag(e) /\ B(e) > 250 THEN 250 ELSE B(e)
  BY DEF ContentScore
<1> HIDE DEF B
<1> QED BY <1>1, <1>3, <1>4

(* Every gate of a kinder reading is matched by one of the original that     *)
(* caps at least as low.                                                     *)
LEMMA KinderGatesCapMore ==
  ASSUME CapsKeepTheirPromise, NEW d \in Perception, NEW a, Kinder(d, a)
  PROVE  \A h \in ContentGates(ContentCheck(a)) :
           \E g \in ContentGates(ContentCheck(d)) : g.cap <= h.cap
<1> DEFINE T == Cfg.thresholds
           G(e) == ContentGates(ContentCheck(e))
<1>1. /\ a \in Perception
      /\ d.plausibility \in Int /\ a.plausibility \in Int /\ d.plausibility <= a.plausibility
      /\ T.plausibility_gate \in Int
      /\ a.people = d.people /\ a.screen = d.screen /\ a.graphic = d.graphic /\ a.visit = d.visit
      /\ RedFlag(a) <=> RedFlag(d)
      /\ a.confidence = "high" => d.confidence = "high"
  BY CfgAssumption DEF Kinder, Perception, SameScene, RedFlag, ScoringConfig
<1>2. \A c \in Ceilings : Cfg.caps[c] \in Int /\ Cfg.caps[c] <= Cfg.caps[c]
  BY CapsAreIntegers
<1>3. ASSUME NEW e \in Perception, NEW g
      PROVE  g \in G(e) <=>
                \/ e.screen /\ g = Gate("screen_recapture", "screen_recapture")
                \/ e.graphic /\ g = Gate("designed_graphic", "designed_graphic")
                \/ e.people = 0 /\ g = Gate("no_people_or_irrelevant", "no_people")
                \/ /\ e.people # 0
                   /\ e.plausibility < T.plausibility_gate
                   /\ g = Gate("no_people_or_irrelevant", "low_plausibility")
                \/ g \in MeetingGates(e)
  <2>1. ContentCheck(e).available /\ ContentCheck(e).data = e
    BY ContentCheckIs
  <2>2. /\ e.screen \in BOOLEAN /\ e.graphic \in BOOLEAN
        /\ (e.people = 0) \in BOOLEAN
        /\ (e.people # 0 /\ e.plausibility < T.plausibility_gate) \in BOOLEAN
    BY DEF Perception
  <2>3. G(e) = Fires(e.screen, "screen_recapture", "screen_recapture")
       \cup Fires(e.graphic, "designed_graphic", "designed_graphic")
       \cup Fires(e.people = 0, "no_people_or_irrelevant", "no_people")
       \cup Fires(e.people # 0 /\ e.plausibility < T.plausibility_gate,
                  "no_people_or_irrelevant", "low_plausibility")
       \cup MeetingGates(e)
    BY <2>1 DEF ContentGates
  <2> HIDE DEF G, T
  <2> QED BY <2>2, <2>3 DEF Fires, Gate
<1> HIDE DEF G
<1>4. ASSUME NEW h \in G(a), h \in G(d) PROVE \E g \in G(d) : g.cap <= h.cap
  <2>1. h.cap \in Int
    <3>1. \E why : \E c \in Ceilings : h = Gate(why, c)
      <4>1. ASSUME h \in MeetingGates(a) PROVE \E why : \E c \in Ceilings : h = Gate(why, c)
        BY <1>1, <4>1, MeetingGatesAre DEF Ceilings
      <4> QED BY <1>1, <1>3, <4>1 DEF Ceilings
    <3> QED BY <1>2, <3>1, GateIs
  <2> QED BY <1>4, <2>1
<1>5. ASSUME NEW h \in MeetingGates(a), h \notin MeetingGates(d)
      PROVE  \E g \in MeetingGates(d) : g.cap <= h.cap
  <2>1. /\ d.people # 0 /\ ~ RedFlag(d)
        /\ a.confidence # "high" /\ d.visit # None /\ d.visit < T.no_visit_suspect_gate
        /\ h = Gate("no_visit_context", "weak_visit_context")
    BY <1>1, <1>5, MeetingGatesAre
  <2>2. d.confidence = "high"
    BY <1>5, <2>1, MeetingGatesAre
  <2>3. Gate("not_a_visit", "not_a_visit") \in MeetingGates(d)
    BY <2>1, <2>2, MeetingGatesAre
  <2> QED BY <2>1, <2>3, GateIs DEF CapsKeepTheirPromise
<1>6. ASSUME NEW h \in G(a) PROVE \E g \in G(d) : g.cap <= h.cap
  <2>1. CASE h \in MeetingGates(a)
    BY <1>3, <1>4, <1>5, <2>1
  <2>2. CASE h \notin MeetingGates(a)
    <3>1. h \in G(d)
      BY <1>1, <1>3, <2>2
    <3> QED BY <1>4, <3>1
  <2> QED BY <2>1, <2>2
<1> QED BY <1>6 DEF G

(* A kinder reading blends at least as high: the same checks carry weight,   *)
(* one of them scored higher.                                                *)
LEMMA KinderBlendsMore ==
  ASSUME NEW cs, Outcomes(cs), NEW a, cs["content"].available,
         cs["content"].score = ContentScore(cs["content"].data), Kinder(cs["content"].data, a)
  PROVE  \E y \in Blend([cs EXCEPT !["content"] = ContentCheck(a)]) :
           \A x \in Blend(cs) : x <= y
<1> DEFINE d  == cs["content"].data
           ds == [cs EXCEPT !["content"] = ContentCheck(a)]
           S  == Blended(cs)
           f  == [n \in S |-> Cfg.weights[n] * cs[n].score]
           g  == [n \in S |-> Cfg.weights[n] * ds[n].score]
           w  == SumFunctionOnSet(Cfg.weights, S)
<1>1. /\ a \in Perception /\ d \in Perception
  BY DEF Kinder, Outcomes, HasData
<1>2. /\ Outcomes(ds)
      /\ \A n \in CheckNames : n # "content" => ds[n] = cs[n]
      /\ ds["content"] = ContentCheck(a)
  BY <1>1, OtherContent
<1>3. /\ ds["content"].available /\ ds["content"].score = ContentScore(a)
      /\ ContentScore(a) \in Tenths /\ ContentScore(d) \in Tenths
      /\ ContentScore(d) <= ContentScore(a)
  BY <1>1, <1>2, ContentCheckIs, KinderContentScoresMore
<1> HIDE DEF ds
<1>4. Blended(ds) = S
  <2>1. ContentScore(a) # None /\ ContentScore(d) # None
    <3>1. None \notin Tenths
      BY DEF Tenths, None
    <3> QED BY ONLY <1>3, <3>1
  <2>2. \A n \in WeightNames : /\ ds[n].available <=> cs[n].available
                               /\ ds[n].score # None <=> cs[n].score # None
    BY <1>2, <1>3, <2>1, WeightsFinite
  <2>3. \A ks, n : n \in Blended(ks) <=> /\ n \in WeightNames /\ ks[n].available
                                         /\ ks[n].score # None /\ Cfg.weights[n] > 0
    BY WeightsFinite DEF Blended
  <2>4. \A n : n \in Blended(ds) <=> n \in S
    <3> HIDE DEF S
    <3> QED BY <2>2, <2>3 DEF S
  <2> QED BY <2>4
<1>5. CASE S = {}
  <2>1. Blend(cs) = {500} /\ Blend(ds) = {500}
    BY <1>4, <1>5 DEF Blend
  <2>2. \E y \in Blend(ds) : \A x \in Blend(cs) : x <= y
    BY <2>1
  <2> QED BY <2>2 DEF ds
<1>6. CASE S # {}
  <2>1. /\ SumFunction(f) \in Nat /\ w \in Nat /\ w > 0
        /\ Blend(cs) = Rounded(SumFunction(f), w)
    BY <1>6, BlendOfNatural
  <2>2. /\ SumFunction(g) \in Nat /\ Blend(ds) = Rounded(SumFunction(g), w)
    <3>1. Blended(ds) # {}
      BY <1>4, <1>6
    <3>2. LET acc == SumFunction([n \in Blended(ds) |-> Cfg.weights[n] * ds[n].score])
              v   == SumFunctionOnSet(Cfg.weights, Blended(ds))
          IN  acc \in Nat /\ v \in Nat /\ v > 0 /\ Blend(ds) = Rounded(acc, v)
      BY <1>2, <3>1, BlendOfNatural
    <3> HIDE DEF S
    <3> QED BY <1>4, <3>2
  <2>3. SumFunction(f) <= SumFunction(g)
    <3>1. IsFiniteSet(S)
      BY WeightsFinite, FS_Subset DEF Blended
    <3>2. ASSUME NEW n \in S
          PROVE  f[n] \in Nat /\ g[n] \in Nat /\ f[n] <= g[n]
      <4>1. /\ n \in CheckNames /\ cs[n].score # None /\ ds[n].score # None
            /\ Cfg.weights[n] \in Nat
        <5>1. n \in WeightNames /\ n \in Blended(ds)
          BY <1>4, WeightsFinite DEF Blended
        <5> QED BY <5>1, WeightsFinite DEF Blended
      <4>2. cs[n].score \in Tenths /\ ds[n].score \in Tenths
        <5> HIDE DEF S
        <5>1. OfKind(cs[n]) /\ OfKind(ds[n])
          BY <1>2, <4>1 DEF Outcomes
        <5>2. \A o : OfKind(o) => o.score \in Tenths \cup {None}
          BY DEF OfKind, Tenths
        <5> QED BY <4>1, <5>1, <5>2
      <4>3. \A x \in Tenths : x \in Nat
        BY DEF Tenths
      <4>4. cs[n].score <= ds[n].score
        <5>1. CASE n = "content"
          BY <1>3, <5>1
        <5>2. CASE n # "content"
          BY <1>2, <4>1, <4>2, <4>3, <5>2
        <5> QED BY <5>1, <5>2
      <4>5. \A k, x, y \in Nat : x <= y =>
               k * x \in Nat /\ k * y \in Nat /\ k * x <= k * y
        OBVIOUS
      <4>6. cs[n].score \in Nat /\ ds[n].score \in Nat
        BY <4>2, <4>3
      <4>7. f[n] = Cfg.weights[n] * cs[n].score /\ g[n] = Cfg.weights[n] * ds[n].score
        OBVIOUS
      <4> HIDE DEF f, g
      <4> QED BY <4>1, <4>4, <4>5, <4>6, <4>7
    <3>3. SumFunctionOnSet(f, S) <= SumFunctionOnSet(g, S)
      <4> HIDE DEF S, f, g
      <4> QED BY <3>1, <3>2, SumMonotone
    <3>4. SumFunction(f) = SumFunctionOnSet(f, S) /\ SumFunction(g) = SumFunctionOnSet(g, S)
      BY DEF SumFunction
    <3> QED BY <3>3, <3>4
  <2> HIDE DEF f, g, w
  <2>4. \E y \in Blend(ds) : \A x \in Blend(cs) : x <= y
    BY <2>1, <2>2, <2>3, RoundedKeepsOrder
  <2> QED BY <2>4 DEF ds
<1> QED BY <1>5, <1>6

(* A kinder reading never scores lower.                                      *)
LEMMA KinderScoresMore ==
  ASSUME CapsKeepTheirPromise,
         NEW cs, Outcomes(cs), NEW a, cs["content"].available,
         cs["content"].score = ContentScore(cs["content"].data),
         cs["content"] = ContentCheck(cs["content"].data),
         Kinder(cs["content"].data, a), NEW v \in Fuse(cs)
  PROVE  \E u \in Fuse([cs EXCEPT !["content"] = ContentCheck(a)]) : u.score >= v.score
<1> DEFINE d  == cs["content"].data
           ds == [cs EXCEPT !["content"] = ContentCheck(a)]
<1>1. /\ a \in Perception /\ d \in Perception
  BY DEF Kinder, Outcomes, HasData
<1>2. /\ Outcomes(ds)
      /\ \A n \in CheckNames : n # "content" => ds[n] = cs[n]
      /\ ds["content"] = ContentCheck(a)
  BY <1>1, OtherContent
<1>3. \E y \in Blend(ds) : \A x \in Blend(cs) : x <= y
  BY KinderBlendsMore
<1> HIDE DEF ds
<1>4. ASSUME NEW h \in Gates(ds)
      PROVE  \E g \in Gates(cs) : g.cap <= h.cap
  <2>1. CASE h \in ContentGates(ContentCheck(a))
    <3>1. PICK g \in ContentGates(ContentCheck(d)) : g.cap <= h.cap
      BY <1>1, <2>1, KinderGatesCapMore
    <3>2. g \in ContentGates(cs["content"])
      BY <3>1
    <3> QED BY <3>1, <3>2, GatesAre
  <2>2. CASE h \notin ContentGates(ContentCheck(a))
    <3>1. /\ ds["uniqueness"] = cs["uniqueness"] /\ ds["recapture"] = cs["recapture"]
          /\ ds["sharpness"] = cs["sharpness"] /\ h \notin ContentGates(ds["content"])
      BY <1>2, <2>2 DEF CheckNames
    <3>2. h \in Gates(cs)
      BY <1>2, <3>1, GatesAre DEF Unreadable
    <3>3. h.cap \in Int
      BY <3>2, GateIsTyped
    <3> QED BY <3>2, <3>3
  <2> QED BY <2>1, <2>2
<1>5. v.score \in Scores(cs)
  BY VerdictIs
<1>6. PICK t \in Scores(ds) : v.score <= t
  BY <1>2, <1>3, <1>4, <1>5, MilderGatesScoreMore
<1>7. Why(ds) \subseteq Reasons
  BY <1>2, ReasonsFired
<1>8. PICK why \in MostSevere(Why(ds)) : TRUE
  BY <1>7, SomethingIsMostSevere
<1>9. VerdictOf(t, why) \in Fuse(ds) /\ VerdictOf(t, why).score = t
  <2>0. Fuse(ds) = {VerdictOf(x, r) : x \in Scores(ds), r \in MostSevere(Why(ds))}
    BY DEF Fuse, Why
  <2>1. VerdictOf(t, why) \in Fuse(ds)
    BY <1>6, <1>8, <2>0
  <2> QED BY <1>8, <2>1 DEF VerdictOf
<1>10. t \in 0..1000 /\ v.score \in 0..1000
  BY <1>2, <1>5, ScoresAre
<1>11. t >= v.score
  BY <1>6, <1>10
<1> QED BY <1>9, <1>11 DEF ds

(* A more plausible or less confident reading of the same scene is kinder.   *)
LEMMA RaisedIsKinder ==
  ASSUME NEW d \in Perception, NEW p \in 0..100, p >= d.plausibility,
         NEW c \in {d.confidence, "low"}
  PROVE  Kinder(d, [d EXCEPT !.plausibility = p, !.confidence = c])
BY DEF Kinder, Perception, SameScene

(* The same, of the verdict the pipeline reached.                            *)
LEMMA FusedKindness ==
  ASSUME CapsKeepTheirPromise, IInv, Fused, Answered,
         NEW a, Kinder(checks["content"].data, a)
  PROVE  \E v \in Fuse([checks EXCEPT !["content"] = ContentCheck(a)]) : v.score >= verdict.score
<1> DEFINE seen == checks["content"].data
<1>1. /\ Outcomes(checks) /\ verdict \in Fuse(checks)
      /\ seen \in Perception /\ checks["content"].score = ContentScore(seen)
      /\ checks["content"].available
  BY FusedChecks DEF CapsKeepTheirPromise, Answered
<1>2. checks["content"] = ContentCheck(seen)
  <2>1. Content(checks)
    BY DEF IInv, CheckInv
  <2>2. checks["content"] # NotRun
    BY <1>1, NotRunIs
  <2>3. PICK b \in Perception : checks["content"] = ContentCheck(b)
    BY <2>1, <2>2 DEF Content
  <2> QED BY <2>3, ContentCheckIs
<1> QED BY <1>1, <1>2, KinderScoresMore

(* A kinder reading of the same scene never lowers the score (fuse.py:104),  *)
(* for every weighting, threshold and cap that keeps the promise of          *)
(* CapsKeepTheirPromise.                                                     *)
THEOREM KindnessNeverHurts ==
  ASSUME CapsKeepTheirPromise
  PROVE  Spec => []KinderReadingsNeverHurt
<1>1. ASSUME IInv PROVE KinderReadingsNeverHurt
  <2> DEFINE seen == checks["content"].data
             Reading(p, c) == [seen EXCEPT !.plausibility = p, !.confidence = c]
             Better(a) == \E v \in Fuse([checks EXCEPT !["content"] = ContentCheck(a)]) :
                             v.score >= verdict.score
  <2>1. ASSUME Fused, Answered, NEW p \in {b.plausibility : b \in Perceptions},
               NEW c \in {seen.confidence, "low"}, p >= seen.plausibility
        PROVE  Better(Reading(p, c))
    <3>1. seen \in Perception
      BY <1>1, <2>1, FusedChecks DEF CapsKeepTheirPromise
    <3>2. p \in 0..100
      BY InputsAssumption DEF Perception
    <3>3. Kinder(seen, Reading(p, c))
      BY <2>1, <3>1, <3>2, RaisedIsKinder
    <3> HIDE DEF Reading
    <3> QED BY <1>1, <2>1, <3>3, FusedKindness
  <2> HIDE DEF Better
  <2> QED BY <2>1, Zenon DEF KinderReadingsNeverHurt, Better
<1> QED BY <1>1, Invariant, PTL
=============================================================================
