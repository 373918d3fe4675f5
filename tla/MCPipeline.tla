----------------------------- MODULE MCPipeline -----------------------------
(* Instances of Pipeline: the values sit on, just below and just above every  *)
(* threshold, so that each gate and each ramp is met from both sides.         *)
EXTENDS Pipeline

(* ScoringConfig() of scoring_config.py, scores and caps in tenths. *)
DefaultScoring ==
  [weights    |-> [content |-> 50, sharpness |-> 15, uniqueness |-> 25, exif |-> 10],
   thresholds |-> [blur_floor |-> 40, sharp_ok |-> 150,
                   dup_exact |-> 0, dup_near |-> 6, unique_distance |-> 12,
                   plausibility_gate |-> 30, visit_context_gate |-> 35,
                   no_visit_suspect_gate |-> 15],
   caps       |-> [duplicate |-> 150, near_duplicate |-> 550, screen_recapture |-> 200,
                   designed_graphic |-> 200, no_people |-> 300, low_plausibility |-> 450,
                   weak_visit_context |-> 550, not_a_visit |-> 200, too_blurred |-> 550,
                   no_content |-> 690],
   bands      |-> [clear |-> 700, doubtful |-> 400]]

(* The defaults are a configuration the theorems of PipelineProofs speak of. *)
ASSUME CapsKeepTheirPromise

Sharp == [header |-> TRUE, pil |-> TRUE, cv2 |-> TRUE, gray |-> TRUE, exif |-> "both",
          variance |-> 150, distance |-> None, screen |-> FALSE]

(* Every free-check outcome: blurred, ramp, sharp; new, duplicate, near, ramp. *)
EveryPhoto ==
     {[Sharp EXCEPT !.exif = e, !.variance = v, !.distance = d, !.screen = s] :
        e \in {"absent", "time"}, v \in {40, 41, 150}, d \in {None, 0, 6, 7, 12},
        s \in BOOLEAN}
  \cup {[Sharp EXCEPT !.header = FALSE, !.pil = FALSE, !.gray = FALSE],  \* not an image
        [Sharp EXCEPT !.pil = FALSE, !.gray = FALSE],    \* a truncated one
        [Sharp EXCEPT !.pil = FALSE, !.exif = "bare"],   \* which OpenCV still reads
        [Sharp EXCEPT !.gray = FALSE, !.screen = TRUE]}  \* beyond the pixel budget
  \cup {[Sharp EXCEPT !.cv2 = FALSE, !.distance = d, !.screen = s] :  \* no OpenCV
        d \in {None, 0, 6}, s \in BOOLEAN}

(* Around every threshold where the meeting gates read the answer; with a few *)
(* judgments where the photo is empty or flagged and they do not.             *)
EveryPerception ==
  LET Answer(n, f, p, v, c) ==
        [people |-> n, screen |-> f[1], graphic |-> f[2], plausibility |-> p, visit |-> v,
         confidence |-> c]
      Plain == <<FALSE, FALSE>>
      Flags == {<<TRUE, FALSE>>, <<FALSE, TRUE>>}
  IN      {Answer(n, Plain, p, v, c) : n \in {1, 2}, p \in {29, 30, 90},
             v \in {None, 14, 15, 34, 35, 90}, c \in {"high", "low"}}
     \cup {Answer(0, f, p, v, "high") : f \in Flags \cup {Plain}, p \in {29, 90}, v \in {None, 90}}
     \cup {Answer(2, f, p, v, "low") : f \in Flags, p \in {29, 90}, v \in {None, 90}}

NoJudgments == {}

(* An answer that would clear any photo, and one that would fail any. *)
TwoJudgments ==
  {[plausibility |-> 100, visit |-> 100, confidence |-> "high"],
   [plausibility |-> 20, visit |-> None, confidence |-> "low"]}
=============================================================================
