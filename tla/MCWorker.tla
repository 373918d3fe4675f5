------------------------------ MODULE MCWorker ------------------------------
(***************************************************************************)
(* Instances of Worker for TLC: j1 and j2 carry the same image, j3 another *)
(* one, and a fourth job, when present, has a payload without image bytes. *)
(***************************************************************************)
EXTENDS Worker

CONSTANTS j1, j2, j3, bad, img1, img2, o1, o2

MCImageOf == [j \in Jobs |-> CASE j \in {j1, j2} -> img1
                              [] j = j3 -> img2
                              [] OTHER -> NoImage]

\* j1 and j2 are distinct opportunities of distinct reps; j3 has none
MCOpportunityOf == [j \in Jobs |-> CASE j = j1 -> o1
                                    [] j = j2 -> o2
                                    [] OTHER -> NoOpportunity]
=============================================================================
