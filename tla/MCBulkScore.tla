---------------------------- MODULE MCBulkScore ----------------------------
(* Four requests over a registry of two, so that the last ones evict, while    *)
(* an older job still runs and at the same time as each other.  b1 has two     *)
(* rows, scores them side by side and is polled; the others end early.         *)
EXTENDS BulkScore, TLC

CONSTANTS b1, b2, b3, b4, x1, x2, x3

MCRowsOf == [j \in Jobs |-> IF j = b1 THEN {x1, x2} ELSE {x3}]

MCLookup == [j \in Jobs |-> IF j = b1 THEN {"known", "raises"} ELSE {"unknown"}]

Interchangeable == Permutations({b2, b3, b4}) \cup Permutations({x1, x2})
=============================================================================
