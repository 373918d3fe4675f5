----------------------------- MODULE RateLimiter -----------------------------
(***************************************************************************)
(* api/ratelimit.py: the fixed-window counter kept in the memory of one    *)
(* API process.  A table of windows is a function from <<client, tier>> to *)
(* [start, count]; time is in whole seconds.                               *)
(***************************************************************************)
EXTENDS Integers, FiniteSets

CONSTANTS
    Limit,           \* [tier -> requests per window], 0 for no limit
    Window,          \* window_seconds
    PruneThreshold   \* _PRUNE_THRESHOLD

ASSUME RateLimiterAssumption ==
    /\ Window \in Nat \ {0}
    /\ PruneThreshold \in Nat
    /\ Limit \in [{"compute", "general"} -> Nat]

(* faulty variant: a window that still counts on its last edge *)
Expired_OneLate(w, now) == now - w.start > Window

Expired(w, now) == now - w.start >= Window

(* faulty variant: pruning forgets the windows still in use *)
Prune_All(windows, now) == <<>>

Prune(windows, now) ==
    [k \in {k \in DOMAIN windows : ~Expired(windows[k], now)} |-> windows[k]]

(* The windows a check looks at: the table is pruned only above the        *)
(* threshold.                                                              *)
Swept(windows, now) ==
    IF Cardinality(DOMAIN windows) > PruneThreshold
    THEN Prune(windows, now) ELSE windows

(* The key's window after it has counted one more request.                 *)
Counted(windows, key, now) ==
    IF key \notin DOMAIN windows \/ Expired(windows[key], now)
    THEN [start |-> now, count |-> 1]
    ELSE [windows[key] EXCEPT !.count = @ + 1]

(* int(window - (t - start)) + 1, clamped to 1..window                     *)
RetryAfter(w, now) ==
    LET left == Window - (now - w.start) + 1
    IN  IF left < 1 THEN 1 ELSE IF left > Window THEN Window ELSE left

(* RateLimiter.check: the new table and the answer.                        *)
Check(windows, key, now) ==
    LET kept == Swept(windows, now)
        w    == Counted(kept, key, now)
    IN  IF Limit[key[2]] = 0
        THEN [windows |-> windows, allowed |-> TRUE, retry |-> 0]
        ELSE [windows |-> [k \in DOMAIN kept \cup {key} |->
                              IF k = key THEN w ELSE kept[k]],
              allowed |-> w.count <= Limit[key[2]],
              retry   |-> IF w.count <= Limit[key[2]]
                          THEN 0 ELSE RetryAfter(w, now)]

(* The middleware: the compute tier first, the general tier only if that   *)
(* one allows the request.  "by" names the tier that refused it.           *)
Admit(windows, client, compute, now) ==
    LET says(by, c) == [by |-> by, windows |-> c.windows, retry |-> c.retry]
        first  == IF compute THEN Check(windows, <<client, "compute">>, now)
                  ELSE [windows |-> windows, allowed |-> TRUE, retry |-> 0]
        second == Check(first.windows, <<client, "general">>, now)
    IN  IF ~first.allowed THEN says("compute", first)
        ELSE IF ~second.allowed THEN says("general", second)
        ELSE says("none", second)
==============================================================================
