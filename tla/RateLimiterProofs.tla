-------------------------- MODULE RateLimiterProofs --------------------------
(***************************************************************************)
(* What one call of RateLimiter.check guarantees, for every limit, window, *)
(* threshold, table and clock that does not step back, and what the table  *)
(* says of all the requests that a tier has counted.                       *)
(***************************************************************************)
EXTENDS RateLimiter, NumberLemmas, FiniteSetTheorems

(* A window a check at time now can meet: it has been counted at least once *)
(* and did not start in the future.                                        *)
Windows(now) == {w \in [start : Int, count : Nat] : w.start <= now /\ w.count > 0}

(* A table of windows for some keys, a key being <<client, tier>>.         *)
IsTable(windows, now) ==
    /\ windows = [k \in DOMAIN windows |-> windows[k]]
    /\ \A k \in DOMAIN windows : windows[k] \in Windows(now)

(* Counting one more request gives a window again.                         *)
LEMMA CountedIsAWindow ==
  ASSUME NEW now \in Int, NEW windows, IsTable(windows, now), NEW key
  PROVE  Counted(windows, key, now) \in Windows(now)
<1>1. CASE key \notin DOMAIN windows \/ Expired(windows[key], now)
  BY <1>1 DEF Counted, Windows
<1>2. CASE ~(key \notin DOMAIN windows \/ Expired(windows[key], now))
  <2>1. windows[key] \in Windows(now)
    BY <1>2 DEF IsTable
  <2>2. Counted(windows, key, now) = [windows[key] EXCEPT !.count = @ + 1]
    BY <1>2 DEF Counted
  <2> QED
    BY <2>1, <2>2 DEF Windows
<1> QED
  BY <1>1, <1>2

(* Pruning, which runs in the middle of a check, keeps every window that   *)
(* still counts and the count it has reached.                              *)
THEOREM PruneKeepsTheLive ==
  ASSUME NEW now \in Int, NEW windows, IsTable(windows, now)
  PROVE  /\ IsTable(Swept(windows, now), now)
         /\ \A k \in DOMAIN windows : ~Expired(windows[k], now) =>
               /\ k \in DOMAIN Swept(windows, now)
               /\ Swept(windows, now)[k] = windows[k]
<1>1. CASE Cardinality(DOMAIN windows) > PruneThreshold
  <2>1. Swept(windows, now) = Prune(windows, now)
    BY <1>1 DEF Swept
  <2> QED
    BY <2>1 DEF Prune, IsTable
<1>2. CASE ~(Cardinality(DOMAIN windows) > PruneThreshold)
  BY <1>2 DEF Swept
<1> QED
  BY <1>1, <1>2

(* The wait a refused client is told is a whole number of seconds from 1   *)
(* to the window (the Retry-After header).                                 *)
THEOREM RetryIsInTheWindow ==
  ASSUME NEW now \in Int, NEW w \in Windows(now)
  PROVE  RetryAfter(w, now) \in 1..Window
BY RateLimiterAssumption DEF RetryAfter, Windows

(* A client that waits as long as it was told finds its window over: the   *)
(* rounding is never a second short.                                       *)
THEOREM RetryIsEnough ==
  ASSUME NEW now \in Int, NEW w \in Windows(now), ~Expired(w, now)
  PROVE  Expired(w, now + RetryAfter(w, now))
BY RateLimiterAssumption DEF RetryAfter, Windows, Expired

(* A check lets a request pass only while its window holds at most the     *)
(* limit, refuses it only when the window holds more and tells it a wait   *)
(* that is long enough, and leaves every live window of the others alone.  *)
THEOREM CheckIsFair ==
  ASSUME NEW now \in Int, NEW windows, IsTable(windows, now),
         NEW client, NEW tier \in {"compute", "general"}, Limit[tier] # 0
  PROVE  LET key == <<client, tier>>
             c   == Check(windows, key, now)
         IN  /\ IsTable(c.windows, now)
             /\ key \in DOMAIN c.windows
             /\ c.allowed <=> c.windows[key].count <= Limit[tier]
             /\ ~c.allowed => /\ c.retry \in 1..Window
                              /\ Expired(c.windows[key], now + c.retry)
             /\ \A k \in DOMAIN windows \ {key} : ~Expired(windows[k], now) =>
                   k \in DOMAIN c.windows /\ c.windows[k] = windows[k]
<1> DEFINE key  == <<client, tier>>
           c    == Check(windows, key, now)
           kept == Swept(windows, now)
           w    == Counted(kept, key, now)
<1>1. /\ IsTable(kept, now)
      /\ \A k \in DOMAIN windows : ~Expired(windows[k], now) =>
            k \in DOMAIN kept /\ kept[k] = windows[k]
  BY PruneKeepsTheLive
<1>2. w \in Windows(now)
  BY <1>1, CountedIsAWindow
<1>3. key[2] = tier
  OBVIOUS
<1>4. /\ c.windows = [k \in DOMAIN kept \cup {key} |-> IF k = key THEN w ELSE kept[k]]
      /\ c.allowed = (w.count <= Limit[tier])
      /\ c.retry = IF w.count <= Limit[tier] THEN 0 ELSE RetryAfter(w, now)
  BY <1>3 DEF Check
<1> HIDE DEF kept, w, key, c
<1>5. IsTable(c.windows, now)
  BY <1>1, <1>2, <1>4 DEF IsTable
<1>6. key \in DOMAIN c.windows /\ c.windows[key] = w
  BY <1>4
<1>7. ~Expired(w, now)
  <2>1. CASE key \notin DOMAIN kept \/ Expired(kept[key], now)
    BY <2>1, RateLimiterAssumption DEF w, Counted, Expired
  <2>2. CASE ~(key \notin DOMAIN kept \/ Expired(kept[key], now))
    <3>1. kept[key] \in [start : Int, count : Nat]
      BY <1>1, <2>2 DEF IsTable, Windows
    <3> QED
      BY <2>2, <3>1 DEF w, Counted, Expired
  <2> QED
    BY <2>1, <2>2
<1>8. ~c.allowed => c.retry \in 1..Window /\ Expired(c.windows[key], now + c.retry)
  BY <1>2, <1>4, <1>6, <1>7, RetryIsInTheWindow, RetryIsEnough
<1>9. \A k \in DOMAIN windows \ {key} : ~Expired(windows[k], now) =>
         k \in DOMAIN c.windows /\ c.windows[k] = windows[k]
  BY <1>1, <1>4
<1> QED
  BY <1>4, <1>5, <1>6, <1>8, <1>9 DEF c, key

(* ---- a window and the requests it stands for --------------------------- *)

(* Requests, each with the tick it came at, from a tick on, and up to one.  *)
From(S, a)    == {h \in S : a <= h.tick}
Span(S, a, b) == {h \in S : a <= h.tick /\ h.tick < b}

(* The requests a tier has counted for a client so far, C, and those of    *)
(* them it let pass, P.                                                    *)
Counting(C, P, now) ==
    /\ IsFiniteSet(C) /\ P \subseteq C
    /\ \A h \in C : h.tick \in Int /\ h.tick <= now

(* The window w stands for them: it started on one of them, every later    *)
(* one is in it, it let at most the limit pass, and so did whatever was    *)
(* there in the window's length before.                                    *)
Stands(w, C, P, limit, now) ==
    /\ w \in Windows(now)
    /\ \A h \in C : h.tick < w.start + Window
    /\ w.count <= Cardinality(From(C, w.start))
    /\ Cardinality(From(P, w.start)) <= w.count
    /\ Cardinality(From(P, w.start)) <= limit
    /\ Cardinality(Span(P, w.start - Window + 1, w.start)) <= limit

(* No window is needed for them: all are over, and the last Window seconds *)
(* let at most the limit pass.                                             *)
Rested(C, P, limit, now) ==
    /\ \A h \in C : h.tick < now
    /\ Cardinality(From(P, now - Window + 1)) <= limit

Slides(P, limit) == \A t \in Int : Cardinality(Span(P, t, t + Window)) <= 2 * limit

(* Subsets of a finite set have fewer elements, and all have a number.     *)
LEMMA Fewer ==
  ASSUME NEW T, IsFiniteSet(T), NEW S, S \subseteq T
  PROVE  /\ IsFiniteSet(S) /\ Cardinality(S) \in Nat /\ Cardinality(T) \in Nat
         /\ Cardinality(S) <= Cardinality(T)
BY FS_Subset, FS_CardinalityType

(* One more request.                                                       *)
LEMMA OneMore ==
  ASSUME NEW T, IsFiniteSet(T), NEW h, h \notin T
  PROVE  /\ IsFiniteSet(T \cup {h}) /\ Cardinality(T \cup {h}) = Cardinality(T) + 1
         /\ Cardinality(T) \in Nat
BY FS_AddElement, FS_CardinalityType

(* Two parts have no more elements than their numbers together.            *)
LEMMA TwoParts ==
  ASSUME NEW A, IsFiniteSet(A), NEW B, IsFiniteSet(B), NEW S, S \subseteq A \cup B
  PROVE  /\ Cardinality(S) <= Cardinality(A) + Cardinality(B)
         /\ Cardinality(S) \in Nat /\ Cardinality(A) \in Nat /\ Cardinality(B) \in Nat
<1>1. /\ IsFiniteSet(A \cup B) /\ Cardinality(A \cap B) \in Nat
      /\ Cardinality(A \cup B) = Cardinality(A) + Cardinality(B) - Cardinality(A \cap B)
  BY FS_Union, FS_Intersection, FS_CardinalityType
<1>2. PICK a, b, c, d : /\ a = Cardinality(A) /\ b = Cardinality(B) /\ c = Cardinality(A \cap B)
                        /\ d = Cardinality(A \cup B)
  OBVIOUS
<1>3. a \in Nat /\ b \in Nat /\ c \in Nat /\ d = a + b - c
  BY <1>1, <1>2, FS_CardinalityType
<1>4. PICK s : s = Cardinality(S)
  OBVIOUS
<1>5. s \in Nat /\ s <= d
  BY <1>1, <1>2, <1>4, Fewer
<1> QED
  BY <1>2, <1>3, <1>4, <1>5

(* A window that is over is no longer needed.                              *)
LEMMA ExpiredRests ==
  ASSUME NEW now \in Int, NEW limit \in Nat, NEW C, NEW P, Counting(C, P, now), NEW w,
         Stands(w, C, P, limit, now), Expired(w, now)
  PROVE  Rested(C, P, limit, now)
<1>1. w.start \in Int /\ w.start + Window <= now /\ Window \in Nat
  BY RateLimiterAssumption DEF Stands, Windows, Expired
<1>2. \A h \in C : h.tick < now
  BY <1>1 DEF Stands, Counting
<1>3. From(P, now - Window + 1) \subseteq From(P, w.start)
  BY <1>1 DEF From, Counting
<1>4. IsFiniteSet(From(P, w.start))
  BY Fewer DEF From, Counting
<1>5. PICK a, b : a = Cardinality(From(P, now - Window + 1)) /\ b = Cardinality(From(P, w.start))
  OBVIOUS
<1>6. a \in Nat /\ b \in Nat /\ a <= b /\ b <= limit
  BY <1>3, <1>4, <1>5, Fewer DEF Stands
<1> QED
  BY <1>2, <1>5, <1>6 DEF Rested

(* A later look at a rested tier.                                          *)
LEMMA RestsOn ==
  ASSUME NEW now \in Int, NEW limit \in Nat, NEW C, NEW P, Counting(C, P, now),
         Rested(C, P, limit, now)
  PROVE  Rested(C, P, limit, now + 1) /\ Counting(C, P, now + 1)
<1>1. \A h \in C : h.tick \in Int /\ h.tick < now + 1 /\ h.tick <= now + 1
  BY DEF Counting
<1>2. From(P, (now + 1) - Window + 1) \subseteq From(P, now - Window + 1)
  BY <1>1, RateLimiterAssumption DEF From, Counting
<1>3. IsFiniteSet(From(P, now - Window + 1))
  BY Fewer DEF From, Counting
<1>4. PICK a, b : /\ a = Cardinality(From(P, (now + 1) - Window + 1))
                  /\ b = Cardinality(From(P, now - Window + 1))
  OBVIOUS
<1>5. a \in Nat /\ b \in Nat /\ a <= b /\ b <= limit
  BY <1>2, <1>3, <1>4, Fewer DEF Rested
<1> QED
  BY <1>1, <1>4, <1>5 DEF Rested, Counting

(* And at a window.                                                        *)
LEMMA StandsOn ==
  ASSUME NEW now \in Int, NEW limit \in Nat, NEW C, NEW P, NEW w, Stands(w, C, P, limit, now)
  PROVE  Stands(w, C, P, limit, now + 1)
BY DEF Stands, Windows

(* The request a rested tier counts next opens a window.                   *)
LEMMA Opens ==
  ASSUME NEW now \in Int, NEW limit \in Nat, limit > 0, NEW C, NEW P, Counting(C, P, now),
         Rested(C, P, limit, now), NEW h, h \notin C, h.tick = now
  PROVE  LET w == [start |-> now, count |-> 1] IN
         Stands(w, C \cup {h}, P \cup {h}, limit, now) /\ Counting(C \cup {h}, P \cup {h}, now)
<1>1. PICK w, D, Q : /\ w = [start |-> now, count |-> 1] /\ D = C \cup {h} /\ Q = P \cup {h}
  OBVIOUS
<1>2. w \in Windows(now) /\ w.start = now /\ w.count = 1
  BY <1>1 DEF Windows
<1>3. Counting(D, Q, now)
  BY <1>1, FS_AddElement DEF Counting
<1>4. \A g \in D : g.tick < now + Window
  <2>1. Window \in Nat /\ Window > 0
    BY RateLimiterAssumption
  <2> QED
    BY <1>1, <2>1 DEF Counting
<1>5. From(D, now) = {h} /\ From(Q, now) = {h}
  BY <1>1 DEF From, Rested, Counting
<1>6. Cardinality({h}) = 1
  BY FS_Singleton
<1>7. Cardinality(Span(Q, now - Window + 1, now)) <= limit
  <2>1. Span(Q, now - Window + 1, now) \subseteq From(P, now - Window + 1)
    BY <1>1 DEF Span, From
  <2>2. IsFiniteSet(From(P, now - Window + 1))
    BY Fewer DEF From, Counting
  <2>3. PICK a, b : /\ a = Cardinality(Span(Q, now - Window + 1, now))
                    /\ b = Cardinality(From(P, now - Window + 1))
    OBVIOUS
  <2>4. a \in Nat /\ b \in Nat /\ a <= b /\ b <= limit
    BY <2>1, <2>2, <2>3, Fewer DEF Rested
  <2> QED
    BY <2>3, <2>4
<1>8. Stands(w, D, Q, limit, now)
  BY <1>2, <1>4, <1>5, <1>6, <1>7 DEF Stands
<1> QED
  BY <1>1, <1>3, <1>8

(* A live window counts the next one, and lets it pass up to the limit.    *)
LEMMA CountsOn ==
  ASSUME NEW now \in Int, NEW limit \in Nat, NEW C, NEW P, Counting(C, P, now), NEW w,
         Stands(w, C, P, limit, now), ~Expired(w, now), NEW h, h \notin C, h.tick = now,
         NEW Q, Q = IF w.count + 1 <= limit THEN P \cup {h} ELSE P
  PROVE  /\ Stands([w EXCEPT !.count = @ + 1], C \cup {h}, Q, limit, now)
         /\ Counting(C \cup {h}, Q, now)
<1>1. PICK v, D : v = [w EXCEPT !.count = @ + 1] /\ D = C \cup {h}
  OBVIOUS
<1>2. /\ w.start \in Int /\ w.count \in Nat /\ w.start <= now /\ now < w.start + Window
      /\ v \in Windows(now) /\ v.start = w.start /\ v.count = w.count + 1
  <2>1. w \in [start : Int, count : Nat] /\ w.start <= now /\ w.count > 0
    BY DEF Stands, Windows
  <2>2. now < w.start + Window
    BY <2>1, RateLimiterAssumption DEF Expired
  <2> QED
    BY <1>1, <2>1, <2>2 DEF Windows
<1>3. Counting(D, Q, now)
  BY <1>1, FS_AddElement DEF Counting
<1>4. \A g \in D : g.tick < v.start + Window
  BY <1>1, <1>2 DEF Stands
<1>5. IsFiniteSet(From(C, w.start)) /\ IsFiniteSet(From(P, w.start))
  BY Fewer DEF From, Counting
<1>6. From(D, w.start) = From(C, w.start) \cup {h} /\ h \notin From(C, w.start)
  BY <1>1, <1>2 DEF From
<1>7. PICK c, d, p, r : /\ c = Cardinality(From(C, w.start)) /\ d = Cardinality(From(D, w.start))
                        /\ p = Cardinality(From(P, w.start)) /\ r = Cardinality(From(Q, w.start))
  OBVIOUS
<1>8. c \in Nat /\ d = c + 1 /\ w.count <= c
  BY <1>5, <1>6, <1>7, OneMore DEF Stands
<1>9. p \in Nat /\ p <= w.count /\ p <= limit
  BY <1>5, <1>7, FS_CardinalityType DEF Stands
<1>10. r \in Nat /\ r <= w.count + 1 /\ r <= limit
  <2>1. CASE w.count + 1 <= limit
    <3>1. From(Q, w.start) = From(P, w.start) \cup {h} /\ h \notin From(P, w.start)
      BY <1>2, <2>1 DEF From, Counting
    <3>2. r = p + 1
      BY <1>5, <1>7, <3>1, OneMore
    <3> QED
      BY <1>2, <1>9, <2>1, <3>2
  <2>2. CASE ~(w.count + 1 <= limit)
    <3>1. r = p
      BY <1>7, <2>2
    <3> QED
      BY <1>2, <1>9, <3>1
  <2> QED
    BY <2>1, <2>2
<1>11. Span(Q, w.start - Window + 1, w.start) = Span(P, w.start - Window + 1, w.start)
  BY <1>2 DEF Span
<1>12. Stands(v, D, Q, limit, now)
  BY <1>2, <1>4, <1>7, <1>8, <1>10, <1>11 DEF Stands
<1> QED
  BY <1>1, <1>3, <1>12

(* What a tier lets pass in any Window seconds is at most twice its limit. *)
LEMMA SlidesOn ==
  ASSUME NEW now \in Int, NEW limit \in Nat, NEW C, NEW P, NEW Q, Counting(C, Q, now), NEW w,
         Stands(w, C, Q, limit, now), Slides(P, limit), NEW h, h.tick = now,
         Q \in {P, P \cup {h}}
  PROVE  Slides(Q, limit)
<1> SUFFICES ASSUME NEW t \in Int
             PROVE  Cardinality(Span(Q, t, t + Window)) <= 2 * limit
  BY DEF Slides
<1>1. w.start \in Int /\ w.start <= now /\ Window \in Nat
  BY RateLimiterAssumption DEF Stands, Windows
<1>2. CASE t <= now /\ now < t + Window
  <2>1. PICK A, B, S : /\ A = From(Q, w.start) /\ B = Span(Q, w.start - Window + 1, w.start)
                       /\ S = Span(Q, t, t + Window)
    OBVIOUS
  <2>2. S \subseteq A \cup B
    BY <1>1, <1>2, <2>1 DEF Span, From, Counting
  <2>3. IsFiniteSet(A) /\ IsFiniteSet(B)
    BY <2>1, Fewer DEF From, Span, Counting
  <2>4. PICK x, y, z : x = Cardinality(S) /\ y = Cardinality(A) /\ z = Cardinality(B)
    OBVIOUS
  <2>5. x \in Nat /\ y \in Nat /\ z \in Nat /\ x <= y + z
    BY <2>2, <2>3, <2>4, TwoParts
  <2>6. y <= limit /\ z <= limit
    BY <2>1, <2>4 DEF Stands
  <2> QED
    BY <2>1, <2>4, <2>5, <2>6
<1>3. CASE ~(t <= now /\ now < t + Window)
  <2>1. Span(Q, t, t + Window) = Span(P, t, t + Window)
    BY <1>3 DEF Span
  <2> QED
    BY <2>1 DEF Slides
<1> QED
  BY <1>2, <1>3

(* ---- tables of windows ------------------------------------------------- *)

(* What a table says of a client at a tier.                                *)
Records(windows, k, C, P, limit, now) ==
    /\ k \in DOMAIN windows => Stands(windows[k], C, P, limit, now)
    /\ k \notin DOMAIN windows => Rested(C, P, limit, now)

(* Sweeping the table leaves it as true as it was.                         *)
LEMMA SweepRecords ==
  ASSUME NEW now \in Int, NEW limit \in Nat, NEW C, NEW P, Counting(C, P, now), NEW windows,
         IsTable(windows, now), NEW k, Records(windows, k, C, P, limit, now)
  PROVE  /\ IsTable(Swept(windows, now), now)
         /\ Records(Swept(windows, now), k, C, P, limit, now)
<1>1. PICK s : s = Swept(windows, now)
  OBVIOUS
<1>2. /\ IsTable(s, now)
      /\ k \in DOMAIN windows /\ ~Expired(windows[k], now) => k \in DOMAIN s /\ s[k] = windows[k]
  BY <1>1, PruneKeepsTheLive
<1>3. k \in DOMAIN s => k \in DOMAIN windows /\ s[k] = windows[k]
  BY <1>1 DEF Swept, Prune
<1>4. CASE k \in DOMAIN windows /\ k \notin DOMAIN s
  <2>1. PICK w : w = windows[k]
    OBVIOUS
  <2>2. Stands(w, C, P, limit, now) /\ Expired(w, now)
    BY <1>2, <1>4, <2>1 DEF Records
  <2>3. Rested(C, P, limit, now)
    BY <2>2, ExpiredRests
  <2> QED
    BY <1>1, <1>2, <1>4, <2>3 DEF Records
<1>5. CASE ~(k \in DOMAIN windows /\ k \notin DOMAIN s)
  BY <1>1, <1>2, <1>3, <1>5 DEF Records
<1> QED
  BY <1>4, <1>5

(* One check counts its request for its own client and tier...             *)
LEMMA CheckRecords ==
  ASSUME NEW now \in Int, NEW client, NEW tier \in {"compute", "general"}, Limit[tier] # 0,
         NEW C, NEW P, Counting(C, P, now), NEW windows, IsTable(windows, now),
         Records(windows, <<client, tier>>, C, P, Limit[tier], now),
         NEW h, h \notin C, h.tick = now,
         NEW Q, Q = IF Check(windows, <<client, tier>>, now).allowed THEN P \cup {h} ELSE P
  PROVE  LET c == Check(windows, <<client, tier>>, now) IN
         /\ IsTable(c.windows, now)
         /\ Counting(C \cup {h}, Q, now)
         /\ <<client, tier>> \in DOMAIN c.windows
         /\ Stands(c.windows[<<client, tier>>], C \cup {h}, Q, Limit[tier], now)
         /\ ~Expired(c.windows[<<client, tier>>], now)
         /\ ~c.allowed => c.windows[<<client, tier>>].count > Limit[tier]
<1>1. PICK key, c, kept, w, limit :
         /\ key = <<client, tier>> /\ c = Check(windows, key, now) /\ kept = Swept(windows, now)
         /\ w = Counted(kept, key, now) /\ limit = Limit[tier]
  OBVIOUS
<1>2. limit \in Nat /\ limit > 0 /\ Window \in Nat /\ Window > 0
  BY <1>1, RateLimiterAssumption
<1>3. /\ c.windows = [k \in DOMAIN kept \cup {key} |-> IF k = key THEN w ELSE kept[k]]
      /\ c.allowed <=> w.count <= limit
  <2>1. key[2] = tier
    BY <1>1
  <2> QED
    BY <1>1, <2>1 DEF Check
<1>4. IsTable(c.windows, now)
  BY <1>1, CheckIsFair
<1>5. key \in DOMAIN c.windows /\ c.windows[key] = w
  BY <1>3
<1>6. IsTable(kept, now) /\ Records(kept, key, C, P, limit, now)
  BY <1>1, <1>2, SweepRecords
<1>7. CASE key \notin DOMAIN kept \/ Expired(kept[key], now)
  <2>1. Rested(C, P, limit, now)
    BY <1>2, <1>6, <1>7, ExpiredRests DEF Records
  <2>2. w = [start |-> now, count |-> 1]
    BY <1>1, <1>7 DEF Counted
  <2>3. w.count = 1 /\ w.start = now
    BY <2>2
  <2>4. c.allowed
    BY <1>2, <1>3, <2>3
  <2>5. Q = P \cup {h}
    BY <1>1, <2>4
  <2>6. Stands(w, C \cup {h}, Q, limit, now) /\ Counting(C \cup {h}, Q, now)
    BY <1>2, <2>1, <2>2, <2>5, Opens
  <2>7. ~Expired(w, now)
    BY <1>2, <2>3 DEF Expired
  <2> QED
    BY <1>1, <1>4, <1>5, <2>4, <2>6, <2>7
<1>8. CASE ~(key \notin DOMAIN kept \/ Expired(kept[key], now))
  <2>1. PICK v : v = kept[key]
    OBVIOUS
  <2>2. Stands(v, C, P, limit, now) /\ ~Expired(v, now)
    BY <1>6, <1>8, <2>1 DEF Records
  <2>3. w = [v EXCEPT !.count = @ + 1]
    BY <1>1, <1>8, <2>1 DEF Counted
  <2>4. w.count = v.count + 1 /\ w.start = v.start /\ v.count \in Nat
    <3>1. v \in [start : Int, count : Nat]
      BY <2>2 DEF Stands, Windows
    <3> QED
      BY <2>3, <3>1
  <2>5. Q = IF v.count + 1 <= limit THEN P \cup {h} ELSE P
    BY <1>1, <1>3, <2>4
  <2>6. Stands(w, C \cup {h}, Q, limit, now) /\ Counting(C \cup {h}, Q, now)
    BY <1>2, <2>2, <2>3, <2>5, CountsOn
  <2>7. ~Expired(w, now)
    BY <2>2, <2>4 DEF Expired
  <2>8. ~c.allowed => w.count > limit
    BY <1>2, <1>3, <2>4
  <2> QED
    BY <1>1, <1>4, <1>5, <2>6, <2>7, <2>8
<1> QED
  BY <1>7, <1>8

(* ... and leaves every other one as it was.                               *)
LEMMA CheckSpares ==
  ASSUME NEW now \in Int, NEW limit \in Nat, NEW C, NEW P, Counting(C, P, now), NEW windows,
         IsTable(windows, now), NEW k, Records(windows, k, C, P, limit, now),
         NEW client, NEW tier \in {"compute", "general"}, k # <<client, tier>>
  PROVE  LET c == Check(windows, <<client, tier>>, now) IN
         IsTable(c.windows, now) /\ Records(c.windows, k, C, P, limit, now)
<1>1. PICK key, c, kept : /\ key = <<client, tier>> /\ c = Check(windows, key, now)
                          /\ kept = Swept(windows, now)
  OBVIOUS
<1>2. CASE Limit[tier] = 0
  <2>1. c.windows = windows
    BY <1>1, <1>2 DEF Check
  <2> QED
    BY <1>1, <2>1
<1>3. CASE Limit[tier] # 0
  <2>1. IsTable(c.windows, now)
    BY <1>1, <1>3, CheckIsFair
  <2>2. PICK w : w = Counted(kept, key, now)
    OBVIOUS
  <2>3. c.windows = [i \in DOMAIN kept \cup {key} |-> IF i = key THEN w ELSE kept[i]]
    BY <1>1, <1>3, <2>2 DEF Check
  <2>4. /\ k \in DOMAIN c.windows <=> k \in DOMAIN kept
        /\ k \in DOMAIN kept => c.windows[k] = kept[k]
    BY <1>1, <2>3
  <2>5. Records(kept, k, C, P, limit, now)
    BY <1>1, SweepRecords
  <2> QED
    BY <1>1, <2>1, <2>4, <2>5 DEF Records
<1> QED
  BY <1>2, <1>3

(* A window above the limit means more than the limit in Window seconds.   *)
LEMMA AboveLimit ==
  ASSUME NEW now \in Int, NEW limit \in Nat, NEW C, NEW P, Counting(C, P, now), NEW w,
         Stands(w, C, P, limit, now), ~Expired(w, now), w.count > limit
  PROVE  Cardinality(Span(C, now - Window + 1, now + 1)) > limit
<1>1. w.start \in Int /\ w.count \in Nat /\ now < w.start + Window /\ Window \in Nat
  <2>1. w \in [start : Int, count : Nat]
    BY DEF Stands, Windows
  <2> QED
    BY <2>1, RateLimiterAssumption DEF Expired
<1>2. PICK A, B : A = From(C, w.start) /\ B = Span(C, now - Window + 1, now + 1)
  OBVIOUS
<1>3. A \subseteq B
  BY <1>1, <1>2 DEF From, Span, Counting
<1>4. IsFiniteSet(B)
  BY <1>2, Fewer DEF Span, Counting
<1>5. PICK x, y : x = Cardinality(A) /\ y = Cardinality(B)
  OBVIOUS
<1>6. x \in Nat /\ y \in Nat /\ x <= y
  BY <1>3, <1>4, <1>5, Fewer
<1>7. w.count <= x
  BY <1>2, <1>5 DEF Stands
<1> QED
  BY <1>1, <1>2, <1>5, <1>6, <1>7

(* A check leaves a table, and refuses only where there is a limit.        *)
LEMMA CheckTable ==
  ASSUME NEW now \in Int, NEW windows, IsTable(windows, now),
         NEW client, NEW tier \in {"compute", "general"}
  PROVE  LET c == Check(windows, <<client, tier>>, now) IN
         IsTable(c.windows, now) /\ (~c.allowed => Limit[tier] # 0)
<1>1. CASE Limit[tier] = 0
  BY <1>1 DEF Check
<1>2. CASE Limit[tier] # 0
  BY <1>2, CheckIsFair
<1> QED
  BY <1>1, <1>2

(* A window that a check opens starts at its time.                         *)
LEMMA CheckStarts ==
  ASSUME NEW now \in Int, NEW windows, IsTable(windows, now), NEW first \in Int, first <= now,
         \A k \in DOMAIN windows : windows[k].start >= first,
         NEW client, NEW tier \in {"compute", "general"},
         NEW c, c = Check(windows, <<client, tier>>, now)
  PROVE  \A k \in DOMAIN c.windows : c.windows[k].start >= first
<1>1. CASE Limit[tier] = 0
  BY <1>1 DEF Check
<1>2. CASE Limit[tier] # 0
  <2>1. PICK kept, key, w : /\ kept = Swept(windows, now) /\ key = <<client, tier>>
                            /\ w = Counted(kept, key, now)
    OBVIOUS
  <2>2. IsTable(kept, now) /\ \A k \in DOMAIN kept : kept[k].start >= first
    <3>1. IsTable(kept, now)
      BY <2>1, PruneKeepsTheLive
    <3>2. \A k \in DOMAIN kept : k \in DOMAIN windows /\ kept[k] = windows[k]
      BY <2>1 DEF Swept, Prune
    <3> QED
      BY <3>1, <3>2
  <2>3. w.start >= first
    <3>1. CASE key \notin DOMAIN kept \/ Expired(kept[key], now)
      BY <2>1, <3>1 DEF Counted
    <3>2. CASE ~(key \notin DOMAIN kept \/ Expired(kept[key], now))
      <4>1. kept[key] \in [start : Int, count : Nat]
        BY <2>2, <3>2 DEF IsTable, Windows
      <4>2. w = [kept[key] EXCEPT !.count = @ + 1]
        BY <2>1, <3>2 DEF Counted
      <4>3. w.start = kept[key].start
        BY <4>1, <4>2
      <4> QED
        BY <2>2, <3>2, <4>3
    <3> QED
      BY <3>1, <3>2
  <2>4. c.windows = [k \in DOMAIN kept \cup {key} |-> IF k = key THEN w ELSE kept[k]]
    BY <1>2, <2>1 DEF Check
  <2> QED
    BY <2>2, <2>3, <2>4
<1> QED
  BY <1>1, <1>2

(* The middleware: the two checks of one request, in terms of their        *)
(* answers.                                                                *)
LEMMA AdmitParts ==
  ASSUME NEW now, NEW windows, NEW client, NEW compute \in BOOLEAN,
         NEW first, first = IF compute THEN Check(windows, <<client, "compute">>, now)
                            ELSE [windows |-> windows, allowed |-> TRUE, retry |-> 0],
         NEW second, second = Check(first.windows, <<client, "general">>, now),
         NEW a, a = Admit(windows, client, compute, now)
  PROVE  /\ ~first.allowed => a.by = "compute" /\ a.windows = first.windows
         /\ first.allowed /\ ~second.allowed => a.by = "general" /\ a.windows = second.windows
         /\ first.allowed /\ second.allowed => a.by = "none" /\ a.windows = second.windows
         /\ ~compute => first.allowed
BY DEF Admit

(* It leaves a table, and whom it refuses a tier with a limit refuses.     *)
LEMMA AdmitTable ==
  ASSUME NEW now \in Int, NEW windows, IsTable(windows, now), NEW client, NEW compute \in BOOLEAN,
         NEW a, a = Admit(windows, client, compute, now)
  PROVE  /\ IsTable(a.windows, now)
         /\ a.by \in {"none", "compute", "general"}
         /\ a.by # "none" => Limit[a.by] # 0
         /\ a.by = "compute" => compute
<1>1. PICK first, second :
         /\ first = IF compute THEN Check(windows, <<client, "compute">>, now)
                    ELSE [windows |-> windows, allowed |-> TRUE, retry |-> 0]
         /\ second = Check(first.windows, <<client, "general">>, now)
  OBVIOUS
<1>2. /\ ~first.allowed => a.by = "compute" /\ a.windows = first.windows
      /\ first.allowed /\ ~second.allowed => a.by = "general" /\ a.windows = second.windows
      /\ first.allowed /\ second.allowed => a.by = "none" /\ a.windows = second.windows
      /\ ~compute => first.allowed
  <2>1. first = IF compute THEN Check(windows, <<client, "compute">>, now)
                ELSE [windows |-> windows, allowed |-> TRUE, retry |-> 0]
    BY <1>1
  <2>2. second = Check(first.windows, <<client, "general">>, now)
    BY <1>1
  <2> QED
    BY <2>1, <2>2, AdmitParts, SMTT(60)
<1>3. IsTable(first.windows, now) /\ (~first.allowed => Limit["compute"] # 0)
  BY <1>1, CheckTable
<1>4. IsTable(second.windows, now) /\ (~second.allowed => Limit["general"] # 0)
  BY <1>1, <1>3, CheckTable
<1> QED
  BY <1>1, <1>2, <1>3, <1>4

(* And no window that it opens starts before its time.                     *)
LEMMA AdmitStarts ==
  ASSUME NEW now \in Int, NEW windows, IsTable(windows, now), NEW first \in Int, first <= now,
         \A k \in DOMAIN windows : windows[k].start >= first,
         NEW client, NEW compute \in BOOLEAN, NEW a, a = Admit(windows, client, compute, now)
  PROVE  \A k \in DOMAIN a.windows : a.windows[k].start >= first
<1>1. PICK one, two :
         /\ one = IF compute THEN Check(windows, <<client, "compute">>, now)
                  ELSE [windows |-> windows, allowed |-> TRUE, retry |-> 0]
         /\ two = Check(one.windows, <<client, "general">>, now)
  OBVIOUS
<1>2. a.windows \in {one.windows, two.windows}
  <2>1. one = IF compute THEN Check(windows, <<client, "compute">>, now)
              ELSE [windows |-> windows, allowed |-> TRUE, retry |-> 0]
    BY <1>1
  <2>2. two = Check(one.windows, <<client, "general">>, now)
    BY <1>1
  <2> QED
    BY <2>1, <2>2, AdmitParts, SMTT(60)
<1>3. IsTable(one.windows, now) /\ \A k \in DOMAIN one.windows : one.windows[k].start >= first
  <2>1. CASE compute
    <3>1. one = Check(windows, <<client, "compute">>, now)
      BY <1>1, <2>1
    <3> QED
      BY <3>1, CheckTable, CheckStarts
  <2>2. CASE ~compute
    BY <1>1, <2>2
  <2> QED
    BY <2>1, <2>2
<1>4. \A k \in DOMAIN two.windows : two.windows[k].start >= first
  BY <1>1, <1>3, CheckStarts
<1> QED
  BY <1>2, <1>3, <1>4

(* The request h, which a answered, and a tier's requests of the client c   *)
(* before it, C and P, and after it, D and Q.                               *)
Joins(windows, client, compute, now, a, h, c, tier, counted, C, P, D, Q) ==
    /\ now \in Int /\ IsTable(windows, now) /\ compute \in BOOLEAN
    /\ a = Admit(windows, client, compute, now) /\ h.tick = now /\ h \notin C
    /\ tier \in {"compute", "general"} /\ Limit[tier] # 0
    /\ Counting(C, P, now) /\ Records(windows, <<c, tier>>, C, P, Limit[tier], now)
    /\ Slides(P, Limit[tier])
    /\ counted \in BOOLEAN
    /\ counted <=> c = client /\ (IF tier = "compute" THEN compute ELSE a.by # "compute")
    /\ D = IF counted THEN C \cup {h} ELSE C
    /\ Q = IF counted /\ a.by # tier THEN P \cup {h} ELSE P

(* And what its table says of every client and tier stays true: D and Q    *)
(* are the histories with this request, where it is counted.               *)
LEMMA AdmitRecords ==
  ASSUME NEW windows, NEW client, NEW compute, NEW now, NEW a, NEW h, NEW c, NEW tier,
         NEW counted, NEW C, NEW P, NEW D, NEW Q,
         Joins(windows, client, compute, now, a, h, c, tier, counted, C, P, D, Q)
  PROVE  /\ Counting(D, Q, now) /\ Records(a.windows, <<c, tier>>, D, Q, Limit[tier], now)
         /\ Slides(Q, Limit[tier])
         /\ c = client /\ a.by = tier =>
               Cardinality(Span(D, now - Window + 1, now + 1)) > Limit[tier]
<1>0. /\ now \in Int /\ IsTable(windows, now) /\ compute \in BOOLEAN
      /\ a = Admit(windows, client, compute, now) /\ h.tick = now /\ h \notin C
      /\ tier \in {"compute", "general"} /\ Limit[tier] # 0
      /\ Counting(C, P, now) /\ Records(windows, <<c, tier>>, C, P, Limit[tier], now)
      /\ Slides(P, Limit[tier])
      /\ counted \in BOOLEAN
      /\ counted <=> c = client /\ (IF tier = "compute" THEN compute ELSE a.by # "compute")
      /\ D = IF counted THEN C \cup {h} ELSE C
      /\ Q = IF counted /\ a.by # tier THEN P \cup {h} ELSE P
  BY Zenon DEF Joins
<1> USE <1>0
<1>1. PICK first, second, key, limit :
         /\ first = IF compute THEN Check(windows, <<client, "compute">>, now)
                    ELSE [windows |-> windows, allowed |-> TRUE, retry |-> 0]
         /\ second = Check(first.windows, <<client, "general">>, now)
         /\ key = <<c, tier>> /\ limit = Limit[tier]
  OBVIOUS
<1>2. /\ ~first.allowed => a.by = "compute" /\ a.windows = first.windows
      /\ first.allowed /\ ~second.allowed => a.by = "general" /\ a.windows = second.windows
      /\ first.allowed /\ second.allowed => a.by = "none" /\ a.windows = second.windows
      /\ ~compute => first.allowed
  BY <1>1, AdmitParts
<1>3. IsTable(first.windows, now) /\ limit \in Nat
  BY <1>1, CheckTable, RateLimiterAssumption
<1>4. IsTable(second.windows, now)
  BY <1>1, <1>3, CheckTable
<1>5. CASE tier = "compute" /\ c = client /\ compute
  <2>1. counted /\ D = C \cup {h} /\ Q = IF first.allowed THEN P \cup {h} ELSE P
    BY <1>2, <1>5
  <2>2. PICK w : w = first.windows[key]
    OBVIOUS
  <2>3. /\ Counting(D, Q, now) /\ Stands(w, D, Q, limit, now) /\ key \in DOMAIN first.windows
        /\ ~Expired(w, now) /\ (~first.allowed => w.count > limit)
    <3>1. PICK r : r = Check(windows, <<c, tier>>, now)
      OBVIOUS
    <3>2. first = r /\ Q = IF r.allowed THEN P \cup {h} ELSE P
      BY <1>1, <1>5, <2>1, <3>1
    <3>3. /\ Counting(C \cup {h}, Q, now)
          /\ <<c, tier>> \in DOMAIN r.windows
          /\ Stands(r.windows[<<c, tier>>], C \cup {h}, Q, Limit[tier], now)
          /\ ~Expired(r.windows[<<c, tier>>], now)
          /\ ~r.allowed => r.windows[<<c, tier>>].count > Limit[tier]
      BY <3>1, <3>2, CheckRecords
    <3> QED
      BY <1>1, <2>1, <2>2, <3>2, <3>3
  <2>4. Records(first.windows, key, D, Q, limit, now)
    BY <2>2, <2>3 DEF Records
  <2>5. Slides(Q, limit)
    BY <1>1, <1>3, <2>1, <2>3, SlidesOn
  <2>6. key # <<client, "general">>
    BY <1>1, <1>5
  <2>7. Records(a.windows, key, D, Q, limit, now)
    <3>1. CASE ~first.allowed
      BY <1>2, <2>4, <3>1
    <3>2. CASE first.allowed
      <4>1. Records(second.windows, key, D, Q, limit, now)
        BY <1>1, <1>3, <2>3, <2>4, <2>6, CheckSpares
      <4> QED
        BY <1>2, <3>2, <4>1
    <3> QED
      BY <3>1, <3>2
  <2>8. a.by = tier => Cardinality(Span(D, now - Window + 1, now + 1)) > limit
    BY <1>2, <1>3, <1>5, <2>3, AboveLimit
  <2> QED
    BY <1>1, <2>3, <2>5, <2>7, <2>8
<1>6. CASE tier = "compute" /\ ~(c = client /\ compute)
  <2>1. D = C /\ Q = P /\ ~(c = client /\ a.by = tier)
    BY <1>2, <1>6
  <2>2. Records(first.windows, key, C, P, limit, now)
    <3>1. CASE compute
      BY <1>1, <1>3, <1>6, <3>1, CheckSpares
    <3>2. CASE ~compute
      BY <1>1, <3>2
    <3> QED
      BY <3>1, <3>2
  <2>3. Records(second.windows, key, C, P, limit, now)
    BY <1>1, <1>3, <1>6, <2>2, CheckSpares
  <2> QED
    BY <1>1, <1>2, <2>1, <2>2, <2>3
<1>7. CASE tier = "general"
  <2>1. Records(first.windows, key, C, P, limit, now)
    <3>1. CASE compute
      BY <1>1, <1>3, <1>7, <3>1, CheckSpares
    <3>2. CASE ~compute
      BY <1>1, <3>2
    <3> QED
      BY <3>1, <3>2
  <2>2. CASE ~first.allowed
    <3>1. D = C /\ Q = P /\ ~(c = client /\ a.by = tier) /\ a.windows = first.windows
      BY <1>2, <1>7, <2>2
    <3> QED
      BY <1>1, <2>1, <3>1
  <2>3. CASE first.allowed /\ c # client
    <3>1. D = C /\ Q = P /\ a.windows = second.windows
      BY <1>2, <1>7, <2>3
    <3>2. Records(second.windows, key, C, P, limit, now)
      BY <1>1, <1>3, <2>1, <2>3, CheckSpares
    <3> QED
      BY <1>1, <2>3, <3>1, <3>2
  <2>4. CASE first.allowed /\ c = client
    <3>1. /\ counted /\ D = C \cup {h} /\ Q = IF second.allowed THEN P \cup {h} ELSE P
          /\ a.windows = second.windows /\ (a.by = tier => ~second.allowed)
      BY <1>2, <1>7, <2>4
    <3>2. PICK w : w = second.windows[key]
      OBVIOUS
    <3>3. /\ Counting(D, Q, now) /\ Stands(w, D, Q, limit, now) /\ key \in DOMAIN second.windows
          /\ ~Expired(w, now) /\ (~second.allowed => w.count > limit)
      <4>1. PICK W, r : W = first.windows /\ r = Check(W, <<c, tier>>, now)
        OBVIOUS
      <4>2. second = r /\ Q = IF r.allowed THEN P \cup {h} ELSE P
        BY <1>1, <1>7, <2>4, <3>1, <4>1
      <4>3. IsTable(W, now) /\ Records(W, <<c, tier>>, C, P, Limit[tier], now)
        BY <1>1, <1>3, <2>1, <4>1
      <4>4. /\ Counting(C \cup {h}, Q, now)
            /\ <<c, tier>> \in DOMAIN r.windows
            /\ Stands(r.windows[<<c, tier>>], C \cup {h}, Q, Limit[tier], now)
            /\ ~Expired(r.windows[<<c, tier>>], now)
            /\ ~r.allowed => r.windows[<<c, tier>>].count > Limit[tier]
        BY <4>1, <4>2, <4>3, CheckRecords
      <4> QED
        BY <1>1, <3>1, <3>2, <4>2, <4>4
    <3>4. Records(a.windows, key, D, Q, limit, now)
      BY <3>1, <3>2, <3>3 DEF Records
    <3>5. Slides(Q, limit)
      BY <1>1, <1>3, <3>1, <3>3, SlidesOn
    <3>6. a.by = tier => Cardinality(Span(D, now - Window + 1, now + 1)) > limit
      BY <1>3, <3>1, <3>3, AboveLimit
    <3> QED
      BY <1>1, <3>3, <3>4, <3>5, <3>6
  <2> QED
    BY <2>2, <2>3, <2>4
<1> QED
  BY <1>5, <1>6, <1>7
=============================================================================
