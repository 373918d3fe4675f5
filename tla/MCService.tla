------------------------------ MODULE MCService ------------------------------
(* Three requests at a time over a small database.  Days have three seconds,  *)
(* so that a behaviour may cross midnight and a rate-limit window; day 10 is  *)
(* today, and the months begin on days 0, 8 and 12.                           *)
EXTENDS Service, TLC

Blank == [branch |-> None, city |-> None]
At(branch) == [Blank EXCEPT !.branch = branch]
Cell(agent, branch, from) ==
    [agent |-> agent, name |-> IF from = 8 THEN None ELSE "Asha", node |-> At(branch), from |-> from]

MCCanon == [s \in Spellings |-> IF s \in {"a", "A "} THEN "A" ELSE IF s = "b" THEN "B"
                                ELSE IF s = " " THEN None ELSE s]

Photo(id, tenant, rep, image, band, code, n, day) ==
    [id |-> id, tenant |-> tenant, rep |-> rep, image |-> image, band |-> band, code |-> code,
     at |-> [n |-> n, day |-> day], source |-> "bulk", review |-> None]

SeedRow(agent, branch, from) == [tenant |-> "dev", upload |-> None] @@ Cell(agent, branch, from)

MCSeeds ==
    [serial  |-> 4,
     tenants |-> [s \in Slugs |-> [state |-> IF s = "new" THEN "absent" ELSE "active", off |-> None]],
     keys    |-> [k \in {"d1", "d2", "c1"} |->
                    [tenant |-> IF k = "c1" THEN "acme" ELSE "dev", off |-> None]],
     results |-> [id \in {"r1", "r2", "r3", "r4"} |->
        CASE id = "r1" -> Photo("r1", "dev", "B", "i3", "Unassessed", "no_content_analysis", 1, 1)
          [] id = "r2" -> Photo("r2", "dev", "A", "i1", "Clear", "clear", 2, 5)
          [] id = "r3" -> Photo("r3", "acme", "A", "i1", "Doubtful", "pose", 3, 9)
          [] id = "r4" -> Photo("r4", "dev", "A", "i1", "Suspect", "recycled", 4, 9)],
     hashes  |-> {[id |-> "r1", tenant |-> "dev", hash |-> 30, n |-> 1],
                  [id |-> "r2", tenant |-> "dev", hash |-> 10, n |-> 2],
                  [id |-> "r3", tenant |-> "acme", hash |-> 10, n |-> 3],
                  [id |-> "r4", tenant |-> "dev", hash |-> 10, n |-> 4]},
     hierarchy |-> {SeedRow("A", "north", 0), SeedRow("A", "south", 8)}]

Score(key, image, backend) ==
    [op |-> "score", key |-> key, image |-> image, backend |-> backend, rep |-> None, big |-> FALSE]
Big(c) == [c EXCEPT !.big = TRUE]
BulkRow(tenant, image, rep) ==
    [op |-> "row", tenant |-> tenant, image |-> image, rep |-> rep, backend |-> None]
Review(key, target, decision) ==
    [op |-> "review", key |-> key, target |-> target, decision |-> decision, big |-> FALSE]
Get(key, target) == [op |-> "get", key |-> key, target |-> target, big |-> FALSE]
List(key, filter, limit, from) ==
    [op |-> "list", key |-> key, filter |-> filter, limit |-> limit, from |-> from, to |-> None,
     dim |-> None, node |-> None, big |-> FALSE]
Summary(key, from, bucket, field) ==
    [op |-> "summary", key |-> key, from |-> from, to |-> None, bucket |-> bucket, field |-> field,
     dim |-> None, node |-> None, big |-> FALSE]
Under(c, node) == [c EXCEPT !.dim = "branch", !.node = node]
Card(agent, from, bucket) ==
    [op |-> "scorecard", key |-> "d1", agent |-> agent, from |-> from, to |-> None,
     bucket |-> bucket, big |-> FALSE]
Upload(header, rows) ==
    [op |-> "upload", file |-> [header |-> header, rows |-> rows], big |-> FALSE]
Status == [op |-> "status", big |-> FALSE]
Create(slug) == [op |-> "create", slug |-> slug, big |-> FALSE]
Update(slug, to) == [op |-> "update", slug |-> slug, to |-> to, big |-> FALSE]
Mint(slug, key) == [op |-> "mint", slug |-> slug, key |-> key]
Revoke(key) == [op |-> "revoke", key |-> key]

FileOne == <<Cell("a", "west", 8)>>
FileTwo == <<Cell("A ", "east", None), Cell("b", None, 0)>>

NoCall == [op |-> "none"]

(* dHashes are points on a line: "near" is between "i9" and "far", which are   *)
(* not alike; "junk" is no image.                                             *)
MCHash == [i \in {"i1", "i3", "i7", "i8", "i9", "near", "far", "junk"} |->
             CASE i = "i1" -> 10 [] i = "i3" -> 30 [] i = "i7" -> 70 [] i = "i8" -> 80
               [] i = "i9" -> 90 [] i = "near" -> 92 [] i = "far" -> 94 [] i = "junk" -> None]
MCDistance == [x \in 0..100, y \in 0..100 |-> IF x < y THEN y - x ELSE x - y]

MCGraded == [ground \in Grounds |->
   CASE ground = "exact"   -> {[band |-> "Suspect", code |-> "recycled"]}
     [] ground = "near"    -> {[band |-> "Doubtful", code |-> "recycled"]}
     [] ground = "screen"  -> {[band |-> "Suspect", code |-> "screen_recapture"]}
     [] ground = "judged"  -> {[band |-> "Doubtful", code |-> "pose"]}
     [] ground = "blurred" -> {[band |-> "Doubtful", code |-> "too_blurred"]}
     [] ground = "unseen"  -> {[band |-> "Unassessed", code |-> "no_content_analysis"]}]

Mixes == {
  \* copies of one photo by every way in; the limiter; key and tenant going away
  <<Score("d1", "i9", None), Score("d2", "i9", "live"), NoCall>>,
  <<Score("d1", "i9", "stub"), BulkRow("dev", "i9", "a"), BulkRow("dev", "i9", None)>>,
  <<Score("d1", "i7", "stub"), Score("d1", "i8", "stub"), Score("d1", "i9", "stub")>>,
  <<Score("d2", "i1", "broken"), BulkRow("dev", "i8", None), Score("d1", None, None)>>,
  <<Score("c1", "i9", None), Update("acme", "inactive"), NoCall>>,
  <<Score("c1", "i3", "stub"), Revoke("c1"), Big(Score("d1", "i9", None))>>,
  \* a chain of near duplicates; no image; the seventh and eighth photo hide the third
  <<Score("d1", "i9", "stub"), BulkRow("dev", "near", None), BulkRow("dev", "far", "a")>>,
  <<Score("d1", "junk", "stub"), BulkRow("dev", "junk", None), NoCall>>,
  <<BulkRow("dev", "i7", None), BulkRow("dev", "i3", None), Score("d1", "i8", None)>>,
  \* records
  <<Review("d1", "r4", "approve"), Review("d2", "r4", "reject"), Revoke("d2")>>,
  <<Review("c1", "r4", "approve"), Review("d1", "r2", "reject"), Get("c1", "r2")>>,
  <<List("d1", NoFilter, 1, None), BulkRow("dev", "i9", "a"), NoCall>>,
  <<List("d2", [NoFilter EXCEPT !.rep = "a"], 2, 5), Score("d1", "i9", "stub"), NoCall>>,
  <<Under(List("d1", NoFilter, 1, None), "north"), Upload("ok", FileOne), NoCall>>,
  <<List("d1", NoFilter, 2, 11), Get("d1", "r1"), Upload("ok", <<Cell(" ", "west", 0)>>)>>,
  \* the org map
  <<Upload("ok", FileOne), Upload("ok", FileTwo), Status>>,
  <<Upload("ok", FileTwo), Update("dev", "inactive"), NoCall>>,
  <<Status, Update("dev", "inactive"), NoCall>>,
  \* reports
  <<Summary("d1", None, "weekly", "branch"), Upload("ok", FileOne), NoCall>>,
  <<Summary("d1", 8, "daily", "branch"), BulkRow("dev", "i9", "a"), NoCall>>,
  <<Under(Summary("d1", 2, "monthly", "branch"), "north"), BulkRow("dev", "i8", "A "), NoCall>>,
  <<Summary("c1", None, "daily", "agent"), Summary("d1", 11, "daily", "none"), NoCall>>,
  <<Card("a", None, "weekly"), BulkRow("dev", "i9", "a"), NoCall>>,
  <<Card("b", 8, "monthly"), Card("a", 11, "daily"), NoCall>>,
  <<[Summary("d1", 8, "daily", "city") EXCEPT !.dim = "agent"],
    [List("d1", NoFilter, 3, None) EXCEPT !.dim = "branch"], NoCall>>,
  <<Card("Z", None, "daily"), BulkRow("dev", "i8", "Z"), NoCall>>,
  \* administration
  <<Create("new"), Create("new"), Mint("new", "n1")>>,
  <<Update("acme", "inactive"), Update("acme", "active"), Mint("acme", "n1")>>,
  <<Update("new", "active"), Create("acme"), Mint("new", "n1")>> }

MCPlans == {[q \in Requests |-> m[CASE q = "q1" -> 1 [] q = "q2" -> 2 [] q = "q3" -> 3]] : m \in Mixes}

MCLimit == [tier \in {"compute", "general"} |-> IF tier = "compute" THEN 1 ELSE 3]
==============================================================================
