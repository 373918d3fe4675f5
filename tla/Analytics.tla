------------------------------ MODULE Analytics ------------------------------
(***************************************************************************)
(* api/date_range.py and api/analytics.py: date ranges, buckets, tallies   *)
(* and groups over a set of stored results.  Days are numbered; a range is *)
(* the half-open [start, end) of days.  Averages and percentages are left  *)
(* out, since each is a quotient of counts kept here.                      *)
(***************************************************************************)
EXTENDS Hierarchy, FiniteSetsExt

CONSTANTS
    MonthStarts,     \* the days that begin a calendar month
    DefaultDays,     \* _DEFAULT_DAYS
    MaxSpanDays,     \* _MAX_SPAN_DAYS
    Unmapped         \* the label of results no hierarchy row explains

ASSUME AnalyticsAssumption ==
    /\ MonthStarts \subseteq Nat /\ 0 \in MonthStarts
    /\ DefaultDays \in Nat \ {0} /\ MaxSpanDays \in Nat \ {0}

Bands == {"Clear", "Doubtful", "Suspect", "Unassessed"}

(* ---- ranges ------------------------------------------------------------ *)

EndDay(from, to, today) == IF to = None THEN today ELSE to

StartDay(from, to, today) ==
    IF from = None THEN EndDay(from, to, today) - (DefaultDays - 1) ELSE from

(* A given bound in the future, bounds in the wrong order, too many days.  *)
RangeRefused(from, to, today) ==
    LET s == StartDay(from, to, today)
        e == EndDay(from, to, today)
    IN  \/ from # None /\ s > today
        \/ to # None /\ e > today
        \/ s > e
        \/ e - s + 1 > MaxSpanDays

ResolveRange(from, to, today) ==
    [start |-> StartDay(from, to, today), end |-> EndDay(from, to, today) + 1]

InRange(r, range) == range.start <= r.at.day /\ r.at.day < range.end

(* The window of the same length that ends where the range starts.         *)
PreviousRange(range) ==
    [start |-> range.start - (range.end - range.start), end |-> range.start]

(* ---- tallies ----------------------------------------------------------- *)

CountBand(items, band) == Cardinality({r \in items : r.band = band})

Tally(items) ==
    [clear      |-> CountBand(items, "Clear"),
     doubtful   |-> CountBand(items, "Doubtful"),
     suspect    |-> CountBand(items, "Suspect"),
     unassessed |-> CountBand(items, "Unassessed"),
     total      |-> Cardinality(items)]

ReasonCounts(items) ==
    [code \in {r.code : r \in items} |-> Cardinality({r \in items : r.code = code})]

(* Decisions on flagged results: confirmed by a rejection, overturned by   *)
(* an approval; escalated and pending ones count for neither.              *)
FlagPrecision(items) ==
    LET flagged == {r \in items : r.band \notin {"Clear", "Unassessed"}}
    IN  [confirmed  |-> Cardinality({r \in flagged : r.review = "reject"}),
         overturned |-> Cardinality({r \in flagged :
                                       r.review \in {"approve", "false_positive"}})]

WithoutContent(items) == Cardinality({r \in items : r.code = "no_content_analysis"})

(* ---- buckets ----------------------------------------------------------- *)

MonthOf(day) == Max({m \in MonthStarts : m <= day})

NextMonth(m) == Min({n \in MonthStarts : n > m})

BucketEdges(range, bucket) ==
    IF bucket = "daily"
    THEN {[from |-> d, to |-> d + 1] : d \in range.start..(range.end - 1)}
    ELSE IF bucket = "weekly"
    THEN {[from |-> range.start + 7 * k, to |-> range.start + 7 * k + 7] :
            k \in {k \in 0..(range.end - range.start) : range.start + 7 * k < range.end}}
    ELSE {[from |-> m, to |-> NextMonth(m)] :
            m \in {m \in MonthStarts : MonthOf(range.start) <= m /\ m < range.end}}

(* faulty variant: both ends of a bucket belong to it *)
BuildBuckets_BothEnds(items, range, bucket, today) ==
    {[from       |-> e.from,
      last       |-> Min({e.to - 1, range.end - 1}),
      items      |-> {r \in items : e.from <= r.at.day /\ r.at.day <= e.to},
      incomplete |-> e.from <= today /\ today < e.to] : e \in BucketEdges(range, bucket)}

(* The items of each bucket, and the last day it shows, which is clamped   *)
(* to the range.                                                           *)
BuildBuckets(items, range, bucket, today) ==
    {[from       |-> e.from,
      last       |-> Min({e.to - 1, range.end - 1}),
      items      |-> {r \in items : e.from <= r.at.day /\ r.at.day < e.to},
      incomplete |-> e.from <= today /\ today < e.to] : e \in BucketEdges(range, bucket)}

(* The legacy daily series: one entry for every day of the range, without  *)
(* a column for Unassessed.                                                *)
FillSeries(items, range) ==
    [d \in range.start..(range.end - 1) |->
        LET t == Tally({r \in items : r.at.day = d})
        IN  [count |-> t.total, clear |-> t.clear, doubtful |-> t.doubtful,
             suspect |-> t.suspect]]

(* ---- groups ------------------------------------------------------------ *)

NodeLabel(rows, r, field) ==
    LET row == ResolveNode(rows, r.rep, r.at.day)
    IN  IF row = None \/ row.node[field] = None THEN Unmapped ELSE row.node[field]

(* Agents are told apart by their id, however many share a name.           *)
GroupKey(rows, r, field) ==
    IF field # "agent" THEN NodeLabel(rows, r, field)
    ELSE IF NormalizeId(r.rep) = None THEN Unmapped ELSE NormalizeId(r.rep)

GroupLabel(rows, key, field) ==
    IF field = "agent" /\ key # Unmapped THEN AgentDisplayName(rows, key) ELSE key

Groups(items, rows, field) ==
    {[node  |-> GroupLabel(rows, key, field),
      agent |-> IF field = "agent" /\ key # Unmapped THEN key ELSE None,
      items |-> {r \in items : GroupKey(rows, r, field) = key}] :
       key \in {GroupKey(rows, r, field) : r \in items}}

(* The body of /v1/analytics/summary.                                      *)
AggregateRange(items, prev, rows, range, bucket, field, today) ==
    LET buckets == BuildBuckets(items, range, bucket, today)
    IN  [buckets    |-> buckets,
         incomplete |-> \E b \in buckets : b.incomplete,
         series     |-> FillSeries(items, range),
         bands      |-> Tally(items),
         previous   |-> Tally(prev),
         previous_period |-> PreviousRange(range),
         groups     |-> IF field = "none" THEN {} ELSE Groups(items, rows, field),
         reasons    |-> ReasonCounts(items),
         flag_precision  |-> FlagPrecision(items),
         without_content |-> WithoutContent(items)]
==============================================================================
