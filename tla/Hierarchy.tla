------------------------------ MODULE Hierarchy ------------------------------
(***************************************************************************)
(* The effective-dated organisation map: service/ids.py,                   *)
(* service/hierarchy.py and the CSV of api/hierarchy_admin.py.  A row is   *)
(* [agent, name, node, from, upload]; node is a function from the org      *)
(* levels to their names.  Rows come as lists because, of two rows that    *)
(* start on the same day, the code takes the one it meets first.           *)
(***************************************************************************)
EXTENDS Integers, Sequences, FiniteSets

CONSTANTS
    None,        \* Python's None, and a blank cell
    BadDate,     \* a valid_from that is no date
    Spellings,   \* ids as clients and spreadsheets write them
    Canon        \* [Spellings -> Spellings \cup {None}]: trimmed, upper-cased

ASSUME HierarchyAssumption ==
    /\ None \notin Spellings
    /\ Canon \in [Spellings -> Spellings \cup {None}]
    /\ \A s \in Spellings : Canon[s] # None => Canon[Canon[s]] = Canon[s]

NormalizeId(s) == IF s = None THEN None ELSE Canon[s]

(* The positions of an agent's rows; none for a blank id.                  *)
Versions(rows, id) ==
    {i \in DOMAIN rows : /\ NormalizeId(id) # None
                         /\ NormalizeId(rows[i].agent) = NormalizeId(id)}

(* The newest of some rows of a list, the first one among equals.          *)
Newest(rows, among) ==
    rows[CHOOSE i \in among :
            \A j \in among : \/ rows[j].from < rows[i].from
                             \/ rows[j].from = rows[i].from /\ i <= j]

ResolveNode(rows, id, day) ==
    LET begun == {i \in Versions(rows, id) : rows[i].from <= day}
    IN  IF begun = {} THEN None ELSE Newest(rows, begun)

(* The agent's current row, whatever the date.                             *)
LatestRow(rows, id) ==
    IF Versions(rows, id) = {} THEN None ELSE Newest(rows, Versions(rows, id))

(* faulty variant: today's row for a result of the past *)
NodeMatch_Current(rows, id, day, field, node) ==
    LET row == LatestRow(rows, id)
    IN  row # None /\ row.node[field] = node

NodeMatch(rows, id, day, field, node) ==
    LET row == ResolveNode(rows, id, day)
    IN  row # None /\ row.node[field] = node

AgentDisplayName(rows, id) ==
    LET named == {i \in Versions(rows, id) : rows[i].name # None}
    IN  IF NormalizeId(id) = None THEN id
        ELSE IF named = {} THEN NormalizeId(id) ELSE Newest(rows, named).name

(* Every order in which an unordered SELECT may return a set of rows.      *)
RowLists(S) == {l \in [1..Cardinality(S) -> S] : \A r \in S : \E i \in DOMAIN l : l[i] = r}

(* ---- the uploaded file: [header, rows] -------------------------------- *)

ParsedRow(raw, today) ==
    [agent |-> NormalizeId(raw.agent), name |-> raw.name, node |-> raw.node,
     from  |-> IF raw.from = None THEN today ELSE raw.from]

CsvRefused(file, today) ==
    \/ file.header # "ok"      \* missing, an unknown column, a column missing
    \/ file.rows = <<>>
    \/ \E i \in DOMAIN file.rows : \/ NormalizeId(file.rows[i].agent) = None
                                   \/ file.rows[i].from = BadDate
    \/ \E i, j \in DOMAIN file.rows :
          /\ i < j
          /\ LET a == ParsedRow(file.rows[i], today)
                 b == ParsedRow(file.rows[j], today)
             IN  a.agent = b.agent /\ a.from = b.from

ParseCsv(file, today) == {ParsedRow(file.rows[i], today) : i \in DOMAIN file.rows}
==============================================================================
