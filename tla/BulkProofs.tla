----------------------------- MODULE BulkProofs -----------------------------
(***************************************************************************)
(* What a bulk job reports, what a poll shows, and how many jobs run and   *)
(* stay registered, for any number of jobs and rows, any limits, and any   *)
(* lost commits and process deaths.                                        *)
(***************************************************************************)
EXTENDS BulkScore, NumberLemmas, SequenceTheorems, FiniteSetTheorems, TLAPS

-----------------------------------------------------------------------------
(* What is reported is what is saved. *)

(* A table of rows, the same with one cell changed, and its other cells.   *)
Grid(f) == f = [j \in Jobs |-> [r \in RowsOf[j] |-> f[j][r]]]

Sets(f, g, j, r, v) == g = [f EXCEPT ![j][r] = v]

OthersSame(f, g, j, r) ==
  \A k \in Jobs : \A s \in RowsOf[k] : (k # j \/ s # r) => g[k][s] = f[k][s]

(* What the proofs need to know of types. *)
Shape ==
  /\ Grid(row) /\ Grid(out) /\ Grid(saved)
  /\ phase = [j \in Jobs |-> phase[j]] /\ post = [j \in Jobs |-> post[j]]
  /\ status = [j \in Jobs |-> status[j]]
  /\ lost \in Nat
  /\ \A j \in Jobs : \A r \in RowsOf[j] : saved[j][r] \in Nat

(* The places of a row's task before it is scored.                         *)
Early == {"waiting", "admitted", "fetching", "fetched", "scoring"}

(* What the place of a row's task says of its record and its report.       *)
RowAgrees(j, r) ==
  /\ saved[j][r] <= 1
  /\ row[j][r] \in Early \cup {"saved", "raised", "recorded", "finished"}
  /\ phase[j] = "gone" => out[j][r] = "none"
  /\ phase[j] \in {"none", "resolving", "unknown", "rejected"} => row[j][r] = "waiting"
  /\ phase[j] \in {"none", "resolving"} => out[j][r] = "none"
  /\ phase[j] \in {"unknown", "rejected"} => out[j][r] = "error"
  /\ phase[j] # "gone" =>
       /\ row[j][r] \in Early => saved[j][r] = 0 /\ out[j][r] \in {"none", "error"}
       /\ row[j][r] \in Early /\ phase[j] = "rows" => out[j][r] = "none"
       /\ row[j][r] = "saved" => saved[j][r] = 1 /\ out[j][r] = "none"
       /\ row[j][r] = "raised" => (lost = 0 => saved[j][r] = 0) /\ out[j][r] = "none"
       /\ row[j][r] \in {"recorded", "finished"} =>
            \/ out[j][r] = "scored" /\ saved[j][r] = 1
            \/ out[j][r] = "error" /\ (lost = 0 => saved[j][r] = 0)

(* A job no POST has created has not begun.                                *)
NotBegun(j) == post[j] \in {"new", "counted", "evicting", "refused"} => phase[j] = "none"

SavedInv ==
  /\ Shape
  /\ \A j \in Jobs : NotBegun(j)
  /\ \A j \in Jobs : \A r \in RowsOf[j] : RowAgrees(j, r)

(* One cell of a table of rows changes.                                    *)
LEMMA SetOne ==
  \A f, g, j, r, v :
    Grid(f) /\ j \in Jobs /\ r \in RowsOf[j] /\ Sets(f, g, j, r, v) =>
      /\ Grid(g)
      /\ g[j][r] = v
      /\ OthersSame(f, g, j, r)
<1> SUFFICES ASSUME NEW f, NEW g, NEW j \in Jobs, NEW r \in RowsOf[j], NEW v,
                    Grid(f), Sets(f, g, j, r, v)
             PROVE  Grid(g) /\ g[j][r] = v /\ OthersSame(f, g, j, r)
  OBVIOUS
<1>1. g = [f EXCEPT ![j] = [f[j] EXCEPT ![r] = v]]
  BY DEF Sets
<1>2. f[j] = [s \in RowsOf[j] |-> f[j][s]]
  BY DEF Grid
<1>3. [f[j] EXCEPT ![r] = v] = [s \in RowsOf[j] |-> IF s = r THEN v ELSE f[j][s]]
  BY <1>2
<1>4. g[j] = [s \in RowsOf[j] |-> IF s = r THEN v ELSE f[j][s]]
  BY <1>1, <1>3 DEF Grid
<1>5. \A k \in Jobs : k # j => g[k] = f[k]
  BY <1>1 DEF Grid
<1>6. g = [k \in Jobs |-> g[k]]
  BY <1>1 DEF Grid
<1>7. \A k \in Jobs : g[k] = [s \in RowsOf[k] |-> g[k][s]]
  BY <1>4, <1>5 DEF Grid
<1>8. Grid(g)
  BY <1>6, <1>7, Zenon DEF Grid
<1>9. g[j][r] = v
  BY <1>4
<1>10. ASSUME NEW k \in Jobs, NEW s \in RowsOf[k], k # j \/ s # r
       PROVE  g[k][s] = f[k][s]
  BY <1>4, <1>5, <1>10
<1> QED
  BY <1>8, <1>9, <1>10 DEF OthersSame

(* Nothing is reported at the start.                                       *)
LEMMA SavedInit == Init => SavedInv
BY BulkAssumption DEF Init, SavedInv, Shape, Grid, Per, NotBegun, RowAgrees, Early

(* A step of a row's task, which moves that row alone.                     *)
LEMMA RowMoves ==
  ASSUME SavedInv, NEW j \in Jobs, NEW r \in RowsOf[j], phase[j] = "rows",
         NEW to, Move(j, r, to),
         UNCHANGED <<phase, post, status>>,
         lost' \in Nat, lost <= lost',
         Grid(out'), Grid(saved'), saved'[j][r] \in Nat,
         \A k \in Jobs : \A s \in RowsOf[k] : (k # j \/ s # r) =>
            out'[k][s] = out[k][s] /\ saved'[k][s] = saved[k][s],
         row'[j][r] = to => RowAgrees(j, r)'
  PROVE  SavedInv'
<1>1. /\ Grid(row') /\ row'[j][r] = to
      /\ \A k \in Jobs : \A s \in RowsOf[k] : (k # j \/ s # r) => row'[k][s] = row[k][s]
  <2>1. Grid(row) /\ Sets(row, row', j, r, to)
    BY DEF SavedInv, Shape, Move, Sets
  <2> QED
    BY <2>1, SetOne DEF OthersSame
<1>2. Shape'
  BY <1>1 DEF SavedInv, Shape, Grid
<1>3. ASSUME NEW k \in Jobs, NEW s \in RowsOf[k]
      PROVE  RowAgrees(k, s)'
  <2>1. CASE k = j /\ s = r
    BY <1>1, <2>1
  <2>2. CASE k # j \/ s # r
    BY <1>1, <2>2 DEF SavedInv, Shape, RowAgrees
  <2> QED
    BY <2>1, <2>2
<1> QED
  BY <1>2, <1>3 DEF SavedInv, NotBegun

(* Every step of a row keeps the row, its report and its record together.  *)
LEMMA RowStepKeeps ==
  ASSUME SavedInv, NEW j \in Jobs, NEW r \in RowsOf[j], RowStep(j, r)
  PROVE  SavedInv'
<1>1. /\ Grid(row) /\ Grid(out) /\ Grid(saved) /\ lost \in Nat /\ saved[j][r] \in Nat
      /\ RowAgrees(j, r)
  BY DEF SavedInv, Shape
<1>2. ASSUME NEW from, row[j][r] = from, from \in Early, NEW to, Move(j, r, to),
             to \in Early \/ to = "raised",
             phase[j] = "rows", UNCHANGED <<phase, post, status, out, saved, lost>>
      PROVE  SavedInv'
  <2>1. row'[j][r] = to => RowAgrees(j, r)'
    BY <1>1, <1>2 DEF RowAgrees, Early
  <2>2. Grid(out') /\ Grid(saved')
    BY <1>1, <1>2 DEF Grid
  <2> QED
    BY <1>1, <1>2, <2>1, <2>2, RowMoves
<1>3. CASE Admit(j, r) \/ Fetch(j, r) \/ Score(j, r)
  BY <1>2, <1>3 DEF Admit, Fetch, Score, Early
<1>4. CASE Fetched(j, r)
  BY <1>2, <1>4 DEF Fetched, Early
<1>5. CASE Scored(j, r)
  <2>0. row[j][r] = "scoring" /\ phase[j] = "rows" /\ UNCHANGED <<phase, post, status, out>>
    BY <1>5 DEF Scored
  <2>1. CASE Move(j, r, "raised") /\ UNCHANGED <<saved, lost>>
    BY <1>2, <2>0, <2>1 DEF Early
  <2>2. ASSUME NEW to, Move(j, r, to), saved' = [saved EXCEPT ![j][r] = @ + 1],
               \/ to = "saved" /\ lost' = lost
               \/ to = "raised" /\ lost' = lost + 1
        PROVE  SavedInv'
    <3>1. /\ Grid(saved') /\ saved'[j][r] = saved[j][r] + 1
          /\ \A k \in Jobs : \A s \in RowsOf[k] : (k # j \/ s # r) => saved'[k][s] = saved[k][s]
      <4>1. Sets(saved, saved', j, r, saved[j][r] + 1)
        BY <2>2 DEF Sets
      <4> QED
        BY <1>1, <4>1, SetOne DEF OthersSame
    <3>2. Grid(out')
      BY <1>1, <2>0 DEF Grid
    <3>3. row'[j][r] = to => RowAgrees(j, r)'
      BY <1>1, <2>0, <2>2, <3>1 DEF RowAgrees, Early
    <3>4. lost' \in Nat /\ lost <= lost' /\ saved'[j][r] \in Nat
      BY <1>1, <2>2, <3>1
    <3> QED
      BY <1>1, <2>0, <2>2, <3>1, <3>2, <3>3, <3>4, RowMoves
  <2> QED
    BY <1>5, <2>1, <2>2 DEF Scored
<1>6. CASE RecordRow(j, r)
  <2> DEFINE said == IF row[j][r] = "saved" THEN "scored" ELSE "error"
  <2>1. /\ Grid(out') /\ out'[j][r] = said
        /\ \A k \in Jobs : \A s \in RowsOf[k] : (k # j \/ s # r) => out'[k][s] = out[k][s]
    <3>1. Sets(out, out', j, r, said)
      BY <1>6 DEF RecordRow, Sets
    <3> QED
      BY <1>1, <3>1, SetOne DEF OthersSame
  <2>2. /\ row[j][r] \in {"saved", "raised"} /\ phase[j] = "rows" /\ Move(j, r, "recorded")
        /\ UNCHANGED <<phase, post, status, saved, lost>>
    BY <1>6 DEF RecordRow
  <2>3. row'[j][r] = "recorded" => RowAgrees(j, r)'
    BY <1>1, <2>1, <2>2 DEF RowAgrees, Early
  <2>4. Grid(saved')
    BY <1>1, <2>2 DEF Grid
  <2> QED
    BY <1>1, <2>1, <2>2, <2>3, <2>4, RowMoves
<1>7. CASE CountRow(j, r)
  <2>1. /\ row[j][r] = "recorded" /\ phase[j] = "rows" /\ Move(j, r, "finished")
        /\ UNCHANGED <<phase, post, status, out, saved, lost>>
    BY <1>7 DEF CountRow
  <2>2. row'[j][r] = "finished" => RowAgrees(j, r)'
    BY <1>1, <2>1 DEF RowAgrees, Early
  <2>3. Grid(out') /\ Grid(saved')
    BY <1>1, <2>1 DEF Grid
  <2> QED
    BY <1>1, <2>1, <2>2, <2>3, RowMoves
<1> QED
  BY <1>3, <1>4, <1>5, <1>6, <1>7 DEF RowStep

(* A step that leaves the rows and what was recorded of them alone.        *)
LEMMA RowsUntouched ==
  ASSUME SavedInv, UNCHANGED <<row, out, saved, lost>>,
         phase' = [j \in Jobs |-> phase'[j]], post' = [j \in Jobs |-> post'[j]],
         status' = [j \in Jobs |-> status'[j]],
         \A j \in Jobs : NotBegun(j)',
         \A j \in Jobs : phase'[j] # phase[j] =>
           \/ phase[j] = "none" /\ phase'[j] = "resolving"
           \/ phase[j] = "resolving" /\ phase'[j] \in {"rows", "over"}
           \/ phase[j] = "unknown" /\ phase'[j] = "rejected"
           \/ phase[j] \in {"rows", "rejected"} /\ phase'[j] = "over"
  PROVE  SavedInv'
<1>1. Shape'
  BY DEF SavedInv, Shape, Grid
<1>2. ASSUME NEW j \in Jobs, NEW r \in RowsOf[j]
      PROVE  RowAgrees(j, r)'
  BY <1>2 DEF SavedInv, RowAgrees, Early
<1> QED
  BY <1>1, <1>2 DEF SavedInv

(* The POST, the poll and the steps of a job that touch no row.            *)
LEMMA JobStepKeeps ==
  ASSUME SavedInv, NEW j \in Jobs, Request(j) \/ JobStep(j) \/ Poll(j)
  PROVE  SavedInv'
<1>1. CASE Request(j) \/ Poll(j)
  BY <1>1, RowsUntouched
     DEF SavedInv, Shape, NotBegun, Request, CountInflight, CountRaises, Create, EvictNext,
         Answer, Poll, run
<1>2. CASE Begin(j) \/ CountAll(j) \/ End(j)
  BY <1>2, RowsUntouched DEF SavedInv, Shape, NotBegun, Begin, CountAll, End
<1>3. CASE ResolveTenant(j)
  <2>1. CASE out' = out /\ \E to \in {"rows", "over"} : phase' = [phase EXCEPT ![j] = to]
    BY <1>3, <2>1, RowsUntouched DEF SavedInv, Shape, NotBegun, ResolveTenant
  <2>2. CASE /\ phase' = [phase EXCEPT ![j] = "unknown"]
             /\ out' = [out EXCEPT ![j] = [r \in RowsOf[j] |-> "error"]]
    <3>1. /\ phase[j] = "resolving" /\ UNCHANGED <<post, status, row, saved, lost>>
      BY <1>3 DEF ResolveTenant
    <3>2. /\ phase'[j] = "unknown" /\ out'[j] = [r \in RowsOf[j] |-> "error"]
          /\ \A k \in Jobs \ {j} : phase'[k] = phase[k] /\ out'[k] = out[k]
      BY <2>2 DEF SavedInv, Shape, Grid
    <3>3. Shape'
      <4>1. Grid(row)' /\ Grid(saved)'
        BY <3>1 DEF SavedInv, Shape, Grid
      <4>2. Grid(out)'
        <5>1. out' = [k \in Jobs |-> out'[k]]
          BY <2>2 DEF SavedInv, Shape, Grid
        <5>2. ASSUME NEW k \in Jobs
              PROVE  out'[k] = [r \in RowsOf[k] |-> out'[k][r]]
          BY <3>2 DEF SavedInv, Shape, Grid
        <5> QED
          BY <5>1, <5>2 DEF Grid
      <4>3. (phase = [k \in Jobs |-> phase[k]])'
        BY <2>2 DEF SavedInv, Shape
      <4> QED
        BY <3>1, <4>1, <4>2, <4>3 DEF SavedInv, Shape
    <3>4. ASSUME NEW k \in Jobs, NEW r \in RowsOf[k]
          PROVE  RowAgrees(k, r)'
      BY <3>1, <3>2 DEF SavedInv, RowAgrees, Early
    <3>5. \A k \in Jobs : NotBegun(k)'
      BY <3>1, <3>2 DEF SavedInv, NotBegun
    <3> QED
      BY <3>3, <3>4, <3>5 DEF SavedInv
  <2> QED
    BY <1>3, <2>1, <2>2 DEF ResolveTenant
<1> QED
  BY <1>1, <1>2, <1>3 DEF JobStep

(* A death forgets the jobs, not the rows of the results table.            *)
LEMMA CrashKeeps == SavedInv /\ Crash => SavedInv'
<1> SUFFICES ASSUME SavedInv, Crash
             PROVE  SavedInv'
  OBVIOUS
<1>1. Shape'
  BY DEF SavedInv, Shape, Grid, Crash, Per
<1>2. ASSUME NEW j \in Jobs, NEW r \in RowsOf[j]
      PROVE  RowAgrees(j, r)'
  <2>1. /\ row'[j][r] = "waiting" /\ out'[j][r] = "none" /\ UNCHANGED <<saved, lost>>
        /\ phase'[j] = IF post[j] \in {"new", "refused"} THEN phase[j] ELSE "gone"
    BY DEF Crash, Per
  <2> QED
    BY <2>1 DEF SavedInv, NotBegun, RowAgrees, Early
<1>3. \A j \in Jobs : NotBegun(j)'
  BY DEF SavedInv, NotBegun, Crash
<1> QED
  BY <1>1, <1>2, <1>3 DEF SavedInv

(* What a row's task has reached, what it reports and what the results     *)
(* table holds of it agree in every reachable state.                       *)
THEOREM SavedInvariant == Spec => []SavedInv
<1>1. SavedInv /\ [Next]_vars => SavedInv'
  <2>1. ASSUME SavedInv, UNCHANGED vars
        PROVE  SavedInv'
    BY <2>1, RowsUntouched DEF vars, SavedInv, Shape, NotBegun
  <2> QED
    BY <2>1, RowStepKeeps, JobStepKeeps, CrashKeeps DEF Next
<1> QED
  BY <1>1, SavedInit, PTL DEF Spec

(* A row that is reported scored was written exactly once, and one that is *)
(* reported as an error left nothing behind unless a commit's answer was   *)
(* lost, however many jobs and rows run, and whenever the process dies.    *)
THEOREM ReportedTheorem == Spec => []ReportedIsSaved
<1>1. SavedInv => ReportedIsSaved
  BY DEF SavedInv, RowAgrees, Early, ReportedIsSaved
<1> QED
  BY <1>1, SavedInvariant, PTL

-----------------------------------------------------------------------------
(* What a poll shows. *)

Finished(j) == {r \in RowsOf[j] : row[j][r] = "finished"}
DecidedRows(j) == {r \in RowsOf[j] : out[j][r] # "none"}

(* processed never runs ahead of the outcomes, and done means all of them. *)
Progress(j) ==
  /\ processed[j] \in Nat
  /\ phase[j] \in {"none", "resolving", "unknown", "gone"} => processed[j] = 0
  /\ phase[j] = "rows" => processed[j] = Cardinality(Finished(j))
  /\ processed[j] <= Cardinality(DecidedRows(j))
  /\ status[j] \in {"queued", "running", "done"}
  /\ status[j] = "done" => phase[j] = "over" /\ DecidedRows(j) = RowsOf[j]

(* The half of a copy that is made first stays true while rows go on.      *)
Honest(j) ==
  /\ seen[j] \in [status : {"none", "queued", "running", "done"}, processed : Int, decided : Int]
  /\ seen[j].status # "none" =>
       /\ seen[j].processed <= Cardinality(DecidedRows(j))
       /\ seen[j].status = "done" => DecidedRows(j) = RowsOf[j]
       /\ seen[j].decided # NotYet =>
            /\ seen[j].processed <= seen[j].decided
            /\ seen[j].status = "done" => seen[j].decided = Cardinality(RowsOf[j])

PollInv ==
  /\ processed = [j \in Jobs |-> processed[j]] /\ seen = [j \in Jobs |-> seen[j]]
  /\ \A j \in Jobs : Progress(j) /\ Honest(j)

(* Sets of rows are finite, and a larger one has no fewer.                 *)
LEMMA RowSets ==
  ASSUME NEW j \in Jobs, NEW B, B \subseteq RowsOf[j], NEW A, A \subseteq B
  PROVE  /\ IsFiniteSet(A) /\ Cardinality(A) \in Nat /\ Cardinality(B) \in Nat
         /\ Cardinality(A) <= Cardinality(B)
<1>1. IsFiniteSet(RowsOf[j])
  BY BulkAssumption
<1>2. IsFiniteSet(B)
  BY <1>1, FS_Subset
<1> QED
  BY <1>2, FS_Subset, FS_CardinalityType

(* An outcome, once there, stays until the process dies.                   *)
LEMMA DecidedGrows ==
  ASSUME SavedInv, [Next]_vars, ~Crash, NEW j \in Jobs
  PROVE  DecidedRows(j) \subseteq DecidedRows(j)'
<1>1. CASE out' = out
  BY <1>1 DEF DecidedRows
<1>2. ASSUME NEW k \in Jobs, NEW r \in RowsOf[k], RecordRow(k, r)
      PROVE  DecidedRows(j) \subseteq DecidedRows(j)'
  <2> DEFINE said == IF row[k][r] = "saved" THEN "scored" ELSE "error"
  <2>1. Grid(out) /\ Sets(out, out', k, r, said)
    BY <1>2 DEF RecordRow, Sets, SavedInv, Shape
  <2>2. out'[k][r] # "none" /\ OthersSame(out, out', k, r)
    BY <2>1, SetOne
  <2> QED
    BY <2>2 DEF DecidedRows, OthersSame
<1>3. ASSUME NEW k \in Jobs, out' = [out EXCEPT ![k] = [r \in RowsOf[k] |-> "error"]]
      PROVE  DecidedRows(j) \subseteq DecidedRows(j)'
  BY <1>3 DEF DecidedRows, SavedInv, Shape, Grid
<1>4. ASSUME NEW k \in Jobs, Request(k) \/ Poll(k)
      PROVE  out' = out
  BY <1>4 DEF Request, CountInflight, CountRaises, Create, EvictNext, Answer, Poll, run
<1>5. ASSUME NEW k \in Jobs, JobStep(k)
      PROVE  out' = out \/ out' = [out EXCEPT ![k] = [r \in RowsOf[k] |-> "error"]]
  BY <1>5 DEF JobStep, Begin, ResolveTenant, CountAll, End
<1>6. ASSUME NEW k \in Jobs, NEW r \in RowsOf[k], RowStep(k, r)
      PROVE  out' = out \/ RecordRow(k, r)
  BY <1>6 DEF RowStep, Admit, Fetch, Fetched, Score, Scored, CountRow
<1>7. CASE UNCHANGED vars
  BY <1>1, <1>7 DEF vars
<1>8. CASE Next
  BY <1>1, <1>2, <1>3, <1>4, <1>5, <1>6, <1>8 DEF Next
<1> QED
  BY <1>7, <1>8

(* Nothing is counted or copied at the start.                              *)
LEMMA PollInit == Init => PollInv
<1> SUFFICES ASSUME Init
             PROVE  PollInv
  OBVIOUS
<1>1. ASSUME NEW j \in Jobs
      PROVE  Progress(j) /\ Honest(j)
  <2>1. Cardinality(DecidedRows(j)) \in Nat
    BY RowSets DEF DecidedRows
  <2> QED
    BY <2>1 DEF Init, Progress, Honest, Unread, NotYet
<1> QED
  BY <1>1 DEF Init, PollInv

(* What an outcome more does to a job: nothing that undoes its progress or *)
(* a copy a client has begun.                                              *)
LEMMA DecidedCounts ==
  ASSUME SavedInv, [Next]_vars, ~Crash, NEW j \in Jobs
  PROVE  /\ Cardinality(DecidedRows(j)) \in Nat /\ Cardinality(DecidedRows(j)') \in Nat
         /\ Cardinality(DecidedRows(j)) <= Cardinality(DecidedRows(j)')
         /\ DecidedRows(j) = RowsOf[j] => DecidedRows(j)' = RowsOf[j]
<1>1. DecidedRows(j) \subseteq DecidedRows(j)' /\ DecidedRows(j)' \subseteq RowsOf[j]
  BY DecidedGrows DEF DecidedRows
<1>2. /\ Cardinality(DecidedRows(j)) \in Nat /\ Cardinality(DecidedRows(j)') \in Nat
      /\ Cardinality(DecidedRows(j)) <= Cardinality(DecidedRows(j)')
  BY <1>1, RowSets
<1>3. DecidedRows(j) = RowsOf[j] => DecidedRows(j)' = RowsOf[j]
  BY <1>1
<1> QED
  BY <1>2, <1>3

(* What a client has copied stays true of the job.                         *)
LEMMA CopyHolds ==
  ASSUME SavedInv, [Next]_vars, ~Crash, NEW j \in Jobs, Honest(j), seen'[j] = seen[j]
  PROVE  Honest(j)'
<1>1. seen[j].processed \in Int
  BY DEF Honest
<1> QED
  BY <1>1, DecidedCounts DEF Honest

(* A step that counts no row of a job and does not end it.                 *)
LEMMA ProgressHolds ==
  ASSUME SavedInv, [Next]_vars, ~Crash, NEW j \in Jobs, Progress(j),
         processed'[j] = processed[j],
         \/ /\ status'[j] = status[j] /\ phase'[j] = phase[j]
            /\ phase[j] = "rows" => Finished(j)' = Finished(j)
         \/ /\ status'[j] = "running" /\ phase[j] = "none" /\ phase'[j] = "resolving"
         \/ /\ status'[j] = status[j] /\ phase[j] = "resolving"
            /\ \/ phase'[j] \in {"over", "unknown"}
               \/ phase'[j] = "rows" /\ Finished(j)' = {}
  PROVE  Progress(j)'
<1>1. Cardinality({}) = 0
  BY FS_EmptySet
<1>2. CASE status'[j] = status[j] /\ phase'[j] = phase[j]
  BY <1>2, DecidedCounts DEF Progress
<1>3. CASE phase'[j] # phase[j]
  BY <1>1, <1>3, DecidedCounts DEF Progress
<1> QED
  BY <1>2, <1>3

(* A step of a row's task before it is counted.                            *)
LEMMA RowStepPoll ==
  ASSUME SavedInv, PollInv, NEW j \in Jobs, NEW r \in RowsOf[j],
         RowStep(j, r), ~CountRow(j, r), [Next]_vars, ~Crash
  PROVE  PollInv'
<1>1. /\ UNCHANGED <<phase, status, processed, seen>>
      /\ row[j][r] # "finished" /\ \E to : to # "finished" /\ Move(j, r, to)
  BY DEF RowStep, Admit, Fetch, Fetched, Score, Scored, RecordRow
<1>2. PICK to : to # "finished" /\ Sets(row, row', j, r, to)
  BY <1>1 DEF Move, Sets
<1>3. row'[j][r] = to /\ OthersSame(row, row', j, r)
  BY <1>2, SetOne DEF SavedInv, Shape
<1>4. \A k \in Jobs : Finished(k)' = Finished(k)
  BY <1>1, <1>2, <1>3 DEF Finished, OthersSame
<1>5. \A k \in Jobs : Progress(k) /\ Honest(k)
  BY DEF PollInv
<1>6. \A k \in Jobs : Progress(k)'
  BY <1>1, <1>4, <1>5, ProgressHolds
<1>7. \A k \in Jobs : Honest(k)'
  BY <1>1, <1>5, CopyHolds
<1> QED
  BY <1>1, <1>6, <1>7 DEF PollInv

(* A row is counted after it has an outcome.                               *)
LEMMA CountRowPoll ==
  ASSUME SavedInv, PollInv, NEW j \in Jobs, NEW r \in RowsOf[j], CountRow(j, r), [Next]_vars
  PROVE  PollInv'
<1>1. /\ phase[j] = "rows" /\ row[j][r] = "recorded"
      /\ processed' = [processed EXCEPT ![j] = @ + 1]
      /\ UNCHANGED <<phase, status, out, seen>> /\ Sets(row, row', j, r, "finished")
  BY DEF CountRow, Move, Sets
<1>0. ~Crash
  BY <1>1 DEF Crash, SavedInv, Shape, NotBegun
<1>2. row'[j][r] = "finished" /\ OthersSame(row, row', j, r)
  BY <1>1, SetOne DEF SavedInv, Shape
<1>3. \A k \in Jobs \ {j} : Finished(k)' = Finished(k) /\ processed'[k] = processed[k]
  BY <1>1, <1>2 DEF Finished, OthersSame, PollInv
<1>4. Finished(j)' = Finished(j) \cup {r} /\ r \notin Finished(j)
  BY <1>1, <1>2 DEF Finished, OthersSame
<1>5. /\ Cardinality(Finished(j)') = Cardinality(Finished(j)) + 1
      /\ processed'[j] = Cardinality(Finished(j)')
      /\ Cardinality(Finished(j)') \in Nat
  <2>1. IsFiniteSet(Finished(j)) /\ Cardinality(Finished(j)) \in Nat
    BY RowSets DEF Finished
  <2>2. Cardinality(Finished(j)') = Cardinality(Finished(j)) + 1
    BY <1>4, <2>1, FS_AddElement
  <2>3. processed[j] = Cardinality(Finished(j)) /\ processed'[j] = processed[j] + 1
    BY <1>1 DEF PollInv, Progress
  <2> QED
    BY <2>1, <2>2, <2>3
<1>6. Finished(j)' \subseteq DecidedRows(j)'
  BY <1>1, <1>4 DEF Finished, DecidedRows, SavedInv, RowAgrees, Early
<1>7. Cardinality(Finished(j)') <= Cardinality(DecidedRows(j)')
  BY <1>6, RowSets DEF DecidedRows
<1>8. Progress(j)'
  BY <1>1, <1>5, <1>7 DEF PollInv, Progress
<1>9. \A k \in Jobs : Progress(k)'
  BY <1>0, <1>1, <1>3, <1>8, ProgressHolds DEF PollInv
<1>10. \A k \in Jobs : Honest(k)'
  BY <1>0, <1>1, CopyHolds DEF PollInv
<1> QED
  BY <1>1, <1>9, <1>10 DEF PollInv

(* The request and the tenant lookup leave progress alone; the task starts *)
(* it.                                                                     *)
LEMMA QuietStepPoll ==
  ASSUME SavedInv, PollInv, NEW j \in Jobs, Request(j) \/ Begin(j) \/ ResolveTenant(j),
         [Next]_vars, ~Crash
  PROVE  PollInv'
<1>1. UNCHANGED <<row, processed, seen>>
  BY DEF Request, CountInflight, CountRaises, Create, EvictNext, Answer, run, Begin, ResolveTenant
<1>2. \A k \in Jobs : Finished(k)' = Finished(k)
  BY <1>1 DEF Finished
<1>3. \A k \in Jobs : phase[k] = "resolving" => Finished(k)' = {}
  BY <1>1 DEF Finished, SavedInv, RowAgrees
<1>4. ASSUME NEW k \in Jobs
      PROVE  \/ status'[k] = status[k] /\ phase'[k] = phase[k]
             \/ status'[k] = "running" /\ phase[k] = "none" /\ phase'[k] = "resolving"
             \/ /\ status'[k] = status[k] /\ phase[k] = "resolving"
                /\ phase'[k] \in {"over", "unknown", "rows"}
  BY DEF Request, CountInflight, CountRaises, Create, EvictNext, Answer, run, Begin, ResolveTenant,
         SavedInv, Shape
<1>5. \A k \in Jobs : Progress(k)'
  BY <1>1, <1>2, <1>3, <1>4, ProgressHolds DEF PollInv
<1>6. \A k \in Jobs : Honest(k)'
  BY <1>1, CopyHolds DEF PollInv
<1> QED
  BY <1>1, <1>5, <1>6 DEF PollInv

(* An unknown tenant's rows all have the error before they are counted.    *)
LEMMA CountAllPoll ==
  ASSUME SavedInv, PollInv, NEW j \in Jobs, CountAll(j), [Next]_vars, ~Crash
  PROVE  PollInv'
<1>1. /\ phase[j] = "unknown" /\ UNCHANGED <<status, row, out, seen>>
      /\ processed' = [processed EXCEPT ![j] = Cardinality(RowsOf[j])]
      /\ phase' = [phase EXCEPT ![j] = "rejected"]
  BY DEF CountAll
<1>2. DecidedRows(j)' = RowsOf[j]
  BY <1>1 DEF DecidedRows, SavedInv, RowAgrees
<1>3. Cardinality(RowsOf[j]) \in Nat
  BY RowSets
<1>4. /\ processed'[j] = Cardinality(RowsOf[j]) /\ phase'[j] = "rejected"
      /\ \A k \in Jobs \ {j} : processed'[k] = processed[k] /\ phase'[k] = phase[k]
  BY <1>1 DEF SavedInv, Shape, PollInv
<1>5. Progress(j)'
  BY <1>1, <1>2, <1>3, <1>4 DEF PollInv, Progress
<1>6. \A k \in Jobs : Finished(k)' = Finished(k)
  BY <1>1 DEF Finished
<1>7. \A k \in Jobs : Progress(k)'
  BY <1>1, <1>4, <1>5, <1>6, ProgressHolds DEF PollInv
<1>8. \A k \in Jobs : Honest(k)'
  BY <1>1, CopyHolds DEF PollInv
<1> QED
  BY <1>1, <1>7, <1>8 DEF PollInv

(* A job ends when every row has an outcome.                               *)
LEMMA EndPoll ==
  ASSUME SavedInv, PollInv, NEW j \in Jobs, End(j), [Next]_vars, ~Crash
  PROVE  PollInv'
<1>1. /\ UNCHANGED <<processed, row, out, seen>>
      /\ status' = [status EXCEPT ![j] = "done"]
      /\ phase' = [phase EXCEPT ![j] = "over"]
  BY DEF End
<1>2. \A r \in RowsOf[j] : out[j][r] # "none"
  <2>1. CASE phase[j] = "rejected"
    BY <2>1 DEF SavedInv, RowAgrees
  <2>2. CASE phase[j] = "rows" /\ RowsIn(j, {"finished"}) = RowsOf[j]
    <3>1. \A r \in RowsOf[j] : row[j][r] = "finished"
      BY <2>2 DEF RowsIn
    <3> QED
      BY <2>2, <3>1 DEF SavedInv, RowAgrees, Early
  <2> QED
    BY <2>1, <2>2 DEF End
<1>3. DecidedRows(j) = RowsOf[j] /\ DecidedRows(j)' = RowsOf[j]
  BY <1>1, <1>2 DEF DecidedRows
<1>4. /\ status'[j] = "done" /\ phase'[j] = "over"
      /\ \A k \in Jobs \ {j} : status'[k] = status[k] /\ phase'[k] = phase[k]
  BY <1>1 DEF SavedInv, Shape
<1>5. Progress(j)'
  BY <1>1, <1>3, <1>4 DEF PollInv, Progress
<1>6. \A k \in Jobs : Finished(k)' = Finished(k)
  BY <1>1 DEF Finished
<1>7. \A k \in Jobs : Progress(k)'
  BY <1>1, <1>4, <1>5, <1>6, ProgressHolds DEF PollInv
<1>8. \A k \in Jobs : Honest(k)'
  BY <1>1, CopyHolds DEF PollInv
<1> QED
  BY <1>1, <1>4, <1>7, <1>8 DEF PollInv

(* A poll of one job leaves the others' alone.                             *)
LEMMA PollOne ==
  ASSUME SavedInv, PollInv, NEW j \in Jobs, NEW copy, seen' = [seen EXCEPT ![j] = copy],
         UNCHANGED <<status, phase, row, out, processed>>, [Next]_vars, ~Crash, Honest(j)'
  PROVE  PollInv'
<1>1. \A k \in Jobs : Finished(k)' = Finished(k)
  BY DEF Finished
<1>2. \A k \in Jobs : Progress(k)'
  BY <1>1, ProgressHolds DEF PollInv
<1>3. \A k \in Jobs \ {j} : Honest(k)'
  BY CopyHolds DEF PollInv
<1> QED
  BY <1>2, <1>3 DEF PollInv

(* The two halves of a poll's copy.                                        *)
LEMMA PollPoll ==
  ASSUME SavedInv, PollInv, NEW j \in Jobs, Poll(j), [Next]_vars, ~Crash
  PROVE  PollInv'
<1>1. /\ UNCHANGED <<status, phase, row, out, processed>>
      /\ Progress(j) /\ Honest(j)
  BY DEF Poll, run, PollInv
<1>2. DecidedRows(j)' = DecidedRows(j) /\ Cardinality(DecidedRows(j)) \in Nat
  BY <1>1, RowSets DEF DecidedRows
<1>3. Decided(j) = Cardinality(DecidedRows(j))
  BY DEF Decided, DecidedRows
<1>4. CASE seen' = [seen EXCEPT ![j] = [Unread EXCEPT !.status = status[j],
                                                     !.processed = processed[j]]]
  <2>1. seen'[j] = [status |-> status[j], processed |-> processed[j], decided |-> NotYet]
    BY <1>4 DEF Unread, PollInv
  <2>2. Honest(j)'
    BY <1>1, <1>2, <2>1 DEF Honest, Progress, NotYet
  <2> QED
    BY <1>1, <1>4, <2>2, PollOne
<1>5. CASE seen[j].status # "none" /\ seen' = [seen EXCEPT ![j].decided = Decided(j)]
  <2>1. /\ seen'[j].status = seen[j].status /\ seen'[j].processed = seen[j].processed
        /\ seen'[j].decided = Decided(j)
        /\ seen'[j] \in [status : {"none", "queued", "running", "done"},
                         processed : Int, decided : Int]
    BY <1>1, <1>2, <1>3, <1>5 DEF Honest, PollInv
  <2>2. Honest(j)'
    BY <1>1, <1>2, <1>3, <1>5, <2>1 DEF Honest
  <2> QED
    BY <1>1, <1>5, <2>2, PollOne
<1> QED
  BY <1>4, <1>5 DEF Poll

(* After a death there is no job to poll.                                  *)
LEMMA CrashPoll == SavedInv /\ PollInv /\ Crash => PollInv'
<1> SUFFICES ASSUME SavedInv, PollInv, Crash
             PROVE  PollInv'
  OBVIOUS
<1>1. ASSUME NEW j \in Jobs
      PROVE  Progress(j)' /\ Honest(j)'
  <2>1. /\ processed'[j] = 0 /\ status'[j] = "queued" /\ seen'[j] = Unread
        /\ phase'[j] = IF post[j] \in {"new", "refused"} THEN phase[j] ELSE "gone"
    BY DEF Crash
  <2>2. phase'[j] \in {"none", "gone"}
    BY <2>1 DEF SavedInv, NotBegun
  <2>3. Cardinality(DecidedRows(j)') \in Nat
    BY RowSets DEF DecidedRows
  <2> QED
    BY <2>1, <2>2, <2>3 DEF Progress, Honest, Unread, NotYet
<1> QED
  BY <1>1 DEF PollInv, Crash

(* Progress, outcomes and the copies clients hold agree in every reachable *)
(* state.                                                                  *)
THEOREM PollInvariant == Spec => []PollInv
<1>1. SavedInv /\ PollInv /\ [Next]_vars => PollInv'
  <2> SUFFICES ASSUME SavedInv, PollInv, [Next]_vars
               PROVE  PollInv'
    OBVIOUS
  <2>1. CASE Crash
    BY <2>1, CrashPoll
  <2>2. CASE UNCHANGED vars
    <3>1. UNCHANGED <<status, phase, row, out, processed, seen>>
      BY <2>2 DEF vars
    <3>2. \A j \in Jobs : DecidedRows(j)' = DecidedRows(j) /\ Finished(j)' = Finished(j)
      BY <3>1 DEF DecidedRows, Finished
    <3>3. \A j \in Jobs : Progress(j)' /\ Honest(j)'
      BY <3>1, <3>2 DEF PollInv, Progress, Honest
    <3> QED
      BY <3>1, <3>3 DEF PollInv
  <2>3. ASSUME ~Crash, NEW j \in Jobs, Request(j) \/ JobStep(j) \/ Poll(j)
        PROVE  PollInv'
    <3>1. CASE CountAll(j)
      BY <2>3, <3>1, CountAllPoll
    <3>2. CASE End(j)
      BY <2>3, <3>2, EndPoll
    <3>3. CASE Poll(j)
      BY <2>3, <3>3, PollPoll
    <3>4. CASE Request(j) \/ Begin(j) \/ ResolveTenant(j)
      BY <2>3, <3>4, QuietStepPoll
    <3> QED
      BY <2>3, <3>1, <3>2, <3>3, <3>4 DEF JobStep
  <2>4. ASSUME ~Crash, NEW j \in Jobs, NEW r \in RowsOf[j], RowStep(j, r)
        PROVE  PollInv'
    BY <2>4, RowStepPoll, CountRowPoll
  <2> QED
    BY <2>1, <2>2, <2>3, <2>4 DEF Next
<1> QED
  BY <1>1, PollInit, SavedInvariant, PTL DEF Spec

(* A poll never claims more rows than it shows an outcome for, and one     *)
(* that says done shows them all, however the copy is torn by the rows     *)
(* that finish while it is made.                                           *)
THEOREM PollTheorem == Spec => []PollIsHonest
<1>1. PollInv => PollIsHonest
  BY DEF PollInv, Honest, PollIsHonest
<1> QED
  BY <1>1, PollInvariant, PTL
-----------------------------------------------------------------------------
(* The registry and its limits. *)

(* What the proofs need to know of types, beyond SavedInv and PollInv: a   *)
(* job is registered once, and only a POST that is evicting has a sweep.   *)
RegShape ==
  /\ registry \in Seq(Jobs)
  /\ \A i, p \in DOMAIN registry : registry[i] = registry[p] => i = p
  /\ post \in [Jobs -> {"new", "counted", "evicting", "answered", "refused", "failed"}]
  /\ sweep \in [Jobs -> Seq(Jobs)]
  /\ \A j \in Jobs : sweep[j] # <<>> => post[j] = "evicting"
  /\ \A j \in Jobs :
       phase[j] \in {"none", "resolving", "rows", "unknown", "rejected", "over", "gone"}
  /\ lost \in 0..MaxLost /\ crashes \in 0..MaxCrashes

(* Which jobs the registry holds.                                          *)
Present(j) ==
  /\ j \in Registered => post[j] \in {"evicting", "answered", "failed"}
  /\ post[j] = "evicting" => j \in Registered
  /\ post[j] = "answered" /\ status[j] # "done" /\ phase[j] # "gone" => j \in Registered

(* Every count that has been taken but not yet been registered is in a     *)
(* thread of the pool, so the jobs that run and those about to be          *)
(* registered exceed the limit by fewer than there are threads.            *)
Busy    == {j \in Jobs : post[j] \in {"counted", "evicting"}}
Counted == {j \in Jobs : post[j] = "counted"}
Live    == {j \in Registered : status[j] # "done"}

LimitInv ==
  /\ IsFiniteSet(Busy) /\ Cardinality(Busy) <= POOL_THREADS
  /\ Cardinality(Live) + Cardinality(Counted) <= MostInflight

(* x was registered no later than k.                                       *)
Ahead(s, x, k) == \E p \in DOMAIN s : \E i \in 1..p : s[i] = x /\ s[p] = k

(* The jobs that were there when k was created and will be there when its  *)
(* sweep has ended, whatever the other sweeps do.                          *)
Held(k) ==
  {x \in Registered : Ahead(registry, x, k) /\ (x \notin ToSet(sweep[k]) \/ status[x] # "done")}

AtMostBound(n) == n <= MAX_RETAINED_JOBS \/ n <= MostInflight

HeldInv ==
  \A k \in Registered : post[k] \in {"evicting", "answered"} => AtMostBound(Cardinality(Held(k)))

RegInv == RegShape /\ (\A j \in Jobs : Present(j)) /\ LimitInv /\ HeldInv

(* A sequence with one entry taken out.                                    *)
LEMMA Removed ==
  ASSUME NEW S, NEW s \in Seq(S), NEW q \in DOMAIN s
  PROVE  /\ RemoveAt(s, q) \in Seq(S)
         /\ Len(RemoveAt(s, q)) = Len(s) - 1
         /\ \A i \in 1..Len(RemoveAt(s, q)) :
              RemoveAt(s, q)[i] = IF i < q THEN s[i] ELSE s[i + 1]
<1> DEFINE a == SubSeq(s, 1, q - 1)
           b == SubSeq(s, q + 1, Len(s))
<1>1. q \in 1..Len(s) /\ Len(s) \in Nat
  OBVIOUS
<1>2. a \in Seq(S) /\ Len(a) = q - 1 /\ \A i \in 1..(q - 1) : a[i] = s[i]
  BY <1>1, SubSeqProperties
<1>3. b \in Seq(S) /\ Len(b) = Len(s) - q /\ \A i \in 1..(Len(s) - q) : b[i] = s[q + i]
  BY <1>1, SubSeqProperties
<1>4. RemoveAt(s, q) = a \o b
  BY DEF RemoveAt
<1> HIDE DEF a, b
<1>5. /\ a \o b \in Seq(S) /\ Len(a \o b) = Len(a) + Len(b)
      /\ \A i \in 1..Len(a) + Len(b) : (a \o b)[i] = IF i <= Len(a) THEN a[i] ELSE b[i - Len(a)]
  BY <1>2, <1>3, ConcatProperties
<1>6. Len(a \o b) = Len(s) - 1
  BY <1>1, <1>2, <1>3, <1>5
<1>7. ASSUME NEW i \in 1..Len(a \o b)
      PROVE  (a \o b)[i] = IF i < q THEN s[i] ELSE s[i + 1]
  <2>1. CASE i < q
    BY <1>1, <1>2, <1>5, <1>6, <1>3, <1>7, <2>1
  <2>2. CASE i >= q
    <3>1. i - (q - 1) \in 1..(Len(s) - q) /\ q + (i - (q - 1)) = i + 1
      BY <1>1, <1>6, <1>7, <2>2
    <3>2. (a \o b)[i] = b[i - (q - 1)]
      BY <1>1, <1>2, <1>3, <1>5, <1>6, <1>7, <2>2
    <3> QED BY <1>3, <2>2, <3>1, <3>2
  <2> QED BY <1>1, <1>7, <2>1, <2>2
<1> QED BY <1>4, <1>5, <1>6, <1>7

(* Nothing occurs twice.                                                   *)
Distinct(s) == \A i, p \in DOMAIN s : s[i] = s[p] => i = p

(* What one entry less means for the members and their order.              *)
LEMMA RemovedMembers ==
  ASSUME NEW S, NEW s \in Seq(S), Distinct(s), NEW q \in DOMAIN s,
         NEW t, t = RemoveAt(s, q)
  PROVE  /\ t \in Seq(S) /\ Len(t) < Len(s) /\ Distinct(t)
         /\ ToSet(t) = ToSet(s) \ {s[q]}
         /\ \A x, k : Ahead(t, x, k) => Ahead(s, x, k)
<1> DEFINE at(i) == IF i < q THEN i ELSE i + 1
<1>1. /\ t \in Seq(S) /\ Len(t) = Len(s) - 1 /\ Len(s) \in Nat
      /\ q \in 1..Len(s) /\ DOMAIN s = 1..Len(s) /\ DOMAIN t = 1..Len(t)
      /\ \A i \in 1..Len(t) : t[i] = s[at(i)]
  BY Removed
<1>2. \A i \in 1..Len(t) : at(i) \in 1..Len(s) /\ at(i) # q
  BY <1>1
<1>3. \A i, p \in 1..Len(t) : (at(i) = at(p) => i = p) /\ (i <= p => at(i) <= at(p))
  BY <1>1
<1>4. \A i \in 1..Len(s) : i # q => \E p \in 1..Len(t) : at(p) = i
  <2> SUFFICES ASSUME NEW i \in 1..Len(s), i # q
               PROVE  \E p \in 1..Len(t) : at(p) = i
    OBVIOUS
  <2>1. CASE i < q
    BY <1>1, <2>1
  <2>2. CASE i > q
    <3>1. i - 1 \in 1..Len(t) /\ at(i - 1) = i
      BY <1>1, <2>2
    <3> QED BY <3>1
  <2> QED BY <1>1, <2>1, <2>2
<1> HIDE DEF at
<1>5. Distinct(t)
  BY <1>1, <1>2, <1>3 DEF Distinct
<1>6. ToSet(t) = ToSet(s) \ {s[q]}
  <2>1. \A i \in 1..Len(t) : t[i] \in ToSet(s) /\ t[i] # s[q]
    BY <1>1, <1>2 DEF ToSet, Distinct
  <2>2. \A i \in 1..Len(s) : i # q => s[i] \in ToSet(t)
    BY <1>1, <1>4 DEF ToSet
  <2>3. ToSet(t) \subseteq ToSet(s) \ {s[q]}
    BY <1>1, <2>1 DEF ToSet
  <2>4. ToSet(s) \ {s[q]} \subseteq ToSet(t)
    BY <1>1, <2>2 DEF ToSet
  <2> QED BY <2>3, <2>4
<1>7. ASSUME NEW x, NEW k, Ahead(t, x, k)
      PROVE  Ahead(s, x, k)
  <2>1. PICK p \in 1..Len(t), i \in 1..Len(t) : i <= p /\ t[i] = x /\ t[p] = k
    BY <1>1, <1>7 DEF Ahead
  <2>2. at(p) \in 1..Len(s) /\ at(i) \in 1..at(p) /\ s[at(i)] = x /\ s[at(p)] = k
    BY <1>1, <1>2, <1>3, <2>1
  <2> QED BY <1>1, <2>2 DEF Ahead
<1> QED BY <1>1, <1>5, <1>6, <1>7

(* What one entry more means for them.                                     *)
LEMMA AppendedMembers ==
  ASSUME NEW S, NEW s \in Seq(S), Distinct(s), NEW j \in S, j \notin ToSet(s)
  PROVE  /\ Append(s, j) \in Seq(S) /\ Distinct(Append(s, j))
         /\ ToSet(Append(s, j)) = ToSet(s) \cup {j}
         /\ \A x, k : k # j /\ Ahead(Append(s, j), x, k) => Ahead(s, x, k)
<1> DEFINE t == Append(s, j)
<1>1. /\ t \in Seq(S) /\ Len(t) = Len(s) + 1 /\ Len(s) \in Nat
      /\ DOMAIN s = 1..Len(s) /\ DOMAIN t = 1..(Len(s) + 1)
      /\ \A i \in 1..Len(s) : t[i] = s[i]
      /\ t[Len(s) + 1] = j
  BY AppendProperties
<1> HIDE DEF t
<1>2. Distinct(t)
  BY <1>1 DEF Distinct, ToSet
<1>3. ToSet(t) = ToSet(s) \cup {j}
  BY <1>1 DEF ToSet
<1>4. ASSUME NEW x, NEW k, k # j, Ahead(t, x, k)
      PROVE  Ahead(s, x, k)
  <2>1. PICK p \in 1..(Len(s) + 1), i \in 1..(Len(s) + 1) : i <= p /\ t[i] = x /\ t[p] = k
    BY <1>1, <1>4 DEF Ahead
  <2>2. p \in 1..Len(s) /\ i \in 1..Len(s)
    BY <1>1, <1>4, <2>1
  <2> QED BY <1>1, <2>1, <2>2 DEF Ahead
<1> QED BY <1>1, <1>2, <1>3, <1>4 DEF t

(* The members of a sequence are finitely many, at most its length, and    *)
(* exactly that when nothing occurs twice.                                 *)
LEMMA Members ==
  ASSUME NEW S, NEW s \in Seq(S), Distinct(s)
  PROVE  /\ ToSet(s) \subseteq S /\ IsFiniteSet(ToSet(s)) /\ Cardinality(ToSet(s)) = Len(s)
         /\ Len(s) \in Nat
<1> DEFINE f == [i \in 1..Len(s) |-> s[i]]
<1>1. Len(s) \in Nat /\ DOMAIN s = 1..Len(s) /\ \A i \in 1..Len(s) : s[i] \in S
  OBVIOUS
<1>2. f \in Bijection(1..Len(s), ToSet(s))
  BY <1>1 DEF Bijection, Injection, Surjection, IsInjective, Distinct, ToSet
<1>3. IsFiniteSet(1..Len(s))
  BY <1>1, FiniteRange
<1>4. ExistsBijection(1..Len(s), ToSet(s))
  BY <1>2, Zenon DEF ExistsBijection
<1> HIDE DEF f
<1>5. IsFiniteSet(ToSet(s))
  BY <1>3, <1>4, FS_Bijection
<1>6. Cardinality(ToSet(s)) = Len(s)
  BY <1>1, <1>4, FS_CountingElements
<1> QED BY <1>1, <1>5, <1>6 DEF ToSet

(* The registry is a finite set of jobs, and so is each part of it.        *)
LEMMA RegisteredSet ==
  ASSUME RegShape
  PROVE  /\ Registered \subseteq Jobs /\ IsFiniteSet(Registered)
         /\ Cardinality(Registered) = Len(registry) /\ Len(registry) \in Nat
         /\ \A A \in SUBSET Registered :
              /\ IsFiniteSet(A) /\ Cardinality(A) \in Nat
              /\ Cardinality(A) <= Cardinality(Registered)
<1>1. registry \in Seq(Jobs) /\ Distinct(registry)
  BY DEF RegShape, Distinct
<1>2. /\ Registered \subseteq Jobs /\ IsFiniteSet(Registered)
      /\ Cardinality(Registered) = Len(registry) /\ Len(registry) \in Nat
  BY <1>1, Members DEF Registered
<1>3. ASSUME NEW A \in SUBSET Registered
      PROVE  /\ IsFiniteSet(A) /\ Cardinality(A) \in Nat
             /\ Cardinality(A) <= Cardinality(Registered)
  BY <1>2, <1>3, FS_Subset, FS_CardinalityType
<1> QED BY <1>2, <1>3

(* Of two parts of the registry, in two states, the larger set has no      *)
(* fewer members.                                                          *)
LEMMA Fewer ==
  ASSUME NEW B, IsFiniteSet(B), NEW A, A \subseteq B
  PROVE  /\ IsFiniteSet(A) /\ Cardinality(A) \in Nat /\ Cardinality(B) \in Nat
         /\ Cardinality(A) <= Cardinality(B)
<1>1. IsFiniteSet(A) /\ Cardinality(A) <= Cardinality(B)
  BY FS_Subset
<1> QED BY <1>1, FS_CardinalityType

(* A job that is not done has not begun or is on its way; only a begun job *)
(* can be done.                                                            *)
LEMMA NotDone ==
  ASSUME SavedInv, PollInv, NEW j \in Jobs, post[j] \in {"new", "counted", "evicting", "refused"}
  PROVE  status[j] # "done" /\ phase[j] = "none"
BY DEF SavedInv, PollInv, NotBegun, Progress

(* The bounds are numbers.                                                 *)
LEMMA Bounds ==
  /\ MAX_INFLIGHT_JOBS \in Nat /\ POOL_THREADS \in Nat /\ MAX_RETAINED_JOBS \in Nat
  /\ MostInflight \in Nat /\ MostInflight = MAX_INFLIGHT_JOBS - 1 + POOL_THREADS
<1>1. /\ MAX_INFLIGHT_JOBS \in Nat \ {0} /\ POOL_THREADS \in Nat \ {0}
      /\ MAX_RETAINED_JOBS \in Nat \ {0}
  BY BulkAssumption
<1> QED BY <1>1 DEF MostInflight

(* Nothing is registered at the start.                                     *)
LEMMA RegInit == Init => RegInv
<1> SUFFICES ASSUME Init
             PROVE  RegInv
  OBVIOUS
<1>1. registry = <<>> /\ Registered = {}
  BY DEF Init, Registered, ToSet
<1>2. RegShape
  BY <1>1, BulkAssumption DEF Init, RegShape
<1>3. \A j \in Jobs : Present(j)
  BY <1>1 DEF Init, Present
<1>4. Busy = {} /\ Counted = {} /\ Live = {}
  BY <1>1 DEF Init, Busy, Counted, Live
<1>5. LimitInv
  BY <1>4, Bounds, FS_EmptySet DEF LimitInv
<1> QED BY <1>1, <1>2, <1>3, <1>5 DEF RegInv, HeldInv

(* What is counted and what runs only shrinks.                             *)
LEMMA LimitHolds ==
  ASSUME RegShape, LimitInv,
         Busy' \subseteq Busy, Counted' \subseteq Counted, Live' \subseteq Live
  PROVE  LimitInv'
<1>1. IsFiniteSet(Busy) /\ Counted \subseteq Busy /\ Live \subseteq Registered
  BY DEF LimitInv, Counted, Busy, Live
<1>2. IsFiniteSet(Counted) /\ IsFiniteSet(Live)
  BY <1>1, Fewer, RegisteredSet
<1>3. /\ IsFiniteSet(Busy') /\ Cardinality(Busy') \in Nat /\ Cardinality(Busy) \in Nat
      /\ Cardinality(Busy') <= Cardinality(Busy)
  BY <1>1, Fewer
<1>4. /\ Cardinality(Counted') \in Nat /\ Cardinality(Counted) \in Nat
      /\ Cardinality(Counted') <= Cardinality(Counted)
  BY <1>2, Fewer
<1>5. /\ Cardinality(Live') \in Nat /\ Cardinality(Live) \in Nat
      /\ Cardinality(Live') <= Cardinality(Live)
  BY <1>2, Fewer
<1> QED BY <1>3, <1>4, <1>5, Bounds DEF LimitInv

(* What a sweep will leave only shrinks.                                   *)
LEMMA HeldHolds ==
  ASSUME RegShape, NEW k \in Jobs, AtMostBound(Cardinality(Held(k))), Held(k)' \subseteq Held(k)
  PROVE  AtMostBound(Cardinality(Held(k)'))
<1>1. IsFiniteSet(Held(k))
  BY RegisteredSet DEF Held
<1>2. /\ Cardinality(Held(k)') \in Nat /\ Cardinality(Held(k)) \in Nat
      /\ Cardinality(Held(k)') <= Cardinality(Held(k))
  BY <1>1, Fewer
<1> QED BY <1>2, Bounds DEF AtMostBound

(* The background task, a poll and a refused request leave the registry    *)
(* and the sweeps alone: all they may do to them is to finish a job.       *)
LEMMA RegistryUntouched ==
  ASSUME SavedInv, PollInv, RegInv, UNCHANGED <<registry, sweep, post>>,
         lost' \in 0..MaxLost, crashes' = crashes,
         \A j \in Jobs : /\ status[j] = "done" => status'[j] = "done"
                         /\ phase[j] = "gone" => phase'[j] = "gone"
                         /\ phase'[j] \in {"none", "resolving", "rows", "unknown", "rejected",
                                           "over", "gone"}
  PROVE  RegInv'
<1>0. RegShape /\ (\A j \in Jobs : Present(j)) /\ LimitInv /\ HeldInv
  BY DEF RegInv
<1>1. Registered' = Registered /\ Registered \subseteq Jobs
  BY <1>0, RegisteredSet DEF Registered
<1>2. RegShape'
  BY <1>0 DEF RegShape
<1>3. \A j \in Jobs : Present(j)'
  BY <1>0, <1>1 DEF Present
<1>4. Busy' \subseteq Busy /\ Counted' \subseteq Counted /\ Live' \subseteq Live
  BY <1>1 DEF Busy, Counted, Live
<1>5. LimitInv'
  BY <1>0, <1>4, LimitHolds
<1>6. ASSUME NEW k \in Registered, post[k] \in {"evicting", "answered"}
      PROVE  AtMostBound(Cardinality(Held(k)'))
  <2>1. Held(k)' \subseteq Held(k)
    BY <1>1 DEF Held
  <2> QED BY <1>0, <1>1, <1>6, <2>1, HeldHolds DEF HeldInv
<1>7. HeldInv'
  BY <1>1, <1>6 DEF HeldInv
<1> QED BY <1>2, <1>3, <1>5, <1>7 DEF RegInv

(* The steps of the task and of its rows, the poll, and stuttering.        *)
LEMMA TaskRegs ==
  ASSUME SavedInv, PollInv, RegInv, NEW j \in Jobs,
         \/ JobStep(j) \/ Poll(j) \/ UNCHANGED vars
         \/ \E r \in RowsOf[j] : RowStep(j, r)
  PROVE  RegInv'
<1>0. /\ lost \in Nat /\ lost \in 0..MaxLost /\ MaxLost \in Nat
      /\ phase = [k \in Jobs |-> phase[k]] /\ status = [k \in Jobs |-> status[k]]
      /\ \A k \in Jobs : phase[k] \in {"none", "resolving", "rows", "unknown", "rejected",
                                       "over", "gone"}
  BY BulkAssumption DEF SavedInv, Shape, RegInv, RegShape
<1>1. CASE Poll(j) \/ UNCHANGED vars
  BY <1>0, <1>1, RegistryUntouched DEF Poll, run, vars
<1>2. ASSUME NEW r \in RowsOf[j], RowStep(j, r)
      PROVE  RegInv'
  <2>1. UNCHANGED <<registry, sweep, post, status, phase, crashes>> /\ lost' \in 0..MaxLost
    BY <1>0, <1>2
       DEF RowStep, Admit, Fetch, Fetched, Score, Scored, RecordRow, CountRow
  <2> QED BY <1>0, <2>1, RegistryUntouched
<1>3. CASE JobStep(j)
  <2>1. UNCHANGED <<registry, sweep, post, lost, crashes>>
    BY <1>3 DEF JobStep, Begin, ResolveTenant, CountAll, End
  <2>2. Begin(j) => status[j] # "done"
    BY DEF Begin, PollInv, Progress
  <2>3. ASSUME NEW k \in Jobs
        PROVE  /\ status[k] = "done" => status'[k] = "done"
               /\ phase[k] = "gone" => phase'[k] = "gone"
               /\ phase'[k] \in {"none", "resolving", "rows", "unknown", "rejected",
                                 "over", "gone"}
    BY <1>0, <1>3, <2>2 DEF JobStep, Begin, ResolveTenant, CountAll, End
  <2> QED BY <1>0, <2>1, <2>3, RegistryUntouched
<1> QED BY <1>1, <1>2, <1>3

(* What a step of one POST may change: its own place and sweep.            *)
LEMMA OnlyMine ==
  ASSUME RegShape, NEW j \in Jobs, NEW to, NEW left,
         post' = [post EXCEPT ![j] = to], sweep' = [sweep EXCEPT ![j] = left],
         to \in {"new", "counted", "evicting", "answered", "refused", "failed"},
         left \in Seq(Jobs), left # <<>> => to = "evicting",
         UNCHANGED <<phase, lost, crashes>>, registry' \in Seq(Jobs), Distinct(registry')
  PROVE  /\ RegShape' /\ post'[j] = to /\ sweep'[j] = left
         /\ \A k \in Jobs \ {j} : post'[k] = post[k] /\ sweep'[k] = sweep[k]
BY DEF RegShape, Distinct

(* The check: one more may be on its way only while fewer than the limit   *)
(* run and fewer than the pool's threads are busy.                         *)
LEMMA CountRegs ==
  ASSUME SavedInv, PollInv, RegInv, NEW j \in Jobs, CountInflight(j) \/ CountRaises(j)
  PROVE  RegInv'
<1>0. RegShape /\ (\A k \in Jobs : Present(k)) /\ LimitInv /\ HeldInv
  BY DEF RegInv
<1>1. /\ post[j] = "new" /\ PoolHasRoom
      /\ UNCHANGED <<registry, sweep, status, phase, lost, crashes>>
  BY DEF CountInflight, CountRaises, run
<1>2. PICK to \in {"counted", "refused", "failed"} :
        /\ post' = [post EXCEPT ![j] = to]
        /\ to = "counted" => ~ (Active >= MAX_INFLIGHT_JOBS)
  BY DEF CountInflight, CountRaises
<1>3. registry \in Seq(Jobs) /\ Distinct(registry) /\ sweep[j] = <<>>
      /\ sweep' = [sweep EXCEPT ![j] = <<>>]
  BY <1>0, <1>1 DEF RegShape, Distinct
<1>4. /\ RegShape' /\ post'[j] = to
      /\ \A k \in Jobs \ {j} : post'[k] = post[k] /\ sweep'[k] = sweep[k]
  <2>1. registry' \in Seq(Jobs) /\ Distinct(registry') /\ <<>> \in Seq(Jobs)
    BY <1>1, <1>3
  <2> QED BY <1>0, <1>1, <1>2, <1>3, <2>1, OnlyMine
<1>5. Registered' = Registered /\ Registered \subseteq Jobs /\ j \notin Registered
  BY <1>0, <1>1, RegisteredSet DEF Registered, Present
<1>6. \A k \in Jobs : Present(k)'
  BY <1>0, <1>1, <1>2, <1>4, <1>5 DEF Present
<1>7. LimitInv'
  <2>1. Live' = Live
    BY <1>1, <1>5 DEF Live
  <2>2. CASE to # "counted"
    <3>1. Busy' \subseteq Busy /\ Counted' \subseteq Counted
      BY <1>2, <1>4, <2>2 DEF Busy, Counted
    <3> QED BY <1>0, <2>1, <3>1, LimitHolds
  <2>3. CASE to = "counted"
    <3>1. Busy' = Busy \cup {j} /\ Counted' \subseteq Busy' /\ j \notin Busy
      BY <1>1, <1>4, <2>3 DEF Busy, Counted
    <3>2. Cardinality(Busy) < POOL_THREADS /\ IsFiniteSet(Busy)
      BY <1>0, <1>1 DEF PoolHasRoom, Busy, LimitInv
    <3>3. /\ IsFiniteSet(Busy') /\ Cardinality(Busy') = Cardinality(Busy) + 1
          /\ Cardinality(Busy) \in Nat
      BY <3>1, <3>2, FS_AddElement, FS_CardinalityType
    <3>4. Cardinality(Counted') \in Nat /\ Cardinality(Counted') <= Cardinality(Busy')
      BY <3>1, <3>3, Fewer
    <3>5. Cardinality(Live) \in Nat /\ Cardinality(Live) < MAX_INFLIGHT_JOBS
      <4>1. Active = Cardinality(Live)
        BY DEF Active, Live
      <4>2. Cardinality(Live) \in Nat
        BY <1>0, RegisteredSet DEF Live
      <4> QED BY <1>2, <2>3, <4>1, <4>2, Bounds
    <3> QED BY <2>1, <3>2, <3>3, <3>4, <3>5, Bounds DEF LimitInv
  <2> QED BY <2>2, <2>3
<1>8. HeldInv'
  <2> SUFFICES ASSUME NEW k \in Registered, post'[k] \in {"evicting", "answered"}
               PROVE  AtMostBound(Cardinality(Held(k)'))
    BY <1>5 DEF HeldInv
  <2>1. k \in Jobs /\ k # j /\ post[k] = post'[k] /\ sweep'[k] = sweep[k]
    BY <1>4, <1>5
  <2>2. Held(k)' = Held(k)
    BY <1>1, <1>5, <2>1 DEF Held
  <2> QED BY <1>0, <2>1, <2>2 DEF HeldInv
<1> QED BY <1>4, <1>6, <1>7, <1>8 DEF RegInv

(* The registration: the job counted becomes a job that runs.              *)
LEMMA CreateRegs ==
  ASSUME SavedInv, PollInv, RegInv, NEW j \in Jobs, Create(j)
  PROVE  RegInv'
<1>0. RegShape /\ (\A k \in Jobs : Present(k)) /\ LimitInv /\ HeldInv
  BY DEF RegInv
<1>1. /\ post[j] = "counted" /\ registry' = Append(registry, j)
      /\ post' = [post EXCEPT ![j] = "evicting"]
      /\ sweep' = [sweep EXCEPT ![j] = IF Len(registry') > MAX_RETAINED_JOBS
                                       THEN registry' ELSE <<>>]
      /\ UNCHANGED <<status, phase, lost, crashes>>
  BY DEF Create, run
<1>2. registry \in Seq(Jobs) /\ Distinct(registry) /\ j \notin Registered
  BY <1>0, <1>1 DEF RegShape, Distinct, Present
<1>3. /\ registry' \in Seq(Jobs) /\ Distinct(registry')
      /\ Registered' = Registered \cup {j}
      /\ \A x, k : k # j /\ Ahead(registry', x, k) => Ahead(registry, x, k)
  BY <1>1, <1>2, AppendedMembers DEF Registered
<1>4. /\ RegShape' /\ post'[j] = "evicting"
      /\ sweep'[j] = IF Len(registry') > MAX_RETAINED_JOBS THEN registry' ELSE <<>>
      /\ \A k \in Jobs \ {j} : post'[k] = post[k] /\ sweep'[k] = sweep[k]
  <2> DEFINE left == IF Len(registry') > MAX_RETAINED_JOBS THEN registry' ELSE <<>>
  <2>1. left \in Seq(Jobs)
    BY <1>3
  <2>2. sweep' = [sweep EXCEPT ![j] = left]
    BY <1>1
  <2> HIDE DEF left
  <2>3. /\ RegShape' /\ post'[j] = "evicting" /\ sweep'[j] = left
        /\ \A k \in Jobs \ {j} : post'[k] = post[k] /\ sweep'[k] = sweep[k]
    BY <1>0, <1>1, <1>3, <2>1, <2>2, OnlyMine
  <2> QED BY <2>3 DEF left
<1>5. \A k \in Jobs : Present(k)'
  BY <1>0, <1>1, <1>3, <1>4 DEF Present
<1>6. LimitInv'
  <2>1. Busy' = Busy /\ Counted' = Counted \ {j} /\ j \in Counted /\ Counted \subseteq Busy
    BY <1>1, <1>4 DEF Busy, Counted
  <2>2. Live' \subseteq Live \cup {j} /\ j \notin Live
    BY <1>1, <1>2, <1>3 DEF Live
  <2>3. IsFiniteSet(Live) /\ IsFiniteSet(Counted)
    BY <1>0, <2>1, RegisteredSet, Fewer DEF Live, LimitInv
  <2>4. /\ Cardinality(Live) \in Nat /\ Cardinality(Live') \in Nat
        /\ Cardinality(Live') <= Cardinality(Live) + 1
    <3>1. IsFiniteSet(Live \cup {j}) /\ Cardinality(Live \cup {j}) = Cardinality(Live) + 1
      BY <2>2, <2>3, FS_AddElement
    <3> QED BY <2>2, <2>3, <3>1, Fewer, FS_CardinalityType
  <2>5. /\ Cardinality(Counted) \in Nat /\ Cardinality(Counted') \in Nat
        /\ Cardinality(Counted') = Cardinality(Counted) - 1
    BY <2>1, <2>3, FS_RemoveElement, FS_CardinalityType, Fewer
  <2> QED BY <1>0, <2>1, <2>4, <2>5, Bounds DEF LimitInv
<1>7. ASSUME NEW k \in Registered', post'[k] \in {"evicting", "answered"}
      PROVE  AtMostBound(Cardinality(Held(k)'))
  <2>0. k \in Jobs
    BY <1>3, <1>0, <1>7, RegisteredSet
  <2>1. CASE k # j
    <3>1. k \in Registered /\ post[k] = post'[k] /\ sweep'[k] = sweep[k]
      BY <1>3, <1>4, <1>7, <2>0, <2>1
    <3>2. Held(k)' \subseteq Held(k)
      <4> SUFFICES ASSUME NEW x \in Held(k)'
                   PROVE  x \in Held(k)
        OBVIOUS
      <4>1. /\ x \in Registered' /\ Ahead(registry', x, k)
            /\ x \notin ToSet(sweep[k]) \/ status[x] # "done"
        BY <1>1, <3>1 DEF Held
      <4>2. Ahead(registry, x, k)
        BY <1>3, <2>1, <4>1
      <4>3. x \in Registered
        BY <1>2, <4>2 DEF Ahead, Registered, ToSet
      <4> QED BY <4>1, <4>2, <4>3 DEF Held
    <3> QED BY <1>0, <1>7, <2>0, <3>1, <3>2, HeldHolds DEF HeldInv
  <2>2. CASE k = j /\ Len(registry') > MAX_RETAINED_JOBS
    <3>1. Held(j)' \subseteq Live'
      BY <1>1, <1>4, <2>2 DEF Held, Live, Registered
    <3>2. IsFiniteSet(Live') /\ Cardinality(Live') <= MostInflight
      <4>1. IsFiniteSet(Registered') /\ IsFiniteSet(Counted')
        <5>1. IsFiniteSet(Registered')
          BY <1>0, <1>3, RegisteredSet, FS_AddElement
        <5>2. Counted' \subseteq Busy' /\ IsFiniteSet(Busy')
          BY <1>6 DEF Counted, Busy, LimitInv
        <5> QED BY <5>1, <5>2, Fewer
      <4>2. Live' \subseteq Registered'
        BY DEF Live
      <4>3. IsFiniteSet(Live') /\ Cardinality(Live') \in Nat /\ Cardinality(Counted') \in Nat
        BY <4>1, <4>2, Fewer
      <4> QED BY <1>6, <4>3, Bounds DEF LimitInv
    <3>3. /\ Cardinality(Held(j)') \in Nat /\ Cardinality(Live') \in Nat
          /\ Cardinality(Held(j)') <= Cardinality(Live')
      BY <3>1, <3>2, Fewer
    <3> QED BY <2>2, <3>2, <3>3, Bounds DEF AtMostBound
  <2>3. CASE k = j /\ ~ (Len(registry') > MAX_RETAINED_JOBS)
    <3>1. Held(j)' \subseteq Registered'
      BY DEF Held
    <3>2. IsFiniteSet(Registered') /\ Cardinality(Registered') = Len(registry')
      BY <1>3, Members DEF Registered
    <3>3. /\ Cardinality(Held(j)') \in Nat /\ Cardinality(Registered') \in Nat
          /\ Cardinality(Held(j)') <= Cardinality(Registered')
      BY <3>1, <3>2, Fewer
    <3> QED BY <2>3, <3>2, <3>3, Bounds DEF AtMostBound
  <2> QED BY <2>1, <2>2, <2>3
<1> QED BY <1>4, <1>5, <1>6, <1>7 DEF RegInv, HeldInv

(* One turn of a sweep: a job that is done may go, and nothing else.       *)
LEMMA EvictRegs ==
  ASSUME SavedInv, PollInv, RegInv, NEW j \in Jobs, EvictNext(j)
  PROVE  RegInv'
<1>0. RegShape /\ (\A k \in Jobs : Present(k)) /\ LimitInv /\ HeldInv
  BY DEF RegInv
<1> DEFINE oldest == Head(sweep[j])
<1>1. /\ post[j] = "evicting" /\ sweep[j] # <<>> /\ sweep[j] \in Seq(Jobs)
      /\ UNCHANGED <<status, phase, lost, crashes>>
      /\ status[j] # "done" /\ post = [post EXCEPT ![j] = "evicting"]
      /\ registry \in Seq(Jobs) /\ Distinct(registry)
  BY <1>0, NotDone DEF EvictNext, run, RegShape, Distinct
<1>2. /\ oldest \in Jobs /\ Tail(sweep[j]) \in Seq(Jobs) /\ <<>> \in Seq(Jobs)
      /\ ToSet(sweep[j]) = {oldest} \cup ToSet(Tail(sweep[j]))
  <2>1. /\ Len(sweep[j]) \in Nat \ {0} /\ DOMAIN sweep[j] = 1..Len(sweep[j])
        /\ oldest = sweep[j][1]
        /\ Tail(sweep[j]) \in Seq(Jobs) /\ Len(Tail(sweep[j])) = Len(sweep[j]) - 1
        /\ DOMAIN Tail(sweep[j]) = 1..(Len(sweep[j]) - 1)
        /\ \A i \in 1..(Len(sweep[j]) - 1) : Tail(sweep[j])[i] = sweep[j][i + 1]
    BY <1>1, HeadTailProperties, EmptySeq
  <2> DEFINE s == sweep[j]
             t == Tail(sweep[j])
  <2>2. \A i \in 1..(Len(s) - 1) : i + 1 \in 1..Len(s)
    BY <2>1
  <2>3. \A i \in 1..Len(s) : i # 1 => i - 1 \in 1..(Len(s) - 1) /\ (i - 1) + 1 = i
    BY <2>1
  <2>4. \A i \in 1..Len(s) : i # 1 => s[i] = t[i - 1]
    BY <2>1, <2>3
  <2>5. 1 \in 1..Len(s)
    BY <2>1
  <2> HIDE DEF s, t, oldest
  <2>6. ToSet(t) \subseteq ToSet(s) /\ oldest \in ToSet(s)
    BY <2>1, <2>2, <2>5 DEF ToSet, s, t
  <2>7. \A i \in 1..Len(s) : s[i] \in {oldest} \cup ToSet(t)
    BY <2>1, <2>3, <2>4 DEF ToSet, s, t
  <2>8. oldest \in Jobs
    BY <1>1, <2>1, <2>5 DEF s
  <2>9. ToSet(s) \subseteq {oldest} \cup ToSet(t)
    BY <2>1, <2>7 DEF ToSet, s
  <2> QED BY <2>1, <2>6, <2>8, <2>9 DEF s, t
<1> HIDE DEF oldest
<1>3. CASE \E i \in DOMAIN registry :
             /\ registry[i] = oldest
             /\ registry' = IF oldest # j /\ status[oldest] = "done"
                            THEN RemoveAt(registry, i) ELSE registry
             /\ sweep' = [sweep EXCEPT ![j] = Tail(@)] /\ UNCHANGED post
  <2>1. /\ registry' \in Seq(Jobs) /\ Distinct(registry')
        /\ Registered' = IF oldest # j /\ status[oldest] = "done"
                         THEN Registered \ {oldest} ELSE Registered
        /\ \A x, k : Ahead(registry', x, k) => Ahead(registry, x, k)
    <3>1. PICK i \in DOMAIN registry :
             /\ registry[i] = oldest
             /\ registry' = IF oldest # j /\ status[oldest] = "done"
                            THEN RemoveAt(registry, i) ELSE registry
      BY <1>3
    <3>2. CASE oldest # j /\ status[oldest] = "done"
      <4>1. registry' = RemoveAt(registry, i)
        BY <3>1, <3>2
      <4> QED BY <1>1, <3>1, <3>2, <4>1, RemovedMembers DEF Registered
    <3>3. CASE ~ (oldest # j /\ status[oldest] = "done")
      <4>1. registry' = registry
        BY <3>1, <3>3
      <4> QED BY <1>1, <3>3, <4>1 DEF Registered
    <3> QED BY <3>2, <3>3
  <2>2. /\ RegShape' /\ post' = post
        /\ sweep'[j] = Tail(sweep[j])
        /\ \A k \in Jobs \ {j} : sweep'[k] = sweep[k]
    <3>1. /\ sweep' = [sweep EXCEPT ![j] = Tail(sweep[j])]
          /\ post' = post /\ post' = [post EXCEPT ![j] = "evicting"]
      BY <1>1, <1>3
    <3>2. /\ RegShape /\ Tail(sweep[j]) \in Seq(Jobs)
          /\ registry' \in Seq(Jobs) /\ Distinct(registry')
          /\ UNCHANGED <<phase, lost, crashes>>
      BY <1>0, <1>1, <1>2, <2>1
    <3>3. /\ RegShape' /\ sweep'[j] = Tail(sweep[j])
          /\ \A k \in Jobs \ {j} : sweep'[k] = sweep[k]
      <4>1. PICK to, left : to = "evicting" /\ left = Tail(sweep[j])
        OBVIOUS
      <4>2. /\ post' = [post EXCEPT ![j] = to] /\ sweep' = [sweep EXCEPT ![j] = left]
            /\ to \in {"new", "counted", "evicting", "answered", "refused", "failed"}
            /\ left \in Seq(Jobs) /\ (left # <<>> => to = "evicting")
        BY <3>1, <3>2, <4>1
      <4>3. RegShape /\ registry' \in Seq(Jobs) /\ Distinct(registry')
            /\ UNCHANGED <<phase, lost, crashes>>
        BY <3>2
      <4>4. /\ RegShape' /\ sweep'[j] = left
            /\ \A k \in Jobs \ {j} : sweep'[k] = sweep[k]
        BY <4>2, <4>3 DEF RegShape, Distinct
      <4> QED BY <4>1, <4>4
    <3> QED BY <3>1, <3>3
  <2>3. Registered' \subseteq Registered
        /\ \A k \in Registered : status[k] # "done" => k \in Registered'
    BY <2>1
  <2>4. \A k \in Jobs : Present(k)'
    <3>1. \A k \in Jobs : post[k] = "evicting" => status[k] # "done"
      BY NotDone
    <3> QED BY <1>0, <1>1, <2>2, <2>3, <3>1 DEF Present
  <2>5. Busy' \subseteq Busy /\ Counted' \subseteq Counted /\ Live' \subseteq Live
    BY <1>1, <2>2, <2>3 DEF Busy, Counted, Live
  <2>6. LimitInv'
    BY <1>0, <2>5, LimitHolds
  <2>7. ASSUME NEW k \in Registered', post[k] \in {"evicting", "answered"}
        PROVE  AtMostBound(Cardinality(Held(k)'))
    <3>1. k \in Registered /\ k \in Jobs
      BY <1>0, <2>3, <2>7, RegisteredSet
    <3>2. ASSUME NEW x \in Held(k)'
          PROVE  x \in Held(k)
      <4>1. /\ x \in Registered' /\ x \in Registered /\ Ahead(registry, x, k)
            /\ x \notin ToSet(sweep'[k]) \/ status[x] # "done"
        BY <1>1, <2>1, <2>3, <3>2 DEF Held
      <4>2. CASE status[x] # "done"
        BY <4>1, <4>2 DEF Held
      <4>3. CASE x \notin ToSet(sweep'[k]) /\ status[x] = "done"
        <5>1. CASE k # j
          BY <2>2, <3>1, <4>1, <4>3, <5>1 DEF Held
        <5>2. CASE k = j
          <6>1. x # oldest
            BY <1>1, <2>1, <4>1, <4>3
          <6>2. x \notin ToSet(sweep[j])
            BY <1>2, <2>2, <4>3, <5>2, <6>1
          <6> QED BY <4>1, <5>2, <6>2 DEF Held
        <5> QED BY <5>1, <5>2
      <4> QED BY <4>1, <4>2, <4>3
    <3>3. Held(k)' \subseteq Held(k)
      BY <3>2
    <3> QED BY <1>0, <2>7, <3>1, <3>3, HeldHolds DEF HeldInv
  <2>8. HeldInv'
    BY <2>2, <2>7 DEF HeldInv
  <2> QED BY <2>2, <2>4, <2>6, <2>8 DEF RegInv
<1>4. CASE /\ oldest \notin Registered
           /\ post' = [post EXCEPT ![j] = "failed"]
           /\ sweep' = [sweep EXCEPT ![j] = <<>>]
           /\ UNCHANGED registry
  <2>1. /\ RegShape' /\ post'[j] = "failed" /\ Registered' = Registered
        /\ \A k \in Jobs \ {j} : post'[k] = post[k] /\ sweep'[k] = sweep[k]
    <3>1. registry' \in Seq(Jobs) /\ Distinct(registry') /\ Registered' = Registered
      BY <1>1, <1>4 DEF Registered
    <3> QED BY <1>0, <1>1, <1>2, <1>4, <3>1, OnlyMine
  <2>2. \A k \in Jobs : Present(k)'
    BY <1>0, <1>1, <2>1 DEF Present
  <2>3. Busy' \subseteq Busy /\ Counted' \subseteq Counted /\ Live' \subseteq Live
    BY <1>1, <2>1 DEF Busy, Counted, Live
  <2>4. LimitInv'
    BY <1>0, <2>3, LimitHolds
  <2>5. ASSUME NEW k \in Registered, post'[k] \in {"evicting", "answered"}
        PROVE  AtMostBound(Cardinality(Held(k)'))
    <3>1. k \in Jobs /\ k # j /\ post[k] = post'[k] /\ sweep'[k] = sweep[k]
      BY <1>0, <2>1, <2>5, RegisteredSet
    <3>2. Held(k)' = Held(k)
      BY <1>1, <1>4, <2>1, <3>1 DEF Held
    <3> QED BY <1>0, <2>5, <3>1, <3>2 DEF HeldInv
  <2>6. HeldInv'
    BY <2>1, <2>5 DEF HeldInv
  <2> QED BY <2>1, <2>2, <2>4, <2>6 DEF RegInv
<1>5. \/ \E i \in DOMAIN registry :
             /\ registry[i] = oldest
             /\ registry' = IF oldest # j /\ status[oldest] = "done"
                            THEN RemoveAt(registry, i) ELSE registry
             /\ sweep' = [sweep EXCEPT ![j] = Tail(@)] /\ UNCHANGED post
      \/ /\ oldest \notin Registered
         /\ post' = [post EXCEPT ![j] = "failed"]
         /\ sweep' = [sweep EXCEPT ![j] = <<>>]
         /\ UNCHANGED registry
  BY DEF EvictNext, oldest
<1> QED BY <1>3, <1>4, <1>5

(* The answer: the sweep is over, or the registry is under the cap again.  *)
LEMMA AnswerRegs ==
  ASSUME SavedInv, PollInv, RegInv, NEW j \in Jobs, Answer(j)
  PROVE  RegInv'
<1>0. RegShape /\ (\A k \in Jobs : Present(k)) /\ LimitInv /\ HeldInv
  BY DEF RegInv
<1>1. /\ post[j] = "evicting"
      /\ sweep[j] = <<>> \/ Len(registry) <= MAX_RETAINED_JOBS
      /\ post' = [post EXCEPT ![j] = "answered"] /\ sweep' = [sweep EXCEPT ![j] = <<>>]
      /\ UNCHANGED <<registry, status, phase, lost, crashes>>
      /\ registry \in Seq(Jobs) /\ Distinct(registry) /\ <<>> \in Seq(Jobs)
  BY <1>0 DEF Answer, run, RegShape, Distinct
<1>2. /\ RegShape' /\ post'[j] = "answered" /\ Registered' = Registered /\ sweep'[j] = <<>>
      /\ \A k \in Jobs \ {j} : post'[k] = post[k] /\ sweep'[k] = sweep[k]
  <2>1. registry' \in Seq(Jobs) /\ Distinct(registry') /\ Registered' = Registered
    BY <1>1 DEF Registered
  <2> QED BY <1>0, <1>1, <2>1, OnlyMine
<1>3. \A k \in Jobs : Present(k)'
  BY <1>0, <1>1, <1>2 DEF Present
<1>4. Busy' \subseteq Busy /\ Counted' \subseteq Counted /\ Live' \subseteq Live
  BY <1>1, <1>2 DEF Busy, Counted, Live
<1>5. LimitInv'
  BY <1>0, <1>4, LimitHolds
<1>6. ASSUME NEW k \in Registered, post'[k] \in {"evicting", "answered"}
      PROVE  AtMostBound(Cardinality(Held(k)'))
  <2>0. k \in Jobs
    BY <1>0, RegisteredSet
  <2>1. CASE k # j
    <3>1. post[k] = post'[k] /\ sweep'[k] = sweep[k]
      BY <1>2, <2>0, <2>1
    <3>2. Held(k)' = Held(k)
      BY <1>1, <1>2, <3>1 DEF Held
    <3> QED BY <1>0, <1>6, <3>1, <3>2 DEF HeldInv
  <2>2. CASE k = j /\ sweep[j] = <<>>
    <3>1. Held(j)' = Held(j)
      BY <1>1, <1>2, <2>2 DEF Held
    <3>2. AtMostBound(Cardinality(Held(j)))
      BY <1>0, <1>1, <1>6, <2>2 DEF HeldInv
    <3> QED BY <2>2, <3>1, <3>2
  <2>3. CASE k = j /\ Len(registry) <= MAX_RETAINED_JOBS
    <3>1. Held(j)' \subseteq Registered
      BY <1>2 DEF Held
    <3>2. /\ Cardinality(Held(j)') \in Nat /\ Len(registry) \in Nat
          /\ Cardinality(Held(j)') <= Len(registry)
      BY <1>0, <3>1, RegisteredSet
    <3> QED BY <2>3, <3>2, Bounds DEF AtMostBound
  <2> QED BY <1>1, <2>1, <2>2, <2>3 DEF Answer
<1>7. HeldInv'
  BY <1>2, <1>6 DEF HeldInv
<1> QED BY <1>2, <1>3, <1>5, <1>7 DEF RegInv

(* A death empties the registry.                                           *)
LEMMA CrashRegs ==
  ASSUME SavedInv, PollInv, RegInv, Crash
  PROVE  RegInv'
<1>0. RegShape
  BY DEF RegInv
<1>1. /\ registry' = <<>> /\ sweep' = [j \in Jobs |-> <<>>] /\ Registered' = {}
      /\ lost' = lost /\ crashes' = crashes + 1 /\ crashes < MaxCrashes
      /\ phase' = [j \in Jobs |-> IF post[j] \in {"new", "refused"} THEN phase[j] ELSE "gone"]
      /\ post' = [j \in Jobs |-> IF post[j] \in {"counted", "evicting"} THEN "failed"
                                 ELSE post[j]]
  BY DEF Crash, Registered, ToSet
<1>2. RegShape'
  <2>1. <<>> \in Seq(Jobs) /\ \A i, p \in DOMAIN (<<>>) : i = p
    OBVIOUS
  <2>2. crashes' \in 0..MaxCrashes
    BY <1>0, <1>1, BulkAssumption DEF RegShape
  <2> QED BY <1>0, <1>1, <2>1, <2>2 DEF RegShape
<1>3. \A j \in Jobs : Present(j)'
  BY <1>0, <1>1 DEF RegShape, Present
<1>4. Busy' = {} /\ Counted' = {} /\ Live' = {}
  BY <1>0, <1>1 DEF RegShape, Busy, Counted, Live
<1>5. LimitInv'
  BY <1>4, Bounds, FS_EmptySet DEF LimitInv
<1> QED BY <1>1, <1>2, <1>3, <1>5 DEF RegInv, HeldInv

(* Who is registered, how many are on their way, and what the sweeps will  *)
(* leave, in every reachable state.                                        *)
THEOREM RegInvariant == Spec => []RegInv
<1>1. SavedInv /\ PollInv /\ RegInv /\ [Next]_vars => RegInv'
  <2> SUFFICES ASSUME SavedInv, PollInv, RegInv, [Next]_vars
               PROVE  RegInv'
    OBVIOUS
  <2>1. CASE Crash
    BY <2>1, CrashRegs
  <2>2. CASE UNCHANGED vars
    <3>1. CASE Jobs = {}
      <4>1. UNCHANGED <<registry, sweep, post, lost, crashes>> /\ lost \in 0..MaxLost
        BY <2>2 DEF vars, RegInv, RegShape
      <4> QED BY <3>1, <4>1, RegistryUntouched
    <3>2. CASE Jobs # {}
      BY <2>2, <3>2, TaskRegs
    <3> QED BY <3>1, <3>2
  <2>3. ASSUME NEW j \in Jobs, Request(j) \/ JobStep(j) \/ Poll(j)
        PROVE  RegInv'
    BY <2>3, CountRegs, CreateRegs, EvictRegs, AnswerRegs, TaskRegs DEF Request
  <2>4. ASSUME NEW j \in Jobs, NEW r \in RowsOf[j], RowStep(j, r)
        PROVE  RegInv'
    BY <2>4, TaskRegs
  <2> QED BY <2>1, <2>2, <2>3, <2>4 DEF Next
<1> QED BY <1>1, RegInit, SavedInvariant, PollInvariant, PTL DEF Spec

(* However many creates evict at once, a job whose POST was answered stays *)
(* registered until it is done.                                            *)
THEOREM LiveTheorem == Spec => []LiveJobIsPollable
<1>1. RegInv => LiveJobIsPollable
  BY DEF RegInv, Present, LiveJobIsPollable
<1> QED BY <1>1, RegInvariant, PTL

(* The limit on the jobs in flight is overshot by fewer jobs than the pool *)
(* has threads, for any number of requests.                                *)
THEOREM InflightTheorem == Spec => []InflightNearlyBounded
<1>1. RegInv => InflightNearlyBounded
  <2> SUFFICES ASSUME RegInv
               PROVE  InflightNearlyBounded
    OBVIOUS
  <2>1. RegShape /\ LimitInv /\ Active = Cardinality(Live)
    BY DEF RegInv, Active, Live
  <2>2. Cardinality(Live) \in Nat
    BY <2>1, RegisteredSet DEF Live
  <2>3. Cardinality(Counted) \in Nat
    BY <2>1, Fewer DEF LimitInv, Counted, Busy
  <2> QED BY <2>1, <2>2, <2>3, Bounds DEF LimitInv, InflightNearlyBounded
<1> QED BY <1>1, RegInvariant, PTL

(* The jobs a client was told of and can poll never exceed the cap, or     *)
(* what can be in flight where that is more: all of them are among what    *)
(* the sweep of the last one left.                                         *)
THEOREM RegistryTheorem == Spec => []RegistryBounded
<1>1. RegInv => RegistryBounded
  <2> SUFFICES ASSUME RegInv
               PROVE  RegistryBounded
    OBVIOUS
  <2> DEFINE answered == {j \in Registered : post[j] = "answered"}
  <2>1. RegShape /\ HeldInv /\ Registered \subseteq Jobs
    BY RegisteredSet DEF RegInv
  <2>2. CASE answered = {}
    BY <2>2, FS_EmptySet, Bounds DEF RegistryBounded
  <2>3. CASE answered # {}
    <3> DEFINE places == {i \in 1..Len(registry) : registry[i] \in answered}
    <3>1. Len(registry) \in Nat /\ DOMAIN registry = 1..Len(registry)
      BY <2>1 DEF RegShape
    <3>2. \A x \in answered : \E i \in places : registry[i] = x
      BY <3>1 DEF Registered, ToSet
    <3>3. PICK p \in places : \A i \in places : i <= p
      <4> DEFINE mirror == {-i : i \in places}
      <4>1. IsFiniteSet(1..Len(registry)) /\ places \subseteq 1..Len(registry)
        BY <3>1, FiniteRange
      <4>2. IsFiniteSet(places)
        BY <4>1, FS_Subset
      <4>3. \A i \in places : i \in Nat
        BY <3>1
      <4>4. places # {}
        BY <2>3, <3>2
      <4> HIDE DEF places
      <4>5. IsFiniteSet({[i \in places |-> -i][x] : x \in places})
        BY <4>2, FiniteImage
      <4>6. {[i \in places |-> -i][x] : x \in places} = mirror
        OBVIOUS
      <4>7. IsFiniteSet(mirror) /\ mirror \in SUBSET Int /\ mirror # {}
        BY <4>3, <4>4, <4>5, <4>6
      <4>8. PICK m \in mirror : \A n \in mirror : m <= n
        <5> HIDE DEF mirror
        <5> QED BY <4>7, FiniteLeast
      <4> QED BY <4>3, <4>8
    <3> DEFINE k == registry[p]
    <3>4. k \in answered /\ k \in Registered /\ k \in Jobs
      BY <2>1, <3>3
    <3>5. sweep[k] = <<>> /\ AtMostBound(Cardinality(Held(k)))
      BY <2>1, <3>4 DEF RegShape, HeldInv
    <3>6. answered \subseteq Held(k)
      <4> SUFFICES ASSUME NEW x \in answered
                   PROVE  x \in Held(k)
        OBVIOUS
      <4>1. PICK i \in places : registry[i] = x
        BY <3>2
      <4>2. i \in 1..p /\ p \in DOMAIN registry
        BY <3>1, <3>3, <4>1
      <4>3. Ahead(registry, x, k)
        BY <4>1, <4>2 DEF Ahead
      <4>4. x \notin ToSet(sweep[k])
        BY <3>5 DEF ToSet
      <4> QED BY <4>3, <4>4 DEF Held
    <3>7. IsFiniteSet(Held(k))
      BY <2>1, RegisteredSet DEF Held
    <3> HIDE DEF answered, k
    <3>8. /\ Cardinality(answered) \in Nat /\ Cardinality(Held(k)) \in Nat
          /\ Cardinality(answered) <= Cardinality(Held(k))
      BY <3>6, <3>7, Fewer
    <3>9. AtMostBound(Cardinality(answered))
      BY <3>5, <3>8, Bounds DEF AtMostBound
    <3> QED BY <3>9 DEF AtMostBound, RegistryBounded, answered
  <2> QED BY <2>2, <2>3
<1> QED BY <1>1, RegInvariant, PTL

(* Every variable holds a value of its kind, and no job ever reports more  *)
(* rows processed than it has.                                             *)
THEOREM BulkTypeCorrect == Spec => []TypeOK
<1>1. SavedInv /\ PollInv /\ RegInv => TypeOK
  <2> SUFFICES ASSUME SavedInv, PollInv, RegInv
               PROVE  TypeOK
    OBVIOUS
  <2>1. /\ RegShape /\ Registered \subseteq Jobs /\ Len(registry) = Cardinality(Registered)
    BY RegisteredSet DEF RegInv
  <2>2. ASSUME NEW j \in Jobs
        PROVE  /\ ToSet(sweep[j]) \subseteq Jobs
               /\ status[j] \in {"queued", "running", "done"}
               /\ phase[j] \in {"none", "resolving", "rows", "unknown", "rejected", "over", "gone"}
    BY <2>1 DEF RegShape, ToSet, PollInv, Progress
  <2>3. ASSUME NEW j \in Jobs
        PROVE  /\ row[j] \in [RowsOf[j] -> {"waiting", "admitted", "fetching", "fetched",
                                            "scoring", "saved", "raised", "recorded", "finished"}]
               /\ out[j] \in [RowsOf[j] -> {"none", "scored", "error"}]
    <3>1. /\ row[j] = [r \in RowsOf[j] |-> row[j][r]]
          /\ out[j] = [r \in RowsOf[j] |-> out[j][r]]
      BY DEF SavedInv, Shape, Grid
    <3>2. \A r \in RowsOf[j] :
            /\ row[j][r] \in {"waiting", "admitted", "fetching", "fetched",
                              "scoring", "saved", "raised", "recorded", "finished"}
            /\ out[j][r] \in {"none", "scored", "error"}
      BY DEF SavedInv, RowAgrees, Early
    <3> QED BY <3>1, <3>2
  <2>4. ASSUME NEW j \in Jobs
        PROVE  processed[j] \in 0..Cardinality(RowsOf[j])
    <3>1. /\ Cardinality(DecidedRows(j)) \in Nat /\ Cardinality(RowsOf[j]) \in Nat
          /\ Cardinality(DecidedRows(j)) <= Cardinality(RowsOf[j])
      BY RowSets DEF DecidedRows
    <3>2. processed[j] \in Nat /\ processed[j] <= Cardinality(DecidedRows(j))
      BY DEF PollInv, Progress
    <3> QED BY <3>1, <3>2
  <2> QED BY <2>1, <2>2, <2>3, <2>4 DEF TypeOK, RegShape
<1> QED BY <1>1, SavedInvariant, PollInvariant, RegInvariant, PTL

-----------------------------------------------------------------------------
(* What a client sees of its job, and the contract of module BulkContract. *)

(* The client's view of a job.                                             *)
View(j) == IF phase[j] = "gone" THEN "gone" ELSE IF post[j] = "answered" THEN status[j] ELSE "none"

(* Which status goes with which phase: only the background task of an      *)
(* answered job changes it, once on each way.                              *)
Stage(j) ==
  /\ post[j] # "answered" => phase[j] \in {"none", "gone"}
  /\ phase[j] = "none" => status[j] = "queued"
  /\ phase[j] \in {"resolving", "rows", "unknown", "rejected"} => status[j] = "running"
  /\ phase[j] = "rejected" => processed[j] = Cardinality(RowsOf[j])

StageInv == \A j \in Jobs : Stage(j)

(* The tables that all steps of a job keep in shape.                       *)
LEMMA Tables ==
  ASSUME SavedInv, PollInv
  PROVE  /\ phase = [j \in Jobs |-> phase[j]] /\ post = [j \in Jobs |-> post[j]]
         /\ status = [j \in Jobs |-> status[j]] /\ processed = [j \in Jobs |-> processed[j]]
BY DEF SavedInv, Shape, PollInv

(* No status is there before its phase.                                    *)
LEMMA StageNext ==
  ASSUME SavedInv, PollInv, StageInv, [Next]_vars
  PROVE  StageInv'
<1> USE DEF StageInv, Stage
<1>1. CASE UNCHANGED vars
  BY <1>1 DEF vars
<1>2. CASE Crash
  BY <1>2, Tables DEF Crash
<1>3. ASSUME NEW k \in Jobs, Request(k) \/ Poll(k)
      PROVE  StageInv'
  <2>1. UNCHANGED <<phase, status, processed>>
    BY <1>3 DEF Request, CountInflight, CountRaises, Create, EvictNext, Answer, Poll, run
  <2>2. \A j \in Jobs : post[j] = "answered" => post'[j] = "answered"
    BY <1>3, Tables DEF Request, CountInflight, CountRaises, Create, EvictNext, Answer, Poll
  <2> QED
    BY <2>1, <2>2
<1>4. ASSUME NEW k \in Jobs, Begin(k) \/ ResolveTenant(k) \/ CountAll(k) \/ End(k)
      PROVE  StageInv'
  <2>1. CASE Begin(k)
    BY <2>1, Tables DEF Begin
  <2>2. CASE ResolveTenant(k)
    BY <2>2, Tables DEF ResolveTenant
  <2>3. CASE CountAll(k)
    BY <2>3, Tables DEF CountAll
  <2>4. CASE End(k)
    BY <2>4, Tables DEF End
  <2> QED
    BY <1>4, <2>1, <2>2, <2>3, <2>4
<1>5. ASSUME NEW k \in Jobs, NEW r \in RowsOf[k], RowStep(k, r)
      PROVE  StageInv'
  <2>1. /\ phase[k] = "rows" /\ UNCHANGED <<phase, post, status>>
        /\ \A j \in Jobs \ {k} : processed'[j] = processed[j]
    BY <1>5, Tables DEF RowStep, Admit, Fetch, Fetched, Score, Scored, RecordRow, CountRow
  <2> QED
    BY <2>1
<1> QED
  BY <1>1, <1>2, <1>3, <1>4, <1>5 DEF Next, JobStep

(* A step that changes nothing a client sees.                              *)
LEMMA Unseen ==
  ASSUME UNCHANGED <<out, processed, saved>>, \A j \in Jobs : View(j)' = View(j)
  PROVE  UNCHANGED Contract!bvars
BY DEF View, Contract!bvars

(* A step of one job from one status to the next.                          *)
LEMMA ViewMoves ==
  ASSUME NEW j \in Jobs, NEW from, NEW to, View(j) = from, View(j)' = to,
         \A k \in Jobs \ {j} : View(k)' = View(k), UNCHANGED <<out, processed, saved>>
  PROVE  Contract!Goes(j, from, to)
BY DEF View, Contract!Goes

(* What stays when a step changes no status.                               *)
LEMMA ViewStays ==
  ASSUME UNCHANGED <<phase, post, status>>
  PROVE  \A j \in Jobs : View(j)' = View(j)
BY DEF View

(* The request of a job and a poll of it: the answer makes it exist.       *)
LEMMA RequestSimulates ==
  ASSUME SavedInv, PollInv, StageInv, NEW k \in Jobs, Request(k) \/ Poll(k)
  PROVE  Contract!Accept(k) \/ UNCHANGED Contract!bvars
<1>1. UNCHANGED <<phase, status, out, processed, saved>>
  BY DEF Request, CountInflight, CountRaises, Create, EvictNext, Answer, Poll, run
<1>2. CASE Answer(k)
  <2>1. post[k] = "evicting" /\ post' = [post EXCEPT ![k] = "answered"]
    BY <1>2 DEF Answer
  <2>2. phase[k] = "none" /\ status[k] = "queued"
    BY <2>1 DEF SavedInv, NotBegun, StageInv, Stage
  <2>3. View(k) = "none" /\ View(k)' = "queued"
    BY <1>1, <2>1, <2>2, Tables DEF View
  <2>4. \A j \in Jobs \ {k} : View(j)' = View(j)
    BY <1>1, <2>1, Tables DEF View
  <2> QED
    BY <1>1, <2>3, <2>4, ViewMoves DEF Contract!Accept
<1>3. CASE ~Answer(k)
  <2>1. \A j \in Jobs : post'[j] = post[j] \/ (post[j] # "answered" /\ post'[j] # "answered")
    BY <1>3, Tables DEF Request, CountInflight, CountRaises, Create, EvictNext, Poll
  <2>2. \A j \in Jobs : View(j)' = View(j)
    BY <1>1, <2>1 DEF View
  <2> QED
    BY <1>1, <2>2, Unseen
<1> QED
  BY <1>2, <1>3

(* The client's view, where the contract says job.                         *)
LEMMA ViewIs ==
  ASSUME NEW j \in Jobs
  PROVE  [k \in Jobs |-> IF phase[k] = "gone" THEN "gone"
                         ELSE IF post[k] = "answered" THEN status[k] ELSE "none"][j] = View(j)
BY DEF View

(* What the background task has reached, a client has been told of.        *)
LEMMA Runs ==
  ASSUME StageInv, NEW j \in Jobs, phase[j] \in {"resolving", "rows", "unknown", "rejected"}
  PROVE  View(j) = "running" /\ post[j] = "answered" /\ status[j] = "running"
BY DEF StageInv, Stage, View

(* The contract counts as the implementation does.                         *)
LEMMA SameCardinality == \A S : Contract!Cardinality(S) = Cardinality(S)
BY DEF Contract!Cardinality, Cardinality

(* The steps of the background task that touch no single row.              *)
LEMMA TaskSimulates ==
  ASSUME SavedInv, PollInv, PollInv', StageInv, NEW k \in Jobs, JobStep(k)
  PROVE  \/ Contract!Start(k) \/ Contract!Refuse(k) \/ Contract!Finish(k)
         \/ \E n \in 1..Cardinality(RowsOf[k]) : Contract!Count(k, n)
         \/ UNCHANGED Contract!bvars
<1>1. CASE Begin(k)
  <2>1. /\ post[k] = "answered" /\ phase[k] = "none" /\ UNCHANGED <<post, out, processed, saved>>
        /\ status' = [status EXCEPT ![k] = "running"]
        /\ phase' = [phase EXCEPT ![k] = "resolving"]
    BY <1>1 DEF Begin
  <2>2. View(k) = "queued" /\ View(k)' = "running"
    BY <2>1, Tables DEF View, StageInv, Stage
  <2>3. \A j \in Jobs \ {k} : View(j)' = View(j)
    BY <2>1, Tables DEF View
  <2> QED
    BY <2>1, <2>2, <2>3, ViewMoves DEF Contract!Start
<1>2. CASE ResolveTenant(k)
  <2>1. /\ phase[k] = "resolving" /\ UNCHANGED <<post, status, processed, saved>>
        /\ \E to \in {"rows", "unknown", "over"} : phase' = [phase EXCEPT ![k] = to]
    BY <1>2 DEF ResolveTenant
  <2>2. \A j \in Jobs : View(j)' = View(j)
    BY <2>1, Tables DEF View
  <2>3. CASE out' = out
    BY <2>1, <2>2, <2>3, Unseen
  <2>4. CASE out' = [out EXCEPT ![k] = [r \in RowsOf[k] |-> "error"]]
    <3>1. \A r \in RowsOf[k] : out[k][r] = "none" /\ saved[k][r] = 0
      BY <2>1 DEF SavedInv, RowAgrees, Early
    <3>2. View(k) = "running"
      BY <2>1, Runs
    <3> QED
      BY <2>1, <2>2, <2>4, <3>1, <3>2 DEF Contract!Refuse, View
  <2> QED
    BY <1>2, <2>3, <2>4 DEF ResolveTenant
<1>3. CASE CountAll(k)
  <2> DEFINE n == Cardinality(RowsOf[k])
  <2>1. /\ phase[k] = "unknown" /\ UNCHANGED <<post, status, out, saved>>
        /\ processed' = [processed EXCEPT ![k] = n]
        /\ phase' = [phase EXCEPT ![k] = "rejected"]
    BY <1>3 DEF CountAll
  <2>2. \A j \in Jobs : View(j)' = View(j)
    BY <2>1, Tables DEF View
  <2>3. processed[k] = 0 /\ DecidedRows(k) = RowsOf[k]
    BY <2>1 DEF PollInv, Progress, SavedInv, RowAgrees, DecidedRows
  <2>4. n \in Nat \ {0}
    BY BulkAssumption, FS_CardinalityType, FS_EmptySet
  <2>5. View(k) = "running"
    BY <2>1, Runs
  <2>6. n \in 1..n /\ processed[k] < n
    BY <2>3, <2>4
  <2>7. Contract!DecidedOf(k) = RowsOf[k]
    BY <2>3 DEF Contract!DecidedOf, DecidedRows
  <2> HIDE DEF n
  <2>8. n <= n
    BY <2>4
  <2>9. n <= Cardinality(Contract!DecidedOf(k))
    BY <2>7, <2>8 DEF n
  <2>10. Contract!Count(k, n)
    BY <2>1, <2>2, <2>5, <2>6, <2>9, SameCardinality DEF Contract!Count, View
  <2> QED
    BY <2>6, <2>10 DEF n
<1>4. CASE End(k)
  <2>1. /\ phase[k] \in {"rows", "rejected"} /\ UNCHANGED <<post, out, processed, saved>>
        /\ status' = [status EXCEPT ![k] = "done"]
        /\ phase' = [phase EXCEPT ![k] = "over"]
    BY <1>4 DEF End
  <2>2. View(k) = "running" /\ post[k] = "answered"
    BY <2>1, Runs
  <2>3. View(k)' = "done"
    BY <2>1, <2>2, Tables DEF View
  <2>4. \A j \in Jobs \ {k} : View(j)' = View(j)
    BY <2>1, Tables DEF View
  <2>5. DecidedRows(k) = RowsOf[k]
    <3>1. status'[k] = "done" /\ DecidedRows(k)' = DecidedRows(k)
      BY <2>1, Tables DEF DecidedRows
    <3> QED
      BY <3>1 DEF PollInv, Progress
  <2>6. processed[k] = Cardinality(RowsOf[k])
    <3>1. CASE phase[k] = "rejected"
      BY <3>1 DEF StageInv, Stage
    <3>2. CASE phase[k] = "rows"
      <4>1. Finished(k) = RowsOf[k]
        BY <1>4, <3>2 DEF End, RowsIn, Finished
      <4> QED
        BY <3>2, <4>1 DEF PollInv, Progress
    <3> QED
      BY <2>1, <3>1, <3>2
  <2>7. Contract!Goes(k, "running", "done")
    BY <2>1, <2>2, <2>3, <2>4, ViewMoves
  <2>8. Contract!DecidedOf(k) = RowsOf[k]
    BY <2>5 DEF Contract!DecidedOf, DecidedRows
  <2> QED
    BY <2>6, <2>7, <2>8, SameCardinality DEF Contract!Finish
<1> QED
  BY <1>1, <1>2, <1>3, <1>4 DEF JobStep

(* The steps of a row's task: its result is written, decided and counted.  *)
LEMMA RowSimulates ==
  ASSUME SavedInv, PollInv, PollInv', StageInv,
         NEW k \in Jobs, NEW r \in RowsOf[k], RowStep(k, r)
  PROVE  \/ Contract!Keep(k, r) \/ Contract!Decide(k, r)
         \/ \E n \in 1..Cardinality(RowsOf[k]) : Contract!Count(k, n)
         \/ UNCHANGED Contract!bvars
<1>1. phase[k] = "rows" /\ UNCHANGED <<phase, post, status>> /\ RowAgrees(k, r)
  BY DEF RowStep, Admit, Fetch, Fetched, Score, Scored, RecordRow, CountRow, SavedInv
<1>2. View(k) = "running"
  BY <1>1, Runs
<1>3. \A j \in Jobs : View(j)' = View(j)
  BY <1>1, ViewStays
<1>4. CASE Admit(k, r) \/ Fetch(k, r) \/ Fetched(k, r) \/ Score(k, r)
  <2>1. UNCHANGED <<out, processed, saved>>
    BY <1>4 DEF Admit, Fetch, Fetched, Score
  <2> QED
    BY <1>3, <2>1, Unseen
<1>5. CASE Scored(k, r)
  <2>1. row[k][r] = "scoring" /\ UNCHANGED <<out, processed>>
    BY <1>5 DEF Scored
  <2>2. CASE saved' = saved
    BY <1>3, <2>1, <2>2, Unseen
  <2>3. CASE saved' = [saved EXCEPT ![k][r] = @ + 1]
    <3>1. saved[k][r] = 0 /\ out[k][r] = "none"
      BY <1>1, <2>1 DEF RowAgrees, Early
    <3> QED
      BY <1>2, <1>3, <2>1, <2>3, <3>1 DEF Contract!Keep, View
  <2> QED
    BY <1>5, <2>2, <2>3 DEF Scored
<1>6. CASE RecordRow(k, r)
  <2>1. /\ row[k][r] \in {"saved", "raised"} /\ UNCHANGED <<processed, saved>>
        /\ out' = [out EXCEPT ![k][r] = IF row[k][r] = "saved" THEN "scored" ELSE "error"]
    BY <1>6 DEF RecordRow
  <2>2. out[k][r] = "none" /\ (row[k][r] = "saved" => saved[k][r] = 1)
    BY <1>1, <2>1 DEF RowAgrees
  <2> QED
    BY <1>2, <1>3, <2>1, <2>2 DEF Contract!Decide, View
<1>7. CASE CountRow(k, r)
  <2> DEFINE n == processed[k] + 1
  <2>1. processed' = [processed EXCEPT ![k] = n] /\ UNCHANGED <<out, saved>>
    BY <1>7 DEF CountRow
  <2>2. processed[k] \in Nat /\ processed'[k] = n
    BY <2>1, Tables DEF PollInv, Progress
  <2>3. n <= Cardinality(DecidedRows(k))
    <3>1. DecidedRows(k)' = DecidedRows(k)
      BY <2>1 DEF DecidedRows
    <3> QED
      BY <2>2, <3>1 DEF PollInv, Progress
  <2>4. /\ Cardinality(DecidedRows(k)) <= Cardinality(RowsOf[k])
        /\ Cardinality(RowsOf[k]) \in Nat /\ Cardinality(DecidedRows(k)) \in Nat
    BY RowSets DEF DecidedRows
  <2>5. n \in 1..Cardinality(RowsOf[k]) /\ processed[k] < n
    BY <2>2, <2>3, <2>4
  <2>6. DecidedRows(k) = Contract!DecidedOf(k)
    BY DEF DecidedRows, Contract!DecidedOf
  <2> HIDE DEF n
  <2>7. n <= Contract!Cardinality(Contract!DecidedOf(k))
    BY <2>3, <2>6, SameCardinality
  <2>8. Contract!Count(k, n)
    BY <1>2, <1>3, <2>1, <2>5, <2>7 DEF Contract!Count, View
  <2> QED
    BY <2>5, <2>8
<1> QED
  BY <1>4, <1>5, <1>6, <1>7 DEF RowStep

(* A death takes every job that is there, and what was known of it.        *)
LEMMA CrashSimulates ==
  ASSUME SavedInv, StageInv, Crash
  PROVE  Contract!Die
<1> DEFINE taken == {j \in Jobs : post[j] \notin {"new", "refused"} \/ phase[j] = "gone"}
<1>1. /\ out' = Contract!Undecided /\ processed' = [j \in Jobs |-> 0] /\ saved' = saved
  BY DEF Crash, Per, Contract!Undecided
<1>2. ASSUME NEW j \in Jobs
      PROVE  /\ View(j) # "none" => j \in taken
             /\ View(j)' = IF j \in taken THEN "gone" ELSE "none"
  <2>1. phase'[j] = IF post[j] \in {"new", "refused"} THEN phase[j] ELSE "gone"
    BY DEF Crash
  <2>2. post[j] \in {"new", "refused"} => post'[j] = post[j]
    BY DEF Crash
  <2> QED
    BY <2>1, <2>2 DEF View
<1> HIDE DEF taken
<1>3. taken \in SUBSET Jobs
  BY DEF taken
<1> QED
  BY <1>1, <1>2, <1>3 DEF Contract!Die, View

(* Every step of the process is a step of the contract, or none.           *)
LEMMA BulkSimulates ==
  ASSUME SavedInv, PollInv, PollInv', StageInv, [Next]_vars
  PROVE  [Contract!BNext]_(Contract!bvars)
<1>1. CASE UNCHANGED vars
  <2>1. UNCHANGED <<phase, post, status, out, processed, saved>>
    BY <1>1 DEF vars
  <2> QED
    BY <2>1, ViewStays, Unseen
<1>2. CASE Crash
  BY <1>2, CrashSimulates DEF Contract!BNext
<1>3. ASSUME NEW k \in Jobs, Request(k) \/ Poll(k)
      PROVE  [Contract!BNext]_(Contract!bvars)
  BY <1>3, RequestSimulates DEF Contract!BNext
<1>4. ASSUME NEW k \in Jobs, JobStep(k)
      PROVE  [Contract!BNext]_(Contract!bvars)
  BY <1>4, TaskSimulates, SameCardinality DEF Contract!BNext
<1>5. ASSUME NEW k \in Jobs, NEW r \in RowsOf[k], RowStep(k, r)
      PROVE  [Contract!BNext]_(Contract!bvars)
  BY <1>5, RowSimulates, SameCardinality DEF Contract!BNext
<1> QED
  BY <1>1, <1>2, <1>3, <1>4, <1>5 DEF Next

(* A bulk job keeps the promise of module BulkContract: it runs once and   *)
(* ends once, no outcome changes, a result is written once and only while  *)
(* its job runs, and a done job stays as it is until the process dies,     *)
(* whatever requests, evictions, threads and lost commits do around it.    *)
THEOREM BulkImplementsContract == Spec => ImplementsContract
<1>1. Init => StageInv /\ Contract!BInit
  <2>1. Init => StageInv
    BY DEF Init, StageInv, Stage
  <2>2. Init => Contract!BInit
    BY DEF Init, Per, Contract!BInit, Contract!Undecided
  <2> QED
    BY <2>1, <2>2
<1>2. SavedInv /\ PollInv /\ StageInv /\ [Next]_vars => StageInv'
  BY StageNext
<1>3. SavedInv /\ PollInv /\ PollInv' /\ StageInv /\ [Next]_vars
        => [Contract!BNext]_(Contract!bvars)
  BY BulkSimulates
<1> QED
  BY <1>1, <1>2, <1>3, SavedInvariant, PollInvariant, PTL
     DEF Spec, ImplementsContract, Contract!BSpec
=============================================================================
