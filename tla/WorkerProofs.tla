---------------------------- MODULE WorkerProofs ----------------------------
(***************************************************************************)
(* Proofs about module Worker for any number of workers and jobs, any      *)
(* batch size and budget, and any number of crashes, lost commits and      *)
(* replays.                                                                *)
(***************************************************************************)
EXTENDS Worker, TLAPS

(***************************************************************************)
(* What the operations of queue.py do to one row.                          *)
(***************************************************************************)

LEMMA FreshRowIsRow == FreshRow \in Row /\ AbsentRow \in Row
BY DEF FreshRow, AbsentRow, Row, Status

\* claim_batch takes one attempt from a row that has one.
LEMMA ClaimedRow ==
  ASSUME NEW row \in Row
  PROVE  /\ Claimed(row) \in Row
         /\ Claimed(row).status = "in_progress"
         /\ Claimed(row).attempts = row.attempts + 1
BY DEF Claimed, Row, Status

\* complete keeps the attempts.
LEMMA CompletedRow ==
  ASSUME NEW row \in Row
  PROVE  /\ Completed(row) \in Row
         /\ Completed(row).status = "done"
         /\ Completed(row).attempts = row.attempts
BY DEF Completed, Row, Status

\* fail never charges more than the claim did, and puts a row back in the queue
\* only with an attempt left.
LEMMA FailedRow ==
  ASSUME NEW row \in Row, NEW kind \in ErrorKind
  PROVE  /\ Failed(row, kind) \in Row
         /\ Failed(row, kind).status \in {"queued", "dead_letter"}
         /\ Failed(row, kind).attempts <= row.attempts
         /\ \/ Failed(row, kind).attempts = row.attempts
            \/ row.attempts > 0 /\ Failed(row, kind).attempts = row.attempts - 1
         /\ Failed(row, kind).status = "queued" =>
              Failed(row, kind).attempts < MaxAttempts
<1>1. Charged(row, kind) \in Nat /\ Charged(row, kind) <= row.attempts
  BY DEF Charged, Row
<1>2. \/ Charged(row, kind) = row.attempts
      \/ row.attempts > 0 /\ Charged(row, kind) = row.attempts - 1
  BY DEF Charged, Row
<1>. QED  BY <1>1, <1>2, JobQueueAssumption DEF Failed, DeadLetter, Row, Status

(***************************************************************************)
(* The inductive invariant.                                                *)
(***************************************************************************)

\* Init establishes the inductive invariant.
LEMMA InitIInv == Init => IInv
BY JobQueueAssumption, WorkerAssumption
   DEF Init, IInv, TypeOK, Row, Status, AbsentRow, ErrorKind, Verdict, NoVerdict,
       NoFailedRows, SelectedStayClaimable, CurrentIsHeld, ExclusiveClaim,
       HeldJobsAreInProgress, HeldJobsAreUnfinished, BudgetRespected,
       ScoredExactlyOnce, PendingVerdictExplained, RetriesNeverMatchThemselves,
       NeverMatchesItself

\* The claim's SELECT takes rows no other batch holds.
LEMMA ClaimSelectIInv ==
  ASSUME IInv, NEW w \in Workers, ClaimSelect(w)
  PROVE  IInv'
<1>. USE DEF ClaimSelect, local, tables, counts, IInv
<1>1. TypeOK'
  BY DEF TypeOK, Available
<1>2. PICK S \in SUBSET Available : batch' = [batch EXCEPT ![w] = S]
  OBVIOUS
<1>3. S \subseteq Jobs /\ \A j \in S : Claimable(jobs[j])
  BY DEF Available
<1>4. \A v \in Workers : v # w => batch[v] \cap S = {}
  <2>. SUFFICES ASSUME NEW v \in Workers, v # w, NEW j \in batch[v], j \in S
                PROVE  FALSE
    OBVIOUS
  <2>1. CASE pc[v] = "claiming"
    BY <2>1 DEF Available, RowLocks
  <2>2. CASE pc[v] # "claiming"
    <3>1. jobs[j].status \in {"in_progress", "done"}
      BY <2>2 DEF HeldJobsAreInProgress
    <3>. QED  BY <3>1, <1>3 DEF Claimable
  <2>. QED  BY <2>1, <2>2
<1>5. ExclusiveClaim'
  BY <1>2, <1>4 DEF ExclusiveClaim, TypeOK
<1>6. SelectedStayClaimable' /\ CurrentIsHeld'
  BY <1>2, <1>3 DEF SelectedStayClaimable, CurrentIsHeld, TypeOK
<1>7. HeldJobsAreInProgress' /\ HeldJobsAreUnfinished'
  BY <1>2 DEF HeldJobsAreInProgress, HeldJobsAreUnfinished, TypeOK
<1>8. PendingVerdictExplained'
  BY <1>2 DEF PendingVerdictExplained, SameImage, TypeOK
<1>9. NoFailedRows' /\ BudgetRespected' /\ ScoredExactlyOnce' /\ RetriesNeverMatchThemselves'
  BY DEF NoFailedRows, BudgetRespected, ScoredExactlyOnce,
         RetriesNeverMatchThemselves, NeverMatchesItself, SameImage
<1>. QED  BY <1>1, <1>5, <1>6, <1>7, <1>8, <1>9

\* Committing the claim moves its rows, and only them, to in_progress.
LEMMA ClaimCommitIInv ==
  ASSUME IInv, NEW w \in Workers, ClaimCommit(w)
  PROVE  IInv'
<1>. USE DEF ClaimCommit, local, tables, counts, IInv
<1>1. \A j \in Jobs : jobs'[j] = IF j \in batch[w] THEN Claimed(jobs[j]) ELSE jobs[j]
  OBVIOUS
<1>2. \A j \in batch[w] : j \in Jobs /\ jobs[j] \in Row /\ jobs[j].status = "queued"
  BY DEF TypeOK, SelectedStayClaimable, Claimable, NoFailedRows
<1>3. \A j \in batch[w] :
        /\ jobs'[j] \in Row
        /\ jobs'[j].status = "in_progress"
        /\ jobs'[j].attempts = jobs[j].attempts + 1
  BY <1>1, <1>2, ClaimedRow
<1>4. TypeOK'
  BY <1>1, <1>3 DEF TypeOK
<1>5. \A v \in Workers : v # w => \A j \in batch[v] : j \in Jobs /\ jobs'[j] = jobs[j]
  BY <1>1 DEF ExclusiveClaim, TypeOK
<1>6. pc'[w] = "loop" /\ \A v \in Workers : v # w => pc'[v] = pc[v]
  BY DEF TypeOK
<1>7. ExclusiveClaim' /\ CurrentIsHeld'
  BY <1>6 DEF ExclusiveClaim, CurrentIsHeld
<1>8. SelectedStayClaimable'
  BY <1>5, <1>6 DEF SelectedStayClaimable, Claimable
<1>9. HeldJobsAreInProgress' /\ HeldJobsAreUnfinished'
  BY <1>3, <1>5, <1>6 DEF HeldJobsAreInProgress, HeldJobsAreUnfinished
<1>10. NoFailedRows'
  BY <1>1, <1>3 DEF NoFailedRows
<1>11. BudgetRespected'
  <2>. SUFFICES ASSUME NEW j \in Jobs
                PROVE  /\ jobs'[j].attempts <= MaxAttempts
                       /\ jobs'[j].status = "queued" => jobs'[j].attempts < MaxAttempts
    BY DEF BudgetRespected
  <2>1. CASE j \in batch[w]
    <3>1. jobs[j].attempts \in Nat /\ jobs[j].attempts < MaxAttempts
      BY <2>1, <1>2 DEF BudgetRespected, Row
    <3>. QED  BY <2>1, <3>1, <1>3, JobQueueAssumption
  <2>2. CASE j \notin batch[w]
    BY <2>2, <1>1 DEF BudgetRespected
  <2>. QED  BY <2>1, <2>2
<1>12. ScoredExactlyOnce'
  BY <1>1, <1>2, <1>3 DEF ScoredExactlyOnce
<1>13. PendingVerdictExplained' /\ RetriesNeverMatchThemselves'
  BY <1>6 DEF PendingVerdictExplained, RetriesNeverMatchThemselves, NeverMatchesItself, SameImage
<1>. QED  BY <1>4, <1>7, <1>8, <1>9, <1>10, <1>11, <1>12, <1>13

\* Scoring reads the committed hashes; a match is another job's, because the
\* hash of an unfinished job is not there.
LEMMA ScoreIInv ==
  ASSUME IInv, NEW w \in Workers, Score(w)
  PROVE  IInv'
<1>. USE DEF Score, Raise, local, tables, counts, IInv
<1>1. PICK j \in batch[w] :
        /\ cur' = [cur EXCEPT ![w] = j]
        /\ \/ pc' = [pc EXCEPT ![w] = "except"] /\ UNCHANGED out
           \/ /\ pc' = [pc EXCEPT ![w] = "scored"]
              /\ out' = [out EXCEPT ![w] = Assess(j)]
  OBVIOUS
<1>2. j \in Jobs
  BY DEF TypeOK
<1>3. TypeOK'
  <2>1. err' \in [Workers -> ErrorKind]
    BY WorkerAssumption DEF TypeOK, ErrorKind
  <2>2. out' \in [Workers -> Verdict \cup {NoVerdict}]
    BY <1>1 DEF TypeOK, Assess, Verdict
  <2>. QED  BY <1>1, <1>2, <2>1, <2>2 DEF TypeOK
<1>4. /\ pc[w] = "loop" /\ pc'[w] \in {"scored", "except"} /\ cur'[w] = j
      /\ \A v \in Workers : v # w => pc'[v] = pc[v] /\ cur'[v] = cur[v] /\ out'[v] = out[v]
  BY <1>1 DEF TypeOK
<1>5. CurrentIsHeld' /\ ExclusiveClaim' /\ SelectedStayClaimable'
  BY <1>4 DEF CurrentIsHeld, ExclusiveClaim, SelectedStayClaimable
<1>6. HeldJobsAreInProgress' /\ HeldJobsAreUnfinished'
  BY <1>4 DEF HeldJobsAreInProgress, HeldJobsAreUnfinished
<1>7. PendingVerdictExplained'
  <2>. SUFFICES ASSUME lost = 0, pc'[w] = "scored", out'[w] = "recycled"
                PROVE  \E k \in hashes : k # j /\ SameImage(j, k)
    BY <1>4 DEF PendingVerdictExplained, SameImage
  <2>1. Assess(j) = "recycled"
    BY <1>1, <1>4 DEF TypeOK
  <2>2. PICK k \in hashes : SameImage(j, k)
    BY <2>1 DEF Assess, SeenBefore
  <2>3. j \notin hashes
    BY <1>2, <1>4 DEF HeldJobsAreUnfinished, ScoredExactlyOnce
  <2>. QED  BY <2>2, <2>3
<1>8. NoFailedRows' /\ BudgetRespected' /\ ScoredExactlyOnce' /\ RetriesNeverMatchThemselves'
  BY DEF NoFailedRows, BudgetRespected, ScoredExactlyOnce,
         RetriesNeverMatchThemselves, NeverMatchesItself, SameImage
<1>. QED  BY <1>3, <1>5, <1>6, <1>7, <1>8

\* Writing to LSQ changes nothing the invariant speaks of but the opportunity.
LEMMA WriteBackIInv ==
  ASSUME IInv, NEW w \in Workers, WriteBack(w)
  PROVE  IInv'
<1>. USE DEF WriteBack, Raise, local, tables, counts, IInv
<1>1. pc[w] = "scored" /\ cur[w] \in batch[w] /\ cur[w] \in Jobs
  BY DEF CurrentIsHeld, TypeOK
<1>2. \/ pc' = [pc EXCEPT ![w] = "written"]
      \/ pc' = [pc EXCEPT ![w] = "except"]
  OBVIOUS
<1>3. lsq' \in [Opportunities -> Verdict \cup {NoVerdict}]
  BY <1>1 DEF TypeOK, Opportunities
<1>4. err' \in [Workers -> ErrorKind]
  BY WorkerAssumption DEF TypeOK, ErrorKind
<1>5. TypeOK'
  BY <1>2, <1>3, <1>4 DEF TypeOK
<1>6. /\ pc'[w] \in {"written", "except"}
      /\ \A v \in Workers : v # w => pc'[v] = pc[v]
  BY <1>2 DEF TypeOK
<1>7. CurrentIsHeld' /\ ExclusiveClaim' /\ SelectedStayClaimable'
  BY <1>1, <1>6 DEF CurrentIsHeld, ExclusiveClaim, SelectedStayClaimable
<1>8. HeldJobsAreInProgress' /\ HeldJobsAreUnfinished'
  BY <1>1, <1>6 DEF HeldJobsAreInProgress, HeldJobsAreUnfinished
<1>9. PendingVerdictExplained'
  BY <1>1, <1>6 DEF PendingVerdictExplained, SameImage
<1>10. NoFailedRows' /\ BudgetRespected' /\ ScoredExactlyOnce' /\ RetriesNeverMatchThemselves'
  BY DEF NoFailedRows, BudgetRespected, ScoredExactlyOnce,
         RetriesNeverMatchThemselves, NeverMatchesItself, SameImage
<1>. QED  BY <1>5, <1>7, <1>8, <1>9, <1>10

\* What the rest of a worker's life may rely on: nobody else holds its job.
LEMMA CurrentIsExclusive ==
  ASSUME IInv, NEW w \in Workers, pc[w] \in {"scored", "written", "except"}
  PROVE  /\ cur[w] \in batch[w] /\ cur[w] \in Jobs
         /\ \A v \in Workers : v # w => cur[w] \notin batch[v]
BY DEF IInv, TypeOK, CurrentIsHeld, ExclusiveClaim

\* Advance only shrinks the worker's own batch.
LEMMA AdvanceLocal ==
  ASSUME IInv, NEW w \in Workers, Advance(w)
  PROVE  /\ pc'[w] \in {"idle", "loop"}
         /\ batch'[w] = batch[w] \ {cur[w]}
         /\ \A v \in Workers : v # w =>
              /\ pc'[v] = pc[v] /\ batch'[v] = batch[v]
              /\ cur'[v] = cur[v] /\ out'[v] = out[v]
         /\ pc' \in [Workers -> {"idle", "claiming", "loop", "scored", "written",
                                 "except", "down"}]
         /\ batch' \in [Workers -> SUBSET Jobs]
         /\ cur' \in [Workers -> Jobs \cup {NoJob}]
         /\ out' \in [Workers -> Verdict \cup {NoVerdict}]
         /\ err' \in [Workers -> ErrorKind]
BY DEF Advance, IInv, TypeOK, ErrorKind

\* What a job's transaction does to the tables, whether or not its answer
\* arrives: it keeps every part of the invariant that speaks of them.
LEMMA ApplyTables ==
  ASSUME IInv, NEW w \in Workers, pc[w] = "written", Apply(cur[w], out[w])
  PROVE  /\ jobs' \in [Jobs -> Row]
         /\ hashes' \subseteq Jobs
         /\ results' \in [Jobs -> Nat]
         /\ verdict' \in [Jobs -> Verdict \cup {NoVerdict}]
         /\ jobs'[cur[w]].status = "done"
         /\ \A j \in Jobs \ {cur[w]} : jobs'[j] = jobs[j]
         /\ hashes \subseteq hashes'
         /\ NoFailedRows'
         /\ BudgetRespected'
         /\ lost = 0 =>
              /\ \A j \in Jobs :
                   /\ results'[j] = IF jobs'[j].status = "done" THEN 1 ELSE 0
                   /\ j \in hashes' <=> (results'[j] = 1 /\ ImageOf[j] # NoImage)
              /\ \A j \in Jobs : verdict'[j] = "recycled" =>
                   \E k \in hashes' : k # j /\ SameImage(j, k)
<1>. DEFINE c == cur[w]
<1>1. c \in batch[w] /\ c \in Jobs
  BY CurrentIsExclusive
<1>2. jobs[c] \in Row /\ jobs \in [Jobs -> Row] /\ results \in [Jobs -> Nat]
      /\ hashes \subseteq Jobs /\ out[w] \in Verdict \cup {NoVerdict}
      /\ verdict \in [Jobs -> Verdict \cup {NoVerdict}]
  BY <1>1 DEF IInv, TypeOK
<1>3. jobs[c].status = "in_progress"
  BY <1>1 DEF IInv, HeldJobsAreInProgress
<1>4. /\ Completed(jobs[c]) \in Row
      /\ Completed(jobs[c]).status = "done"
      /\ Completed(jobs[c]).attempts = jobs[c].attempts
  BY <1>2, CompletedRow
<1>5. /\ jobs' = [jobs EXCEPT ![c] = Completed(jobs[c])]
      /\ results' = [results EXCEPT ![c] = results[c] + 1]
      /\ verdict' = [verdict EXCEPT ![c] = out[w]]
      /\ hashes' = IF ImageOf[c] # NoImage THEN hashes \cup {c} ELSE hashes
  BY DEF Apply
<1>. HIDE DEF c
<1>6. jobs'[c] = Completed(jobs[c]) /\ \A j \in Jobs \ {c} : jobs'[j] = jobs[j]
  BY <1>1, <1>2, <1>5
<1>7. NoFailedRows'
  BY <1>4, <1>6 DEF NoFailedRows, IInv
<1>8. BudgetRespected'
  BY <1>1, <1>4, <1>6 DEF BudgetRespected, IInv
<1>9. ASSUME lost = 0
      PROVE  /\ \A j \in Jobs :
                  /\ results'[j] = IF jobs'[j].status = "done" THEN 1 ELSE 0
                  /\ j \in hashes' <=> (results'[j] = 1 /\ ImageOf[j] # NoImage)
             /\ \A j \in Jobs : verdict'[j] = "recycled" =>
                  \E k \in hashes' : k # j /\ SameImage(j, k)
  <2>1. results[c] = 0 /\ c \notin hashes
    BY <1>1, <1>3, <1>9 DEF ScoredExactlyOnce, IInv
  <2>2. \A j \in Jobs :
          /\ results'[j] = IF jobs'[j].status = "done" THEN 1 ELSE 0
          /\ j \in hashes' <=> (results'[j] = 1 /\ ImageOf[j] # NoImage)
    <3>. SUFFICES ASSUME NEW j \in Jobs
                  PROVE  /\ results'[j] = IF jobs'[j].status = "done" THEN 1 ELSE 0
                         /\ j \in hashes' <=> (results'[j] = 1 /\ ImageOf[j] # NoImage)
      OBVIOUS
    <3>1. CASE j = c
      BY <3>1, <1>2, <1>4, <1>5, <1>6, <2>1
    <3>2. CASE j # c
      BY <3>2, <1>2, <1>5, <1>6, <1>9 DEF ScoredExactlyOnce, IInv
    <3>. QED  BY <3>1, <3>2
  <2>3. ASSUME NEW j \in Jobs, verdict'[j] = "recycled"
        PROVE  \E k \in hashes' : k # j /\ SameImage(j, k)
    <3>1. CASE j = c
      <4>1. out[w] = "recycled"
        BY <3>1, <2>3, <1>2, <1>5
      <4>. QED  BY <3>1, <4>1, <1>5, <1>9 DEF PendingVerdictExplained, IInv, c
    <3>2. CASE j # c
      BY <3>2, <2>3, <1>2, <1>5, <1>9
         DEF RetriesNeverMatchThemselves, NeverMatchesItself, IInv
    <3>. QED  BY <3>1, <3>2
  <2>. QED  BY <2>2, <2>3
<1>. QED  BY <1>1, <1>2, <1>4, <1>5, <1>6, <1>7, <1>8, <1>9 DEF c

\* A commit whose answer arrives ends the job and leaves the other workers be.
LEMMA CommitIInv ==
  ASSUME IInv, NEW w \in Workers, Commit(w)
  PROVE  IInv'
<1>1. pc[w] = "written" /\ Apply(cur[w], out[w]) /\ Advance(w)
      /\ UNCHANGED <<lsq, crashes, lost, replays>>
  BY DEF Commit, counts
<1>2. /\ cur[w] \in batch[w] /\ cur[w] \in Jobs
      /\ \A v \in Workers : v # w => cur[w] \notin batch[v]
  BY <1>1, CurrentIsExclusive
<1>3. TypeOK'
  BY <1>1, ApplyTables, AdvanceLocal DEF TypeOK, IInv
<1>4. ExclusiveClaim' /\ CurrentIsHeld'
  BY <1>1, AdvanceLocal DEF ExclusiveClaim, CurrentIsHeld, IInv
<1>5. \A v \in Workers : \A j \in batch'[v] :
        j \in batch[v] /\ j \in Jobs /\ jobs'[j] = jobs[j]
  BY <1>1, <1>2, ApplyTables, AdvanceLocal DEF TypeOK, IInv
<1>6. SelectedStayClaimable'
  BY <1>1, <1>5, AdvanceLocal DEF SelectedStayClaimable, Claimable, IInv
<1>7. HeldJobsAreInProgress' /\ HeldJobsAreUnfinished'
  <2>. SUFFICES ASSUME NEW v \in Workers, pc'[v] # "claiming", NEW j \in batch'[v]
                PROVE  /\ \/ jobs[j].status = "in_progress"
                          \/ /\ jobs[j].status = "done" /\ pc'[v] = "except"
                             /\ j = cur'[v]
                       /\ lost = 0 => jobs[j].status = "in_progress"
    BY <1>1, <1>5 DEF HeldJobsAreInProgress, HeldJobsAreUnfinished
  <2>1. CASE v = w
    <3>1. pc[v] = "written" /\ j \in batch[v]
      BY <2>1, <1>1, <1>5
    <3>. QED  BY <3>1 DEF HeldJobsAreInProgress, IInv
  <2>2. CASE v # w
    BY <2>2, <1>1, <1>5, AdvanceLocal DEF HeldJobsAreInProgress, HeldJobsAreUnfinished, IInv
  <2>. QED  BY <2>1, <2>2
<1>8. PendingVerdictExplained'
  <2>. SUFFICES ASSUME lost = 0, NEW v \in Workers,
                       pc'[v] \in {"scored", "written"}, out'[v] = "recycled"
                PROVE  \E k \in hashes' : k # cur'[v] /\ SameImage(cur'[v], k)
    BY <1>1 DEF PendingVerdictExplained, SameImage
  <2>1. v # w
    BY <1>1, AdvanceLocal
  <2>2. \E k \in hashes : k # cur[v] /\ SameImage(cur[v], k)
    BY <2>1, <1>1, AdvanceLocal DEF PendingVerdictExplained, IInv
  <2>. QED  BY <2>1, <2>2, <1>1, ApplyTables, AdvanceLocal
<1>9. ScoredExactlyOnce' /\ RetriesNeverMatchThemselves'
  <2>1. lost' = lost
    BY <1>1
  <2>. QED  BY <2>1, <1>1, ApplyTables
            DEF ScoredExactlyOnce, RetriesNeverMatchThemselves, NeverMatchesItself, SameImage
<1>. QED  BY <1>1, <1>3, <1>4, <1>6, <1>7, <1>8, <1>9, ApplyTables DEF IInv

\* A commit whose answer is lost leaves the worker holding a done job, about to
\* fail() it.
LEMMA CommitLostIInv ==
  ASSUME IInv, NEW w \in Workers, CommitLost(w)
  PROVE  IInv'
<1>1. /\ pc[w] = "written" /\ Apply(cur[w], out[w])
      /\ pc' = [pc EXCEPT ![w] = "except"]
      /\ \E kind \in Raised : err' = [err EXCEPT ![w] = kind]
      /\ lost' = lost + 1
      /\ UNCHANGED <<batch, cur, out, lsq, crashes, replays>>
  BY DEF CommitLost, Raise
<1>2. /\ cur[w] \in batch[w] /\ cur[w] \in Jobs
      /\ \A v \in Workers : v # w => cur[w] \notin batch[v]
  BY <1>1, CurrentIsExclusive
<1>3. /\ pc'[w] = "except" /\ \A v \in Workers : v # w => pc'[v] = pc[v]
      /\ pc' \in [Workers -> {"idle", "claiming", "loop", "scored", "written",
                              "except", "down"}]
      /\ err' \in [Workers -> ErrorKind]
  BY <1>1, WorkerAssumption DEF IInv, TypeOK, ErrorKind
<1>4. lost' # 0 /\ lost' \in Nat
  BY <1>1 DEF IInv, TypeOK
<1>5. TypeOK'
  BY <1>1, <1>3, <1>4, ApplyTables DEF TypeOK, IInv
<1>6. ExclusiveClaim' /\ CurrentIsHeld'
  BY <1>1, <1>2, <1>3 DEF ExclusiveClaim, CurrentIsHeld, IInv
<1>7. \A v \in Workers : \A j \in batch[v] :
        j \in Jobs /\ (jobs'[j] = jobs[j] \/ (v = w /\ j = cur[w]))
  BY <1>1, <1>2, ApplyTables DEF TypeOK, IInv
<1>8. SelectedStayClaimable'
  BY <1>1, <1>3, <1>7 DEF SelectedStayClaimable, Claimable, IInv
<1>9. HeldJobsAreInProgress'
  <2>. SUFFICES ASSUME NEW v \in Workers, pc'[v] # "claiming", NEW j \in batch[v]
                PROVE  \/ jobs'[j].status = "in_progress"
                       \/ jobs'[j].status = "done" /\ pc'[v] = "except" /\ j = cur[v]
    BY <1>1 DEF HeldJobsAreInProgress
  <2>1. CASE v = w /\ j = cur[w]
    BY <2>1, <1>1, <1>3, ApplyTables
  <2>2. CASE v = w /\ j # cur[w]
    BY <2>2, <1>1, <1>7 DEF HeldJobsAreInProgress, IInv
  <2>3. CASE v # w
    BY <2>3, <1>3, <1>7 DEF HeldJobsAreInProgress, IInv
  <2>. QED  BY <2>1, <2>2, <2>3
<1>10. /\ HeldJobsAreUnfinished' /\ PendingVerdictExplained'
       /\ ScoredExactlyOnce' /\ RetriesNeverMatchThemselves'
  BY <1>4 DEF HeldJobsAreUnfinished, PendingVerdictExplained, ScoredExactlyOnce,
              RetriesNeverMatchThemselves
<1>. QED  BY <1>1, <1>5, <1>6, <1>8, <1>9, <1>10, ApplyTables DEF IInv

\* A refused commit changes nothing but the worker's own control.
LEMMA CommitRefusedIInv ==
  ASSUME IInv, NEW w \in Workers, CommitRefused(w)
  PROVE  IInv'
<1>. USE DEF CommitRefused, Raise, local, tables, counts, IInv
<1>1. /\ pc'[w] = "except" /\ \A v \in Workers : v # w => pc'[v] = pc[v]
      /\ pc' \in [Workers -> {"idle", "claiming", "loop", "scored", "written",
                              "except", "down"}]
      /\ err' \in [Workers -> ErrorKind]
  BY WorkerAssumption DEF TypeOK, ErrorKind
<1>2. TypeOK'
  BY <1>1 DEF TypeOK
<1>3. ExclusiveClaim' /\ CurrentIsHeld' /\ SelectedStayClaimable'
  BY <1>1 DEF ExclusiveClaim, CurrentIsHeld, SelectedStayClaimable
<1>4. HeldJobsAreInProgress' /\ HeldJobsAreUnfinished'
  BY <1>1 DEF HeldJobsAreInProgress, HeldJobsAreUnfinished
<1>5. PendingVerdictExplained'
  BY <1>1 DEF PendingVerdictExplained, SameImage
<1>6. NoFailedRows' /\ BudgetRespected' /\ ScoredExactlyOnce' /\ RetriesNeverMatchThemselves'
  BY DEF NoFailedRows, BudgetRespected, ScoredExactlyOnce,
         RetriesNeverMatchThemselves, NeverMatchesItself, SameImage
<1>. QED  BY <1>2, <1>3, <1>4, <1>5, <1>6

\* fail() puts the job back or dead-letters it and the worker lets go of it.
LEMMA HandleFailureIInv ==
  ASSUME IInv, NEW w \in Workers, HandleFailure(w)
  PROVE  IInv'
<1>. DEFINE c == cur[w]
            row == Failed(jobs[cur[w]], err[w])
<1>1. /\ pc[w] = "except" /\ Advance(w)
      /\ jobs' = [jobs EXCEPT ![c] = row]
      /\ UNCHANGED <<hashes, results, verdict, lsq, crashes, lost, replays>>
  BY DEF HandleFailure, tables, counts
<1>2. /\ c \in batch[w] /\ c \in Jobs
      /\ \A v \in Workers : v # w => c \notin batch[v]
  BY <1>1, CurrentIsExclusive
<1>3. jobs \in [Jobs -> Row] /\ jobs[c] \in Row /\ err[w] \in ErrorKind
  BY <1>2 DEF IInv, TypeOK
<1>4. /\ row \in Row /\ row.status \in {"queued", "dead_letter"}
      /\ row.attempts <= jobs[c].attempts
      /\ row.status = "queued" => row.attempts < MaxAttempts
  BY <1>3, FailedRow
<1>. HIDE DEF row, c
<1>5. jobs'[c] = row /\ \A j \in Jobs \ {c} : jobs'[j] = jobs[j]
  BY <1>1, <1>2, <1>3
<1>6. TypeOK'
  BY <1>1, <1>2, <1>3, <1>4, AdvanceLocal DEF TypeOK, IInv
<1>7. ExclusiveClaim' /\ CurrentIsHeld'
  BY <1>1, AdvanceLocal DEF ExclusiveClaim, CurrentIsHeld, IInv
<1>8. \A v \in Workers : \A j \in batch'[v] :
        j \in batch[v] /\ j \in Jobs /\ j # c /\ jobs'[j] = jobs[j]
  BY <1>1, <1>2, <1>5, AdvanceLocal DEF TypeOK, IInv, c
<1>9. SelectedStayClaimable'
  BY <1>1, <1>8, AdvanceLocal DEF SelectedStayClaimable, Claimable, IInv
<1>10. HeldJobsAreInProgress' /\ HeldJobsAreUnfinished'
  <2>. SUFFICES ASSUME NEW v \in Workers, pc'[v] # "claiming", NEW j \in batch'[v]
                PROVE  /\ \/ jobs[j].status = "in_progress"
                          \/ /\ jobs[j].status = "done" /\ pc'[v] = "except"
                             /\ j = cur'[v]
                       /\ lost = 0 => jobs[j].status = "in_progress"
    BY <1>1, <1>8 DEF HeldJobsAreInProgress, HeldJobsAreUnfinished
  <2>1. CASE v = w
    <3>1. pc[v] = "except" /\ j \in batch[v] /\ j # cur[v]
      BY <2>1, <1>1, <1>8 DEF c
    <3>. QED  BY <3>1 DEF HeldJobsAreInProgress, IInv
  <2>2. CASE v # w
    BY <2>2, <1>1, <1>8, AdvanceLocal DEF HeldJobsAreInProgress, HeldJobsAreUnfinished, IInv
  <2>. QED  BY <2>1, <2>2
<1>11. PendingVerdictExplained'
  <2>. SUFFICES ASSUME lost = 0, NEW v \in Workers,
                       pc'[v] \in {"scored", "written"}, out'[v] = "recycled"
                PROVE  \E k \in hashes : k # cur'[v] /\ SameImage(cur'[v], k)
    BY <1>1 DEF PendingVerdictExplained, SameImage
  <2>1. v # w
    BY <1>1, AdvanceLocal
  <2>. QED  BY <2>1, <1>1, AdvanceLocal DEF PendingVerdictExplained, IInv
<1>12. NoFailedRows' /\ BudgetRespected'
  <2>1. row.attempts \in Nat /\ jobs[c].attempts \in Nat
    BY <1>3, <1>4 DEF Row
  <2>2. row.attempts <= MaxAttempts
    BY <2>1, <1>2, <1>4, JobQueueAssumption DEF BudgetRespected, IInv
  <2>. QED  BY <2>2, <1>2, <1>4, <1>5 DEF NoFailedRows, BudgetRespected, IInv
<1>13. ScoredExactlyOnce'
  <2>. SUFFICES ASSUME lost = 0, NEW j \in Jobs
                PROVE  /\ results[j] = IF jobs'[j].status = "done" THEN 1 ELSE 0
                       /\ j \in hashes <=> (results[j] = 1 /\ ImageOf[j] # NoImage)
    BY <1>1 DEF ScoredExactlyOnce
  <2>1. jobs[c].status = "in_progress"
    BY <1>1, <1>2 DEF HeldJobsAreUnfinished, IInv
  <2>. QED  BY <2>1, <1>2, <1>4, <1>5 DEF ScoredExactlyOnce, IInv
<1>14. RetriesNeverMatchThemselves'
  BY <1>1 DEF RetriesNeverMatchThemselves, NeverMatchesItself, SameImage, IInv
<1>. QED  BY <1>6, <1>7, <1>9, <1>10, <1>11, <1>12, <1>13, <1>14 DEF IInv

\* Death empties a worker's hands, restart finds them empty.
LEMMA CrashRestartIInv ==
  ASSUME IInv, NEW w \in Workers, Crash(w) \/ Restart(w)
  PROVE  IInv'
<1>. USE DEF Crash, Restart, local, tables, counts, IInv
<1>1. /\ pc'[w] \in {"down", "idle"} /\ pc[w] # pc'[w]
      /\ \A v \in Workers : v # w => /\ pc'[v] = pc[v] /\ batch'[v] = batch[v]
                                    /\ cur'[v] = cur[v] /\ out'[v] = out[v]
      /\ batch'[w] = {} \/ (batch'[w] = batch[w] /\ pc[w] = "down")
      /\ UNCHANGED <<jobs, hashes, results, verdict, lsq, lost, replays>>
  BY DEF TypeOK
<1>2. TypeOK'
  BY DEF TypeOK, ErrorKind
<1>3. ExclusiveClaim' /\ CurrentIsHeld' /\ SelectedStayClaimable'
  BY <1>1 DEF ExclusiveClaim, CurrentIsHeld, SelectedStayClaimable
<1>4. HeldJobsAreInProgress' /\ HeldJobsAreUnfinished'
  BY <1>1 DEF HeldJobsAreInProgress, HeldJobsAreUnfinished
<1>5. PendingVerdictExplained'
  BY <1>1 DEF PendingVerdictExplained, SameImage
<1>6. NoFailedRows' /\ BudgetRespected' /\ ScoredExactlyOnce' /\ RetriesNeverMatchThemselves'
  BY <1>1 DEF NoFailedRows, BudgetRespected, ScoredExactlyOnce,
              RetriesNeverMatchThemselves, NeverMatchesItself, SameImage
<1>. QED  BY <1>2, <1>3, <1>4, <1>5, <1>6

\* A delivery, the clock and the operator only make rows claimable that no
\* worker holds.
LEMMA EnvironmentIInv ==
  ASSUME IInv, NEW j \in Jobs, Deliver(j) \/ TimePasses(j) \/ OperatorReplay(j)
  PROVE  IInv'
<1>1. /\ UNCHANGED <<pc, batch, cur, out, err, hashes, results, verdict, lsq, crashes, lost>>
      /\ replays' \in Nat
  BY DEF Deliver, TimePasses, OperatorReplay, local, tables, counts, IInv, TypeOK
<1>2. PICK row \in Row :
        /\ jobs' = [jobs EXCEPT ![j] = row]
        /\ row.status = "queued" /\ row.attempts < MaxAttempts
        /\ jobs[j].status \in {"absent", "queued", "dead_letter"}
        /\ jobs[j].status = "queued" => ~jobs[j].due
  <2>1. jobs[j] \in Row /\ jobs[j].attempts \in Nat
    BY DEF IInv, TypeOK, Row
  <2>2. CASE Deliver(j) \/ OperatorReplay(j)
    <3>1. FreshRow \in Row /\ FreshRow.status = "queued" /\ FreshRow.attempts < MaxAttempts
      BY FreshRowIsRow, JobQueueAssumption DEF FreshRow
    <3>2. /\ jobs' = [jobs EXCEPT ![j] = FreshRow]
          /\ jobs[j].status \in {"absent", "dead_letter"}
      BY <2>2 DEF Deliver, OperatorReplay, Enqueue, Replay
    <3>. QED  BY <3>1, <3>2
  <2>3. CASE TimePasses(j)
    <3>. DEFINE row == [status |-> "queued", attempts |-> jobs[j].attempts, due |-> TRUE]
    <3>1. row \in Row /\ row.status = "queued" /\ row.attempts = jobs[j].attempts
      BY <2>1 DEF Row, Status
    <3>2. jobs[j].attempts < MaxAttempts
      BY <2>3 DEF TimePasses, Tick, IInv, BudgetRespected
    <3>. QED  BY <2>3, <3>1, <3>2 DEF TimePasses, Tick
  <2>. QED  BY <2>2, <2>3
<1>3. jobs'[j] = row /\ \A k \in Jobs \ {j} : jobs'[k] = jobs[k]
  BY <1>2 DEF IInv, TypeOK
<1>4. \A w \in Workers : j \notin batch[w]
  BY <1>2 DEF IInv, SelectedStayClaimable, HeldJobsAreInProgress, Claimable
<1>5. TypeOK'
  BY <1>1, <1>2 DEF IInv, TypeOK
<1>6. \A w \in Workers : \A k \in batch[w] : jobs'[k] = jobs[k]
  BY <1>3, <1>4 DEF IInv, TypeOK
<1>7. ExclusiveClaim' /\ CurrentIsHeld' /\ SelectedStayClaimable'
  BY <1>1, <1>6 DEF IInv, ExclusiveClaim, CurrentIsHeld, SelectedStayClaimable, Claimable
<1>8. HeldJobsAreInProgress' /\ HeldJobsAreUnfinished'
  BY <1>1, <1>6 DEF IInv, HeldJobsAreInProgress, HeldJobsAreUnfinished
<1>9. PendingVerdictExplained' /\ RetriesNeverMatchThemselves'
  BY <1>1 DEF IInv, PendingVerdictExplained, RetriesNeverMatchThemselves,
              NeverMatchesItself, SameImage
<1>10. NoFailedRows' /\ BudgetRespected'
  <2>1. row.attempts <= MaxAttempts
    BY <1>2, JobQueueAssumption DEF Row
  <2>. QED  BY <2>1, <1>2, <1>3 DEF IInv, NoFailedRows, BudgetRespected
<1>11. ScoredExactlyOnce'
  BY <1>1, <1>2, <1>3 DEF IInv, ScoredExactlyOnce
<1>. QED  BY <1>5, <1>7, <1>8, <1>9, <1>10, <1>11 DEF IInv

\* Every step keeps the inductive invariant.
LEMMA NextIInv == IInv /\ [Next]_vars => IInv'
<1>. SUFFICES ASSUME IInv, [Next]_vars PROVE IInv'
  OBVIOUS
<1>1. CASE UNCHANGED vars
  BY <1>1 DEF vars, local, tables, counts, IInv, TypeOK, NoFailedRows,
              SelectedStayClaimable, CurrentIsHeld, ExclusiveClaim, Claimable,
              HeldJobsAreInProgress, HeldJobsAreUnfinished, BudgetRespected,
              ScoredExactlyOnce, PendingVerdictExplained, SameImage,
              RetriesNeverMatchThemselves, NeverMatchesItself
<1>2. ASSUME NEW w \in Workers, Step(w)
      PROVE  IInv'
  <2>1. CASE PollEmpty(w)
    BY <2>1, <1>1 DEF PollEmpty
  <2>. QED  BY <1>2, <2>1, ClaimSelectIInv, ClaimCommitIInv, ScoreIInv, WriteBackIInv,
               CommitIInv, CommitRefusedIInv, CommitLostIInv, HandleFailureIInv DEF Step
<1>. QED  BY <1>1, <1>2, CrashRestartIInv, EnvironmentIInv DEF Next

\* The inductive invariant holds in every reachable state.
THEOREM Invariance == Spec => []IInv
BY InitIInv, NextIInv, PTL DEF Spec

(***************************************************************************)
(* The safety properties.                                                  *)
(***************************************************************************)

\* Two workers never hold one job.
THEOREM ClaimsAreExclusive == Spec => []ExclusiveClaim
BY Invariance, PTL DEF IInv

\* A held job is in_progress in the table, out of reach of claims and replays.
THEOREM HeldJobsStayInProgress == Spec => []HeldJobsAreInProgress
BY Invariance, PTL DEF IInv

\* No job is charged more than max_attempts.
THEOREM BudgetsHold == Spec => []BudgetRespected
BY Invariance, PTL DEF IInv

\* A job has one result and one hash when it is done and none before.
THEOREM JobsAreScoredOnce == Spec => []ScoredExactlyOnce
BY Invariance, PTL DEF IInv

\* A retried job never meets its own hash.
THEOREM RetriesMeetNoOwnHash == Spec => []RetriesNeverMatchThemselves
BY Invariance, PTL DEF IInv

\* Rows, control and counters keep their types.
THEOREM WorkerTypeCorrect == Spec => []TypeOK
BY Invariance, PTL DEF IInv

(***************************************************************************)
(* What LSQ shows.                                                         *)
(***************************************************************************)

\* No other job writes to the job's opportunity.
Alone(j) ==
  /\ OpportunityOf[j] # NoOpportunity
  /\ \A k \in Jobs \ {j} : OpportunityOf[k] # OpportunityOf[j]

\* Between the write to LSQ and the commit the opportunity shows the verdict
\* that is about to be recorded.
WrittenIsShown ==
  \A w \in Workers : pc[w] = "written" /\ Alone(cur[w]) => lsq[OpportunityOf[cur[w]]] = out[w]

LsqInv == LsqShowsTheRecord /\ WrittenIsShown

\* No job is done at the start.
LEMMA InitLsqInv == Init => LsqInv
BY DEF Init, LsqInv, LsqShowsTheRecord, WrittenIsShown, AbsentRow

\* A step that leaves LSQ alone and ends no job keeps what it shows.
LEMMA LsqStays ==
  ASSUME IInv, LsqInv, lsq' = lsq, verdict' = verdict,
         \A j \in Jobs : jobs'[j].status = "done" => jobs[j].status = "done",
         \A w \in Workers : pc'[w] = "written" =>
            pc[w] = "written" /\ cur'[w] = cur[w] /\ out'[w] = out[w]
  PROVE  LsqInv'
<1>1. LsqShowsTheRecord'
  BY DEF LsqInv, LsqShowsTheRecord
<1>2. WrittenIsShown'
  BY DEF LsqInv, WrittenIsShown, Alone
<1>. QED  BY <1>1, <1>2 DEF LsqInv

\* Nobody but its worker writes to the opportunity of a job in progress.
LEMMA WriteBackShows ==
  ASSUME IInv, LsqInv, NEW w \in Workers, WriteBack(w)
  PROVE  LsqInv'
<1>1. /\ pc[w] = "scored" /\ cur[w] \in batch[w] /\ cur[w] \in Jobs
      /\ \A v \in Workers : v # w => cur[w] \notin batch[v]
  BY CurrentIsExclusive DEF WriteBack
<1>2. jobs[cur[w]].status = "in_progress"
  BY <1>1 DEF IInv, HeldJobsAreInProgress
<1>3. /\ jobs' = jobs /\ verdict' = verdict /\ cur' = cur /\ out' = out
      /\ lsq \in [Opportunities -> Verdict \cup {NoVerdict}]
      /\ pc \in [Workers -> {"idle", "claiming", "loop", "scored", "written",
                              "except", "down"}]
  BY DEF WriteBack, tables, counts, IInv, TypeOK
<1>4. \A v \in Workers : v # w => pc'[v] = pc[v]
  BY <1>3 DEF WriteBack, Raise
<1>5. \A o \in Opportunities : o # OpportunityOf[cur[w]] => lsq'[o] = lsq[o]
  BY <1>3 DEF WriteBack
<1>6. ASSUME NEW j \in Jobs, j # cur[w], Alone(j)
      PROVE  lsq'[OpportunityOf[j]] = lsq[OpportunityOf[j]]
  BY <1>1, <1>5, <1>6 DEF Alone, Opportunities
<1>7. LsqShowsTheRecord'
  <2>1. ASSUME NEW j \in Jobs, jobs[j].status = "done", Alone(j)
        PROVE  lsq'[OpportunityOf[j]] = verdict[j]
    <3>1. j # cur[w]
      BY <1>2, <2>1
    <3>2. lsq[OpportunityOf[j]] = verdict[j]
      BY <2>1 DEF LsqInv, LsqShowsTheRecord, Alone
    <3>. QED  BY <1>6, <2>1, <3>1, <3>2
  <2>. QED  BY <1>3, <2>1 DEF LsqShowsTheRecord, Alone
<1>8. WrittenIsShown'
  <2>1. ASSUME NEW v \in Workers, pc'[v] = "written", Alone(cur[v])
        PROVE  lsq'[OpportunityOf[cur[v]]] = out[v]
    <3>1. CASE v = w
      <4>1. OpportunityOf[cur[w]] \in Opportunities
        BY <1>1, <2>1, <3>1 DEF Alone, Opportunities
      <4>2. lsq' = [lsq EXCEPT ![OpportunityOf[cur[w]]] = out[w]]
        BY <1>3, <2>1, <3>1 DEF WriteBack, Raise, Alone
      <4>. QED  BY <1>3, <3>1, <4>1, <4>2
    <3>2. CASE v # w
      <4>1. pc[v] = "written" /\ cur[v] \in batch[v] /\ cur[v] \in Jobs
        BY <1>4, <2>1, <3>2, CurrentIsExclusive
      <4>2. cur[v] # cur[w]
        BY <1>1, <3>2, <4>1
      <4>3. lsq[OpportunityOf[cur[v]]] = out[v]
        BY <2>1, <4>1 DEF LsqInv, WrittenIsShown
      <4>. QED  BY <1>6, <2>1, <4>1, <4>2, <4>3
    <3>. QED  BY <3>1, <3>2
  <2>. QED  BY <1>3, <2>1 DEF WrittenIsShown, Alone
<1>. QED  BY <1>7, <1>8 DEF LsqInv

\* What a commit records is what LSQ was told before it.
LEMMA CommitShows ==
  ASSUME IInv, LsqInv, NEW w \in Workers, Commit(w) \/ CommitLost(w)
  PROVE  LsqInv'
<1>1. pc[w] = "written" /\ Apply(cur[w], out[w]) /\ lsq' = lsq
  BY DEF Commit, CommitLost
<1>2. /\ cur[w] \in batch[w] /\ cur[w] \in Jobs
  BY <1>1, CurrentIsExclusive
<1>3. /\ verdict'[cur[w]] = out[w] /\ \A j \in Jobs \ {cur[w]} : verdict'[j] = verdict[j]
      /\ \A j \in Jobs \ {cur[w]} : jobs'[j] = jobs[j]
  BY <1>1, <1>2 DEF Apply, IInv, TypeOK
<1>4. LsqShowsTheRecord'
  <2>1. ASSUME NEW j \in Jobs, jobs'[j].status = "done", Alone(j)
        PROVE  lsq[OpportunityOf[j]] = verdict'[j]
    <3>1. CASE j = cur[w]
      BY <1>1, <1>3, <2>1, <3>1 DEF LsqInv, WrittenIsShown
    <3>2. CASE j # cur[w]
      BY <1>3, <2>1, <3>2 DEF LsqInv, LsqShowsTheRecord, Alone
    <3>. QED  BY <3>1, <3>2
  <2>. QED  BY <1>1, <2>1 DEF LsqShowsTheRecord, Alone
<1>5. \A v \in Workers : pc'[v] = "written" =>
         pc[v] = "written" /\ cur'[v] = cur[v] /\ out'[v] = out[v]
  <2>1. pc'[w] # "written" /\ \A v \in Workers : v # w =>
           pc'[v] = pc[v] /\ cur'[v] = cur[v] /\ out'[v] = out[v]
    <3>1. CASE Commit(w)
      BY <3>1, AdvanceLocal DEF Commit
    <3>2. CASE CommitLost(w)
      BY <3>2 DEF CommitLost, Raise, IInv, TypeOK
    <3>. QED  BY <3>1, <3>2
  <2>. QED  BY <2>1
<1>6. WrittenIsShown'
  BY <1>1, <1>5 DEF LsqInv, WrittenIsShown, Alone
<1>. QED  BY <1>4, <1>6 DEF LsqInv

\* The other steps of a worker neither write to LSQ nor end a job.
LEMMA OtherStepShows ==
  ASSUME IInv, LsqInv, NEW w \in Workers,
         \/ ClaimSelect(w) \/ ClaimCommit(w) \/ PollEmpty(w) \/ Score(w)
         \/ CommitRefused(w) \/ HandleFailure(w) \/ Crash(w) \/ Restart(w)
  PROVE  LsqInv'
<1>1. lsq' = lsq /\ verdict' = verdict
  BY DEF ClaimSelect, ClaimCommit, PollEmpty, Score, CommitRefused, HandleFailure, Crash, Restart,
         tables, counts, vars
<1>2. \A j \in Jobs : jobs'[j].status = "done" => jobs[j].status = "done"
  <2>1. CASE ClaimCommit(w)
    BY <2>1 DEF ClaimCommit, Claimed
  <2>2. CASE HandleFailure(w)
    <3>1. jobs' = [jobs EXCEPT ![cur[w]] = Failed(jobs[cur[w]], err[w])] /\ cur[w] \in Jobs
      BY <2>2, CurrentIsExclusive DEF HandleFailure
    <3>2. Failed(jobs[cur[w]], err[w]).status # "done"
      BY <3>1, FailedRow DEF IInv, TypeOK
    <3>. QED  BY <3>1, <3>2 DEF IInv, TypeOK
  <2>3. CASE ~ClaimCommit(w) /\ ~HandleFailure(w)
    BY <2>3 DEF ClaimSelect, PollEmpty, Score, CommitRefused, Crash, Restart, vars
  <2>. QED  BY <2>1, <2>2, <2>3
<1>3. \A v \in Workers : pc'[v] = "written" =>
         pc[v] = "written" /\ cur'[v] = cur[v] /\ out'[v] = out[v]
  <2>1. CASE HandleFailure(w)
    BY <2>1, AdvanceLocal DEF HandleFailure
  <2>2. CASE ~HandleFailure(w)
    BY <2>2 DEF ClaimSelect, ClaimCommit, PollEmpty, Score, CommitRefused, Raise, Crash, Restart,
                vars, local, IInv, TypeOK
  <2>. QED  BY <2>1, <2>2
<1>. QED  BY <1>1, <1>2, <1>3, LsqStays

\* Nor do deliveries, the clock and the operator.
LEMMA EnvironmentShows ==
  ASSUME IInv, LsqInv, NEW j \in Jobs, Deliver(j) \/ TimePasses(j) \/ OperatorReplay(j)
  PROVE  LsqInv'
<1>1. lsq' = lsq /\ verdict' = verdict /\ pc' = pc /\ cur' = cur /\ out' = out
  BY DEF Deliver, TimePasses, OperatorReplay, local, tables
<1>2. \A k \in Jobs : jobs'[k].status = "done" => jobs[k].status = "done"
  BY DEF Deliver, TimePasses, OperatorReplay, Enqueue, Tick, Replay, FreshRow, IInv, TypeOK
<1>. QED  BY <1>1, <1>2, LsqStays

\* A done job's opportunity shows the verdict on record, if no other job writes
\* to it, whatever is retried, lost or replayed in between.
THEOREM LsqTheorem == Spec => []LsqShowsTheRecord
<1>1. IInv /\ LsqInv /\ [Next]_vars => (IInv /\ LsqInv)'
  <2>. SUFFICES ASSUME IInv, LsqInv, [Next]_vars
                PROVE  LsqInv'
    BY NextIInv
  <2>1. CASE UNCHANGED vars
    BY <2>1, LsqStays DEF vars, local, tables
  <2>. QED  BY <2>1, WriteBackShows, CommitShows, OtherStepShows, EnvironmentShows DEF Next, Step
<1>2. LsqInv => LsqShowsTheRecord
  BY DEF LsqInv
<1>. QED  BY InitIInv, InitLsqInv, <1>1, <1>2, PTL DEF Spec

(***************************************************************************)
(* Action properties and refinement, where no commit's answer is lost.     *)
(***************************************************************************)

\* What one step does to the row and the results of a job: the promise of
\* JobContract, job by job.
LEMMA StepEffect ==
  ASSUME IInv, lost = 0, lost' = 0, [Next]_vars
  PROVE  \/ UNCHANGED <<jobs, results>>
         \/ /\ UNCHANGED results
            /\ \E S \in SUBSET Jobs :
                 /\ \A j \in S : jobs[j].status = "queued" /\ jobs[j].attempts < MaxAttempts
                 /\ jobs' = [j \in Jobs |-> IF j \in S THEN Claimed(jobs[j]) ELSE jobs[j]]
         \/ \E c \in Jobs :
              /\ jobs[c].status = "in_progress"
              /\ \/ /\ results[c] = 0
                    /\ results' = [results EXCEPT ![c] = 1]
                    /\ jobs' = [jobs EXCEPT ![c] = Completed(jobs[c])]
                 \/ /\ UNCHANGED results
                    /\ \E kind \in ErrorKind :
                         jobs' = [jobs EXCEPT ![c] = Failed(jobs[c], kind)]
         \/ \E c \in Jobs :
              /\ UNCHANGED results
              /\ \/ /\ jobs[c].status \in {"absent", "dead_letter"}
                    /\ jobs' = [jobs EXCEPT ![c] = FreshRow]
                 \/ Tick(c)
<1>1. ASSUME NEW w \in Workers, ClaimCommit(w)
      PROVE  /\ UNCHANGED results
             /\ \E S \in SUBSET Jobs :
                  /\ \A j \in S : jobs[j].status = "queued" /\ jobs[j].attempts < MaxAttempts
                  /\ jobs' = [j \in Jobs |-> IF j \in S THEN Claimed(jobs[j]) ELSE jobs[j]]
  <2>1. batch[w] \in SUBSET Jobs
    BY DEF IInv, TypeOK
  <2>2. \A j \in batch[w] : jobs[j].status = "queued" /\ jobs[j].attempts < MaxAttempts
    BY <1>1, <2>1 DEF ClaimCommit, IInv, SelectedStayClaimable, Claimable, NoFailedRows,
                      BudgetRespected
  <2>. QED  BY <1>1, <2>1, <2>2 DEF ClaimCommit, tables
<1>2. ASSUME NEW w \in Workers, Commit(w)
      PROVE  \E c \in Jobs :
               /\ jobs[c].status = "in_progress" /\ results[c] = 0
               /\ results' = [results EXCEPT ![c] = 1]
               /\ jobs' = [jobs EXCEPT ![c] = Completed(jobs[c])]
  <2>1. pc[w] = "written" /\ Apply(cur[w], out[w])
    BY <1>2 DEF Commit
  <2>2. cur[w] \in batch[w] /\ cur[w] \in Jobs
    BY <2>1, CurrentIsExclusive
  <2>3. jobs[cur[w]].status = "in_progress" /\ results[cur[w]] = 0
    BY <2>1, <2>2 DEF IInv, HeldJobsAreUnfinished, ScoredExactlyOnce
  <2>4. /\ results' = [results EXCEPT ![cur[w]] = 1]
        /\ jobs' = [jobs EXCEPT ![cur[w]] = Completed(jobs[cur[w]])]
    BY <2>1, <2>3 DEF Apply
  <2>. QED  BY <2>2, <2>3, <2>4
<1>3. ASSUME NEW w \in Workers, HandleFailure(w)
      PROVE  \E c \in Jobs :
               /\ jobs[c].status = "in_progress"
               /\ UNCHANGED results
               /\ \E kind \in ErrorKind :
                    jobs' = [jobs EXCEPT ![c] = Failed(jobs[c], kind)]
  <2>1. cur[w] \in batch[w] /\ cur[w] \in Jobs
    BY <1>3, CurrentIsExclusive DEF HandleFailure
  <2>2. jobs[cur[w]].status = "in_progress" /\ err[w] \in ErrorKind
    BY <1>3, <2>1 DEF HandleFailure, IInv, TypeOK, HeldJobsAreUnfinished
  <2>. QED  BY <1>3, <2>1, <2>2 DEF HandleFailure, tables
<1>4. ASSUME NEW w \in Workers,
             \/ ClaimSelect(w) \/ PollEmpty(w) \/ Score(w) \/ WriteBack(w)
             \/ CommitRefused(w) \/ Crash(w) \/ Restart(w)
      PROVE  UNCHANGED <<jobs, results>>
  BY <1>4 DEF ClaimSelect, PollEmpty, Score, WriteBack, CommitRefused, Crash, Restart,
              vars, tables
<1>5. ASSUME NEW w \in Workers PROVE ~CommitLost(w)
  BY DEF CommitLost, IInv, TypeOK
<1>6. ASSUME NEW j \in Jobs, Deliver(j) \/ TimePasses(j) \/ OperatorReplay(j)
      PROVE  /\ UNCHANGED results
             /\ \/ /\ jobs[j].status \in {"absent", "dead_letter"}
                   /\ jobs' = [jobs EXCEPT ![j] = FreshRow]
                \/ Tick(j)
  BY <1>6 DEF Deliver, TimePasses, OperatorReplay, Enqueue, Replay, tables
<1>7. CASE UNCHANGED vars
  BY <1>7 DEF vars, tables
<1>8. CASE \E w \in Workers : Step(w) \/ Crash(w) \/ Restart(w)
  BY <1>1, <1>2, <1>3, <1>4, <1>5, <1>8 DEF Step
<1>9. CASE \E j \in Jobs : Deliver(j) \/ TimePasses(j) \/ OperatorReplay(j)
  BY <1>6, <1>9
<1>. QED  BY <1>7, <1>8, <1>9 DEF Next

\* Done is final and a dead letter is the operator's alone.
THEOREM DoneIsFinal == Spec /\ [](lost = 0) => TerminalIsFinal
<1>1. IInv /\ lost = 0 /\ (lost = 0)' /\ [Next]_vars =>
        [\A j \in Jobs :
           /\ jobs[j].status = "done" => jobs'[j] = jobs[j]
           /\ jobs[j].status = "dead_letter" => jobs'[j] \in {jobs[j], FreshRow}]_jobs
  <2>. SUFFICES ASSUME IInv, lost = 0, lost' = 0, [Next]_vars, NEW j \in Jobs,
                       jobs[j].status \in {"done", "dead_letter"}
                PROVE  jobs'[j] = jobs[j] \/ (jobs[j].status = "dead_letter" /\ jobs'[j] = FreshRow)
    OBVIOUS
  <2>1. jobs \in [Jobs -> Row]
    BY DEF IInv, TypeOK
  <2>. QED  BY <2>1, StepEffect DEF Tick
<1>. QED  BY <1>1, Invariance, PTL DEF Spec, TerminalIsFinal

\* A step of the workers is a step of the contract, or a stutter of it.
LEMMA StepSimulation ==
  ASSUME IInv, lost = 0, lost' = 0, [Next]_vars
  PROVE  [Contract!CNext]_(Contract!cvars)
<1>. USE DEF Contract!cvars, Contract!CNext
<1>1. jobs \in [Jobs -> Row] /\ results \in [Jobs -> Nat]
  BY DEF IInv, TypeOK
<1>2. CASE UNCHANGED <<jobs, results>>
  BY <1>2
<1>3. ASSUME UNCHANGED results,
             NEW S \in SUBSET Jobs,
             \A j \in S : jobs[j].status = "queued" /\ jobs[j].attempts < MaxAttempts,
             jobs' = [j \in Jobs |-> IF j \in S THEN Claimed(jobs[j]) ELSE jobs[j]]
      PROVE  Contract!Take(S)
  BY <1>1, <1>3, ClaimedRow DEF Contract!Take
<1>4. ASSUME NEW c \in Jobs, jobs[c].status = "in_progress", results[c] = 0,
             results' = [results EXCEPT ![c] = 1],
             jobs' = [jobs EXCEPT ![c] = Completed(jobs[c])]
      PROVE  Contract!Finish(c)
  <2>1. /\ Completed(jobs[c]).status = "done"
        /\ Completed(jobs[c]).attempts = jobs[c].attempts
    BY <1>1, CompletedRow
  <2>. QED  BY <1>1, <1>4, <2>1 DEF Contract!Finish, Contract!Move
<1>5. ASSUME NEW c \in Jobs, jobs[c].status = "in_progress", UNCHANGED results,
             NEW kind \in ErrorKind,
             jobs' = [jobs EXCEPT ![c] = Failed(jobs[c], kind)]
      PROVE  Contract!Retry(c) \/ Contract!GiveUp(c)
  <2>. DEFINE row == Failed(jobs[c], kind)
  <2>1. jobs[c] \in Row /\ jobs[c].attempts \in Nat
    BY <1>1 DEF Row
  <2>2. /\ row.status \in {"queued", "dead_letter"}
        /\ \/ row.attempts = jobs[c].attempts
           \/ jobs[c].attempts > 0 /\ row.attempts = jobs[c].attempts - 1
        /\ row.status = "queued" => row.attempts < MaxAttempts
    BY <2>1, FailedRow
  <2>. HIDE DEF row
  <2>3. jobs' = [jobs EXCEPT ![c] = row]
    BY <1>5 DEF row
  <2>4. Contract!Charge(c)
    BY <1>1, <2>2, <2>3 DEF Contract!Charge
  <2>. QED  BY <1>1, <1>5, <2>2, <2>3, <2>4
            DEF Contract!Retry, Contract!GiveUp, Contract!Move
<1>6. ASSUME NEW c \in Jobs, UNCHANGED results,
             jobs[c].status \in {"absent", "dead_letter"},
             jobs' = [jobs EXCEPT ![c] = FreshRow]
      PROVE  Contract!Admit(c)
  BY <1>1, <1>6 DEF Contract!Admit, Contract!Move, FreshRow
<1>7. ASSUME NEW c \in Jobs, UNCHANGED results, Tick(c)
      PROVE  UNCHANGED Contract!cvars
  BY <1>1, <1>7 DEF Tick
<1>. QED  BY <1>2, <1>3, <1>4, <1>5, <1>6, <1>7, StepEffect

\* The workers implement the contract, as long as no commit's answer is lost.
THEOREM WorkersImplementContract == Spec /\ [](lost = 0) => ImplementsContract
<1>1. Init => Contract!CInit
  BY DEF Init, Contract!CInit, AbsentRow
<1>2. IInv /\ lost = 0 /\ (lost = 0)' /\ [Next]_vars => [Contract!CNext]_(Contract!cvars)
  BY StepSimulation
<1>. QED  BY <1>1, <1>2, Invariance, PTL DEF Spec, ImplementsContract, Contract!CSpec
=============================================================================
