------------------------------- MODULE Worker -------------------------------
(***************************************************************************)
(* The scoring workers (worker.py, service/processor.py) draining the jobs *)
(* table, with the two other places a job's outcome becomes visible: the   *)
(* image_hashes and results tables, written in the job's transaction, and  *)
(* the LeadSquared opportunity, written outside it.                        *)
(*                                                                         *)
(* Each worker process runs run_once: claim a batch, commit the claim,     *)
(* then per job score, write back to LSQ, record, commit -- or roll back   *)
(* and fail() the job.  Every point where the process talks to the         *)
(* database or to LSQ is a step of its own, so that workers interleave and *)
(* a process can die between any two of them.                              *)
(*                                                                         *)
(* Abstractions.  Two images are the same or unrelated (near duplicates    *)
(* are left to module Fusion); a verdict is "recycled" when the exact-     *)
(* duplicate gate fired and "fresh" otherwise.  The three LSQ fields are   *)
(* one cell, written by one update_custom_fields call.                     *)
(***************************************************************************)
EXTENDS JobQueue

CONSTANTS
  Workers,       \* worker processes
  BatchSize,     \* settings.worker_batch_size
  Unreadable,    \* jobs whose payload yields no image bytes (or no tenant)
  ImageOf,       \* the tenant-scoped image of a job
  NoImage,       \* ImageOf of bytes that do not decode: no dHash
  OpportunityOf, \* payload.opportunity_id
  NoOpportunity, \* ... when the payload has none
  Raised,        \* the kinds of non-fatal errors scoring may raise
  NoJob,
  MaxCrashes,    \* bound: worker deaths
  MaxLost,       \* bound: commits that apply although commit() raises
  MaxReplays     \* bound: operator replays

ASSUME WorkerAssumption ==
  /\ BatchSize \in Nat \ {0}
  /\ Unreadable \subseteq Jobs
  /\ Raised \subseteq ErrorKind \ {"fatal"}
  /\ NoJob \notin Jobs
  /\ MaxCrashes \in Nat /\ MaxLost \in Nat /\ MaxReplays \in Nat

VARIABLES
  pc,        \* where each worker is in run_once
  batch,     \* the jobs of its claimed batch not dealt with yet
  cur,       \* the job it is processing
  out,       \* the verdict computed for cur
  err,       \* the kind of the exception caught for cur
  hashes,    \* jobs whose image is committed to image_hashes
  results,   \* number of committed results rows per job
  verdict,   \* verdict of the newest of them
  lsq,       \* verdict each opportunity shows in LSQ
  crashes, lost, replays

local  == <<pc, batch, cur, out, err>>
tables == <<hashes, results, verdict>>
counts == <<crashes, lost, replays>>
vars   == <<jobs, local, tables, lsq, counts>>

Verdict == {"fresh", "recycled"}
NoVerdict == "none"

Opportunities == {OpportunityOf[j] : j \in Jobs} \ {NoOpportunity}

TypeOK ==
  /\ jobs \in [Jobs -> Row]
  /\ pc \in [Workers -> {"idle", "claiming", "loop", "scored", "written",
                         "except", "down"}]
  /\ batch \in [Workers -> SUBSET Jobs]
  /\ cur \in [Workers -> Jobs \cup {NoJob}]
  /\ out \in [Workers -> Verdict \cup {NoVerdict}]
  /\ err \in [Workers -> ErrorKind]
  /\ hashes \subseteq Jobs
  /\ results \in [Jobs -> Nat]
  /\ verdict \in [Jobs -> Verdict \cup {NoVerdict}]
  /\ lsq \in [Opportunities -> Verdict \cup {NoVerdict}]
  /\ crashes \in Nat /\ lost \in Nat /\ replays \in Nat

Init ==
  /\ jobs = [j \in Jobs |-> AbsentRow]
  /\ pc = [w \in Workers |-> "idle"]
  /\ batch = [w \in Workers |-> {}]
  /\ cur = [w \in Workers |-> NoJob]
  /\ out = [w \in Workers |-> NoVerdict]
  /\ err = [w \in Workers |-> "other"]
  /\ hashes = {}
  /\ results = [j \in Jobs |-> 0]
  /\ verdict = [j \in Jobs |-> NoVerdict]
  /\ lsq = [o \in Opportunities |-> NoVerdict]
  /\ crashes = 0 /\ lost = 0 /\ replays = 0
-----------------------------------------------------------------------------
(***************************************************************************)
(* Claiming.  Rows selected FOR UPDATE by a transaction that has not       *)
(* committed yet are skipped by the others.                                *)
(***************************************************************************)

\* faulty variant: a plain SELECT, without FOR UPDATE SKIP LOCKED
RowLocks_Ignored == {}

RowLocks == UNION {batch[w] : w \in {v \in Workers : pc[v] = "claiming"}}

Available == {j \in Jobs : Claimable(jobs[j])} \ RowLocks

\* claim_batch.  A row that stopped qualifying between the snapshot and its
\* lock drops out of the batch, so a batch may be short of the limit.
ClaimSelect(w) ==
  /\ pc[w] = "idle"
  /\ \E S \in SUBSET Available :
       /\ S # {} /\ Cardinality(S) <= BatchSize
       /\ batch' = [batch EXCEPT ![w] = S]
  /\ pc' = [pc EXCEPT ![w] = "claiming"]
  /\ UNCHANGED <<jobs, cur, out, err, tables, lsq, counts>>

\* run_once: the commit that persists the claim and releases the locks
ClaimCommit(w) ==
  /\ pc[w] = "claiming"
  /\ jobs' = [j \in Jobs |-> IF j \in batch[w] THEN Claimed(jobs[j])
                                               ELSE jobs[j]]
  /\ pc' = [pc EXCEPT ![w] = "loop"]
  /\ UNCHANGED <<batch, cur, out, err, tables, lsq, counts>>

\* run_once found nothing to claim: run_forever sleeps and polls again
PollEmpty(w) ==
  /\ pc[w] = "idle"
  /\ Available = {}
  /\ UNCHANGED vars
-----------------------------------------------------------------------------
(***************************************************************************)
(* One job.                                                                *)
(***************************************************************************)

\* process_job's try block left by an exception of this kind
Raise(w, kind) ==
  /\ pc' = [pc EXCEPT ![w] = "except"]
  /\ err' = [err EXCEPT ![w] = kind]

SameImage(j, k) == ImageOf[j] = ImageOf[k] /\ ImageOf[j] # NoImage

\* faulty variant: only earlier uploads of the same opportunity are compared
SeenBefore_SameOpportunity(j) ==
  \E k \in hashes : SameImage(j, k) /\ OpportunityOf[j] = OpportunityOf[k]

\* uniqueness: the committed hashes of the tenant hold this image already
SeenBefore(j) == \E k \in hashes : SameImage(j, k)

Assess(j) == IF SeenBefore(j) THEN "recycled" ELSE "fresh"

\* process_job up to the verdict: tenant, image bytes, engine.score
Score(w) ==
  /\ pc[w] = "loop"
  /\ \E j \in batch[w] :
       /\ cur' = [cur EXCEPT ![w] = j]
       /\ \/ /\ j \in Unreadable
             /\ Raise(w, "fatal")
             /\ UNCHANGED out
          \/ /\ j \notin Unreadable
             /\ \E kind \in Raised : Raise(w, kind)
             /\ UNCHANGED out
          \/ /\ j \notin Unreadable
             /\ out' = [out EXCEPT ![w] = Assess(j)]
             /\ pc' = [pc EXCEPT ![w] = "scored"]
             /\ UNCHANGED err
  /\ UNCHANGED <<jobs, batch, tables, lsq, counts>>

\* faulty variant: an opportunity that shows a verdict already is not written again
WriteBack_OnlyOnce(w) ==
  LET o == OpportunityOf[cur[w]] IN
  /\ pc[w] = "scored"
  /\ \/ /\ pc' = [pc EXCEPT ![w] = "written"]
        /\ lsq' = IF o # NoOpportunity /\ lsq[o] = NoVerdict
                    THEN [lsq EXCEPT ![o] = out[w]] ELSE lsq
        /\ UNCHANGED err
     \/ /\ o # NoOpportunity
        /\ \E kind \in Raised : Raise(w, kind)
        /\ UNCHANGED lsq
  /\ UNCHANGED <<jobs, batch, cur, out, tables, counts>>

\* process_job's update_custom_fields: it may raise, before or after LSQ took
\* the write, and is skipped when the payload names no opportunity
WriteBack(w) ==
  LET o == OpportunityOf[cur[w]] IN
  /\ pc[w] = "scored"
  /\ \/ /\ o # NoOpportunity
        /\ lsq' = [lsq EXCEPT ![o] = out[w]]
        /\ pc' = [pc EXCEPT ![w] = "written"]
        /\ UNCHANGED err
     \/ /\ o = NoOpportunity
        /\ pc' = [pc EXCEPT ![w] = "written"]
        /\ UNCHANGED <<lsq, err>>
     \/ /\ o # NoOpportunity
        /\ \E kind \in Raised : Raise(w, kind)
        /\ lsq' \in {lsq, [lsq EXCEPT ![o] = out[w]]}
  /\ UNCHANGED <<jobs, batch, cur, out, tables, counts>>

\* the job's transaction: the remembered hash, the result row and complete()
Apply(j, v) ==
  /\ hashes' = IF ImageOf[j] # NoImage THEN hashes \cup {j} ELSE hashes
  /\ results' = [results EXCEPT ![j] = @ + 1]
  /\ verdict' = [verdict EXCEPT ![j] = v]
  /\ jobs' = [jobs EXCEPT ![j] = Completed(@)]

\* run_once goes on with the rest of the batch, or ends the pass
Advance(w) ==
  /\ batch' = [batch EXCEPT ![w] = @ \ {cur[w]}]
  /\ cur' = [cur EXCEPT ![w] = NoJob]
  /\ out' = [out EXCEPT ![w] = NoVerdict]
  /\ err' = [err EXCEPT ![w] = "other"]
  /\ pc' = [pc EXCEPT ![w] = IF batch[w] = {cur[w]} THEN "idle" ELSE "loop"]

Commit(w) ==
  /\ pc[w] = "written"
  /\ Apply(cur[w], out[w])
  /\ Advance(w)
  /\ UNCHANGED <<lsq, counts>>

\* record_result, complete or the commit raised and nothing was applied
CommitRefused(w) ==
  /\ pc[w] = "written"
  /\ \E kind \in Raised : Raise(w, kind)
  /\ UNCHANGED <<jobs, batch, cur, out, tables, lsq, counts>>

\* commit() raised (the connection died) although the server had committed
CommitLost(w) ==
  /\ pc[w] = "written"
  /\ lost < MaxLost
  /\ Apply(cur[w], out[w])
  /\ \E kind \in Raised : Raise(w, kind)
  /\ lost' = lost + 1
  /\ UNCHANGED <<batch, cur, out, lsq, crashes, replays>>

\* faulty variant: the rollback is forgotten and fail()'s commit keeps what
\* the failed try had flushed
HandleFailure_NoRollback(w) ==
  /\ pc[w] = "except"
  /\ jobs' = [jobs EXCEPT ![cur[w]] = Failed(@, err[w])]
  /\ hashes' = IF out[w] # NoVerdict /\ ImageOf[cur[w]] # NoImage
                 THEN hashes \cup {cur[w]} ELSE hashes
  /\ Advance(w)
  /\ UNCHANGED <<results, verdict, lsq, counts>>

\* the except branch: rollback, fail() on the row as the database has it
\* now, commit
HandleFailure(w) ==
  /\ pc[w] = "except"
  /\ jobs' = [jobs EXCEPT ![cur[w]] = Failed(@, err[w])]
  /\ Advance(w)
  /\ UNCHANGED <<tables, lsq, counts>>
-----------------------------------------------------------------------------
(***************************************************************************)
(* Process death (also an exception that escapes run_once, from the claim  *)
(* or from the except branch itself).  The open transaction is rolled      *)
(* back; the batch was only in memory.                                     *)
(***************************************************************************)
Crash(w) ==
  /\ pc[w] # "down"
  /\ crashes < MaxCrashes
  /\ crashes' = crashes + 1
  /\ pc' = [pc EXCEPT ![w] = "down"]
  /\ batch' = [batch EXCEPT ![w] = {}]
  /\ cur' = [cur EXCEPT ![w] = NoJob]
  /\ out' = [out EXCEPT ![w] = NoVerdict]
  /\ err' = [err EXCEPT ![w] = "other"]
  /\ UNCHANGED <<jobs, tables, lsq, lost, replays>>

Restart(w) ==
  /\ pc[w] = "down"
  /\ pc' = [pc EXCEPT ![w] = "idle"]
  /\ UNCHANGED <<jobs, batch, cur, out, err, tables, lsq, counts>>

Deliver(j) == Enqueue(j) /\ UNCHANGED <<local, tables, lsq, counts>>

TimePasses(j) == Tick(j) /\ UNCHANGED <<local, tables, lsq, counts>>

OperatorReplay(j) ==
  /\ replays < MaxReplays
  /\ Replay(j)
  /\ replays' = replays + 1
  /\ UNCHANGED <<local, tables, lsq, crashes, lost>>

Step(w) ==
  \/ ClaimSelect(w) \/ ClaimCommit(w) \/ PollEmpty(w)
  \/ Score(w) \/ WriteBack(w)
  \/ Commit(w) \/ CommitRefused(w) \/ CommitLost(w)
  \/ HandleFailure(w)

Next ==
  \/ \E w \in Workers : Step(w) \/ Crash(w) \/ Restart(w)
  \/ \E j \in Jobs : Deliver(j) \/ TimePasses(j) \/ OperatorReplay(j)

(***************************************************************************)
(* run_forever never stops of itself, time passes, and whoever runs the    *)
(* worker starts it again when it dies.                                    *)
(***************************************************************************)
Fairness ==
  /\ \A w \in Workers : WF_vars(Step(w)) /\ WF_vars(Restart(w))
  /\ \A j \in Jobs : WF_vars(TimePasses(j))

Spec == Init /\ [][Next]_vars

FairSpec == Spec /\ Fairness
-----------------------------------------------------------------------------
(***************************************************************************)
(* Properties.                                                             *)
(***************************************************************************)

\* No two workers ever hold the same job: FOR UPDATE SKIP LOCKED keeps a row
\* selected by one claim out of the others until it is in_progress.
ExclusiveClaim ==
  \A v, w \in Workers : v # w => batch[v] \cap batch[w] = {}

\* A job in some worker's hands past its claim is in_progress in the table
\* (or just committed, when the commit's answer was lost), so neither another
\* claim nor the operator's replay can touch it.
HeldJobsAreInProgress ==
  \A w \in Workers : pc[w] # "claiming" =>
    \A j \in batch[w] :
      \/ jobs[j].status = "in_progress"
      \/ jobs[j].status = "done" /\ pc[w] = "except" /\ j = cur[w]

\* attempts never exceeds max_attempts, and a job waiting in the queue still
\* has one to spend, whatever mix of errors, refunds and replays it met.
BudgetRespected ==
  \A j \in Jobs :
    /\ jobs[j].attempts <= MaxAttempts
    /\ jobs[j].status = "queued" => jobs[j].attempts < MaxAttempts

\* While no commit's answer is lost, a job has one result row when it is done
\* and none otherwise, and its hash is remembered exactly when it has one:
\* retries, crashes and replays never score a job twice nor leave half of the
\* job's transaction behind.
ScoredExactlyOnce ==
  lost = 0 =>
    \A j \in Jobs :
      /\ results[j] = IF jobs[j].status = "done" THEN 1 ELSE 0
      /\ j \in hashes <=> (results[j] = 1 /\ ImageOf[j] # NoImage)

\* "The hash is remembered AFTER scoring, so an image never matches itself"
\* (engine/pipeline.py:92, engine/checks/uniqueness.py:6): a recycled verdict on record is
\* explained by the upload of another job.
NeverMatchesItself ==
  \A j \in Jobs : verdict[j] = "recycled" =>
    \E k \in hashes : k # j /\ SameImage(j, k)

\* The same as the code keeps it: true while no commit's answer is lost.
RetriesNeverMatchThemselves == lost = 0 => NeverMatchesItself

\* A done job's opportunity shows the verdict on record, when no other job
\* writes to that opportunity: process_job writes LSQ before the row, and a
\* retry that changes its mind writes again.
LsqShowsTheRecord ==
  \A j \in Jobs :
    (/\ jobs[j].status = "done"
     /\ OpportunityOf[j] # NoOpportunity
     /\ \A k \in Jobs \ {j} : OpportunityOf[k] # OpportunityOf[j])
    => lsq[OpportunityOf[j]] = verdict[j]

\* A done row is never touched again and a dead letter only by the operator.
TerminalIsFinal ==
  [][\A j \in Jobs :
       /\ jobs[j].status = "done" => jobs'[j] = jobs[j]
       /\ jobs[j].status = "dead_letter" =>
            jobs'[j] \in {jobs[j], FreshRow}]_jobs

(***************************************************************************)
(* The inductive invariant behind the properties above.                    *)
(***************************************************************************)

\* No code stores the enum value "failed".
NoFailedRows == \A j \in Jobs : jobs[j].status # "failed"

\* The rows a claim selected still qualify when it commits.
SelectedStayClaimable ==
  \A w \in Workers : pc[w] = "claiming" => \A j \in batch[w] : Claimable(jobs[j])

\* The job being processed is one of the worker's batch.
CurrentIsHeld ==
  \A w \in Workers : pc[w] \in {"scored", "written", "except"} => cur[w] \in batch[w]

\* While no commit's answer is lost a held job is in_progress, no exception.
HeldJobsAreUnfinished ==
  lost = 0 =>
    \A w \in Workers : pc[w] # "claiming" =>
      \A j \in batch[w] : jobs[j].status = "in_progress"

\* ... and a recycled verdict on its way to the table is explained already.
PendingVerdictExplained ==
  lost = 0 =>
    \A w \in Workers :
      (pc[w] \in {"scored", "written"} /\ out[w] = "recycled") =>
        \E k \in hashes : k # cur[w] /\ SameImage(cur[w], k)

IInv ==
  /\ TypeOK
  /\ NoFailedRows
  /\ SelectedStayClaimable
  /\ CurrentIsHeld
  /\ ExclusiveClaim
  /\ HeldJobsAreInProgress
  /\ HeldJobsAreUnfinished
  /\ BudgetRespected
  /\ ScoredExactlyOnce
  /\ PendingVerdictExplained
  /\ RetriesNeverMatchThemselves

\* The workers keep the promise of module JobContract (while no commit's answer
\* is lost): the detail of claims, transactions and crashes never shows.
Contract == INSTANCE JobContract WITH
  phase  <- [j \in Jobs |-> jobs[j].status],
  tries  <- [j \in Jobs |-> jobs[j].attempts],
  scored <- results

ImplementsContract == Contract!CSpec

\* Every delivered job is scored or dead-lettered in the end.
EventuallySettled ==
  \A j \in Jobs : jobs[j].status = "queued" ~> Terminal(j)

\* The same as the code keeps it: whatever exceptions, refused commits and
\* replays a job meets, only the death of a worker process can strand it.
SettledUnlessCrashed ==
  \A j \in Jobs : jobs[j].status = "queued" ~> (Terminal(j) \/ crashes > 0)
=============================================================================
