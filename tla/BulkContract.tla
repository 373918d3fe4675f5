---------------------------- MODULE BulkContract ----------------------------
(***************************************************************************)
(* What the client of a bulk job is promised (BulkJob, run_bulk_job and    *)
(* "one bad row never fails the batch", service/bulk.py): an accepted job  *)
(* runs once and ends once, an outcome once shown never changes, a row's   *)
(* result is written once and only while its job runs, progress only grows *)
(* and counts outcomes, and a job that is done has all of them and stays   *)
(* as it is.  Only the death of the process makes a job disappear, and it  *)
(* takes no written result along.                                          *)
(*                                                                         *)
(* Requests, the registry and its eviction, semaphores, limiters, fetches, *)
(* threads and commits are absent: module BulkScore implements this one.   *)
(***************************************************************************)
EXTENDS Naturals, FiniteSets

CONSTANTS Jobs, RowsOf

VARIABLES
  job,       \* where each job is, as its client sees it
  verdict,   \* the outcome of each row
  progress,  \* how many rows of each job are counted
  kept       \* how often each row's result is in the results table

bvars == <<job, verdict, progress, kept>>

Undecided == [j \in Jobs |-> [r \in RowsOf[j] |-> "none"]]

BInit ==
  /\ job = [j \in Jobs |-> "none"]
  /\ verdict = Undecided
  /\ progress = [j \in Jobs |-> 0]
  /\ kept = [j \in Jobs |-> [r \in RowsOf[j] |-> 0]]

DecidedOf(j) == {r \in RowsOf[j] : verdict[j][r] # "none"}

Goes(j, from, to) ==
  /\ job[j] = from
  /\ job' = [job EXCEPT ![j] = to]
  /\ UNCHANGED <<verdict, progress, kept>>

Accept(j) == Goes(j, "none", "queued")

Start(j) == Goes(j, "queued", "running")

\* the job's tenant is unknown: every row is refused before any is tried
Refuse(j) ==
  /\ job[j] = "running"
  /\ \A r \in RowsOf[j] : verdict[j][r] = "none" /\ kept[j][r] = 0
  /\ verdict' = [verdict EXCEPT ![j] = [r \in RowsOf[j] |-> "error"]]
  /\ UNCHANGED <<job, progress, kept>>

Keep(j, r) ==
  /\ job[j] = "running" /\ verdict[j][r] = "none" /\ kept[j][r] = 0
  /\ kept' = [kept EXCEPT ![j][r] = @ + 1]
  /\ UNCHANGED <<job, verdict, progress>>

Decide(j, r) ==
  /\ job[j] = "running" /\ verdict[j][r] = "none"
  /\ \/ kept[j][r] = 1 /\ verdict' = [verdict EXCEPT ![j][r] = "scored"]
     \/ verdict' = [verdict EXCEPT ![j][r] = "error"]
  /\ UNCHANGED <<job, progress, kept>>

Count(j, n) ==
  /\ job[j] = "running"
  /\ progress[j] < n /\ n <= Cardinality(DecidedOf(j))
  /\ progress' = [progress EXCEPT ![j] = n]
  /\ UNCHANGED <<job, verdict, kept>>

Finish(j) ==
  /\ DecidedOf(j) = RowsOf[j] /\ progress[j] = Cardinality(RowsOf[j])
  /\ Goes(j, "running", "done")

\* the process dies: whatever it knew of is gone
Die ==
  /\ \E lost \in SUBSET Jobs :
       /\ {j \in Jobs : job[j] # "none"} \subseteq lost
       /\ job' = [j \in Jobs |-> IF j \in lost THEN "gone" ELSE "none"]
  /\ verdict' = Undecided
  /\ progress' = [j \in Jobs |-> 0]
  /\ UNCHANGED kept

BNext ==
  \/ \E j \in Jobs :
       \/ Accept(j) \/ Start(j) \/ Refuse(j) \/ Finish(j)
       \/ \E r \in RowsOf[j] : Keep(j, r) \/ Decide(j, r)
       \/ \E n \in 1..Cardinality(RowsOf[j]) : Count(j, n)
  \/ Die

BSpec == BInit /\ [][BNext]_bvars
=============================================================================
