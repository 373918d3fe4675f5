----------------------------- MODULE BulkScore -----------------------------
(***************************************************************************)
(* Bulk scoring in one API process (api/bulk.py, service/bulk.py).  A POST *)
(* runs in a pool thread: it counts the jobs in flight, registers its own, *)
(* evicts old ones and answers; run_bulk_job then runs on the event loop   *)
(* and hands every fetch and every scoring to a thread, under a semaphore  *)
(* of the job and two limiters of the process.  A GET, in a pool thread    *)
(* too, copies the job while the event loop goes on changing it.           *)
(*                                                                         *)
(* A job stands for the POST that creates it.  The rows of the results     *)
(* table outlive the process; the registry does not.                       *)
(***************************************************************************)
EXTENDS Integers, FiniteSets, Sequences, SequencesExt

CONSTANTS
  Jobs,                   \* POST /v1/bulk-score requests
  RowsOf,                 \* the rows of each
  Watched,                \* the jobs a client polls
  MAX_INFLIGHT_JOBS,
  MAX_RETAINED_JOBS,
  BULK_CONCURRENCY,       \* rows of one job at a time
  BULK_FETCH_CONCURRENCY, \* fetches of the process at a time
  SCORE_CONCURRENCY,      \* scorings of the process at a time
  POOL_THREADS,           \* anyio's default limiter: requests handled at a time
  Lookup,                 \* the outcomes run_bulk_job's tenant lookup can have
  MaxLost,                \* bound: commits that apply although commit() raises
  MaxCrashes              \* bound: process deaths

ASSUME BulkAssumption ==
  /\ \A j \in Jobs : RowsOf[j] # {} /\ IsFiniteSet(RowsOf[j])
  /\ Watched \subseteq Jobs
  /\ {MAX_INFLIGHT_JOBS, MAX_RETAINED_JOBS, BULK_CONCURRENCY,
      BULK_FETCH_CONCURRENCY, SCORE_CONCURRENCY, POOL_THREADS} \subseteq Nat \ {0}
  /\ \A j \in Jobs : Lookup[j] \subseteq {"known", "unknown", "raises"} /\ Lookup[j] # {}
  /\ MaxLost \in Nat /\ MaxCrashes \in Nat

VARIABLES
  post,      \* where each POST is
  registry,  \* the registered jobs, in insertion order
  sweep,     \* what create's eviction loop has still to visit
  status,    \* BulkJob.status
  phase,     \* where run_bulk_job is
  row,       \* where each row's task is
  out,       \* what BulkRowResult says of each row
  processed, \* BulkJob.processed
  saved,     \* rows of the results table written for each row
  seen,      \* what a poll of each job has copied of it
  lost, crashes

vars == <<post, registry, sweep, status, phase, row, out, processed, saved, seen, lost, crashes>>

run == <<phase, row, out, processed, saved, lost>>

Per(value) == [j \in Jobs |-> [r \in RowsOf[j] |-> value]]

NotYet == -1
Unread == [status |-> "none", processed |-> NotYet, decided |-> NotYet]

Init ==
  /\ post = [j \in Jobs |-> "new"]
  /\ registry = <<>>
  /\ sweep = [j \in Jobs |-> <<>>]
  /\ status = [j \in Jobs |-> "queued"]
  /\ phase = [j \in Jobs |-> "none"]
  /\ row = Per("waiting")
  /\ out = Per("none")
  /\ processed = [j \in Jobs |-> 0]
  /\ saved = Per(0)
  /\ seen = [j \in Jobs |-> Unread]
  /\ lost = 0 /\ crashes = 0

-----------------------------------------------------------------------------
(* The registry. *)

Registered == ToSet(registry)

(* active_count *)
Active == Cardinality({j \in Registered : status[j] # "done"})

PoolHasRoom == Cardinality({j \in Jobs : post[j] \in {"counted", "evicting"}}) < POOL_THREADS

(* faulty variant: one job more than the limit *)
CountInflight_OneMore(j) ==
  /\ post[j] = "new" /\ PoolHasRoom
  /\ post' = [post EXCEPT ![j] = IF Active > MAX_INFLIGHT_JOBS THEN "refused" ELSE "counted"]
  /\ UNCHANGED <<registry, sweep, status, run, seen, crashes>>

(* start_bulk_score's check, in a thread of the pool. *)
CountInflight(j) ==
  /\ post[j] = "new" /\ PoolHasRoom
  /\ post' = [post EXCEPT ![j] = IF Active >= MAX_INFLIGHT_JOBS THEN "refused" ELSE "counted"]
  /\ UNCHANGED <<registry, sweep, status, run, seen, crashes>>

(* Another thread's insertion while the dictionary is being counted raises,     *)
(* which fails the request before anything is created.                         *)
CountRaises(j) ==
  /\ post[j] = "new" /\ PoolHasRoom
  /\ \E k \in Jobs \ {j} : post[k] \in {"counted", "evicting"}
  /\ post' = [post EXCEPT ![j] = "failed"]
  /\ UNCHANGED <<registry, sweep, status, run, seen, crashes>>

(* create: the new job goes to the end; over the cap, a copy of the keys is swept. *)
Create(j) ==
  /\ post[j] = "counted"
  /\ registry' = Append(registry, j)
  /\ post' = [post EXCEPT ![j] = "evicting"]
  /\ sweep' = [sweep EXCEPT ![j] = IF Len(registry') > MAX_RETAINED_JOBS THEN registry' ELSE <<>>]
  /\ UNCHANGED <<status, run, seen, crashes>>

(* faulty variant: the oldest job goes, running or not *)
EvictNext_AnyStatus(j) ==
  /\ post[j] = "evicting"
  /\ sweep[j] # <<>> /\ Len(registry) > MAX_RETAINED_JOBS
  /\ registry' = Remove(registry, Head(sweep[j]))
  /\ sweep' = [sweep EXCEPT ![j] = Tail(@)]
  /\ UNCHANGED <<post, status, run, seen, crashes>>

(* faulty variant: only the oldest key is looked at *)
EvictNext_OldestOnly(j) ==
  /\ post[j] = "evicting"
  /\ sweep[j] # <<>> /\ Len(registry) > MAX_RETAINED_JOBS
  /\ LET oldest == Head(sweep[j]) IN
       /\ oldest \in Registered
       /\ registry' = IF oldest # j /\ status[oldest] = "done"
                      THEN Remove(registry, oldest) ELSE registry
       /\ sweep' = [sweep EXCEPT ![j] = <<>>]
       /\ UNCHANGED post
  /\ UNCHANGED <<status, run, seen, crashes>>

(* One turn of the eviction loop: only done jobs go.  A key another thread has  *)
(* deleted raises KeyError: the request fails although its job is registered.   *)
EvictNext(j) ==
  /\ post[j] = "evicting"
  /\ sweep[j] # <<>> /\ Len(registry) > MAX_RETAINED_JOBS
  /\ LET oldest == Head(sweep[j]) IN
       \/ /\ \E i \in DOMAIN registry :
               /\ registry[i] = oldest
               /\ registry' = IF oldest # j /\ status[oldest] = "done"
                              THEN RemoveAt(registry, i) ELSE registry
          /\ sweep' = [sweep EXCEPT ![j] = Tail(@)]
          /\ UNCHANGED post
       \/ /\ oldest \notin Registered
          /\ post' = [post EXCEPT ![j] = "failed"]
          /\ sweep' = [sweep EXCEPT ![j] = <<>>]
          /\ UNCHANGED registry
  /\ UNCHANGED <<status, run, seen, crashes>>

Answer(j) ==
  /\ post[j] = "evicting"
  /\ sweep[j] = <<>> \/ Len(registry) <= MAX_RETAINED_JOBS
  /\ post' = [post EXCEPT ![j] = "answered"]
  /\ sweep' = [sweep EXCEPT ![j] = <<>>]
  /\ UNCHANGED <<registry, status, run, seen, crashes>>

-----------------------------------------------------------------------------
(* run_bulk_job, the background task that starts after the answer. *)

Begin(j) ==
  /\ post[j] = "answered" /\ phase[j] = "none"
  /\ status' = [status EXCEPT ![j] = "running"]
  /\ phase' = [phase EXCEPT ![j] = "resolving"]
  /\ UNCHANGED <<post, registry, sweep, row, out, processed, saved, seen, lost, crashes>>

ResolveTenant(j) ==
  /\ phase[j] = "resolving"
  /\ \/ /\ "known" \in Lookup[j]
        /\ phase' = [phase EXCEPT ![j] = "rows"] /\ UNCHANGED out
     \/ \* every row gets the error
        /\ "unknown" \in Lookup[j]
        /\ phase' = [phase EXCEPT ![j] = "unknown"]
        /\ out' = [out EXCEPT ![j] = [r \in RowsOf[j] |-> "error"]]
     \/ \* nothing in run_bulk_job catches it
        /\ "raises" \in Lookup[j]
        /\ phase' = [phase EXCEPT ![j] = "over"] /\ UNCHANGED out
  /\ UNCHANGED <<post, registry, sweep, status, row, processed, saved, seen, lost, crashes>>

CountAll(j) ==
  /\ phase[j] = "unknown"
  /\ processed' = [processed EXCEPT ![j] = Cardinality(RowsOf[j])]
  /\ phase' = [phase EXCEPT ![j] = "rejected"]
  /\ UNCHANGED <<post, registry, sweep, status, row, out, saved, seen, lost, crashes>>

RowsIn(j, states) == {r \in RowsOf[j] : row[j][r] \in states}

Everywhere(state) == UNION {{<<j, r>> : r \in RowsIn(j, {state})} : j \in Jobs}

Move(j, r, to) == row' = [row EXCEPT ![j][r] = to]

(* The job's semaphore, held until the row is finished. *)
Admit(j, r) ==
  /\ phase[j] = "rows" /\ row[j][r] = "waiting"
  /\ Cardinality(RowsOf[j] \ RowsIn(j, {"waiting", "finished"})) < BULK_CONCURRENCY
  /\ Move(j, r, "admitted")
  /\ UNCHANGED <<post, registry, sweep, status, phase, out, processed, saved, seen, lost, crashes>>

Fetch(j, r) ==
  /\ phase[j] = "rows" /\ row[j][r] = "admitted"
  /\ Cardinality(Everywhere("fetching")) < BULK_FETCH_CONCURRENCY
  /\ Move(j, r, "fetching")
  /\ UNCHANGED <<post, registry, sweep, status, phase, out, processed, saved, seen, lost, crashes>>

Fetched(j, r) ==
  /\ phase[j] = "rows" /\ row[j][r] = "fetching"
  /\ \E to \in {"fetched", "raised"} : Move(j, r, to)
  /\ UNCHANGED <<post, registry, sweep, status, phase, out, processed, saved, seen, lost, crashes>>

(* The limiter is shared with /v1/score. *)
Score(j, r) ==
  /\ phase[j] = "rows" /\ row[j][r] = "fetched"
  /\ Cardinality(Everywhere("scoring")) < SCORE_CONCURRENCY
  /\ Move(j, r, "scoring")
  /\ UNCHANGED <<post, registry, sweep, status, phase, out, processed, saved, seen, lost, crashes>>

(* faulty variant: the rollback is forgotten and close() commits *)
Scored_NoRollback(j, r) ==
  /\ phase[j] = "rows" /\ row[j][r] = "scoring"
  /\ \E to \in {"saved", "raised"} : Move(j, r, to)
  /\ saved' = [saved EXCEPT ![j][r] = @ + 1]
  /\ UNCHANGED <<post, registry, sweep, status, phase, out, processed, seen, lost, crashes>>

(* _score_and_record_row in its thread: committed; rolled back; or committed   *)
(* although the commit raised.                                                 *)
Scored(j, r) ==
  /\ phase[j] = "rows" /\ row[j][r] = "scoring"
  /\ \/ Move(j, r, "saved") /\ saved' = [saved EXCEPT ![j][r] = @ + 1] /\ UNCHANGED lost
     \/ Move(j, r, "raised") /\ UNCHANGED <<saved, lost>>
     \/ /\ lost < MaxLost
        /\ Move(j, r, "raised") /\ saved' = [saved EXCEPT ![j][r] = @ + 1] /\ lost' = lost + 1
  /\ UNCHANGED <<post, registry, sweep, status, phase, out, processed, seen, crashes>>

(* Back on the event loop: the row's result or error ... *)
RecordRow(j, r) ==
  /\ phase[j] = "rows" /\ row[j][r] \in {"saved", "raised"}
  /\ out' = [out EXCEPT ![j][r] = IF row[j][r] = "saved" THEN "scored" ELSE "error"]
  /\ Move(j, r, "recorded")
  /\ UNCHANGED <<post, registry, sweep, status, phase, processed, saved, seen, lost, crashes>>

(* faulty variant: counted in the except branch and again in the finally clause *)
CountRow_Twice(j, r) ==
  /\ phase[j] = "rows" /\ row[j][r] = "recorded"
  /\ processed' = [processed EXCEPT ![j] = IF out[j][r] = "error" THEN @ + 2 ELSE @ + 1]
  /\ Move(j, r, "finished")
  /\ UNCHANGED <<post, registry, sweep, status, phase, out, saved, seen, lost, crashes>>

(* ... and then the finally clause and the release of the semaphore. *)
CountRow(j, r) ==
  /\ phase[j] = "rows" /\ row[j][r] = "recorded"
  /\ processed' = [processed EXCEPT ![j] = @ + 1]
  /\ Move(j, r, "finished")
  /\ UNCHANGED <<post, registry, sweep, status, phase, out, saved, seen, lost, crashes>>

(* The task group has waited for every row. *)
End(j) ==
  /\ \/ phase[j] = "rows" /\ RowsIn(j, {"finished"}) = RowsOf[j]
     \/ phase[j] = "rejected"
  /\ status' = [status EXCEPT ![j] = "done"]
  /\ phase' = [phase EXCEPT ![j] = "over"]
  /\ UNCHANGED <<post, registry, sweep, row, out, processed, saved, seen, lost, crashes>>

-----------------------------------------------------------------------------
(* to_dict in the GET's thread: status and progress first, then the rows.  One  *)
(* poll at any moment stands for all, since a poll changes nothing others read. *)

Decided(j) == Cardinality({r \in RowsOf[j] : out[j][r] # "none"})

CanPoll(j) == j \in Watched \cap Registered /\ post[j] = "answered"

(* faulty variant: the rows are copied first, before the status *)
Poll_RowsFirst(j) ==
  /\ \/ /\ CanPoll(j) /\ seen[j] = Unread
        /\ seen' = [seen EXCEPT ![j] = [Unread EXCEPT !.decided = Decided(j)]]
     \/ /\ seen[j].status = "none" /\ seen[j].decided # NotYet
        /\ seen' = [seen EXCEPT ![j].status = status[j], ![j].processed = processed[j]]
  /\ UNCHANGED <<post, registry, sweep, status, run, crashes>>

Poll(j) ==
  /\ \/ /\ CanPoll(j) /\ seen[j] = Unread
        /\ seen' = [seen EXCEPT ![j] = [Unread EXCEPT !.status = status[j],
                                                     !.processed = processed[j]]]
     \/ /\ seen[j].status # "none" /\ seen[j].decided = NotYet
        /\ seen' = [seen EXCEPT ![j].decided = Decided(j)]
  /\ UNCHANGED <<post, registry, sweep, status, run, crashes>>

(* The process dies: requests, registry, jobs and tasks go with it, and a poll *)
(* of the next process finds no job. *)
Crash ==
  /\ crashes < MaxCrashes
  /\ crashes' = crashes + 1
  /\ registry' = <<>>
  /\ sweep' = [j \in Jobs |-> <<>>]
  /\ post' = [j \in Jobs |-> IF post[j] \in {"counted", "evicting"} THEN "failed" ELSE post[j]]
  /\ phase' = [j \in Jobs |-> IF post[j] \in {"new", "refused"} THEN phase[j] ELSE "gone"]
  /\ status' = [j \in Jobs |-> "queued"]
  /\ row' = Per("waiting") /\ out' = Per("none")
  /\ processed' = [j \in Jobs |-> 0]
  /\ seen' = [j \in Jobs |-> Unread]
  /\ UNCHANGED <<saved, lost>>

Request(j) == CountInflight(j) \/ CountRaises(j) \/ Create(j) \/ EvictNext(j) \/ Answer(j)

RowStep(j, r) ==
  \/ Admit(j, r) \/ Fetch(j, r) \/ Fetched(j, r)
  \/ Score(j, r) \/ Scored(j, r) \/ RecordRow(j, r) \/ CountRow(j, r)

JobStep(j) == Begin(j) \/ ResolveTenant(j) \/ CountAll(j) \/ End(j)

Next ==
  \/ \E j \in Jobs : Request(j) \/ JobStep(j) \/ Poll(j)
  \/ \E j \in Jobs : \E r \in RowsOf[j] : RowStep(j, r)
  \/ Crash

Spec == Init /\ [][Next]_vars

(* The pool threads and the event loop run whatever is ready; a fetch and a   *)
(* vision call end, since both have a timeout; clients need not poll.         *)
FairSpec ==
  /\ Spec
  /\ \A j \in Jobs : /\ WF_vars(JobStep(j))
                     /\ WF_vars(Create(j) \/ EvictNext(j) \/ Answer(j))
                     /\ \A r \in RowsOf[j] : WF_vars(RowStep(j, r))

-----------------------------------------------------------------------------
(* Every variable holds a value of its kind; no job ever reports more rows    *)
(* processed than it has (BulkJob, service/bulk.py:84-99).                    *)
TypeOK ==
  /\ post \in [Jobs -> {"new", "counted", "evicting", "answered", "refused", "failed"}]
  /\ Registered \subseteq Jobs /\ Len(registry) = Cardinality(Registered)
  /\ \A j \in Jobs :
       /\ ToSet(sweep[j]) \subseteq Jobs
       /\ status[j] \in {"queued", "running", "done"}
       /\ phase[j] \in {"none", "resolving", "rows", "unknown", "rejected", "over", "gone"}
       /\ row[j] \in [RowsOf[j] -> {"waiting", "admitted", "fetching", "fetched", "scoring",
                                     "saved", "raised", "recorded", "finished"}]
       /\ out[j] \in [RowsOf[j] -> {"none", "scored", "error"}]
       /\ processed[j] \in 0..Cardinality(RowsOf[j])
  /\ lost \in 0..MaxLost /\ crashes \in 0..MaxCrashes

(* "Never drop a queued/running job a client is still polling" (service/      *)
(* bulk.py:126): a job whose POST was answered stays in the registry until it *)
(* is done, however many concurrent creates evict.                            *)
LiveJobIsPollable ==
  \A j \in Jobs :
    (post[j] = "answered" /\ status[j] # "done" /\ phase[j] # "gone") => j \in Registered

(* The in-flight check and the registration are not atomic, but the stale     *)
(* counts in flight at once bound by how much the limit can be overshot.      *)
MostInflight == MAX_INFLIGHT_JOBS - 1 + POOL_THREADS

InflightNearlyBounded == Active <= MostInflight

(* "There are always enough done jobs to fall back under the cap" (service/   *)
(* bulk.py:127): the jobs a client was told of never exceed the cap, or what  *)
(* can be in flight where that is more, although sweeps race each other and   *)
(* some of them fail.  What a failed request leaves behind is not counted.    *)
RegistryBounded ==
  LET answered == {j \in Registered : post[j] = "answered"} IN
    \/ Cardinality(answered) <= MAX_RETAINED_JOBS
    \/ Cardinality(answered) <= MostInflight

(* What the job reports is what the results table holds: a scored row was     *)
(* written exactly once, and an error left nothing behind unless a commit's   *)
(* answer was lost.                                                           *)
ReportedIsSaved ==
  \A j \in Jobs : \A r \in RowsOf[j] :
    /\ saved[j][r] <= 1
    /\ out[j][r] = "scored" => saved[j][r] = 1
    /\ (out[j][r] = "error" /\ lost = 0) => saved[j][r] = 0

(* A poll never shows more progress than it has rows to show for it, and one  *)
(* that says "done" shows an outcome for every row: the copy is made while    *)
(* the event loop goes on (to_dict, service/bulk.py:93-99).                   *)
PollIsHonest ==
  \A j \in Jobs : (seen[j].status # "none" /\ seen[j].decided # NotYet) =>
    /\ seen[j].processed <= seen[j].decided
    /\ seen[j].status = "done" => seen[j].decided = Cardinality(RowsOf[j])

(* run_bulk_job "never raises" (service/bulk.py:198): every accepted job ends *)
(* done, unless the process dies.                                             *)
EventuallyDone ==
  \A j \in Jobs : post[j] = "answered" ~> (status[j] = "done" \/ phase[j] = "gone")

(* Seen by its client a job is one of module BulkContract: it exists once its *)
(* POST is answered, and until the process dies.                              *)
Contract == INSTANCE BulkContract WITH
  job      <- [j \in Jobs |-> IF phase[j] = "gone" THEN "gone"
                             ELSE IF post[j] = "answered" THEN status[j] ELSE "none"],
  verdict  <- out,
  progress <- processed,
  kept     <- saved

ImplementsContract == Contract!BSpec
=============================================================================
