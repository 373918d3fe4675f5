# A verification model of ProofLens

TLA+ modules, TLC runs and TLAPS proofs about ProofLens, the image-authenticity
scorer in this repository. The modules are written from the code; the documents
are used only as the statement of what the code is supposed to do. Paths below
are relative to `src/prooflens/` unless they start with `docs/`, `deploy/` or
`frontend/`.

## 1. The system

ProofLens is a modular monolith: one or more `api` processes (FastAPI), any
number of `worker` processes, one PostgreSQL database, LeadSquared (LSQ) on the
other side, a stack of vision providers, and a Next.js console.

    LSQ --webhook--> api --INSERT--> jobs --claim--> worker --engine--> vision providers
                      |                                 |---> LSQ fields
    console --HTTP----+--- bulk tasks --engine          `---> results, image_hashes
                                         `---> results, image_hashes

### 1.1 Inventory

| Component | Code | State it keeps | Operations | Hard behaviours | What makes it correct |
|---|---|---|---|---|---|
| Job queue | `queue/queue.py`, `queue/backoff.py`, `queue/errors.py`, `db/models.py` | `jobs`: status, attempts, scheduled_at | enqueue, claim_batch, complete, fail, operator's replay | concurrent claims, retries with refunds | a row has one holder; budgets hold; every job settles |
| Worker | `worker.py`, `service/processor.py`, `db/repo.py` | a batch in memory, one open transaction | claim, score, write LSQ, record, complete or fail | crash between commits, refused commits, lost commit answers | a job is scored once; hash and result commit together; LSQ shows what is on record |
| Hash store | `db/hashstore.py`, `engine/checks/uniqueness.py` | `image_hashes` | nearest, remember | read before a slow call, write after it | the second copy of an image is found; an image never matches itself |
| Webhook intake | `api/app.py`, `api/deps.py`, `api/security.py` | the request's transaction | receive, look up twice, INSERT, commit on exit, answer | duplicate deliveries, a blocking handler on the event loop | one row per event; what was acknowledged is stored; every delivery is answered |
| Scoring engine | `engine/pipeline.py`, `engine/checks/`, `engine/fusion/fuse.py`, `engine/verdicts.py` | none (pure) | free checks, skip of the paid call, retry, fusion | thresholds, missing checks, several gates at once | a Clear is earned; integrity signals end Suspect; skipping changes nothing |
| Hybrid vision backend | `vision/hybrid.py`, `vision/reasoner.py`, `vision/_http.py` | none | scout, then reasoner | one call of two fails | a stage-2 failure keeps stage 1 |
| Bulk scoring | `service/bulk.py`, `api/bulk.py` | the in-memory job registry, semaphore and limiters | create, evict, run, poll | pool threads against the event loop, eviction races, a lookup that raises | live jobs are pollable; the registry is bounded; a report matches the table |
| Rate limiter | `api/ratelimit.py` | windows per client and tier, in the memory of one process | check, prune | window edges, two tiers, pruning during a check | any window of time sees at most twice the limit; nobody is refused who has not sent more than it; the advised wait is enough |
| API keys, tenant lookup | `api/auth.py`, `service/api_keys.py` | `api_keys` | mint, use, revoke | a revocation or deactivation while requests run | what begins after it leaves no trace; no answer shows another tenant's rows |
| Tenant administration | `api/admin.py` | `tenants` | create, update, deactivate | two creations of one slug, updates that wait for each other | requests see the tenant's state as of their key lookup |
| Organisation hierarchy | `service/hierarchy.py`, `api/hierarchy_admin.py` | `hierarchy` | upload (replace), status, resolve by date | concurrent uploads, rows in any order | the map is made of whole uploads; a group is what its node lists |
| Score endpoint | `api/scoring.py`, `db/hashstore.py` | `results`, `image_hashes`, the scoring limiter | score, refuse, keep | copies scored together, chains of near duplicates, a provider that fails, a refused commit, a response sent before its commit | result and hash stay or go together; late copies are caught; the place is given back |
| Results, review, listing | `api/scoring.py`, `db/repo.py` | `results`, `audit_log` | list, get, review | rows arriving between pages, two reviewers | audit and row agree; paging misses nothing |
| Analytics, scorecards | `api/analytics.py`, `api/date_range.py`, `api/dse.py` | none | bucket, tally, compare, group | range and bucket edges, writes between the statements of a report | each result is counted once |
| Tenant configuration | `tenants/service.py`, `service/views.py`, `config.py` | none | merge overrides into the defaults | none | (pure) |
| In-memory repository | `service/repo.py` | dictionaries | the repository's operations | rollback does nothing | same answers as PostgreSQL |
| LSQ client, SSRF guard | `lsq/real.py`, `lsq/fake.py`, `lsq/ssrf.py` | a connection | update fields, fetch image | provider errors | (I/O) |
| Vision backends | `vision/*_backend.py`, `vision/openai_compat.py`, `vision/stub.py`, `vision/unavailable.py` | none | assess | malformed replies | (I/O and parsing) |
| Web console | `frontend/src/app` | page state | upload, poll, reset | a poll in flight across a reset | progress shown is of the job shown |
| Migrations, seeds, deployment | `deploy/`, `scripts/` | none | one-shot | none | none |

### 1.2 How the components interact

* The intake and the workers share the `jobs` table only: `Deliver` in `Worker`
  is the committed result of `WebhookIntake`.
* A worker's transaction holds the hash, the result, the audit row and
  `complete`; the LSQ write is outside it and precedes its commit.
* `Pipeline` is what one scoring computes. `Worker` and `BulkScore` take its
  verdict as a choice, since what they promise does not depend on it, except
  that `Worker` keeps whether the duplicate gate fired.
* `/v1/score`, bulk rows and the workers share `image_hashes` and `results`;
  `/v1/score` and bulk rows of one process also share the scoring limiter.
  `Service` lets both score photos that resemble each other; `Worker` has the
  copies that jobs score.
* Every HTTP request is a transaction of its own, which `get_repo` or
  `get_session` commits when the handler has returned. FastAPI 0.110 to 0.117 do
  that before they send the response, later versions after it, and `pyproject.toml`
  accepts both (section 2, Abstractions). A report is several statements
  of one transaction, and at READ COMMITTED another request may commit between
  any two of them.

## 2. Modules

| Module | Models | State and actions in terms of the code |
|---|---|---|
| `JobQueue` | `queue/queue.py` on one row | `jobs[j]` is the row (status, attempts, `due` for `scheduled_at <= now`); `Claimable`, `Claimed`, `Completed`, `Failed`, `DeadLetter`, `Replay` are functions from row to row, one per function or branch |
| `JobContract` | what the queue promises its users | a job goes queued, in_progress, then done with one result or dead_letter, within its budget; no worker, lock or transaction in sight |
| `Worker` | `run_once`, `process_job`, `record_result`, the hash store | `pc[w]` is the worker's place between two database or LSQ calls; `ClaimSelect` holds the row locks until `ClaimCommit`; `Score`, `WriteBack`, `Commit` are the stages of a job, `CommitRefused` and `CommitLost` the two ways a commit can raise, `HandleFailure` the except branch, `Crash`/`Restart` the process |
| `WorkerProofs` | theorems about `Worker` | see section 5 |
| `WebhookIntake` | `lsq_webhook`, `enqueue`, `get_repo` | `Receive`, `LookAgain`, `Insert` run on the event loop without a break (`LoopFree`, `KeepLoop`); an INSERT waits while another transaction holds the same key; `BeginExit`/`Exit` is the dependency's commit in a pool thread, which the loop must start |
| `DeliveryContract` | what LSQ is promised of its deliveries | an event enters the table once, for a valid unanswered delivery, and acknowledgements speak of stored events; no process, lookup or transaction in sight |
| `IntakeProofs` | theorems about `WebhookIntake` | see section 5 |
| `Fusion` | `fuse.py`, `verdicts.py`, `scoring_config.py` | operators from check outcomes to a verdict: blend, gates, lowest cap, most severe reason, band |
| `Pipeline` | `engine/pipeline.py`, the checks, the hybrid backend | one photo: free checks, skip or ask, scout, reasoner, retry, fuse, store; each way a provider call can fail is an action |
| `PipelineProofs` | theorems about `Fusion` and `Pipeline` | see section 5 |
| `BulkScore` | `api/bulk.py`, `service/bulk.py` | `post` is a POST in its pool thread, `registry` and `sweep` the dictionary and the copied keys under eviction, `phase` and `row` the places of `run_bulk_job` and its row tasks, `seen` a poll's half-made copy |
| `BulkContract` | what the client of a bulk job is promised | a job is accepted, runs and is done; outcomes are only added, results written once, progress counts outcomes; no registry, thread, limiter or commit in sight |
| `BulkProofs` | theorems about `BulkScore` | see section 5 |
| `RateLimiter` | `api/ratelimit.py` | `Check` and `Admit` are functions from the table of windows to the next one and the answer; `Prune` runs inside a check, above the threshold, as in the code |
| `RateLimiterProofs` | theorems about `RateLimiter` | see section 5 |
| `Hierarchy` | `service/ids.py`, `service/hierarchy.py`, the CSV of `api/hierarchy_admin.py` | pure: the effective-dated resolver, the display name, what the upload accepts |
| `Analytics` | `api/analytics.py`, `api/date_range.py` | pure: ranges, tallies, bucket edges and buckets, groups, flag precision, the daily series |
| `Api` | `api/app.py`, `api/deps.py`, `api/auth.py`, `service/api_keys.py`, `api/admin.py` | the tables and one record of a request each: `pc` its place, `txn` its transaction (tenant, start, locks, what it has read, what it will commit), `reply`. `Arrive` is the middlewares, `RequireTenant` the key; keys and tenants; `Respond` is a 200 that is sent before its commit (`early`); `CommitRefused`; `Tick` |
| `ScoreApi` | `api/scoring.py` (scoring), `service/bulk.py`'s row, `vision/unavailable.py`, `db/hashstore.py` | `StartScore`/`StartRow` take a place of the limiter, `LookForDuplicate` is the lookup and the gates that keep a photo from the model, `ModelAnswers`/`ModelFails`, `CommitScore`. A row of `hashes` has the result it came with, its tenant, its dHash and its number |
| `Records` | reviews, listing and the org map over `db/repo.py` | one action per statement: `LoadForReview`, `WriteReview`, `CommitReview`; `CountResults`, `ListPage` or `ListUnderNode`; `StartUpload`, `StartDelete`, `DeleteAndInsert`, `PreviewUpload`, `CommitUpload`; `ReadStatusRows`, `ReadStatusReps` |
| `Reports` | `/v1/analytics/summary`, `/v1/dse/{agent_id}` | one action per statement, the last one computing the body with `Analytics` |
| `Service` | the HTTP service as a whole | `Next` is time, or a step of some request, an early response, or a refused commit; the properties |
| `RecordContract` | what one request may do to the tables | it ends once, with one atomic change of one of five kinds or none; a change belongs to a 200, given then or before; no stage, statement, lock or clock in sight |
| `ServiceProofs`, `AnswerProofs` | theorems about `Service`: what its tables hold; what its answers show, its limiter and its types | see section 5 |
| `NumberLemmas` | lemmas about finite sets, sums and quotients | pure |
| `MC*` | instances | values of the constants, nothing else |

`Worker` extends `JobQueue` and instantiates `JobContract`; in the same way
`WebhookIntake` instantiates `DeliveryContract`, `BulkScore` instantiates
`BulkContract` and `Service` instantiates `RecordContract`. In each,
`ImplementsContract` is the contract's specification under the mapping. `Pipeline`
extends `Fusion`. `Service` extends `ScoreApi` and `Reports`; `Reports` extends
`Records`; both sides extend `Api`, which extends `Analytics` (over `Hierarchy`)
and `RateLimiter`.

### Abstractions

* Scores are in tenths. A blend that falls exactly between two tenths rounds to
  either of them, because the code rounds a binary float.
* What Pillow, OpenCV and imagehash measure is a photo's record of facts. "Pillow
  opens it" (EXIF), "Pillow decodes it to the end" (dHash) and "the engine's
  decoder yields grey" (within its pixel budget) are three facts: a truncated
  photo has the first without the second, an oversized one the second without the
  third.
* In `Worker` two images are the same or unrelated; distances are in `Pipeline`.
* Backoff is the bit `due`: how long it waits is not told apart.
* A database session is its transaction; isolation is READ COMMITTED, which is
  PostgreSQL's default and what `db/base.py` leaves unchanged.
* `/v1/score` also takes a place of the scoring limiter; `BulkScore` leaves it
  out, since no property depends on who holds a place there. `Service` has both
  kinds on the same places.
* In `Service` a photo has a dHash or, if its bytes do not decode, none
  (`Hash`); two dHashes have any `Distance`, and `DupExact` and `DupNear` are what
  the code compares it with. Distances are no equivalence: a photo may be near to
  two photos that are not near to each other. The thresholds are one pair for all
  tenants and stay as they are. `MaxCandidates` is the 50,000 newest hashes a
  lookup reads. A row's number is drawn at the flush, so it may be
  committed after one with a higher number.
* A verdict in `Service` is any that its ground allows (`Graded`): an exact or near
  duplicate, a screen, the model's judgment, blur, or nothing at all; which verdict
  a ground gets is in `Pipeline`. That the code "recycled" comes from the duplicate
  gates and from nothing else (`ScoreAssumption`) is `WorstEvidenceIsNamed` there.
* Whether a response leaves before or after its commit is open for every request of
  `Service`, as the FastAPI version decides it; `Ended(q, 200)` in a property is a
  transaction that has committed, `Told(q)` what the client was told.
  `WebhookIntake` has the constant `CommitFirst` and a run for either value. The
  scripts and bulk rows commit themselves and answer nobody before.
* A transaction's writes become visible at its commit, in one step. `at` is the
  start of its transaction (`now()` of the column default) as a serial number
  and a day. No two transactions start in the same microsecond.
* Row locks are kept only where two writers can meet: reviewed results, tenants,
  slugs being inserted, and the org rows being deleted. A `SELECT` of unordered
  rows may return them in any order (`RowLists`).
* A bulk row in `Service` is one row whose photo is fetched; the batch around it
  is `BulkScore`. The row's tenant was resolved when the batch began.
* The org levels are named by `call[q].field`; averages and percentages of
  reports are quotients of counts that are modelled.
* `seen` in `BulkScore` is the copy of one client; status and progress are read
  in one step and the rows in a second one. Reading status before progress
  separately adds no outcome, because progress never falls.

## 3. Runs

| Run | Instance | What it shows |
|---|---|---|
| `worker_safety` | 2 workers, 3 jobs (two copies of one image, one unreadable payload), 2 attempts, batch of 2, 1 crash, 1 replay, no lost answer | each job is scored exactly once whatever crashes, retries and replays happen; a retry never meets its own hash; done rows never change; the workers implement `JobContract`; without a death every job settles |
| `worker_lossy` | the same with one commit whose answer is lost and `ProviderOverloaded` refunds | claims stay exclusive, held rows are in_progress, budgets hold, LSQ shows the verdict on record |
| `worker_crash` | 1 crash | violation: a job claimed by a dead worker is never settled |
| `worker_lost_answer` | 1 lost answer | violation: a job ends as a duplicate of itself |
| `intake_safety` | 3 deliveries of one event on 3 processes, one forged, 1 refused commit, 1 death, commits before responses | one row per event, no acknowledged event is missing, every delivery is answered |
| `intake_acked_early` | 2 deliveries of one event on 2 processes, 1 refused commit, responses before commits | violation: LSQ was told "accepted" and there is no job |
| `intake_hang` | 2 deliveries of one event, 1 process | violation: the process stops answering |
| `pipeline_default` | default configuration, photos and answers on both sides of every threshold, with and without OpenCV, every stage failure | bands and reasons rest on what they claim, the skip is safe, kinder readings never lower a score, no photo gets stuck |
| `pipeline_stage_two` | hybrid backend with errors outside the caught kinds | violation: a stray error in stage 2 loses stage 1's answer, and where the other attempt fails too the photo is Unassessed |
| `bulk_safety` | 4 POSTs, 2 pool threads, 2 jobs in flight, 2 retained, 1 death, 1 lost answer, a lookup that may raise | live jobs stay pollable, the registry is bounded, the in-flight limit is overshot by less than the pool, reports match the table, a poll is honest |
| `bulk_stuck` | 1 POST | violation: a job is running for ever |
| `service` | 29 mixes of up to 3 requests, bulk rows and scripts over 3 tenants, 3 keys, 4 earlier results and an org map of 2 versions; lookups of 3 hashes, 1 scoring place, responses before or after commits, 1 refused commit, time from tick 31 to 33; 394,970 distinct states | what is on record is what was answered and what is refused leaves nothing; a duplicate has an original and late copies are caught; the limiter is neither overrun nor early; what is revoked or deactivated does no more work; no answer shows another tenant's rows; audit and row agree; paging misses nothing; the org map is made of whole uploads; reports count each result once and groups agree with drilling down; every request is answered |

### Bounds, and why they are enough

* Two workers and two copies of one image are the smallest instance with a race;
  the proofs in section 5 cover every number of them for the safety properties.
  A third job with a payload that never scores gives the fatal branch. Two
  attempts distinguish the first, a middle and the last failure with refunds.
* `intake_acked_early` needs one delivery, its early answer and the refused commit;
  no death and no forged delivery is let in, so that its trace is that one.
* Three deliveries make an INSERT wait for another that itself may roll back and
  let a third in. One event suffices: different events share no row or key.
* The photos and answers lie on each threshold and one unit on either side; gates
  are comparisons with thresholds, so other values fall in the same classes. The
  instance uses the default configuration only.
* Four bulk jobs over a registry of two let an old job run on while younger ones
  finish, and let two creates sweep the same key, one failing. `RegistryBounded`
  bounds the registry by its cap or by what stale counts can let in together,
  whichever is more; in the program that is 200 against 3 - 1 + 40. It counts the
  jobs whose POST was answered: see section 6 for the others. One job
  scores two rows, which contend for the fetch and scoring limiters; the others
  end by an unknown tenant, since only that they end matters to the registry.
  One poll at an arbitrary moment stands for every poll.

* `service`: the mixes put together the requests that meet in a table or in the
  limiter: copies of one photo by `/v1/score` and by rows, a chain of photos each
  near to the next only, bytes that are no image submitted twice, a photo
  whose hash pushes an earlier one out of the lookup's reach, three calls of one
  client on a limit of one per window, an unbuildable backend, an empty and an
  oversized body, each writer with each reader of its table. All requests of a
  mix interleave statement by statement. A place for one scoring makes the second
  wait. Three hashes per lookup are the three that the tenant `dev` starts with,
  so the first new one already puts an old one out of reach. Ticks 31 to 33 with days of 3 and windows of 2 ticks cross midnight once
  and a window once, so a request may begin on one day and end on the next.
  Limits of 1 (compute) and 3 (general) are reached by three requests, or by a
  listing client that asks for page after page. Months begin on days 8 and 12 so
  that monthly buckets are cut on both sides of the range; `DefaultDays` is 8, so
  that weekly buckets are cut too. `PruneThreshold` 0 makes every check prune. One
  refused commit reaches every commit in turn.

`CHECK_DEADLOCK FALSE` is used where the system may legitimately come to rest:
all deliveries closed, all bulk jobs over, all requests answered.

## 4. Fairness

* `Worker`: weak fairness of each worker's step, because `run_forever` loops
  without end, and of time passing. No fairness of `Crash`, `CommitRefused` or
  the operator's replay. `Restart` is fair as an assumption about the operator:
  `deploy/docker-compose.yml` gives the worker no restart policy. It only makes
  `worker_crash` stronger, since the job is lost although the worker comes back.
  `SettledUnlessCrashed` relies on refunds being excluded (`Raised`), since a
  provider that is overloaded for ever refunds for ever.
* `WebhookIntake`: weak fairness of the loop and of pool threads, which run
  whatever is ready, and of nothing a client does.
* `Pipeline`: none; its runs check safety and the absence of deadlock.
* `Service`: weak fairness of each request's next step: the event loop and the
  threadpool run what is ready, PostgreSQL gives a waiting statement its lock once
  the holder ends, and every provider call has a timeout. Weak fairness is enough
  for the limiter's places and for row locks because the instance's requests are
  finitely many, so a waiting step is enabled for good in the end; nothing is
  assumed of the order of waiting ones. Time need not pass and no commit need be
  refused.
* `BulkScore` (run `bulk_stuck` only): weak fairness of the event loop and of
  pool threads; fetches and vision calls end because both have timeouts. Clients
  need not poll.

## 5. Proofs

Each theorem holds for every value of the constants that its assumptions allow:
any number of jobs, workers, deliveries, requests, rows, crashes and refusals,
and any limits. Every invariant that a passing run checks is stated by a theorem,
and so are both safety properties of steps (`TerminalIsFinal` and the
`ImplementsContract` of `Worker`). The other three modules that have a contract
are proved to implement it as well. TLC agrees on their instances: with
`ImplementsContract` as a further PROPERTY, `MCIntake.cfg`, `MCBulk.cfg` and
`MCService.cfg` pass. It is not among the listed runs because the theorems
say more. The inductive invariants were checked by TLC on the
instances of section 3 before they were proved, except `LimitInv`, whose
`Slides` quantifies over all integers.

### 5.1 The worker (`WorkerProofs`)

From `JobQueueAssumption` and `WorkerAssumption`:

* `Invariance`: `Spec => []IInv`. `IInv` strengthens the checked invariants:
  `SelectedStayClaimable` (rows under a claim's locks keep qualifying until it
  commits: without it `Claimed` could exceed the budget), `CurrentIsHeld` (the
  job in process is in the batch: links `cur` to exclusivity),
  `HeldJobsAreUnfinished` (without lost answers a held job is not done: what
  makes a second result impossible), `PendingVerdictExplained` (a recycled
  verdict not yet written is explained by a committed hash: hashes only grow)
  and `NoFailedRows` (nothing stores the enum value "failed", which
  `claim_batch` would accept). One lemma per action.
* from it `ClaimsAreExclusive`, `HeldJobsStayInProgress`, `BudgetsHold`,
  `JobsAreScoredOnce`, `RetriesMeetNoOwnHash`, `WorkerTypeCorrect`;
* `LsqTheorem`. The property alone is not inductive: it needs `WrittenIsShown`,
  that between the write to LSQ and the commit the opportunity shows the verdict
  about to be recorded.
* `DoneIsFinal` (an action property) and `WorkersImplementContract` (refinement
  of `JobContract`) for behaviours without a lost answer, stated as
  `Spec /\ [](lost = 0) => ...`. The condition is necessary:
  `worker_lost_answer` is the counterexample without it.

### 5.2 The scoring engine (`PipelineProofs`, with `NumberLemmas`)

From `CfgAssumption` (a configuration has natural weights, integer thresholds and
caps) and `InputsAssumption` (photos and answers are of their types):

* `Invariant`: the checks are those of the photo, the content check judges the
  scene the scout described, and the verdict is one `fuse` gives for them;
* `TypeCorrect`: no score leaves 0 to 100.0 and no blend divides by zero.

Five more assume `CapsKeepTheirPromise`, which is what the comments beside the
caps say: integrity failures cap below Doubtful, other gates below Clear, the
milder of two alternative gates has the higher cap. The defaults satisfy it (TLC
evaluates it in the run). No validator enforces it on a tenant's own numbers, so
without it a tenant can configure these promises away:

* `Integrity`, `Earned`, `WorstNamed`: bands and reasons rest on what they claim;
* `SkipIsSafe`: whatever the model could have said about a photo whose paid call
  was skipped, band and reason would be the same. The argument compares two
  evaluations of `Fuse` that share the free checks;
* `KindnessNeverHurts`: rounding, weighted blend, scene ceiling and gates are
  monotone together. `NumberLemmas!SumMonotone` carries the blend.

The induction over a finite set that this takes is `SetInduction`: the library's
rule has an operator as a parameter, but a set of the subsets with the property
says the same, and a set the provers can instantiate. What
`SumFunctionOnSet` of the community modules returns follows from it.

### 5.3 The intake (`IntakeProofs`)

From `IntakeAssumption`:

* `IntakeInvariant`: types, at most one committed row per event, and
  `HoldersAreAlone`: who has an uncommitted row accepted its event, has not
  committed yet, and is the only one while no row of it is committed;
* from it `OneRowTheorem` and `IntakeTypeCorrect`;
* `AckedTheorem`, for the FastAPI versions that close dependencies before they
  answer (`CommitFirst`, stated as the theorem's hypothesis). It needs
  `PromisesAreKept`: a handler that will say "accepted" or "duplicate" holds the
  row or the row is committed, and after its exit the row is committed;
* `IntakeImplementsContract`, under the same hypothesis: with the events that have
  a committed row as `known` and the answers as `told`, the intake implements
  `DeliveryContract`. This is the atomic insertion that `Deliver` in `Worker`
  takes for granted: only `Exit` stores, only `Respond` tells, every other step
  maps to a stutter. Beside `IInv` and `PromisesAreKept` it needs `OnlyTheValid`:
  a delivery that fails the signature check never gets as far as an INSERT, and
  only such a one is rejected.

### 5.4 Bulk scoring (`BulkProofs`)

From `BulkAssumption`:

* `SavedInvariant`: `RowAgrees` relates the place of a row's task, the outcome
  reported and the number of rows written, for every phase of the job (a row is
  reported only after its commit was answered; after a death nothing is
  reported); from it `ReportedTheorem`;
* `PollInvariant`: `Progress` (processed is the number of finished rows while
  rows run and never exceeds the outcomes; done means an outcome for each) and
  `Honest` (the half of a copy a client has stays true, because outcomes are only
  added); from them `PollTheorem`;
* `RegInvariant`: `Present` (an answered job is registered until it is done and a
  sweep has it among the keys to delete), `LimitInv` (live jobs and creates that
  have passed the check together exceed the limit by fewer than there are
  threads) and `HeldInv`. The last one is the bound on the registry: for each
  create, the jobs registered no later than its own that will survive its sweep
  (`Held`) are within the cap or within what can be in flight. The job registered
  last has the whole registry before it, and once the sweeps end what survives is
  what is there. From it `LiveTheorem`, `InflightTheorem`, `RegistryTheorem`;
* `BulkTypeCorrect`;
* `BulkImplementsContract`: what a client sees of a job (`View`) is none,
  queued, running, done or gone, and with the outcomes, the progress and the
  numbers of rows written the module implements `BulkContract`. `StageInv` says
  which status goes with which phase of the task (only the task of an answered
  job changes it, once on each way; a job of an unknown tenant counts all rows
  at once); `RowAgrees` gives that a row is written before it is reported and
  once; `Progress` that counting never passes the outcomes. A death maps to the
  contract's `Die`, which keeps what was written. Requests, sweeps, polls, and
  the waits for limiters are stutters.

### 5.5 The rate limiter (`RateLimiterProofs`)

From `RateLimiterAssumption`, about one check of any table:

* `PruneKeepsTheLive`: pruning drops no window that still counts;
* `RetryIsInTheWindow` and `RetryIsEnough`: the `Retry-After` of a refusal is
  from 1 to the window, and waiting that long is enough. This is the rounding
  `int(window - (t - start)) + 1`, clamped;
* `CheckIsFair`: one check passes only within the limit, refuses only beyond it,
  and leaves the other clients' live windows alone.

About any sequence of checks: `Counting` relates a client's window to the
history of its arrivals. A live window's count is the arrivals since its start
(`Stands`), a forgotten one owes nothing (`Rested`), and no stretch of a
window's length has let in more than twice the limit (`Slides`), because it meets two
windows at most. `CheckRecords` and `AdmitRecords` show that a check, and the two
tiers of a request, keep it.

### 5.6 The HTTP service (`ServiceProofs`, `AnswerProofs`)

The assumptions say what the code guarantees of inputs and earlier data:

* `SeedsAssumption`: the tables the service starts from were written by the same
  code: rows complete, ids normalised, each hash of a tenant and with a number, each
  past transaction with a number of its own. An earlier result need not have a
  hash;
* `PlansAssumption`: what FastAPI and the parsers accept: a decision of the list,
  a page of at least one row, a known bucket, a new key for each minting;
* `ClockAssumption`, `ScoreAssumption`, `RefusalsAssumption`: time has a last
  tick and the calendar goes on after it; there is a scoring place and a lookup
  reads at least one hash; each ground has verdicts, with known bands, and
  "recycled" is said on the two duplicate grounds only.

Nothing is assumed of `Hash`, `Distance` and the thresholds, and nothing of the
order of a response and its commit.

What the tables hold (`ServiceProofs`):

* `GateInvariant`: `GateInv` has five parts. `Shape` says which variables are
  functions and that a result's row carries its id. `Flow` follows a scoring
  request from arrival to commit: it has a transaction that began no later than
  now, a row that says "recycled" resembles a hash with a smaller number than its
  own (`Recalls`), and one that has looked fresh resembles only hashes that were
  committed after its transaction began or are out of the lookup's reach
  (`Unnoticed`). That last part is what makes the late-copy property inductive:
  what slips in between the lookup and the commit is newer, and a hash that is out
  of reach never comes back (`Behind`). `Kept` ties results and answers together,
  `Store` results and hashes: each result of a request whose photo has a dHash is
  remembered with it, a recycled one after a hash it resembles, and each new hash
  is that of a result of its tenant. The fifth part is `LateCopiesAreCaught`
  itself. Most actions only move one request (`Quiet`), time and early responses
  move none (`Rests`); the two that change `results` have lemmas of their own;
* from it `LateCopiesTheorem`, `RecycledTheorem` and `AnsweredTheorem`;* `PlaceInvariant`: each request is at a stage of its own handler (`Fits`) with a
  transaction that has begun (`Begun`) from its first statement to its answer.
  The later proofs use it to exclude that one handler takes another's step;
* `UploadTheorem` from `MapInv`: the rows of an upload are its own and whole
  (`Own`, `Whole`), rows about to be deleted are locked by one transaction only,
  and what an uncommitted upload has not deleted it could not see;
* `ReviewTheorem` from `ReviewInv`: also between the statements of a review
  (`Decides`), where another reviewer may commit;
* `NoWorkTheorem` from `KeyInv` and `Allowed`: a key was good, and its tenant
  active, when the transaction that used it began (`Covered`), and what is
  switched off is so as of then;
* `ServiceImplementsContract`: with the tables as they are, `answer` as what
  each client was told and `ended` as the requests whose transaction is over, the
  service implements `RecordContract`. Five steps
  commit, and each is one change of the contract; any other step leaves every
  table alone (`WhoWrites`) and either goes on, which is a stutter, or responds
  early (`RespondsEarly`), or ends the request with a status (`TurnEnds`). The proof uses
  all the invariants above at once (`RequestInv`): a verdict that says "recycled"
  finds a hash like its own stored (`GateInv`), a commit of a review finds its row
  undecided only if it decides it (`ReviewInv`), an upload holds only rows of its
  own and of its tenant (`MapInv`), a key keeps its tenant (`KeyInv`). It adds
  `LoadInv`: the tenant in a review's audit event, read when the row was loaded, is
  that of the row when it commits.

What the answers show (`AnswerProofs`):

* `TenantTheorem`: `ShownInv` says of every stage that what a request has
  gathered so far is of its key's tenant, which never changes;
* `DrillTheorem`: a group is what the listing behind its node returns;
* `PagingTheorem`: `StampInv` (results are numbered by their transactions, no
  number twice) and `PageInv`: each result a paging client is still owed lies
  ahead of its offset, however many newer ones push it back (`Ahead`);
* `CountingTheorem`: `CountInv` follows a report's reads (`Dated`); bucket edges
  cut the range into parts that share no day (`EdgesCut`, for daily, weekly and
  monthly buckets over any calendar), and the sizes of parts add up to the whole
  (`PartsAdd`);
* `LimitInvariant`, from it `SlidingTheorem` and `RefusalTheorem`: the histories
  of 5.5 for every client and both tiers at once;
* `ServiceTypeCorrect`: what each request is about to write has its type
  (`Writes`), on top of the invariants above.

### 5.7 What stays with TLC

Liveness (`SettledUnlessCrashed`, `EventuallyAnswered`, `EveryRequestAnswered`)
and the absence of deadlock: TLAPS 1.4.5 with the provers used here proves
neither properties under fairness nor `ENABLED`. What a recursive definition
computes for every input is out of reach too; no module declares a `RECURSIVE`
operator. The violations of section 6 are TLC's counterexamples.

## 6. Findings

| Run | What the code does |
|---|---|
| `worker_crash` | The claim is committed before processing, and nothing returns an `in_progress` row to the queue. A dead worker's batch is stranded, although the comment at `worker.py:27` gives crash safety as the reason for that commit. |
| `worker_lost_answer` | The except branch of `run_once` also catches an exception of the job's own commit. If the commit applied, `fail()` requeues a done job, whose next attempt matches its own hash. |
| `intake_hang` | A coroutine handler makes blocking database calls. The second delivery's INSERT waits on the event loop for a commit that only the loop can start. |
| `intake_acked_early` | Under a FastAPI that runs the end of a dependency after the response (from 0.118 on, which `pyproject.toml:27` accepts), the webhook says "accepted" before `deps.py:24` commits. If that commit is refused there is no job, and nothing retries, although `docs/ARCHITECTURE.md:77` says the job does. |
| `pipeline_stage_two` | A stage-2 error of a kind `hybrid.py:46` does not list discards stage 1's answer and counts as a failed attempt; if the other attempt fails too, in either stage, a photo that stage 1 has answered for is left Unassessed. |
| `bulk_stuck` | An exception of the tenant lookup leaves a bulk job running for ever, in one of three in-flight slots. |

Observed while modelling, without a run of their own:

* Intake: the loser of two concurrent INSERTs gets an uncaught IntegrityError
  (500), though the event is stored; a delivery whose own lookup misses and whose
  second lookup finds the row is acknowledged as accepted rather than duplicate.
* Early responses: the order of `intake_acked_early` concerns every request that
  writes. A client of `/v1/score`, of a review or of an upload may hold a 200 whose
  commit is then refused; `AnsweredIsKept` promises nothing of a 200 that left
  before its commit, and the other properties speak of committed requests.
* Suspect: with no gate fired the blend alone can fall below 40, so a photo can be
  Suspect with the reason code "clear", although `docs/VERDICT_COPY.md:19` gives as
  the meaning of Suspect "A hard integrity signal fired (recapture, duplicate, wrong
  content)." The tables have no Unassessed, and line 42 calls a
  photo without content analysis Doubtful.
* Scores: the near-duplicate score is 20.0 at the threshold and 16.7 one bit
  further; 69.5 is stored as 70 beside Doubtful.
* Duplicates: two copies scored at the same time, by workers, requests or rows,
  are both fresh; `LateCopiesAreCaught` is what remains true. Bytes that do not
  decode have no dHash: submitted twice they are stored twice and never recycled.
  Near duplicates form chains: a photo may be called recycled for its likeness to
  one that was itself called recycled, and resemble no fresh photo;
  `RecycledHasAnOriginal` says that such a chain goes back in time. On the default
  path a photo the model never saw is kept as Unassessed and its hash remembered,
  so the same photo submitted again is a duplicate. Comments in `api/scoring.py`
  and `vision/unavailable.py` call that verdict Doubtful. The lookup compares with
  the newest 50,000 hashes of the tenant only.
* Org map: two uploads at once both stay, although `service/repo.py:97` says
  "Atomically replace"; `UploadReplacesTheMap` states what holds. An upload
  replaces the versions that were valid in the past, and a blank `valid_from`
  means today, after which earlier results are Unmapped, although
  `db/models.py:175` says changes never rewrite historical reports. The status
  page counts an agent as matched even if its row starts later. Listing the node
  "Unmapped" returns nothing.
* Reviews: a reviewer who repeats the decision they loaded writes no status, so
  a different decision committed in between stays, beside both audit rows.
  `review=pending` pages skip rows while reviews happen.
* Reports: the total is a COUNT of its own, so a row that commits in between can
  make percentages of it inconsistent with the items. `flagged` on a scorecard
  includes Unassessed; the daily series has no Unassessed column. A DSE's name may
  differ between search (its latest row) and scorecard (its latest named row).
* Access: `get_tenant` does not look at `active`, and a bulk job resolves its
  tenant once, so its rows go on after a deactivation. An oversized body has spent
  rate budget before it is refused, and a scoring call that the general tier
  refuses has spent compute budget.
* Bulk registry: a create whose sweep meets a key that another sweep has just
  deleted fails with KeyError after it has registered its own job. That job is
  never started, so it stays queued in the registry for ever, holds one of the
  in-flight slots, and is never evicted. Without `answered` the bound of
  `RegistryBounded` is false: with 2 jobs in flight, 4 retained and 3 threads, 9
  POSTs leave 5 entries, because one deletion can fail two other sweeps. The
  instance of `bulk_safety` is too small to show it.

## 7. Not modelled

* Pixel arithmetic: floating-point image processing, out of TLC's reach; its
  measurements are inputs of `Pipeline`.
* LSQ's HTTP client, SSRF rules, provider requests and the parsing of replies:
  I/O and text; `Worker` and `Pipeline` take each way they can end as a choice.
* `GET /v1/dse` (search) only reads and matches text. The steps a legacy row
  borrows from its job when it is shown are layout.
* A tenant's configuration is a deep merge of dictionaries; `Pipeline` takes the
  result as a constant. Of a tenant `Service` keeps whether it is active.
* The in-memory repository is a test double without transactions.
* The web console: only its bulk page has state that races (a poll in flight
  across a reset).
* A report whose previous period reaches back before the first day of the
  calendar, where `datetime.date` raises (`PlansAssumption`).
* A clock that steps back: `Tick` only adds. Several API processes have a rate
  limiter each; `Service` is one of them.
* Telemetry, wording, field encryption, migrations, seeds, deployment: no state
  that the rest reads.

## 8. Plan

Done: `JobQueue`, `JobContract`, `Worker`; `WebhookIntake`; `Fusion` and
`Pipeline`; `BulkScore`; `RateLimiter`, `Hierarchy`, `Analytics`, `Api`,
`ScoreApi`, `Records`, `Reports`, `Service`; proofs of every invariant and step
property the runs check; the contracts of the queue, the intake, bulk scoring and
the requests, each implemented by its module.

Left to model, most useful first:

1. `BulkPage`: the console's page composed with `BulkScore`: start, poll, retry,
   reset, and an answer of the previous job.
2. The in-memory repository as an implementation of the operations `Records` uses.

No proof is left to add for the safety properties the runs check; each new
module above should come with its own.
