# UPE Web Source Collector: TLA+ models and proofs

This directory holds TLA+ modules that model the governance and crawl core of the
repository, TLC configurations that check them on small instances, and proofs checked
by TLAPS. Paths below are relative to the repository (`app/...`, `scripts/...`). In
`PROJECT.json`, `map` ties each definition to the lines it models, `hazards` lists what
is hard to test in the code, and `mutants` gives, for each checked property, a plausible
bug that breaks it.

How to run, in this directory:

    tlc -workers 2 -config governance.cfg MCSourceGovernance     # any run, see "Runs"
    tlapm SourceGovernanceProofs.tla                             # any *Proofs module

## 1. The system

The service extracts structural patterns from web sources and datasets, and lets a
pattern reach a generation engine only if its source, its licence and its content pass
six gates. It consists of FastAPI handlers over SQLAlchemy sessions (PostgreSQL, READ
COMMITTED), worker functions that a dispatcher outside the repository calls, and Redis
for the shared queue and rate limits.

| Component | State | Operations | What is hard, and what must hold |
|---|---|---|---|
| Source registry and policy API (`app/api/web_sources.py`, `app/policy/url_canon.py`) | `web_sources`, `crawl_policies`, `web_delete_requests` | register, policy-check, delete-request | Registration looks up two columns and inserts, and only one column is unique. The policy check awaits robots.txt between reading the source and writing it. A withdrawn source must not come back; an admitted one stands on its licence; a checked source has its domain's policy row. |
| Operations API (`app/api/operations.py`) | none of its own | crawl-jobs, approve, block, apply-delete, recheck | Approve writes over any status. It must not make operational what governance refused. |
| Access control (`app/rbac.py`) | none | header to roles, roles to permissions, a permission per route | Approval writes over blocks, and only the roles given to users limit who may. |
| Deletion and recheck (`app/delete_recheck.py`) | sources, patterns, snapshots, requests | apply_delete, handle_recheck | Several statements while crawls and reviews commit. A resolved deletion leaves nothing usable. |
| Governance rules (`app/operational_gate.py`, `app/pipeline.py`, `app/pattern/pattern_state.py`, `app/models/enums.py`) | none | pipeline verdict, state machine decision, six gates | Three lists of conditions in three modules must agree. |
| Abstraction guard and PII scanner (`app/pattern/abstraction_guard.py`, `app/adapters/pii.py`) | none | guard, scan | The guard removes the text the scanner must still see; the texts compared for leaks travel with the abstracted feature up to the row. |
| Licence classification (`app/policy/license_state.py`) | none | auto_classify, transition table | What it finds is written to the source by the policy check. |
| Pattern construction (`app/pattern_build.py`) | `web_patterns` | build, persist | Status and governance results are stored together. |
| Job state machine (`app/job_state.py`, `app/retry_policy.py`) | `crawl_jobs.status`, `attempt_count` | transition, schedule_retry_or_fail | Validated on the session's copy, not on the row. |
| Job runner and fetch workers (`app/workers/runner.py`, `base.py`, `http_worker.py`, `playwright_worker.py`, `pdf_worker.py`, `file_parse_worker.py`) | job, pattern | process_crawl_job: precheck, execute, postcheck | Redelivery, exceptions between flushes, four workers with their own checks and limits. One pattern per successful job; the outcome fits the crawl. |
| Events (`app/events.py`, published by the runner) | what consumers have heard | publish | Published before the transaction commits, and not taken back. |
| Idempotent enqueue (`app/jobs.py`) | `crawl_jobs` with a unique key | enqueue_crawl_job | Concurrent inserts; a rollback inside the caller's transaction. |
| Frontier (`app/frontier.py`) | queue, visited set, allowed domains | add_seed, add_links, next | First-come visited marks against depth and page limits. |
| Crawl planner (`app/crawl_planner.py`) | none of its own | plan_next, plan_all | Pops an item before asking robots, limiter and job table. |
| Redis queue and limiter (`app/redis_backend.py`) | Redis list; delay key and count key per domain | push, pop, acquire, remaining_today, reset | `acquire` is up to three commands; keys expire; workers die between commands. |
| Robots checker (`app/policy/robots_checker.py`) | none | check_robots | Unreachable, missing, internal host. |
| Ingest scripts (`scripts/ingest_*.py`) | source and patterns | one transaction per dataset | Enters the source as `parsed`, without a policy check or a canonical URL. |
| Reuse risk, reconstruction test, detectors (`app/pattern/reuse_risk.py`, `app/pattern/reconstruction_test.py`, `app/adapters/vision.py`, `app/policy/brand_risk_lookup.py`) | feature dict | score, grade, test | Hard rules, then a float sum compared with thresholds. More evidence of copying must never improve the verdict. |
| Golden set and release gate (`app/golden_set.py`, `scripts/release_gates.py`) | samples | critical recall, gate G4 | Eight points of a continuous domain, a quotient per label: no missed sample may let a release pass. |

They interact through the database (handlers and workers on the same rows), through
Redis (planners and workers), and by calls: the planner calls frontier, robots checker,
limiter and enqueue; the runner calls a worker, the pipeline (abstraction guard, PII,
detectors, score, test), pattern construction, the job state machine and the publisher;
the operations API calls access control, enqueue and the deletion module; the
operational gate reads what all of them wrote.

### Not modelled

 - Metrics, SLOs and alerts (`app/metrics.py`): no module under `app/` or `scripts/` records
   a metric or reads an alert. There is no caller to compose a model with, and the counters
   alone promise nothing.
 - The licence transition table (`app/policy/license_state.py:11-30`): no caller consults it.
   `auto_classify`, which has a caller, is modelled.
 - The parsers: text and file formats. A parser returns a feature dict, which the modules on
   patterns take any of, or raises, which `CrawlWork` has.
 - Near-duplicate detection (`app/dedup.py`): hashing without state.
 - The export, data generation, calibration and verification-pack scripts: each reads
   files or all patterns once and writes files.
 - Gate G0 of `scripts/release_gates.py` (a dry run of the schema), the event topics nobody
   publishes, the application shell and the SQL schema. The schema's unique indexes are in
   the guards of `SourceGovernance`, `Registration` and `JobEnqueue`.

## 2. Modules

`GovernanceRules`: the pure rules. The vocabularies of `app/models/enums.py`, the pattern
transition table, `PolicyVerdict` (with `manual_review_required`, a value the code writes
that the enum does not have), `GovernancePasses`, `DecidePatternStatus` and `UnmetGates`.

`AbstractionGuard`, `PatternPipeline`: a raw feature dict (which keys it has, and what
personal data its text holds) goes through guard, scanner and governance into a row; the
stored row, in any status, is then decided by the state machine. A dict is the set of its
keys, since the guard looks at nothing else, and a text is the set of kinds of personal
data in it. The scores are any.

`LicenseRules`, `AccessControl`: the licence classification over the marks its expressions
look for, and roles, permissions and routes. `MCSourceGovernance` instantiates the core
with them: what a policy check finds is `AutoClassify` of a source's metadata, and the
operations offered are those some role of the deployment permits.

`SourceGovernance`: the core. `src`, `pat`, `req`, `policy` and `snaps` are the tables,
`jobs` the sources with a job, `ses` what each database session is doing, `retired` a history
of the sources whose deletion or removal was answered. A handler is a read step (`...Read`:
the rows it loads), further loads (`PolicyCheckDecide` after the robots fetch,
`BlockPatternsLoad`, `RestrictSnapshotsLoad`) and a commit step that makes all its writes
visible. Others may commit in between: a recheck restricts the snapshots it selected before
its commit (`RestrictSnapshotsLoad`), so one stored in between keeps its access. The ORM only
writes a column whose value differs from the loaded one: `Column(current, seen, new)`.
`Crash` is a rollback at any point, which covers an exception as well as a dead process.
Short handlers that read nothing another handler can invalidate (ingest, create a crawl job)
are one step, as is registration, whose statements are in `Registration`. `Drained` restricts
the users, not the code: a deletion is propagated only while the source is not `Busy`, with
no crawl job and no crawl or approval in flight, and neither begins once it has started.

`UrlCanon`, `Registration`, `JobEnqueue`, `Intake`: how a page enters. `Registration` is
`register_source` statement by statement (lookup by URL, lookup by canonical URL, insert,
commit), with the one unique index there is. A URL is the record of its parts: scheme, user
and password, host and whether it has capitals, port, path, the slashes at its end (so that
the root written with and without one are two URLs), the parameters in their order, and
fragment. `CanonicalizeUrl` is what the code makes of them. There are two references:
`SamePage`, which compares what the parts stand for, and `SpellingOf`, the closure of the
single respellings the docstring lists (`Respelled`). `JobEnqueue` is `enqueue_crawl_job` in
concurrent sessions: select, insert, the unique violation with its rollback of the whole
session, commit; `Batches` are the keys a caller enqueues in one transaction. `Intake`
composes the two routes: a job is created for the row a page was registered as. `doubled` is
a history of the pages whose registrations overlapped or that a dataset brought in.

`JobRules`, `JobLifecycle`, `JobRunner`: the job transition and retry tables; what
`job_state` promises of a row; and the handlers. A handler in `JobRunner` has a copy of
the row (`ses[h].copy`), checks transitions against the copy, takes the row lock at its
first flush (`Flush`), and commits the columns it changed or rolls back. `JobLifecycle`
is the abstract specification: the committed row, its attempts and whether the job has a
pattern. `LifecycleImplemented` is the refinement.

`FetchWorkers`, `CrawlWork`: `JobRunner` leaves the outcome of a job open; `CrawlWork`
refines it. The outcome is what the prechecks and postchecks of the job's worker say of any
crawl (worker, URL, limits or a null configuration, size, content), and each step publishes
the events the code publishes, which a rollback does not take back. `heard` is the last event
about a job.

`Frontier`, `SiteCrawl`: the frontier's operations (`Offer` is `_enqueue` from `add_seed`
or one iteration of `add_links`, `Take` is `next`), and a crawl that follows links. The
web is any member of `Webs`. Visited set and limits belong to a worker's frontier
object; the queue is shared.

`Politeness`: `RedisPolitenessLimiter.acquire` command by command (`TakeDelay`: SET NX
PX; `Count`: INCR; `SetExpiry`: EXPIRE; `RollBack`: DECR), key expiry as ticks, reset,
and workers that die inside. A call has a delay and may have a cap; one without touches no
count key (`GrantUncapped`). `grants` and `window` are histories of all grants, and of
those counted in the lifetime of the count key.

`CrawlPlanner`, `PlanLedger`: `plan_all` over the frontier, with `Limiter == INSTANCE
Politeness` sharing the variables; the planners of `CappedPlanners` have a cap, the others
the default, none. A planner fails (`Fail`) at the robots check, at any command of `acquire`,
or while it enqueues, before or after the job is stored. `PlanLedger` is the abstract
specification: every accepted URL is decided once, and eventually, unless a planner that
fails loses it (`Safety` is the part without the eventually).

`ReuseRules`, `PatternScoring`: reuse score, grades, reconstruction test and detectors
over a feature dict whose keys are set, corrected and removed one at a time. Sub-scores
are hundredths and weighted sums ten-thousandths, so thresholds are integers. The code
adds floats; `over` is whether a sum that is exactly a threshold comes out above it, as
`0.20*0.75 + 0.15*0.5 + 0.10*0.75` does. The golden samples of `app/golden_set.py` are
constants here, the regions around them are what `GoldenRegions` is about, and
`GoldenGate` is gate G4 over any set of samples.

The `MC...` modules instantiate these for TLC, and the `...Proofs` modules hold the theorems
(those on `JobRunner` are in `CrawlWorkProofs`, those on `JobEnqueue` in `IntakeProofs`).
Operators marked "Seeded fault" are the mutants' bodies; no specification uses them.

## 3. Runs

| Run | Question | Instance and bounds | Distinct states |
|---|---|---|---|
| `governance` | Can withdrawn material, or content that governance refused, become operational through any interleaving of two handlers with crashes, and does an admitted source keep the licence it was admitted on? (`GovernanceInv`, `RetiredNeverOperational`, `GovernanceIsFinal`, `NeverReoperational`, `VerdictMatchesLicense`, `CheckedHasPolicy`) | 1 source with disputed licence clues, 1 pattern (safe or high risk), 1 request, 2 sessions; all the operations of an operator, a privacy reviewer and a pattern reviewer except register and snapshot | 754 013 |
| `drained` | Is a deletion complete if the source's crawls and approvals have ended when it is propagated, and none begins afterwards? (`DeletionComplete`) | 1 source, 2 patterns, 1 snapshot, 1 request, 2 sessions; registered or ingested, crawled, reviewed, rechecked, deleted; no policy checks | 306 903 |
| `intake` | Is a page registered once, however it is spelled, are answers true, and does it get one crawl job? (`DuplicatesOnlyByRace`, `AnswersNameStoredPages`, `OneJobPerKey`, `CreatedMeansStored`, `OneJobPerPage`) | 2 sessions, 3 spellings of a root page and another page on its host, ingestion | 907 381 |
| `pipeline` | Do pipeline, state machine and gate agree, is nothing of the original stored, and does removed personal data still stop the pattern? | every set of 6 keys, one of each kind, 3 texts, every score and status; no other bound | 73 728 |
| `scoring` | Do the golden labels hold around the samples, does the release gate stop any miss, are low grades unreconstructable, is the verdict monotone in the evidence? | a grid of values on both sides of each threshold, with a float boundary case | 27 936 |
| `crawl_work` | Do the runner's transactions implement the lifecycle, does the outcome fit the crawl, are limits kept, and is a stored success the last thing published? | 2 jobs, 2 handlers, every crawl (limits negative, zero, below and above the worker's; sizes around them), rollbacks anywhere, `AttemptBound` 3 | 369 370 |
| `site_crawl` | Does a crawl end, breadth first, each page once, within its limits? | every web of 6 pages with at most one link each, 2 seeds, depth 2, 4 pages, a foreign domain | 314 538 |
| `politeness` | Do cap and delay hold over workers that interleave and die, and is the remaining allowance told exactly? | 3 workers, cap 2, a day of 4 ticks, calls with delay 0 and 2, and without a cap, 2 deaths, resets | 204 451 |
| `planners` | Is each URL decided once and eventually, and each job granted? | 2 planners of one queue, 2 URLs of one domain, one planner with cap 1 and one without a cap, a day of 3 ticks, one failure | 69 615 |
| `inflight_crawl` | (violation) Is deletion complete while a crawl is in flight? | as `drained` without the draining, crawl and deletion only | stops |
| `enqueue_batch` | (violation) Is `created` truthful for a batch in one transaction? | 3 sessions, 2 keys | stops |
| `leaked_counter` | (violation) Is a used-up cap renewed? | 2 workers, 1 death | stops |

Why the bounds are enough. Handlers in `SourceGovernance` touch one source each, and a hazard
needs one handler that holds a stale row and another that overtakes it; two sessions and one
source with one pattern give every such pair, and each session runs handler after handler, so
any sequence before and after. A deletion over several patterns needs two patterns, one of
which may change (`drained`). Register and snapshot are left out of `governance`, where
ingestion brings the source in, and are in `drained`. The proofs (section 5) cover any number
of everything for all these properties. In `Intake` two sessions give every overlap of two
registrations, and the third spelling comes after or before both. The fourth URL differs from
the first in its port only, the port a default that is not its scheme's; canonicalisation
itself is checked to be idempotent, and each respelling to keep the page, on a grid of 576
URLs (`CanonicalForms`). In `CrawlWork`, jobs do not share state, so the second job shows
only that handlers mix; the retry limit of the chosen error code is 2, below the attempt
bound; sizes 0, 2 and 4 lie below, at and above the worker's limit of 2, and the job's own
limits -1, 0, 1 and 3 below, between and above them. In `SiteCrawl` depth 2 is the least at
which a detour could cut off a page that a shorter way would have let through, and 4 of 5
pages makes the page limit bite. In `Politeness` cap 2 separates first, last and refused
increment, a delay of 2 ticks is shorter than the day and longer than a tick, and the three
workers can be inside `acquire` at three different commands. A call without a cap has a delay
there, as one with neither is granted any number of times. `planners` has as many URLs as
needed for one grant and one deferral.

`AttemptBound`, `MaxDeaths` and `MaxFailures` bound the counters and are the only bounds
in guards; `Limiter` in `CrawlPlanner` takes `MaxFailures` for its `MaxDeaths`.

### Assumptions about the environment

 - `MatchedRequests` (`governance`, `drained`): operators name a delete request of the
   source they propagate. The code does not check it (`app/delete_recheck.py:135`).
 - `Drained` (`drained`): operators propagate a deletion only when no crawl of the source is
   queued or in flight and no approval of its patterns is in flight; afterwards they create
   no crawl job of it and reviewers approve none of its patterns. Blocking reviews go on. The
   code enforces none of this, and `DeletionComplete` needs both conditions: a crawl in
   flight stores a new pattern (`inflight_crawl`), and an approval writes over the block of
   the deletion, beside it or at any time after (`app/api/operations.py:74`).
 - `Exclusive` (`crawl_work`): the dispatcher, outside the repository, gives a job
   to one handler at a time. The code has no lock or version that would enforce it.
 - `Prompt` (`politeness`, `planners`): no key expires, and no reset happens, inside an
   `acquire`, which takes milliseconds against seconds and hours.
 - `ImportedClues` (`governance`): a source whose licence metadata was completed
   after registration. Registration itself writes only `intended_use` and `notes`
   (`app/api/web_sources.py:132`), which `auto_classify` does not read, so that every source
   is classified unknown unless an import outside the repository, or a test
   (`tests/test_handlers_integration.py:85`), completes it; `RegisteredClues`, in `drained`, is
   the source as registered.
 - One worker per queue in `site_crawl`; several in `planners`, for which only the
   properties that survive a shared queue are claimed.
 - The snapshot store and the robots fetch are nondeterministic.

### Fairness

 - `SiteCrawl`: weak fairness of each worker's step. The loop runs until the queue is
   empty, and every step is straight-line code.
 - `CrawlPlanner`: weak fairness of each planner's step (`plan_all` is a loop over
   `plan_next`) and of time. `Fail` has none: a planner may fail or not.
 - `Politeness`: weak fairness of `Tick` (keys expire) and of the next command of a
   worker that is inside `acquire`. Deaths, calls and resets have none. `CapRenewed` is
   refuted under exactly this fairness, and would hold without the death.
 - The other modules have no fairness and claim no liveness: nothing in the code obliges
   a user, an operator or a dispatcher to act.

## 4. What the runs show

Withdrawn material stays out. A policy check that read the source before a deletion
committed writes its verdict after it, and the status `delete_requested` is lost; but no
verdict is one of the operational states, and no other handler writes one, so the
material remains outside the gate (`NeverReoperational`, `RetiredNeverOperational`).
An approval of a blocked pattern is likewise harmless at the gate, which looks at the
content's results as well as at the status (`GovernanceIsFinal`). Two policy checks that
write only the columns they changed never leave a verdict of one over the licence of the
other (`VerdictMatchesLicense`): each check that finds the licence right has found it so for
good, since all classify the same clues and nothing else rewrites it.

One job per page is a promise of two routes together, each idempotent by itself. It holds
exactly for pages whose registrations did not overlap (`OneJobPerPage`); the lookup by
canonical URL is not protected by an index.

Events are published before the commit, so consumers may hear of patterns that were
rolled back. The other direction holds: a stored success has been announced, and a
redelivered job is refused before its start is (`SuccessIsLastWord`).

### Findings

Three promises of comments or docstrings are refuted by the model of the code:

 1. `inflight_crawl`: `apply_delete` blocks the patterns there are and resolves the
    request (`app/delete_recheck.py:122-123`, `:131`); a crawl that was running stores a
    new, approved pattern of the source afterwards. The gate still refuses it, since the
    source is withdrawn, but the deletion is not complete.
 2. `enqueue_batch`: after a unique violation `enqueue_crawl_job` rolls back the caller's
    session (`app/jobs.py:82`), and with it jobs answered `created=True` earlier in the
    same transaction (`app/jobs.py:53`). `plan_all` is such a caller if its session is
    not committed per item.
 3. `leaked_counter`: a worker that dies between INCR and EXPIRE
    (`app/redis_backend.py:71`) leaves a count without expiry; with the cap reached, the
    domain is refused until an operator resets it, against the 24h TTL of `:67`.

### Noted while modelling

These follow from the code as modelled. They are recorded here for the maintainers, and
no run is devoted to them.

Sources and policies:
 - Approve and block routes write any status over any other (`app/api/operations.py:74`), also
   out of `blocked`, which `app/pattern/pattern_state.py:35` marks terminal in a table whose
   violation the caller is to refuse (`:41`). Written over the block of a resolved
   deletion, an approval makes the deletion incomplete again; the gate still refuses
   the pattern.
 - The register, policy-check and delete-request routes require no permission.
 - The policy check overwrites the licence without the licence transition table
   (`app/api/web_sources.py:245` and `app/policy/license_state.py:11,28`), writes
   `manual_review_required`, which `SourceStatus` lacks (`:240`), and writes over
   `delete_requested` (`:244`). `crawl_policies.allow_crawl`, which each check of a
   domain's sources overwrites (`:270`), is read nowhere.
 - The first Creative Commons URL of several decides (`app/policy/license_state.py:134`), where
   the docstring has ambiguous clues classified unknown (`:121`).
 - Two spellings of a page registered at the same time give two rows; a third spelling is then
   answered 500 by `scalar_one_or_none` (`app/api/web_sources.py:112`), as is the loser of
   two inserts of one URL (`:138`).
 - An IPv6 address loses its brackets in the canonical form
   (`app/policy/url_canon.py:41,45`), and a URL without a scheme but with `://` in its query
   gets none and is refused (`:35`).
 - A snapshot stored while a recheck is between its select and its commit is not
   restricted (`app/delete_recheck.py:77`).
 - A crawl job may be created for a source that was never checked
   (`app/api/operations.py:48`); the README's principle asks for the gate before collection.
 - `apply_delete` resolves a request of another source (`app/delete_recheck.py:135`).
 - The export script does not apply the operational gate (`scripts/export_patterns.py:36`).

Jobs and workers:
 - `failed_retryable` to `running` goes round the retry policy (`app/workers/runner.py:90`,
   `app/job_state.py:22`). A job redelivered while running builds two patterns
   (`app/workers/runner.py:69`), and a stale copy takes a job out of a terminal state
   (`app/job_state.py:56`): without `Exclusive`, `OnePatternPerSuccess` and
   `LifecycleImplemented` fail.
 - A worker that dies after its caller committed `running` leaves a job that only a
   redelivery by the dispatcher takes up again.
 - The HTTP status of a response is recorded and not judged (`app/workers/http_worker.py:112`):
   an error page of an accepted type is parsed as content.
 - A null `max_bytes` raises inside the fetch of the http and render workers, where it
   becomes a failed fetch and is retried; in the pdf worker it raises in the precheck; for
   the file worker it is invalid. A null `job_config` raises in the http worker before the
   fetch and outside its try (`app/workers/http_worker.py:96-97`). The render worker checks
   no limit of the job.
 - Retries and cancellations publish no event, and `crawl.completed` may be heard for a
   transaction that was rolled back.
 - Batches that insert the same keys in opposite order may deadlock in the unique index
   (`app/jobs.py:78`); the database breaks the deadlock with an error.

Crawling:
 - Workers that share the Redis queue each have their own visited set and page count
   (`app/frontier.py:71,108`): pages are crawled twice and `max_pages` is exceeded.
 - The cap is per lifetime of the count key, not per rolling day (`app/redis_backend.py:67`);
   a late DECR leaves a count of -1 and one grant too many (`:74`).
 - A deferred URL is neither requeued nor accepted again (`app/crawl_planner.py:104`).

Patterns:
 - An empty `pii_text` is scanned instead of the original text (`app/pipeline.py:63`), and then
   nothing is found. The runner passes none.
 - The removal of a signature sets neither flag of the guard's report
   (`app/pattern/abstraction_guard.py:107`).
 - The grade is taken from the unrounded float sum, the stored score is rounded
   (`app/pattern/reuse_risk.py:347`): a stored score of 0.3 may be graded medium.
 - A text leak needs 15% of all shingles in common (`app/pattern/reuse_risk.py:147-148`),
   so a short verbatim passage of a long text is not one.
 - `app/workers/html_parser.py:90-97` supplies no layout, colour or structure measures;
   missing measures count as 0, and the score is that of an unknown brand alone.
 - Critical recall passes vacuously if no sample carries a critical label
   (`app/golden_set.py:101`); `GateStopsMisses` is about the golden set as it is and more.

## 5. Proofs

Checked by TLAPS for every value of the constants:

`SourceGovernanceProofs` (any number of sources, patterns, requests and sessions, any set
of operations). `RetiredNeverOperational` is not inductive: a handler in flight could
write an operational status it had loaded. `GovernanceInv` adds what a handler's memory
implies. The rows it will write exist; a policy check's decision is never operational;
and if the row it loaded was withdrawn then the row is withdrawn now, so that `Column`
cannot bring the old value back. With it, `retired` implies `Withdrawn` is inductive.
The proof goes action by action; the lemmas about `Column`, `PolicyVerdict` and the gate
are stated once. Theorems: `GovernanceInvariant`, `RetiredStayOut`,
`GovernanceCannotBeOverruled`, `NoReturnFromWithdrawal`, `GateImpliesGovernance`.

Its second invariant, `CheckInv`, is about policy checks: a check in flight that saw the
classified licence in the row, and will therefore not write it, still finds it there; its
verdict stands on that licence; a policy row it has seen is still there; and an admitted
or reviewed source has one. From it follow
`AdmissionStandsOnLicense` and `CheckedSourceHasPolicy`.

Its third, `DeletionInv`, holds under `Procedure` (`Drained`, `MatchedRequests`): a propagation
in flight has loaded every pattern of its source that is not blocked yet and every
snapshot that is not restricted, and no source is deleted and crawled or approved at
once. `DrainedDeletionsComplete` follows. Its condition is the whole procedure, on crawls and
on approvals: without either a resolved deletion may be incomplete (section 3, Assumptions).

`PatternPipelineProofs`: for any keys and texts, pipeline, gate and state machine agree
(`GateAndPipelineAgree`, `PipelineWithinStateMachine`, `DecisionIsLegal`), nothing of the
original is stored (`OriginalsStayOut`) and what the scanner finds in a removed text
keeps the pattern out, whatever its later status (`PersonalDataStaysOut`).

`IntakeProofs`: for any URLs and number of sessions. `CanonicalFormOfSpellings` says that two
URLs have one canonical form exactly if one is got from the other by the docstring's
respellings, one after the other and in either direction. No respelling changes the canonical
form, so neither does a chain of them; and a chain leads from every URL to its canonical
form, part by part. Sorting the parameters is one of its links: a sorted sequence with the
same parameters exists, there is only one, and it is a reordering of the original, by
induction on the parameters as a finite bag. That `SamePage` is the same relation is the
lemma `CanonicalByPage`. `IntakeInv` says that a request past its lookups found no row of its
page, nor has one come since without marking the page; that an unmarked page has at most one
row; and that jobs have rows. `LateRequestsReuse`, `AnswersAreRight`, `OneJobForAPage`; and
`IntakeImplementsJobEnqueue`, by which the theorems on `JobEnqueue` hold of the composition.

Enqueue, also in `IntakeProofs`: for any number of sessions and keys, if every caller
enqueues one key per transaction, as the route does. `EnqueueInv` says that what open
transactions have inserted has no committed job and is in no other open transaction, and is
what their callers were told. `OneJob` and `CreatedIsStored` follow; finding 2 is what
happens without the assumption.

`CrawlWorkProofs`, on the runner: with `Exclusive`, for any number of jobs and handlers, any
retry outcomes and any attempt bound. `JobInv` says of each handler's copy how it relates to
the committed row: equal when loaded, one transition ahead while executing, a `Journey` of
the lifecycle when done. From it follow `OnePattern`, `FailuresAreCounted` and the step
simulation of `RunnerImplementsLifecycle`. `QueuedWithinPolicy` does not assume `Exclusive`:
its invariant, `RetryInv`, is about a handler's own copy, which carries the counted attempt
with it whatever it overwrites.

On its workers: `WorkImplementsJobRunner` maps every step to one of `JobRunner` or a
stutter, so that the theorems on the runner hold of the runner with its workers. With
`Exclusive`, `WorkInv` adds that what a handler has processed and announced is what it will
commit, and gives `SuccessStands` and `OutcomesAreEarned`, for any limits and sizes.
`LimitsAreKept` does without `Exclusive`: it is about one execution of one crawl, by the
cases of where a worker's limit and the job's lie to the content and to zero.

`SiteCrawlProofs`: for any web, seeds, domains, depth and page limit, if one worker has
the queue (`Alone`). `TakenOnce` is not inductive: a page that waits twice would be taken
twice. `CrawlInv` adds that the waiting items are of different pages, all accepted and
none ever taken, and that the accepted pages are finitely many and within the limit.
`PagesTakenOnce` and `PageLimitKept` follow. `BreadthInv` adds how far the crawl has come,
and with it `BreadthFirst`: what the crawl ends with is compared with the pages within a
distance of the seeds. With a second worker these fail. `CrawlRunsOut` is the part of
`CrawlEnds` that needs no fairness: a number that every step of the crawl lowers.

`CrawlPlannerProofs`: for any number of planners, URLs, domains and any limits. `PlanInv`
relates a planner's step, its item and its call of the limiter, and counts for each domain
the jobs and the planners about to create one: they are never more than the grants. A
command of the limiter concerns its own planner only (`LimiterStep`), so each command is
a stutter of the ledger, and the decisions map to its actions. `JobsHaveGrants`, and
`PlansFollowLedger` for `PlanLedger!Safety`, the ledger without its fairness.

`PolitenessProofs`: any number of workers, domains, deaths and any cap and calls, but every
theorem under `Prompt`: no key expires, and no reset comes, inside an `acquire`.
`PolitenessInv` is inductive (`CountsCoverGrants`): a count key's value covers the grants of
its lifetime and the increments in flight, and equals them while no worker has died. The
cardinalities of the workers inside `acquire` are changed one worker at a time by a lemma
(`BalancedPreserves`). `CapIsKept` and `RemainingIsTold` follow. `KeysKeepDelays` adds the
delay keys: one worker at most is behind a key, and the key outlives the delays of the grants
before it; from it, `DelayIsKept`.

`PatternScoringProofs`: for any sets of values of the feature keys and either float
rounding at a threshold. The weighted sums are monotone integer functions of the
signals (`LargerIsMonotone`, `ScoreSum`, `ReconSum`), a sample's corner bounds the
region around it, and each theorem reduces to arithmetic at the corners
(`GoldenRegionsHold`, `LowNeverReconstructs`, `EvidenceIsMonotone`). `GateStopsEveryMiss`
rests on a count: the recall of a finite set of samples is 1 exactly if none is missed.

Assumptions: the named ASSUMEs of the modules, which TLC evaluates in the runs.

Only model-checked: what is liveness, `CrawlEnds` and the fairness part of
`LedgerImplemented`, which the prover does not treat.

## 6. Abstractions

Names, contents and texts are model values or small sets; ids are the model values
themselves, and a row of the registry is named by its URL, which its index makes a key. A
content's governance results (`Features`) stand for what the guard, scanner and
score computed of it. Wording, logging, metrics and the fields of events are left out; which
event is published when is not. `SourceGovernance` keeps one job flag per source, since
neither creating nor running a job looks at more; jobs themselves are in `JobRunner`.
`SiteCrawl`'s crawl loop and the job dispatcher are not in the repository and are modelled
from the interfaces made for them. The planner's optional collaborators (limiter, job
table) are present. The retry backoff is left out: nothing in the repository waits for it.

## 7. Plan

Built, in this order: the governance core (`GovernanceRules`, `SourceGovernance`, its
proofs), jobs (`JobRules`, `JobLifecycle`, `JobRunner`), enqueue, frontier and site crawl,
politeness, planner, scoring; then licence rules and access control in the core, the
pattern pipeline with guard and scanner, registration and intake, fetch workers and
events, the release gate, and the proofs of deletion, policy checks, politeness, the site
crawl and the planner.

What would come next:
 1. A model of the metrics and alerts, once something records them.
 2. The job dispatcher and a worker pool that takes up abandoned jobs, once they exist.
