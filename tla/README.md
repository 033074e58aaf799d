# CareerPilot.ai: a TLA+ development

Specifications of the backend of CareerPilot.ai (`src/backend/app`), checked with
TLC on small instances and, for the properties that matter most, proved with
TLAPS for every instance.

## 1. The system

CareerPilot discovers job postings on employers' boards, verifies that their
apply links work, and matches them to candidates. It consists of a FastAPI
process, a worker process and a Next.js frontend on one Postgres database, which
is also the queue. All transactions are READ COMMITTED; the API opens one session
per request, the worker one per task; both roll back when anything is raised.

| Component | State | Operations | Hard parts |
|---|---|---|---|
| Task queue (`db/queue.py`) | `task_queue` | enqueue, claim, complete, fail, reap_stale | consumers racing each other and the reaper; crash between claim and commit; the retry schedule; the partial unique index on live dedup keys |
| Worker (`workers/runner.py`) | consumer threads, APScheduler jobs | run_once, _consume, the trigger jobs | one task spans three transactions; threads work on a copy of the row |
| Source registry (`services/sources.py`) | `job_sources` | sync, prune, circuit breaker | columns written by three parties; bookkeeping inside the transaction that fails |
| Ingestion (`services/ingestion.py`) | `job_postings`, `source_runs`, `raw_payloads` | run_source, replay, upsert, run health | partial rows of two-phase sources; a posting listed again |
| Verification (`services/verification.py`) | `url_status`, `last_verified_at` | verify_batch, expire_postings | probe result applied to a row that has changed |
| Embedding (`services/embedding.py`) | `job_embeddings` | embed_pending | text read before, vector written after |
| Duplicate detection (`domain/dedup`, `services/dedup.py`) | `job_groups`, `job_group_id` | cluster, persist | transitive merging; partial batches; clusters that split |
| Gates, retrieval, scoring (`domain/matching`, `domain/scoring`) | none: pure functions | evaluate_gates, reciprocal_rank_fusion, the sub-scores, aggregate, percentiles | what silence means in a posting or a CV; ties; terms that cannot be assessed |
| Matching (`services/matching.py`) | `matches`, `match_evidence`, `job_requirements` | run_for_profile, shortlist, withheld | upserts that update only part of the verdict; check then insert across model calls |
| Profiles (`services/profiling.py`) | `cv_documents`, `cv_versions`, `candidate_profiles` and its children | ingest_cv, build_profile | version numbers without a constraint; a transaction of several inserts that overlaps a deletion |
| Engagement (`services/engagement.py`) | `applications`, `application_events`, `user_job_events` | record, advance, events | check then insert; status machine without a lock |
| Digest (`services/digest.py`) | `digest_sends`, consents | due_users, compose, send, record | a crash between sending and recording; two tasks of one user; a stop while a task waits |
| Account (`services/account.py`) | users, consents, CV text | export, request_deletion, hard_delete_expired | requests that overlap the deletion; one transaction purges every account |
| Personalisation (`services/personalisation.py`) | `user_score_weights` | train, deactivate | automatic training after a manual switch |
| Companies (`services/companies.py`, `domain/dedup/entities.py`) | `companies`, `company_aliases`, `company_review_queue` | load, resolve_or_create | a directory loaded before other runs commit; names that contain each other |
| HTTP client (`adapters/http.py`) | host throttle, budgets, robots cache | request, allowed | threads sharing the state; Retry-After; retries |
| LLM chain (`adapters/llm`) | cooldowns, parked keys | chat, complete_schema | who is skipped when everybody is cooling or parked; the one repair |
| Tailoring (`services/tooling.py`, `domain/safety`) | none: one draft per request | gaps, bullets, interview, cover letter, rewrite | a text with several mentions; a corrected draft that invents anew |
| Job text (`domain/jobs`) | none: pure functions | requirement extraction, skill expansion | one pass that carries the section and whether it is a list |
| Schema (`db/models.py`, `db/migrations`) | tables, foreign keys, indexes | upgrade, downgrade, cascading deletes | revisions applied to rows of an earlier revision; what a DELETE takes along and what stops it |

Interaction. APScheduler jobs and API requests *enqueue* rows; consumers *claim*
them, run the handler and settle the row in the handler's transaction. Handlers
call the services, and some enqueue their successors (discovery enqueues dedup,
detail fetches and embedding; verification and embedding enqueue themselves).
The services interact through tables only: ingestion, verification, expiry,
details and embedding all write a `job_postings` row by id; matching reads what
they left.

What makes each component correct is in section 3, next to the module that
states it; `PROJECT.json` lists, under `hazards`, the lines at which each can go
wrong.

## 2. Plan

Modules marked * are written.

| Order | Module | Of | Abstract specification or theorem |
|---|---|---|---|
| 1* | `TaskQueue`, `WorkLedger`, `TaskQueueProofs` | queue and consumers | refines `WorkLedger`; nine theorems |
| 2* | `Discovery` | schedule, source health, breaker, sync | |
| 3* | `Matching`, `MatchingProofs` | the funnel's tables | its four table invariants |
| 4* | `Posting` | one row of `job_postings` | `BodyNeverErased`, in `UnitsProofs` |
| 5* | `VerifyChain` | self-enqueueing chains on the queue | |
| 6* | `Clustering`, `ClusteringProofs` | duplicate detection | chains of evidence; its three properties |
| 7* | `JobGroups`, `JobGroupsProofs` | persistence of its clusters by overlapping runs | its three properties |
| 8* | `Engagement`, `EngagementProofs` | applications and their status | its three properties |
| 9* | `Digest`, `DigestProofs` | the daily digest | its two safety invariants, the cap on a message |
| 10* | `Schema`, `Migrations` | tables, foreign keys, the eight revisions | `MigrationsAgree` |
| 11* | `Account`, `AccountProofs` | accounts, CV versions, profiles, learned weights; uses `Schema` | its three invariants |
| 12* | `Scoring` | gates, fusion, sub-scores, weights | `MoreNeverHurts` and `WeightsBounded`, in `MatchingProofs` |
| 13* | `HttpConduct`, `Inference` | host throttle, budgets, robots; cooldowns, parked keys, repair | `Polite` and `AsksRightly`, in `UnitsProofs` |
| 14* | `Drafting`, `Extraction`, `Companies` | the anti-invention check; requirements; employers | `NothingInvented`, `NoSilentMerge` and `RequirementsAsWritten`, in `UnitsProofs` |
| 15 | `RunHealth` | the yield statistics of a source | reference definition over bounded counts |
| 16 | `Sources` | paging and detail fetches of the adapters | |

Every safety invariant and action property that a run checks and finds to hold is a
theorem, `MigrationsAgree` excepted (section 6 says why). Further theorems worth
proving: the type invariants of `Discovery` and `VerifyChain`, which have liveness
properties only.

## 3. Modules

A definition `Name_Bug` is a mutated form of `Name`: it shows that a property
notices the bug, and no other definition uses it.

### TaskQueue, WorkLedger (`db/queue.py`, `workers/runner.py`)

A row is a value of `Tasks`, and each column a function on it. Every statement of
`db/queue.py` runs in a `session_scope`, so each action is one committed
transaction: `Enqueue`, `Claim`, the commit of the handler with `complete()`
(`Succeed`), `fail()` (`FailDead`, `FailRetry`), `ReapStale`. Consumers keep the
`Task` they were given (`held`, `attempt`), and `complete()` and `fail()` update
by id only, as in the code. Failures: `Crash` of a process, `FailLost` (the
session of `fail()` breaks), `SucceedUnacknowledged` (the reply of COMMIT is
lost), a handler slower than `lock_timeout_minutes` (`Tick` past the lock's
age while it runs). The last two let two consumers work on one row and are
counted in `strays`.

Properties: no two live rows of a key (`DedupUnique`), no two consumers hold one
attempt (`ClaimsDistinct`), no early dead letter (`DeadExhausted`), a bound on
attempts (`PoisonBound`); with fairness and with strays, `EventuallySettled`.
`WorkLedger` is what producers may rely on: a task's handler commits exactly once
if it ends done and never if it ends dead, and what is settled stays settled, until
the first consumer strays. The queue implements it (`LedgerSafe`), under the
refinement mapping of `Ledger` in `TaskQueue`; the ledger's liveness is
`EventuallySettled`. Ownership of rows (`OwnsRow`) and exactly-once effects
(`EffectOnce`) are what the proof of that needs.

Fairness: weak, of each consumer's claim, handler and `fail()` (`_consume` loops
for ever and handlers are bounded by timeouts), of `ReapStale` (a five-minute
job) and of time.

### Discovery (`workers/runner.py`, `services/ingestion.py`, `services/sources.py`)

Columns of `job_sources`, the live discover tasks per dedup key, and a clock
relative to the interval. `RecordFailure` writes the count and opens the
breaker; `AfterRaise` is what `session_scope()` keeps of it, which is nothing,
because `run_source` raises afterwards. `KeepsRunning` says that no source falls out
of the schedule, although three code paths write its columns and a live task of an
earlier bucket, a dead letter or a lost hour may stand in its way. Fairness: weak, of time, of the hourly job and of the runs, which all
time out.

### Matching (`services/matching.py`, `api/v1/matches.py`)

Rows are (profile, posting) pairs and columns are sets of pairs, so the upserts
read as set unions. A run is `Scan`, `Analyse` for each finalist, `CommitRun` or
`AbortRun`; runs of different profiles overlap. Which eligible postings become
finalists is left open (the ranking is numerical). `Turn` and `Rewrite` are what
the rest of the system does to a posting meanwhile. The properties relate the
columns that several runs wrote: a withheld row has its reasons, a listed one was
eligible and has a percentile, and the evidence of a match is about the requirements
that its score was computed from. The last is a claim because `_persist_evidence()`
looks each requirement up by its text and silently skips what is not stored, while two
runs may extract different texts from one advert: it holds because a run stores its own
extraction whatever others stored meanwhile, and because nothing deletes requirements.

### Posting (`services/ingestion.py`, `services/verification.py`, `services/embedding.py`, `workers/tasks/discover.py`)

One row of `job_postings` under the five tasks that write it. Each task first
reads (a listing, a page, a body) and later writes by id, and anything may happen
in between. The employer's board and pages are outside the program and change at
will; pages answer `live` or `gone`, and any probe may end `unknown`. Fairness:
weak, of every scheduled task; none of the employer's.

### VerifyChain (`workers/runner.py`, `workers/tasks/matching.py`, `services/verification.py`)

The hourly trigger with its dedup key, tasks that enqueue a successor without one
while the batch was full, and the oldest-first batch, committed posting by
posting. Time is the order of the checks, so that "oldest first" needs no clock.
`EveryDueChecked`: no posting starves behind others that become due, however
often a chain breaks. `ChainsEnd`: a chain is not an endless loop. Fairness: weak,
of the trigger and of each task's steps; raising handlers are bounded by
`MaxFaults`.

### Clustering (`domain/dedup/clustering.py`)

`cluster_postings` one comparison per step, over every pool of `N` candidates and
in every order, with the union-find's roots and the location table as state. What
SimHash and titles say of a pair is an arbitrary symmetric relation. The
reference definition is by chains: `EvidenceOnly` (soundness, always),
`PagesTogether` (completeness for shared pages) and `CitiesPartition` (the exact
partition, where every candidate has a city and no page is shared).

### JobGroups (`services/dedup.py`, `cli.py`)

What overlapping runs of `DedupService.deduplicate` do to `job_group_id`. A run is
one transaction: `Start` (pool and clusters), then `Find` (the SELECT) and
`Attach` (UPDATE or INSERT, and the members) for each cluster, `Commit` or
`Abort`. `mine` is what it has written and nobody else sees; a row it has written
is locked. `Discover`, `Close` and `RedoDedup` are the rest of the system.
Clustering is abstracted to "describes the same job", which a new version of a
posting may change.

A group id holds the cluster that made it, which is how the model tells groups
apart; the code has UUIDs. `GroupsHaveClusters`: one group never joins postings
that no chain of committed clusters links. `StableGroups` and `QuietRunUnites` are
about a run that nothing overlapped (`quiet`): it never churns groups, and it
repairs what overlapping runs split.

### Engagement (`services/engagement.py`, `api/v1/applications.py`)

Requests of one user as read steps and write steps: `Open` (the transaction begins),
`BeginRecord` (the group), `Check` (the guard), `Record` (the upsert and commit),
`BeginAdvance`, `Advance`. `log` has the rows of `application_events` with their
`occurred_at`, which is when the writer's transaction began and not when it committed.
Groups change under them in any way (`Regroup`). `DuplicatesExcused` states the
duplicate guard as far as it can hold: two applications in one group are there
because one was forced, because the group was not known when they were recorded,
or because a request overlapped. `HistoryTells` is about what `application_history()`
shows, sorted by those times: it accounts for the status, and for the status that each
transition started from. Requests that overlap can break that, and are its named
exception; forced records, which log "applied" whatever the status is, and requests
in any other order cannot. `RecordKept`: recording again neither restarts an application
nor replaces its CV snapshot.

### Digest (`services/digest.py`, `workers/tasks/matching.py`, `services/account.py`, `api/v1/account.py`)

One user. `Plan` is the planner's task, `Start`, `Compose`, `Deliver`, `Commit` the
user's; `Deliver` cannot be rolled back, `Commit` may never come. Two consumers,
tasks of two days and `TakeBack` (the reaper) give overlapping runs. Time is
`planned` (today's planner has run) and `recent` (how many planners will still
find a send of the last 20 hours, which is two when the send was more than four
hours late). What a message lists are match rows (`Matches`, by total_score); a posting
has one for each profile and model version (`PostingOf`), and the log is by posting.

`NewMeansNew`: a posting is in two messages only by one of two named causes; a row of a
rebuilt profile does not bring back what was sent. `StoppedMeansStopped`: no run that
began without consent or account delivers, not even through a grant that overlapped
the deletion, for which the consent check alone is not enough; one mutant drops that
check, another the look at the account. `DigestComes`: a user with news is sent it,
unless a top item breaks the presentation rules; one further down does no harm.
Fairness: weak, of days, of the planner and of the consumers; cut-off runs are bounded
by `MaxFaults`.

### Schema, Migrations (`db/models.py`, `db/migrations`)

`Schema` maps each table to its foreign keys: those that cascade and those that
refuse. `Deletable` and `Remaining` are what PostgreSQL makes of a DELETE: cascades
run in waves, and a row that a NO ACTION key still points at afterwards undoes
everything. Both modules below use it. `Migrations` is the eight revisions as
sequences of statements, applied up or down one at a time in one transaction
(`Migrate`, `Commit`), with `StoreTwice` putting the duplicate rows into a database
that the last revision has to clear away. `MigrationsAgree`: whatever route a
database took, no statement fails, the newest revision has what `db/models.py` maps,
and going back to the start leaves nothing.

### Account (`services/account.py`, `services/profiling.py`, `services/personalisation.py`)

Users from registration to purge, with the rows they have in each table of
`Schema`, and two requests under way. An upload is two steps, since the upsert of
`cv_documents` locks the row until the transaction ends; a build is one transaction
that inserts into all of `ProfileTables`. `Close` blanks the text it can see;
`Purge` deletes all expired accounts or none. `NothingOutlives`, `TextStaysGone` and
`VersionsDistinct` are about what overlapping requests leave behind, `PurgeComes`
says that the purge is not held up except by a label of the evaluation set.
Fairness: weak, of the daily purge and of each request's end.

### Scoring (`domain/matching/gates.py`, `retrieval.py`, `domain/scoring`, `services/matching.py`)

Pure functions on sheets of inputs, in ten-thousandths, where the code
rounds to four places. `MoreNeverHurts` is the order the parts must
keep between them: stating more never fails a gate that silence passed, holding more
never scores less, an unread posting never beats a read one, a better total stands
better, and a posting that all retrievers prefer comes first. `WeightsBounded` is
about the projection of learned weights: clamping and moving to sum one do not undo
each other. The fit is a tenth of tanh per term, which stands for any coefficient.

### HttpConduct (`adapters/http.py`)

Threads of one `HttpClient`: `ConsumeRpm`, `EnterWait` (the host's lock is held
through the sleep), `LeaveWait`, `Respond`, `Resume`. The clock moves at any time
except over a thread that could run and has no sleep or lock to wait for, so a
thread may also wake late. `Polite` states the conduct rules of the
module's docstring as facts about the sequence of requests sent.

### Inference (`adapters/llm`)

One process's chain: `TryNext` asks, skips or hands over, `Parse` accepts, repairs
once or gives up, `Later` lets time pass. `AsksRightly`: no key is used before its
pause is over, the load of keys that were never limited differs by one at most, and
when a question fails every provider of the chain was tried or skipped, at least one
tried.

### Drafting (`services/tooling.py`, `domain/safety/anti_invention.py`)

A text is the sequence of the places where the name of a claim occurs, as a mention of
it or inside another word, each perhaps by a negation; the model may draft any of at most
two. `Draft` shows it, asks for a correction or
refuses. `NothingInvented` is about what is shown, whatever was drafted before.

### Companies (`services/companies.py`, `domain/dedup/entities.py`)

Two ingestion runs, each with the directory it loaded at its start and its own
uncommitted rows; an insert on a domain that another run is inserting waits.
`NoSilentMerge`: a posting is filed under an employer of another name only for its
domain, for a likeness short of containment, or with a review queued, and no two
rows claim a domain. Names are sets of words; their likeness is a constant. A name of
which normalising leaves nothing goes to review; no reference of the run has one, and the
theorem covers it.

### Extraction (`domain/jobs/requirements.py`)

A line is what the patterns find in it: heading or not, bullet or not, must-have
words; a requirement is its strength, its kind, the skill a model may have named, and
its words, which are skills, "and" and "or". `ReadLine` is one round of the loop, with the
section, whether it has become a list, and the cap. Only requirements of skill and
experience ask for skills (`Expands`); the one that a model named goes before the words.
`FindSkills` returns each skill once, in the order of the taxonomy (`SkillOrder`); the
eight at which the code stops are a bound, since no piece names more.
`ExpandSkillRequirements` keeps the first need of each leading skill and strength.
`RequirementsAsWritten` compares the pass with a definition that looks at each line
and at what precedes it, without the state that the loop carries: what is extracted
are requirements of the advert, in order, and none before the last is missed; and
the needs are those that the requirements name. The strength of a line (`StrengthOf`)
is the one that the docstring and a test state, where a section of nice-to-haves
decides whatever the wording; the code disagrees on a bullet that is worded as
mandatory there, which the property excepts by name (`Disputed`; section 5).

### MCUnits

The eight modules that share no state with each other (`Clustering`, `Migrations`,
`Scoring`, `HttpConduct`, `Inference`, `Drafting`, `Companies`, `Extraction`) side by
side: the first state picks one part and the others rest, so that one run explores
the sum of their state spaces and not the product.

## 4. Runs

| Run | Question | Instance |
|---|---|---|
| `TaskQueue_safety` | the queue's invariants, refinement of `WorkLedger`, progress | two tasks, one key, two consumers on two processes, two attempts, one fault, one stray: enough for a reaped row with two owners |
| `Discovery_health` | a source never falls out of the schedule | an interval of two ticks, two attempts, breaker at two |
| `Matching_tables` | the tables stay consistent | two overlapping profiles on one posting, two requirement texts of which an extraction finds any |
| `Matching_gated` | finds a disagreement (section 5) | the same |
| `Posting_life` | one row under all its tasks | two URLs, one body, windows of one and two ticks |
| `VerifyChain_drains` | nobody starves and chains end | three postings, two live tasks, batches of one, two faults |
| `JobGroups_runs` | groups under overlapping runs | two postings, two jobs, two consumers, three runs: two that overlap and one to repair |
| `Engagement_requests` | applications under overlapping requests | two postings, two requests at once, three in all: a record and two changes of status |
| `Digest_sends` | repeats, stops and progress of digests | a posting with two match rows and a second posting that may not be phrased, two items a message, two consumers and two tasks waiting beside theirs, two faults |
| `Account_data` | what a deletion leaves behind | two users, one of whom engages and trains, two requests at once, documents of up to two versions, purged on the first purge after closing |
| `Account_stops` | finds a disagreement (section 5) | the same |
| `Units` | the eight self-contained parts, one per behaviour | clustering: every pool of three over two sources, cities and blocks and one URL; migrations: every route; scoring: every sheet of `SheetNext`; HTTP: two threads, one host and budget, an interval of two ticks, two requests per window of four, three requests; inference: three keys, cooldowns of two ticks, three uses; drafting: two places, two attempts; companies: two runs of two postings each, seven references; extraction: four lines, at most three requirements; two requirements of up to three words over two skills, or of one word, any kind and a skill that a model may have named |

Bounds are all in CONSTANTS or guards, each named `Max...` or commented as a
bound. Two of everything that competes is enough for the races of interest
because each involves one row and two parties; the theorems remove the bounds
where that matters most. Deadlock is not checked where the system may stop:
clustering ends, requests and runs are bounded in number.

The type invariant `TypeOK` of each module, and `EnabledHasNoReason` of `Discovery`,
hold in the same instances. They say less than the properties above and are in no
run; adding `INVARIANT TypeOK` to a configuration checks one.

`Units` uses two reductions. Threads are interchangeable in `HttpConduct` (a symmetry
set; the run has invariants only). In a pool of `Clustering` the first candidate's
source, block and city are fixed, since all three are only ever compared. The
sizes are those at which each part's cases occur: three candidates make a chain with
a bridge, two requests per window make a third wait, a third key makes the choice of
the least used one matter, four lines are a heading, a bullet, prose and one more.

## 5. Disagreements between code and documents

Two are runs, quoted in `PROJECT.json`:

- `Matching_gated`: a posting listed by one run and gated by the next stays in the
  shortlist, because the upsert of withheld rows leaves `gate_passed` alone
  (`services/matching.py:671`).
- `Account_stops`: "The user stops being processed the moment they ask"
  (`services/account.py:9`), but matching queues every profile, those of closed
  accounts included, until the purge (`workers/tasks/matching.py:95`).

The others are seen in the models, whose actions do what the code does:

- The circuit breaker never opens: the failure count is written in the transaction
  that the following `raise` rolls back (`services/ingestion.py:95`, against
  PROJECT_PLAN.md:1027; `Discovery!RecordFailure`). Hence no reachable state shows
  that a re-sync resets it, against `services/sources.py:87`.
- Sources run every second hour rather than hourly: the due test compares a time
  just after the last tick with exactly the period (`workers/runner.py:49`, `:161`).
- A crash leaves a task running until it is reaped, and the reaper takes rows from
  slow consumers as well (against `db/queue.py:11`, `:213`).
- The second task of a verification chain carries no dedup key, so each hourly
  trigger starts another chain beside a live one (`workers/tasks/matching.py:76`,
  against `workers/runner.py:200`).
- The upsert of a list-only row keeps the body and replaces its SimHash by that of
  nothing (`services/ingestion.py:360`, against PROJECT_PLAN.md:848). It also reopens a
  posting that verification closed as gone, and lets a changed apply URL keep the
  verdict of the old one.
- A posting withheld and later scored, or scored without passing, keeps columns of
  its earlier verdict; evidence rows accumulate (`services/matching.py:624`) and
  concurrent runs store requirements twice (`:488`); the shortlist does not look at
  the link again (`workers/tasks/matching.py:54`).
- "A cluster that touches an existing job_group joins it rather than creating a
  rival" (`services/dedup.py:10`) fails when two of the four consumers
  deduplicate at once; `QuietRunUnites` is why the next quiet run heals it. Nor is a
  group ever taken apart: a rewritten posting takes its former neighbours with it
  into its new cluster's group.
- The duplicate guard of an application reads the group, then the applications, then
  inserts (`services/engagement.py:167`); nothing in the table keeps two overlapping
  requests from applying twice within a group, which `DuplicatesExcused` excuses by name.
- Two overlapping status changes make a transition that the table forbids, out of a
  terminal status too (`services/engagement.py:259`, against
  tests/integration/test_engagement_account.py:249). The history is sorted by when their
  transactions began (`db/models.py:685`, the trap that `:627` warns of), so that the
  one committed last, whose status stays, need not be its last row. A forced second
  application keeps the first one's CV snapshot and adds an "applied" row that
  disagrees with its status.
- A digest lists match rows (`services/digest.py:137`), and every build of a profile
  starts a new one (`services/profiling.py:246`) whose rows stand beside the old: one
  message may list a posting twice, and use up two of its places, under a log that is
  to make "new" mean new (`db/models.py:636`).
- A digest with one item that breaks the presentation rules is refused every day
  with everything below it, since nothing is recorded (`services/digest.py:191`); titles
  are the employers' own text.
- A text cluster may span two cities, because `merge()` rewrites the location table
  from entries that may be out of date (`domain/dedup/clustering.py:165`, against
  `:157` and tests/unit/test_clustering.py:210, which tries three candidates). With
  `INVARIANT OneCityPerCluster`, TLC finds it in a run of `Clustering` with `N = 4`.

Accounts and profiles (`Account`):

- "Everything else cascades from users" (`services/account.py:264`) does not hold of
  `eval_labels`: one expired account that carries a label keeps all expired accounts
  from being purged. `PurgeComes` excepts it.
- An upload that passed the account check before the account was closed leaves its
  text behind until the purge, which `api/deps.py:71` means to prevent. `TextStaysGone`
  says that nothing else does.
- "The row is kept" when a CV cannot be read (`services/profiling.py:114`): the
  request's session rolls it back.
- Weights that a user turned off are written over by the next training
  (`services/personalisation.py:160`), which joins every match row to every event, so
  an event counts once for each model version that matched the posting; and the
  validation counts label rows, not labelled postings.

Scoring (`Scoring`):

- `requires_authorization_in` and `required_languages` are never filled by
  `_posting_snapshot`, so that two of the six gates pass everything
  (`domain/matching/gates.py:3` promises six); 0 stated years are read as none stated,
  and pass gates that one year fails.
- "The rest renormalised" (`services/matching.py:418`): `aggregate()` does not, on purpose.
- Stored requirements come back without their `skill` and in the order of random
  UUIDs; a skill that a model extracted is not mapped to its canonical name.
- Postings whose totals tie share a percentile that counts none of them, so a pool of
  equal postings is all in its own lower half.

HTTP and language models (`HttpConduct`, `Inference`):

- "Per-host concurrency of one" (`adapters/http.py`): only the turns of a host are
  spaced; requests may overlap, and one thread's Retry-After does not stop the others.
  A rate-limited or unreachable robots.txt forbids the host for a day.
- "If every provider is cooling down, the last one is still tried"
  (`adapters/llm/chain.py:84`): with every key of the first parked and the last
  cooling, nobody is asked. A 200 answer that is not JSON leaves the chain by an
  exception it does not catch. A repaired answer records the model and provider that
  were asked for.
- Keys do not multiply throughput beyond the host's interval (`config.yaml`,
  `workers/runner.py:83`), and each API request builds a chain of its own, so that
  parked keys and cooldowns are not shared.

Tailoring, employers, job text (`Drafting`, `Companies`, `Extraction`):

- "Is this mention explicitly disclaimed" (`domain/safety/anti_invention.py:311`) looks at
  the first place where the name of the skill occurs, if only inside another word (`:313`),
  in a window that it cuts out of the original text at an index of the normalised one:
  a negation by "algorithm" disclaims a claim of Go further on, and one disclaimer all
  later claims. `NothingInvented` excepts what comes after such a place. `matched` is computed from
  the current profile while the gaps are those of the match, so a skill can be
  both (`services/tooling.py:145`). A missing match is a 503 for letters and rewrites.
- After a conflict on the domain the directory of the run knows the row under the
  name that met it (`services/companies.py:113`); two overlapping runs that meet a new
  employer without a domain make two rows.
- "A bullet under "Nice to have" is a nice-to-have even when its own wording sounds
  mandatory" (`domain/jobs/requirements.py:114`, and tests/unit/test_requirements.py:42):
  wording that MUST_HAVE matches keeps it a must-have (`:160`). The test's bullet is worded
  neutrally. `RequirementsAsWritten` excepts such a bullet (`Disputed`).
- "Requirements naming no known skill are dropped" (`domain/jobs/requirements.py:264`):
  not when a model named the skill, which is counted as it is, in the taxonomy or not.
- `infer_seniority` reads "II" as junior (its `i{1,2}` comes before `ii`).

## 6. Proofs

All hold for every value of the constants under the named assumption of their
module. Most of these only type the bounds. The others, and why the code justifies
them: `EngagementAssumption` makes the postings a finite set (`Pairs` counts them);
`InferenceAssumption` gives each of the three providers of `chain.py` an entry of
`KeysOf`, with keys that no other provider has (they come from one environment
variable each); `DraftingAssumption` says that a claim has one of the kinds the
module's `Kinds` lists; `CompaniesAssumption` starts from a finite directory in which
no two rows claim a domain (the column is unique) and each alias names its row;
`HttpAssumption` has finitely many threads; `DigestAssumption` makes the match
rows a finite set of naturals, their order by score, each of one posting; `ExtractionAssumption` keeps "and" and
"or" out of the taxonomy.

Each proof has an inductive invariant that is stronger than what it proves. Why it
must be is the content of the argument:

`TaskQueueProofs`: `TypeCorrect`, `LocksMatch`, `OneLiveRowPerKey`,
`NoSharedClaim`, `NoEarlyDeadLetter`, `OwnershipKept`, `EffectsCommitOnce`,
`PoisonLimited` and `QueueIsLedger` (initial states and steps of the queue map to those
of the ledger, for any number of strays: the first one releases the ledger from its
promise). The inductive invariant is `Safety`: the type invariant, `ThreadsOK` (a thread
holds a row exactly while it works) and the properties themselves. `EffectOnce` is
not inductive alone: that a handler's commit is the first one needs `OwnsRow` (its
row is still running, as it left it), which in turn needs `ClaimsDistinct`.
`DedupUnique` needs the guard `RetryRefused`, the one place where the unique index
stops `fail()`. `PoisonLimited` needs `AttemptLeft`: a row that can be claimed again has
an attempt left, of `max_attempts` or of one that a fault took. One crash may take
several consumers, but each of their rows was claimed with an attempt left, so that
one fault pays for all of them and nothing has to be counted per row.

`MatchingProofs`: `TablesTyped`, `WithheldHaveReasons`, `ShortlistWasEligible`,
`ScoresHaveTheirEvidence`. The tables alone do not say enough of a run under way:
its finalists were eligible when it scanned (`FinalistsEligible`), the requirements it
has seen are stored or its own to store (`SeenGrounded`), and they cover what the
pair's last score was computed from (`BasisSeen`), which stays stored (`BasisStored`).

Its second half is about the arithmetic of `Scoring`: `WeightsStayBounded`,
`StatingMoreNeverHurts` and, as theorems of their own, what the second rests on
(`FitScoresMonotone`, `PreferredIsPlacedFirst`, `MoreStatedPasses`). The invariant
`SheetOk` only says that a sheet is one that the lemmas are about, and they are about far
more than the sheets: any list of needs, any weights, profile and posting, any set
of retrievers with rankings of up to 900 places (where one place more still costs at
least a unit of 1/(60 + rank) as it is rounded), pools of up to ten thousand (where a
percentile still tells two neighbours apart). All sums go through one toolkit: a sum over
a finite set is what any enumeration of it adds up to (`SumTableExists`,
`SumTablesAgree`), so that it may be taken apart at any element (`SumRemove`) and
grows with its terms (`SumMonotone`, `SumSubset`). Rounded quotients are monotone
(`RoundedMonotone`) and a product of one factor with two ordered ones is ordered; a
weighted mean of parts in 0..1 is then in 0..1, and a missing part takes its weight along.
The weights are the hard case: `_project_to_simplex()` clamps and then shares out what is
missing or left over in proportion to the room. `SharedOut` says that the room is
enough, so that nobody is moved past a bound and the shares come to the surplus but for
their rounding, which is at most two ten-thousandths in all.

`ClusteringProofs`: `ClusteringType`, `ClustersHaveEvidence`, `PagesKeptWhole` and
`PlainPoolsPartitioned`, for pools of any size and any similarity relation. The
strengthening for the first two is `WorkOK`, what the loops have yet to compare; the
argument is that a union joins two classes each of which is connected, by a pair that
has evidence. For completeness of the pages, `PagesMerged`: a pair of a page is still to
be compared or together, since merges never part anybody; a page's first candidate,
which exists because the pool is finite, then joins the others. For the exact
partition, `PlainInv`: as long as every cluster lies in one city, the location table is
current (`TableCurrent`), which is what lets the guard of `text_merge_allowed` answer
for the whole cluster. Without the premise it is not, as section 5 reports.

`JobGroupsProofs`: `TypeCorrect`, `GroupsLinked`, `GroupsSettle` and `QuietRunsUnite`, for
any number of postings, jobs, consumers and runs. "Linked" is quantified over the sets
that no committed cluster takes apart; `Founded` says the same of a posting and the
cluster that its group was made of. What a run has written is founded once its own
clusters count (`MineFounded`), and the group it has read, but not yet attached to, is
still founded or was dropped (`FoundKnown`): a rebuild drops all groups and the
numbers of runs are never used again, so that a dropped group does not come back. For quiet runs,
`OldestFound` (what they write is no younger than what was there) and `SeedsCovered`
(each job among the seeds is one cluster, with all of its open postings).

`EngagementProofs`: `TypeCorrect`, `HistoryExplains`, `RecordsKept` and `DuplicateGuard`, for
any number of postings and requests. The guard needs `KnowsNear`: while groups stand
still, what a request saw at its start is in the group it read, and once it is past the
check without force it saw nothing; so an application recorded then has no neighbour
but those that came meanwhile, which are excused. `RecordsKept` needs that no request
moves an application to "applied" (`MovesOnlyApplied`). `HistoryExplains` needs to know
what the history said when an advancing request read the status: unless another request
commits in between, which it then overlaps, that is still so (`ReadsCurrent`); and a row
that nothing overlaps is newer than all that are there (`TellNewest`) and older than
all to come (`Begun`), so that no later request can change what precedes it.

`AccountProofs`: `TypeCorrect`, `NothingLeft`, `TextDestroyed` and `VersionsNumbered`, for any
number of users, requests and bounds. The part about `Schema` computes the cascade of a
DELETE on `users`: it takes the tables of `UserTables`, and only a label can refuse it.
`VersionsNumbered` needs that the upsert's lock makes an upload the only one of its
document, with the next number in hand (`Locked`), and that the numbers there are have
no gap (`Numbered`). `TextDestroyed` follows the uploads: without one under way at the
closing, none starts afterwards (`TextGone`). `NothingLeft` needs that rows, text and
weights of an account go together (`KeptInv`).

`DigestProofs`: `NothingTwiceWithoutExcuse`, `NothingAfterStop` and `TypeCorrect`. The
invariant follows a posting from hand to hand, whichever of its rows they hold: two runs
hold it only if they raced (`Overlap`), once mailed it is in the log, in an uncommitted run or lost (`Kept`),
and so a run that composes it again has an excuse already (`Fresh`). The cap on a
message is part of the types: the lowest of the items, which exists because the rows
are finitely many naturals, has fewer than `MaxItems` above it, and these are all the
others (`TopCapped`).

`UnitsProofs`, on six parts that share no state:

- `BodyKept`: of a posting, directly from what each write does.
- `AntiInvention`: what is shown passed the diff against the facts of its own request
  (`ShownClean`), which take in both attempts and the refusal; what the diff lets pass as
  disclaimed has a negation by an earlier place of the name (`DisclaimedFirst`).
- `NeverMergedSilently`: `DirectoryInv` carries over what a run knows (its directory, its
  cache, its own rows) why each entry may stand for a name (`RunsGrounded`), so that a
  filing is vouched for at the moment it commits and, rows and reviews only being added,
  ever after (`FiledVouched`). `DomainsOwned` counts the rows of transactions under way.
- `ClientPolite`: the turns of a host are apart because a thread waits under the host's
  lock for the latest of them (`WaitsHold`). The rate cannot be proved of the requests
  sent alone: `RateInv` counts with them those granted and not yet sent, and says that the
  pruned list of a budget still has every grant of the last window (`GrantsListed`), so
  that the check against `rpm` sees them all (`GrantsCapped`).
- `ChainAsksRightly`: what was asked and what is left make up the chain, and the last is
  skipped only after a failure (`PathKept`); the least used key that is free keeps the load
  even.
- `AdvertsReadAsWritten`, for adverts of any length, any cap and any taxonomy. `ReaderOk`
  explains the loop's state by the lines read: the section is that of the last heading,
  a list has begun if a bullet came since, every requirement before the last
  extracted line is there. The strength is the documents', but for `Disputed`. The needs (`NamedAsRead`) go through what folding and
  flattening a sequence do (`FoldTable`, `JoinedInOrder`, `Flattened`), for any number of
  requirements: those operators are choices of a table, and the table is shown to exist
  by counting its rows up (`CountedUp`).

What the other proofs rest on (`TypeOK` of each proved module, `OwnsRow` and
`EffectOnce`) is proved and in no run.

Only model-checked:

- Liveness and fairness, which are beyond the prover: `EventuallySettled`,
  `KeepsRunning`, `KeepsBeingChecked`, `GoneSettles`, `DetailsArrive`,
  `EveryDueChecked`, `ChainsEnd`, `DigestComes` and `PurgeComes`. `Discovery` and
  `VerifyChain` have no other properties in the runs and no proofs.
- `MigrationsAgree`: `Migrations` has no constants and bounds nothing but the revisions
  that exist, so the run visits every state there is and a proof would say no more.

## 7. Not modelled

- Text processing: CV parsing and parseability, normalisation of job fields, URLs,
  redaction. `Extraction` and `Drafting` start where the patterns have found something.
- Fits and embeddings: floating-point numerics behind one call. `Scoring` takes their
  results as inputs.
- The wire formats of sources and of providers; `Posting` and `Inference` model what
  they deliver.
- Authentication (credentials and tokens), the offline evaluation harness, the
  taxonomy loader, the wiring of the API and the command line, the frontend: no
  steps of several actors, or a subject of their own.
- Run health: a classification that only listings read.
- Parts of modelled components: the export and the audit log of accounts, the
  reading of the boards' YAML, the embedding chain (the same shape as `VerifyChain`),
  job events as the digest or the dashboards read them.

`PROJECT.json` lists each with its reason.
