# A verification of X-BRAY

X-BRAY is a dashboard of Brazilian macroeconomic data. A FastAPI backend
acquires series from its publishers (BCB SGS, Focus, IBGE SIDRA, B3, ANBIMA,
Tesouro), keeps them in SQLite or Postgres, computes derived indicators and a
macro score, and serves them to a React frontend. Many of its lines parse,
compute and draw. Its hard part is how independent actors (a GitHub workflow
and the stateless servers it posts to, an operator, concurrent fetches of one
process) work on the same tables and publishers: a daily refresh that is done
once, over short requests to servers that may stop at any moment, and never
overwrites newer data with older; a circuit breaker through which every
operation on a publisher must pass; batches that are stored whole with their
receipts; and calculations at a cutoff, over a ledger that goes on being written.

Paths below are relative to `src/backend/`; those under `docs/`, and the
repository's own `README.md`, to `src/`.
`PROJECT.json` maps every definition to its lines.

## Inventory

| Component | State it keeps | Operations | Correct when |
|---|---|---|---|
| Refresh runs: `refresh_run_execution.py`, `db/refresh_run_*.py`, `routes/refresh_runs.py` | `refresh_runs`, `refresh_work_items`, `refresh_leases`, two cutoffs, the result | start or resume, advance (claim, execute, settle or defer), finalize | one writer at a time over all runs; an attempt limit; terminal runs do not move; the result says what happened |
| Attempt fence: `db/refresh_attempt.py`, `db/store.py:354-586` | the context of one claim; `refresh_attempts`, receipts | mark an acquisition, assert the claim is current, finish, reconcile | a late request writes nothing; a committed unit is recognised by its receipt |
| Task execution: `refresh_run_tasks.py`, `refresh.py:311-391` | none of its own | run the task of an item, persist the cutoff of a phase | both phases of a run share one cutoff, retries included |
| Legacy refresh: `refresh.py:400-469` | the same lease row | acquire, heartbeat, run every task, release | never cuts short a claim of a run |
| Due-work projection: `routes/refresh_runs.py:158-289` | none | which items are due | says what a claim would take |
| Refresh client: `refresh_run_client.py` | the last snapshot; waits spent | start, post item, wait, finalize | ends; what it reports is final |
| Source breaker: `source_ingestion.py`, `db/store.py:2416-2564` | `source_access_state` | admit or probe, record failure or success, release | one probe at a time; a late success hides no later failure; a publisher's Retry-After is kept |
| Retry budget, HTTP: `ingestion_policy.py`, `provider_http.py` | counters and a deadline of one operation, the host slots | reserve a request, wait for a slot, follow a redirect, retry | never more requests than planned; every slot comes back |
| Fetchers: `datafetchers/` | rows and freshness marks of each source | fetch a window, a day, a dataset, a file | "ok" means whole; a mark means the rows are there; every fetch ends |
| SGS plan: `db/sgs_refresh_plan.py` | frozen units, coverage, cursor | plan, commit, cover, promote | every archive window is covered in turn; covered means committed |
| Treasury cohort: `db/treasury_store.py`, `db/store.py:1583-1930` | one snapshot, its receipt and mark | look up, download, replace | the table is one CSV, whole |
| Candidates, canaries: `candidate_*.py`, `canary_*.py` | attempts, a breaker of their own, receipts, bindings, origins | fall back, compare, persist, bind | all of a batch or nothing; attempts tell the truth; the candidate revises nothing |
| Observation store: `db/store.py:589-930` | current rows, vintages | persist a batch | every current value has its vintage |
| Production import: `macro_score/production_import.py`, `supabase_cli_import.py` | batches, journal, staging | import, stage, promote, discard, roll back | a bundle is imported once and whole; live rows stay |
| Derived indicators, macro score: `derived/`, `macro_score/` | snapshots with their inputs | compute at a cutoff, retry | a retry repeats itself; what came later does not enter |
| Retrospective DI: `macro_score/retrospective_di.py`, `scripts/collect_retrospective_di.py` | archive cache, manifest, ledger | plan, request, cache, import | requests are spaced; the ledger holds what was served |
| Admin, reports, health, audit, shadow ingestion, migrations, scripts, routes that read, frontend | tokens; stored rows | read and render | by data: tests are the right tool, and they exist |

How they interact. The workflow's client starts a run over HTTP and posts one
item at a time. Each POST opens several short transactions: renew the lease,
claim an item, persist a cutoff, mark the acquisition, commit the task's data,
settle or defer the item, finalize the run. Between any two of them the
process may stop, its clock passes, and other requests (a client that retried, a
second workflow, an operator's `POST /api/refresh`) do the same. They share the
database only. The task of an item is a fetch, which goes through the breaker of
its publisher and stores rows with a receipt, or a calculation over what is
stored. The breaker is shared by every operation that talks to one publisher;
the claim reads it to leave out items whose publisher is cooling. Operators'
imports and canaries write the ledgers that the calculations read.

What is hard is therefore interleaving, expiry (deadlines compared with a time
captured when a request began, or with that of the statement), retries after a
crash or a lost reply, and results computed from rows read one transaction
earlier. `PROJECT.json` lists these hazards at their lines, each with the
properties that would catch it.

## Modules

| Modules | What they are |
|---|---|
| `DailyRefresh` | abstract: what the daily refresh promises to a reader of its tables |
| `RefreshRun`, `RefreshRunProperties`, `RefreshRunRefinement`, `MCRefreshRun` | the protocol of runs, its promises, the refinement of `DailyRefresh` |
| `RefreshSnapshot` | what a status document offers and what the client picks, against the claim |
| `RefreshClient`, `RefreshClientProperties`, `MCRefreshClient` | the client composed with `RefreshRun` |
| `SourceAccess`, `SourceAccessProperties`, `MCSourceAccess` | a publisher's breaker and the operations that share it |
| `SgsArchive`, `MCSgsArchive` | the archive half of the SGS plan |
| `TreasuryCohort`, `MCTreasuryCohort` | the replacement of the Treasury table |
| `ObservationLedger`, `CandidateEligibility`, `CandidateSelection`, `CanaryLedger`, `MCCanaryLedger` | what a batch leaves; which candidate may be asked; the refresh with its fallback; the canaries beside it |
| `ProductionImport`, `MCProductionImport` | direct and staged imports of audited history |
| `ProviderFetch`, `Fetchers`, `MCProviderFetch` | threads, slots and storage of a fetch; the seven ways in which the code fetches |
| `Vintages`, `RetrospectiveCurve`, `DerivedIndicators`, `MacroScore`, `PointInTime`, `PointInTimeProperties`, `MCPointInTime` | the calculations as functions of what is known at a cutoff, and the cycles that compute them |
| `DiCollector`, `MCDiCollector` | the resumable collector of DI bulletins |
| `RefreshRunProofs`, `SourceAccessProofs`, `SgsArchiveProofs`, `CanaryLedgerProofs`, `ProductionImportProofs`, `ProviderFetchProofs`, `DiCollectorProofs`, `ObservationProofs` (Treasury cohort and calculations) | the theorems |

### RefreshRun, DailyRefresh

State. `lease` is the row of `refresh_leases`; `run`, `cutoff` and `result` the
columns of `refresh_runs`; `item[r][i]` the row of item `i` (status, claim token
and expiry, attempt and acquisition counts, next attempt, deferral, category);
`written[r][i]` the claim whose task wrote the item's data last. `clock` is the
database's and every server's clock; `cool[s]` is when publisher scope `s` is
eligible again; `legacy[d]` is a legacy refresh. A request is `pc[w]` and its
locals `job[w]`.

Actions. A request is a chain of transactions, each one action:
`BeginStart/BeginAdvance/BeginFinalize` (the route), `StartRun`, `ResumeRun`,
`ClaimGranted/ClaimDeferred/ClaimDenied` (the sweep of expired claims is part of
each), `PersistCutoff`, `MarkAcquisition`, `CommitData`, `TaskReturns`,
`TaskPostponed`, `DeferClaim`, `CompleteClaim`, `ReadBack`, `RenewRun`,
`FinalizeRun`, `Return` (an early return or a raised error) and `Crash`.
`LegacyAcquire`, `LegacyHeartbeat`, `LegacyRelease` and `LegacyCrash` compete for
the lease; `Tick`, `PublisherCools` and `PublisherRecovers` are the environment.

What is abstracted, and why it is sound here:

- A transaction is atomic: Postgres locks the run row, SQLite holds the process
  lock. What lies between two transactions is not.
- A claim token is the attempt number that drew it. The code draws a UUID: equal
  tokens mean equal claims in both.
- `job[w].now` is the time a request captured when it began; later transactions
  of the request use it as the code does, however stale. The fence of a task
  compares with the clock of its own statement, and so does the model.
- A source may commit without an acquisition mark (its data was cached), and a
  transient category needs a request to have been made.
- Only manifest v6 is modelled, and a manifest that agrees with the run's.
  Stages and diagnostics of the attempt rows are left out.
- A local the code does not read again is reset, so that TLC tells no two states
  apart that the code does not.
- `cool[s]` stands for what `provider_eligibility` reads of a publisher's row: it
  may rise at a failure, fall at a success, or stay 0. The last also covers
  Postgres, where the read sees no time at all, and an item of a cooling
  publisher is claimed and then deferred (`TaskPostponed`).

`DailyRefresh` has no clock, lease, claim or request: runs take over or end,
items are settled once, data moves forward, cutoffs are decided once, and a
result that calls an item ok or skipped is true of it. `RefreshRunRefinement`
maps the rows of `RefreshRun` to it (an item is open until its claim is
completed).

`RefreshSnapshot` writes the three places that decide what is due as operators:
the projection of the status document, the client's own selection, and the
claim. `OneRule` compares them on every reachable state.

### RefreshClient

`client` is the client's loop: its phase, its last snapshot, the worker that
serves its request, the tries of a start, operations and waits spent. It posts
a start (twice at most), posts the item it picks, waits for a due time or for a
claim, hears an answer or gives up on it, reads the status, finalizes,
concludes. A request of the client is a request of `RefreshRun` on a worker, and
goes on when nobody waits for it any more; the HTTP transport is its answer or no
answer. Publishers that cool for other reasons, and the legacy refresh, are left
to the runs of `RefreshRun`.

### SourceAccess

State. `access` is the row of `source_access_state` for one scope (state, failure
count, `opened_until`, `retry_not_before`, `probe_lease_until`,
`admission_generation`); generation -1 is a row that does not exist yet, time 0
is NULL. `contract` is what the publisher's fetcher is like (receipts, windows,
parts, attempts), one of `Contracts`, and never changes. `op[w]` is the
`RetryBudget` of operation `w` with the locals of its attempt loop; `pc[w]` is
where it is: `idle`, `ready` (may send), `sent`, `validated`, `finishing`
(success recorded, extraction row not), `failed`, `ended`. Two history variables
record what the properties speak of: the probes since the circuit closed, and
the operations somebody overtook.

Actions. `Begin` (`_run`, `source_retry_scope`); `Admit` and `Refuse` (the gate
in the first `reserve_request`, `claim_source_access_probe`); `Send`, `Exhaust`
(later requests, the caps and the deadline); the answers `Validate`,
`NextWindow`, `EndIncomplete`, `Reject`, `Disturb` (timeout, reset, 5xx, with or
without Retry-After), `Limit` (429); `RecordSuccess`, `DropSuccess`, `Finish`,
`FinishFails` (a failed extraction row acknowledges the receipt again),
`RecordFailure`, `RecordNothing`; `NextPart` (the next indicator under the same
budget); `Leave` (return, or the process dies, from any step); `Tick`.

What is abstracted:

- A statement is atomic, and the time it is given, read on the line before, is
  that of the step. The time of a success with a receipt is that of the payload
  and may be old; that of a failure or an admission is not.
- The parts are the indicators of `fetch_all_focus` or `refresh_sidra_data`, which
  share a budget; the windows are those of SGS, which asks the others when one
  has failed, and the days of B3. B3 asks its days in parallel threads; here the
  requests of one operation are one after the other (`ProviderFetch` has the
  threads).
- Unit caps, redirects and host limiters only make an operation send less.
- The candidate's fallback has a breaker row of its own: `CandidateSelection`.

### SgsArchive

A run freezes at most `Cap` archive units, one per series: carried over from
earlier runs, unverified, due for verification again, or next in the rotation.
`plan`, `coverage` and `cursor` are the tables of all runs; `commits`, `item`,
`stage` and `outcome` those of today's. A unit's observations and its commit
receipt are one transaction (`Commit`); coverage receipt, unit status and cursor
another (`Cover`); a request may die before, between and after, a second attempt
reconciles what the first left (`Promote` and its error path included). A day is
as long as its run. Recent units cover nothing and are left out.

### TreasuryCohort

The transactions are PostgreSQL's at READ COMMITTED, statement by statement: a
statement sees what was committed when it began, waits for rows an open
transaction deleted or inserted, then sees what became of them. Two kinds of
refresh race: attempts of the run's Treasury item, which are fenced, look up the
intent and replay its receipt, and legacy refreshes, which are not. A commit's
reply may be lost. SQLite's `BEGIN IMMEDIATE` is the case where one transaction
runs at a time.

### ObservationLedger, CandidateSelection, CanaryLedger

`ObservationLedger` is what `_persist_current_and_vintages` leaves of a series:
current rows, vintages, and per extraction a receipt with the origins of its
rows. A Banco Central series overwrites rows, an IBGE one appends and serves
the value captured last. A value is the number of its publication, and the
publisher revises upwards (a revision back to an earlier value is excluded).

`CandidateSelection` is the refresh of a window: primary, then, after a failure
that says nothing of the data, the candidate under its own breaker, the
comparison with stored rows, the commit and its attempts, with lost replies and
deaths. `CandidateEligibility` decides which deployments may do so, gate by
gate. The registry of approvals in production is empty at this commit, so this
path runs once one is added; the repository's tests inject one.

`CanaryLedger` composes them with `POST /api/source-candidates/canary`, which
compares a window of both routes and commits the candidate's batch under a
caller-chosen operation id.

Left out: the attempt fence inside the transaction and the SGS freshness mark
(`RefreshRun`, `ProviderFetch`), the dry run, the budget the candidate shares with
its primary. A failed window without a receipt is taken again under the same model
id; the code draws a new extraction id. The wait that a denied request sets
(5 minutes) outlasts any lease.

### ProductionImport

A batch is a bundle with the vintages it reuses (its resolved manifest). `op[p]`
is an operator's command: a direct import (one transaction), or the CLI's calls,
each a transaction: read the baseline, register, stage a chunk, mark ready,
promote. `Rollback`, `Discard` and `RefreshInserts` go on beside them. A chunk is
one row here. Checks of hashes and types, and backups, are left out.

### ProviderFetch, Fetchers

A fetch works through its units with one or two threads. A thread takes a slot
of its host, has the request counted by the fetch's budget, gives the slot back,
then looks at the answer: redirects wait for the next host's slot, some answers
are asked again, others end the unit. Rows are stored by unit, by sheet, or at
the end, and a freshness mark is set after them. `Elapse` is the deadline,
`CancelGranted` the cancellation of an asynchronous wait whose helper thread gets
the slot all the same, `Crash` the end of the process. `Fetchers` gives the ways
in which the code fetches: SGS by series and by window, B3 by days, SIDRA, Focus
by indicator and rolling, ANBIMA by workbook, Tesouro by file.

### PointInTime

`Vintages` is the ledger and what may be read at a cutoff; `RetrospectiveCurve`
the reference history rebuilt from prices, identities and instruments;
`DerivedIndicators` the six indicators with the vintages each read;
`MacroScore` components, ranks, dimensions, score. `PointInTime` runs cycles over
them. A source's write is stamped when its rows are built and becomes visible
when it commits (`Fetch`, then `CommitVintage` or `Lose`): no regular fetcher passes the
publisher's own time, and nothing makes a calculation wait for unfenced writers.
So a vintage may appear after a cutoff that its stamp precedes. `TakeCutoff`,
`Derive` (which may fail by itself) and `Score` belong to cycles, those of a run
and those of the legacy refresh; `ImportPrice`, `ImportIdentity` and
`ImportInstrument` are an operator's. An identity carries the time it was captured,
which the loaders do not read.

### DiCollector

An execution plans month-end candidates, skips what ledger or cache holds, asks
for the rest with a pause between requests, records each answer in the manifest
and imports the archives it trusts. It may be killed at any step; the cache may
lose, or be given other, files (`Discard`, `Alter`); what the next execution
knows is the manifest's last row of a day and the file. Ages of files and rows
are ticks up to the interval. `--start`, `--months` and local input files are
left out.

## Runs

| Run | Properties | Asks |
|---|---|---|
| `OneSource` | `FencingInv`, `NoStaleWrite`, `LiveClaimStands` | two requests on one source and a legacy refresh after its lease: expiry, cooldown, crashes, fenced writes, the acquisition limit |
| `TwoRuns` | `SingleWriter`, `ImplementsDaily` | two runs and one lease: takeover of a run whose requests are still in their tasks |
| `OneRequest` | `EndsSettled`, `ResultMatchesItems`, `OneRule` | a source and the two phases after it: ends, results, and what is due |
| `Client` | `ResultStands`, `ClientEnds` | the client over lost and late answers, conflicts, crashes, waits |
| `Breaker` | `OneProbe`, `LateSuccessIgnored` | two operations on one publisher, under either contract |
| `SgsRotation` | `PlanReads`, `CoverageProven`, `CommittedOnce`, `AllCovered` | six runs over three series, one of which always fails |
| `Treasury` | `CohortWhole`, `OutcomesTrue` | two attempts and two legacy refreshes, interleaved by statement |
| `Canary` | `AllOrNothing`, `ValuesHaveVintages`, `AttemptsTrue`, `OneCandidateProbe`, `CandidateKeeps` | a canary beside two windows that fall back to its candidate |
| `Import` | `OneOwner`, `ImportedOnce`, `LiveKept`, `CommitsWhole` | two operators, two overlapping bundles, both ways of importing |
| `Cutoffs` | `RetryRepeats`, `ScoreRepeats`, `NoResurrection`, `SameRevision`, `NeverRepriced` | two cycles over a ledger being written |
| `Fetchers` | `SlotsComeBack`, `PlannedServed`, `OkIsWhole`, `FetchesEnd` | each fetch against every kind of answer it tells apart |
| `DiCollector` | `LedgerProven`, `SpacingKept`, `NoRepeat`, `MonthServed` | three executions, killed, refused, deferred, disturbed |

All pass. Each property has a mutant in `PROJECT.json`, a plausible bug in a
definition that maps code, under which TLC finds it violated.

### Bounds

- `OneSource`, `TwoRuns`, `OneRequest`: one or two runs; two requests, one in
  `OneRequest`; one item, or three (a source and both phases) in `OneRequest`; two
  attempts, a lease of 2, claim and cooldown of 1, a clock to 3 (2 in
  `OneRequest`). Two attempts make first claim, reclaim and exhaustion happen; a
  lease of 2 against a claim of 1 keeps the code's order and lets each expire in
  either order with a request's captured time. Two requests are the least that
  race. `TwoRuns` has no publisher and no legacy refresh, `OneSource` one of each.
  `ResultMatchesItems` is checked with one request at a time: with two it fails
  (see below).
- `Client`: one run, two workers (a request the client gave up on goes on), one
  item, two attempts, lease and claim of 1, cooldown 2, clock to 3, two operations,
  one wait's budget.
- `Breaker`: two operations, the least of which one overtakes the other; a
  threshold of 2 with two requests each, so that one or both reach it; deadline
  and least wait of 2, lease margin 1, in the code's order (at most 240 s, 300 s,
  15 s); a clock to 3, over which a circuit opens and falls due; 4 generations, so
  that a closed circuit which still holds advice admits once more. The contracts
  are SGS's (receipts, windows, attempts) and Focus' (two parts, no receipts).
- `SgsRotation`: three series, two windows, six days, `Cap` 2, verification again
  after 2 days, four carried over at most, two attempts, and one intent of an older
  policy before the documented start of its series. A cap below the number of
  series makes the rotation matter; six days let every window have its turn.
- `Treasury`: two attempts, two legacy refreshes, three versions of the CSV, of
  which one revises another and one adds a date.
- `Canary`: one canary worker and operation id, two windows, two dates, two
  publications, one reference row where the code wants ten, both kinds of series,
  an eligible deployment and one whose decoders changed.
- `Import`: two operators, two rows, two bundles that share one of them.
- `Cutoffs`: months of two days, years of two months, eight components, two cycles;
  a behaviour is fed one of four sets of events (revisions; months that pass; a
  reference history; identities), each of which brings one family of cases about.
- `Fetchers`: one slot per host (code: 2), one redirect (5), two attempts (3), one
  or two rounds, one to three units; each fetcher alone, and two together, with
  the answers it tells apart.
- `DiCollector`: three business days in two months, the bulletin of the third
  repeats the second's (a holiday), one fallback day (code: 3), two attempts (3),
  an interval of 2 ticks (30 s), three executions, two disturbances of the cache.

Deadlock is checked in `OneSource`, `TwoRuns`, `OneRequest`, `Breaker`, `Import`
and `DiCollector`. It is not in `Client` (it ends), `SgsRotation` (after the last
day), `Canary` and `Treasury` (every window, attempt and refresh settled),
`Cutoffs` (events used up), `Fetchers` (rounds used up): there the system really
stops.

### Fairness

`Client` assumes weak fairness of the client's own step, of time, and of each
server thread: the client is a loop that runs until it ends, and a thread
returns, raises or dies. Nothing is assumed of publishers or answers: a thread
that crashes is fair. `Fetchers` assumes weak fairness of `Progress`: every wait
has a timeout and every thread is run, in no particular order. No other module
states fairness, and no liveness is claimed of them: a server makes no step of its
own accord.

## What the code does not do as it says

Each of these was refuted by TLC on a property that a sentence of the repository
suggested, or was read off an action while translating it. They have no run of
their own; the properties above are stated with the exceptions they force.

Runs and client.

- A derived phase overtakes a deferred source: the claim stops derived work only
  while the deferred item's time is ahead; when it has elapsed and the publisher
  is cooling again, the item is ineligible and blocks nothing
  (`db/refresh_run_items.py:249`).
- An exhausted item holds others back: the claim skips it, yet counts it as an
  earlier eligible item (`db/refresh_run_items.py:226`). `OneRule` names the
  exception. With an item deferred at its last acquisition, the client skips what
  the server still holds, and posts denied operations up to its limit.
- A deferred task is missing from the result when another request deferred it
  between the read of the items and the finalizing transaction
  (`refresh_run_execution.py:285`).
- `CanFinalize` lets a run end `partial` on deferred work that is due at that
  moment, where `docs/refresh-recovery-design.md` speaks of a due time outside the
  budget.
- The assignment `snapshot = current` (`refresh_run_client.py:362`) follows a `raise` and is never reached, so an item settled meanwhile is posted
  again, against the name of the test at `tests/test_refresh_run_client.py:327`.
- A reconciled result (`refresh_run_tasks.py:355-358`) carries no error code;
  `_completion` raises, and the item keeps its claim until a sweep fails it.
  `SgsArchive.Promote` has this path.

Breaker.

- A late failure lets requests out before Retry-After: a transient failure below
  the threshold writes `closed` and looks at no generation (`db/store.py:2491`),
  and the admission of a closed circuit does not look at the advice in the row.
  For the same reason a failed probe closes a circuit that a 429 opened.
- A probe retries: the attempt limit is read before the gate decides that the
  operation is a probe (`provider_http.py:412`).
- On Postgres the scheduler never sees a cooldown: `_timestamp` accepts text, and
  the columns arrive as `datetime` (`refresh_run_scheduler.py:43`).
- The failures a row counts need not be consecutive: under a shared budget the
  failure of one indicator raises the generation, and the successes of the next
  are ignored as stale.

SGS plan.

- Carryover can stick: `pending_archive_units` (`db/sgs_refresh_plan.py:1212-1241`)
  takes over units of any earlier run left `reserved` without looking at other
  runs' receipts. A verified window is then downloaded again each day and newer
  ones wait, against "unverified scopes ahead of verified-due scopes and series
  rotation" (`docs/sgs-incremental-coverage.md:29`). `AllCovered` holds with the
  failing series' own windows excepted. The limit of 64 rows by start date can be
  filled by intents from before a series begins.

Candidates and canaries.

- A canary checks for vintages and then writes (`canary_executor.py:344`, `:359`):
  a commit in between is overwritten. `ValuesHaveVintages` holds nevertheless.
- A denied candidate request releases a probe lease that another worker holds
  (`candidate_acquisition.py:626-632`, no owner or generation in
  `db/store.py:2557`). `OneCandidateProbe` holds because the denied request sets a
  wait longer than any lease.
- An operation id cannot be retried after a failed first attempt (the primary key
  of `source_extractions`); "canary_committed_reporting_failed"
  (`routes/source_candidates.py:293`) is reached only when no binding matches; on
  Postgres, after a lost connection, the binding is read over the broken one.
- A revision conflict raised inside the persisting transaction is recorded as
  `persistence_error`, and a primary's "success" means acquired, not committed.

Treasury and imports.

- The in-process caches of `tesouro_direto.py:262-285` never expire.
- A rollback removes rows that another committed bundle contains but did not
  journal (`production_import.py:1053`, against the docstring at `:1017`); a
  bundle once rolled back is never imported again; a staged batch registered after
  a direct commit of its bundle can be neither discarded nor promoted.
- An operator whose staged prefix was discarded goes on staging into a newly
  registered batch of the same id. Only the promotion's row conflict keeps the
  mixed batch out.

Calculations.

- A vintage committed late, its stamp before the cutoff, makes a retry at that
  cutoff insert a second snapshot with the same `as_of`, against the
  repository's `README.md:97`. `RetryRepeats`, `ScoreRepeats` and `SameRevision` except it.
- An identity of a price reaches back in time: its table has a `captured_at`
  (`macro_score/retrospective_di.py:742-777`), and both loaders leave it unread
  (`macro_score/sources.py:86-116`, `:186-206`), so an identity backfilled after a
  cutoff changes what the cutoff knows of the curve. The attempt to prove
  `RetryRepeats` met it; TLC confirmed it; `RetryRepeats` and `ScoreRepeats` except it.
- If the external coverage fails in a cycle, the score mixes the new current
  account with an older snapshot's (`SameRevision` excepts it).
- A revision back to an earlier value is not stored. `inputs_hash` leaves out
  reason and value. The latest score is ordered by month and calculation time, so
  a slow legacy refresh can serve an older `as_of`. Two rule revisions first seen
  together are "ambiguous". `_gate_additional_overlay_values` reads the instrument
  register as of now. `primary_balance_change` takes the first of equal
  `available_at`, coverage and spread the last. The repository's `README.md:109`
  says version 0.2.0-beta, the code 0.3.0-beta.

Fetchers.

- An asynchronous wait that its deadline cancels while the helper thread gets the
  semaphore loses the slot (`provider_http.py:427`; `lost` counts them).
- Tesouro's cap of two requests leaves no retry after a redirected first attempt.
- After a publisher's 429, B3's second worker, SGS' next window and Focus' next
  indicator go on asking.
- A B3 body that does not parse counts as an empty day, and a day whose records
  all lack a rate counts as downloaded. An ANBIMA crash leaves a mixed workbook
  that an older, still fresh mark calls fresh. `fetch_sgs_last_n` marks a series
  fresh with only those rows. `force_refresh_focus` clears only the legacy key.

DI collector.

- The spacing that `docs/b3-di-feasibility.md:56` claims is not kept across a 429
  (which aborts without a row) or a kill before the row; `SpacingKept` excepts
  both by name.
- A day asked before its publication is known as missing from then on. An altered
  archive counts as "reused" and is never imported; one that does not match its
  hash is never downloaded again; a revised bulletin downloaded by an execution
  that was killed before its row is rejected for ever. A fallback that is already
  local keeps the later month-end candidate from being requested.
- `NoRepeat` is not true of every calendar: a holiday whose bulletin is of a day
  outside the month's candidates leaves a trusted file that answers for none of
  them, and another candidate is asked. `NothingAskedAgain` proves it of every
  other one: its hypothesis, `HolidaysInside`, is that a month with more than one
  day has no such holiday.

## Proofs

The theorems hold for every value of the constants that the named assumptions
allow: any number of runs, requests, items, operations, windows, operators,
days. The assumptions with content are the code's own orders: a claim is no
longer than a lease; a breaker's deadline is no longer than the least wait of an
open circuit; any two Treasury files share a row (each is a full history); months
of the DI calendar do not go back; the archive scope of SGS only grows; no loop of
a fetch asks for a unit more often than the unit's cap. A calculation's events are
of the six indicators, days, dimensions and orders are integers, and a ledger is
finite; it starts with one revision of an observation and none of a period to come;
an SGS series has no dimension. The methodology has one component of a key, the
current account's level and its coverage among them
(`src/backend/macro_score/methodology.py:171`). One theorem has a hypothesis of its
own: `NothingAskedAgain`, of the calendar.

| Module | Theorems (property of a run) |
|---|---|
| `RefreshRunProofs` | `TypeCorrect`, `FencingHolds` (`FencingInv`), `OneWriter` (`SingleWriter`), `LeaseOutlivesClaims`, `AcquisitionLimit`, `WritesInOrder` (`NoStaleWrite`), `LiveClaimsStandStill` (`LiveClaimStands`), `RefreshRunImplementsDaily` (`ImplementsDaily`), `RunningRunOwnsLease`, `PhasesShareCutoff`, `RunsEndSettled` (`EndsSettled`), `ResultsTell` (`ResultMatchesItems`), `OneRuleForAll` (`OneRule`), `ReportsStand` (`ResultStands`) |
| `SourceAccessProofs` | `BreakerTyped`, `ProbesAlone` (`OneProbe`), `ThresholdTrips`, `OvertakenFenced` (`LateSuccessIgnored`), `AdviceOutlivesSuccess`, `PeekIsAdmission` |
| `SgsArchiveProofs` | `ArchiveHolds`, `EveryPlanReads` (`PlanReads`), `CoverageIsProven` (`CoverageProven`), `UnitsCommitOnce` (`CommittedOnce`) |
| `CanaryLedgerProofs` | `LedgerHolds`, `CanaryWhole` (`AllOrNothing`), `ValuesAttested` (`ValuesHaveVintages`), `AttemptsTell` (`AttemptsTrue`), `OneProbeOfCandidate` (`OneCandidateProbe`), `CandidateNeverRevises` (`CandidateKeeps`) |
| `ProductionImportProofs` | `ImportHolds`, `RowsOwnedOnce` (`OneOwner`), `BundleImportedOnce` (`ImportedOnce`), `LiveRowsKept` (`LiveKept`), `BundlesCommitWhole` (`CommitsWhole`) |
| `ProviderFetchProofs` | `TypeCorrect`, `SlotsComeBackHolds` (`SlotsComeBack`), `PlannedServedHolds` (`PlannedServed`), `OkIsWholeHolds` (`OkIsWhole`) |
| `DiCollectorProofs` | `LedgerIsProven` (`LedgerProven`), `RequestsSpaced` (`SpacingKept`), `MonthsServed` (`MonthServed`), `NothingAskedAgain` (`NoRepeat`) |
| `ObservationProofs` | of the cohort: `CohortHolds`, `CohortAlwaysWhole` (`CohortWhole`), `OutcomesTell` (`OutcomesTrue`), `IntentCommitsOnce`; of the calculations: `StampsHold`, `RetriesRepeat` (`RetryRepeats`), `ScoresRepeat` (`ScoreRepeats`), `CurveNeverRepriced` (`NeverRepriced`), `NothingResurrected` (`NoResurrection`), `RevisionShared` (`SameRevision`), `NothingForeseen` |

Each rests on an inductive invariant, checked by TLC before it was proved, with
one lemma per action (or per group that writes the same rows).

**Fencing.** `SingleWriter` is not inductive. `FencingInv` follows a claim from
the lease that allows it to the fence that ends it: a request that holds a claim
holds a number the item has drawn, no two the same one, and while it is the
item's token the item is claimed and has an acquisition left (`ClaimsHeld`,
`ClaimsDistinct`); only a running run has claims, at most one of them live; the
lease of a running run outlives its live claims (`LeaseCoversClaims`), so whoever
takes an expired lease abandons a run without one; and the lease an advance
renewed, with the time it captured, still covers the claim it takes with the same
time later (`LeaseCoversNextClaim`), which is what makes a stale `now` harmless. A
new claim number is above all held ones. Two live claims of different runs would
need two owners of one row. `NoStaleWrite` follows because a fenced write is by
the current token, the highest there is; `LiveClaimStands` because the time of a
sweep or of a takeover is never later than the clock.

**Refinement.** `RefinementInv` adds to `FencingInv` what a step of `DailyRefresh`
needs: a running run owns the lease where no legacy refresh competes, both
phases have one cutoff, a cutoff that a request read stays, and the snapshot a
request is about to finalize with is still true of what it calls done. Every
action then maps to a takeover, a write, a settlement, a decision, an end, or a
stutter. `EndsSettled` follows from the view and the verdict of the finalizing
request.

**Results.** `ResultsTell` is proved under its hypothesis that all requests are
one worker's (one at a time) and is false without it, which is the third finding
above. `OneRuleForAll` needs the types and a lemma on least elements, nothing of
the history. `ReportsStand` is a theorem of the composed `ClientSpec`: `ClientInv`
says that whatever the client gave up on was about its own run, that a run which
ended holds no lease, and that an end the client was told of is the end there is.

**Breaker.** `BreakerInv` adds that an operation holding the row's generation was
the last to move it (`LatestNotOvertaken`), that while a probe is within its
deadline the row refuses everyone, by its lease or by the wait of a failure
recorded since (`ProbesCovered`: a failure erases the lease, so the lease alone
does not make `OneProbe` inductive), and that a probe's payload is younger than
the wait it ended (`ProbeAnswersLater`). `HalfOpenIsDue` is why the scheduler's
peek, which compares all three times in every state, agrees with an admission
that does not.

**SGS archive.** `ArchiveInv`: a working request has a claimed unit of its day's
plan and knows whether the unit was committed; nothing is planned or covered for
a day to come. `PlanReads` is arithmetic: the leading `n` elements of a finite set
under a total order are at most `n`, and the sort keys of the plan (compared
lexicographically) are total.

**Treasury.** `CohortInv`: an open transaction has deleted the whole table or
nothing of it; of two at most one has deleted and one inserted (the locks); the
live claim works only while its run has no receipt. Because any two files share
a key, a transaction that deleted nothing cannot insert beside a table that is
there.

**Canaries.** `LedgerInv` ties where a window is to what its attempts and its
receipt say (`WindowSound`), what a canary read to the vintages, which only grow
(`RequestSound`), and a probe to the row that guards it: half-open and its own, or
open with a wait (`ProbeGuarded`).

**Imports.** `ImportInv`: a direct import has the tables to itself but for the
refresh; a staged batch belongs to its baseline's snapshot, while its rows may
have been planned on another; reused vintages stay live; a batch once known stays
known. `CommitsWhole` needed the promotion's refusal of a conflicting row.

**DI collector.** `LedgerProven`: an altered file is told by the hash its row
declares, or was exposed while no row declared one, and no request is made for a
day that has a file. `SpacingKept`: the last request shows in the file it stored
or in the row of a day without one, unless it left no row; so the age the next
execution starts from is at most the real gap. `MonthServed`: the plan leaves out
only candidates whose month the ledger or a trusted file answers; a day that was
worked through has a file or a row that says missing; and the import passes over
no trusted file. `NoRepeat`: what a plan asks for was not held when it was made and
the ledger grows only after the requests (`PlanUnheld`); a trusted file of a
month's candidate satisfies the month, but for the one just stored
(`PlanUnserved`), a focus date being in hand only when its day's monthly candidate
is not left. `HolidaysInside` makes the first plan so: a readable file reports a
candidate, for which the whole month is reused.

**Fetchers.** A thread that is not idle works for a run that has not ended, at a
busy unit of its plan that no other thread has (`ThreadsAtWork`); that is why the
slots of ended fetches are back. The slots are a sum over a finite set of holders
(`Balance`), of which each step changes one. A unit has counted no more requests
than its attempt, and attempts are at most its cap; requests are pairs of a unit
and a number, so a spent budget holds a request that is no unit's own: a redirect.
`OkIsWhole`: what is saved is stored (`UnitsSound`), and only failures cancel.

**Calculations.** `RetryRepeats` and `ScoreRepeats` are of non-interference: a derived result is a
function of what `Known`, `KnownPrices`, `KnownInstruments` and, for the real rate,
`Usable` give at its cutoff (`SameResult`), a score of those, of the snapshots that
`IsForward` lets through and of the register (`SameScore`). The invariants say that
a calculation repeated now would give what was stored, unless one of the named
late rows came (`Stands`, `ScoreStands`); every step is shown to leave what a
cutoff knows alone or to be such a row (`Undisturbed`). The register is read as of
now: a later instrument proves no contract that the cutoff knew, since a contract
stands on an instrument the cutoff knew. That needs choices to be made among
finitely many rows (`LeastOf`, `RowsStand`). A cutoff belongs to one cycle, so two
scores of one cutoff are of one cycle (`CutoffsOwned`).

The others are of what a choice picks. `NeverRepriced`: a contract stands only if
all its quotes at the cutoff agree and its instruments have one maturity
(`NoConflict`, `OneMaturity`), so a curve after an import that still has the
contract has it as before. `NoneForeseen` is carried by `ForwardInv`: a snapshot's
inputs are rows its cutoff knew, and no two snapshots were created at one instant
(`SnapshotsApart`). `NoResurrection` follows from it: a snapshot of before a cutoff,
with a value or without, is among those the score reads (`ReadsEarlier`), the
score's history has the newest of a reference, and a snapshot that comes later was
created after the cutoff. `SameRevision` (`RevisionInv`): the level and the
coverage choose among the account's revisions alike, by the instant they were seen
(`RevisionsApart`); neither meets a period after its cutoff's day (`NoneAhead`); and
the coverage that a score reads of its own cycle was computed at the same cutoff,
so what came between the two is one of the named late writes.

### Only model-checked

- Liveness: `ClientEnds`, `FetchesEnd`. The provers do not reach fairness.
- `AllCovered`: it speaks of the last of a given number of days, enough for the
  instance's series, windows and cap, and is not true of every choice of them.

## Plan

1. `AllCovered`, under a bound on days that series, windows and cap determine.
2. The fence inside the observation transaction, composing `RefreshRun` with
   `ObservationLedger`.

## Not modelled

Decimal places, wording, parsers and validators of payloads, reports, the audit,
shadow ingestion, administrators' sessions, routes that only read, scripts,
migrations, workflows and the frontend: sequential code over data or I/O, which
the repository's tests exercise directly. `PROJECT.json` lists each with its
reason, and, for the components modelled in part, what is left out.
