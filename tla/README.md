# AEOMirror: TLA+ models of the backend

AEOMirror is a FastAPI backend over one PostgreSQL database with a React frontend. It scans pages,
watches sites, crawls them, scores them, asks language models about them and bills for it. Two
kinds of things are hard about it. In the background and between requests, the web workers, an
optional worker process and the instances of an overlapping deployment run the same loop over the
same rows, hold no lock across two statements and may die at any point. And what users read are
verdicts of many small rules (scores, statuses, groups, previews) that look at the same facts in
different places and must agree. The first kind is modelled by state machines, the second by
operators that TLC evaluates over every small input.

Paths below are relative to `src/backend/app/`; `PROJECT.json` maps each definition to its lines.

## Components

| component | state it keeps | hard because | modules |
|---|---|---|---|
| leader election (`monitoring/leader.py`) | row of `scheduler_leases`; per process local validity, keeper thread | wall and monotonic clocks, slow statements, lost answers, crash | `Lease`, `LeaderLease` |
| coordinator loop (`monitoring/worker.py`) | progress stamp, phase leases | deposed leaders finish what they are at | `LeaderLease`, `JobQueue`, `Phases`, `AnswerTracking` |
| job queue (`monitoring/scheduler.py`) | `scheduled_jobs`; per worker an ORM session and a heartbeat | races of workers, late outcomes, stale ORM state, retries | `JobTable`, `JobQueue` |
| job runner (`monitoring/runner.py`) | none of its own | crash between the commits of a body, chains of chunks | with each kind of job |
| URL crawl (`url_intelligence/orchestrator.py`, `discovery.py`) | `crawl_jobs` with a JSON cursor, `crawl_urls` | resumable chunks, cancel, budget | `Crawl` |
| findings and decisions (`recommendations.py`, `ai_analysis.py`) | `url_findings` per crawl | decisions carried from crawl to crawl, chunk done twice | `Findings` |
| page value runs (`page_value.py`, `page_intelligence.py`) | `page_value_runs`, scores, analyses | two chains of chunks, check-then-create, cancel | `PageValue` |
| page rules (`classification.py`, `issues.py`, `page_value.py`) | none | missing measures, normalisation, advice that contradicts itself | `PageAnalysis` |
| crawl and page overviews (`overview.py`, `prioritization.py`, `optimization.py`, `routes_url_intelligence.py`) | none | counts, cards, pages, comparisons and the next action told of the same rows | `SiteOverview` |
| fix re-checks (`optimization.py`, `verification.py`, `fix_impact.py`) | `url_actions` | two checkers and a person write one row; windows of days | `Fixes` |
| monitor scans, alerts (`monitoring/alerts.py`, `changes.py`, `snapshot*.py`) | history, snapshots, change sets, alerts | crash between commits, baselines, four readers of one difference | `Monitoring`, `Changes` |
| notifications, digests (`monitoring/notifications.py`, `services/digest.py`) | log of sent mails | check-then-send, lost phase leases | `Phases`, `Monitoring` |
| monitors, prompt sets (`routes_monitors.py`, `routes_answer_tracking.py`) | monitors, sets, prompts | limits of a plan, owner against administrator, Run now | `Watchlist`, `JobQueue` |
| billing (`billing/`) | payments, subscriptions, invoices, events | duplicated, reordered, failed webhooks | `Billing` |
| scanning (`routes_scan.py`, `scanner/bulk.py`, `core/fetch.py`) | scans, usage events, slots | quota check-then-record, deadlines that coincide | `Scanning`, `Fetching` |
| limiter and cache (`core/cache.py`) | Redis keys, per-process windows | outages, threads building the client | `Limits` |
| signals and site access (`scanner/`, `core/robots.py`, `crawler_access.py`) | none | one robots.txt, three readers; two scores of one page | `SiteAccess`, `SiteSignals` |
| crawl graph, overlap (`reports/crawl_graph.py`, `content_intelligence.py`) | none | graph search, clusters | `CrawlGraph`, `ContentOverlap` |
| reports (`reports/`) | stored reports, shares, usage | caps checked before a slow call, previews | `Reports`, `SiteReport` |
| answer tracking (`services/answer_tracking/`) | runs, answers, analyses, gaps | monthly limit, analysis done twice, schedule | `AnswerTracking` |
| answer reports (`aggregation.py`, `visibility.py`) | none | figures of one run in different places, three orders | `Visibility` |
| traffic reports, command center (`analytics/`, `integrations/ai_intelligence.py`, `command_center.py`) | GA4 event mappings | unknown against zero, windows, timezones, plan and link to a website | `CommandCenter` |
| answer simulator (`services/answer_simulator/`) | runs beside the paid ones | grounding, preview, shared limits | `Simulator`, `AnswerTracking` |
| Google integrations (`services/integrations/`) | connections, daily rows | switch or disconnect during a sync | `GoogleSync` |
| event collection (`services/analytics/`) | visits, pageviews, orders | beacons twice, batches half done, confirmations | `Ingest` |
| organizations (`routes_org.py`) | members, invitations | two invitations at once, roles | `Teams` |
| accounts (`routes_auth.py`, `routes_admin.py`) | user, sessions, mailed links | reset against login and refresh, old links | `Accounts` |
| administration, frontend, migrations | - | no protocol of their own | - |

Interactions: the coordinator *ticks* only while it leads; a tick recovers stalled jobs, enqueues due
ones, claims up to a batch and goes through the mail and analysis phases, each under a lease of its
own. Running a job calls the runner, which changes the crawl, scan, run or connection it is about and
may enqueue the next job of the chain. API requests enqueue jobs, cancel runs and, for Run now,
execute a job themselves. A completed crawl is a checker of every claimed fix, the ground of the next
scoring run and the baseline of the next crawl's findings. A scan is the ground of a report, of alerts
and of the simulator's index. All of them meet only in database rows.

## Modules

State machines first, in groups that say what composes with what; a name `MC...` is the instance TLC
checks, a name `...Proofs` holds theorems: `LeaderLeaseProofs`, `JobQueueProofs`, `RulesProofs`,
`CrawlProofs` and `BillingProofs` about the module of that name, `RulesProofs` about the rules of `MCRules`, `PageProofs`
about the machines of `MCPages`, `TrackingProofs` about those of `MCTracking` and `Phases`, `RequestProofs` about
those of `MCRequests`. Definitions commented `Wrong:` are plausible bugs
used to test the properties; no specification uses them.

### LeaderLease

`row` is the database row, `validUntil[p]` is `LeaderLease._valid_until`, `op[<<p, r>>]` is the
database operation that thread `r` of process `p` has in flight, `pc[p]` says where
`run_worker_loop` is and `mark[p]` is the one time stamp that matters there. An operation is three
steps: `Begin...` reads the clocks, `Exec...` is the conditional statement, `End...` sets local
validity. Between them time passes and all other threads run. `DbError` covers both a statement
that never ran and an answer that was lost. The `UPDATE` and the `INSERT` of `try_acquire` are two
steps. A crash forgets local validity, while the statement it had sent may still execute. A
restarted process has a new holder id, so it is another member of `Proc`.

`Timely` is what makes the lease safe: the longest database operation plus the clock skew fit into
one renew interval, and an operation is shorter than the pause of the loop and the keeper's join.
The code has no such bound: without the assumption TLC finds two leaders (`AtMostOneLeader`) as soon
as an operation may outlast a renew interval.

`Lease` is the abstract specification: at most one holder, and a moment without one in every
hand-over. `ElectsOne` says that the processes that believe they lead implement it; the run checks it
and `Refinement` proves it. `Phases` takes the lease of a mail phase, which is the same code, as this
specification promises it, and adds the loss of it as a fault.

### JobTable and JobQueue

Times are ages in heartbeat intervals: `age` since the last heartbeat, `backoff` until `run_after`.
The time stamp `started_at`, which is the token of a claim, is the number of the attempt: every
claim increments `attempts` and draws a new stamp. `exec[e]` is the executor with what its ORM
session holds. `view` is the token the session would use, or `Expired` when a commit or rollback
has expired the object, so that `Reload` reads the row. `beat[e]` is the `JobHeartbeat` thread.
Claiming is two steps (`SelectJob`, `ClaimJob` or `MissJob`), as is recording an outcome (`Reload`,
`Update`). Recovery keeps the list it read (`todo`) while other workers run. A body is a single
step in which other executors interleave; what it does to its parent record is the business of
`Crawl`. Whether it can be cancelled depends on its target: a body in `Sync` never awaits.

`Prompt` states what is in time: `"heartbeat"` (each thread runs once per interval, and a body that
can be cancelled is, within it) and `"queries"` (a claim, a recovery pass, end in the interval they
began in). It constrains only `Tick`, not who wins a race.

`ClaimJob` is fair in the sense of `FairSpec`: workers always take their next step, the loop comes
back to recover and to claim (`tick` runs every `scheduler_interval_seconds`), and time passes.
Nothing makes a heartbeat succeed or a body complete. Strong fairness of `Recover` and `SelectJob`
stands for the fixed order of `tick`: each pass recovers before it claims, so that neither can be
put off for ever by the other.

### Crawl

Every commit of a chunk is an action; the worker's memory `w` (phase it read, cursor, batch,
links still to record) is lost by a crash. The site is arbitrary: which sitemaps robots.txt names,
what a sitemap holds, which pages fail and what they link to are chosen by `\E` each time they are
fetched. Two abstractions: a sitemap index names only sitemaps with smaller numbers (a cyclic index
would be fetched for ever), and a template is any set of crawled pages.

A chunk job that ends either queues the next (`Continue`) or ends the crawl. Faults (`Crash`,
`Raise`, `TimeOut`, `RequestDies`) strike between any two commits, at most `MaxFaults` times. The
history variable `cut` notes that one struck where the code has a gap: between the commit that ends
a job and the one that queues the next or ends the crawl, or between creating a crawl and queueing
its first job.

The JSON cursor is the one place where the ORM matters: `run_discovery_chunk` changes the list it
loaded in place and assigns a new dictionary that shares it. SQLAlchemy compares the loaded and
the new value, finds them equal, and emits no UPDATE, unless a commit has expired the loaded one in
between. `CursorWritten` says when the cursor reaches the database.

`Timely = {"advance"}` excludes a cancel between the re-read of the phase and the commit of its
change (`_advance`); with `Timely = {}` TLC finds `NeverResumed` violated in a handful of steps,
since the check and the write are two statements.

`FairSpec`: a worker is always there and goes on (`Work`), and a request that has begun ends.
Nothing forces a user to create or cancel, or a fault to strike.

### Billing

An event is the pair of its Stripe type and the checkout it is about; `EventMap` is the map of raw
types to handlers, in which two raw types mean a paid invoice. `ledger[e]` is the row of
`payment_events` (`recorded` is a row with `processed = False`), `handler[h]` a webhook request in
its thread. `Deliver` is the look-up of a processed row and `Record` the insertion, which fails on
the unique id. After it each handler loads a row (`Load...`), commits the payment (`Pay`), looks
for the active subscription (`Find`), commits it (`Subscribe`, `SetStatus`), draws an invoice number
(`Count`) and inserts the invoice (`Insert`). `saw` is the status the session loaded: an assignment of
the same value emits no UPDATE, whatever another request has written since. `Fail` is a crash, a
failing statement or a lost answer at any step. What a payload lacks, or what its ids fail to
match, is a choice to find no row.

`FairSpec`: a request that has begun goes on, and an event is delivered again until it gets a 2xx
answer. The latter is the provider's promise, which the code relies on (`billing/service.py:166-169`).

### The pages of a website

*PageValue* (in `MCPages`). `run[r]` is the row of a run with its two statuses and cursors, `score[r]` the pages it has a
score for, `pvjob[r]` its newest job, `pvw[r]` the worker executing that job, `ask` the requests that start or cancel. A chunk is load, commit, complete the job, queue the next; a request is find the active run,
create one, queue its job. `{"cancel"}` in `PVTimely` excludes a cancel between a chunk's look at the status
and its commit, a gap the code has (see below).

*Findings* (in `MCPages`). One crawl after the other: `site` is what each page shows now, `found` the rows
of the crawl under way, `shown` the completed one its owner sees, `fnw` the chunk in hand. `StoreAi` and
`MarkAnalyzed` are the two commits of a template's analysis; `Build`, `Carry` and `Complete` those of the last phase.
A chunk that dies is done again from the phase it was in. `wish` remembers what the owner decided.
There is one kind of issue of each basis, the AI says the same category each time, and owners act on the
newest completed crawl.

*Fixes* (in `MCPages`). One `UrlAction` row; each checker (a re-check job, a crawl) is load, look, write back
the fields it changed. `{"load"}` in `FxTimely` excludes a commit of somebody else between a checker's load and its
write, in which the code overwrites what a person did. Days pass, data of a day arrive `TrackDays` late.

*Fetching* (in `MCPages`). The tasks of `fetch_pages` with their slot, attempts, redirects and three nested
deadlines, and the loop that takes results in the order they settle and keeps their sum, count, best and worst. *Reports* (in `MCPages`): a view is
load, check the caps, call the model, store; `RPTimely` excludes two first views of one report at once and a
deletion under a view.

### What a website is watched with

*Monitoring* (in `MCTracking`): jobs of two monitors, each commit of `run_scan_for_monitor` (scan,
history, snapshot, change set, alerts, mail, log), manual and ordinary scans of the same sites. *AnswerTracking*
(in `MCTracking`): requests, the scheduled runner and the extractor over `arun`, `rows`, `gaps`; simulated
runs share the table. `{"reanalyse"}` in `ATTimely` says that a run is analysed again only when it is not
being analysed. *Watchlist* (in `MCTracking`): every request that checks first and writes later is two
actions; `WLApart` names the pairs of kinds that do not overlap in the instance.

*Phases*: any process may be in a pass, since a deposed leader finishes the send in hand. A phase looks at
its lease once for each organization; check, send and record are three steps. `PhFair`: a process that lives
goes on, and a lease nobody renews runs out. Nothing forces a mail to succeed.

### What requests do

All in `MCRequests`. *Scanning*: slot, quota, scan, persist, bill, with the bulk scan as a job. *Teams*:
accepting reads the invitation, the account and its memberships before it commits (`TMTimely`: one
acceptance of a person at a time). *GoogleSync*: every handler loads the connection, waits for Google and
writes back the columns whose value differs from the one it loaded (`Flush`); `GSTimely` names the waits
during which nothing else commits. *Ingest*: batches and confirmations, statement by statement, with
the unique indexes. *Accounts*: what a request has loaded is kept in `ask`; `Apart` names requests that do not
overlap. *Limits*: Redis windows, local sliding windows (a process keeps the set of its
recent calls, each with its time), the cache, and threads that build the client.

The sets called `...Timely` and `Apart` are assumptions about timing, each excluding a gap that the code
has. With the empty set TLC finds the corresponding property violated; where a document of the repository
promises the opposite, the gap is listed under *Disagreements*.

### Rules

`PageAnalysis`, `Visibility`, `Simulator`, `SiteAccess`, `SiteSignals`, `SiteReport`, `SiteOverview`, `CommandCenter`,
`ContentOverlap`, `CrawlGraph` and `Changes` are operators. Their properties take the input as a parameter and
compare the code's result with a definition of what it should be or with another reading of the same facts.
`MCRules` is a state machine of one step: it draws a group of rules and one case of their
inputs, and its invariants judge the case. Texts are sets or sequences of words, addresses and names are
numbers, scores are scaled integers. In `Simulator` a phrase is found word by word, ids are in document order,
and costs, the explanation rows and the cache of the index are left out.

`SiteOverview` reads the rows of the crawls of one website three ways: as counts, progress and lists, as
recommendations in their order (with the part of them that is free), and page by page with what is to be done next;
`RecordSound` and its neighbours say that these agree, and that comparing two crawls is symmetric. `CommandCenter` stands
on it and on `Visibility`: visits and sales of the tracker, rows of Google Analytics with the event mappings a business
chose, and the indicators and findings that put both beside the crawl and the scan. Times there are quarters of a day,
enough for a day to begin elsewhere in another timezone.

## Runs

A run whose module joins several components has a variable `part`, drawn at the start; the components
share no state there and are checked side by side, not interleaved.

| run | what it shows | bounds |
|---|---|---|
| `leader_lease` | `StepsDownFirst`, `CleanHandover`, `BoundedLockout`; `ElectsOne`, the refinement | 2 processes, lease 5, renew 2, skew 1, delay 1, horizon 6 (a full lease and its takeover) |
| `job_queue_prompt` | `NoDoubleRun`, `TargetExclusive`, `OneActivePerTarget`, `FencedOutcome`, `LiveNeverRecovered` when heartbeats and queries are in time | 2 workers, 2 targets, 3 jobs, 2 attempts, 2 crashes |
| `job_queue_live` | `RetryBudget` and `EveryJobEnds` when nothing is in time and Run now executes a claimed job | 2 workers, 1 request, 1 job, 2 attempts |
| `crawl` | budget, completeness, continuation, no resurrection, an end | 3 URLs, 2 sitemaps, budget 2, 2 faults, 2 attempts |
| `crawl_forever` | *violation*: a crawl need not end | 2 URLs, 2 sitemaps, budget 1, no fault |
| `billing` | no event applied twice, no gap in the numbers, processed means applied as a whole | 2 Pro checkouts, 1 report, 3 events, 2 requests, 1 fault |
| `billing_retry` | *violation*: a paid checkout may never be applied | 1 Pro checkout, 2 events, 2 requests, no fault |
| `page_runs` | `ScoringSound`, `FindingsSound`, `FixesSound`, `IgnoredStays`, `FetchSound`, `ReportsSound` | scoring: 3 pages of which 1 unfetched, chunks of 2, 2 runs, 2 requests, 1 fault; findings: 2 pages, 1 template, 3 crawls, 1 decision, 1 fault; fixes: 2 operations, 1 crawl, 2 days, 1 fault; fetching: 3 pages, 2 at once, 1 retry, 1 redirect; reports: 2 scans, 2 callers, 5 operations |
| `tracking` | `ScannedOnce`, `AlertsSound`, `AnswerRunsSound`, `WatchlistSound` | 2 monitors, 2 recipients, cap of 2 mails, 2 jobs, 1 manual scan, 1 fault; 4 runs in 2 days, limit 2, 1 fault, and 3 runs of which 1 simulated; 3 sites, 2 callers, 5 operations |
| `phases` | `OncePerPeriod`, `EveryOrgServed` | 2 processes, 2 organizations of which 1 raises, 1 fault |
| `requests` | `ScansSound`, `MembershipSound`, `ConnectionSound`, `EventsSound`, `AccountsSound`, `LimitsSound` | 3 scan requests for 2 slots, quota 1, 2 faults; 3 persons, 3 invitations, 1 operation on members (2 before the third invitation), so that a member who was removed may be asked by two organizations; 2 properties, 2 days, 4 operations, 1 fault; 2 visits, 1 order, 3 operations; 2 addresses, 2 callers, 4 operations; 2 processes, 2 threads, 4 calls, 1 restart |
| `rules` | `PagesJudged`, `AnswersJudged`, `SitesJudged` | every case of `MCRules` |

A property called `...Sound` is the conjunction of the named properties that stand above it in its module,
each with a comment of its own.

Why the bounds are enough. Two processes are the whole of an election step: a statement involves one
holder and one challenger; the horizon covers a lease, its expiry and the takeover. Three jobs over two
targets give a job, its successor on the same target and a rival; two attempts give a retry and a last
failure. A crawl with one page more than its budget, and more URLs than a batch, meets every limit of
the code; two faults strike a chunk and its retry. Three pages with chunks of two give a full and a
partial chunk, the last of which may fail; a second run meets the scores of the first. Three crawls let
a decision be carried twice and an issue be gone and return. Limits are one below what the callers try
together, so that each is met and overrun by concurrent checks. Two requests are what a race over a row, a
number or a limit takes. Where a race needs a third actor (two acceptances and a removal, a reset
between the halves of a refresh) the instance has it. `MaxCrashes`, `MaxFaults`, `MaxEvents`, `MaxJobs`,
`Horizon`, the `...Faults`, `...Ops` and `...Horizon` constants and the number of runs or crawls are bounds of the models
and not parameters of the code. `AnswersStep` and `SimulatorStep` in `MCTracking` bound answer
tracking further: with a simulated run among them the runs are one fewer, only that run is analysed again,
and an actor fails only at it. `TeamStep` in `MCRequests` allows one operation fewer once all
invitations are made.

The deadlock check is off where the modelled activity may be over: at the end of time or of the bounded
number of operations, when a crawl has ended, when every event is answered, and in `rules` after its one step.
The job queue runs keep it: time always passes there.

### Fairness

Fairness is assumed of programs, never of users or faults. `JobQueue`: workers take their next step, the
loop comes back (`tick`, every `scheduler_interval_seconds`), time passes. `Crawl`: a worker is there and goes
on, a request that has begun ends. `Billing`: the provider delivers an event until it gets a 2xx answer, as
`billing/service.py:166-169` relies on. `Phases`: see above. The other components have no liveness property of
their own; that their chains of jobs do not break (`RunCarriedOn`, `BulkCarriedOn`, `ClaimIsChecked`,
`ActiveScheduled`) is a safety property, and that a queued job ends is `EveryJobEnds`.

## What is proved

All theorems hold for every value of the constants that satisfies the modules' assumptions.

*Election* (`LeaderLeaseProofs`, from `LeaseAssumption` and `TimelyAssumption`). `IInv` relates the
row, the local validity and the operation in flight of each process. Mutual exclusion alone is not
inductive: a belief in the lease arises from an answer, so the invariant must say of every
*answer in flight* that the row still is what the answer says, or that too much time has passed for
it to matter. Its parts state, for each process: a validity that lies in the future implies that it
holds the row and that the row outlives the validity by a renew interval minus the skew; an
operation was begun at most `MaxDelay` ago; a granted answer is backed by the row; and a process
that is shutting down has no renewal in flight once its keeper is joined. From it follow
`StepDown`, `MutualExclusion`, `Handover`, `Lockout` and, as an action property, `NoTakeover`: nobody takes
the row from a leader. `Refinement` combines them: the initial state has no leader, and a step that changes
the set of leaders lets one process in when there is none or out when it is the only one, so that
`LeaderLease` implements `Lease`.

*Queue without timing* (`JobQueueProofs`, first half, from `JobAssumption` and `QueueAssumption`). `QInv` ties
token, attempts and status of a row together (a pending row carries no token, a running row the
number of its attempt) and bounds what a session may have seen. It yields `BudgetKept` and
`ActiveUnique`, however late threads and statements are.

*Queue in time* (`JobQueueProofs`, second half, from `PromptAssumption` as well). `PInv` adds the age of a heartbeat in each state of its
worker: while a body runs and has not been told to stop, its row is its own and younger than the
lease. It yields `SingleRun`, `SingleRunPerTarget`, `Fencing` and `LiveKept`. The theorems assume
that no target is in `Sync`, that there is no inline request, and that both kinds of promptness
hold and the lease is long enough for a worker to give up first; without any one of
them TLC finds one of the four violated.

*Billing* (`BillingProofs`, from `BillingAssumption`). That no event is applied twice is not
inductive: it rests on the unique row of the ledger, so `IInv` says that a request past its
insertion is alone with its event (`Exclusive`), that nothing exists of an event nobody has attempted
(`Untouched`), and what a request knows at each step: what it has passed is done, what lies ahead is
not (`Sound`). For the numbers it says that one drawn earlier is at most one more than the invoices
there are now, so a number that is still free is the next. It yields `NoDoubleApply`,
`GaplessInvoices` and `WholeOrUnmarked`.

*Crawl* (`CrawlProofs`, from `CrawlAssumption`). `CrawlInv` says at every step of a chunk where the worker, its
job, the phase, the counter and the rows are (`JobInv`, `LiveInv`, `PageInv`), and counts the rows in each state
against the faults so far (`CountInv`): a row the worker has inserted and not yet counted, or counted and not yet
checked, is the difference between counter and rows, and a crash makes it permanent. It yields `CrawlBudget`,
`CrawlLeavesNothing`, `CrawlCarriedOn` and `CrawlScoredOnce` without any timing, and, when no cancel falls between look
and commit, the action property `CrawlStaysEnded`.

*The pages of a website* (`PageProofs`).
- Fetching: `FetchInv`. A page is bounded by what its attempts before may have asked and by its redirects since, so
  the product of attempts and redirects is reached only at the end; time cannot pass a deadline that is due, whence the
  bound on the whole; and sum and count grow together, whence the average stays between worst and best. `Fetched`
  needs no assumption on timing.
- Findings: `FnInv`. What is kept of the owner's decisions is invariant only together with where the last phase is:
  findings of the AI may have been carried on by an attempt that died (`AiShows`), those of the rules are built anew
  (`Built`), and after `Carry` each row shows what it inherits (`CarriedOn`). `Counted` leaves one row fewer to a key whose
  template is still to be analyzed. `FindingsShown` holds for any crawls, owners and deaths.
- Page value runs: `CarryInv` gives `RunsCarriedOn` without timing. That a run that ended stays so rests on the worker
  and the requests holding what the row still says (`StepInv`), which a cancel between look and commit breaks; with
  `"cancel"` in `PVTimely`, `RunEnds` and, by `WholeInv` (scores reach to the cursor, analyses to the rank or to what the
  worker has in hand), `RunsWhole` and `Scoring`, for any number of pages and any size of a chunk.
- Fixes: with `"load"` in `FxTimely`, `FxInv` (one checker has the row loaded, and it is still the row) yields
  `FixesChecked` and the action property `IgnoredOut`. The types (`FxTyped`) need no timing.
- Reports: `CapInv` and `LinkInv` add to what was told or shared the callers that have passed the check, which gives
  `Narratives` without timing; `OneInv` weighs the narratives of a scan by what its newest report shows. `NarrationsPaidOnce`
  needs `"view"`, `SharesSound` `"delete"`, `ReportsKept` both in `RPTimely`.

*What a website is watched with* (`TrackingProofs`).
- Phases: `PhaseInv` counts what each process may still send of a mail it has checked: only the holder of the lease, or
  the number of slips. Hence `OneOfAKind`.
- Monitoring: `MNInv` ties job and worker, and accounts for each bad scan and each mail: told, in the worker's hand, or
  lost at a fault. `ScansOnce` and `Alerts` need no timing.
- Watchlist: `LimitsInv` counts the requests that have passed a limit (`WatchLimits`, no timing). `ScansKept` assumes
  `WatchesApart` (updates of a monitor overlap neither each other nor an administrator's pause), `PromptsKept` `ListsApart`
  (the pairs of requests on the lists of one website that the module names), `WatchedSoundly` both.
- Answer tracking: `RunsPaid` (no timing) from a count of the runs and of the actors past the check; with `"reanalyse"` in
  `ATTimely`, `OnceInv` yields `AnswersOnce` and `AnswerRuns`.

*What requests do* (`RequestProofs`).
- Scans (no timing): `ScanInv` counts what the meter holds against the requests that own a scan not yet billed.
- Organizations: `OwnersStay` needs no timing, `Memberships` `"accept"` in `TMTimely`.
- Google: `TokensStand` (an active connection has its credential) needs no timing: `TokenInv` keeps the credential a selection
  or a disconnection has loaded equal to the one stored, whatever a sync writes meanwhile; `Connections` needs `{"sync", "select"}` in `GSTimely`.
- Accounts: `AddressesProven` assumes that the requests of `AddressAlone` do not overlap, `SignIns` besides those of
  `ResetAlone` and two refreshes of one session.
- Events (no timing): what a request has read before its commit is no more than there is when it commits, but for the
  unique index, which makes it start anew.
- Limits (no timing): `WindowInv` bounds, for each instant of the last window, the calls Redis let through since. The live
  counter alone bounds those of its own window; the calls of the window before it are bounded by a limit, and a restart
  of Redis adds one more. Without the two cases (the live window began before the instant or after it) the bound is
  not inductive. `HitsInv` bounds the rest by what each process holds. Hence `LimitsKept`.

*Rules* (`RulesProofs`). `MCRules` draws from small sets; these theorems quantify over every page, measure, peer group,
run, scan and limit instead. They need facts on sums and ranks, and the prover has no induction over data. What it has
is that a set of numbers with a member has a least one (`LeastNumber`): a sum that is defined by
well-founded recursion is unfolded at the smallest set for which a claim fails (`WFMin`), which gives how a sum changes when
one term is removed (`SumRemove`), grows with its terms (`SumGrows`) or is split by a key (`SumOfParts`); and ranks given by
counting what comes before leave no hole (`RanksWithoutHoles`, `RankedBetween`).
- Pages: `PeersAlwaysSeparate` (the peer groups of a score), `AdviceAlwaysConsistent` (no advice for what the page has, and none twice),
  `WorthAlwaysCounts` (a page that is worth more never has the lower priority), `AlwaysClassifiedSoundly` (of visits). `PagesAlwaysJudged`
  puts them together: `PagesSound` (the case drawn is one of a page, of a measure, or of another group of rules) is inductive and implies
  `PagesJudged`.
- Answers: `FiguresAlwaysAgree` (the figures of a report add up and agree with its rows) for an `AnalysedRun`: finitely many answers
  whose counts are numbers, at most 2000 for a prompt, beyond which the rate of a single mention rounds to zero and the
  theorem is false. `PreviewAlwaysStands` (who has not paid reads a part of the report, with the figures of the whole)
  assumes `AnalysedRun` and `ScanFacts`.

Where a theorem assumes a member of a `...Timely` or `Apart` set, the assumption excludes a gap the code has, and without
it TLC finds the property violated; the instances of the runs satisfy all of them. What is said above to need no
timing holds with those gaps.

What the proofs changed. The exemption of runs whose worker died between clearing and storing an analysis turned out to be
unnecessary, so `AnalysedOnce` no longer makes it. That mails stay within the cap could not be stated by the log alone,
since a mail that is sent and not logged counts: `EmailsBounded` speaks of the mails. `Limits` keeps sets of calls where it
kept counts, and `Fetching` the sum and the count of the code where it kept the average. In the rules, two opportunities of one
report could bear one id in the model (ids are a kind and a number, as in the code), a rate was a fraction where the code
rounds it to tenths of a per cent, and three constants had no assumption (the domain of `LogOf`, `PreviewLimit`,
`MinGroup`).

The runs check on an instance what the theorems state of every instance. Only model-checked are:
- of `AnswersJudged` what the simulator does (`Grounded`, `BatchSound`), and `SitesJudged`: they are about folds and sorted
  lists over sequences and searches in graphs, whose value for every input takes an induction the prover does not have;
  the two other parts of `AnswersJudged`, figures and preview, are the two theorems above;
- the liveness properties `EveryJobEnds`, `CrawlSettles` and `EveryOrgServed`, which are beyond the prover, as are
  fairness and `ENABLED`.

## Disagreements between code and documentation

Two are shown by a run of their own:

1. `crawl_forever`: "never stays running forever" (`scheduler.py:522-523`) fails for a site with a second
   sitemap when the first uses up the URL budget.
2. `billing_retry`: "safe to let Stripe retry" (`RUNBOOK.md:50`): a retry of an event that has failed once can
   never succeed, as it inserts a second row under the same unique id. No crash is needed: a checkout and its
   first invoice, delivered at once, draw the same invoice number, one of them fails after its payment
   is committed, and stays unprocessed for ever.

The others are properties stated in the modules that fail for the code, with the quoted promise in
`PROJECT.json`, or properties that hold only under a timing assumption:

| property | what happens |
|---|---|
| `MembershipSound` | two organizations' invitations accepted at once put a person in both (`routes_org.py:235`) |
| `AtMostOneLeader` | two leaders when the database answers later than a renew interval (`leader.py:65`) |
| `NoDoubleRun` | Run now executes a job a worker has claimed (`routes_monitors.py:287`) |
| `FencedOutcome` | the token of a claim is read from an object that commits expire (`scheduler.py:224`) |
| `LiveNeverRecovered` | a slow recovery pass fails a job that was claimed anew (`scheduler.py:560`) |
| `RunIsWhole` | a cancel between check and commit of a chunk deletes scores of a run that completes (`page_value.py:605`) |
| `ChecksBounded` | the daily limit counts actions, not page checks (`optimization.py:55`) |
| `ListedOnce`, `CarriedTwice` | a chunk done twice stores an AI finding again, or keeps an outdated decision on it (`ai_analysis.py:172`, `recommendations.py:131`) |
| `NoDecisionLost` | a decision made while the next crawl completes is not carried (`recommendations.py:136`) |
| `ResolvedIsGone` | a page that could not be fetched counts as fixed (`overview.py:247`) |
| `AdviceConsistent` (two) | a booking page is told it is short, a malformed block is also called missing |
| `ScansAccounted` | a crash between a scan and its usage event leaves it unbilled (`routes_scan.py:355`) |
| `ScheduledApart`, `FirstRunManual`, `SimulationIsFree` | failed and simulated runs upset schedule and limit (`answer_tracking/service.py`) |
| `LockedStaysLocked`, `LockedNotTracked`, `DistinctSupport` | a simulated answer quotes locked evidence, locked questions are tracked, a repeated footer supports itself |
| `OneProperty` | a sync that began before a switch writes the old property's rows (`google_analytics.py:759`) |
| `ConfirmedStands`, `ViewsCounted` | a confirmation keeps the browser's value; a test visit is counted (`analytics/`) |
| `EntityReported` | no report when every entity signal is missing (`visibility.py:580`) |
| `VerdictsAgree` | pages are called disconnected because the seed failed (`crawl_graph.py:244`) |
| `RobotsAgree`, `LoopReported`, `Consolidated` | readers of robots.txt disagree; redirect loops are never listed; one canonical speaks for a cluster |
| `FormulaIsNoChange`, `BlockTold` | a new rubric looks like a change; a block is no alert after an unreachable scan |

Smaller wrinkles of the reports, which the properties state as they are (`CenterHonest`, `TrafficAgrees`, `FindingsAgree`):

- the command center compares with the period before if the first visit of the website precedes it; that
  visit may be a diagnostic one, which counts nowhere else, so a period in part untracked may be compared with;
- a diagnostic visit's confirmed conversion makes conversions count as measured;
- a finding that quotes a prompt or an issue with the words "due to" or "causes" in it is dropped as a causal claim;
- the open total of the command center includes placeholders and findings of insufficient confidence, which the overview
  of the same crawl leaves out.

## Not modelled, and why

The frontend renders what the API returns. Migrations run once; their result is the schema.
Administration settings are key-value pairs. Text is abstracted throughout: parsing HTML into facts, prompts
and answers of language models, wording, rendering, PDF and mail bodies are data. The routes that only read
are left out.

Of the modelled parts: the enqueuers of Search Console syncs and re-checks (the same pattern as `EnqueueDue`), the
legacy rule for jobs without heartbeat, the order of pages within one depth, inbound link counts, crawls of
one site created concurrently; of billing the amounts, periods, cancel and resume (a flag no code
reads), the effect of one plan on another of the same organization and the development-only completion;
Google sign-in, access tokens and the throttling of accounts.

Known hazards that no property covers, beyond the list in `PROJECT.json`:

- a page is marked as crawled before its links are recorded (`discovery.py:307`), and the last failure of a
  chunk fails a crawl without a look at its phase (`runner.py:332`): `Crawl` models both, as allowed behaviour;
- one renewal is announced by two event types that are both handled (`stripe_provider.py:36`), an event that
  overtakes its checkout finds no row (`billing/service.py:178`, 213, 287), and nothing ends a subscription
  cancelled at the end of its period (`billing/service.py:334`);
- analyses of a page's group are written one by one (`page_intelligence.py:722-737`);
- two explanations of one simulated answer at once lose a cost update, a batch that raises leaves its run
  pending (`answer_simulator/batch.py:312-313`), and the simulator's index may be ten minutes old;
- a request that changes an address may mail a link and then be refused, which rolls the link back;
- two first views of a report store two rows; deleting a monitor leaves its prompt sets scheduled, and deleting
  a prompt set leaves its gap analyses; alerts beyond the third critical issue of a scan are cut.

## Plan

1. Theorems: the abstract specifications of 2 as refinements.
2. Abstract specifications: one execution per attempt (refined by `JobQueue`), an exactly-once ledger
   (refined by `Billing`).
3. Compositions: a crawl that completes under a waiting fix and a scoring run; plan changes (`Billing`)
   against the limits of `Watchlist`, `Scanning` and `Reports`.
4. The Search Console connection where it differs from Analytics beyond its life cycle.
