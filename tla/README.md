# Sentrexa: models, checks and proofs

TLA+ models of Sentrexa (a SIEM-style pipeline: simulated logs, ingestion,
rule-based detection, alert and incident workflow, BigQuery export), TLC
configurations that check them on small instances, and theorems that TLAPS
proves for every value of the constants. Paths below are relative to `src/`.

1. The system
2. The modules and the code they model
3. The runs, their bounds and what they show
4. Fairness
5. The proofs
6. Where the code and its documentation disagree
7. What is not modelled, and the plan

## 1. The system

One PostgreSQL database is the meeting point. Processes that know nothing of
each other read and write it: scheduled jobs (`.github/workflows/`), people who
run the same commands by hand, analysts through the workflow helpers, the
dashboard. All of them use READ COMMITTED transactions (`db/engine.py`,
`session_scope`: commit at the end, rollback on any exception); none takes an
explicit lock. Nothing is ever deleted (`003_grants.sql` grants the pipeline no
DELETE), and idempotence comes from unique keys and `ON CONFLICT DO NOTHING`.

| Component | State | Operations | Interacts with | Hard to get right | Correct when |
|---|---|---|---|---|---|
| Log simulator `simulation/` | event list in memory | `build_dataset`: benign traffic, three attack scenarios, sort, splice malformed lines, render | writes feed, manifest, pointer files | time windows that start mid-hour, midnight, jitter, line numbers known only at the end | the manifest is ground truth: the rules detect what it promises |
| Feed files `simulation/dataset.py` | feed, manifest, `latest` pointer | three file writes, none atomic | read by ingestion while written | partial files, a pointer without its feed | what a reader of a torn feed loads are rows of that feed, and a later load adds the rest |
| Ingestion `ingestion/` | `logs_raw`, `rejected_records`, ingest rows of `detection_run_log` | resolve feed, read, parse, two multi-row inserts, log row, commit | simulator's files; detection reads its rows | overlapping loads, retries, death half-way, fatal lines | each line is one row, counted once |
| Detection engine `detection/rules_engine.py` | none (pure) | `detect_brute_force`, `detect_off_hours`, `detect_privilege_escalation`, `run_rules` | called by the runner | two-pointer sweep, window edges, midnight wrap, keys | finds what the rules say, one detection per key |
| Detection cycle `detection/runner.py`, `alerting/` | `alerts`, `alert_log_links`, `incidents`, `logs_raw.processed`, detect rows of `detection_run_log` | scan, insert alerts, links, incidents, mark, log, commit | ingestion's rows; analysts' updates | overlapping runs on the same logs, deadlocks, snapshots that move between statements, parameter limit | tables hold exactly what the committed batches detect |
| Analyst workflow `alerting/incident_manager.py` | `alerts.status`, `incidents.status`, notes, `closed_at`, assignee | `set_alert_status`, `set_incident_status`, `assign_incident` | sessions of several analysts; detection creates the rows | validation against stale reads | legal transitions, closed with notes and time (false of overlapping sessions, section 6) |
| BigQuery sync `bi_export/` | `fact_alerts`, `fact_logs_daily`, dimension tables, stage tables, `_sync_state` | incremental and `--full` run, `--drop`, triggers that stamp `updated_at` | PostgreSQL transactions; other syncs share stages | watermarks against commit order, three queries with commits between, two syncs on one stage, crashes | nothing behind the watermark is missing (false beside open transactions and other syncs, section 6) |
| Rule and technique seed `detection/seed.py`, `mitre/` | `detection_rules`, `mitre_techniques` | upserts | run by every pipeline cycle | an operator's tuning | not modelled (section 7) |
| Bootstrap `sql/bootstrap.py` | two roles' passwords, `.env`, schema | migrations, password rotation, verification | an operator's editor; every other process reads `.env` | a run that dies or is overlapped between ALTER ROLE and the rewrite of `.env`, which empties the file first | no password that silently fails, no edit lost to a run on its own, working passwords after a lone run that ends well |
| Weekly report `reports/` | none | eight queries, render | reads all tables | queries of different snapshots; a list cut at 20 rows | no alert is lost between sections, as far as the list's limit lets it; sections agree when nothing is committed |
| Dashboard `dashboard/` | query caches of a minute | read-only queries | reads views | figures of different minutes; a trace looked up for a cached feed | current a minute after the last change; traces never empty |
| Schedules `.github/workflows/` | – | `pipeline.yml` every 6 h, one at a time; `bigquery_sync.yml` 30 minutes after it | start everything above | overlap with runs by hand, a stage that fails, a checkout that is gone | what arrives together is scanned together; a complete job leaves nothing of its feed; what has been loaded is processed some day |
| Configuration `config/settings.py` | – | reads the environment once | – | – | – |

PROJECT.json lists the hazards of this code line by line, with the property that
covers each.

## 2. The modules and the code they model

Each module's header says what it models; PROJECT.json maps each definition to
its lines. Rows are named by their unique keys (no row is ever deleted), times
are natural numbers, messages are records of what the parser finds in them.

**RulesEngine** (`detection/rules_engine.py`). The detectors as operators on a
set of logs: which logs each selects, the key, time and evidence of each
detection, and the order in which `run_rules` returns them. What
`detect_brute_force` should return is given declaratively: the failures of some
closed window of the rule's length with at least the threshold in it.

**DetectionTables** (`run_detection`'s call of `run_rules`, and what
`create_alerts` and `escalate_high_severity` take from its result). For any
active rules and any rows of `logs_raw`: the keys that the engine detects in each
batch, the evidence of each, and the keys that are escalated. These are the
values that DetectionRows, DetectionCycle and Pipeline want of their constants.

**BruteForceSweep** (`detect_brute_force`). The loops of the same function step
by step: the failures of an address sorted in any order consistent with time,
`left` chasing `right`, `contributing` carried over from one right end to the
next, reset for the next address. `ResultCorrect` says that it computes the
declarative definition.

**DetectionRows**, **AlertBook** (abstract). The rows a batch calls for, and
what the stage promises: now and then the rows of some batch of logs appear all
at once, with the batch's processed flags.

**DetectionCycle** (`detection/runner.py`, `alerting/alert_manager.py`,
`create_incident` and `escalate_high_severity` of
`alerting/incident_manager.py`). `run_detection` statement by statement, in any
number of processes; multi-row inserts row by row, in the order the code gives
them. A row held by another open transaction makes an insert wait; a circle of
waits ends with one victim rolled back; a statement with too many bound
parameters raises; a process may die at any point, its transaction with it.
`mine` is what the open transaction has inserted, `rows` what is committed, and
`Visible` what a statement of that transaction sees. Analysts change alert
statuses and logs arrive meanwhile. `entered` is a history variable. The module is
refined to AlertBook by `Book == INSTANCE AlertBook` (whose variables `logs`,
`processed` and `rows` it has under the same names): `ImplementsBook`.

The cycle takes from the rules what they detect in each batch, as constants
(`Detected`, `Evidence`, `Position`). MCDetectionCycle computes these with
DetectionTables from a handful of log lines, so the run is of the two together;
the proof is for any tables that satisfy `DetectionAssumption`, which the
engine's do (`EngineFillsTables`).

**FeedParser** (`ingestion/parse.py`). What becomes of a line: skipped, good,
rejected, or fatal (an exception that is not `ParseError`).

**Ingestion** (`ingestion/load.py`, `write_dataset` of
`simulation/dataset.py`). The simulator writes feed, manifest and pointer, and
what it has written of each is visible meanwhile, a prefix of the lines and a
line cut in two; it may die. Loaders resolve the pointer or are given a name,
read what is there, insert row by row in the order `_insert_ignore` sends them,
commit rows and run log together, or die. `ingested` is history.

**AnalystWorkflow** (`set_alert_status`, `set_incident_status`,
`assign_incident`). Each session reads an entity, validates what it has read,
and flushes the columns it changed at its commit, as SQLAlchemy does; several
sessions interleave. `overtaken` is history: some commit wrote a row that
had changed since the session read it.

**BigQuerySync** (`bi_export/sync_to_bigquery.py`,
`bi_export/schema/bigquery_schema.py`, `005_bi_sync.sql`). PostgreSQL
transactions of which each has a begin time, that the triggers write into
`updated_at`, and commits later; syncs that read the watermark, query, load the
stage, merge, delete the stage and write the new watermark, each a step. Syncs
share the stage of a target. Somebody may drop the fact tables at any time, also
in the middle of a run, whose merge then raises; the creation of the tables, which
the schedule's job begins with, is a step of its own (`DropSchema`,
`CreateSchema`). `alone` and `trusted` are history: whether no other
sync, no open transaction and no drop got in the way of the run that moved the
watermark.

**SimulatedFeed** (`build_dataset` of `simulation/dataset.py`,
`simulation/common.py`, `simulation/attack_scenarios.py`, the auth generator).
Random choices are nondeterministic. Its `Logs` are given to RulesEngine: the
manifest must be what the rules find.

**Pipeline** (`.github/workflows/pipeline.yml`, with Ingestion and
DetectionCycle). The composition: the job of the schedule, in a fresh checkout,
simulates a feed, loads it with the actions of Ingestion
(`Loading == INSTANCE Ingestion`, one ingester, the job's own directory) and runs
a cycle with those of DetectionCycle (`Detection == INSTANCE DetectionCycle`,
whose `logs` are the log_ids of the rows that loads have committed). A stage that
fails ends the job. Beside it, cycles are run by hand, some with `--limit`.
`arrivals` (the logs each load has committed) and `limited` are history. It
refines AlertBook with the rows of `logs_raw` for logs. MCPipeline goes from log
lines to alerts: FeedParser makes events of them and RulesEngine, by way of DetectionTables,
detects in these.

**Readers** (`reports/weekly_report.py`, `dashboard/data.py`, `dashboard/app.py`).
The statements of a report, one after another, each seeing what is committed when
it begins; and the dashboard's queries, each with a cache of its own that expires
`TTL` ticks after it was filled, behind the pages that call them. Readers change
nothing, so that a behaviour has one of the two (`ReaderKinds`). The report's list
of alerts is cut at `TopLimit` rows (`LIMIT 20`), by severity and then the latest
first; at the cut, which of several equals are on it is left open, as SQL leaves
it. Cycles, analysts and incidents change the tables in between. `disturbed` (a commit since the
report began) and `quiet` (ticks since the last change) are history.

**Bootstrap** (`sql/bootstrap.py`). Runs of `main` in its three modes, a step
per transaction or file operation: settings, schema, reading `.env`, ALTER ROLE
for one role and for the other, emptying and writing the file, the two test
logins. Runs overlap and die anywhere; the operator edits the file, and copies
the example again when it is lost. A password is the number of the run that
generated it.

**MC…** modules give the constants values. **…Proofs** modules hold theorems.

*Faulty variants.* Some definitions have a sibling that a plausible bug would
turn it into (`StartOwnFeed`, `MarkAtOnce`, `CommitBeforeRejects`,
`FoundAndMarked`, `LatestBefore`, `TickWithoutExpiry`, `RewriteTemplate`, …),
each with a comment saying so. They are not part of any specification.
Substituting one for the definition it spoils breaks a property of a run, which
is how we know that the property watches that code.

## 3. The runs, their bounds and what they show

| Run | Instance | Shows |
|---|---|---|
| `sweep_all` | every batch of up to four failed logins at times 0–3 from two addresses; thresholds 0, 2, 3; windows 0, 1, 2 | the sweep returns exactly the qualifying failures per address, with its loop invariant, and terminates |
| `cycle_overlap` | two cycles, with and without `--limit 2`, three logs (two keys that batches insert in opposite orders, a third one with all three logs, when the INSERT exceeds the 14 parameters of the instance), one crash, an analyst | tables are exactly what committed batches call for; exactly the high alerts have an incident; run log adds up; refinement of AlertBook |
| `pipeline_jobs` | the job and one runner by hand with `--limit 2`; three feeds of five log lines and a cut one, bursts on two days; at most 9 parameters per statement; one crash | without `--limit`, the logs of a load are scanned together and what the rules find in them is alerted with its evidence; a complete job has processed its feed; refinement of AlertBook; by the schedule alone, what has been loaded is processed some day, whatever has died, unless more comes to wait than fits into a statement |
| `feed_truth` | a window of a day of 4 hours of 2 ticks that begins and ends in the middle of an hour, the one of the off-hours login; 3 attempts in a burst with jitter, 2 benign events, 1 malformed line | the rules detect what the manifest promises; attacks are in the window, benign logins past its end by less than the delay after a mistyped password, the off-hours login in its hour and past the end by less than an hour |
| `ingest_overlap` | two loaders, one feed name written twice, contents with lines of every way through the parser, one crash | each line of what was read once; counts; no circle of waits; loading again changes nothing; every load that has begun ends, in a commit, an exception or a death |
| `ingest_fatal` | as above with one loader | **violation** of `NeverFatal` (section 6) |
| `workflow_sessions` | two sessions, an alert and its incident | closed has notes; as long as nobody is overtaken, closed exactly when stamped and final states are final |
| `workflow_reopened` | same | **violation** of `ClosedIsTerminal` (section 6) |
| `sync_facts` | two syncs, two writers, one alert, two feeds that share a day, two transactions, one crash or drop | behind a trusted watermark every alert and every count is as in PostgreSQL; every change arrives, unless an overlapped run has moved the watermark past it or the tables were dropped (2.3 million states) |
| `sync_late` | one sync, two writers, one alert, two transactions | **violation** of `AlertsSynced` (section 6) |
| `readers_views` | three alerts, a high one and two later and less severe ones of one time, a list of two, three changes, a cache of two ticks (3.2 million states) | sections of a report lose no alert, and agree when undisturbed, as far as the list's limit lets them; traces are never empty; pages are current one cache lifetime after the last change |
| `bootstrap_overlap` | two runs at a time, four of them with passwords, one death, an operator's edits | passwords that do not work are not left in silence; edits stay unless a run was overlapped or died; a run alone that ends well leaves passwords that work, and replaces none that do |

The bounds (`MaxCrashes`, `MaxMishaps`, `MaxWrites`, `MaxTransactions`,
`MaxChanges`, `MaxStarts`, `MaxDeaths`, `MaxLogs`, `LastTick`) are constants of
the modules and guard the actions that count them.

Why they are enough. A fault of the sweep needs a failure leaving the window,
one entering it and one that stays: four failures over four ticks have all of
these, with ties and two interleaved addresses. Overlaps in detection, ingestion
and workflow are between pairs, since waits, conflicts and stale reads are; the
proofs are for any number. A sync is led astray by one transaction that begins
before and commits after another: two transactions. In the pipeline two feeds
that land in one batch, because the job that loaded the first died before its
cycle, need one crash; a third feed then finds alerts of both. A report has five
statements and a disturbance between any two of them, and with more alerts than
its list has rows something is cut; to be misled by a cache takes one answer older
and one newer than a change. In the bootstrap, the second
run of a pair may undo the first, a third one must repair that, and a fourth
must leave it alone. For what is proved the instance matters only as a way to
meet errors early. The parameters of `feed_truth` keep the relations of the
code's constants (attempts at least the threshold, nominal burst shorter than
the rule's window, jitter that can carry a burst's ends to the window's edge, a
window that begins mid-hour and wraps a midnight), not their sizes; the proof is
for every size that keeps them.

`cycle_overlap`, `workflow_sessions` and `bootstrap_overlap` use symmetry of
processes, and check safety only (a refinement without fairness among it).
`CHECK_DEADLOCK FALSE` is set for the sweep and the simulator, which end.

## 4. Fairness

- BruteForceSweep: weak fairness of `Next`, a loop that runs.
- DetectionCycle: none. Nothing in the code obliges anybody to run a cycle, and
  the module states safety only. What the schedule adds is in Pipeline.
- Ingestion: weak fairness of the steps of an open load. Nothing is fair of
  starting one: each job of `pipeline.yml` loads the feed that it has simulated
  itself, once, in a checkout of its own. A feed whose load failed is not retried
  by anyone, and an older feed of a directory is loaded only by name, by hand.
- Pipeline: weak fairness of the job (`RunJob`: the runner goes on with the next
  line of a stage, and the schedule of `pipeline.yml` starts the next job; its
  concurrency group lets each finish), and of what a cycle that was started by
  hand does next. Nothing is fair of starting cycles by hand, with `--limit` or
  without. So a backlog that is too large for one statement stays, as the job's
  cycles raise on it every time: `LogsGetProcessed` makes that exception
  (`BacklogFits`). Nothing is fair of crashes, which are bounded.
- BigQuerySync (`FairSpec`): weak fairness of open PostgreSQL transactions (they
  commit or roll back), of the start of a run without `--full`
  (`bigquery_sync.yml` is a cron job, every six hours, never two at a time), of
  the steps of a run, and of the creation of missing tables, which is the first
  thing that job does. Nothing is fair of `--full`, `--drop` or crashes.
- AnalystWorkflow, SimulatedFeed, Readers and Bootstrap state safety only: each
  is a person or a single run, and nothing in the code promises that it goes on.

## 5. The proofs

All are checked by TLAPS down to the last leaf, with no assumption but the named
ASSUMEs on the constants (`CalendarAssumption`, `SweepAssumption`,
`DetectionAssumption`, `RunnerAssumption`, `IngestionAssumption`,
`FeedAssumption`, `WorkflowAssumption`, `SyncAssumption`, `ReadersAssumption`,
`BootstrapAssumption`, and `PipelineAssumption`, `CycleAssumption` and
`RulesAssumption` of the composition), which TLC evaluates in the runs. Each
file has the same form: `Init` implies an inductive invariant, each action
preserves it (a lemma per group of actions), and each property follows.

**RulesEngineProofs**, about the sweep, for every rule and every finite batch.
`SweepInvariant` is that `contributing` is the union of the qualifying windows
among the failures up to `right`, that `left` is the first failure whose window
may hold `right`, and that `out` is right of the addresses already swept.
`IInv`, which is `Inputs`, `TypeOK` and `SweepInvariant`, is inductive
(`SweepInductive`); with no address left it is `ResultCorrect`
(`SweepComputesDetections`; the parts are published as `PointersInRange` and
`SweepOnTrack`). The step where the sweep moves `left` uses that the failures
are sorted, and the one where a full window is collected that a window may be
taken to open at one of its failures.

About the engine as a whole. `MoreLogsFindMore`: in more logs no rule finds
less, since the only rule that counts asks for at least a number.
`EngineFillsTables` discharges, for any finite set of active rules with integer
thresholds and of logs, what the other proofs assume of their tables:
`DetectionAssumption` (evidence is within the batch), finitely many keys, and
`RulesAssumption` (whom a part of a batch accuses the batch accuses, with that
evidence). The last needs that rules have their own ids: then one detection is
behind a key of brute force, and its day is the only part of the key that more
logs can change. `KeysTellSeverity`: as a key names its rule, whether its alert
is escalated does not depend on the detection that made it.

About the feeds of `build_dataset`, for every size of the feed and all settings
that `FeedAssumption` allows: a window of at least a day in which burst and
escalation have room, an off-hour among those that `_pick_off_hour` prefers, as
many attempts as the rule asks for, and burst and jitter no longer than the
rule's window. The defaults of `config/settings.py` and of the rules' seed are
such settings; one that asks for fewer attempts than the rule does, say, is none,
and its manifest promises what the rules do not find. `EventsInv` says that the
events added so far fit into the window, how many there are at each stage, and
hence which of them are the burst's, the off-hours login and the escalation's.
The arithmetic is in lemmas: `random_business_time` stays in the window, every
hour of the day has a full hour in it (so that neither `random_time_at_hour` nor
`_pick_off_hour` falls back), and no attempt is outside the burst by more than
the jitter. `FeedInv` adds that each event has a line of its own among those to
be rendered. The sort is given by what it does: the place of an event is the
number of those before it, and that these places are a permutation
(`PlacesApart`) is a counting argument that needs no induction; putting in a
malformed line moves places up and keeps them apart. `FeedInWindow` says
how far the window is kept: attacks are in it, both ends included; a benign login
may be past its end by less than the delay after a mistyped password; the login at
an off-hour is in its hour, not before the window and less than an hour past it.
That is not what the code says of that login (section 6). For `ScenariosDetected` the window of the rule that opens at the
earliest attempt holds all of them, so that the attempts' lines, as many as
`expected_min_matches`, are evidence; so are the lines of the off-hours login and
of the escalation, each by itself.

**DetectionCycleProofs.** For any number of runners, logs, keys, and any rules.
`BookMatchesRuns` is not inductive: whether a commit keeps it depends on what the
open transaction has inserted. The strengthening says, per runner and place in
the cycle, that what its transaction has inserted plus what it has yet to insert
plus what is committed covers the rows of the batch so far, and that it has
inserted no others (`RunInvariant`). That the candidates for escalation are all
that the batch needs follows from it, because the book has an incident for each
high alert. From this: `BookIsExact`,
`AlwaysEscalated`, `KeysHeldOnce`, `RunLogAddsUp` (with cardinalities of the sets
of rows) and `CyclesImplementBook`: every step is a step of AlertBook or leaves
its variables unchanged. `CycleTyped` is type correctness, which needs the
invariant too: that an open transaction holds rows of its own batch only.

**PipelineProofs.** For any feeds, any number of runners by hand, and any rules
that find more in more logs (`RulesAssumption`, which the engine's tables
satisfy: `EngineFillsTables`). The module instantiates DetectionCycleProofs with the
pipeline's variables (`Cycles`) and shows that each step of the pipeline is a
step of the cycles so instantiated, or leaves what they look at alone
(`StepIsCycle`); their invariant then holds of the composition, together with
one about the job: what is loaded, held or yet to be inserted is all of its feed
(`LoadInvariant`). The two cannot be had one after the other: that a cycle of
the job runs in its last stage only needs the cycles' invariant. From
`PipelineInductive` follow `PipelineImplementsBook`; `CompleteJobs`, by way of
`JobInvariant` (the job's batch has what is unprocessed of its feed); and
`ArrivalsStayWhole`, by way of `ArrivalInvariant`, which adds to committed
batches the open ones. `AttacksNeverMissed` combines the last with
`BookMatchesRuns` and `RulesAssumption`: the logs of a load are in one committed
batch, whose rows are in the book, and the rules find in the batch whom they
find in the load.

**IngestionProofs.** For any number of loaders, feeds and contents. The invariant
says that an open load holds rows of what it has read, and all that are
committed, held or still to be inserted are these rows. `LoadsNeverDeadlock` has
an argument of its own: rows are inserted in one order for all
loads that can meet (good rows before rejected ones, by line number); the one
that holds the highest row of those held waits for nobody, so that there is no
circle. The others: `TablesAreExact`, `HashesHeldOnce`, `RunLogCountsInserts`,
`ReingestChangesNothing`, `IngestionTyped`.

**AnalystWorkflowProofs.** For any number of sessions, notes and analysts.
`NotesAlwaysKept` holds without conditions: the notes are flushed with the status.
`StampedIffClosed` and `FinalStaysFinal` hold of sessions that nobody has
overtaken; the invariant `WorkflowInOrder` adds that what each session has read
and changed is in order as well (`ClosingTimesKept`, `FinalIsFinal`).

**BigQuerySyncProofs.** For any syncs, writers, alerts, feeds and days.
`SyncInductive`: the clock bounds every stamp (`ClockInvariant`); behind a trusted
watermark every target is up to date, so is what any run has found or staged for
it, and every open transaction began later (`TrustInvariant`); a run that is alone
carries, at each place, whatever has changed since its watermark
(`ProgressInvariant`). Hence
`TrustedAlertsSynced` and `TrustedLogsSynced`. They say which
discipline would make the export right: no sync beside a sync, and none
beside a transaction that is open across its queries.

**ReadersProofs.** For any alerts, severities and cache lifetime.
`FreshWhenQuiet`: an answer in the cache is younger than the last change or will
expire before `quiet` reaches the lifetime. `TracesKept`: alerts are committed
with their links, and a feed, even a cached one, lists committed alerts only.
`TypeCorrect` is type correctness.

About the report: `ReportInductive`. Each section is described by the tables at
the moment of its statement, and these only grow; the sum over the groups of a
section is the number of alerts in it, because grouping and joining lose none and
count none twice (`CountsAddUp`: a sum of counts is the number of pairs of a group
and a number up to its count, which a bijection takes to the alerts). The list is some choice of the first `TopLimit` alerts in its order
(`FirstAlerts`): either all or as many as the limit (`TopListAgrees`), and, since
whoever is severe comes before whoever is not, the severe ones first
(`SevereFirst`). So each section has at least the alerts of the sections before
it, the list unless it is full (`TotalsNeverShrink`), and as long as nothing was
committed all describe the same tables (`UndisturbedAgrees`).

**BootstrapProofs.** For any number of overlapping runs. The invariant says what
a run that has not been disturbed knows at each place (`Undisturbed`: the file is
as it read it, the roles have the passwords it has tried); that as long as none
has raised or died, some run is still to write the file or to find that it does
not work, whenever it does not (`NoticedFor`); and that what the operator has
filled in is in the file or on its way there (`EditsInvariant`). Hence
`NothingSilent`, `EditsSurvive`, `LoneRunWorks`, `WorkingStay` and `TypeCorrect`.

*Only model-checked.* The four liveness properties (`Termination`,
`LogsGetProcessed`, `LoadsEnd`, `ChangesArrive`): they need ENABLED of
the fairness conditions, which the provers do not reason about. FeedParser has no
properties of its own: the runs of Ingestion and Pipeline go through it. The sort
of `build_dataset` and the sums over the report's groups are written without
recursion (places in the sorted list, pairs of a group and a number), so that
what they return follows from their definition; what a recursive definition
computes for every input takes an induction over data, which the installed
backends cannot carry out.

## 6. Where the code and its documentation disagree

With a run:

- `ingest_fatal`. `ingestion/load.py:8-9`, `README.md:102-103`: an unparseable
  line is rejected, never fatal. `_clf_time` (`ingestion/parse.py:103`) lets the
  `ValueError` of an impossible date through, and the whole feed fails, on every
  retry. The other grammars turn it into a `ParseError`.
- `workflow_reopened`. `Closed` has no transitions
  (`alerting/incident_manager.py:5-7`, `tests/test_alerting.py:149`). A session
  that read the incident before another one closed it reopens it: the read takes
  no lock and the update has no condition on the old status.
- `sync_late`. `sync_to_bigquery.py:10-11`: whatever is newer than the watermark
  is merged. The triggers stamp with the time the transaction began, so an
  update that commits after the query, but began before the newest one the query
  saw, is behind the watermark for good (until it changes again, or `--full`).

Met while modelling, without a run of their own:

- `random_time_at_hour` promises a time inside the window
  (`simulation/common.py:105`, "A timestamp inside [start, end)"). It draws from a
  full hour that begins in the window (`:119`), so that in the hour of the window's
  end the off-hours login is up to an hour past it. `WindowRespected` allows that,
  and the instance of `feed_truth` has it: its window ends in that hour.
- `README.md:67` promises an alert per off-hours login; the key is the user and
  the second (`rules_engine.py:171`), so two logins in one second are one alert.
- `README.md:66` promises an alert per rule, address and day; one batch makes
  one detection per address, of the day of its last failure
  (`rules_engine.py:126`), so that bursts on two days in one batch are one
  alert. `AttacksAlerted` asks for an alert about the address, and tolerates it.
- A backlog whose alerts, links or log ids need more bound parameters than a
  statement may have makes each of the job's cycles raise (`runner.py:60`,
  `alert_manager.py:52`); the schedule, which passes no `--limit`, never gets past
  it, and somebody has to work it off by hand. `BacklogFits` excludes it.
- A burst split over two batches may be below the threshold in each. By
  `--limit` it can be, which `WholeArrivals` and `AttacksAlerted` exclude
  through `limited`; the logs of one load are otherwise never split. Two loads
  may be.
- Between the query for counts and the one for the new watermark
  (`sync_to_bigquery.py:228`) a feed may commit that is then behind the
  watermark without having been counted; and of two syncs at a time one may merge
  what the other has staged. `LogsSyncedIfTrusted` and `AlertsSyncedIfTrusted`
  exclude both through `trusted`.
- After `--drop` the watermarks are still there, and incremental syncs fill in
  nothing that is behind them (`bigquery_schema.py:132-135`). Only a `--full` run
  does, which is what `AlertsSyncedIfTrusted` says of it.
- `.env.example` has both lines that `_rewrite_env` replaces; in a file without
  them a run with `--reset-passwords` changes the roles' passwords, writes them
  nowhere and reports success (`sql/bootstrap.py:76-81`). `LoneRunSetsUp`
  excludes it (`HasLines`).
- A run of the bootstrap that reads `.env` while another one has emptied it, and
  then writes, loses the file (`sql/bootstrap.py:150-153`), and both may end well.
  `EditsStay` excludes it through `hurt`, and `NothingBrokenInSilence` speaks of
  passwords that are there.
- A run of the bootstrap that dies between an ALTER ROLE and the write of `.env`
  leaves passwords that do not work in a file that looks complete. The next plain
  run raises in `_verify` and changes nothing; only `--reset-passwords` helps.
  `LoneRunSetsUp` speaks of runs that end well.
- `dashboard/app.py:367` says that a page was synchronised when it was drawn;
  its figures may be as old as the cache lets them be. `CurrentWhenQuiet` says
  how long: a cache lifetime, and the time that the query itself took.
- Renaming a rule in the table and seeding again makes a second rule of the old
  name beside it, as the upsert goes by name (`seed.py:85`).
- Overlapping sessions can leave a closed incident without a closing time, or an
  open one with one (`incident_manager.py:102`). `StampedIffClosed` excludes it
  through `overtaken`.
- `README.md:58-59` and `pipeline.yml:2` say that each stage logs its run; a
  stage that raises rolls its row back with the rest.
- `seed.py:3-10` calls the table of rules the sole authority; `pipeline.yml`
  seeds in every cycle, and the upsert (`seed.py:85`) puts tuned thresholds
  back.

## 7. What is not modelled, and the plan

Not modelled, as they keep no state a property could be about: rendering and the
regular expressions of the parser (a line is what they find in it), the web and
firewall generators (no rule looks at their events), grants, configuration,
dashboard layout and authentication, charts and text of the report beyond the
sections whose figures are compared. The report's remaining statements and the
dashboard's remaining charts work as those in Readers do.

Not modelled, though they have state:

- **The seed** (`detection/seed.py`, `mitre/technique_reference.py`): one upsert
  by name in one transaction. That it puts tuned thresholds back is what it is
  written to do; it takes no order of steps, so a model could only repeat the
  statement. The rules are constants of the other modules.
- **The dimension tables** of the sync: each is replaced as a whole in every
  run, and has no watermark. The names in `fact_alerts` that a rename leaves
  stale are a consequence of the triggers, which look at the row of `alerts`
  only.
- The **steps of the job before the simulator** (tests, schema, seed): a job
  that fails in them is one that has not started.

What could come next, in this order:

1. Pipeline with the sync behind it: 30 minutes after the job
   `bigquery_sync.yml` reads what the job has committed, and may begin while it
   is still running.
2. Readers over the tables of AnalystWorkflow and DetectionCycle themselves,
   where now their commits are actions of Readers.
3. Proofs: Pipeline over the tables of the engine and the feeds of the
   simulator, so that the scenarios of a feed are known to be alerted from
   `ScenariosDetected` and `AttacksNeverMissed` together. What is missing is the
   way of a line through the parser, from an event to its log.
4. What liveness rests on and can be proved: that whenever a cycle or a load is
   open, one of its steps is possible or it waits for one that is not waiting.
