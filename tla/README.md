# Verification of the MoMo fraud-detection data pipeline

TLA+ models, TLC runs and TLAPS proofs about the batch pipeline of this
repository: PostgreSQL → raw → staging → warehouse → mart, driven by Airflow,
Spark, Hive and dbt. The reference is the code; paths below are relative to
`src/`.

## 1. The system

| Component | State it keeps | Operations | What makes it correct |
|---|---|---|---|
| Daily DAG `airflow/dags/fraud_pipeline_dag.py` | runs, tasks, attempts | create a run per day (catchup, at most 4 active), run the chain of tasks, retry twice, fail the run, take the final branch | every run ends; every day is reached; a retry repairs what a failed attempt left; a finished day is complete in the mart |
| Ingestion `ingestion/base_ingester.py`, `jdbc_ingester.py` | raw tables in HDFS | delete and write an unpartitioned table; scan PostgreSQL and swap in every partition | a partition is a prefix of the source and keeps what no older scan can take back; no table stays missing |
| Raw gate `quality/checks/run_checks.py` | – | check one raw partition and `mcc_codes` | what was checked is what is cleaned, unless another run ingests in between |
| Cleaning `transformation/staging/clean_transactions.py`, `clean_transactions_full.py` | staging and quarantine of transactions | deduplicate by `_loaded_at`, split by `is_valid`, overwrite partitions | the newest version of each transaction that was read decides; one row per day; a rerun converges |
| Enrichment `enrich_transactions.py`, `enrich_transactions_full.py` | staging (in place) | join MCC, cards and labels; overwrite the partition that was read | can be repeated |
| Features `transformation/warehouse/build_fraud_features.py` | `feat_fraud_features` | read 8 days, compute windows, keep one day | computed from what staging holds, and all of the window |
| Metastore, `hive_msck_repair` | known partitions | add the partitions found | knows a partition before it is queried |
| dbt `dbt/models` | marts | rebuild tables from the partitions Hive knows | rows and features of finished days |
| Backfill `Makefile`, `scripts/run_e2e.sh` | the same tables | whole-history jobs, once | compatible with the daily DAG |
| Reference data `clean_users.py`, `clean_cards.py`, `build_dim_cards.py` | raw, staging and dimension of users and cards | overwrite partitions of the newest rows; rebuild the dimension | the dimension serves the newest version although stale rows stay |
| `build_dim_users.py` | history of users (SCD 2) | close and open versions, overwrite the table read | one current version, one answer for each time, the past is not rewritten |
| Compaction DAG `airflow/dags/compaction_pipeline_dag.py`, `compactor.py`, `vacuum_quarantine.py` | raw and quarantine, in place | merge files, drop resolved rows | put only the last day at risk, also beside the daily DAG and its own parallel tasks; its runs end |
| Amount parser, feature windows | – | pure functions | no guess, nothing legal rejected; daily and backfilled features agree |
| Source database, Hadoop, Trino, Superset, Docker | – | external | – |

Nothing connects two tasks but the lake. A Spark job lists the files of a table
when it calls `spark.read` and evaluates lazily, again for each action (write,
count); writing overwrites partitions of the table others, or it itself, read.
Hard behaviours therefore are: two runs of the DAG interleaved on the same
tables; retries that start from the effects of the failed attempt; static
overwrite, which deletes before it writes; dynamic overwrite, which replaces
only partitions present in the result; rows that arrive late, twice, corrected
or without key; and daily jobs on data the backfill made. `PROJECT.json` lists
each at its line under "hazards".

## 2. Modules

### `FraudDataPipeline` – the DAG over the lake
One action per task step. A task is split where it has a durable effect, or
reads something that it uses after another step:

| Code | Actions |
|---|---|
| scheduler: catchup, `max_active_runs` (DAG lines 40–48) | `CreateRun`, `SlotFree` |
| `default_args` (24–30) | `AttemptFails`, reached by `TaskRaises` (the step cannot succeed) and `Fault` (environment) |
| `ingest_all`: `jdbc_ingester.py` main, `_write` | `IngestMcc`, `IngestLabels` (delete, then write), `TxnScan`, `TxnCommit(d, p)` per partition, `IngestDone` |
| `validate_raw` | `ValidateRaw` with `RawChecksPass` |
| `clean_transactions` | `CleanList`, `CleanWrite`, `CleanQuarantine` |
| `enrich_transactions` | `EnrichRead`, `EnrichWrite`; the count after the write (`enrich_count`) can only raise (`StepRaises`) |
| `hive_msck_repair` | `HiveRepair` |
| `build_fraud_features` | `BuildRead`, `BuildWrite`, `BuildCount` (a second action, which may fail after the write) |
| `dbt_run`, `dbt_test`, `check_quarantine` | `DbtRun`, `DbtTest` (with `IdsUnique`; may raise on any data), `CheckQuarantine` |
| source and operators (external) | `SourceLoad`, `OperatorMarksEnriched` |

Contents are *generations*: the source only grows, a load per event day at a
time, so a raw or staged partition is the number of loads of that day it was
built from. A feature partition is the function of the generations of all days
it was computed from. A load is a set of kinds of row (`valid`, `bad`,
`nullid`, and `twin`, a valid row of one transaction that other days have too),
all the tasks' conditions can tell apart. `schema` records which columns a
staged partition has, because Spark takes the schema of the table from its
first file.

`dbt_test` fails, on every attempt, when two staged days hold a `twin` (the
`unique` test of `schema.yml`). Its other tests look at values the model leaves
out, such as the share of labelled rows, so on any data it may also raise
(`StepRaises`): the models promise nothing that rests on tests passing.

`met` is an auxiliary variable: of each day, the runs that were active while its
own was. No action reads it; the properties use it to say *when* a run that
others overlap is still safe.

`enrich_transactions` counts its frame after overwriting the files the frame
reads, so it raises on every attempt (finding 1) and no run would ever pass it.
`OperatorMarksEnriched` – an operator sees the partition enriched and marks the
task as successful – lets the rest of the chain be explored. It is external and
has no fairness.

`check_quarantine` compares a literal `0` (DAG line 111): `flag_quarantine` is
never taken. As both branches only print, the model has one outcome.

### `RawLayer` – what ingestion promises
The abstract specification: what the lake can be sure to keep of a day is a
prefix of the day's loads that only grows. A single partition does go back when
two runs ingest at a time (finding 4), so `FraudDataPipeline` refines the
abstract `raw` by `Floor`: the oldest of what a partition holds and of what the
running ingestions have scanned and still have to swap in. This holds for any
number of active runs (`ImplementsRawLayer`).

### `CleanTransactions` – the cleaning jobs at row level
Daily jobs and the backfill over rows `[id, day, ok, stamp]`. Ingestions scan
(`Scan`: what they have seen is a number of loads) and replace partitions later
and one by one (`Commit`), so a partition of raw may go back to an older scan
while jobs read it. A job lists its input once (`List`); each later action
(`WriteStaging`, `Count`, `WriteQuarantine`) chooses one of the results `Dedups`
allows, since `row_number` orders rows with the same `_loaded_at` arbitrarily.
The daily job writes and then counts, the backfill counts first. `JobEnds` at
any point is success, failure or kill, and a job may start again. `ok` stands for
the conditions of `_build_is_valid` that do not matter elsewhere (user and
amount); a NULL id and an unparsable date are modelled, since they decide
deduplication and partition.

Nothing in the code keeps the backfill from daily jobs (the Makefile and the DAG
are started by hand, one after the other). The model lets them overlap and
records in `crossed` which active jobs have; properties about what one job leaves
are about jobs that are not in it.

### `StagingLayer` – what cleaning promises
The abstract specification: a version of a transaction that is *kept* in a day
gives way only to one at least as new, and a transaction leaves a day only
because another version at least as new is known (rejected, or of another day).
Cleaning one day loses nothing of another, nor does a rerun or a job that stopped
half way. `CleanTransactions` implements it (`known` is `source`) with `kept` the
versions that cannot be undercut any more (`Secured`): staging and raw hold them
or newer ones, and so do the scans under way and the files of every active job.
Before that, a version in staging may give way to an older one, which an ingestion
with an older scan has brought back.

### `Dimensions` – users and cards
From the source to `dim_users` and `dim_cards`. Partitions of raw and staging
are attributes of the row (birth cohort, brand and expiry year) and are
overwritten dynamically, so a row whose partition changed leaves a stale one.

| Code | Actions |
|---|---|
| loads of `raw_users`, `raw_cards` (external) | `SourceLoad` |
| `UserJDBCIngester`, `CardJDBCIngester` | `StartIngest` (the constructor, which takes `_ingested_at`), `Scan`, `Commit`, `IngestFails` |
| `clean_users.py`, `clean_cards.py` | `CleanUsers`, `CleanCards` (`NewestLoaded`: `row_number` by `_loaded_at`) |
| `build_dim_cards.py` | `DeleteDimCards`, `WriteDimCards` (`NewestIngested`), `DimCardsFails` |
| `build_dim_users.py` | `StartDimUsers`, `DeleteDimUsers`, `WriteDimUsers` with `UnchangedRows`, `RowsToClose`, `NewRows`; `MergeCannotRead`, `DimUsersFails` |

A run builds its ingesters before the first of them works, and several runs are
active, so the order of the stamps need not be that of the scans: of two
ingesters beside each other the one with the later `_ingested_at` may carry the
older rows, and `build_dim_cards`, which orders by it, then serves them. The
variable `overlapped` records the ingesters to which this may happen;
`DimCardsNewest` is about the others.

A dimension has no partitions, so `mode("overwrite")` is static: the directory is
deleted, then tasks compute the rows. `build_dim_users` reads what it deletes;
whether a task still finds its input is left open (`WriteDimUsers` or
`MergeCannotRead`), which covers the case that blocks were cached. Each branch
of its union evaluates `dropDuplicates` for itself and may keep other rows.

### `UserHistory` – what a history promises
The abstract specification for readers of "valid_from <= date < valid_to": a
user has at most one value at a time; a build extends the answer from its time
on; an answer about the past may be lost, never replaced by a different one.
`Dimensions` implements it: `asOf` is computed from the versions a reader finds
(`Served`: the old ones while a build replaces the table), `clock` is the
number of builds.

### `StorageMaintenance` – the compaction DAG beside the daily DAG
Contents of partitions do not matter, only whether they exist and whether the
files an attempt listed are still there.

| Code | Actions |
|---|---|
| `compaction_pipeline_dag.py`: schedule, groups, trigger | `CompactionStart`, `DailyGroupDone`, `CompactionEnds` |
| `compactor.py` main, `compact_yesterday`, `compact_day` | `ReadPartition`, `CountRows`, `DeletePartition`, `AttemptRaises` (task fails or is retried) |
| `vacuum_quarantine.py` | `VacuumRead`, `VacuumCommit`, `VacuumRaises` (no quarantine yet, or listed files replaced by a cleaning; retried, then failed) |
| daily DAG as far as it meets these tables | `DailyStart`, `IngestPartition`, `IngestRetried`, `DailyClean`, `CleanAgain` |
| clock | `Midnight`, at any time, also during an attempt (`overrun` records the day it works on) |

All five compactor tasks run the same `main` on the same partition of
`raw/transactions`, and an attempt takes *yesterday* from its own clock. The
overwrite is of one directory without partition columns below it, so it
deletes the rows it has yet to read; there is no successful write of an
attempt that found a partition.

### `AmountParser`, `FeatureWindows`, `RowRules` – pure rules
`AmountParser.ParseAmount` follows `parse_amount` branch by branch on the shape
of a text: groups of digits, separators, currency, junk. The digits are the
same under any reading; what the parser decides is how many of them are a
fraction. Its reference is `Conventions` and `Writes`: how the amounts of
`AmountFormat` are written. `FeatureWindows` has the velocity windows of
`build_fraud_features` (daily, from the lookback) and
`build_fraud_features_full` (from everything). `RowRules` enumerates inputs as
states and states the properties of both.

### `MC…` modules, configurations and `…_proofs`
`MC…` modules define the loads and rejected rows of the small instances; every
run has a `.cfg` of its own name. The five `…_proofs` modules hold the theorems.

## 3. Runs

| Run | Instance | Shows |
|---|---|---|
| `PipelineConcurrent` | 2 days, 2 active runs, 1 retry, 2 loads a day with and without a NULL id, 2 faults | `FeaturesMatchStaging`, `MissingTableIsIngests`, `MartKeepsFinishedDays`, `GateHolds`, `LookbackComplete`, `BuildBlockedByEarlierDay`, `RunsOnlyAdvance`, `ImplementsRawLayer` |
| `PipelineProgress` | 3 days, 2 active runs, 1 retry, loads of a transaction that every day has | liveness `EveryRunEnds`, `CatchupReachesEveryDay` |
| `CleanRerun` | 2 days and rows without a day, 2 ids and NULL, 2 loads of one or two rows, any scans, 2 active jobs | `StagedOncePerDay`, `NewestDecides`, `WithdrawnLeaves`, `BackfillUnique`, `ImplementsStagingLayer` |
| `Dimensions` | 2 users, 1 card, NULL ids, 2 partitions, 2 values, 3 loads, ingesters and builds, 1 fault | `OneCurrent`, `DimCardsNewest`, `SnapshotServed`, `ImplementsUserHistory` |
| `StorageMaintenance` | 3 days, 2 compactors, 1 tierer, 1 retry, 1 day with rejected rows, 1 failed ingestion | `OlderPartitionsPresent`; liveness `LossIsRepaired`, `CompactionRunsEnd` |
| `RowRules` | groups of 0, 1, 3, 4 digits, up to 3 separators; 3 transactions of 2 users on 4 days of 3 seconds | `NeverGuesses`, `NeverInvalid`, `LookbackSuffices` |
| `EnrichFailsRun` | 2 retries, no faults | finding 1 |
| `BackfilledLake` | no faults, backfilled lake | finding 2 |
| `MartLag` | no faults | finding 3 |
| `RawRegression` | 2 active runs, no faults | finding 4 |
| `StaleQuarantine` | 1 day, 1 id, 2 loads | finding 5 |
| `HistoryLost` | 1 user, no faults | finding 6 |

Each module's type invariant is checked once, in the passing run of that module.

**Bounds.** Two days give a neighbour in the lookback window, a second run to
interleave and another partition in the same commit; two loads give an older
and a newer generation; two faults exhaust the one retry (a run fails) or hit
two tasks or two runs; one retry instead of two only shortens chains of
identical attempts, and the violation runs use the code's two. Lookback 1
instead of 7 has a day inside and, for day 1, days outside. Two active runs are
the least that interleave; the theorems of section 4 need no bound. `PipelineProgress`
has a third day, so that catchup must wait for a slot, and no faults: a fault
only spends an attempt, of which there is a bounded number
(`RunsOnlyAdvance`, checked with faults in `PipelineConcurrent`), and attempts
raise without any, in the gate, the enrichment, the build and the dbt tests.

In `CleanRerun` two loads give late, corrected and repeated versions and an older
and a newer scan, pairs of one id give ties, and two valid rows of a day let one
be withdrawn while the other stays; at most two jobs (`MaxActive`) are
active at once, two days, or a day and the backfill. The two days are
interchangeable, so are the ids (`SYMMETRY`, no liveness in that run). In
`Dimensions` three loads, ingesters and builds let a user change, change back and
meet a failed build, a card be renewed twice, and ingesters overlap and run
alone; two users are interchangeable. Users and cards share no state but the
counters, so the constraint `OneTable` follows one of the two tables at a time.
In `StorageMaintenance` two compactors delete in parallel (a third of the same
program adds no order of two), the tierer repeats them later, three days give
one that must exist, one at risk and a midnight between two attempts or within
one; a day with rejected rows gives a vacuum that works, one without a
quarantine and one whose
files a cleaning replaces. In `RowRules` 0, 1, 3 and 4 digits are the
lengths the parser and the conventions tell apart (none, few, a group of
thousands, too many) and three separators give two kinds with one repeated;
windows of an hour, a day and 2 days with a lookback of 2 days are ordered as
the code's 1, 24 and 168 hours with 7 days. Deadlock is not checked: the system
stops when all runs have ended and the bounded loads are used up.

**When runs overlap.** The code allows four active runs, and with two some of
what one expects of a run alone is false; the properties name the exception
instead of assuming it away:

- Another run's ingestion may replace the raw partition between `validate_raw` and
  `clean_transactions`, and bring a row with a NULL id. `GateHolds`: for a day
  whose run met no other, this does not happen, whatever is retried.
- A neighbour may be cleaned again after its rows were read. `LookbackComplete`:
  features are complete but for the days whose runs the run met.
- A neighbour that is cleaned and not enriched takes the label columns from the
  build (its first file gives the schema). `BuildBlockedByEarlierDay`: nothing
  else does, but such a day does so as long as it is left, also after its run failed.
- Another run's ingestion with an older scan takes raw back (finding 4);
  `ImplementsRawLayer` and `ImplementsStagingLayer` say what is safe from it.
- An ingester of cards that ran beside another one may have the later stamp and the
  older rows (`DimCardsNewest`).

**Fairness.** Weak fairness of `CreateRun` and of `Step` of every run: the
Airflow scheduler loop creates due runs while a slot is free and starts the next
task, and a started Spark or dbt task ends. None for loads, faults or operators.
`StorageMaintenance` has weak fairness of `Midnight` (time passes), `DailyStep`
(the daily DAG), `TaskStep` of each task and `RunStep` (the scheduler of the
compaction DAG); none for repeated cleanings or failed ingestions.

### Findings
1. `enrich_transactions.py:111` raises after its overwrite, the retry cannot
   read what was written, so the run fails although the task calls itself
   idempotent (line 35).
2. On a backfilled lake `build_fraud_features.py:106` selects `is_fraud`, which
   the first files of staging do not have; the DAG says it continues a backfill
   (`fraud_pipeline_dag.py:7-8`).
3. `hive_msck_repair` precedes `build_fraud_features` (DAG lines 131–132), so
   the mart of a day has its rows without its features.
4. `_write` puts older data in place of newer with two active runs
   (`base_ingester.py:158` says "data mới nhất").
5. A rerun that rejects nothing leaves the old quarantine partition
   (`clean_transactions.py:272`, comment at 273–274).
6. The second build of `dim_users` deletes the versions it has still to read
   (`build_dim_users.py:155`; lines 13 and 138 say the history is kept).

Seen while modelling, without a run of their own:

- Every compaction deletes yesterday's raw partition and its attempt raises;
  the retry finds no partition and reports success (`compactor.py:64`; line 8
  says "atomic"). The next `ingest_all` restores it, which is what `LossIsRepaired`
  shows. The DAG starts at 03:00 whether or not the daily DAG has ended, although
  `compaction_pipeline_dag.py:4` says after it.
- The tasks of the tiering group run `compact_yesterday` too; nothing calls
  `compact_month`. `check_monthly_trigger` returns a Boolean from a
  PythonOperator and never skips anything.
- The vacuum never removes a day whose rows have all expired or been resolved:
  a dynamic overwrite with an empty result replaces nothing, although
  `vacuum_quarantine.py:2` and `:47` and `compaction_pipeline_dag.py:74` say such
  rows are deleted. For the same reason a day of staging keeps its rows when a
  rerun accepts none, the case `WithdrawnLeaves` excepts.
- The vacuum writes a day back as it has read it (`vacuum_quarantine.py:41`): a row
  that a cleaning rejects into it between read and commit is lost if the vacuum's
  tasks had read the old files.
- `vacuum_quarantine.py:26-27` has no handler: while nothing has ever been rejected
  every attempt of the task fails, and the run with it.
- A compaction that is still under way at midnight deletes what is by then the
  day before yesterday, possibly after the ingestion of the next day has restored
  it; `OlderPartitionsPresent` and `LossIsRepaired` except it (`overrun`).
- A day whose raw partition the compaction has deleted cannot be cleaned:
  `clean_transactions` fails until an ingestion restores it (`DailyClean`). The two
  DAGs meet only in `StorageMaintenance`.
- With two runs active, `hive_msck_repair` of the later one may bring the features
  of the earlier day to the mart after all; finding 3 is about runs alone.
- `build_dim_users.py:139-143` drops the closed versions of a user who changes
  again; `UserHistory` therefore allows loss.
- Renewed cards leave a row in the partition they left: `enrich_transactions`
  (line 67) takes an arbitrary one, and the dbt test `unique` of `stg_cards.card_id`
  counts both.
- dbt's `dim_users.sql:34` appends rows with the highest `_batch_id` of the table
  itself: nothing when it is empty, the same rows again in each run when not.
  `dim_cards.sql` appends all cards in each run.
- The parser reads "12.05.2019" as an amount with two separators, and the
  minus inside the parentheses of "(-500)" is applied twice.
- `amount_vs_user_avg_ratio` divides by the average of 8 days in the daily job and
  by that of a lifetime in the backfill, under the same comment.

## 4. Proofs

For any values of the constants that satisfy `ConstantsAssumption`:

- `FraudDataPipeline_proofs`
  - `TypeCorrect`. The type invariant includes the length of the source's
    sequences, which bounds every generation.
  - `FeaturesMatchStagingHolds`. Not inductive: success says nothing of the
    steps before. `OwnDayInv` says, for each place of a run in its chain, what
    it relies on of its *own* day (a staged generation exists before enrichment
    writes, the partition is enriched from the repair on, the generation read
    is the one staged, ...). `OtherDaysUntouched` is the frame: a step of a run
    changes nothing of that kind for another day, which is why the theorem
    needs no bound on concurrent runs.
  - `MartKeepsFinishedDaysHolds`, with `CatalogInv`: past the repair the
    metastore knows the partition, and it never forgets one.
  - `MissingTableIsIngestsHolds`, with `MissingInv`: the run that deleted a
    missing table is still at a step from which it writes it again.
  - `RawLayerImplemented`, the refinement of `RawLayer` for any number of active
    runs: a step that swaps a partition in, or ends an ingestion, replaces the
    held generations of a day by some of them, and a new scan is the newest
    (`HeldStep`, `FloorNeverFalls`, with `GrownInv`: no generation is newer than
    the source).
  - `GateHoldsUnlessRunsMeet`, with `GateInv`: while a run that met no other is
    between the gate and the end of its cleaning, in any attempt, its raw
    partition, what it has read and what it staged are free of NULL ids.
    `MetInv`: runs that are active together have met.
  - `LookbackCompleteUnlessRunsMeet`, with `WindowInv`: runs are created in the
    order of days, so no later day looked at a day whose run may still stage
    rows without meeting that run, and what was read of a window is still staged.
  - `BuildBlockedByEarlierDayHolds`, with `HalfDoneInv`: a staged day that is not
    enriched has its run between cleaning and enrichment, or failed there. The build's own
    day is enriched (`OwnDayInv`), so the first staged day is an earlier one.
  - `RunsOnlyAdvanceHolds`: every step of a run goes to a later task, a further
    attempt, a later step of the attempt, or fewer partitions to commit; a
    revived run is at a later task than the one it failed at. With `TypeOK`, which
    bounds the attempts, this is the safety half of `EveryRunEnds`; the other
    half, that an enabled step is taken, is fairness.
  - What three of the findings say, for all constants and not of one trace:
    `BackfilledRunsNeverSucceed` (on a backfilled lake no run ever succeeds,
    whatever is retried or marked), `UnattendedRunsNeverSucceed` (without
    `OperatorMarksEnriched`, none does, with any number of retries) and
    `MartLagsUnlessRunsMeet` (the features of a day whose run met no other are not
    in the mart when it ends; `LagInv`: the metastore does not know a
    feature partition of such a day while its run is active).
- `CleanTransactions_proofs`
  - `TypeCorrect`, with `FromSource`: raw, staging, quarantine and the inputs of
    jobs hold only rows the source has committed.
  - `StagedOncePerDayHolds`, inductive as it stands.
  - `NewestDecidesHolds`, with `NewestInv` (what has been written so far at each
    place of a job) and `Exclusion` (a job that has not met the backfill is alone
    in its partitions). It speaks of each transaction by itself: a tie of another
    one of the same load takes nothing away, and of a transaction whose tied
    versions are all valid, or all rejected, one is where it belongs.
  - `WithdrawnLeavesHolds`, with `WithdrawnInv`: a written day that surely has a
    row to accept holds newest accepted rows only.
  - `BackfillUniqueHolds`, with `BackfillInv`: staging stays empty until the
    backfill writes.
  - `StagingLayerImplemented`, the refinement of `StagingLayer`: everything a job
    may still write from has a secured version or a newer one, so a write leaves
    it or a withdrawal (`SecuredByWrite`); a commit, however old its scan, has
    seen all that is secured (`SecuredStays`).
- `Dimensions_proofs`
  - `TypeCorrect`, with `RawOfSource` and `DimsOfSource`: raw, staging and
    `dim_cards` hold rows as the source committed them, and each version of
    `dim_users` has the attributes of some load.
  - `DimCardsNewestHolds`, with `CardsInv`. The cleaning chooses by `_loaded_at`
    and the dimension by `_ingested_at`. The invariant is that for rows of an
    ingester that was alone the two orders agree: such an ingester has scanned
    after everything published before it (`AloneSawAll`), any scan that goes on
    beside or after it has seen its predecessors (`ScanSawOlder`), and raw holds
    nothing older behind it (`OlderInRaw`), so neither does staging
    (`LaterIngestedNewer`).
  - `OneCurrentHolds`: staging has one row of a user (`OneStaged`, from users
    that keep their cohort), so the three evaluations of the snapshot agree on
    users with an id (`SnapshotsAgree`), and whoever gets a new version had the
    old one closed.
  - `SnapshotServedHolds`: a staged row is inserted when it is new or changed;
    otherwise its current version is kept (`VersionsWritten`). It says that
    no change, change back, row without an id or failed build makes a build
    forget a staged user; with `OneStaged` the evaluations have nothing to choose.
  - `UserHistoryImplemented`, the refinement of `UserHistory`: `HistoryInv` adds
    `ValidityInv` – a current version has no end, a closed one ended no later
    than the latest build, and a build has found exactly what it deletes – and
    `WriteRecords` shows that what a build writes is a `Record` of the abstract
    history.
- `StorageMaintenance_proofs`
  - `TypeCorrect`; `OlderPartitionsPresentHolds`, with `PartitionsInv`: an attempt
    threatens the day before today or a day it works on over a midnight
    (`TargetsYesterday`), no ingestion has scanned a later one (`ScansArePast`),
    and of the older days a running ingestion scanned those exist that it has not
    still to write (`WrittenPresent`).
- `RowRules_proofs`: `NeverGuessesHolds` and `NeverInvalidHolds` for texts of any
  length (`ParsedAsWritten` by the branches of the parser);
  `LookbackSufficesHolds` for any length of the day and the hour and any lookback of
  at least the widest window: nothing a window of the day reaches is outside
  the lookback, so the sets, and their counts, are equal.

The theorems assume `ConstantsAssumption` of their module and nothing about
schedules: no bound on active runs, jobs, ingesters or retries. Of the constants,
one is an assumption about people: users keep their birth cohort
(`ConstantsAssumption` of `Dimensions`), without which staging has two rows of a
user. One run of each DAG is active in `StorageMaintenance`; the day of a
partition is the day of the timestamp in UTC in `FeatureWindows`.

Only model-checked: the liveness properties `EveryRunEnds`,
`CatchupReachesEveryDay`, `LossIsRepaired` and `CompactionRunsEnd`, since fairness
and ENABLED are out of the prover's reach. What the violation runs refute is not
provable; what holds in its place is (`ImplementsRawLayer` for `RawNeverRegresses`,
`BuildBlockedByEarlierDay` for `BuildFailsOnlyByFault` on a lake without a backfill).

## 5. Abstractions and what is not modelled

- The swap of one partition is atomic, so is the rebuild of a mart. A job that
  reads a file another job has just replaced fails; that is a `Fault`
  (`JobEnds` at row level).
- The scan of PostgreSQL is one snapshot; the code runs several queries.
- An attempt Airflow has given up is dead: no zombie writes after its retry.
- Days are numbered in path order of their partitions (true within a month for
  days of one digit; `day=10` sorts before `day=2`).
- `staging/mcc_codes` exists, although no task writes it (`clean_mcc.py` is in
  neither the DAG nor the Makefile).
- Users and cards are ingested by the same task as transactions, but no step of
  the DAG depends on them; `Dimensions` has them apart. Their tables are published
  at once, and a cleaning ends before the build of its table starts: both are
  started by hand.
- A failed ingestion of users or cards that leaves some partitions is left out.
- What the dbt tests other than `unique` compute: they may fail on any data. The
  dbt models other than `fraud_features` read tables and feed nothing.
- The rows of quarantine and which of them the vacuum keeps.
- What `float()` takes beyond digits and a decimal point (exponents, underscores,
  an inner sign, `nan`, `inf`): no convention writes it, and `AmountParser` counts
  it as junk. `-$5.00`, a sign before the currency, is in none of the conventions
  either: the parser calls it INVALID, and `NeverInvalid` does not ask for it.
- `enrich_transactions_full` – ten overwrites in place, once, before the DAG
  starts – is known by the schema it leaves (`Backfilled`).
- `compact_month`: nothing calls it. `clean_mcc.py`: one static overwrite by hand.
- The averages, ratio, flags and risk score of `build_fraud_features`: arithmetic
  on one row or one group, without a boundary that two jobs disagree about but
  the one named above.
- Casts, bands, masks, formats, columns and counts that only go to the log.
- How Spark splits the scan of PostgreSQL into ranges and queries is its own.
- Configuration, schemas, Docker, Hadoop, Trino and Superset files carry no
  state of the program.

## 6. What could follow

The plan of the project – the DAG, the row-level jobs, storage maintenance, the
dimensions, the pure rules, their proofs – is carried out. What is left is
listed in section 5. Worth adding when the code changes: an
`enrich_transactions` that can be repeated makes `OperatorMarksEnriched`
unnecessary; a `build_dim_users` that writes beside its input makes
`HistoryKept` a property of a passing run; a compactor that writes beside its
input needs the contents of raw partitions in `StorageMaintenance`; dbt's
dimensions in the mart need rows per user in `FraudDataPipeline`.
