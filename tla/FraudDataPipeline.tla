-------------------------- MODULE FraudDataPipeline --------------------------
(***************************************************************************)
(* The daily DAG fraud_data_pipeline (airflow/dags/fraud_pipeline_dag.py)  *)
(* and the Spark, Hive and dbt jobs its tasks start, over the data lake    *)
(* they share.                                                             *)
(*                                                                         *)
(* Airflow creates one DAG run per logical day.  A run executes a fixed    *)
(* chain of tasks; up to MaxActiveRuns runs execute at the same time and a *)
(* failed task is retried from its beginning, so every durable effect of   *)
(* the failed attempt is still in the lake when the next attempt starts.   *)
(* Nothing but the lake connects two tasks: each job lists the files of a  *)
(* table when it calls spark.read and overwrites partitions later.         *)
(*                                                                         *)
(* Contents are abstracted to generations.  The source table only grows, a *)
(* load of rows for one event day at a time, so the content of a partition *)
(* of the raw or the staging layer is a number: how many loads of that day *)
(* it was built from (0: the partition does not exist).                    *)
(***************************************************************************)
EXTENDS Naturals, Sequences, FiniteSets

CONSTANTS
  LastDay,        \* the logical days are 1..LastDay
  MaxActiveRuns,  \* max_active_runs of the DAG
  Retries,        \* default_args["retries"]
  Lookback,       \* days before its own that build_fraud_features reads
  Backfilled,     \* the *_full jobs of the Makefile have staged older days
  Loads,          \* the kinds of load the source may receive
  MaxLoads,       \* bound: loads per day
  MaxFaults       \* bound: attempts lost to the environment

(* What a load may contain: rows that pass is_valid, rows that do not, rows *)
(* whose id is NULL, and a valid row of one transaction that the source    *)
(* loads under more than one day.                                          *)
RowKinds == {"valid", "bad", "nullid", "twin"}

ASSUME ConstantsAssumption ==
  /\ LastDay \in Nat \ {0}
  /\ MaxActiveRuns \in Nat \ {0}
  /\ Retries \in Nat
  /\ Lookback \in Nat
  /\ Backfilled \in BOOLEAN
  /\ Loads \subseteq (SUBSET RowKinds) \ {{}}
  /\ MaxLoads \in Nat
  /\ MaxFaults \in Nat

Days == 1..LastDay
UnpartitionedTables == {"mcc", "labels"}

(* The steps of the tasks, in the order of the chain: a step ends at a     *)
(* durable effect, or at a read whose result is used after another step.   *)
IngestSteps == {"mcc_drop", "mcc_write", "labels_drop", "labels_write",
                "txn_scan", "txn_commit"}
CleanSteps  == {"clean_list", "clean_write", "clean_quarantine"}
EnrichSteps == {"enrich_read", "enrich_write", "enrich_count"}
BuildSteps  == {"build_read", "build_write", "build_count"}
DbtSteps    == {"dbt_run", "dbt_test", "check_quarantine"}
Steps == IngestSteps \union {"validate_raw"} \union CleanSteps
           \union EnrichSteps \union {"hive_msck_repair"} \union BuildSteps
           \union DbtSteps

VARIABLES
  source,        \* raw_transactions in PostgreSQL: day -> sequence of loads
  raw,           \* raw/transactions: day -> generation
  tables,        \* the raw tables without partitions that exist
  staged,        \* staging/transactions: day -> generation
  schema,        \* columns of a staged partition: after clean, after enrich
  quarantine,    \* days with a quarantine partition
  feats,         \* feat_fraud_features: day -> generations it was computed from
  hiveStaging,   \* partitions of staging.transactions the metastore knows
  hiveFeats,     \* partitions of feat_fraud_features the metastore knows
  martRows,      \* days with rows in the mart fraud_features
  martFeats,     \* days whose rows in the mart carry features
  state,         \* state of the DAG run of a day
  pc,            \* the step the run is at
  tries,         \* attempts of the current task that failed
  seen,          \* generations the current attempt has read
  todo,          \* raw partitions the current attempt has still to swap in
  faults,        \* attempts lost to the environment so far
  met            \* auxiliary: the runs that ran while the run of a day did

lake    == <<raw, tables, staged, schema, quarantine, feats>>
catalog == <<hiveStaging, hiveFeats, martRows, martFeats>>
attempt == <<seen, todo>>
vars    == <<source, lake, catalog, state, pc, tries, attempt, faults, met>>

Generations == 0..MaxLoads
NothingSeen == [e \in Days |-> 0]

TypeOK ==
  /\ source \in [Days -> Seq(Loads)]
  /\ \A d \in Days : Len(source[d]) \in Generations
  /\ raw \in [Days -> Generations]
  /\ tables \subseteq UnpartitionedTables
  /\ staged \in [Days -> Generations]
  /\ schema \in [Days -> {"none", "clean", "enriched"}]
  /\ quarantine \subseteq Days
  /\ feats \in [Days -> [Days -> Generations]]
  /\ hiveStaging \subseteq Days
  /\ hiveFeats \subseteq Days
  /\ martRows \subseteq Days
  /\ martFeats \subseteq Days
  /\ state \in [Days -> {"none", "running", "success", "failed"}]
  /\ pc \in [Days -> Steps]
  /\ tries \in [Days -> 0..Retries]
  /\ seen \in [Days -> [Days -> Generations]]
  /\ todo \in [Days -> SUBSET Days]
  /\ faults \in 0..MaxFaults
  /\ met \in [Days -> SUBSET Days]

-----------------------------------------------------------------------------
(* The data                                                                *)

(* The first g loads of day d contain a row of kind k.                     *)
Contains(d, g, k) == \E i \in 1..g : k \in source[d][i]

StagedDays == {d \in Days : staged[d] > 0}

(* spark.read infers the schema of staging/transactions from its first     *)
(* file in path order (mergeSchema is false), whichever days the job will  *)
(* keep.  is_fraud and card_on_dark_web, which build_fraud_features        *)
(* selects, are columns of a partition that enrich_transactions wrote.  The *)
(* partitions a backfill staged are older, so they come first, and neither *)
(* clean_transactions_full nor enrich_transactions_full adds is_fraud.     *)
SchemaHasLabels ==
  /\ ~Backfilled
  /\ \E s \in StagedDays :
       /\ \A t \in StagedDays : s <= t
       /\ schema[s] = "enriched"

(* Day e is one of the days build_fraud_features reads for day d.         *)
InLookback(e, d) == e <= d /\ d <= e + Lookback

-----------------------------------------------------------------------------
(* The scheduler                                                           *)

(* Mutant: a failed run keeps its slot.                                    *)
MutantFailedRunsKeepSlot == {d \in Days : state[d] \in {"running", "failed"}}

ActiveRuns == {d \in Days : state[d] = "running"}

SlotFree == Cardinality(ActiveRuns) < MaxActiveRuns

Init ==
  /\ source = [d \in Days |-> << >>]
  /\ raw = [d \in Days |-> 0]
  /\ tables = UnpartitionedTables
  /\ staged = [d \in Days |-> 0]
  /\ schema = [d \in Days |-> "none"]
  /\ quarantine = {}
  /\ feats = [d \in Days |-> NothingSeen]
  /\ hiveStaging = {} /\ hiveFeats = {}
  /\ martRows = {} /\ martFeats = {}
  /\ state = [d \in Days |-> "none"]
  /\ pc = [d \in Days |-> "mcc_drop"]
  /\ tries = [d \in Days |-> 0]
  /\ seen = [d \in Days |-> NothingSeen]
  /\ todo = [d \in Days |-> {}]
  /\ faults = 0
  /\ met = [d \in Days |-> {}]

(* A transaction commits rows of event day d in the source database; they  *)
(* may arrive long after the day, before or after its run.                 *)
SourceLoad(d, load) ==
  /\ Len(source[d]) < MaxLoads
  /\ source' = [source EXCEPT ![d] = Append(@, load)]
  /\ UNCHANGED <<lake, catalog, state, pc, tries, attempt, faults, met>>

(* The run of day d joins the active runs, and they meet each other.  (The *)
(* variable records this for the properties; no action reads it.)          *)
Meets(d) ==
  met' = [e \in Days |->
            IF e = d THEN met[d] \union ActiveRuns
            ELSE IF e \in ActiveRuns THEN met[e] \union {d} ELSE met[e]]

(* catchup=True: a run for every logical day, in order, while a slot of    *)
(* max_active_runs is free.                                                *)
CreateRun(d) ==
  /\ state[d] = "none"
  /\ \A e \in Days : e < d => state[e] # "none"
  /\ SlotFree
  /\ state' = [state EXCEPT ![d] = "running"]
  /\ Meets(d)
  /\ UNCHANGED <<source, lake, catalog, pc, tries, attempt, faults>>

At(d, step) == state[d] = "running" /\ pc[d] = step

(* The attempt goes on, or its task succeeds and the next task starts.     *)
Goto(d, step) ==
  /\ pc' = [pc EXCEPT ![d] = step]
  /\ UNCHANGED <<state, tries>>

NextTask(d, step) ==
  /\ pc' = [pc EXCEPT ![d] = step]
  /\ tries' = [tries EXCEPT ![d] = 0]
  /\ UNCHANGED state

Forget(d) ==
  /\ seen' = [seen EXCEPT ![d] = NothingSeen]
  /\ todo' = [todo EXCEPT ![d] = {}]

FirstStep(step) ==
  CASE step \in IngestSteps -> "mcc_drop"
    [] step \in CleanSteps  -> "clean_list"
    [] step \in EnrichSteps -> "enrich_read"
    [] step \in BuildSteps  -> "build_read"
    [] OTHER                -> step

(* Mutants: one retry too many; retries are not counted.                   *)
MutantRetriesOffByOne(d) ==
  /\ IF tries[d] <= Retries
       THEN /\ tries' = [tries EXCEPT ![d] = @ + 1]
            /\ pc' = [pc EXCEPT ![d] = FirstStep(@)]
            /\ UNCHANGED state
       ELSE /\ state' = [state EXCEPT ![d] = "failed"]
            /\ UNCHANGED <<pc, tries>>
  /\ Forget(d)
  /\ UNCHANGED <<source, met, lake, catalog>>

MutantRetriesForever(d) ==
  /\ pc' = [pc EXCEPT ![d] = FirstStep(@)]
  /\ UNCHANGED <<state, tries>>
  /\ Forget(d)
  /\ UNCHANGED <<source, met, lake, catalog>>

(* An attempt of the current task failed: run the task again from its      *)
(* first step, or, after `retries` retries, fail the run.                  *)
AttemptFails(d) ==
  /\ IF tries[d] < Retries
       THEN /\ tries' = [tries EXCEPT ![d] = @ + 1]
            /\ pc' = [pc EXCEPT ![d] = FirstStep(@)]
            /\ UNCHANGED state
       ELSE /\ state' = [state EXCEPT ![d] = "failed"]
            /\ UNCHANGED <<pc, tries>>
  /\ Forget(d)
  /\ UNCHANGED <<source, met, lake, catalog>>

-----------------------------------------------------------------------------
(* ingest_all: jdbc_ingester.py                                            *)

(* A table without partition columns is overwritten statically: its path   *)
(* is deleted before the write job runs.                                   *)
DropTable(d, table, from, to) ==
  /\ At(d, from)
  /\ tables' = tables \ {table}
  /\ Goto(d, to)
  /\ UNCHANGED <<source, met, raw, staged, schema, quarantine, feats, catalog,
                 attempt, faults>>

WriteTable(d, table, from, to) ==
  /\ At(d, from)
  /\ tables' = tables \union {table}
  /\ Goto(d, to)
  /\ UNCHANGED <<source, met, raw, staged, schema, quarantine, feats, catalog,
                 attempt, faults>>

IngestMcc(d) ==
  \/ DropTable(d, "mcc", "mcc_drop", "mcc_write")
  \/ WriteTable(d, "mcc", "mcc_write", "labels_drop")

(* Mutant: the old files are deleted after the write.                      *)
MutantDropAfterWrite(d) ==
  \/ WriteTable(d, "labels", "labels_drop", "labels_write")
  \/ DropTable(d, "labels", "labels_write", "txn_scan")

IngestLabels(d) ==
  \/ DropTable(d, "labels", "labels_drop", "labels_write")
  \/ WriteTable(d, "labels", "labels_write", "txn_scan")

(* The whole of raw_transactions is read, not the rows of day d.           *)
TxnScan(d) ==
  /\ At(d, "txn_scan")
  /\ seen' = [seen EXCEPT ![d] = [e \in Days |-> Len(source[e])]]
  /\ todo' = [todo EXCEPT ![d] = {e \in Days : Len(source[e]) > 0}]
  /\ Goto(d, "txn_commit")
  /\ UNCHANGED <<source, met, lake, catalog, faults>>

(* Mutant: every partition is given the content of the run's own day.      *)
MutantCommitOwnDay(d, p) ==
  /\ At(d, "txn_commit")
  /\ p \in todo[d]
  /\ raw' = [raw EXCEPT ![p] = seen[d][d]]
  /\ todo' = [todo EXCEPT ![d] = @ \ {p}]
  /\ UNCHANGED <<source, met, tables, staged, schema, quarantine, feats,
                 catalog, state, pc, tries, seen, faults>>

(* Dynamic partition overwrite: the partitions that have rows are swapped  *)
(* in one after the other, every other partition stays as it is.           *)
TxnCommit(d, p) ==
  /\ At(d, "txn_commit")
  /\ p \in todo[d]
  /\ raw' = [raw EXCEPT ![p] = seen[d][p]]
  /\ todo' = [todo EXCEPT ![d] = @ \ {p}]
  /\ UNCHANGED <<source, met, tables, staged, schema, quarantine, feats,
                 catalog, state, pc, tries, seen, faults>>

IngestDone(d) ==
  /\ At(d, "txn_commit")
  /\ todo[d] = {}
  /\ NextTask(d, "validate_raw")
  /\ Forget(d)
  /\ UNCHANGED <<source, met, lake, catalog, faults>>

-----------------------------------------------------------------------------
(* validate_raw: run_checks.py --layer raw                                 *)

(* Mutant: null_id_count is not looked at.                                 *)
MutantNoNullCheck(d) == raw[d] > 0 /\ "mcc" \in tables

RawChecksPass(d) ==
  /\ raw[d] > 0
  /\ ~Contains(d, raw[d], "nullid")
  /\ "mcc" \in tables

ValidateRaw(d) ==
  /\ At(d, "validate_raw")
  /\ RawChecksPass(d)
  /\ NextTask(d, "clean_list")
  /\ UNCHANGED <<source, met, lake, catalog, attempt, faults>>

-----------------------------------------------------------------------------
(* clean_transactions                                                      *)

CleanList(d) ==
  /\ At(d, "clean_list")
  /\ raw[d] > 0
  /\ seen' = [seen EXCEPT ![d][d] = raw[d]]
  /\ Goto(d, "clean_write")
  /\ UNCHANGED <<source, met, lake, catalog, todo, faults>>

(* The partition is replaced only if some row is valid: dynamic overwrite  *)
(* of an empty result replaces nothing.                                    *)
CleanWrite(d) ==
  /\ At(d, "clean_write")
  /\ IF Contains(d, seen[d][d], "valid")
       THEN /\ staged' = [staged EXCEPT ![d] = seen[d][d]]
            /\ schema' = [schema EXCEPT ![d] = "clean"]
       ELSE UNCHANGED <<staged, schema>>
  /\ Goto(d, "clean_quarantine")
  /\ UNCHANGED <<source, met, raw, tables, quarantine, feats, catalog, attempt,
                 faults>>

(* Mutant: clean_transactions is chained past enrich_transactions.         *)
MutantSkipEnrich(d) ==
  /\ At(d, "clean_quarantine")
  /\ NextTask(d, "hive_msck_repair")
  /\ Forget(d)
  /\ UNCHANGED <<source, met, lake, catalog, faults>>

CleanQuarantine(d) ==
  /\ At(d, "clean_quarantine")
  /\ quarantine' = IF \E k \in {"bad", "nullid"} : Contains(d, seen[d][d], k)
                     THEN quarantine \union {d} ELSE quarantine
  /\ NextTask(d, "enrich_read")
  /\ Forget(d)
  /\ UNCHANGED <<source, met, raw, tables, staged, schema, feats, catalog,
                 faults>>

-----------------------------------------------------------------------------
(* enrich_transactions                                                     *)

(* Joining mcc_description to a partition that already has the column      *)
(* makes the next reference to it ambiguous.  (staging/mcc_codes, which no *)
(* task writes, is taken to exist: clean_mcc.py was run by hand.)          *)
EnrichCanRead(d) ==
  /\ staged[d] > 0
  /\ schema[d] = "clean"
  /\ "labels" \in tables

EnrichRead(d) ==
  /\ At(d, "enrich_read")
  /\ EnrichCanRead(d)
  /\ Goto(d, "enrich_write")
  /\ UNCHANGED <<source, met, lake, catalog, attempt, faults>>

(* After the overwrite the job counts the frame again, from files that the *)
(* overwrite has just removed: the step enrich_count can only raise.       *)
EnrichWrite(d) ==
  /\ At(d, "enrich_write")
  /\ schema' = [schema EXCEPT ![d] = "enriched"]
  /\ Goto(d, "enrich_count")
  /\ UNCHANGED <<source, met, raw, tables, staged, quarantine, feats, catalog,
                 attempt, faults>>

(* An operator finds the partition of a failed enrich_transactions task    *)
(* enriched, marks the task as successful and clears the tasks after it.   *)
OperatorMarksEnriched(d) ==
  /\ state[d] = "failed"
  /\ pc[d] \in EnrichSteps
  /\ schema[d] = "enriched"
  /\ SlotFree
  /\ state' = [state EXCEPT ![d] = "running"]
  /\ pc' = [pc EXCEPT ![d] = "hive_msck_repair"]
  /\ tries' = [tries EXCEPT ![d] = 0]
  /\ Meets(d)
  /\ UNCHANGED <<source, lake, catalog, attempt, faults>>

-----------------------------------------------------------------------------
(* hive_msck_repair, build_fraud_features, dbt and the final branch        *)

(* Mutant: staging.transactions is not repaired.                           *)
MutantRepairFeaturesOnly(d) ==
  /\ At(d, "hive_msck_repair")
  /\ hiveFeats' = hiveFeats \union {e \in Days : feats[e][e] > 0}
  /\ NextTask(d, "build_read")
  /\ UNCHANGED <<source, met, lake, hiveStaging, martRows, martFeats, attempt,
                 faults>>

(* MSCK REPAIR adds the partitions it finds and never drops one.           *)
HiveRepair(d) ==
  /\ At(d, "hive_msck_repair")
  /\ hiveStaging' = hiveStaging \union StagedDays
  /\ hiveFeats' = hiveFeats \union {e \in Days : feats[e][e] > 0}
  /\ NextTask(d, "build_read")
  /\ UNCHANGED <<source, met, lake, martRows, martFeats, attempt, faults>>

(* Mutant: the upper end of the lookback filter excludes the day itself.   *)
MutantWindowExcludesDay(d) ==
  /\ At(d, "build_read")
  /\ SchemaHasLabels
  /\ seen' = [seen EXCEPT ![d] = [e \in Days |->
                IF e # d /\ InLookback(e, d) THEN staged[e] ELSE 0]]
  /\ Goto(d, "build_write")
  /\ UNCHANGED <<source, met, lake, catalog, todo, faults>>

(* Mutant: the window is one day short at its far end.                      *)
MutantShortWindow(d) ==
  /\ At(d, "build_read")
  /\ SchemaHasLabels
  /\ seen' = [seen EXCEPT ![d] = [e \in Days |->
                IF InLookback(e, d) /\ d < e + Lookback THEN staged[e] ELSE 0]]
  /\ Goto(d, "build_write")
  /\ UNCHANGED <<source, met, lake, catalog, todo, faults>>

BuildRead(d) ==
  /\ At(d, "build_read")
  /\ SchemaHasLabels
  /\ seen' = [seen EXCEPT ![d] =
                [e \in Days |-> IF InLookback(e, d) THEN staged[e] ELSE 0]]
  /\ Goto(d, "build_write")
  /\ UNCHANGED <<source, met, lake, catalog, todo, faults>>

BuildWrite(d) ==
  /\ At(d, "build_write")
  /\ feats' = IF seen[d][d] > 0 THEN [feats EXCEPT ![d] = seen[d]] ELSE feats
  /\ Goto(d, "build_count")
  /\ Forget(d)
  /\ UNCHANGED <<source, met, raw, tables, staged, schema, quarantine, catalog,
                 faults>>

(* The job counts the frame it has written: an action of its own, which    *)
(* computes the features again and may fail after the write.               *)
BuildCount(d) ==
  /\ At(d, "build_count")
  /\ NextTask(d, "dbt_run")
  /\ UNCHANGED <<source, met, lake, catalog, attempt, faults>>

(* The mart fraud_features is rebuilt from the partitions Hive knows.      *)
DbtRun(d) ==
  /\ At(d, "dbt_run")
  /\ martRows' = hiveStaging
  /\ martFeats' = hiveStaging \intersect hiveFeats
  /\ NextTask(d, "dbt_test")
  /\ UNCHANGED <<source, met, lake, hiveStaging, hiveFeats, attempt, faults>>

(* The unique test of staging fails on two rows of one transaction.  Other *)
(* tests look at values the model leaves out (the share of labelled rows), *)
(* so dbt_test may fail on any data: see StepRaises.                       *)
IdsUnique ==
  \A e, f \in hiveStaging :
    e # f => ~(Contains(e, staged[e], "twin") /\ Contains(f, staged[f], "twin"))

DbtTest(d) ==
  /\ At(d, "dbt_test")
  /\ IdsUnique
  /\ NextTask(d, "check_quarantine")
  /\ UNCHANGED <<source, met, lake, catalog, attempt, faults>>

(* The branch compares a literal 0, not the size of the quarantine layer,  *)
(* so the run ends with notify_success.                                    *)
CheckQuarantine(d) ==
  /\ At(d, "check_quarantine")
  /\ state' = [state EXCEPT ![d] = "success"]
  /\ UNCHANGED <<source, met, lake, catalog, pc, tries, attempt, faults>>

-----------------------------------------------------------------------------
(* Failures                                                                *)

(* The step the run is at raises in the present lake.                      *)
StepRaises(d) ==
  \/ At(d, "validate_raw") /\ ~RawChecksPass(d)
  \/ At(d, "clean_list") /\ raw[d] = 0
  \/ At(d, "enrich_read") /\ ~EnrichCanRead(d)
  \/ At(d, "enrich_count")
  \/ At(d, "build_read") /\ ~SchemaHasLabels
  \/ At(d, "dbt_test")

TaskRaises(d) == StepRaises(d) /\ AttemptFails(d) /\ UNCHANGED faults

(* A worker, an executor, HDFS, the metastore or the database fails, or a  *)
(* file the job has listed is replaced before it is read.                  *)
Fault(d) ==
  /\ state[d] = "running"
  /\ faults < MaxFaults
  /\ faults' = faults + 1
  /\ AttemptFails(d)

-----------------------------------------------------------------------------
Step(d) ==
  \/ IngestMcc(d)
  \/ IngestLabels(d)
  \/ TxnScan(d)
  \/ \E p \in Days : TxnCommit(d, p)
  \/ IngestDone(d)
  \/ ValidateRaw(d)
  \/ CleanList(d)
  \/ CleanWrite(d)
  \/ CleanQuarantine(d)
  \/ EnrichRead(d)
  \/ EnrichWrite(d)
  \/ HiveRepair(d)
  \/ BuildRead(d)
  \/ BuildWrite(d)
  \/ BuildCount(d)
  \/ DbtRun(d)
  \/ DbtTest(d)
  \/ CheckQuarantine(d)
  \/ TaskRaises(d)

Next ==
  \/ \E d \in Days, load \in Loads : SourceLoad(d, load)
  \/ \E d \in Days : CreateRun(d)
  \/ \E d \in Days : Step(d)
  \/ \E d \in Days : Fault(d)
  \/ \E d \in Days : OperatorMarksEnriched(d)

(* The scheduler loop creates due runs and starts queued tasks; a started  *)
(* task ends.  Nothing is assumed of the source, of faults or operators.   *)
Fairness ==
  /\ \A d \in Days : WF_vars(CreateRun(d))
  /\ \A d \in Days : WF_vars(Step(d))

Spec == Init /\ [][Next]_vars

FairSpec == Spec /\ Fairness

-----------------------------------------------------------------------------
(* Properties                                                              *)

(* A successful run leaves features computed from exactly the rows its     *)
(* staging partition holds, and from the enriched rows, whatever the other *)
(* active runs, faults and retries did meanwhile.                          *)
FeaturesMatchStaging ==
  \A d \in Days : state[d] = "success" =>
    /\ staged[d] > 0
    /\ schema[d] = "enriched"
    /\ feats[d][d] = staged[d]

(* The static overwrite of mcc_codes and fraud_labels leaves no gap of its *)
(* own: a table is missing only while some run is inside ingest_all, or    *)
(* after one failed there.                                                 *)
MissingTableIsIngests ==
  \A t \in UnpartitionedTables : t \notin tables =>
    \E d \in Days : /\ state[d] \in {"running", "failed"}
                    /\ pc[d] \in IngestSteps

(* The rows of every day that finished successfully are in the mart, also  *)
(* after other runs rebuilt it.                                            *)
MartKeepsFinishedDays ==
  \A d \in Days : state[d] = "success" => d \in martRows

(* The raw gate holds for a run that overlapped no other: it stages only   *)
(* rows the gate has checked, in any attempt, so a NULL id in a staged     *)
(* partition takes the ingestion of another run between validate_raw and   *)
(* clean_transactions.                                                     *)
GateHolds ==
  \A d \in Days : Contains(d, staged[d], "nullid") => met[d] # {}

(* Ingestion implements the abstract raw layer, however many runs ingest   *)
(* at the same time.  What the lake can rely on of a partition is the      *)
(* oldest of what it holds and of what the running ingestions have scanned *)
(* and still have to swap in; that is a prefix of the day's loads and is   *)
(* never replaced by an older one.                                         *)
Committing(p) == {d \in Days : At(d, "txn_commit") /\ p \in todo[d]}
Held(p)  == {raw[p]} \union {seen[d][p] : d \in Committing(p)}
Floor    == [p \in Days |-> CHOOSE g \in Held(p) : \A h \in Held(p) : g <= h]
Promise  == INSTANCE RawLayer WITH raw <- Floor
ImplementsRawLayer == Promise!Spec

(* Re-ingesting a partition never puts older data in place of newer.       *)
RawNeverRegresses == [][\A d \in Days : raw'[d] >= raw[d]]_vars

(* The features of a successful run were computed with the rows every      *)
(* other day of its lookback window has staged, now and then, except for   *)
(* the days whose runs were active together with it.                       *)
LookbackComplete ==
  \A d, e \in Days :
    (state[d] = "success" /\ InLookback(e, d) /\ e \notin met[d])
      => feats[d][e] = staged[e]

(* build_fraud_features finds no label columns only because of an earlier  *)
(* day that is staged but not enriched, whose run is on the way there, or  *)
(* failed on the way: no other interleaving takes the columns away.        *)
BuildBlockedByEarlierDay ==
  \A d \in Days :
    (At(d, "build_read") /\ ~SchemaHasLabels /\ ~Backfilled) =>
      \E e \in Days : /\ e < d /\ schema[e] = "clean"
                      /\ pc[e] \in CleanSteps \union EnrichSteps
                      /\ state[e] \in {"running", "failed"}

(* build_fraud_features fails a run only after more faults than a task has *)
(* retries: on a lake that the documented backfill has staged, the daily   *)
(* run goes on from there.  (The run BackfilledLake shows that it does     *)
(* not.)                                                                   *)
BuildFailsOnlyByFault ==
  \A d \in Days :
    (state[d] = "failed" /\ pc[d] \in BuildSteps) => faults > Retries

(* The place of a step: its task in the chain, and its place in the task.  *)
TaskNumber(step) ==
  CASE step \in IngestSteps       -> 1
    [] step = "validate_raw"      -> 2
    [] step \in CleanSteps        -> 3
    [] step \in EnrichSteps       -> 4
    [] step = "hive_msck_repair"  -> 5
    [] step \in BuildSteps        -> 6
    [] step = "dbt_run"           -> 7
    [] step = "dbt_test"          -> 8
    [] OTHER                      -> 9

StepNumber(step) ==
  CASE step \in {"mcc_write", "clean_write", "enrich_write", "build_write"} -> 1
    [] step \in {"labels_drop", "clean_quarantine", "enrich_count",
                 "build_count"} -> 2
    [] step = "labels_write" -> 3
    [] step = "txn_scan"     -> 4
    [] step = "txn_commit"   -> 5
    [] OTHER                 -> 0

(* A run moves on: to a later task, to a further attempt of its task, to a *)
(* later step of the attempt, or to fewer partitions left to commit.       *)
MovesOn(d) ==
  LET task == TaskNumber(pc[d])   next == TaskNumber(pc'[d])
      step == StepNumber(pc[d])   then == StepNumber(pc'[d])
  IN  \/ task < next
      \/ task = next /\ tries[d] < tries'[d]
      \/ task = next /\ tries[d] = tries'[d] /\ step < then
      \/ /\ pc[d] = pc'[d] /\ tries[d] = tries'[d]
         /\ todo'[d] \subseteq todo[d] /\ todo'[d] # todo[d]

(* Whatever happens to a run takes it forward: it is created, it moves on, *)
(* or it ends where it is; it is revived only at a later task, and never   *)
(* after a success.  No retry, fault or operator ever sends it back, so it *)
(* takes boundedly many steps.                                             *)
RunsOnlyAdvance ==
  [][\A d \in Days :
       \/ UNCHANGED <<state[d], pc[d], tries[d], todo[d]>>
       \/ state[d] = "none" /\ state'[d] = "running" /\ UNCHANGED pc[d]
       \/ state[d] = "running" /\ state'[d] = "running" /\ MovesOn(d)
       \/ /\ state[d] = "running" /\ state'[d] \in {"success", "failed"}
          /\ UNCHANGED <<pc[d], tries[d]>>
       \/ /\ state[d] = "failed" /\ state'[d] = "running"
          /\ TaskNumber(pc[d]) < TaskNumber(pc'[d])]_vars

(* A run whose raw partition passed the gate fails only after faults.      *)
RetriesAbsorbFailures ==
  \A d \in Days :
    (state[d] = "failed" /\ pc[d] \notin {"validate_raw"} \union IngestSteps)
      => faults > 0

(* The mart carries the features of every day that finished successfully.  *)
MartCarriesFeatures ==
  \A d \in Days : state[d] = "success" => d \in martFeats

(* Every run ends, however its attempts fail.                              *)
EveryRunEnds ==
  \A d \in Days : state[d] = "running" ~> state[d] \in {"success", "failed"}

(* Catchup reaches every logical day: failed runs do not keep their slot.  *)
CatchupReachesEveryDay == \A d \in Days : <>(state[d] # "none")

=============================================================================
