----------------------- MODULE FraudDataPipeline_proofs -----------------------
(***************************************************************************)
(* Theorems about FraudDataPipeline, for any number of days, concurrent    *)
(* runs, retries, loads and faults.                                        *)
(***************************************************************************)
EXTENDS FraudDataPipeline, FiniteSetTheorems, WellFoundedInduction, TLAPS

(* A day is in its own lookback window.                                    *)
LEMMA OwnDayInLookback ==
  ASSUME NEW d \in Days
  PROVE  InLookback(d, d)
BY ConstantsAssumption DEF Days, InLookback

(* A failed attempt changes only the place of its own run in its chain.    *)
LEMMA AttemptFailsTypes ==
  ASSUME TypeOK, NEW d \in Days, AttemptFails(d)
  PROVE  /\ state' \in [Days -> {"none", "running", "success", "failed"}]
         /\ pc' \in [Days -> Steps]
         /\ tries' \in [Days -> 0..Retries]
         /\ seen' \in [Days -> [Days -> Generations]]
         /\ todo' \in [Days -> SUBSET Days]
<1>1. pc[d] \in Steps /\ FirstStep(pc[d]) \in Steps
  BY DEF TypeOK, FirstStep, Steps, IngestSteps, CleanSteps, EnrichSteps,
         BuildSteps, DbtSteps
<1>2. NothingSeen \in [Days -> Generations]
  BY ConstantsAssumption DEF NothingSeen, Generations
<1>3. seen' \in [Days -> [Days -> Generations]]
      /\ todo' \in [Days -> SUBSET Days]
  BY <1>2 DEF TypeOK, AttemptFails, Forget
<1>4. CASE tries[d] < Retries
  <2>1. tries[d] + 1 \in 0..Retries
    BY <1>4, ConstantsAssumption DEF TypeOK
  <2>2. /\ UNCHANGED state
        /\ tries' = [tries EXCEPT ![d] = tries[d] + 1]
        /\ pc' = [pc EXCEPT ![d] = FirstStep(pc[d])]
    BY <1>4 DEF AttemptFails
  <2> QED
    BY <1>1, <1>3, <2>1, <2>2 DEF TypeOK
<1>5. CASE ~(tries[d] < Retries)
  BY <1>3, <1>5 DEF TypeOK, AttemptFails
<1> QED
  BY <1>4, <1>5

(* Type correctness.                                                       *)
THEOREM TypeCorrect == Spec => []TypeOK
<1>1. Init => TypeOK
  <2> SUFFICES ASSUME Init
               PROVE  TypeOK
    OBVIOUS
  <2>1. 0 \in Generations /\ 0 \in 0..Retries /\ 0 \in 0..MaxFaults
    BY ConstantsAssumption DEF Generations
  <2>2. NothingSeen \in [Days -> Generations]
    BY <2>1 DEF NothingSeen
  <2>3. \A d \in Days : source[d] = << >> /\ Len(source[d]) = 0
    BY DEF Init
  <2>4. source \in [Days -> Seq(Loads)]
    BY DEF Init
  <2> QED
    BY <2>1, <2>2, <2>3, <2>4 DEF Init, TypeOK, Steps, IngestSteps
<1>2. TypeOK /\ [Next]_vars => TypeOK'
  <2> SUFFICES ASSUME TypeOK, [Next]_vars
               PROVE  TypeOK'
    OBVIOUS
  <2> USE DEF TypeOK, lake, catalog, attempt
  <2>0. NothingSeen \in [Days -> Generations] /\ 0 \in 0..Retries
    BY ConstantsAssumption DEF NothingSeen, Generations
  <2>1. ASSUME NEW d \in Days, NEW load \in Loads, SourceLoad(d, load)
        PROVE  TypeOK'
    <3>1. Len(source[d]) + 1 \in Generations
      BY <2>1, ConstantsAssumption DEF SourceLoad, Generations
    <3>2. /\ source'[d] \in Seq(Loads) /\ Len(source'[d]) = Len(source[d]) + 1
          /\ \A e \in Days : e # d => source'[e] = source[e]
          /\ source' \in [Days -> Seq(Loads)]
      BY <2>1 DEF SourceLoad
    <3>3. \A e \in Days : Len(source'[e]) \in Generations
      BY <3>1, <3>2
    <3> QED
      BY <2>1, <3>2, <3>3 DEF SourceLoad
  <2>2. ASSUME NEW d \in Days, CreateRun(d)
        PROVE  TypeOK'
    BY <2>2 DEF CreateRun, Meets, ActiveRuns
  <2>3. ASSUME NEW d \in Days, IngestMcc(d) \/ IngestLabels(d)
        PROVE  TypeOK'
    BY <2>3 DEF IngestMcc, IngestLabels, DropTable, WriteTable, Goto,
                UnpartitionedTables, Steps, IngestSteps
  <2>4. ASSUME NEW d \in Days, TxnScan(d)
        PROVE  TypeOK'
    <3>1. [e \in Days |-> Len(source[e])] \in [Days -> Generations]
      OBVIOUS
    <3>2. seen' \in [Days -> [Days -> Generations]]
      BY <2>4, <3>1 DEF TxnScan
    <3>3. todo' \in [Days -> SUBSET Days]
      BY <2>4 DEF TxnScan
    <3> QED
      BY <2>4, <3>2, <3>3 DEF TxnScan, Goto, Steps, IngestSteps
  <2>5. ASSUME NEW d \in Days, NEW p \in Days, TxnCommit(d, p)
        PROVE  TypeOK'
    BY <2>5 DEF TxnCommit
  <2>6. ASSUME NEW d \in Days, IngestDone(d)
        PROVE  TypeOK'
    BY <2>0, <2>6 DEF IngestDone, NextTask, Forget, Steps
  <2>7. ASSUME NEW d \in Days, ValidateRaw(d)
        PROVE  TypeOK'
    BY <2>0, <2>7 DEF ValidateRaw, NextTask, Steps, CleanSteps
  <2>8. ASSUME NEW d \in Days, CleanList(d)
        PROVE  TypeOK'
    BY <2>8 DEF CleanList, Goto, Steps, CleanSteps
  <2>9. ASSUME NEW d \in Days, CleanWrite(d)
        PROVE  TypeOK'
    <3>1. /\ staged' \in [Days -> Generations]
          /\ schema' \in [Days -> {"none", "clean", "enriched"}]
      <4>1. seen[d][d] \in Generations
        OBVIOUS
      <4>2. CASE UNCHANGED <<staged, schema>>
        BY <4>2
      <4>3. CASE /\ staged' = [staged EXCEPT ![d] = seen[d][d]]
                 /\ schema' = [schema EXCEPT ![d] = "clean"]
        BY <4>1, <4>3
      <4> QED
        BY <2>9, <4>2, <4>3 DEF CleanWrite
    <3>2. pc' \in [Days -> Steps]
      BY <2>9 DEF CleanWrite, Goto, Steps, CleanSteps
    <3> QED
      BY <2>9, <3>1, <3>2 DEF CleanWrite, Goto
  <2>10. ASSUME NEW d \in Days, CleanQuarantine(d)
         PROVE  TypeOK'
    BY <2>0, <2>10 DEF CleanQuarantine, NextTask, Forget, Steps, EnrichSteps
  <2>11. ASSUME NEW d \in Days, EnrichRead(d) \/ EnrichWrite(d)
         PROVE  TypeOK'
    BY <2>11 DEF EnrichRead, EnrichWrite, Goto, Steps, EnrichSteps
  <2>12. ASSUME NEW d \in Days, HiveRepair(d)
         PROVE  TypeOK'
    BY <2>0, <2>12 DEF HiveRepair, NextTask, StagedDays, Steps, BuildSteps
  <2>13. ASSUME NEW d \in Days, BuildRead(d)
         PROVE  TypeOK'
    <3>1. [e \in Days |-> IF InLookback(e, d) THEN staged[e] ELSE 0]
            \in [Days -> Generations]
      BY ConstantsAssumption DEF Generations
    <3>2. seen' \in [Days -> [Days -> Generations]]
      BY <2>13, <3>1 DEF BuildRead
    <3> QED
      BY <2>13, <3>2 DEF BuildRead, Goto, Steps, BuildSteps
  <2>14. ASSUME NEW d \in Days, BuildWrite(d)
         PROVE  TypeOK'
    BY <2>0, <2>14 DEF BuildWrite, Goto, Forget, Steps, BuildSteps
  <2>15. ASSUME NEW d \in Days, \/ BuildCount(d) \/ DbtRun(d) \/ DbtTest(d)
                                \/ CheckQuarantine(d)
         PROVE  TypeOK'
    <3>1. CASE DbtRun(d)
      BY <2>0, <3>1 DEF DbtRun, NextTask, Steps, DbtSteps
    <3>2. CASE DbtTest(d)
      BY <2>0, <3>2 DEF DbtTest, NextTask, Steps, DbtSteps
    <3>3. CASE CheckQuarantine(d)
      BY <3>3 DEF CheckQuarantine
    <3>4. CASE BuildCount(d)
      BY <2>0, <3>4 DEF BuildCount, NextTask, Steps, DbtSteps
    <3> QED
      BY <2>15, <3>1, <3>2, <3>3, <3>4
  <2>16. ASSUME NEW d \in Days, TaskRaises(d) \/ Fault(d)
         PROVE  TypeOK'
    <3>1. AttemptFails(d)
      BY <2>16 DEF TaskRaises, Fault
    <3>2. faults' \in 0..MaxFaults
      BY <2>16, ConstantsAssumption DEF TaskRaises, Fault
    <3> QED
      BY <3>1, <3>2, AttemptFailsTypes DEF AttemptFails
  <2>17. ASSUME NEW d \in Days, OperatorMarksEnriched(d)
         PROVE  TypeOK'
    BY <2>0, <2>17 DEF OperatorMarksEnriched, Meets, ActiveRuns, Steps
  <2>18. CASE UNCHANGED vars
    BY <2>18 DEF vars
  <2> QED
    BY <2>1, <2>2, <2>3, <2>4, <2>5, <2>6, <2>7, <2>8, <2>9, <2>10, <2>11,
       <2>12, <2>13, <2>14, <2>15, <2>16, <2>17, <2>18 DEF Next, Step
<1> QED
  BY <1>1, <1>2, PTL DEF Spec

-----------------------------------------------------------------------------
(* What a step of one run leaves alone: the place, the staged partition and *)
(* the features of every other day.                                        *)

RunStep(d) == CreateRun(d) \/ Step(d) \/ Fault(d) \/ OperatorMarksEnriched(d)

LEMMA OtherDaysUntouched ==
  ASSUME TypeOK, NEW d \in Days, RunStep(d), NEW e \in Days, e # d
  PROVE  /\ UNCHANGED <<state[e], pc[e], tries[e], seen[e], todo[e]>>
         /\ UNCHANGED <<staged[e], schema[e], feats[e]>>
<1> USE DEF TypeOK, lake, catalog, attempt, Goto, NextTask, Forget
<1>1. CASE CreateRun(d) \/ OperatorMarksEnriched(d)
  BY <1>1 DEF CreateRun, OperatorMarksEnriched
<1>2. CASE AttemptFails(d)
  BY <1>2 DEF AttemptFails
<1>3. CASE \/ IngestMcc(d) \/ IngestLabels(d) \/ TxnScan(d)
           \/ (\E p \in Days : TxnCommit(d, p)) \/ IngestDone(d)
  BY <1>3 DEF IngestMcc, IngestLabels, DropTable, WriteTable, TxnScan,
              TxnCommit, IngestDone
<1>4. CASE \/ ValidateRaw(d) \/ CleanList(d) \/ CleanQuarantine(d)
           \/ EnrichRead(d) \/ EnrichWrite(d)
  BY <1>4 DEF ValidateRaw, CleanList, CleanQuarantine, EnrichRead, EnrichWrite
<1>5. CASE CleanWrite(d)
  BY <1>5 DEF CleanWrite
<1>6. CASE HiveRepair(d) \/ BuildRead(d) \/ BuildWrite(d) \/ BuildCount(d)
  BY <1>6 DEF HiveRepair, BuildRead, BuildWrite, BuildCount
<1>7. CASE DbtRun(d) \/ DbtTest(d) \/ CheckQuarantine(d)
  BY <1>7 DEF DbtRun, DbtTest, CheckQuarantine
<1> QED
  BY <1>1, <1>2, <1>3, <1>4, <1>5, <1>6, <1>7
     DEF RunStep, Step, TaskRaises, Fault

(* A step of the system is a load of the source or a step of one run.      *)
LEMMA NextCases ==
  ASSUME [Next]_vars
  PROVE  \/ \E d \in Days : RunStep(d)
         \/ \E d \in Days, load \in Loads : SourceLoad(d, load)
         \/ UNCHANGED vars
BY DEF Next, RunStep

-----------------------------------------------------------------------------
(* The features of a successful run match its staging partition.  What the *)
(* run of a day relies on at each place of the chain, about its own day:   *)

EnrichedSteps == {"hive_msck_repair"} \union BuildSteps \union DbtSteps

(* The run has written its features.                                       *)
BuiltSteps == {"build_count"} \union DbtSteps

OwnDay(d) ==
  /\ (schema[d] # "none" \/ pc[d] = "enrich_write") => staged[d] > 0
  /\ pc[d] \in EnrichedSteps => schema[d] = "enriched"
  /\ (state[d] = "running" /\ pc[d] = "build_write")
       => seen[d][d] = staged[d]
  /\ pc[d] \in BuiltSteps => feats[d][d] = staged[d]
  /\ state[d] = "success" => pc[d] = "check_quarantine"
  /\ state[d] = "none" => pc[d] = "mcc_drop"

OwnDayInv == \A d \in Days : OwnDay(d)

LEMMA OwnDayRunStep ==
  ASSUME TypeOK, NEW d \in Days, OwnDay(d), RunStep(d)
  PROVE  OwnDay(d)'
<1> USE DEF TypeOK, lake, catalog, attempt, Goto, NextTask, Forget, At, OwnDay,
            EnrichedSteps, BuiltSteps, BuildSteps, DbtSteps
<1>1. CASE CreateRun(d) \/ OperatorMarksEnriched(d)
  BY <1>1 DEF CreateRun, OperatorMarksEnriched
<1>2. CASE AttemptFails(d)
  <2>1. UNCHANGED <<staged, schema, feats>>
    BY <1>2 DEF AttemptFails
  <2>2. \/ pc'[d] = FirstStep(pc[d]) /\ state'[d] = state[d]
        \/ pc'[d] = pc[d] /\ state'[d] = "failed"
    BY <1>2 DEF AttemptFails
  <2>3. pc'[d] = FirstStep(pc[d]) => pc'[d] # "build_write"
    BY DEF FirstStep, Steps, IngestSteps, CleanSteps, EnrichSteps
  <2>4. pc'[d] \in EnrichedSteps => pc[d] \in EnrichedSteps
    BY <2>2 DEF FirstStep, Steps, IngestSteps, CleanSteps, EnrichSteps
  <2>5. pc'[d] \in BuiltSteps => pc[d] \in BuiltSteps
    BY <2>2 DEF FirstStep, Steps, IngestSteps, CleanSteps, EnrichSteps
  <2>6. /\ state'[d] = "success" => pc'[d] = "check_quarantine"
        /\ state'[d] = "none" => pc'[d] = "mcc_drop"
        /\ pc'[d] # "enrich_write" \/ pc'[d] = pc[d]
    BY <2>2 DEF FirstStep, Steps, IngestSteps, CleanSteps, EnrichSteps
  <2> QED
    BY <2>1, <2>2, <2>3, <2>4, <2>5, <2>6
<1>3. CASE \/ IngestMcc(d) \/ IngestLabels(d) \/ TxnScan(d)
           \/ (\E p \in Days : TxnCommit(d, p)) \/ IngestDone(d)
  BY <1>3 DEF IngestMcc, IngestLabels, DropTable, WriteTable, TxnScan,
              TxnCommit, IngestDone
<1>4. CASE \/ ValidateRaw(d) \/ CleanList(d) \/ CleanQuarantine(d)
           \/ EnrichRead(d)
  BY <1>4 DEF ValidateRaw, CleanList, CleanQuarantine, EnrichRead, EnrichCanRead
<1>5. CASE CleanWrite(d)
  <2>1. Contains(d, seen[d][d], "valid") => seen[d][d] > 0
    BY DEF Contains, Generations
  <2>2. schema'[d] # "none" => staged'[d] > 0
    BY <1>5, <2>1 DEF CleanWrite
  <2> QED
    BY <1>5, <2>2 DEF CleanWrite
<1>6. CASE EnrichWrite(d)
  BY <1>6 DEF EnrichWrite
<1>7. CASE HiveRepair(d)
  BY <1>7 DEF HiveRepair
<1>8. CASE BuildRead(d)
  BY <1>8, OwnDayInLookback DEF BuildRead
<1>9. CASE BuildWrite(d)
  BY <1>9 DEF BuildWrite
<1>10. CASE BuildCount(d) \/ DbtRun(d) \/ DbtTest(d) \/ CheckQuarantine(d)
  BY <1>10 DEF BuildCount, DbtRun, DbtTest, CheckQuarantine
<1> QED
  BY <1>1, <1>2, <1>3, <1>4, <1>5, <1>6, <1>7, <1>8, <1>9, <1>10
     DEF RunStep, Step, TaskRaises, Fault

LEMMA OwnDayInvStep ==
  ASSUME TypeOK, OwnDayInv, [Next]_vars
  PROVE  OwnDayInv'
<1>1. ASSUME NEW d \in Days, RunStep(d)
      PROVE  OwnDayInv'
  <2>1. ASSUME NEW e \in Days, e # d
        PROVE  OwnDay(e)'
    BY <1>1, <2>1, OtherDaysUntouched DEF OwnDayInv, OwnDay
  <2>2. OwnDay(d)'
    BY <1>1, OwnDayRunStep DEF OwnDayInv
  <2> QED
    BY <2>1, <2>2 DEF OwnDayInv
<1>2. ASSUME UNCHANGED <<state, pc, seen, staged, schema, feats>>
      PROVE  OwnDayInv'
  BY <1>2 DEF OwnDayInv, OwnDay
<1> QED
  BY <1>1, <1>2, NextCases DEF SourceLoad, vars, lake, catalog, attempt

LEMMA OwnDayInitially ==
  ASSUME Init
  PROVE  OwnDayInv
BY DEF Init, OwnDayInv, OwnDay, EnrichedSteps, BuiltSteps, BuildSteps,
       DbtSteps

(* A successful run leaves features computed from exactly the rows its     *)
(* staging partition holds, and from the enriched rows, for any number of  *)
(* active runs, retries and faults (clean_transactions, enrich_transactions *)
(* and build_fraud_features of a day write and read that day's partitions  *)
(* in the order of the chain).                                             *)
THEOREM FeaturesMatchStagingHolds == Spec => []FeaturesMatchStaging
<1>1. OwnDayInv => FeaturesMatchStaging
  BY DEF OwnDayInv, OwnDay, FeaturesMatchStaging, EnrichedSteps,
         BuiltSteps, DbtSteps
<1> QED
  BY <1>1, TypeCorrect, OwnDayInitially, OwnDayInvStep, PTL DEF Spec

-----------------------------------------------------------------------------
(* The rows of every finished day are in the mart.  The metastore never    *)
(* forgets a partition, and a run is past hive_msck_repair only after the  *)
(* metastore has learnt its partition, so every later rebuild includes it. *)

InCatalog(d) ==
  /\ pc[d] \in BuildSteps \union DbtSteps => d \in hiveStaging
  /\ pc[d] \in {"dbt_test", "check_quarantine"} => d \in martRows

CatalogInv == \A d \in Days : InCatalog(d)

(* Where a failed attempt leaves its run.                                  *)
LEMMA AttemptFailsMoves ==
  ASSUME TypeOK, NEW d \in Days, AttemptFails(d)
  PROVE  /\ \/ pc'[d] = FirstStep(pc[d]) /\ state'[d] = state[d]
            \/ pc'[d] = pc[d] /\ state'[d] = "failed"
         /\ UNCHANGED <<source, lake, catalog>>
         /\ seen'[d] = NothingSeen /\ todo'[d] = {}
BY DEF TypeOK, AttemptFails, Forget

LEMMA CatalogInvRunStep ==
  ASSUME TypeOK, OwnDayInv, CatalogInv, NEW d \in Days, RunStep(d)
  PROVE  CatalogInv'
<1>0. hiveStaging \subseteq hiveStaging'
  <2>1. CASE AttemptFails(d)
    BY <2>1 DEF AttemptFails, catalog
  <2>2. CASE HiveRepair(d)
    BY <2>2 DEF HiveRepair
  <2> QED
    BY <2>1, <2>2
       DEF RunStep, CreateRun, OperatorMarksEnriched, Fault, Step, IngestMcc,
           IngestLabels, DropTable, WriteTable, TxnScan, TxnCommit, IngestDone,
           ValidateRaw, CleanList, CleanWrite, CleanQuarantine, EnrichRead,
           EnrichWrite, BuildRead, BuildWrite, BuildCount, DbtRun, DbtTest,
           CheckQuarantine, TaskRaises, catalog
<1>1. CASE DbtRun(d)
  <2>1. martRows' = hiveStaging /\ pc' = [pc EXCEPT ![d] = "dbt_test"]
        /\ pc[d] = "dbt_run"
    BY <1>1 DEF DbtRun, NextTask, At
  <2>2. ASSUME NEW e \in Days
        PROVE  InCatalog(e)'
    <3>1. pc[e] \in BuildSteps \union DbtSteps => e \in hiveStaging
      BY DEF CatalogInv, InCatalog
    <3>2. pc'[e] = pc[e] \/ (pc[e] = "dbt_run" /\ pc'[e] = "dbt_test")
      BY <2>1 DEF TypeOK
    <3> QED
      BY <1>0, <2>1, <3>1, <3>2 DEF InCatalog, DbtSteps
  <2> QED
    BY <2>2 DEF CatalogInv
<1>2. ASSUME ~DbtRun(d)
      PROVE  CatalogInv'
  <2>1. UNCHANGED martRows
    BY <1>2
       DEF RunStep, CreateRun, OperatorMarksEnriched, Fault, Step, IngestMcc,
           IngestLabels, DropTable, WriteTable, TxnScan, TxnCommit, IngestDone,
           ValidateRaw, CleanList, CleanWrite, CleanQuarantine, EnrichRead,
           EnrichWrite, HiveRepair, BuildRead, BuildWrite, BuildCount, DbtTest,
           CheckQuarantine, TaskRaises, AttemptFails, catalog
  <2>2. ASSUME NEW e \in Days, e # d
        PROVE  InCatalog(e)'
    BY <1>0, <2>1, <2>2, OtherDaysUntouched DEF CatalogInv, InCatalog
  <2>3. \/ pc'[d] = "build_read" /\ d \in hiveStaging'
        \/ pc'[d] \notin BuildSteps \union DbtSteps
        \/ pc'[d] \in BuildSteps /\ pc[d] \in BuildSteps
        \/ pc'[d] = "dbt_run" /\ pc[d] \in BuildSteps
        \/ pc'[d] = pc[d]
        \/ pc'[d] = "check_quarantine" /\ pc[d] = "dbt_test"
    <3> USE DEF TypeOK, Goto, NextTask, At, BuildSteps, DbtSteps
    <3>1. CASE AttemptFails(d)
      BY <3>1, AttemptFailsMoves
         DEF FirstStep, Steps, IngestSteps, CleanSteps, EnrichSteps
    <3>2. CASE CreateRun(d) \/ OperatorMarksEnriched(d)
      BY <3>2 DEF CreateRun, OperatorMarksEnriched
    <3>3. CASE \/ IngestMcc(d) \/ IngestLabels(d) \/ TxnScan(d)
               \/ (\E p \in Days : TxnCommit(d, p)) \/ IngestDone(d)
      BY <3>3 DEF IngestMcc, IngestLabels, DropTable, WriteTable, TxnScan,
                  TxnCommit, IngestDone
    <3>4. CASE \/ ValidateRaw(d) \/ CleanList(d) \/ CleanWrite(d)
               \/ CleanQuarantine(d) \/ EnrichRead(d) \/ EnrichWrite(d)
      BY <3>4 DEF ValidateRaw, CleanList, CleanWrite, CleanQuarantine,
                  EnrichRead, EnrichWrite
    <3>5. CASE HiveRepair(d)
      <4>1. staged[d] > 0
        BY <3>5 DEF HiveRepair, OwnDayInv, OwnDay, EnrichedSteps
      <4> QED
        BY <3>5, <4>1 DEF HiveRepair, StagedDays
    <3>6. CASE \/ BuildRead(d) \/ BuildWrite(d) \/ BuildCount(d) \/ DbtTest(d)
               \/ CheckQuarantine(d)
      BY <3>6 DEF BuildRead, BuildWrite, BuildCount, DbtTest, CheckQuarantine
    <3> QED
      BY <1>2, <3>1, <3>2, <3>3, <3>4, <3>5, <3>6
         DEF RunStep, Step, TaskRaises, Fault
  <2>4. InCatalog(d)'
    BY <1>0, <2>1, <2>3 DEF CatalogInv, InCatalog, BuildSteps, DbtSteps
  <2> QED
    BY <2>2, <2>4 DEF CatalogInv
<1> QED
  BY <1>1, <1>2

LEMMA CatalogInvStep ==
  ASSUME TypeOK, OwnDayInv, CatalogInv, [Next]_vars
  PROVE  CatalogInv'
<1>1. ASSUME UNCHANGED <<pc, hiveStaging, martRows>>
      PROVE  CatalogInv'
  BY <1>1 DEF CatalogInv, InCatalog
<1> QED
  BY <1>1, CatalogInvRunStep, NextCases DEF SourceLoad, vars, catalog

(* The rows of every day whose run was successful are in the mart, also    *)
(* after other runs, of any number at a time, rebuilt it (hive_msck_repair *)
(* and dbt_run in fraud_pipeline_dag.py).                                  *)
THEOREM MartKeepsFinishedDaysHolds == Spec => []MartKeepsFinishedDays
<1>1. Init => CatalogInv
  BY DEF Init, CatalogInv, InCatalog, BuildSteps, DbtSteps
<1>2. OwnDayInv /\ CatalogInv => MartKeepsFinishedDays
  BY DEF OwnDayInv, OwnDay, CatalogInv, InCatalog, MartKeepsFinishedDays
<1> QED
  BY <1>1, <1>2, TypeCorrect, OwnDayInitially, OwnDayInvStep, CatalogInvStep,
     PTL DEF Spec

-----------------------------------------------------------------------------
(* A missing raw table is accounted for: it is missing because the run of  *)
(* some day deleted it, and that run is still at, or failed at, a step of  *)
(* ingest_all from which a retry writes the table again.                   *)

WritesAgain(t) ==
  IF t = "mcc" THEN {"mcc_drop", "mcc_write"}
               ELSE {"mcc_drop", "mcc_write", "labels_drop", "labels_write"}

Deleter(d, t) == state[d] \in {"running", "failed"} /\ pc[d] \in WritesAgain(t)

MissingInv ==
  \A t \in UnpartitionedTables :
    t \notin tables => \E d \in Days : Deleter(d, t)

(* The deleter of a table that stays missing stays its deleter.            *)
LEMMA DeleterStays ==
  ASSUME TypeOK, NEW d \in Days, RunStep(d),
         NEW t \in UnpartitionedTables, t \notin tables', Deleter(d, t)
  PROVE  Deleter(d, t)'
<1> USE DEF TypeOK, Goto, NextTask, At, Deleter, WritesAgain,
            UnpartitionedTables, EnrichSteps
<1>1. CASE AttemptFails(d)
  <2>1. FirstStep(pc[d]) = "mcc_drop"
    BY DEF FirstStep, IngestSteps, CleanSteps, BuildSteps
  <2> QED
    BY <1>1, <2>1, AttemptFailsMoves
<1>2. CASE IngestMcc(d)
  BY <1>2 DEF IngestMcc, DropTable, WriteTable
<1>3. CASE IngestLabels(d)
  BY <1>3 DEF IngestLabels, DropTable, WriteTable
<1> QED
  BY <1>1, <1>2, <1>3
     DEF RunStep, CreateRun, OperatorMarksEnriched, Fault, Step, TxnScan,
         TxnCommit, IngestDone, ValidateRaw, CleanList, CleanWrite,
         CleanQuarantine, EnrichRead, EnrichWrite, HiveRepair, BuildRead,
         BuildWrite, BuildCount, DbtRun, DbtTest, CheckQuarantine, TaskRaises

(* The run that makes a table go missing is its deleter.                   *)
LEMMA DeleterAppears ==
  ASSUME TypeOK, NEW d \in Days, RunStep(d),
         NEW t \in UnpartitionedTables, t \in tables, t \notin tables'
  PROVE  Deleter(d, t)'
<1> USE DEF TypeOK, Goto, NextTask, At, Deleter, WritesAgain,
            UnpartitionedTables
<1>1. CASE AttemptFails(d)
  BY <1>1 DEF AttemptFails, lake
<1>2. CASE IngestMcc(d)
  BY <1>2 DEF IngestMcc, DropTable, WriteTable
<1>3. CASE IngestLabels(d)
  BY <1>3 DEF IngestLabels, DropTable, WriteTable
<1> QED
  BY <1>1, <1>2, <1>3
     DEF RunStep, CreateRun, OperatorMarksEnriched, Fault, Step, TxnScan,
         TxnCommit, IngestDone, ValidateRaw, CleanList, CleanWrite,
         CleanQuarantine, EnrichRead, EnrichWrite, HiveRepair, BuildRead,
         BuildWrite, BuildCount, DbtRun, DbtTest, CheckQuarantine, TaskRaises,
         lake

LEMMA MissingInvStep ==
  ASSUME TypeOK, MissingInv, [Next]_vars
  PROVE  MissingInv'
<1>1. ASSUME NEW d \in Days, RunStep(d),
             NEW t \in UnpartitionedTables, t \notin tables'
      PROVE  \E e \in Days : Deleter(e, t)'
  <2>1. CASE t \in tables
    BY <1>1, <2>1, DeleterAppears
  <2>2. CASE t \notin tables
    <3>1. PICK e \in Days : Deleter(e, t)
      BY <2>2 DEF MissingInv
    <3>2. CASE e = d
      BY <1>1, <3>1, <3>2, DeleterStays
    <3>3. CASE e # d
      BY <1>1, <3>1, <3>3, OtherDaysUntouched DEF Deleter
    <3> QED
      BY <3>2, <3>3
  <2> QED
    BY <2>1, <2>2
<1>2. ASSUME NEW d \in Days, RunStep(d)
      PROVE  MissingInv'
  BY <1>1, <1>2 DEF MissingInv
<1>3. ASSUME UNCHANGED <<state, pc, tables>>
      PROVE  MissingInv'
  BY <1>3 DEF MissingInv, Deleter
<1> QED
  BY <1>2, <1>3, NextCases DEF SourceLoad, vars, lake

(* The static overwrite of mcc_codes and fraud_labels (base_ingester._write *)
(* without partition columns) leaves no gap of its own: a table is missing *)
(* only while some run is inside ingest_all, or after one failed there.    *)
THEOREM MissingTableIsIngestsHolds == Spec => []MissingTableIsIngests
<1>1. Init => MissingInv
  BY DEF Init, MissingInv
<1>2. MissingInv => MissingTableIsIngests
  BY DEF MissingInv, MissingTableIsIngests, Deleter, WritesAgain, IngestSteps
<1> QED
  BY <1>1, <1>2, TypeCorrect, MissingInvStep, PTL DEF Spec

-----------------------------------------------------------------------------
(* A step of a run leaves the source alone and writes at most one raw      *)
(* partition, with the generation of its scan.                             *)
LEMMA RunStepOnRaw ==
  ASSUME NEW d \in Days, RunStep(d)
  PROVE  /\ UNCHANGED source
         /\ \/ UNCHANGED raw
            \/ \E p \in Days : TxnCommit(d, p)
<1> USE DEF lake
<1>1. CASE AttemptFails(d)
  BY <1>1 DEF AttemptFails
<1> QED
  BY <1>1
     DEF RunStep, CreateRun, OperatorMarksEnriched, Fault, Step, IngestMcc,
         IngestLabels, DropTable, WriteTable, TxnScan, TxnCommit, IngestDone,
         ValidateRaw, CleanList, CleanWrite, CleanQuarantine, EnrichRead,
         EnrichWrite, HiveRepair, BuildRead, BuildWrite, BuildCount, DbtRun,
         DbtTest,
         CheckQuarantine, TaskRaises

(* How a failed attempt counts.                                            *)
LEMMA AttemptFailsCounts ==
  ASSUME TypeOK, NEW d \in Days, AttemptFails(d)
  PROVE  \/ /\ tries'[d] = tries[d] + 1 /\ state'[d] = state[d]
            /\ pc'[d] = FirstStep(pc[d]) /\ tries[d] < Retries
         \/ /\ tries'[d] = tries[d] /\ state'[d] = "failed"
            /\ pc'[d] = pc[d] /\ tries[d] = Retries
BY ConstantsAssumption DEF TypeOK, AttemptFails

-----------------------------------------------------------------------------
(* Generations that are written anywhere are generations of the source:    *)
(* the source only grows.                                                  *)

GrownInv ==
  \A e \in Days :
    /\ raw[e] <= Len(source[e])
    /\ staged[e] <= Len(source[e])
    /\ \A d \in Days : seen[d][e] <= Len(source[e])

(* A load extends the source of one day and keeps what was there.          *)
LEMMA LoadExtends ==
  ASSUME TypeOK, NEW d \in Days, NEW load \in Loads, SourceLoad(d, load)
  PROVE  \A e \in Days :
           /\ Len(source[e]) \in Nat /\ Len(source'[e]) \in Nat
           /\ Len(source[e]) <= Len(source'[e])
           /\ \A i \in 1..Len(source[e]) : source'[e][i] = source[e][i]
<1>1. ASSUME NEW e \in Days, e # d
      PROVE  source'[e] = source[e] /\ source[e] \in Seq(Loads)
  BY <1>1 DEF SourceLoad, TypeOK
<1>2. /\ source'[d] = Append(source[d], load)
      /\ source[d] \in Seq(Loads)
  BY DEF SourceLoad, TypeOK
<1>3. /\ Len(source'[d]) = Len(source[d]) + 1
      /\ \A i \in 1..Len(source[d]) : source'[d][i] = source[d][i]
      /\ Len(source[d]) \in Nat
  BY <1>2
<1> QED
  BY <1>1, <1>3

LEMMA GrownInvStep ==
  ASSUME TypeOK, GrownInv, [Next]_vars
  PROVE  GrownInv'
<1> USE DEF TypeOK, lake, catalog, attempt, Goto, NextTask, Forget
<1>0. \A e \in Days : /\ Len(source[e]) \in Nat /\ raw[e] \in Nat
                      /\ staged[e] \in Nat /\ NothingSeen[e] = 0
  BY DEF NothingSeen, Generations
<1>1. ASSUME NEW d \in Days, NEW load \in Loads, SourceLoad(d, load)
      PROVE  GrownInv'
  <2>1. \A e, f \in Days : seen[e][f] \in Nat
    BY DEF Generations
  <2> QED
    BY <1>0, <1>1, <2>1, LoadExtends DEF GrownInv, SourceLoad
<1>2. ASSUME NEW d \in Days, AttemptFails(d)
      PROVE  GrownInv'
  BY <1>0, <1>2 DEF GrownInv, AttemptFails
<1>3. ASSUME NEW d \in Days, TxnScan(d)
      PROVE  GrownInv'
  BY <1>0, <1>3 DEF GrownInv, TxnScan
<1>4. ASSUME NEW d \in Days, NEW p \in Days, TxnCommit(d, p)
      PROVE  GrownInv'
  BY <1>4 DEF GrownInv, TxnCommit
<1>5. ASSUME NEW d \in Days, CleanList(d)
      PROVE  GrownInv'
  <2>1. \A e, f \in Days : \/ seen'[e][f] = seen[e][f]
                           \/ seen'[e][f] = raw[f]
    BY <1>5 DEF CleanList
  <2> QED
    BY <1>5, <2>1 DEF GrownInv, CleanList
<1>6. ASSUME NEW d \in Days, CleanWrite(d)
      PROVE  GrownInv'
  <2>1. \A e \in Days : staged'[e] = staged[e] \/ staged'[e] = seen[e][e]
    BY <1>6 DEF CleanWrite
  <2> QED
    BY <1>6, <2>1 DEF GrownInv, CleanWrite
<1>7. ASSUME NEW d \in Days, BuildRead(d)
      PROVE  GrownInv'
  <2>1. \A e, f \in Days : \/ seen'[e][f] = seen[e][f]
                           \/ seen'[e][f] = staged[f]
                           \/ seen'[e][f] = 0
    BY <1>7 DEF BuildRead
  <2> QED
    BY <1>0, <1>7, <2>1 DEF GrownInv, BuildRead
<1>8. ASSUME NEW d \in Days,
             IngestDone(d) \/ CleanQuarantine(d) \/ BuildWrite(d)
      PROVE  GrownInv'
  <2>1. seen' = [seen EXCEPT ![d] = NothingSeen]
    BY <1>8 DEF IngestDone, CleanQuarantine, BuildWrite
  <2>2. source' = source /\ raw' = raw /\ staged' = staged
    BY <1>8 DEF IngestDone, CleanQuarantine, BuildWrite
  <2>3. \A e, f \in Days : seen'[e][f] = seen[e][f] \/ seen'[e][f] = 0
    BY <1>0, <2>1
  <2>4. ASSUME NEW e \in Days, NEW f \in Days
        PROVE  seen'[e][f] <= Len(source[f])
    <3>1. seen[e][f] <= Len(source[f]) /\ 0 <= Len(source[f])
      BY <1>0 DEF GrownInv
    <3> QED
      BY <2>3, <3>1
  <2> QED
    BY <2>2, <2>4 DEF GrownInv
<1>9. ASSUME UNCHANGED <<source, raw, staged, seen>>
      PROVE  GrownInv'
  BY <1>9 DEF GrownInv
<1>10. ASSUME NEW d \in Days,
              \/ IngestMcc(d) \/ IngestLabels(d) \/ ValidateRaw(d)
              \/ EnrichRead(d) \/ EnrichWrite(d) \/ HiveRepair(d)
              \/ BuildCount(d) \/ DbtRun(d) \/ DbtTest(d)
              \/ CheckQuarantine(d)
              \/ CreateRun(d) \/ OperatorMarksEnriched(d)
       PROVE  UNCHANGED <<source, raw, staged, seen>>
  BY <1>10 DEF IngestMcc, IngestLabels, DropTable, WriteTable, ValidateRaw,
               BuildCount, EnrichRead, EnrichWrite, HiveRepair, DbtRun, DbtTest,
               CheckQuarantine, CreateRun, OperatorMarksEnriched
<1> QED
  BY <1>1, <1>2, <1>3, <1>4, <1>5, <1>6, <1>7, <1>8, <1>9, <1>10
     DEF Next, Step, TaskRaises, Fault, vars

LEMMA GrownInitially ==
  ASSUME Init
  PROVE  GrownInv
BY DEF Init, GrownInv, NothingSeen

-----------------------------------------------------------------------------
(* Runs that are active together have met, and a run never forgets which   *)
(* runs it has met.                                                        *)

MetInv ==
  \A d, e \in Days :
    (d # e /\ state[d] = "running" /\ state[e] = "running") => e \in met[d]

LEMMA RunStepOnMet ==
  ASSUME TypeOK, NEW d \in Days, RunStep(d)
  PROVE  \/ UNCHANGED met /\ (state'[d] = "running" => state[d] = "running")
         \/ Meets(d) /\ state'[d] = "running"
<1> USE DEF TypeOK, Goto, NextTask, At
<1>1. CASE Fault(d)
  BY <1>1, AttemptFailsMoves DEF Fault, AttemptFails
<1>2. CASE TaskRaises(d)
  BY <1>2, AttemptFailsMoves DEF TaskRaises, StepRaises, AttemptFails
<1>3. CASE CreateRun(d) \/ OperatorMarksEnriched(d)
  BY <1>3 DEF CreateRun, OperatorMarksEnriched
<1>4. CASE \/ IngestMcc(d) \/ IngestLabels(d) \/ TxnScan(d)
           \/ (\E p \in Days : TxnCommit(d, p)) \/ IngestDone(d)
  BY <1>4 DEF IngestMcc, IngestLabels, DropTable, WriteTable, TxnScan,
              TxnCommit, IngestDone
<1>5. CASE \/ ValidateRaw(d) \/ CleanList(d) \/ CleanWrite(d)
           \/ CleanQuarantine(d) \/ EnrichRead(d) \/ EnrichWrite(d)
  BY <1>5 DEF ValidateRaw, CleanList, CleanWrite, CleanQuarantine,
              EnrichRead, EnrichWrite
<1>6. CASE \/ HiveRepair(d) \/ BuildRead(d) \/ BuildWrite(d) \/ BuildCount(d)
           \/ DbtRun(d) \/ DbtTest(d) \/ CheckQuarantine(d)
  BY <1>6 DEF HiveRepair, BuildRead, BuildWrite, BuildCount, DbtRun, DbtTest,
              CheckQuarantine
<1> QED
  BY <1>1, <1>2, <1>3, <1>4, <1>5, <1>6 DEF RunStep, Step

LEMMA MetGrows ==
  ASSUME TypeOK, NEW d \in Days, RunStep(d), NEW e \in Days
  PROVE  met[e] \subseteq met'[e]
<1>1. CASE UNCHANGED met
  BY <1>1
<1>2. CASE Meets(d)
  <2>1. met'[e] = met[e] \/ met'[e] = met[e] \union ActiveRuns
        \/ met'[e] = met[e] \union {d}
    BY <1>2 DEF Meets
  <2> QED
    BY <2>1
<1> QED
  BY <1>1, <1>2, RunStepOnMet

LEMMA MetInvStep ==
  ASSUME TypeOK, MetInv, [Next]_vars
  PROVE  MetInv'
<1>1. ASSUME NEW d \in Days, RunStep(d)
      PROVE  MetInv'
  <2>1. \A e \in Days : e # d => state'[e] = state[e]
    BY <1>1, OtherDaysUntouched
  <2>2. CASE UNCHANGED met /\ (state'[d] = "running" => state[d] = "running")
    BY <2>1, <2>2 DEF MetInv
  <2>3. CASE Meets(d)
    <3>1. \A e \in Days : met[e] \subseteq met'[e]
      BY <1>1, MetGrows
    <3>2. \A e \in Days : (e # d /\ state[e] = "running")
                            => e \in met'[d] /\ d \in met'[e]
      BY <2>3 DEF Meets, ActiveRuns
    <3> QED
      BY <2>1, <3>1, <3>2 DEF MetInv
  <2> QED
    BY <1>1, <2>2, <2>3, RunStepOnMet
<1>2. ASSUME UNCHANGED <<state, met>>
      PROVE  MetInv'
  BY <1>2 DEF MetInv
<1> QED
  BY <1>1, <1>2, NextCases DEF SourceLoad, vars

-----------------------------------------------------------------------------
(* Ingestion implements the abstract raw layer.  A commit replaces what a  *)
(* partition holds by what the committing run has scanned, and both are    *)
(* among what is held of the partition; what is held is never joined by    *)
(* anything older, because a scan sees all the source has committed.       *)

LEMMA OldestExists ==
  ASSUME NEW S \in SUBSET Nat, S # {}
  PROVE  \E m \in S : \A n \in S : m <= n
<1>1. PICK m \in S : \A n \in S : ~ (<<n, m>> \in OpToRel(<, Nat))
  BY WFMin, NatLessThanWellFounded
<1>2. ASSUME NEW n \in S, n < m
      PROVE  FALSE
  <2>1. <<n, m>> \in Nat \X Nat /\ <<n, m>>[1] < <<n, m>>[2]
    BY <1>2
  <2>2. <<n, m>> \in {ss \in Nat \X Nat : ss[1] < ss[2]}
    BY <2>1
  <2> QED
    BY <1>1, <2>2 DEF OpToRel
<1>3. \A n \in S : m <= n
  BY <1>2
<1> QED
  BY <1>3

(* What the lake is sure to keep is the oldest of what is held.            *)
LEMMA FloorIsOldest ==
  ASSUME TypeOK, NEW p \in Days
  PROVE  /\ Floor[p] \in Held(p) /\ Floor[p] \in Nat
         /\ \A g \in Held(p) : Floor[p] <= g
<1>1. Held(p) \subseteq Nat /\ Held(p) # {}
  BY DEF Held, Committing, TypeOK, Generations
<1>2. \E g \in Held(p) : \A h \in Held(p) : g <= h
  BY <1>1, OldestExists
<1>3. Floor[p] = CHOOSE g \in Held(p) : \A h \in Held(p) : g <= h
  BY DEF Floor
<1> QED
  BY <1>1, <1>2, <1>3

(* Whatever joins what is held of a partition is as new as the source.     *)
LEMMA HeldStep ==
  ASSUME TypeOK, OwnDayInv, NEW d \in Days, RunStep(d), NEW p \in Days,
         NEW g \in Held(p)'
  PROVE  g \in Held(p) \/ g = Len(source[p])
<1> USE DEF TypeOK, lake, catalog, attempt, Goto, NextTask, Forget, At
<1>1. CASE g = raw'[p]
  <2>1. CASE UNCHANGED raw
    BY <1>1, <2>1 DEF Held
  <2>2. ASSUME NEW q \in Days, TxnCommit(d, q)
        PROVE  g \in Held(p)
    <3>1. raw'[p] = raw[p] \/ (p = q /\ raw'[p] = seen[d][p])
      BY <2>2 DEF TxnCommit
    <3>2. q = p => d \in Committing(p)
      BY <2>2 DEF TxnCommit, Committing
    <3> QED
      BY <1>1, <3>1, <3>2 DEF Held
  <2> QED
    BY <2>1, <2>2, RunStepOnRaw
<1>2. CASE g # raw'[p]
  <2>1. PICK e \in Days : e \in Committing(p)' /\ g = seen'[e][p]
    BY <1>2 DEF Held, Committing
  <2>2. CASE e # d
    <3>1. UNCHANGED <<state[e], pc[e], seen[e], todo[e]>>
      BY <2>2, OtherDaysUntouched
    <3> QED
      BY <2>1, <3>1 DEF Held, Committing
  <2>3. CASE e = d /\ TxnScan(d)
    BY <2>1, <2>3 DEF TxnScan
  <2>4. CASE e = d /\ ~TxnScan(d)
    <3>1. pc'[d] = "txn_commit" /\ state'[d] = "running" /\ p \in todo'[d]
      BY <2>1, <2>4 DEF Committing
    <3>2. \E q \in Days : TxnCommit(d, q)
      <4>1. ~AttemptFails(d)
        BY <3>1 DEF AttemptFails
      <4>2. ~(CreateRun(d) \/ OperatorMarksEnriched(d))
        BY <3>1 DEF CreateRun, OperatorMarksEnriched, OwnDayInv, OwnDay
      <4>3. ~(IngestMcc(d) \/ IngestLabels(d) \/ IngestDone(d))
        BY <3>1 DEF IngestMcc, IngestLabels, DropTable, WriteTable, IngestDone
      <4>4. ~(\/ ValidateRaw(d) \/ CleanList(d) \/ CleanWrite(d)
              \/ CleanQuarantine(d) \/ EnrichRead(d) \/ EnrichWrite(d))
        BY <3>1 DEF ValidateRaw, CleanList, CleanWrite, CleanQuarantine,
                    EnrichRead, EnrichWrite
      <4>5. ~(\/ HiveRepair(d) \/ BuildRead(d) \/ BuildWrite(d)
              \/ BuildCount(d) \/ DbtRun(d) \/ DbtTest(d)
              \/ CheckQuarantine(d))
        BY <3>1 DEF HiveRepair, BuildRead, BuildWrite, BuildCount, DbtRun,
                    DbtTest, CheckQuarantine
      <4> QED
        BY <2>4, <4>1, <4>2, <4>3, <4>4, <4>5
           DEF RunStep, Step, TaskRaises, Fault
    <3>3. PICK q \in Days : TxnCommit(d, q)
      BY <3>2
    <3>4. d \in Committing(p) /\ seen'[d] = seen[d]
      BY <3>1, <3>3 DEF TxnCommit, Committing
    <3> QED
      BY <2>1, <2>4, <3>4 DEF Held
  <2> QED
    BY <2>2, <2>3, <2>4
<1> QED
  BY <1>1, <1>2

LEMMA FloorNeverFalls ==
  ASSUME TypeOK, TypeOK', OwnDayInv, GrownInv, NEW d \in Days, RunStep(d)
  PROVE  Promise!Publish
<1>1. ASSUME NEW p \in Days
      PROVE  /\ Floor'[p] \in Nat
             /\ Floor[p] <= Floor'[p] /\ Floor'[p] <= Len(source[p])
  <2>1. /\ Floor[p] \in Nat /\ Floor[p] <= raw[p]
        /\ \A g \in Held(p) : Floor[p] <= g
    BY FloorIsOldest DEF Held
  <2>2. /\ raw[p] \in Nat /\ Len(source[p]) \in Nat
        /\ raw[p] <= Len(source[p])
    BY DEF TypeOK, GrownInv, Generations
  <2>3. Floor'[p] \in Held(p)' /\ Floor'[p] \in Nat
    <3>1. Held(p)' \in SUBSET Nat /\ Held(p)' # {}
      <4>1. Held(p)' = {raw'[p]} \union {seen'[e][p] : e \in Committing(p)'}
        BY DEF Held
      <4>2. raw'[p] \in Nat /\ \A e \in Days : seen'[e][p] \in Nat
        BY DEF TypeOK, Generations
      <4>3. Committing(p)' \subseteq Days
        BY DEF Committing
      <4> QED
        BY <4>1, <4>2, <4>3
    <3>2. \E g \in Held(p)' : \A h \in Held(p)' : g <= h
      <4>1. \A S \in SUBSET Nat :
              S # {} => \E m \in S : \A n \in S : m <= n
        BY OldestExists
      <4> HIDE DEF Held
      <4> QED
        BY <3>1, <4>1
    <3>3. Floor'[p] = CHOOSE g \in Held(p)' : \A h \in Held(p)' : g <= h
      BY DEF Floor
    <3> QED
      BY <3>1, <3>2, <3>3
  <2>4. Floor'[p] \in Held(p) \/ Floor'[p] = Len(source[p])
    BY <2>3, HeldStep
  <2>5. \A g \in Held(p) : g <= Len(source[p])
    BY DEF Held, Committing, GrownInv
  <2> QED
    BY <2>1, <2>2, <2>3, <2>4, <2>5
<1>2. UNCHANGED source
  BY RunStepOnRaw
<1>3. Floor' \in [Days -> Nat]
  BY <1>1 DEF Floor
<1> QED
  BY <1>1, <1>2, <1>3 DEF Promise!Publish

LEMMA FloorUnchanged ==
  ASSUME UNCHANGED <<raw, seen, todo, state, pc>>
  PROVE  UNCHANGED Floor
BY DEF Floor, Held, Committing, At

LEMMA PromiseStep ==
  ASSUME TypeOK, TypeOK', OwnDayInv, GrownInv, [Next]_vars
  PROVE  [Promise!Next]_<<source, Floor>>
<1>1. ASSUME NEW d \in Days, NEW load \in Loads, SourceLoad(d, load)
      PROVE  Promise!Load(d, load)
  BY <1>1, FloorUnchanged DEF SourceLoad, Promise!Load, lake, attempt
<1>2. CASE UNCHANGED vars
  BY <1>2, FloorUnchanged DEF vars, lake, attempt
<1> QED
  BY <1>1, <1>2, NextCases, FloorNeverFalls DEF Promise!Next

(* Ingestion implements the abstract raw layer for any number of runs that *)
(* ingest at the same time: what the lake is sure to keep of a day, the    *)
(* oldest of what its partition holds and of what running ingestions have  *)
(* still to swap in, is a prefix of the day's loads and never shrinks      *)
(* (jdbc_ingester.py, base_ingester._write).                               *)
THEOREM RawLayerImplemented == Spec => ImplementsRawLayer
<1>1. Init => Promise!Init
  <2> SUFFICES ASSUME Init
               PROVE  Promise!Init
    OBVIOUS
  <2>1. \A p \in Days : Held(p) = {0}
    BY DEF Init, Held, Committing, At
  <2>2. \A p \in Days : Floor[p] = CHOOSE g \in {0} : \A h \in {0} : g <= h
    BY <2>1 DEF Floor
  <2>3. \A p \in Days : Floor[p] = 0
    BY <2>2
  <2>4. Floor = [p \in Days |-> 0]
    BY <2>3 DEF Floor
  <2> QED
    BY <2>4 DEF Init, Promise!Init
<1>2. TypeOK /\ OwnDayInv /\ GrownInv /\ [Next]_vars => GrownInv'
  BY GrownInvStep
<1>3. TypeOK /\ TypeOK' /\ OwnDayInv /\ GrownInv /\ [Next]_vars
        => [Promise!Next]_<<source, Floor>>
  BY PromiseStep
<1>4. Spec => [](TypeOK /\ OwnDayInv)
  BY TypeCorrect, OwnDayInitially, OwnDayInvStep, PTL DEF Spec
<1> QED
  BY <1>1, <1>2, <1>3, <1>4, GrownInitially, PTL
     DEF Spec, ImplementsRawLayer, Promise!Spec

-----------------------------------------------------------------------------
(* The raw gate holds for a run that meets no other: between validate_raw  *)
(* and the end of clean_transactions, retries included, only a run that is *)
(* active at the same time could replace the partition that was checked.   *)

Clean(d, g) == ~Contains(d, g, "nullid")

InClean(d) == state[d] = "running" /\ pc[d] \in CleanSteps
InWrite(d) == /\ state[d] = "running"
              /\ pc[d] \in {"clean_write", "clean_quarantine"}

Gated(d) ==
  met[d] = {} =>
    /\ Clean(d, staged[d])
    /\ InClean(d) => Clean(d, raw[d])
    /\ InWrite(d) => Clean(d, seen[d][d])

GateInv == \A d \in Days : Gated(d)

LEMMA GateInvLoad ==
  ASSUME TypeOK, GrownInv, GateInv,
         NEW f \in Days, NEW load \in Loads, SourceLoad(f, load)
  PROVE  GateInv'
<1>1. UNCHANGED <<staged, raw, seen, state, pc, met>>
  BY DEF SourceLoad, lake, attempt
<1>2. ASSUME NEW d \in Days
      PROVE  /\ Clean(d, staged[d]) => Clean(d, staged[d])'
             /\ Clean(d, raw[d]) => Clean(d, raw[d])'
             /\ Clean(d, seen[d][d]) => Clean(d, seen[d][d])'
  <2>1. /\ staged[d] \in Nat /\ raw[d] \in Nat /\ seen[d][d] \in Nat
        /\ Len(source[d]) \in Nat
    BY DEF TypeOK, Generations
  <2>2. /\ staged[d] <= Len(source[d]) /\ raw[d] <= Len(source[d])
        /\ seen[d][d] <= Len(source[d])
    BY DEF GrownInv
  <2>3. \A i \in 1..Len(source[d]) : source'[d][i] = source[d][i]
    BY LoadExtends
  <2>4. \A i \in 1..staged[d] : source'[d][i] = source[d][i]
    BY <2>1, <2>2, <2>3
  <2>5. \A i \in 1..raw[d] : source'[d][i] = source[d][i]
    BY <2>1, <2>2, <2>3
  <2>6. \A i \in 1..seen[d][d] : source'[d][i] = source[d][i]
    BY <2>1, <2>2, <2>3
  <2> QED
    BY <1>1, <2>4, <2>5, <2>6 DEF Clean, Contains
<1>3. ASSUME NEW d \in Days
      PROVE  (InClean(d) <=> InClean(d)') /\ (InWrite(d) <=> InWrite(d)')
  BY <1>1 DEF InClean, InWrite
<1> QED
  BY <1>1, <1>2, <1>3 DEF GateInv, Gated

(* A step of another run does not replace the raw partition of a run it    *)
(* has not met.                                                            *)
LEMMA GateInvOtherDay ==
  ASSUME TypeOK, MetInv, GateInv, NEW d \in Days, RunStep(d),
         NEW e \in Days, e # d
  PROVE  Gated(e)'
<1>1. UNCHANGED <<source, state[e], pc[e], seen[e], staged[e]>>
  BY OtherDaysUntouched, RunStepOnRaw
<1>2. met'[e] = {} => met[e] = {}
  BY MetGrows
<1>3. (state[e] = "running" /\ met[e] = {}) => raw'[e] = raw[e]
  <2>1. CASE UNCHANGED raw
    BY <2>1
  <2>2. CASE \E p \in Days : TxnCommit(d, p)
    <3>1. state[d] = "running"
      BY <2>2 DEF TxnCommit, At
    <3> QED
      BY <3>1 DEF MetInv
  <2> QED
    BY <2>1, <2>2, RunStepOnRaw
<1> QED
  BY <1>1, <1>2, <1>3 DEF GateInv, Gated, InClean, InWrite, Clean, Contains

LEMMA GateInvOwnDay ==
  ASSUME TypeOK, OwnDayInv, GateInv, NEW d \in Days, RunStep(d)
  PROVE  Gated(d)'
<1> USE DEF TypeOK, lake, catalog, attempt, Goto, NextTask, At, CleanSteps,
            InClean, InWrite
<1>0. UNCHANGED source /\ (met'[d] = {} => met[d] = {})
  BY RunStepOnRaw, MetGrows
<1>1. CASE AttemptFails(d)
  <2>1. /\ pc'[d] \in CleanSteps => pc[d] \in CleanSteps
        /\ pc'[d] = FirstStep(pc[d])
             => pc'[d] \notin {"clean_write", "clean_quarantine"}
    BY <1>1, AttemptFailsMoves
       DEF FirstStep, Steps, IngestSteps, EnrichSteps, BuildSteps, DbtSteps
  <2>2. /\ \/ pc'[d] = FirstStep(pc[d]) /\ state'[d] = state[d]
           \/ state'[d] = "failed"
        /\ staged' = staged /\ raw' = raw
    BY <1>1, AttemptFailsMoves
  <2> QED
    BY <1>0, <2>1, <2>2 DEF GateInv, Gated, Clean, Contains
<1>2. ASSUME UNCHANGED staged, ~InClean(d)'
      PROVE  Gated(d)'
  BY <1>0, <1>2 DEF GateInv, Gated, Clean, Contains
<1>3. CASE \/ CreateRun(d) \/ OperatorMarksEnriched(d) \/ IngestMcc(d)
           \/ IngestLabels(d) \/ TxnScan(d) \/ IngestDone(d)
           \/ \E p \in Days : TxnCommit(d, p)
  <2>1. UNCHANGED staged /\ ~InClean(d)'
    BY <1>3 DEF CreateRun, OperatorMarksEnriched, IngestMcc, IngestLabels,
       DropTable, WriteTable, TxnScan, IngestDone, TxnCommit, OwnDayInv, OwnDay
  <2> QED
    BY <1>2, <2>1
<1>4. CASE ValidateRaw(d)
  BY <1>0, <1>4 DEF ValidateRaw, RawChecksPass, GateInv, Gated, Clean, Contains
<1>5. CASE CleanList(d)
  BY <1>0, <1>5 DEF CleanList, GateInv, Gated, Clean, Contains
<1>6. CASE CleanWrite(d)
  <2>1. staged'[d] = staged[d] \/ staged'[d] = seen[d][d]
    BY <1>6 DEF CleanWrite
  <2>2. UNCHANGED <<raw, seen>> /\ InWrite(d) /\ InClean(d)
    BY <1>6 DEF CleanWrite
  <2> QED
    BY <1>0, <2>1, <2>2 DEF GateInv, Gated, Clean, Contains
<1>7. CASE \/ CleanQuarantine(d) \/ EnrichRead(d) \/ EnrichWrite(d)
           \/ HiveRepair(d) \/ BuildRead(d) \/ BuildWrite(d) \/ BuildCount(d)
           \/ DbtRun(d) \/ DbtTest(d) \/ CheckQuarantine(d)
  <2>1. UNCHANGED staged /\ ~InClean(d)'
    BY <1>7 DEF CleanQuarantine, EnrichRead, EnrichWrite, HiveRepair,
       BuildRead, BuildWrite, BuildCount, DbtRun, DbtTest, CheckQuarantine
  <2> QED
    BY <1>2, <2>1
<1> QED
  BY <1>1, <1>3, <1>4, <1>5, <1>6, <1>7
     DEF RunStep, Step, TaskRaises, Fault

LEMMA GateInvStep ==
  ASSUME TypeOK, OwnDayInv, MetInv, GrownInv, GateInv, [Next]_vars
  PROVE  GateInv'
<1>1. ASSUME NEW d \in Days, RunStep(d)
      PROVE  GateInv'
  BY <1>1, GateInvOtherDay, GateInvOwnDay DEF GateInv
<1>2. CASE UNCHANGED vars
  BY <1>2 DEF vars, lake, attempt, GateInv, Gated, InClean, InWrite, Clean,
              Contains
<1> QED
  BY <1>1, <1>2, GateInvLoad, NextCases

(* A NULL id reaches a staged partition only when another run was active   *)
(* together with the run of the day: with any number of slots, whatever is *)
(* loaded, fails and is retried, a run that overlaps no other stages only  *)
(* what the gate has checked (run_checks.py before clean_transactions.py   *)
(* in the chain of the DAG).                                               *)
THEOREM GateHoldsUnlessRunsMeet == Spec => []GateHolds
<1>1. Init => MetInv /\ GateInv
  BY DEF Init, MetInv, GateInv, Gated, InClean, InWrite, Clean, Contains
<1>2. TypeOK /\ OwnDayInv /\ MetInv /\ GrownInv /\ GateInv /\ [Next]_vars
        => MetInv' /\ GrownInv' /\ GateInv'
  BY MetInvStep, GrownInvStep, GateInvStep
<1>3. GateInv => GateHolds
  BY DEF GateInv, Gated, GateHolds, Clean
<1>4. Spec => [](TypeOK /\ OwnDayInv)
  BY TypeCorrect, OwnDayInitially, OwnDayInvStep, PTL DEF Spec
<1> QED
  BY <1>1, <1>2, <1>3, <1>4, GrownInitially, PTL DEF Spec

-----------------------------------------------------------------------------
(* The lookback window is complete but for the days whose runs the run has *)
(* met.  Runs start in the order of their days, so a run that may still    *)
(* stage rows is one that no later day has looked at without meeting it.   *)

CreatedInOrder ==
  \A d, e \in Days : (e < d /\ state[d] # "none") => state[e] # "none"

NobodyLooksAhead ==
  \A d, e \in Days :
    (e < d /\ state[e] = "running" /\ pc[e] \notin EnrichedSteps)
      => state[d] = "none" \/ e \in met[d]

Reads(d, e) == InLookback(e, d) /\ e \notin met[d]

WindowRead ==
  \A d, e \in Days : Reads(d, e) =>
    /\ (state[d] = "running" /\ pc[d] = "build_write")
         => seen[d][e] = staged[e]
    /\ pc[d] \in BuiltSteps => feats[d][e] = staged[e]

WindowInv == CreatedInOrder /\ NobodyLooksAhead /\ WindowRead

(* A run is created, or existed before the step and does so after it.      *)
LEMMA RunExists ==
  ASSUME TypeOK, OwnDayInv, NEW d \in Days, RunStep(d), ~CreateRun(d)
  PROVE  /\ state[d] # "none" /\ state'[d] # "none"
         /\ pc[d] \in EnrichedSteps => pc'[d] \in EnrichedSteps
         /\ (state'[d] = "running" /\ pc'[d] \notin EnrichedSteps)
              => state[d] = "running"
<1> USE DEF TypeOK, Goto, NextTask, At, EnrichedSteps, BuildSteps, DbtSteps
<1>1. CASE AttemptFails(d) /\ state[d] = "running"
  <2>1. pc[d] \in EnrichedSteps => FirstStep(pc[d]) \in EnrichedSteps
    BY DEF FirstStep, IngestSteps, CleanSteps, EnrichSteps
  <2> QED
    BY <1>1, <2>1, AttemptFailsMoves
<1>2. CASE OperatorMarksEnriched(d)
  BY <1>2 DEF OperatorMarksEnriched, EnrichSteps
<1>3. CASE \/ IngestMcc(d) \/ IngestLabels(d) \/ TxnScan(d)
           \/ (\E p \in Days : TxnCommit(d, p)) \/ IngestDone(d)
  BY <1>3 DEF IngestMcc, IngestLabels, DropTable, WriteTable, TxnScan,
              TxnCommit, IngestDone
<1>4. CASE \/ ValidateRaw(d) \/ CleanList(d) \/ CleanWrite(d)
           \/ CleanQuarantine(d) \/ EnrichRead(d) \/ EnrichWrite(d)
  BY <1>4 DEF ValidateRaw, CleanList, CleanWrite, CleanQuarantine, EnrichRead,
              EnrichWrite
<1>5. CASE \/ HiveRepair(d) \/ BuildRead(d) \/ BuildWrite(d) \/ BuildCount(d)
           \/ DbtRun(d) \/ DbtTest(d) \/ CheckQuarantine(d)
  BY <1>5 DEF HiveRepair, BuildRead, BuildWrite, BuildCount, DbtRun, DbtTest,
              CheckQuarantine
<1> QED
  BY <1>1, <1>2, <1>3, <1>4, <1>5
     DEF RunStep, Step, TaskRaises, StepRaises, Fault

LEMMA CreatedInOrderStep ==
  ASSUME TypeOK, OwnDayInv, CreatedInOrder, NEW d \in Days, RunStep(d)
  PROVE  CreatedInOrder'
<1>1. \A e \in Days : e # d => state'[e] = state[e]
  BY OtherDaysUntouched
<1>2. CASE CreateRun(d)
  <2>1. state'[d] = "running" /\ \A e \in Days : e < d => state[e] # "none"
    BY <1>2 DEF CreateRun, TypeOK
  <2> QED
    BY <1>1, <2>1 DEF CreatedInOrder, Days
<1>3. CASE ~CreateRun(d)
  <2>1. state[d] # "none" /\ state'[d] # "none"
    BY <1>3, RunExists
  <2> QED
    BY <1>1, <2>1 DEF CreatedInOrder
<1> QED
  BY <1>2, <1>3

LEMMA NobodyLooksAheadStep ==
  ASSUME TypeOK, OwnDayInv, WindowInv, NEW d \in Days, RunStep(d)
  PROVE  NobodyLooksAhead'
<1>1. \A e \in Days : e # d => state'[e] = state[e] /\ pc'[e] = pc[e]
  BY OtherDaysUntouched
<1>2. \A e \in Days : met[e] \subseteq met'[e]
  BY MetGrows
<1>3. CASE CreateRun(d)
  <2>1. \A e \in Days : (e # d /\ state[e] = "running") => e \in met'[d]
    BY <1>3 DEF CreateRun, Meets, ActiveRuns
  <2>2. \A e \in Days : d < e => state[e] = "none"
    BY <1>3 DEF CreateRun, WindowInv, CreatedInOrder
  <2> QED
    BY <1>1, <1>2, <2>1, <2>2 DEF WindowInv, NobodyLooksAhead, Days
<1>4. CASE ~CreateRun(d)
  <2>1. /\ state[d] # "none"
        /\ pc[d] \in EnrichedSteps => pc'[d] \in EnrichedSteps
        /\ (state'[d] = "running" /\ pc'[d] \notin EnrichedSteps)
             => state[d] = "running"
    BY <1>4, RunExists
  <2> QED
    BY <1>1, <1>2, <2>1 DEF WindowInv, NobodyLooksAhead
<1> QED
  BY <1>3, <1>4

(* Only the writing of clean_transactions changes what a day has staged.   *)
LEMMA StagedChanges ==
  ASSUME NEW d \in Days, RunStep(d)
  PROVE  UNCHANGED staged \/ CleanWrite(d)
<1> USE DEF lake
<1>1. CASE AttemptFails(d)
  BY <1>1 DEF AttemptFails
<1> QED
  BY <1>1
     DEF RunStep, CreateRun, OperatorMarksEnriched, Fault, Step, IngestMcc,
         IngestLabels, DropTable, WriteTable, TxnScan, TxnCommit, IngestDone,
         ValidateRaw, CleanList, CleanQuarantine, EnrichRead, EnrichWrite,
         HiveRepair, BuildRead, BuildWrite, BuildCount, DbtRun, DbtTest,
         CheckQuarantine, TaskRaises

LEMMA WindowReadOther ==
  ASSUME TypeOK, OwnDayInv, WindowInv, NEW f \in Days, RunStep(f),
         NEW d \in Days, d # f, NEW e \in Days, Reads(d, e)
  PROVE  /\ (state[d] = "running" /\ pc[d] = "build_write")'
              => seen'[d][e] = staged'[e]
         /\ pc'[d] \in BuiltSteps => feats'[d][e] = staged'[e]
<1>1. UNCHANGED <<state[d], pc[d], seen[d], feats[d]>>
  BY OtherDaysUntouched
<1>2. CASE staged'[e] = staged[e]
  BY <1>1, <1>2 DEF WindowInv, WindowRead
<1>3. CASE staged'[e] # staged[e]
  <2>1. e = f /\ CleanWrite(f)
    BY <1>3, StagedChanges, OtherDaysUntouched
  <2>2. state[e] = "running" /\ pc[e] \notin EnrichedSteps
    BY <2>1 DEF CleanWrite, At, EnrichedSteps, BuildSteps, DbtSteps
  <2>3. e < d
    BY <2>1 DEF Reads, InLookback, Days
  <2>4. state[d] = "none"
    BY <2>2, <2>3 DEF WindowInv, NobodyLooksAhead, Reads
  <2> QED
    BY <1>1, <2>4 DEF OwnDayInv, OwnDay, BuiltSteps, DbtSteps
<1> QED
  BY <1>2, <1>3

LEMMA WindowReadOwn ==
  ASSUME TypeOK, OwnDayInv, WindowInv, NEW d \in Days, RunStep(d),
         NEW e \in Days, Reads(d, e)
  PROVE  /\ (state[d] = "running" /\ pc[d] = "build_write")'
              => seen'[d][e] = staged'[e]
         /\ pc'[d] \in BuiltSteps => feats'[d][e] = staged'[e]
<1> USE DEF TypeOK, lake, catalog, attempt, Goto, NextTask, At, BuiltSteps,
            DbtSteps
<1>1. CASE AttemptFails(d)
  <2>1. /\ FirstStep(pc[d]) # "build_write"
        /\ FirstStep(pc[d]) \in BuiltSteps => pc[d] \in BuiltSteps
    BY DEF FirstStep, Steps, IngestSteps, CleanSteps, EnrichSteps, BuildSteps
  <2>2. UNCHANGED <<staged, feats>>
    BY <1>1, AttemptFailsMoves
  <2> QED
    BY <1>1, <2>1, <2>2, AttemptFailsMoves DEF WindowInv, WindowRead
<1>2. CASE CreateRun(d) \/ OperatorMarksEnriched(d)
  BY <1>2 DEF CreateRun, OperatorMarksEnriched, OwnDayInv, OwnDay
<1>3. CASE \/ IngestMcc(d) \/ IngestLabels(d) \/ TxnScan(d)
           \/ (\E p \in Days : TxnCommit(d, p)) \/ IngestDone(d)
  BY <1>3 DEF IngestMcc, IngestLabels, DropTable, WriteTable, TxnScan,
              TxnCommit, IngestDone
<1>4. CASE \/ ValidateRaw(d) \/ CleanList(d) \/ CleanWrite(d)
           \/ CleanQuarantine(d) \/ EnrichRead(d) \/ EnrichWrite(d)
           \/ HiveRepair(d)
  BY <1>4 DEF ValidateRaw, CleanList, CleanWrite, CleanQuarantine, EnrichRead,
              EnrichWrite, HiveRepair
<1>5. CASE BuildRead(d)
  <2>1. seen'[d] = [q \in Days |-> IF InLookback(q, d) THEN staged[q] ELSE 0]
    BY <1>5 DEF BuildRead
  <2>2. UNCHANGED staged /\ pc'[d] = "build_write"
    BY <1>5 DEF BuildRead
  <2> QED
    BY <2>1, <2>2 DEF Reads
<1>6. CASE BuildWrite(d)
  <2>1. seen[d][d] > 0
    BY <1>6 DEF BuildWrite, OwnDayInv, OwnDay, EnrichedSteps, BuildSteps
  <2>2. feats'[d] = seen[d]
    BY <1>6, <2>1 DEF BuildWrite
  <2>3. UNCHANGED staged /\ pc'[d] = "build_count"
    BY <1>6 DEF BuildWrite
  <2>4. seen[d][e] = staged[e]
    BY <1>6 DEF BuildWrite, WindowInv, WindowRead
  <2> QED
    BY <2>2, <2>3, <2>4
<1>7. CASE BuildCount(d) \/ DbtRun(d) \/ DbtTest(d) \/ CheckQuarantine(d)
  BY <1>7 DEF BuildCount, DbtRun, DbtTest, CheckQuarantine, WindowInv,
              WindowRead
<1> QED
  BY <1>1, <1>2, <1>3, <1>4, <1>5, <1>6, <1>7
     DEF RunStep, Step, TaskRaises, Fault

LEMMA WindowInvStep ==
  ASSUME TypeOK, OwnDayInv, WindowInv, [Next]_vars
  PROVE  WindowInv'
<1>1. ASSUME NEW d \in Days, RunStep(d)
      PROVE  WindowInv'
  <2>1. CreatedInOrder' /\ NobodyLooksAhead'
    BY <1>1, CreatedInOrderStep, NobodyLooksAheadStep DEF WindowInv
  <2>2. \A e, q \in Days : Reads(e, q)' => Reads(e, q)
    BY <1>1, MetGrows DEF Reads, InLookback
  <2>3. WindowRead'
    BY <1>1, <2>2, WindowReadOther, WindowReadOwn DEF WindowRead
  <2> QED
    BY <2>1, <2>3 DEF WindowInv
<1>2. ASSUME UNCHANGED <<state, pc, seen, staged, feats, met>>
      PROVE  WindowInv'
  BY <1>2 DEF WindowInv, CreatedInOrder, NobodyLooksAhead, WindowRead, Reads,
              InLookback
<1> QED
  BY <1>1, <1>2, NextCases DEF SourceLoad, vars, lake, attempt

(* The features of a successful run were computed with all that the days   *)
(* of its lookback window have staged, now and later, except for the days  *)
(* whose runs were active together with it, although late loads, failed    *)
(* and marked runs come in between (build_fraud_features.py reads 8 days   *)
(* of staging), for any number of slots.                                   *)
THEOREM LookbackCompleteUnlessRunsMeet == Spec => []LookbackComplete
<1>1. Init => WindowInv
  BY DEF Init, WindowInv, CreatedInOrder, NobodyLooksAhead, WindowRead,
         BuiltSteps, DbtSteps
<1>2. TypeOK /\ OwnDayInv /\ WindowInv /\ [Next]_vars => WindowInv'
  BY WindowInvStep
<1>3. OwnDayInv /\ WindowInv => LookbackComplete
  BY DEF OwnDayInv, OwnDay, WindowInv, WindowRead, Reads, LookbackComplete,
         BuiltSteps, DbtSteps
<1>4. Spec => [](TypeOK /\ OwnDayInv)
  BY TypeCorrect, OwnDayInitially, OwnDayInvStep, PTL DEF Spec
<1> QED
  BY <1>1, <1>2, <1>3, <1>4, PTL DEF Spec

-----------------------------------------------------------------------------
(* What keeps the label columns from build_fraud_features.  A day that is  *)
(* staged and not enriched has its run on the way there, or failed there.  *)

OnTheWay(d) == /\ pc[d] \in CleanSteps \union EnrichSteps
               /\ state[d] \in {"running", "failed"}

HalfDone(d) ==
  /\ staged[d] > 0 => schema[d] # "none"
  /\ schema[d] = "clean" => OnTheWay(d)

HalfDoneInv == \A d \in Days : HalfDone(d)

LEMMA HalfDoneOwnDay ==
  ASSUME TypeOK, OwnDayInv, HalfDoneInv, NEW d \in Days, RunStep(d)
  PROVE  HalfDone(d)'
<1> USE DEF TypeOK, lake, catalog, attempt, Goto, NextTask, At, HalfDoneInv,
            HalfDone, OnTheWay, CleanSteps, EnrichSteps
<1>1. CASE AttemptFails(d)
  <2>1. UNCHANGED <<staged, schema>>
    BY <1>1 DEF AttemptFails
  <2>2. pc[d] \in CleanSteps \union EnrichSteps
          => FirstStep(pc[d]) \in CleanSteps \union EnrichSteps
    BY DEF FirstStep, IngestSteps, BuildSteps
  <2>3. schema'[d] = "clean" => OnTheWay(d)
    BY <2>1
  <2> QED
    BY <1>1, <2>1, <2>2, <2>3, AttemptFailsMoves
<1>2. CASE CreateRun(d) \/ OperatorMarksEnriched(d)
  BY <1>2 DEF CreateRun, OperatorMarksEnriched
<1>3. CASE \/ IngestMcc(d) \/ IngestLabels(d) \/ TxnScan(d)
           \/ (\E p \in Days : TxnCommit(d, p)) \/ IngestDone(d)
  BY <1>3 DEF IngestMcc, IngestLabels, DropTable, WriteTable, TxnScan,
              TxnCommit, IngestDone
<1>4. CASE \/ ValidateRaw(d) \/ CleanList(d) \/ CleanWrite(d)
           \/ CleanQuarantine(d) \/ EnrichRead(d) \/ EnrichWrite(d)
  BY <1>4 DEF ValidateRaw, CleanList, CleanWrite, CleanQuarantine,
              EnrichRead, EnrichWrite
<1>5. CASE \/ HiveRepair(d) \/ BuildRead(d) \/ BuildWrite(d) \/ BuildCount(d)
           \/ DbtRun(d) \/ DbtTest(d) \/ CheckQuarantine(d)
  BY <1>5 DEF HiveRepair, BuildRead, BuildWrite, BuildCount, DbtRun, DbtTest,
              CheckQuarantine
<1> QED
  BY <1>1, <1>2, <1>3, <1>4, <1>5 DEF RunStep, Step, TaskRaises, Fault

LEMMA HalfDoneStep ==
  ASSUME TypeOK, OwnDayInv, HalfDoneInv, [Next]_vars
  PROVE  HalfDoneInv'
<1>1. ASSUME NEW d \in Days, RunStep(d)
      PROVE  HalfDoneInv'
  <2>1. ASSUME NEW e \in Days, e # d
        PROVE  HalfDone(e)'
    BY <1>1, <2>1, OtherDaysUntouched DEF HalfDoneInv, HalfDone, OnTheWay
  <2> QED
    BY <1>1, <2>1, HalfDoneOwnDay DEF HalfDoneInv
<1>2. ASSUME UNCHANGED <<state, pc, staged, schema>>
      PROVE  HalfDoneInv'
  BY <1>2 DEF HalfDoneInv, HalfDone, OnTheWay
<1> QED
  BY <1>1, <1>2, NextCases DEF SourceLoad, vars, lake

(* The first staged day decides the schema; it is the day of the build, or *)
(* an earlier one.                                                         *)
LEMMA FirstStagedDay ==
  ASSUME TypeOK, OwnDayInv, HalfDoneInv, NEW d \in Days, ~Backfilled,
         At(d, "build_read"), ~SchemaHasLabels
  PROVE  \E e \in Days : e < d /\ schema[e] = "clean" /\ OnTheWay(e)
<1>1. schema[d] = "enriched" /\ d \in StagedDays
  BY DEF At, OwnDayInv, OwnDay, EnrichedSteps, BuildSteps, StagedDays
<1>2. StagedDays \in SUBSET Nat /\ StagedDays # {}
  BY <1>1 DEF StagedDays, Days
<1>3. PICK s \in StagedDays : \A r \in StagedDays : s <= r
  BY <1>2, OldestExists
<1>4. schema[s] # "enriched" /\ s \in Days /\ staged[s] > 0
  BY <1>3 DEF SchemaHasLabels, StagedDays
<1>5. schema[s] = "clean" /\ OnTheWay(s)
  BY <1>4 DEF TypeOK, HalfDoneInv, HalfDone
<1>6. s < d
  BY <1>1, <1>3, <1>4 DEF Days
<1> QED
  BY <1>4, <1>5, <1>6

(* On a lake without a backfill the build of features finds no label       *)
(* columns (build_fraud_features.py:106 selects columns of the first file  *)
(* of staging) only while an earlier day is staged and not enriched, and   *)
(* the run of that day is in clean_transactions or enrich_transactions or  *)
(* has failed there: for any number of slots, retries and faults, no other *)
(* interleaving takes the columns away.                                    *)
THEOREM BuildBlockedByEarlierDayHolds == Spec => []BuildBlockedByEarlierDay
<1>1. Init => HalfDoneInv
  BY DEF Init, HalfDoneInv, HalfDone, OnTheWay
<1>2. TypeOK /\ OwnDayInv /\ HalfDoneInv => BuildBlockedByEarlierDay
  BY FirstStagedDay DEF BuildBlockedByEarlierDay, OnTheWay
<1>3. Spec => [](TypeOK /\ OwnDayInv)
  BY TypeCorrect, OwnDayInitially, OwnDayInvStep, PTL DEF Spec
<1> QED
  BY <1>1, <1>2, <1>3, HalfDoneStep, PTL DEF Spec

-----------------------------------------------------------------------------
(* Every step takes its run forward, and leaves the other runs where they  *)
(* are.                                                                    *)

(* A further attempt is one of the same task.                              *)
LEMMA AttemptKeepsTask ==
  ASSUME NEW step \in Steps
  PROVE  TaskNumber(FirstStep(step)) = TaskNumber(step)
BY DEF TaskNumber, FirstStep, Steps, IngestSteps, CleanSteps, EnrichSteps,
       BuildSteps, DbtSteps

(* The places of the steps in their tasks.                                 *)
LEMMA StepNumbers ==
  /\ StepNumber("mcc_drop") = 0 /\ StepNumber("mcc_write") = 1
  /\ StepNumber("labels_drop") = 2 /\ StepNumber("labels_write") = 3
  /\ StepNumber("txn_scan") = 4 /\ StepNumber("txn_commit") = 5
  /\ StepNumber("clean_list") = 0 /\ StepNumber("clean_write") = 1
  /\ StepNumber("clean_quarantine") = 2
  /\ StepNumber("enrich_read") = 0 /\ StepNumber("enrich_write") = 1
  /\ StepNumber("enrich_count") = 2
  /\ StepNumber("build_read") = 0 /\ StepNumber("build_write") = 1
  /\ StepNumber("build_count") = 2
BY DEF StepNumber

(* The places of the tasks in the chain.                                   *)
LEMMA TaskNumbers ==
  /\ \A step \in IngestSteps : TaskNumber(step) = 1
  /\ TaskNumber("validate_raw") = 2
  /\ \A step \in CleanSteps : TaskNumber(step) = 3
  /\ \A step \in EnrichSteps : TaskNumber(step) = 4
  /\ TaskNumber("hive_msck_repair") = 5
  /\ \A step \in BuildSteps : TaskNumber(step) = 6
  /\ TaskNumber("dbt_run") = 7 /\ TaskNumber("dbt_test") = 8
  /\ TaskNumber("check_quarantine") = 9
BY DEF TaskNumber, IngestSteps, CleanSteps, EnrichSteps, BuildSteps

Advances(d) ==
  \/ UNCHANGED <<state[d], pc[d], tries[d], todo[d]>>
  \/ state[d] = "none" /\ state'[d] = "running" /\ UNCHANGED pc[d]
  \/ state[d] = "running" /\ state'[d] = "running" /\ MovesOn(d)
  \/ /\ state[d] = "running" /\ state'[d] \in {"success", "failed"}
     /\ UNCHANGED <<pc[d], tries[d]>>
  \/ /\ state[d] = "failed" /\ state'[d] = "running"
     /\ TaskNumber(pc[d]) < TaskNumber(pc'[d])

LEMMA RunAdvances ==
  ASSUME TypeOK, NEW d \in Days, RunStep(d)
  PROVE  Advances(d)
<1> USE TaskNumbers, StepNumbers
    DEF TypeOK, Goto, NextTask, Forget, At, Advances, MovesOn
<1>1. CASE Fault(d) \/ TaskRaises(d)
  <2>1. state[d] = "running" /\ AttemptFails(d)
    BY <1>1 DEF Fault, TaskRaises, StepRaises
  <2>2. tries[d] < tries[d] + 1
    BY ConstantsAssumption
  <2>3. TaskNumber(FirstStep(pc[d])) = TaskNumber(pc[d])
    BY AttemptKeepsTask
  <2> QED
    BY <2>1, <2>2, <2>3, AttemptFailsCounts
<1>2. CASE CreateRun(d)
  BY <1>2 DEF CreateRun
<1>3. CASE OperatorMarksEnriched(d)
  BY <1>3 DEF OperatorMarksEnriched
<1>4. CASE IngestMcc(d) \/ IngestLabels(d) \/ TxnScan(d)
  <2>1. /\ {pc[d], pc'[d]} \subseteq IngestSteps
        /\ StepNumber(pc[d]) < StepNumber(pc'[d])
    BY <1>4 DEF IngestMcc, IngestLabels, DropTable, WriteTable, TxnScan,
                IngestSteps
  <2>2. state[d] = "running" /\ UNCHANGED <<state, tries>>
    BY <1>4 DEF IngestMcc, IngestLabels, DropTable, WriteTable, TxnScan
  <2> QED
    BY <2>1, <2>2
<1>5. ASSUME NEW p \in Days, TxnCommit(d, p)
      PROVE  Advances(d)
  BY <1>5 DEF TxnCommit
<1>6. CASE IngestDone(d) \/ ValidateRaw(d) \/ CleanQuarantine(d)
  BY <1>6 DEF IngestDone, ValidateRaw, CleanQuarantine, IngestSteps,
              CleanSteps, EnrichSteps
<1>7. CASE CleanList(d) \/ CleanWrite(d)
  BY <1>7 DEF CleanList, CleanWrite, CleanSteps
<1>8. CASE EnrichRead(d) \/ EnrichWrite(d)
  BY <1>8 DEF EnrichRead, EnrichWrite, EnrichSteps
<1>9. CASE HiveRepair(d) \/ BuildRead(d) \/ BuildWrite(d) \/ BuildCount(d)
  BY <1>9 DEF HiveRepair, BuildRead, BuildWrite, BuildCount, BuildSteps
<1>10. CASE DbtRun(d) \/ DbtTest(d) \/ CheckQuarantine(d)
  BY <1>10 DEF DbtRun, DbtTest, CheckQuarantine
<1> QED
  BY <1>1, <1>2, <1>3, <1>4, <1>5, <1>6, <1>7, <1>8, <1>9, <1>10
     DEF RunStep, Step

(* Whatever happens to a run takes it forward: to a later task, a further  *)
(* attempt, a later step, or fewer partitions to commit; it ends where it  *)
(* is and is revived only at a later task (task chain and default_args of  *)
(* fraud_pipeline_dag.py).  With TypeOK, which bounds the attempts by the  *)
(* retries, this is why every run ends.                                    *)
THEOREM RunsOnlyAdvanceHolds == Spec => RunsOnlyAdvance
<1>1. ASSUME TypeOK, [Next]_vars, NEW d \in Days
      PROVE  Advances(d)
  <2>1. ASSUME NEW e \in Days, RunStep(e), e # d
        PROVE  UNCHANGED <<state[d], pc[d], tries[d], todo[d]>>
    BY <1>1, <2>1, OtherDaysUntouched
  <2>2. CASE UNCHANGED <<state, pc, tries, todo>>
    BY <2>2 DEF Advances
  <2>3. ASSUME NEW e \in Days, RunStep(e)
        PROVE  Advances(d)
    BY <1>1, <2>1, <2>3, RunAdvances DEF Advances
  <2> QED
    BY <1>1, <2>2, <2>3, NextCases DEF SourceLoad, vars, attempt
<1>2. TypeOK /\ [Next]_vars => [\A d \in Days : Advances(d)]_vars
  BY <1>1
<1> QED
  BY <1>2, TypeCorrect, PTL DEF Spec, RunsOnlyAdvance, Advances

-----------------------------------------------------------------------------
(* What no value of the constants repairs: results TLC finds on an instance *)
(* of each, for all of them.                                               *)

(* The build has not started, whatever the run has tried.                  *)
NeverBuilt ==
  \A d \in Days : /\ pc[d] \notin {"build_write"} \union BuiltSteps
                  /\ state[d] # "success"

(* On a lake the backfill has staged no run of the DAG ever succeeds,      *)
(* whatever is loaded, retried or marked: build_fraud_features.py:106      *)
(* selects columns the first files of staging do not have.                 *)
THEOREM BackfilledRunsNeverSucceed ==
  ASSUME Backfilled
  PROVE  Spec => [](\A d \in Days : state[d] # "success")
<1>1. Init => NeverBuilt
  BY DEF Init, NeverBuilt, BuiltSteps, DbtSteps
<1>2. ASSUME TypeOK, NeverBuilt, NEW d \in Days, RunStep(d)
      PROVE  NeverBuilt'
  <2>1. ASSUME NEW e \in Days, e # d
        PROVE  state'[e] = state[e] /\ pc'[e] = pc[e]
    BY <1>2, <2>1, OtherDaysUntouched
  <2>2. pc'[d] \notin {"build_write"} \union BuiltSteps /\ state'[d] # "success"
    <3> USE <1>2 DEF TypeOK, Goto, NextTask, At, NeverBuilt, BuiltSteps,
                     DbtSteps
    <3>1. CASE AttemptFails(d)
      BY <3>1, AttemptFailsMoves
         DEF FirstStep, Steps, IngestSteps, CleanSteps, EnrichSteps, BuildSteps
    <3>2. CASE CreateRun(d) \/ OperatorMarksEnriched(d)
      BY <3>2 DEF CreateRun, OperatorMarksEnriched
    <3>3. CASE \/ IngestMcc(d) \/ IngestLabels(d) \/ TxnScan(d)
               \/ (\E p \in Days : TxnCommit(d, p)) \/ IngestDone(d)
      BY <3>3 DEF IngestMcc, IngestLabels, DropTable, WriteTable, TxnScan,
                  TxnCommit, IngestDone
    <3>4. CASE \/ ValidateRaw(d) \/ CleanList(d) \/ CleanWrite(d)
               \/ CleanQuarantine(d) \/ EnrichRead(d) \/ EnrichWrite(d)
      BY <3>4 DEF ValidateRaw, CleanList, CleanWrite, CleanQuarantine,
                  EnrichRead, EnrichWrite
    <3>5. ~BuildRead(d)
      BY DEF BuildRead, SchemaHasLabels
    <3>6. CASE \/ HiveRepair(d) \/ BuildWrite(d) \/ BuildCount(d)
               \/ DbtRun(d) \/ DbtTest(d) \/ CheckQuarantine(d)
      BY <3>6 DEF HiveRepair, BuildWrite, BuildCount, DbtRun, DbtTest,
         CheckQuarantine
    <3> QED
      BY <3>1, <3>2, <3>3, <3>4, <3>5, <3>6
         DEF RunStep, Step, TaskRaises, Fault
  <2> QED
    BY <1>2, <2>1, <2>2 DEF NeverBuilt
<1>3. TypeOK /\ NeverBuilt /\ [Next]_vars => NeverBuilt'
  BY <1>2, NextCases DEF NeverBuilt, SourceLoad, vars
<1>4. NeverBuilt => \A d \in Days : state[d] # "success"
  BY DEF NeverBuilt
<1> QED
  BY <1>1, <1>3, <1>4, TypeCorrect, PTL DEF Spec

(* The behaviours in which no operator marks a task.                       *)
UnattendedNext == Next /\ \A d \in Days : ~OperatorMarksEnriched(d)
UnattendedSpec == Init /\ [][UnattendedNext]_vars

NeverEnriched ==
  \A d \in Days : /\ pc[d] \notin EnrichedSteps
                  /\ state[d] # "success"

(* Without an operator no run of the DAG ever succeeds, with any number of *)
(* retries: each attempt of enrich_transactions that writes its partition  *)
(* raises at the count after it (enrich_transactions.py:111).              *)
THEOREM UnattendedRunsNeverSucceed ==
  UnattendedSpec => [](\A d \in Days : state[d] # "success")
<1>1. Init => NeverEnriched
  BY DEF Init, NeverEnriched, EnrichedSteps, BuildSteps, DbtSteps
<1>2. ASSUME TypeOK, NeverEnriched, NEW d \in Days, RunStep(d),
             ~OperatorMarksEnriched(d)
      PROVE  NeverEnriched'
  <2>1. ASSUME NEW e \in Days, e # d
        PROVE  state'[e] = state[e] /\ pc'[e] = pc[e]
    BY <1>2, <2>1, OtherDaysUntouched
  <2>2. pc'[d] \notin EnrichedSteps /\ state'[d] # "success"
    <3> USE <1>2 DEF TypeOK, Goto, NextTask, At, NeverEnriched,
                     EnrichedSteps, BuildSteps, DbtSteps
    <3>1. CASE AttemptFails(d)
      BY <3>1, AttemptFailsMoves
         DEF FirstStep, Steps, IngestSteps, CleanSteps, EnrichSteps
    <3>2. CASE CreateRun(d)
      BY <3>2 DEF CreateRun
    <3>3. CASE \/ IngestMcc(d) \/ IngestLabels(d) \/ TxnScan(d)
               \/ (\E p \in Days : TxnCommit(d, p)) \/ IngestDone(d)
      BY <3>3 DEF IngestMcc, IngestLabels, DropTable, WriteTable, TxnScan,
                  TxnCommit, IngestDone
    <3>4. CASE \/ ValidateRaw(d) \/ CleanList(d) \/ CleanWrite(d)
               \/ CleanQuarantine(d) \/ EnrichRead(d) \/ EnrichWrite(d)
      BY <3>4 DEF ValidateRaw, CleanList, CleanWrite, CleanQuarantine,
                  EnrichRead, EnrichWrite
    <3>5. ~ \/ HiveRepair(d) \/ BuildRead(d) \/ BuildWrite(d) \/ BuildCount(d)
            \/ DbtRun(d) \/ DbtTest(d) \/ CheckQuarantine(d)
      BY DEF HiveRepair, BuildRead, BuildWrite, BuildCount, DbtRun, DbtTest,
             CheckQuarantine
    <3> QED
      BY <3>1, <3>2, <3>3, <3>4, <3>5 DEF RunStep, Step, TaskRaises, Fault
  <2> QED
    BY <1>2, <2>1, <2>2 DEF NeverEnriched
<1>3. TypeOK /\ NeverEnriched /\ [UnattendedNext]_vars => NeverEnriched'
  BY <1>2, NextCases DEF NeverEnriched, SourceLoad, vars, UnattendedNext
<1>4. NeverEnriched => \A d \in Days : state[d] # "success"
  BY DEF NeverEnriched
<1>5. [UnattendedNext]_vars => [Next]_vars
  BY DEF UnattendedNext
<1> QED
  BY <1>1, <1>3, <1>4, <1>5, TypeCorrect, PTL DEF UnattendedSpec, Spec

-----------------------------------------------------------------------------
(* The mart lags: while a run that has met no other is active, no feature  *)
(* partition of its day is known to the metastore, because the only repair *)
(* that could have found it was its own, before it was written.            *)

Unknown(d) == d \notin hiveFeats /\ d \notin martFeats

(* Who writes features, and who tells the catalog of them.                 *)
LEMMA FeaturesKnown ==
  ASSUME TypeOK, NEW f \in Days, RunStep(f)
  PROVE  /\ UNCHANGED feats \/ BuildWrite(f)
         /\ \/ UNCHANGED hiveFeats
            \/ /\ hiveFeats' = hiveFeats \union {e \in Days : feats[e][e] > 0}
               /\ At(f, "hive_msck_repair")
         /\ martFeats' = martFeats \/ martFeats' \subseteq hiveFeats
<1> USE DEF lake, catalog
<1>1. CASE AttemptFails(f)
  BY <1>1 DEF AttemptFails
<1>2. CASE HiveRepair(f)
  BY <1>2 DEF HiveRepair
<1>3. CASE DbtRun(f)
  BY <1>3 DEF DbtRun
<1> QED
  BY <1>1, <1>2, <1>3
     DEF RunStep, CreateRun, OperatorMarksEnriched, Fault, Step, IngestMcc,
         IngestLabels, DropTable, WriteTable, TxnScan, TxnCommit, IngestDone,
         ValidateRaw, CleanList, CleanWrite, CleanQuarantine, EnrichRead,
         EnrichWrite, BuildRead, BuildWrite, BuildCount, DbtTest,
         CheckQuarantine,
         TaskRaises

(* A run starts, or is revived, before the build of its features, and      *)
(* never goes back before it.                                              *)
LateSteps == BuildSteps \union DbtSteps

LEMMA BuildIsLate ==
  ASSUME TypeOK, OwnDayInv, NEW d \in Days, RunStep(d)
  PROVE  /\ pc[d] \in LateSteps => pc'[d] \in LateSteps
         /\ state'[d] = "running"
              => state[d] = "running" \/ pc[d] \notin LateSteps
         /\ BuildWrite(d) => pc[d] \in LateSteps
<1> USE DEF TypeOK, Goto, NextTask, At, BuildSteps, DbtSteps, LateSteps
<1>1. CASE Fault(d) \/ TaskRaises(d)
  <2>1. state[d] = "running" /\ AttemptFails(d)
    BY <1>1 DEF Fault, TaskRaises, StepRaises
  <2>2. pc[d] \in LateSteps => FirstStep(pc[d]) \in LateSteps
    BY DEF FirstStep, IngestSteps, CleanSteps, EnrichSteps
  <2>3. BuildWrite(d) => pc[d] \in LateSteps
    BY DEF BuildWrite
  <2> QED
    BY <2>1, <2>2, <2>3, AttemptFailsMoves
<1>2. CASE CreateRun(d) \/ OperatorMarksEnriched(d)
  BY <1>2 DEF CreateRun, OperatorMarksEnriched, OwnDayInv, OwnDay, EnrichSteps,
              BuildWrite
<1>3. CASE \/ IngestMcc(d) \/ IngestLabels(d) \/ TxnScan(d)
           \/ (\E p \in Days : TxnCommit(d, p)) \/ IngestDone(d)
  BY <1>3 DEF IngestMcc, IngestLabels, DropTable, WriteTable, TxnScan,
              TxnCommit, IngestDone, BuildWrite
<1>4. CASE \/ ValidateRaw(d) \/ CleanList(d) \/ CleanWrite(d)
           \/ CleanQuarantine(d) \/ EnrichRead(d) \/ EnrichWrite(d)
  BY <1>4 DEF ValidateRaw, CleanList, CleanWrite, CleanQuarantine,
              EnrichRead, EnrichWrite, BuildWrite
<1>5. CASE \/ HiveRepair(d) \/ BuildRead(d) \/ BuildWrite(d) \/ BuildCount(d)
           \/ DbtRun(d) \/ DbtTest(d) \/ CheckQuarantine(d)
  BY <1>5 DEF HiveRepair, BuildRead, BuildWrite, BuildCount, DbtRun, DbtTest,
              CheckQuarantine
<1> QED
  BY <1>1, <1>2, <1>3, <1>4, <1>5 DEF RunStep, Step

LagInv ==
  \A d \in Days :
    /\ pc[d] \notin LateSteps => feats[d][d] = 0 /\ Unknown(d)
    /\ (state[d] = "running" /\ met[d] = {}) => Unknown(d)

LEMMA LagInvRunStep ==
  ASSUME TypeOK, OwnDayInv, MetInv, LagInv, NEW f \in Days, RunStep(f)
  PROVE  LagInv'
<1>1. ASSUME NEW d \in Days, d # f
      PROVE  UNCHANGED <<state[d], pc[d], feats[d]>>
  BY <1>1, OtherDaysUntouched
<1>2. ASSUME NEW d \in Days, Unknown(d),
             ~(At(f, "hive_msck_repair") /\ feats[d][d] > 0)
      PROVE  Unknown(d)'
  BY <1>2, FeaturesKnown DEF Unknown
<1>3. ASSUME NEW d \in Days, pc'[d] \notin LateSteps
      PROVE  feats'[d][d] = 0 /\ Unknown(d)'
  <2>1. pc[d] \notin LateSteps /\ UNCHANGED feats[d]
    BY <1>1, <1>3, BuildIsLate, FeaturesKnown
  <2> QED
    BY <1>2, <2>1 DEF LagInv
<1>4. ASSUME NEW d \in Days, state'[d] = "running", met'[d] = {}
      PROVE  Unknown(d)'
  <2>1. Unknown(d) /\ met[d] = {}
    BY <1>1, <1>4, BuildIsLate, MetGrows DEF LagInv
  <2>2. ~(At(f, "hive_msck_repair") /\ feats[d][d] > 0)
    <3> SUFFICES ASSUME At(f, "hive_msck_repair"), feats[d][d] > 0
                 PROVE  FALSE
      OBVIOUS
    <3>1. pc[f] \notin LateSteps /\ pc[d] \in LateSteps
      BY DEF At, LateSteps, BuildSteps, DbtSteps, LagInv
    <3>2. d # f /\ state[d] = "running"
      BY <1>1, <1>4, <3>1
    <3> QED
      BY <2>1, <3>2 DEF At, MetInv
  <2> QED
    BY <1>2, <2>1, <2>2
<1> QED
  BY <1>3, <1>4 DEF LagInv

(* The features of a day are not in the mart when the run of the day ends, *)
(* unless another run was active together with it: with any number of      *)
(* slots, only the repair of another run brings them (hive_msck_repair     *)
(* before build_fraud_features in the chain of                             *)
(* fraud_pipeline_dag.py:131-133).                                         *)
THEOREM MartLagsUnlessRunsMeet ==
  Spec => [][\A d \in Days : CheckQuarantine(d) /\ met[d] = {}
                               => d \notin martFeats']_vars
<1>1. Init => MetInv /\ LagInv
  BY DEF Init, MetInv, LagInv, Unknown, NothingSeen
<1>2. TypeOK /\ OwnDayInv /\ MetInv /\ LagInv /\ [Next]_vars
        => MetInv' /\ LagInv'
  <2>1. ASSUME LagInv,
               UNCHANGED <<state, pc, feats, hiveFeats, martFeats, met>>
        PROVE  LagInv'
    BY <2>1 DEF LagInv, Unknown
  <2> QED
    BY <2>1, MetInvStep, LagInvRunStep, NextCases
       DEF SourceLoad, vars, lake, catalog
<1>3. TypeOK /\ LagInv /\ [Next]_vars
        => [\A d \in Days : CheckQuarantine(d) /\ met[d] = {}
                              => d \notin martFeats']_vars
  BY DEF LagInv, Unknown, CheckQuarantine, At, catalog
<1>4. Spec => [](TypeOK /\ OwnDayInv)
  BY TypeCorrect, OwnDayInitially, OwnDayInvStep, PTL DEF Spec
<1> QED
  BY <1>1, <1>2, <1>3, <1>4, PTL DEF Spec

===============================================================================
