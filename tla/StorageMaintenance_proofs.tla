------------------------ MODULE StorageMaintenance_proofs ------------------------
(***************************************************************************)
(* The safety properties of StorageMaintenance hold for any number of      *)
(* days, compactor tasks, retries and faults, and any days with rejects.   *)
(***************************************************************************)
EXTENDS StorageMaintenance, TLAPS

-----------------------------------------------------------------------------
(* Type correctness                                                        *)

LEMMA InitTyped == Init => TypeOK
<1> SUFFICES ASSUME Init PROVE TypeOK
  OBVIOUS
<1>1. /\ today \in Days
      /\ \A n \in {ds, scan, ingested, compacted} : n \in 0..LastDay
      /\ vacuumTries \in 0..Retries /\ faults \in 0..MaxFaults
  BY ConstantsAssumption DEF Init, Days
<1>2. /\ raw \in [Days -> BOOLEAN]
      /\ task \in [Tasks -> {"none", "ready", "listed", "counted", "write",
                             "done", "failed"}]
      /\ tries \in [Tasks -> 0..Retries]
      /\ target \in [Tasks -> 0..LastDay]
      /\ listed \in [Tasks -> BOOLEAN]
  BY ConstantsAssumption DEF Init, Days
<1>3. /\ daily \in {"idle", "ingest", "clean"}
      /\ vacuum \in {"none", "ready", "listed", "done", "failed"}
      /\ current \in BOOLEAN
      /\ todo = {} /\ overrun = {} /\ quarantine = {}
  BY DEF Init
<1> QED
  BY <1>1, <1>2, <1>3 DEF TypeOK

LEMMA DailyTyped ==
  ASSUME TypeOK, DailyStep \/ IngestRetried \/ \E d \in Days : CleanAgain(d)
  PROVE  TypeOK'
<1> USE ConstantsAssumption
<1>1. CASE DailyStart
  BY <1>1 DEF TypeOK, Days, DailyStart, taskVars, quarantineVars
<1>2. CASE \E d \in Days : IngestPartition(d)
  BY <1>2 DEF TypeOK, Days, IngestPartition, Unlisted, taskVars, quarantineVars
<1>3. CASE IngestRetried
  BY <1>3 DEF TypeOK, Days, IngestRetried, taskVars, quarantineVars
<1>4. CASE DailyClean
  <2>1. quarantine' \subseteq Days /\ current' \in BOOLEAN
    BY <1>4 DEF TypeOK, DailyClean, Quarantine
  <2> QED
    BY <1>4, <2>1 DEF TypeOK, DailyClean, taskVars
<1>5. CASE \E d \in Days : CleanAgain(d)
  <2>1. quarantine' \subseteq Days /\ current' \in BOOLEAN
    BY <1>5 DEF TypeOK, CleanAgain, Quarantine
  <2> QED
    BY <1>5, <2>1 DEF TypeOK, CleanAgain, dailyVars, taskVars
<1> QED
  BY <1>1, <1>2, <1>3, <1>4, <1>5 DEF DailyStep

LEMMA TaskTyped ==
  ASSUME TypeOK, NEW k \in Tasks, TaskStep(k)
  PROVE  TypeOK'
<1> USE ConstantsAssumption
<1>1. CASE ReadPartition(k)
  <2>1. today - 1 \in 0..LastDay
    BY DEF TypeOK, Days
  <2>2. target' \in [Tasks -> 0..LastDay] /\ listed' \in [Tasks -> BOOLEAN]
    BY <1>1, <2>1 DEF TypeOK, ReadPartition
  <2>3. task' \in [Tasks -> {"none", "ready", "listed", "counted", "write",
                             "done", "failed"}]
    BY <1>1 DEF TypeOK, ReadPartition
  <2> QED
    BY <1>1, <2>2, <2>3 DEF TypeOK, ReadPartition, dailyVars, quarantineVars
<1>2. CASE CountRows(k)
  BY <1>2 DEF TypeOK, CountRows, dailyVars, quarantineVars
<1>3. CASE DeletePartition(k)
  BY <1>3 DEF TypeOK, DeletePartition, Unlisted, dailyVars, quarantineVars
<1>4. CASE AttemptRaises(k)
  <2>1. tries' \in [Tasks -> 0..Retries]
    BY <1>4 DEF TypeOK, AttemptRaises
  <2>2. task' \in [Tasks -> {"none", "ready", "listed", "counted", "write",
                             "done", "failed"}]
    BY <1>4 DEF TypeOK, AttemptRaises
  <2>3. target' \in [Tasks -> 0..LastDay]
    BY <1>4 DEF TypeOK, AttemptRaises
  <2> QED
    BY <1>4, <2>1, <2>2, <2>3 DEF TypeOK, AttemptRaises, dailyVars, quarantineVars
<1> QED
  BY <1>1, <1>2, <1>3, <1>4 DEF TaskStep

LEMMA RunTyped ==
  ASSUME TypeOK, RunStep
  PROVE  TypeOK'
<1> USE ConstantsAssumption
<1>1. CASE CompactionStart
  BY <1>1 DEF TypeOK, Days, CompactionStart, Release, dailyVars, quarantineVars
<1>2. CASE DailyGroupDone
  BY <1>2 DEF TypeOK, DailyGroupDone, Release, dailyVars
<1>3. CASE VacuumRead
  BY <1>3 DEF TypeOK, VacuumRead, dailyVars, taskVars
<1>4. CASE VacuumCommit
  BY <1>4 DEF TypeOK, VacuumCommit, dailyVars, taskVars
<1>5. CASE VacuumRaises
  <2>1. \/ vacuumTries < Retries /\ vacuum' = "ready"
             /\ vacuumTries' = vacuumTries + 1
        \/ vacuum' = "failed" /\ vacuumTries' = vacuumTries
    BY <1>5 DEF VacuumRaises
  <2>2. vacuum' \in {"none", "ready", "listed", "done", "failed"}
    BY <2>1
  <2>3. vacuumTries' \in 0..Retries
    BY <2>1 DEF TypeOK
  <2> QED
    BY <1>5, <2>2, <2>3 DEF TypeOK, VacuumRaises, dailyVars, taskVars
<1>6. CASE CompactionEnds
  BY <1>6 DEF TypeOK, CompactionEnds, dailyVars
<1> QED
  BY <1>1, <1>2, <1>3, <1>4, <1>5, <1>6 DEF RunStep

LEMMA StepTyped == TypeOK /\ [Next]_vars => TypeOK'
<1>1. SUFFICES ASSUME TypeOK, [Next]_vars PROVE TypeOK'
  OBVIOUS
<1>2. CASE Midnight
  <2>1. overrun' \subseteq 0..LastDay
    BY <1>1, <1>2 DEF TypeOK, Midnight
  <2> QED
    BY <1>1, <1>2, <2>1, ConstantsAssumption
       DEF TypeOK, Days, Midnight, dailyVars, taskVars, quarantineVars
<1>3. CASE DailyStep \/ IngestRetried \/ \E d \in Days : CleanAgain(d)
  BY <1>1, <1>3, DailyTyped
<1>4. CASE \E k \in Tasks : TaskStep(k)
  BY <1>1, <1>4, TaskTyped
<1>5. CASE RunStep
  BY <1>1, <1>5, RunTyped
<1>6. CASE UNCHANGED vars
  BY <1>1, <1>6 DEF TypeOK, vars, dailyVars, taskVars, quarantineVars
<1> QED
  BY <1>1, <1>2, <1>3, <1>4, <1>5, <1>6 DEF Next

(* Retries never exceed their limit, those of the vacuum included, and     *)
(* every job works on days that exist.                                     *)
THEOREM TypeCorrect == Spec => []TypeOK
BY InitTyped, StepTyped, PTL DEF Spec

-----------------------------------------------------------------------------
(* Raw partitions                                                          *)

(* The invariant that protects older partitions: what compactors may still *)
(* delete is the day before today or a day whose compaction was under way  *)
(* over a midnight, and ingestion scans no later day.                      *)
ScansArePast == ingested <= scan /\ scan < today

TargetsYesterday ==
  \A k \in Tasks : Threatens(k) => target[k] = today - 1 \/ target[k] \in overrun

(* What the running ingest_all has still to write is all that may miss.    *)
WrittenPresent ==
  daily = "ingest" =>
    \A d \in Days : (d < scan /\ d \notin todo /\ d \notin overrun) => raw[d]

PartitionsInv ==
  TypeOK /\ ScansArePast /\ TargetsYesterday /\ WrittenPresent
  /\ OlderPartitionsPresent

LEMMA PartitionsInit == Init => PartitionsInv
<1> SUFFICES ASSUME Init PROVE PartitionsInv
  OBVIOUS
<1>1. TypeOK
  BY InitTyped
<1>2. ScansArePast /\ WrittenPresent /\ OlderPartitionsPresent
  BY ConstantsAssumption
     DEF Init, ScansArePast, WrittenPresent, OlderPartitionsPresent, Days
<1>3. TargetsYesterday
  BY DEF Init, TargetsYesterday, Threatens
<1> QED
  BY <1>1, <1>2, <1>3 DEF PartitionsInv

LEMMA PartitionsNext == PartitionsInv /\ [Next]_vars => PartitionsInv'
<1>1. SUFFICES ASSUME PartitionsInv, [Next]_vars PROVE PartitionsInv'
  OBVIOUS
<1>2. TypeOK /\ TypeOK'
  BY <1>1, StepTyped DEF PartitionsInv
<1> USE <1>2
<1> USE DEF PartitionsInv
<1>3. CASE Midnight
  <2>1. ScansArePast' /\ WrittenPresent' /\ OlderPartitionsPresent'
    BY <1>1, <1>3 DEF Midnight, dailyVars, ScansArePast, WrittenPresent,
       OlderPartitionsPresent, TypeOK, Days
  <2>2. TargetsYesterday'
    <3>1. \A k \in Tasks : Threatens(k)' => target'[k] \in overrun'
      BY <1>3 DEF Midnight, taskVars, Threatens
    <3> QED
      BY <3>1 DEF TargetsYesterday
  <2> QED
    BY <2>1, <2>2
<1>4. CASE DailyStart \/ IngestRetried
  <2>1. ScansArePast'
    BY <1>1, <1>4 DEF DailyStart, IngestRetried, ScansArePast, TypeOK, Days
  <2>2. WrittenPresent'
    BY <1>1, <1>4 DEF DailyStart, IngestRetried, WrittenPresent, TypeOK, Days
  <2>3. OlderPartitionsPresent'
    BY <1>1, <1>4 DEF DailyStart, IngestRetried, OlderPartitionsPresent
  <2>4. TargetsYesterday'
    BY <1>1, <1>4 DEF DailyStart, IngestRetried, taskVars, TargetsYesterday,
       Threatens
  <2> QED
    BY <2>1, <2>2, <2>3, <2>4
<1>5. CASE \E d \in Days : IngestPartition(d)
  <2>1. PICK d \in Days : IngestPartition(d)
    BY <1>5
  <2>2. \A e \in Days : raw[e] \/ e = d => raw'[e]
    BY <2>1 DEF IngestPartition, TypeOK
  <2>3. ScansArePast'
    BY <1>1, <2>1 DEF IngestPartition, ScansArePast, TypeOK, Days
  <2>4. \A e \in Days : (e < scan /\ e \notin todo' /\ e \notin overrun) => raw'[e]
    BY <1>1, <2>1, <2>2 DEF IngestPartition, WrittenPresent
  <2>5. WrittenPresent'
    BY <2>1, <2>4 DEF IngestPartition, WrittenPresent
  <2>6. OlderPartitionsPresent'
    BY <1>1, <2>1, <2>2, <2>4 DEF IngestPartition, OlderPartitionsPresent
  <2>7. TargetsYesterday'
    BY <1>1, <2>1 DEF IngestPartition, taskVars, TargetsYesterday, Threatens
  <2> QED
    BY <2>3, <2>5, <2>6, <2>7
<1>6. CASE DailyClean \/ \E d \in Days : CleanAgain(d)
  <2>1. UNCHANGED <<today, raw, taskVars, overrun, scan, ingested, todo>>
        /\ (daily' = "ingest" => daily = "ingest")
    BY <1>6 DEF DailyClean, CleanAgain, dailyVars
  <2> QED
    BY <1>1, <2>1 DEF taskVars, ScansArePast, WrittenPresent,
       OlderPartitionsPresent, TargetsYesterday, Threatens
<1>7. CASE \E k \in Tasks : TaskStep(k)
  <2>1. PICK k \in Tasks : TaskStep(k)
    BY <1>7
  <2>2. UNCHANGED <<today, overrun, dailyVars>>
    BY <2>1 DEF TaskStep, ReadPartition, CountRows, DeletePartition,
       AttemptRaises
  <2>3. TargetsYesterday'
    <3>1. CASE ReadPartition(k)
      BY <1>1, <2>2, <3>1 DEF ReadPartition, TargetsYesterday, Threatens, TypeOK
    <3>2. CASE CountRows(k) \/ DeletePartition(k) \/ AttemptRaises(k)
      <4>1. \A j \in Tasks : Threatens(j)' =>
              Threatens(j) /\ target'[j] = target[j]
        BY <3>2 DEF CountRows, DeletePartition, AttemptRaises, TypeOK,
           Threatens
      <4> QED
        BY <1>1, <2>2, <4>1 DEF TargetsYesterday
    <3> QED
      BY <2>1, <3>1, <3>2 DEF TaskStep
  <2>4. \A d \in Days :
          (raw[d] /\ d < today - 1 /\ d \notin overrun) => raw'[d]
    <3>1. CASE DeletePartition(k)
      <4>1. target[k] = today - 1 \/ target[k] \in overrun
        BY <1>1, <3>1 DEF DeletePartition, TargetsYesterday, Threatens
      <4> QED
        BY <3>1, <4>1 DEF DeletePartition, TypeOK, Days
    <3>2. CASE ~DeletePartition(k)
      BY <2>1, <3>2 DEF TaskStep, ReadPartition, CountRows, AttemptRaises
    <3> QED
      BY <3>1, <3>2
  <2>5. WrittenPresent' /\ OlderPartitionsPresent' /\ ScansArePast'
    BY <1>1, <2>2, <2>4 DEF WrittenPresent, OlderPartitionsPresent,
       ScansArePast, dailyVars, TypeOK, Days
  <2> QED
    BY <2>3, <2>5
<1>8. CASE RunStep
  <2>1. UNCHANGED <<today, raw, overrun, dailyVars, target>>
    BY <1>8 DEF RunStep, CompactionStart, DailyGroupDone, VacuumRead,
       VacuumCommit, VacuumRaises, CompactionEnds, taskVars
  <2>2. \A k \in Tasks : Threatens(k)' => Threatens(k)
    BY <1>8 DEF RunStep, CompactionStart, DailyGroupDone, VacuumRead,
       VacuumCommit, VacuumRaises, CompactionEnds, taskVars, Release, TypeOK,
       Threatens
  <2> QED
    BY <1>1, <2>1, <2>2 DEF dailyVars, ScansArePast, WrittenPresent,
       OlderPartitionsPresent, TargetsYesterday, Threatens
<1>9. CASE UNCHANGED vars
  BY <1>1, <1>9 DEF vars, dailyVars, taskVars, ScansArePast, WrittenPresent,
     OlderPartitionsPresent, TargetsYesterday, Threatens
<1> QED
  BY <1>1, <1>3, <1>4, <1>5, <1>6, <1>7, <1>8, <1>9 DEF Next, DailyStep

(* However many compactor tasks run, are retried or are repeated on a      *)
(* later day, they never take a partition older than the last ingestion's  *)
(* last day, unless its compaction was under way over a midnight.          *)
THEOREM OlderPartitionsPresentHolds == Spec => []OlderPartitionsPresent
<1>1. PartitionsInv => OlderPartitionsPresent
  BY DEF PartitionsInv
<1> QED
  BY <1>1, PartitionsInit, PartitionsNext, PTL DEF Spec

================================================================================
