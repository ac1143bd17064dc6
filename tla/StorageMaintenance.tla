--------------------------- MODULE StorageMaintenance ---------------------------
(***************************************************************************)
(* The DAG compaction_pipeline next to the daily DAG: the compactor on     *)
(* raw/transactions and the vacuum of quarantine/transactions, while       *)
(* ingest_all rewrites every raw partition and clean_transactions reads    *)
(* one and rejects rows into quarantine.                                   *)
(*                                                                         *)
(* The three compaction tasks and the two tiering tasks of the DAG all run *)
(* the main of compactor.py, which compacts yesterday's partition of       *)
(* raw/transactions.  A partition's directory is written with a static     *)
(* overwrite: it is deleted before the tasks read the rows they are to     *)
(* write, so that an attempt that found the partition cannot write it.     *)
(***************************************************************************)
EXTENDS Naturals, FiniteSets

CONSTANTS
  LastDay,     \* bound: days of the calendar
  Compactors,  \* the tasks of the group daily_compact
  Tierers,     \* the tasks of the group monthly_tier
  Retries,     \* default_args of the compaction DAG
  Rejected,    \* the days of which clean_transactions rejects rows
  MaxFaults    \* bound: failed attempts of ingest_all

Days == 1..LastDay
Tasks == Compactors \union Tierers

ASSUME ConstantsAssumption ==
  /\ LastDay \in Nat \ {0}
  /\ Compactors \intersect Tierers = {}
  /\ Retries \in Nat /\ MaxFaults \in Nat
  /\ Rejected \subseteq Days

VARIABLES
  today,       \* the calendar
  raw,         \* does the partition directory of a day exist?
  daily,       \* the active run of the daily DAG
  ds,          \* its logical day, or the last run's
  todo,        \* partitions ingest_all has still to write
  scan,        \* the last day it scanned
  ingested,    \* the last day a finished ingest_all scanned
  task,        \* state of the compactor tasks of the active run
  tries,       \* their retries
  target,      \* the day an attempt compacts
  listed,      \* are the files it listed still there?
  overrun,     \* days whose compaction was under way over a midnight
  compacted,   \* the last day a compaction run started
  vacuum,      \* state of the vacuum task
  vacuumTries, \* its retries
  current,     \* are the quarantine files it listed still there?
  quarantine,  \* days with a partition in quarantine/transactions
  faults

dailyVars == <<daily, ds, todo, scan, ingested>>
taskVars  == <<task, tries, target>>
quarantineVars == <<vacuum, vacuumTries, current, quarantine>>
vars == <<today, raw, dailyVars, taskVars, listed, overrun, compacted,
          quarantineVars, faults>>

TypeOK ==
  /\ today \in Days
  /\ raw \in [Days -> BOOLEAN]
  /\ daily \in {"idle", "ingest", "clean"}
  /\ ds \in 0..LastDay /\ todo \subseteq Days
  /\ scan \in 0..LastDay /\ ingested \in 0..LastDay
  /\ task \in [Tasks -> {"none", "ready", "listed", "counted", "write",
                         "done", "failed"}]
  /\ tries \in [Tasks -> 0..Retries]
  /\ target \in [Tasks -> 0..LastDay]
  /\ listed \in [Tasks -> BOOLEAN]
  /\ overrun \subseteq 0..LastDay
  /\ compacted \in 0..LastDay
  /\ vacuum \in {"none", "ready", "listed", "done", "failed"}
  /\ vacuumTries \in 0..Retries /\ current \in BOOLEAN
  /\ quarantine \subseteq Days
  /\ faults \in 0..MaxFaults

-----------------------------------------------------------------------------
Init ==
  /\ today = 1
  /\ raw = [d \in Days |-> FALSE]
  /\ daily = "idle" /\ ds = 0 /\ todo = {} /\ scan = 0 /\ ingested = 0
  /\ task = [k \in Tasks |-> "none"]
  /\ tries = [k \in Tasks |-> 0]
  /\ target = [k \in Tasks |-> 0]
  /\ listed = [k \in Tasks |-> FALSE]
  /\ overrun = {}
  /\ compacted = 0
  /\ vacuum = "none" /\ vacuumTries = 0 /\ current = FALSE
  /\ quarantine = {}
  /\ faults = 0

(* An attempt that has still to delete the partition it has found.         *)
Threatens(k) == task[k] \in {"listed", "counted"}

Midnight ==
  /\ today < LastDay
  /\ today' = today + 1
  /\ overrun' = overrun \union {target[k] : k \in {j \in Tasks : Threatens(j)}}
  /\ UNCHANGED <<raw, dailyVars, taskVars, listed, compacted, quarantineVars,
                 faults>>

-----------------------------------------------------------------------------
(* The daily DAG                                                           *)

(* A run starts for the next logical day that is over, and its ingest_all  *)
(* scans the source, which has rows of every day that is over.             *)
DailyStart ==
  /\ daily = "idle"
  /\ ds + 1 < today
  /\ daily' = "ingest" /\ ds' = ds + 1
  /\ todo' = 1..(today - 1) /\ scan' = today - 1
  /\ UNCHANGED <<today, raw, ingested, taskVars, listed, overrun, compacted,
                 quarantineVars, faults>>

(* The listings of the files of day d are out of date.                     *)
Unlisted(d) == [k \in Tasks |-> listed[k] /\ target[k] # d]

(* Mutant: ingestion writes the partition of its own day only.             *)
MutantIngestOwnDay(d) ==
  /\ daily = "ingest" /\ d \in todo
  /\ raw' = [raw EXCEPT ![d] = @ \/ d = ds]
  /\ listed' = Unlisted(d)
  /\ todo' = todo \ {d}
  /\ daily' = IF todo' = {} THEN "clean" ELSE "ingest"
  /\ ingested' = IF todo' = {} THEN scan ELSE ingested
  /\ UNCHANGED <<today, ds, scan, taskVars, overrun, compacted,
                 quarantineVars, faults>>

(* The dynamic overwrite replaces one partition after the other.           *)
IngestPartition(d) ==
  /\ daily = "ingest" /\ d \in todo
  /\ raw' = [raw EXCEPT ![d] = TRUE]
  /\ listed' = Unlisted(d)
  /\ todo' = todo \ {d}
  /\ daily' = IF todo' = {} THEN "clean" ELSE "ingest"
  /\ ingested' = IF todo' = {} THEN scan ELSE ingested
  /\ UNCHANGED <<today, ds, scan, taskVars, overrun, compacted,
                 quarantineVars, faults>>

(* An attempt of ingest_all fails; the next one scans again.               *)
IngestRetried ==
  /\ daily = "ingest" /\ faults < MaxFaults
  /\ faults' = faults + 1
  /\ todo' = 1..(today - 1) /\ scan' = today - 1
  /\ UNCHANGED <<today, raw, daily, ds, ingested, taskVars, listed, overrun,
                 compacted, quarantineVars>>

(* Quarantine is written if there are rejected rows; the files of a        *)
(* partition that was there are replaced.                                  *)
Quarantine(d) ==
  IF d \in Rejected
  THEN /\ quarantine' = quarantine \union {d}
       /\ current' = (current /\ d \notin quarantine)
  ELSE UNCHANGED <<quarantine, current>>

(* clean_transactions, or its last attempt fails for want of the partition.*)
DailyClean ==
  /\ daily = "clean"
  /\ daily' = "idle"
  /\ IF raw[ds] THEN Quarantine(ds) ELSE UNCHANGED <<quarantine, current>>
  /\ UNCHANGED <<today, raw, ds, todo, scan, ingested, taskVars, listed,
                 overrun, compacted, vacuum, vacuumTries, faults>>

(* An operator has a day cleaned again.                                    *)
CleanAgain(d) ==
  /\ d < ds /\ raw[d]
  /\ Quarantine(d)
  /\ UNCHANGED <<today, raw, dailyVars, taskVars, listed, overrun, compacted,
                 vacuum, vacuumTries, faults>>

-----------------------------------------------------------------------------
(* The compaction DAG                                                      *)

RunActive == \E k \in Tasks : task[k] # "none"

Release(group) == [k \in Tasks |-> IF k \in group THEN "ready" ELSE task[k]]

(* catchup=False: a day's run starts on that day or not at all.            *)
CompactionStart ==
  /\ ~RunActive
  /\ compacted < today
  /\ compacted' = today
  /\ task' = Release(Compactors)
  /\ UNCHANGED <<today, raw, dailyVars, tries, target, listed, overrun,
                 quarantineVars, faults>>

(* compact_yesterday: date.today() of the attempt decides which partition. *)
(* Without a partition the attempt is skipped, which is a success.         *)
ReadPartition(k) ==
  /\ task[k] = "ready"
  /\ IF today > 1 /\ raw[today - 1]
     THEN /\ task' = [task EXCEPT ![k] = "listed"]
          /\ target' = [target EXCEPT ![k] = today - 1]
          /\ listed' = [listed EXCEPT ![k] = TRUE]
     ELSE /\ task' = [task EXCEPT ![k] = "done"]
          /\ UNCHANGED <<target, listed>>
  /\ UNCHANGED <<today, raw, dailyVars, tries, overrun, compacted,
                 quarantineVars, faults>>

(* The counts before and after the removal of duplicates read the files.   *)
CountRows(k) ==
  /\ task[k] = "listed" /\ listed[k]
  /\ task' = [task EXCEPT ![k] = "counted"]
  /\ UNCHANGED <<today, raw, dailyVars, tries, target, listed, overrun,
                 compacted, quarantineVars, faults>>

(* Mutant: the attempt takes the day before yesterday's partition.         *)
MutantDeleteDayBefore(k) ==
  /\ task[k] = "counted"
  /\ raw' = [d \in Days |-> raw[d] /\ d # target[k] /\ d + 1 # target[k]]
  /\ listed' = Unlisted(target[k])
  /\ task' = [task EXCEPT ![k] = "write"]
  /\ UNCHANGED <<today, dailyVars, tries, target, overrun, compacted,
                 quarantineVars, faults>>

(* mode("overwrite") deletes the directory, whatever it holds by now.      *)
DeletePartition(k) ==
  /\ task[k] = "counted"
  /\ raw' = [raw EXCEPT ![target[k]] = FALSE]
  /\ listed' = Unlisted(target[k])
  /\ task' = [task EXCEPT ![k] = "write"]
  /\ UNCHANGED <<today, dailyVars, tries, target, overrun, compacted,
                 quarantineVars, faults>>

(* Mutant: the last attempt does not fail the task.                        *)
MutantNeverFails(k) ==
  /\ task[k] \in {"listed", "write"} /\ ~listed[k]
  /\ tries[k] < Retries
  /\ task' = [task EXCEPT ![k] = "ready"]
  /\ tries' = [tries EXCEPT ![k] = @ + 1]
  /\ target' = [target EXCEPT ![k] = 0]
  /\ UNCHANGED <<today, raw, dailyVars, listed, overrun, compacted,
                 quarantineVars, faults>>

(* Mutant: one retry too many.                                             *)
MutantRetriesOffByOne(k) ==
  /\ task[k] \in {"listed", "write"} /\ ~listed[k]
  /\ IF tries[k] <= Retries
     THEN /\ task' = [task EXCEPT ![k] = "ready"]
          /\ tries' = [tries EXCEPT ![k] = @ + 1]
     ELSE /\ task' = [task EXCEPT ![k] = "failed"]
          /\ UNCHANGED tries
  /\ target' = [target EXCEPT ![k] = 0]
  /\ UNCHANGED <<today, raw, dailyVars, listed, overrun, compacted,
                 quarantineVars, faults>>

(* The files the attempt listed are gone: it raises, and is retried.       *)
AttemptRaises(k) ==
  /\ task[k] \in {"listed", "write"} /\ ~listed[k]
  /\ IF tries[k] < Retries
     THEN /\ task' = [task EXCEPT ![k] = "ready"]
          /\ tries' = [tries EXCEPT ![k] = @ + 1]
     ELSE /\ task' = [task EXCEPT ![k] = "failed"]
          /\ UNCHANGED tries
  /\ target' = [target EXCEPT ![k] = 0]
  /\ UNCHANGED <<today, raw, dailyVars, listed, overrun, compacted,
                 quarantineVars, faults>>

(* All of daily_compact is done: check_monthly_trigger succeeds on every   *)
(* day, since a PythonOperator that returns False skips nothing.           *)
DailyGroupDone ==
  /\ RunActive /\ \A k \in Compactors : task[k] = "done"
  /\ vacuum = "none"
  /\ task' = Release(Tierers)
  /\ vacuum' = "ready"
  /\ UNCHANGED <<today, raw, dailyVars, tries, target, listed, overrun,
                 compacted, vacuumTries, current, quarantine, faults>>

Finished(group) == \A k \in group : task[k] \in {"done", "failed"}

(* The run ends: everything ran, or a failed task holds up the rest.       *)
CompactionEnds ==
  /\ Finished(Compactors)
  /\ \/ \E k \in Compactors : task[k] = "failed"
     \/ Finished(Tierers) /\ vacuum \in {"done", "failed"}
  /\ task' = [k \in Tasks |-> "none"]
  /\ tries' = [k \in Tasks |-> 0]
  /\ vacuum' = "none" /\ vacuumTries' = 0
  /\ UNCHANGED <<today, raw, dailyVars, target, listed, overrun, compacted,
                 current, quarantine, faults>>

-----------------------------------------------------------------------------
(* The vacuum                                                              *)

VacuumRead ==
  /\ vacuum = "ready" /\ quarantine # {}
  /\ vacuum' = "listed" /\ current' = TRUE
  /\ UNCHANGED <<today, raw, dailyVars, taskVars, listed, overrun, compacted,
                 vacuumTries, quarantine, faults>>

(* Its tasks have read the files, perhaps before cleaning replaced some.   *)
(* Dynamic overwrite replaces the days that have rows to keep; none goes.  *)
VacuumCommit ==
  /\ vacuum = "listed"
  /\ vacuum' = "done" /\ current' = FALSE
  /\ UNCHANGED <<today, raw, dailyVars, taskVars, listed, overrun, compacted,
                 vacuumTries, quarantine, faults>>

(* There is nothing to read, or a file it listed is gone; there is no      *)
(* handler, so the task fails and is retried.                              *)
VacuumRaises ==
  /\ \/ vacuum = "ready" /\ quarantine = {}
     \/ vacuum = "listed" /\ ~current
  /\ IF vacuumTries < Retries
     THEN vacuum' = "ready" /\ vacuumTries' = vacuumTries + 1
     ELSE vacuum' = "failed" /\ UNCHANGED vacuumTries
  /\ current' = FALSE
  /\ UNCHANGED <<today, raw, dailyVars, taskVars, listed, overrun, compacted,
                 quarantine, faults>>

-----------------------------------------------------------------------------
DailyStep == DailyStart \/ (\E d \in Days : IngestPartition(d)) \/ DailyClean

TaskStep(k) ==
  ReadPartition(k) \/ CountRows(k) \/ DeletePartition(k) \/ AttemptRaises(k)

RunStep ==
  \/ CompactionStart \/ DailyGroupDone \/ CompactionEnds
  \/ VacuumRead \/ VacuumCommit \/ VacuumRaises

Next ==
  \/ Midnight
  \/ DailyStep
  \/ IngestRetried
  \/ \E d \in Days : CleanAgain(d)
  \/ \E k \in Tasks : TaskStep(k)
  \/ RunStep

Spec == Init /\ [][Next]_vars

(* Time passes, and Airflow starts runs and tasks that are due; attempts   *)
(* of ingest_all fail at most MaxFaults times.                             *)
Fairness ==
  /\ WF_vars(Midnight)
  /\ WF_vars(DailyStep)
  /\ \A k \in Tasks : WF_vars(TaskStep(k))
  /\ WF_vars(RunStep)

FairSpec == Spec /\ Fairness

-----------------------------------------------------------------------------
(* Properties                                                              *)

(* Once ingest_all has finished, every partition it scanned but the last   *)
(* exists, and keeps existing: although each compaction deletes a raw      *)
(* partition, several tasks do so in parallel and a retry may run on the   *)
(* next day, only the day before is ever at risk, and the next ingestion   *)
(* restores it.  A compaction that was under way over a midnight may still *)
(* delete its day.                                                         *)
OlderPartitionsPresent ==
  \A d \in Days : (d < ingested /\ d \notin overrun) => raw[d]

(* What a compaction deleted comes back for good, unless it was under way  *)
(* over a midnight: then its day may go again after the next ingestion.    *)
LossIsRepaired ==
  \A d \in Days : d + 2 <= LastDay => <>[](raw[d] \/ d \in overrun)

(* Every run of the compaction DAG ends, also when all its attempts raise, *)
(* those of the compactors by each other's deletions and those of the      *)
(* vacuum for want of a quarantine or by the cleaning beside it.           *)
CompactionRunsEnd == RunActive ~> ~RunActive

================================================================================
