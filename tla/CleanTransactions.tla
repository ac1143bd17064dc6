--------------------------- MODULE CleanTransactions ---------------------------
(***************************************************************************)
(* The jobs that turn raw transactions into the staging and quarantine     *)
(* layers, at the level of rows: clean_transactions.py, one logical day    *)
(* per job, and clean_transactions_full.py, all partitions in one job.     *)
(*                                                                         *)
(* Spark evaluates lazily: the job lists its input files once, and every   *)
(* action after that (the write of staging, the counts, the write of       *)
(* quarantine) computes the result again.  Deduplication keeps one row per *)
(* transaction_id by row_number() over _loaded_at, which orders rows of    *)
(* the same load (one _loaded_at) arbitrarily, so two evaluations may keep *)
(* different rows.                                                         *)
(***************************************************************************)
EXTENDS Naturals, FiniteSets

CONSTANTS
  Days,      \* event days
  NoDay,     \* the day of a row whose date does not parse
  Ids,       \* transaction ids
  NullId,    \* the id of a row whose id is NULL
  Full,      \* the job of clean_transactions_full; a day names its daily job
  Loads,     \* loads the source may receive: sets of rows without a stamp
  MaxLoads,  \* bound: loads
  MaxActive  \* bound: jobs active at once

Partitions == Days \union {NoDay}
Jobs == Days \union {Full}
Stamps == 1..MaxLoads

(* ok: user_id is there and the amount parses to CLEAN, US, EU or VN.      *)
Drafts == [id : Ids \union {NullId}, day : Partitions, ok : BOOLEAN]
Row    == [id : Ids \union {NullId}, day : Partitions, ok : BOOLEAN,
           stamp : Stamps]

ASSUME ConstantsAssumption ==
  /\ NoDay \notin Days
  /\ NullId \notin Ids
  /\ Full \notin Days
  /\ Loads \subseteq SUBSET Drafts
  /\ MaxLoads \in Nat /\ MaxActive \in Nat

VARIABLES
  source,      \* rows of raw_transactions in PostgreSQL
  loads,       \* loads committed so far; a load's number is its _loaded_at
  scans,       \* of each ingestion under way: the loads its scan has seen
  raw,         \* rows of raw/transactions
  staging,     \* rows of staging/transactions
  quarantine,  \* rows of quarantine/transactions
  pc,          \* the next action of each job
  input,       \* the rows in the files each job listed
  bad,         \* full job: quarantine_count > 0
  fresh,       \* full job: staging was empty when it started
  crossed      \* active jobs that have met the backfill, or it them

vars == <<source, loads, scans, raw, staging, quarantine, pc, input, bad, fresh,
          crossed>>

TypeOK ==
  /\ source \subseteq Row
  /\ loads \in 0..MaxLoads
  /\ scans \subseteq 0..MaxLoads
  /\ raw \subseteq Row
  /\ staging \subseteq Row
  /\ quarantine \subseteq Row
  /\ pc \in [Jobs -> {"idle", "write", "count", "quarantine", "done"}]
  /\ input \in [Jobs -> SUBSET Row]
  /\ bad \in BOOLEAN
  /\ fresh \in BOOLEAN
  /\ crossed \subseteq Jobs

-----------------------------------------------------------------------------
(* What the jobs compute                                                   *)

(* _build_is_valid *)
Valid(r) == r.id # NullId /\ r.day # NoDay /\ r.ok

Accepted(rows) == {r \in rows : Valid(r)}
Rejected(rows) == {r \in rows : ~Valid(r)}

(* Mutant: rows are filtered by is_valid before they are deduplicated.     *)
MutantFilterFirst(rows) ==
  {{s \in Accepted(rows) :
      \A r \in Accepted(rows) : r.id = s.id => r.stamp <= s.stamp}}

(* Mutant: the window is partitioned by transaction_id and day.            *)
MutantDedupPerDay(rows) ==
  {w \in SUBSET rows :
     /\ \A r \in rows : \E s \in w : s.id = r.id /\ s.day = r.day
     /\ \A s \in w, r \in rows : (r.id = s.id /\ r.day = s.day) =>
          r.stamp <= s.stamp /\ (r \in w => r = s)}

(* Every result the deduplication may give: for each id one row among      *)
(* those with the latest stamp.  NULL is one id like the others.           *)
Dedups(rows) ==
  {w \in SUBSET rows :
     /\ \A r \in rows : \E s \in w : s.id = r.id
     /\ \A s \in w, r \in rows :
          r.id = s.id => r.stamp <= s.stamp /\ (r \in w => r = s)}

(* Mutant: mode("append").                                                 *)
MutantAppend(table, rows) == table \union rows

(* Mutant: rows are replaced by id, not partitions.                        *)
MutantUpsert(table, rows) ==
  {r \in table : \A s \in rows : s.day # r.day \/ s.id # r.id} \union rows

(* Mutant: partitionOverwriteMode=static.                                  *)
MutantStaticOverwrite(table, rows) == rows

(* write.mode("overwrite") with partitionOverwriteMode=dynamic: partitions *)
(* without a row in the result stay as they are.                           *)
DynamicOverwrite(table, rows) ==
  {r \in table : \A s \in rows : s.day # r.day} \union rows

(* The rows of a job's files.                                              *)
InScope(j, r) == j = Full \/ r.day = j
ScopeOf(j, rows) == {r \in rows : InScope(j, r)}

-----------------------------------------------------------------------------
Init ==
  /\ source = {} /\ loads = 0 /\ scans = {}
  /\ raw = {} /\ staging = {} /\ quarantine = {}
  /\ pc = [j \in Jobs |-> "idle"]
  /\ input = [j \in Jobs |-> {}]
  /\ bad = FALSE /\ fresh = FALSE
  /\ crossed = {}

(* A load commits; its rows get the same _loaded_at.                       *)
SourceLoad(load) ==
  /\ loads < MaxLoads
  /\ loads' = loads + 1
  /\ source' = source \union
       {[id |-> r.id, day |-> r.day, ok |-> r.ok, stamp |-> loads + 1] :
          r \in load}
  /\ UNCHANGED <<scans, raw, staging, quarantine, pc, input, bad, fresh,
                 crossed>>

(* An ingestion queries the whole table; an empty one writes nothing.      *)
Scan ==
  /\ source # {}
  /\ scans' = scans \union {loads}
  /\ UNCHANGED <<source, loads, raw, staging, quarantine, pc, input, bad, fresh,
                 crossed>>

(* The rows of partition p in a scan that has seen n loads.                *)
Scanned(n, p) == {r \in source : r.day = p /\ r.stamp <= n}

(* Mutant: ingestion overwrites _loaded_at with its own time.              *)
MutantRestamp(n, p) ==
  /\ n \in scans
  /\ Scanned(n, p) # {}
  /\ raw' = {r \in raw : r.day # p} \union
       {[r EXCEPT !.stamp = loads + 1] : r \in Scanned(n, p)}
  /\ UNCHANGED <<source, loads, scans, staging, quarantine, pc, input, bad,
                 fresh, crossed>>

(* The write of an ingestion replaces a raw partition by what its scan has *)
(* seen of it, which another ingestion may have done since with a newer    *)
(* scan: several runs of the DAG ingest the same tables.                   *)
Commit(n, p) ==
  /\ n \in scans
  /\ Scanned(n, p) # {}
  /\ raw' = {r \in raw : r.day # p} \union Scanned(n, p)
  /\ UNCHANGED <<source, loads, scans, staging, quarantine, pc, input, bad,
                 fresh, crossed>>

(* The last ingestion with such a scan has written, or failed.             *)
IngestEnds(n) ==
  /\ n \in scans
  /\ scans' = scans \ {n}
  /\ UNCHANGED <<source, loads, raw, staging, quarantine, pc, input, bad, fresh,
                 crossed>>

(* The active jobs whose partitions job j shares: nothing in the code      *)
(* keeps the backfill, meant to run before the DAG does, from daily jobs.  *)
Met(j) == {k \in Jobs : k # j /\ pc[k] # "idle" /\ (j = Full \/ k = Full)}

(* spark.read.parquet fails when there are no files.                       *)
List(j) ==
  /\ pc[j] = "idle"
  /\ Cardinality({k \in Jobs : pc[k] # "idle"}) < MaxActive
  /\ ScopeOf(j, raw) # {}
  /\ input' = [input EXCEPT ![j] = ScopeOf(j, raw)]
  /\ fresh' = IF j = Full THEN staging = {} ELSE fresh
  /\ pc' = [pc EXCEPT ![j] = IF j = Full THEN "count" ELSE "write"]
  /\ crossed' = crossed \union Met(j) \union {k \in {j} : Met(j) # {}}
  /\ UNCHANGED <<source, loads, scans, raw, staging, quarantine, bad>>

AfterCount(b) == IF b THEN "quarantine" ELSE "done"

(* df_valid is written; the daily job counts afterwards, the full job has  *)
(* counted before.                                                         *)
WriteStaging(j) ==
  /\ pc[j] = "write"
  /\ \E w \in Dedups(input[j]) :
       staging' = DynamicOverwrite(staging, Accepted(w))
  /\ pc' = [pc EXCEPT ![j] = IF j = Full THEN AfterCount(bad) ELSE "count"]
  /\ UNCHANGED <<source, loads, scans, raw, quarantine, input, bad, fresh,
                 crossed>>

Count(j) ==
  /\ pc[j] = "count"
  /\ \E w \in Dedups(input[j]) :
       LET some == Rejected(w) # {}
       IN /\ bad' = IF j = Full THEN some ELSE bad
          /\ pc' = [pc EXCEPT ![j] =
                      IF j = Full THEN "write" ELSE AfterCount(some)]
  /\ UNCHANGED <<source, loads, scans, raw, staging, quarantine, input, fresh,
                 crossed>>

WriteQuarantine(j) ==
  /\ pc[j] = "quarantine"
  /\ \E w \in Dedups(input[j]) :
       quarantine' = DynamicOverwrite(quarantine, Rejected(w))
  /\ pc' = [pc EXCEPT ![j] = "done"]
  /\ UNCHANGED <<source, loads, scans, raw, staging, input, bad, fresh,
                 crossed>>

(* stop_spark_session, or a failure of the job: a lost executor, or a raw  *)
(* file listed by the job that a new ingestion has replaced.  Airflow or   *)
(* an operator may start the job again.                                    *)
JobEnds(j) ==
  /\ pc[j] # "idle"
  /\ pc' = [pc EXCEPT ![j] = "idle"]
  /\ input' = [input EXCEPT ![j] = {}]
  /\ crossed' = crossed \ {j}
  /\ bad' = (j # Full /\ bad)
  /\ fresh' = (j # Full /\ fresh)
  /\ UNCHANGED <<source, loads, scans, raw, staging, quarantine>>

Next ==
  \/ \E load \in Loads : SourceLoad(load)
  \/ Scan
  \/ \E n \in scans, p \in Partitions : Commit(n, p)
  \/ \E n \in scans : IngestEnds(n)
  \/ \E j \in Jobs : List(j)
  \/ \E j \in Jobs : WriteStaging(j)
  \/ \E j \in Jobs : Count(j)
  \/ \E j \in Jobs : WriteQuarantine(j)
  \/ \E j \in Jobs : JobEnds(j)

Spec == Init /\ [][Next]_vars

-----------------------------------------------------------------------------
(* Properties                                                              *)

(* A day of staging has each transaction once, whatever was loaded twice,  *)
(* rerun, interrupted or backfilled.                                       *)
StagedOncePerDay ==
  \A r, s \in staging : (r.day = s.day /\ r.id = s.id) => r = s

(* The rows of rows that no row of the same id is newer than.              *)
Newest(rows) == {r \in rows : \A s \in rows : s.id = r.id => s.stamp <= r.stamp}

(* The newest versions of r's transaction, all accepted or all rejected.   *)
(* Versions of one load that disagree leave the outcome open: each action  *)
(* of the job may keep another one of them.                                *)
Decided(r, rows) ==
  /\ r \in Newest(rows)
  /\ \A s \in Newest(rows) : s.id = r.id => (Valid(s) <=> Valid(r))

(* A job that has not met the backfill leaves every transaction whose      *)
(* newest versions agree as one of those in the table their validity calls *)
(* for, whatever other transactions of the same load do: rerunning it on   *)
(* the same raw rows gives the same answer.                                *)
NewestDecides ==
  \A j \in Jobs : (pc[j] = "done" /\ j \notin crossed) =>
    \A r \in input[j] : Decided(r, input[j]) =>
      \E s \in Newest(input[j]) :
        s.id = r.id /\ s \in (IF Valid(r) THEN staging ELSE quarantine)

(* A transaction whose newest versions are rejected is no longer staged in *)
(* a day that has another transaction to accept.  In a day with nothing    *)
(* left to accept it stays: the overwrite by an empty result replaces no   *)
(* partition.                                                              *)
WithdrawnLeaves ==
  \A j \in Jobs : (pc[j] = "done" /\ j \notin crossed) =>
    \A r, a \in input[j] :
      (Decided(r, input[j]) /\ ~Valid(r) /\ Decided(a, input[j]) /\ Valid(a)
         /\ \A b \in Newest(input[j]) : b.id = a.id => b.day = a.day) =>
        \A s \in ScopeOf(j, staging) : s.id = r.id => s.day # a.day

(* The first backfill gives every transaction one row in all of staging,   *)
(* also one that was loaded under two days, if no daily job runs beside it.*)
BackfillUnique ==
  (pc[Full] = "done" /\ fresh /\ Full \notin crossed) =>
    \A r, s \in staging : r.id = s.id => r = s

(* The versions cleaning cannot fall behind: the tables, the scans under   *)
(* way and the files of every job that may still write hold them, or a     *)
(* newer one of the same transaction and day.                              *)
AtLeast(r, rows) ==
  \E s \in rows : s.id = r.id /\ s.day = r.day /\ r.stamp <= s.stamp

Secured ==
  {r \in source :
     /\ AtLeast(r, staging) /\ AtLeast(r, raw)
     /\ \A n \in scans : r.stamp <= n
     /\ \A j \in Jobs :
          (pc[j] # "idle" /\ InScope(j, r)) => AtLeast(r, input[j])}

(* The jobs implement the abstract staging layer: a version that is        *)
(* secured gives way only to one at least as new, however the jobs of      *)
(* several days, the backfill, reruns, ends and ingestions with older      *)
(* scans interleave.                                                       *)
Promise == INSTANCE StagingLayer WITH known <- source, kept <- Secured
ImplementsStagingLayer == Promise!Spec

(* A job that finished leaves in its quarantine partitions no version of a *)
(* transaction older than the newest one it read: a rerun rewrites what an *)
(* earlier run of the day quarantined.                                     *)
QuarantineIsRewritten ==
  \A j \in Jobs : pc[j] = "done" =>
    \A r \in input[j], s \in ScopeOf(j, quarantine) :
      r.id = s.id => r.stamp <= s.stamp

================================================================================
