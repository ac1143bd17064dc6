----------------------- MODULE CleanTransactions_proofs -----------------------
(***************************************************************************)
(* Theorems about CleanTransactions, for any sets of days, ids and loads   *)
(* and any number of loads.                                                *)
(***************************************************************************)
EXTENDS CleanTransactions, TLAPS

(* What every result of the deduplication satisfies.                       *)
LEMMA DedupsFacts ==
  ASSUME NEW rows, NEW w \in Dedups(rows)
  PROVE  /\ w \subseteq rows
         /\ \A r \in rows : \E s \in w : s.id = r.id
         /\ \A s \in w, r \in rows : r.id = s.id => r.stamp <= s.stamp
         /\ \A r, s \in w : r.id = s.id => r = s
BY DEF Dedups

(* A dynamic overwrite keeps rows of the table and adds rows of the result.*)
LEMMA OverwriteFacts ==
  ASSUME NEW table, NEW rows, NEW r \in DynamicOverwrite(table, rows)
  PROVE  r \in rows \/ (r \in table /\ \A s \in rows : s.day # r.day)
BY DEF DynamicOverwrite

(* Only rows the source committed reach the tables and the jobs, and a job *)
(* has only rows of its own partitions; no row has the time of a load that *)
(* is still to come.                                                       *)
FromSource ==
  /\ \A r \in source : r.stamp <= loads
  /\ raw \subseteq source
  /\ staging \subseteq source
  /\ quarantine \subseteq source
  /\ \A j \in Jobs : input[j] \subseteq ScopeOf(j, source)

(* Type correctness, and provenance: whatever the jobs, the backfill and   *)
(* the ingestions do, the layers hold rows PostgreSQL committed and no     *)
(* others, as they were committed.                                         *)
THEOREM TypeCorrect == Spec => [](TypeOK /\ FromSource)
<1>1. Init => TypeOK /\ FromSource
  <2> SUFFICES ASSUME Init
               PROVE  TypeOK /\ FromSource
    OBVIOUS
  <2>1. loads \in 0..MaxLoads
    BY ConstantsAssumption DEF Init
  <2>2. bad \in BOOLEAN /\ fresh \in BOOLEAN
    BY DEF Init
  <2>3. FromSource
    BY DEF Init, FromSource, ScopeOf
  <2> QED
    BY <2>1, <2>2, <2>3 DEF Init, TypeOK
<1>2. TypeOK /\ FromSource /\ [Next]_vars => TypeOK' /\ FromSource'
  <2> SUFFICES ASSUME TypeOK, FromSource, [Next]_vars
               PROVE  TypeOK' /\ FromSource'
    OBVIOUS
  <2>1. ASSUME NEW load \in Loads, SourceLoad(load)
        PROVE  TypeOK' /\ FromSource'
    <3>1. loads + 1 \in Stamps /\ loads' \in 0..MaxLoads
      BY <2>1, ConstantsAssumption DEF SourceLoad, Stamps, TypeOK
    <3>2. load \subseteq Drafts
      BY ConstantsAssumption
    <3>3. \A r \in load : [id |-> r.id, day |-> r.day, ok |-> r.ok,
                           stamp |-> loads + 1] \in Row
      BY <3>1, <3>2 DEF Drafts, Row
    <3>4. source \subseteq source' /\ source' \subseteq Row
      BY <2>1, <3>3 DEF SourceLoad, TypeOK
    <3>5. \A r \in source' : r.stamp <= loads'
      BY <2>1, ConstantsAssumption DEF SourceLoad, TypeOK, FromSource, Row, Stamps
    <3> QED
      BY <2>1, <3>1, <3>4, <3>5 DEF SourceLoad, TypeOK, FromSource, ScopeOf
  <2>2. CASE Scan
    BY <2>2 DEF Scan, TypeOK, FromSource
  <2>3. ASSUME NEW n \in scans, NEW p \in Partitions, Commit(n, p)
        PROVE  TypeOK' /\ FromSource'
    <3>1. raw' \subseteq source
      BY <2>3 DEF Commit, Scanned, FromSource
    <3> QED
      BY <2>3, <3>1 DEF Commit, TypeOK, FromSource
  <2>4. ASSUME NEW n \in scans, IngestEnds(n)
        PROVE  TypeOK' /\ FromSource'
    BY <2>4 DEF IngestEnds, TypeOK, FromSource
  <2>5. ASSUME NEW j \in Jobs, List(j)
        PROVE  TypeOK' /\ FromSource'
    <3>1. ScopeOf(j, raw) \subseteq ScopeOf(j, source)
      BY DEF ScopeOf, FromSource
    <3>2. crossed' \subseteq Jobs
      BY <2>5 DEF List, Met, TypeOK
    <3>3. TypeOK'
      BY <2>5, <3>1, <3>2 DEF List, TypeOK, ScopeOf
    <3>4. \A k \in Jobs : input'[k] = IF k = j THEN ScopeOf(j, raw) ELSE input[k]
      BY <2>5 DEF List, TypeOK
    <3> QED
      BY <2>5, <3>1, <3>3, <3>4 DEF List, FromSource
  <2>6. ASSUME NEW j \in Jobs, WriteStaging(j)
        PROVE  TypeOK' /\ FromSource'
    <3>1. PICK w \in Dedups(input[j]) :
            staging' = DynamicOverwrite(staging, Accepted(w))
      BY <2>6 DEF WriteStaging
    <3>2. staging' \subseteq source
      BY <3>1, DedupsFacts DEF DynamicOverwrite, Accepted, FromSource, ScopeOf
    <3> QED
      BY <2>6, <3>2 DEF WriteStaging, AfterCount, TypeOK, FromSource
  <2>7. ASSUME NEW j \in Jobs, Count(j)
        PROVE  TypeOK' /\ FromSource'
    <3>1. bad' \in BOOLEAN
      BY <2>7 DEF Count, TypeOK
    <3>2. pc' \in [Jobs -> {"idle", "write", "count", "quarantine", "done"}]
      BY <2>7 DEF Count, AfterCount, TypeOK
    <3> QED
      BY <2>7, <3>1, <3>2 DEF Count, TypeOK, FromSource
  <2>8. ASSUME NEW j \in Jobs, WriteQuarantine(j)
        PROVE  TypeOK' /\ FromSource'
    <3>1. PICK w \in Dedups(input[j]) :
            quarantine' = DynamicOverwrite(quarantine, Rejected(w))
      BY <2>8 DEF WriteQuarantine
    <3>2. quarantine' \subseteq source
      BY <3>1, DedupsFacts DEF DynamicOverwrite, Rejected, FromSource, ScopeOf
    <3> QED
      BY <2>8, <3>2 DEF WriteQuarantine, TypeOK, FromSource
  <2>9. ASSUME NEW j \in Jobs, JobEnds(j)
        PROVE  TypeOK' /\ FromSource'
    <3>1. TypeOK'
      BY <2>9 DEF JobEnds, TypeOK
    <3>2. \A k \in Jobs : input'[k] = IF k = j THEN {} ELSE input[k]
      BY <2>9 DEF JobEnds, TypeOK
    <3> QED
      BY <2>9, <3>1, <3>2 DEF JobEnds, FromSource
  <2>10. CASE UNCHANGED vars
    BY <2>10 DEF vars, TypeOK, FromSource
  <2> QED
    BY <2>1, <2>2, <2>3, <2>4, <2>5, <2>6, <2>7, <2>8, <2>9, <2>10 DEF Next
<1> QED
  BY <1>1, <1>2, PTL DEF Spec

-----------------------------------------------------------------------------
(* A day of staging has each transaction once.  The invariant is inductive *)
(* as it stands: a partition that a job replaces holds rows of one result  *)
(* of the deduplication, and a partition it does not replace is unchanged. *)

LEMMA OverwriteKeepsUnique ==
  ASSUME NEW table, NEW rows, NEW w \in Dedups(rows),
         \A r, s \in table : (r.day = s.day /\ r.id = s.id) => r = s
  PROVE  \A r, s \in DynamicOverwrite(table, Accepted(w)) :
           (r.day = s.day /\ r.id = s.id) => r = s
BY DedupsFacts DEF DynamicOverwrite, Accepted

THEOREM StagedOncePerDayHolds == Spec => []StagedOncePerDay
<1>1. Init => StagedOncePerDay
  BY DEF Init, StagedOncePerDay
<1>2. StagedOncePerDay /\ [Next]_vars => StagedOncePerDay'
  <2> SUFFICES ASSUME StagedOncePerDay, [Next]_vars
               PROVE  StagedOncePerDay'
    OBVIOUS
  <2>1. ASSUME NEW j \in Jobs, WriteStaging(j)
        PROVE  StagedOncePerDay'
    <3>1. PICK w \in Dedups(input[j]) :
            staging' = DynamicOverwrite(staging, Accepted(w))
      BY <2>1 DEF WriteStaging
    <3> QED
      BY <3>1, OverwriteKeepsUnique DEF StagedOncePerDay
  <2>2. CASE UNCHANGED staging
    BY <2>2 DEF StagedOncePerDay
  <2>3. (\E j \in Jobs : WriteStaging(j)) \/ UNCHANGED staging
    BY DEF Next, vars, SourceLoad, Scan, Commit, IngestEnds, List, Count,
           WriteQuarantine, JobEnds
  <2> QED
    BY <2>1, <2>2, <2>3
<1> QED
  BY <1>1, <1>2, PTL DEF Spec

-----------------------------------------------------------------------------
(* A job that has not met the backfill is alone in its partitions.         *)

Active(j) == pc[j] # "idle"

Exclusion ==
  \A j, k \in Jobs :
    (j # k /\ Active(j) /\ Active(k) /\ j \notin crossed) => (j # Full /\ k # Full)

LEMMA ExclusionStep ==
  ASSUME TypeOK, Exclusion, [Next]_vars
  PROVE  Exclusion'
<1> USE DEF TypeOK, Exclusion, Active
<1>1. ASSUME NEW j \in Jobs, List(j)
      PROVE  Exclusion'
  <2>1. \A k \in Jobs : k # j => pc'[k] = pc[k]
    BY <1>1 DEF List
  <2>2. crossed \subseteq crossed' /\ Met(j) \subseteq crossed'
    BY <1>1 DEF List
  <2>3. Met(j) # {} => j \in crossed'
    BY <1>1 DEF List
  <2>4. \A k \in Jobs : (k # j /\ pc[k] # "idle" /\ (j = Full \/ k = Full)) =>
          (k \in crossed' /\ j \in crossed')
    BY <2>2, <2>3 DEF Met
  <2> QED
    BY <2>1, <2>2, <2>4
<1>2. ASSUME NEW j \in Jobs, WriteStaging(j) \/ Count(j) \/ WriteQuarantine(j)
      PROVE  Exclusion'
  <2>1. \A k \in Jobs : k # j => pc'[k] = pc[k]
    BY <1>2 DEF WriteStaging, Count, WriteQuarantine
  <2>2. pc[j] # "idle" /\ UNCHANGED crossed
    BY <1>2 DEF WriteStaging, Count, WriteQuarantine
  <2> QED
    BY <2>1, <2>2
<1>3. ASSUME NEW j \in Jobs, JobEnds(j)
      PROVE  Exclusion'
  BY <1>3 DEF JobEnds
<1>4. CASE UNCHANGED <<pc, crossed>>
  BY <1>4
<1> QED
  BY <1>1, <1>2, <1>3, <1>4 DEF Next, vars, SourceLoad, Scan, Commit, IngestEnds

(* What a job writes leaves the rows of another job that is active, unless *)
(* one of them is the backfill.                                            *)
LEMMA WriteElsewhere ==
  ASSUME FromSource, Exclusion,
         NEW j \in Jobs, Active(j), NEW k \in Jobs, Active(k), k # j,
         k \notin crossed,
         NEW w \in Dedups(input[j]), NEW table, NEW rows \in SUBSET w,
         NEW r, InScope(k, r)
  PROVE  r \in table <=> r \in DynamicOverwrite(table, rows)
<1>1. j # Full /\ k # Full
  BY DEF Exclusion
<1>2. \A s \in rows : s.day = j
  BY <1>1, DedupsFacts DEF FromSource, ScopeOf, InScope
<1>3. r.day = k
  BY <1>1 DEF InScope
<1> QED
  BY <1>2, <1>3 DEF DynamicOverwrite

-----------------------------------------------------------------------------
(* A finished job has put a newest version of every decided transaction    *)
(* into the table its validity calls for.  Every evaluation of the         *)
(* deduplication keeps one of the newest versions, and they agree, so what *)
(* the staging write, the count and the quarantine write computed          *)
(* separately agrees; the tables keep it because other jobs write other    *)
(* partitions.                                                             *)

Holds(r, rows, table) == \E s \in Newest(rows) : s.id = r.id /\ s \in table

LEMMA KeptIsNewest ==
  ASSUME NEW rows, NEW w \in Dedups(rows)
  PROVE  w \subseteq Newest(rows)
BY DedupsFacts DEF Newest

LEMMA DecidedIsKept ==
  ASSUME NEW rows, NEW w \in Dedups(rows), NEW r, Decided(r, rows)
  PROVE  \E s \in w : /\ s \in Newest(rows) /\ s.id = r.id
                      /\ Valid(s) <=> Valid(r)
<1>1. r \in rows
  BY DEF Decided, Newest
<1>2. PICK s \in w : s.id = r.id
  BY <1>1, DedupsFacts
<1>3. s \in Newest(rows)
  BY KeptIsNewest
<1> QED
  BY <1>2, <1>3 DEF Decided

(* The points of a job after which its staging write is done.              *)
Written(j) == pc[j] \in {"quarantine", "done"} \/ (pc[j] = "count" /\ j # Full)

NewestInv ==
  \A j \in Jobs : (Active(j) /\ j \notin crossed) =>
    \A r \in input[j] : Decided(r, input[j]) =>
      /\ (Written(j) /\ Valid(r)) => Holds(r, input[j], staging)
      /\ (pc[j] = "done" /\ ~Valid(r)) => Holds(r, input[j], quarantine)
      /\ (j = Full /\ pc[j] = "write" /\ ~bad) => Valid(r)

(* What the two table writes of a job do to the newest rows of another.    *)
LEMMA WriteKeepsHeld ==
  ASSUME FromSource, Exclusion,
         NEW j \in Jobs, Active(j), NEW k \in Jobs, Active(k), k # j,
         k \notin crossed,
         NEW w \in Dedups(input[j]), NEW table, NEW rows \in SUBSET w,
         NEW r, Holds(r, input[k], table)
  PROVE  Holds(r, input[k], DynamicOverwrite(table, rows))
<1>1. PICK s \in Newest(input[k]) : s.id = r.id /\ s \in table
  BY DEF Holds
<1>2. InScope(k, s)
  BY DEF Newest, FromSource, ScopeOf
<1>3. s \in DynamicOverwrite(table, rows)
  BY <1>1, <1>2, WriteElsewhere
<1> QED
  BY <1>1, <1>3 DEF Holds

LEMMA NewestInvStep ==
  ASSUME TypeOK, FromSource, Exclusion, NewestInv, [Next]_vars
  PROVE  NewestInv'
<1> SUFFICES ASSUME NEW k \in Jobs, Active(k)', k \notin crossed',
                    NEW r \in input'[k], Decided(r, input'[k])
             PROVE  /\ (Written(k)' /\ Valid(r)) => Holds(r, input'[k], staging')
                    /\ (pc'[k] = "done" /\ ~Valid(r)) =>
                         Holds(r, input'[k], quarantine')
                    /\ (k = Full /\ pc'[k] = "write" /\ ~bad') => Valid(r)
  BY DEF NewestInv, Active, Written, Decided, Newest, Valid, Holds
<1> DEFINE Goal == /\ (Written(k)' /\ Valid(r)) => Holds(r, input'[k], staging')
                   /\ (pc'[k] = "done" /\ ~Valid(r)) =>
                        Holds(r, input'[k], quarantine')
                   /\ (k = Full /\ pc'[k] = "write" /\ ~bad') => Valid(r)
<1>0. ASSUME UNCHANGED <<staging, quarantine>>, k = Full => UNCHANGED bad,
             pc'[k] = pc[k], input'[k] = input[k], k \notin crossed
      PROVE  Goal
  BY <1>0 DEF NewestInv, Active, Written
<1>1. CASE UNCHANGED <<staging, quarantine, bad, pc, input, crossed>>
  BY <1>0, <1>1
<1>2. ASSUME NEW j \in Jobs, List(j)
      PROVE  Goal
  <2>1. CASE k = j
    <3>1. pc'[k] = (IF k = Full THEN "count" ELSE "write")
      BY <1>2, <2>1 DEF List, TypeOK
    <3> QED
      BY <3>1 DEF Written
  <2>2. CASE k # j
    BY <1>0, <1>2, <2>2 DEF List, TypeOK
  <2> QED
    BY <2>1, <2>2
<1>3. ASSUME NEW j \in Jobs, WriteStaging(j)
      PROVE  Goal
  <2>1. PICK w \in Dedups(input[j]) :
          staging' = DynamicOverwrite(staging, Accepted(w))
    BY <1>3 DEF WriteStaging
  <2>2. UNCHANGED <<quarantine, input, bad, crossed>>
    BY <1>3 DEF WriteStaging
  <2>3. Active(j)
    BY <1>3 DEF WriteStaging, Active
  <2>4. CASE k = j
    <3>1. PICK s \in w : /\ s \in Newest(input[k]) /\ s.id = r.id
                         /\ Valid(s) <=> Valid(r)
      BY <2>2, <2>4, DecidedIsKept
    <3>2. Valid(r) => Holds(r, input'[k], staging')
      BY <2>1, <2>2, <3>1 DEF Accepted, DynamicOverwrite, Holds
    <3>3. pc'[k] = (IF k = Full THEN AfterCount(bad) ELSE "count")
      BY <1>3, <2>4 DEF WriteStaging, TypeOK
    <3>4. (k = Full /\ ~bad) => Valid(r)
      BY <1>3, <2>2, <2>3, <2>4 DEF WriteStaging, NewestInv
    <3>5. pc'[k] = "done" => (k = Full /\ ~bad)
      BY <3>3 DEF AfterCount
    <3>6. pc'[k] # "write"
      BY <3>3 DEF AfterCount
    <3> QED
      BY <3>2, <3>4, <3>5, <3>6
  <2>5. CASE k # j
    <3>1. pc'[k] = pc[k]
      BY <1>3, <2>5 DEF WriteStaging, TypeOK
    <3>2. Active(k) /\ k \notin crossed /\ Accepted(w) \in SUBSET w
      BY <2>2, <3>1 DEF Active, Accepted
    <3>3. Holds(r, input[k], staging) => Holds(r, input[k], staging')
      BY <2>1, <2>3, <2>5, <3>2, WriteKeepsHeld
    <3> QED
      BY <2>2, <3>1, <3>2, <3>3 DEF NewestInv, Written
  <2> QED
    BY <2>4, <2>5
<1>4. ASSUME NEW j \in Jobs, Count(j)
      PROVE  Goal
  <2>1. PICK w \in Dedups(input[j]) :
          /\ bad' = IF j = Full THEN Rejected(w) # {} ELSE bad
          /\ pc' = [pc EXCEPT ![j] = IF j = Full THEN "write"
                                       ELSE AfterCount(Rejected(w) # {})]
    BY <1>4 DEF Count
  <2>2. UNCHANGED <<staging, quarantine, input, crossed>> /\ pc[j] = "count"
    BY <1>4 DEF Count
  <2>3. Active(j)
    BY <2>2 DEF Active
  <2>4. CASE k = j
    <3>1. PICK s \in w : Valid(s) <=> Valid(r)
      BY <2>2, <2>4, DecidedIsKept
    <3>2. Rejected(w) = {} => Valid(r)
      BY <3>1 DEF Rejected
    <3>3. pc'[k] = IF k = Full THEN "write" ELSE AfterCount(Rejected(w) # {})
      BY <2>1, <2>4 DEF TypeOK
    <3>4. CASE k = Full
      <4>1. bad' = (Rejected(w) # {})
        BY <2>1, <2>4, <3>4
      <4>2. pc'[k] = "write"
        BY <3>3, <3>4
      <4>3. ~Written(k)'
        BY <4>2 DEF Written
      <4> QED
        BY <3>2, <4>1, <4>2, <4>3
    <3>5. CASE k # Full
      <4>1. Valid(r) => Holds(r, input'[k], staging')
        BY <2>2, <2>3, <2>4, <3>5 DEF NewestInv, Written
      <4>2. pc'[k] = "done" => Valid(r)
        BY <3>2, <3>3, <3>5 DEF AfterCount
      <4> QED
        BY <2>2, <3>5, <4>1, <4>2
    <3> QED
      BY <3>4, <3>5
  <2>5. CASE k # j
    <3>1. pc'[k] = pc[k]
      BY <2>1, <2>5 DEF TypeOK
    <3>2. k = Full => UNCHANGED bad
      BY <2>1, <2>5
    <3> QED
      BY <1>0, <2>2, <3>1, <3>2
  <2> QED
    BY <2>4, <2>5
<1>5. ASSUME NEW j \in Jobs, WriteQuarantine(j)
      PROVE  Goal
  <2>1. PICK w \in Dedups(input[j]) :
          quarantine' = DynamicOverwrite(quarantine, Rejected(w))
    BY <1>5 DEF WriteQuarantine
  <2>2. UNCHANGED <<staging, input, bad, crossed>> /\ pc[j] = "quarantine"
    BY <1>5 DEF WriteQuarantine
  <2>3. Active(j)
    BY <2>2 DEF Active
  <2>4. CASE k = j
    <3>1. PICK s \in w : /\ s \in Newest(input[k]) /\ s.id = r.id
                         /\ Valid(s) <=> Valid(r)
      BY <2>2, <2>4, DecidedIsKept
    <3>2. ~Valid(r) => Holds(r, input'[k], quarantine')
      BY <2>1, <2>2, <3>1 DEF Rejected, DynamicOverwrite, Holds
    <3>3. Valid(r) => Holds(r, input'[k], staging')
      BY <2>2, <2>3, <2>4 DEF NewestInv, Written
    <3>4. pc'[k] = "done"
      BY <1>5, <2>4 DEF WriteQuarantine, TypeOK
    <3> QED
      BY <2>2, <3>2, <3>3, <3>4
  <2>5. CASE k # j
    <3>1. pc'[k] = pc[k]
      BY <1>5, <2>5 DEF WriteQuarantine, TypeOK
    <3>2. Active(k) /\ k \notin crossed /\ Rejected(w) \in SUBSET w
      BY <2>2, <3>1 DEF Active, Rejected
    <3>3. Holds(r, input[k], quarantine) => Holds(r, input[k], quarantine')
      BY <2>1, <2>3, <2>5, <3>2, WriteKeepsHeld
    <3> QED
      BY <2>2, <3>1, <3>2, <3>3 DEF NewestInv, Written
  <2> QED
    BY <2>4, <2>5
<1>6. ASSUME NEW j \in Jobs, JobEnds(j)
      PROVE  Goal
  <2>1. k # j
    BY <1>6 DEF JobEnds, Active, TypeOK
  <2>2. k = Full => UNCHANGED bad
    BY <1>6, <2>1 DEF JobEnds, TypeOK
  <2> QED
    BY <1>0, <1>6, <2>1, <2>2 DEF JobEnds, TypeOK
<1> QED
  BY <1>1, <1>2, <1>3, <1>4, <1>5, <1>6
  DEF Next, vars, SourceLoad, Scan, Commit, IngestEnds

(* Whatever else a load ties, a transaction whose newest versions agree    *)
(* ends in the table their validity calls for (clean_transactions.py:      *)
(* 196-211 and 255-272), for any loads, reruns, ends and ingestions with   *)
(* older scans, unless the job has met the backfill.                       *)
THEOREM NewestDecidesHolds == Spec => []NewestDecides
<1>1. Init => Exclusion /\ NewestInv
  BY DEF Init, Exclusion, NewestInv, Active
<1>2. TypeOK /\ FromSource /\ Exclusion /\ NewestInv /\ [Next]_vars =>
        Exclusion' /\ NewestInv'
  BY ExclusionStep, NewestInvStep
<1>3. NewestInv => NewestDecides
  BY DEF NewestInv, NewestDecides, Active, Written, Holds
<1> QED
  BY <1>1, <1>2, <1>3, TypeCorrect, PTL DEF Spec

-----------------------------------------------------------------------------
(* A transaction whose newest versions are rejected leaves the days the    *)
(* job replaces: a day with something accepted for certain holds, from the *)
(* write on, newest versions that are accepted and nothing else.           *)

HoldsNewestOnly(j) ==
  \A a \in input[j], s \in staging :
    (/\ Decided(a, input[j]) /\ Valid(a)
     /\ \A b \in Newest(input[j]) : b.id = a.id => b.day = a.day
     /\ InScope(j, s) /\ s.day = a.day) => (s \in Newest(input[j]) /\ Valid(s))

WithdrawnInv ==
  \A j \in Jobs : (Active(j) /\ j \notin crossed /\ Written(j)) =>
    HoldsNewestOnly(j)

(* A job that has just written.                                            *)
LEMMA WriteHoldsNewestOnly ==
  ASSUME NEW j \in Jobs, WriteStaging(j)
  PROVE  HoldsNewestOnly(j)'
<1>1. PICK w \in Dedups(input[j]) :
        staging' = DynamicOverwrite(staging, Accepted(w))
  BY DEF WriteStaging
<1>2. input' = input
  BY DEF WriteStaging
<1>3. ASSUME NEW a \in input[j], NEW s \in staging',
             Decided(a, input[j]), Valid(a), s.day = a.day,
             \A b \in Newest(input[j]) : b.id = a.id => b.day = a.day
      PROVE  s \in Newest(input[j]) /\ Valid(s)
  <2>1. PICK b \in w : b \in Newest(input[j]) /\ b.id = a.id /\ Valid(b)
    BY <1>3, DecidedIsKept
  <2>2. b \in Accepted(w) /\ b.day = s.day
    BY <1>3, <2>1 DEF Accepted
  <2>3. s \in Accepted(w)
    BY <1>1, <2>2 DEF DynamicOverwrite
  <2> QED
    BY <2>3, KeptIsNewest DEF Accepted
<1> QED
  BY <1>2, <1>3 DEF HoldsNewestOnly, Decided, Newest, Valid, InScope

(* A write of another job stays outside the scope of an active one.        *)
LEMMA WriteLeavesOthers ==
  ASSUME FromSource, Exclusion, NEW j \in Jobs, WriteStaging(j),
         NEW k \in Jobs, Active(k), k # j, k \notin crossed, HoldsNewestOnly(k)
  PROVE  HoldsNewestOnly(k)'
<1>1. PICK w \in Dedups(input[j]) :
        staging' = DynamicOverwrite(staging, Accepted(w))
  BY DEF WriteStaging
<1>2. input' = input
  BY DEF WriteStaging
<1>3. Active(j) /\ Accepted(w) \in SUBSET w
  BY DEF WriteStaging, Active, Accepted
<1>4. \A s : InScope(k, s) => (s \in staging <=> s \in staging')
  BY <1>1, <1>3, WriteElsewhere
<1> QED
  BY <1>2, <1>4 DEF HoldsNewestOnly, Decided, Newest, Valid, InScope

LEMMA WithdrawnInvStep ==
  ASSUME TypeOK, FromSource, Exclusion, WithdrawnInv, [Next]_vars
  PROVE  WithdrawnInv'
<1> SUFFICES ASSUME NEW k \in Jobs, Active(k)', k \notin crossed', Written(k)'
             PROVE  HoldsNewestOnly(k)'
  BY DEF WithdrawnInv, Active, Written
<1>0. ASSUME staging' = staging, input'[k] = input[k], Active(k), Written(k),
             k \notin crossed
      PROVE  HoldsNewestOnly(k)'
  <2>1. HoldsNewestOnly(k)
    BY <1>0 DEF WithdrawnInv
  <2> QED
    BY <1>0, <2>1 DEF HoldsNewestOnly, Decided, Newest, Valid, InScope
<1>1. ASSUME NEW j \in Jobs, List(j)
      PROVE  HoldsNewestOnly(k)'
  <2>1. k # j
    BY <1>1 DEF List, Written, TypeOK
  <2> QED
    BY <1>0, <1>1, <2>1 DEF List, Active, Written, TypeOK
<1>2. ASSUME NEW j \in Jobs, WriteStaging(j)
      PROVE  HoldsNewestOnly(k)'
  <2>1. UNCHANGED <<input, crossed>>
    BY <1>2 DEF WriteStaging
  <2>2. CASE k = j
    BY <1>2, <2>2, WriteHoldsNewestOnly
  <2>3. CASE k # j
    <3>1. pc'[k] = pc[k]
      BY <1>2, <2>3 DEF WriteStaging, TypeOK
    <3>2. Active(k) /\ Written(k)
      BY <3>1 DEF Active, Written
    <3>3. HoldsNewestOnly(k)
      BY <2>1, <3>2 DEF WithdrawnInv
    <3> QED
      BY <1>2, <2>1, <2>3, <3>2, <3>3, WriteLeavesOthers
  <2> QED
    BY <2>2, <2>3
<1>3. ASSUME NEW j \in Jobs, Count(j)
      PROVE  HoldsNewestOnly(k)'
  <2>1. UNCHANGED <<staging, input, crossed>> /\ pc[j] = "count"
    BY <1>3 DEF Count
  <2>2. CASE k = j
    <3>1. k # Full
      BY <1>3, <2>2 DEF Count, Written, TypeOK
    <3> QED
      BY <1>0, <2>1, <2>2, <3>1 DEF Active, Written
  <2>3. CASE k # j
    BY <1>0, <1>3, <2>1, <2>3 DEF Count, Active, Written, TypeOK
  <2> QED
    BY <2>2, <2>3
<1>4. ASSUME NEW j \in Jobs, WriteQuarantine(j)
      PROVE  HoldsNewestOnly(k)'
  <2>1. UNCHANGED <<staging, input, crossed>> /\ pc[j] = "quarantine"
    BY <1>4 DEF WriteQuarantine
  <2>2. CASE k = j
    BY <1>0, <2>1, <2>2 DEF Active, Written
  <2>3. CASE k # j
    BY <1>0, <1>4, <2>1, <2>3 DEF WriteQuarantine, Active, Written, TypeOK
  <2> QED
    BY <2>2, <2>3
<1>5. ASSUME NEW j \in Jobs, JobEnds(j)
      PROVE  HoldsNewestOnly(k)'
  <2>1. k # j
    BY <1>5 DEF JobEnds, Active, TypeOK
  <2> QED
    BY <1>0, <1>5, <2>1 DEF JobEnds, Active, Written, TypeOK
<1>6. CASE UNCHANGED <<staging, pc, input, crossed>>
  BY <1>0, <1>6 DEF Active, Written
<1> QED
  BY <1>1, <1>2, <1>3, <1>4, <1>5, <1>6
  DEF Next, vars, SourceLoad, Scan, Commit, IngestEnds

(* A job that accepts something of a day leaves there no transaction whose *)
(* newest versions it rejected, for any loads, reruns, ends and ingestions *)
(* with older scans, unless it has met the backfill.                       *)
THEOREM WithdrawnLeavesHolds == Spec => []WithdrawnLeaves
<1>1. Init => Exclusion /\ WithdrawnInv
  BY DEF Init, Exclusion, WithdrawnInv, Active
<1>2. TypeOK /\ FromSource /\ Exclusion /\ WithdrawnInv /\ [Next]_vars =>
        Exclusion' /\ WithdrawnInv'
  BY ExclusionStep, WithdrawnInvStep
<1>3. WithdrawnInv => WithdrawnLeaves
  <2> SUFFICES ASSUME WithdrawnInv, NEW j \in Jobs,
                      pc[j] = "done", j \notin crossed,
                      NEW r \in input[j], NEW a \in input[j],
                      Decided(r, input[j]), ~Valid(r),
                      Decided(a, input[j]), Valid(a),
                      \A b \in Newest(input[j]) : b.id = a.id => b.day = a.day,
                      NEW s \in ScopeOf(j, staging), s.id = r.id, s.day = a.day
               PROVE  FALSE
    BY DEF WithdrawnLeaves
  <2>1. s \in staging /\ InScope(j, s)
    BY DEF ScopeOf
  <2>2. s \in Newest(input[j]) /\ Valid(s)
    BY <2>1 DEF WithdrawnInv, HoldsNewestOnly, Active, Written
  <2> QED
    BY <2>2 DEF Decided
<1> QED
  BY <1>1, <1>2, <1>3, TypeCorrect, PTL DEF Spec

-----------------------------------------------------------------------------
(* A backfill that started on an empty staging layer and met no daily job  *)
(* leaves each transaction once in all of staging: until it writes, the    *)
(* layer stays empty, and what it writes is part of one result of the      *)
(* deduplication.                                                          *)

BackfillInv ==
  (Active(Full) /\ fresh /\ Full \notin crossed) =>
    /\ pc[Full] \in {"count", "write"} => staging = {}
    /\ \A r, s \in staging : r.id = s.id => r = s

LEMMA BackfillInvStep ==
  ASSUME TypeOK, Exclusion, BackfillInv, [Next]_vars
  PROVE  BackfillInv'
<1>0. Full \in Jobs
  BY DEF Jobs
<1>1. ASSUME NEW j \in Jobs, List(j)
      PROVE  BackfillInv'
  <2>1. CASE j = Full
    BY <1>1, <2>1 DEF List, BackfillInv
  <2>2. CASE j # Full
    <3>1. /\ pc'[Full] = pc[Full] /\ UNCHANGED <<staging, fresh>>
          /\ crossed \subseteq crossed'
      BY <1>0, <1>1, <2>2 DEF List, TypeOK
    <3> QED
      BY <3>1 DEF BackfillInv, Active
  <2> QED
    BY <2>1, <2>2
<1>2. ASSUME NEW j \in Jobs, WriteStaging(j)
      PROVE  BackfillInv'
  <2> SUFFICES ASSUME Active(Full)', fresh', Full \notin crossed'
               PROVE  /\ pc'[Full] \notin {"count", "write"}
                      /\ \A r, s \in staging' : r.id = s.id => r = s
    BY DEF BackfillInv
  <2>1. PICK w \in Dedups(input[j]) :
          staging' = DynamicOverwrite(staging, Accepted(w))
    BY <1>2 DEF WriteStaging
  <2>2. Active(Full) /\ fresh /\ Full \notin crossed
    BY <1>0, <1>2 DEF WriteStaging, Active, TypeOK
  <2>3. j = Full
    BY <1>0, <1>2, <2>2 DEF Exclusion, Active, WriteStaging
  <2>4. staging = {}
    BY <1>2, <2>2, <2>3 DEF BackfillInv, WriteStaging
  <2>5. staging' \subseteq w
    BY <2>1, <2>4 DEF DynamicOverwrite, Accepted
  <2>6. \A r, s \in staging' : r.id = s.id => r = s
    BY <2>5, DedupsFacts
  <2>7. pc'[Full] = AfterCount(bad)
    BY <1>0, <1>2, <2>3 DEF WriteStaging, TypeOK
  <2> QED
    BY <2>6, <2>7 DEF AfterCount
<1>3. ASSUME NEW j \in Jobs, Count(j)
      PROVE  BackfillInv'
  <2>1. UNCHANGED <<staging, fresh, crossed>> /\ pc[j] = "count"
    BY <1>3 DEF Count
  <2>2. pc'[Full] = pc[Full] \/ (j = Full /\ pc[Full] = "count")
    BY <1>0, <1>3, <2>1 DEF Count, TypeOK
  <2> QED
    BY <2>1, <2>2 DEF BackfillInv, Active
<1>4. ASSUME NEW j \in Jobs, WriteQuarantine(j)
      PROVE  BackfillInv'
  <2>1. UNCHANGED <<staging, fresh, crossed>> /\ pc[j] = "quarantine"
    BY <1>4 DEF WriteQuarantine
  <2>2. pc'[Full] = pc[Full] \/ (pc[Full] = "quarantine" /\ pc'[Full] = "done")
    BY <1>0, <1>4, <2>1 DEF WriteQuarantine, TypeOK
  <2> QED
    BY <2>1, <2>2 DEF BackfillInv, Active
<1>5. ASSUME NEW j \in Jobs, JobEnds(j)
      PROVE  BackfillInv'
  <2>1. CASE j = Full
    BY <1>0, <1>5, <2>1 DEF JobEnds, BackfillInv, Active, TypeOK
  <2>2. CASE j # Full
    <3>1. pc'[Full] = pc[Full] /\ UNCHANGED staging /\ fresh' = fresh
      BY <1>0, <1>5, <2>2 DEF JobEnds, TypeOK
    <3>2. Full \notin crossed' => Full \notin crossed
      BY <1>5, <2>2 DEF JobEnds
    <3> QED
      BY <3>1, <3>2 DEF BackfillInv, Active
  <2> QED
    BY <2>1, <2>2
<1>6. CASE UNCHANGED <<staging, fresh, pc, crossed>>
  BY <1>6 DEF BackfillInv, Active
<1> QED
  BY <1>1, <1>2, <1>3, <1>4, <1>5, <1>6
  DEF Next, vars, SourceLoad, Scan, Commit, IngestEnds

(* The first backfill deduplicates over all days at once                   *)
(* (clean_transactions_full.py:53-60), also a transaction that was loaded  *)
(* under two days, unless a daily job runs beside it.                      *)
THEOREM BackfillUniqueHolds == Spec => []BackfillUnique
<1>1. Init => Exclusion /\ BackfillInv
  BY DEF Init, Exclusion, BackfillInv, Active, Jobs
<1>2. TypeOK /\ FromSource /\ Exclusion /\ BackfillInv /\ [Next]_vars =>
        Exclusion' /\ BackfillInv'
  BY ExclusionStep, BackfillInvStep
<1>3. BackfillInv => BackfillUnique
  BY DEF BackfillInv, BackfillUnique, Active
<1> QED
  BY <1>1, <1>2, <1>3, TypeCorrect, PTL DEF Spec

-----------------------------------------------------------------------------
(* The jobs implement the abstract staging layer.  Everything that may     *)
(* still be written into raw, listed by a job or staged holds a secured    *)
(* version or a newer one of its transaction and day; a job that takes the *)
(* transaction out of the day keeps another row of it, at least as new,    *)
(* that is rejected or of another day.                                     *)

LEMMA SecuredByWrite ==
  ASSUME TypeOK, FromSource, NEW j \in Jobs, WriteStaging(j),
         NEW r \in Secured, r \notin Secured'
  PROVE  Promise!Withdrawn(r) /\ \A q \in Secured' : ~Promise!SameKey(r, q)
<1>1. PICK w \in Dedups(input[j]) :
        staging' = DynamicOverwrite(staging, Accepted(w))
  BY DEF WriteStaging
<1>2. UNCHANGED <<source, raw, scans, input>> /\ pc[j] = "write"
  BY DEF WriteStaging
<1>3. \A k \in Jobs : pc'[k] # "idle" => pc[k] # "idle"
  BY DEF WriteStaging, TypeOK
<1>4. ~AtLeast(r, staging')
  BY <1>2, <1>3 DEF Secured, AtLeast, InScope
<1>5. PICK s \in staging : s.id = r.id /\ s.day = r.day /\ r.stamp <= s.stamp
  BY DEF Secured, AtLeast
<1>6. PICK a \in Accepted(w) : a.day = r.day
  BY <1>1, <1>4, <1>5 DEF DynamicOverwrite, AtLeast
<1>7. InScope(j, r)
  BY <1>6, DedupsFacts DEF Accepted, FromSource, ScopeOf, InScope
<1>8. PICK v \in input[j] : v.id = r.id /\ v.day = r.day /\ r.stamp <= v.stamp
  BY <1>2, <1>7 DEF Secured, AtLeast
<1>9. PICK t \in w : t.id = r.id
  BY <1>8, DedupsFacts
<1>10. t \in source /\ r.stamp <= t.stamp
  <2>1. t \in source /\ v \in source /\ r \in source
    BY <1>8, DedupsFacts DEF FromSource, ScopeOf, Secured
  <2>2. v.stamp <= t.stamp
    BY <1>8, <1>9, DedupsFacts
  <2>3. r.stamp \in Nat /\ v.stamp \in Nat /\ t.stamp \in Nat
    BY <2>1, ConstantsAssumption DEF TypeOK, Row, Stamps
  <2> QED
    BY <1>8, <2>1, <2>2, <2>3
<1>11. ~Valid(t) \/ t.day # r.day
  BY <1>1, <1>4, <1>9, <1>10 DEF AtLeast, Accepted, DynamicOverwrite
<1>12. Promise!Withdrawn(r)
  BY <1>9, <1>10, <1>11 DEF Promise!Withdrawn, Promise!Admissible, Valid
<1>13. ASSUME NEW q \in Secured', Promise!SameKey(r, q)
       PROVE  FALSE
  <2>1. PICK u \in staging' : u.id = r.id /\ u.day = r.day
    BY <1>13 DEF Secured, AtLeast, Promise!SameKey
  <2>2. u \in Accepted(w)
    BY <1>1, <1>6, <2>1 DEF DynamicOverwrite
  <2>3. u = t
    BY <1>9, <2>1, <2>2, DedupsFacts DEF Accepted
  <2> QED
    BY <1>11, <2>1, <2>2, <2>3 DEF Accepted
<1> QED
  BY <1>12, <1>13

(* No other step of the jobs and the ingestions gives up a version.        *)
LEMMA SecuredStays ==
  ASSUME TypeOK, FromSource, [Next]_vars, UNCHANGED <<source, staging>>
  PROVE  Secured \subseteq Secured'
<1> SUFFICES ASSUME NEW r \in Secured
             PROVE  r \in Secured'
  OBVIOUS
<1>1. /\ r \in source /\ AtLeast(r, staging) /\ AtLeast(r, raw)
      /\ \A n \in scans : r.stamp <= n
      /\ \A j \in Jobs :
           (pc[j] # "idle" /\ InScope(j, r)) => AtLeast(r, input[j])
  BY DEF Secured
<1>2. SUFFICES /\ AtLeast(r, raw')
               /\ \A n \in scans' : r.stamp <= n
               /\ \A j \in Jobs :
                    (pc'[j] # "idle" /\ InScope(j, r)) => AtLeast(r, input'[j])
  BY <1>1 DEF Secured, AtLeast, InScope
<1>3. CASE Scan
  BY <1>1, <1>3 DEF Scan, FromSource
<1>4. ASSUME NEW n \in scans, NEW p \in Partitions, Commit(n, p)
      PROVE  /\ AtLeast(r, raw')
             /\ \A m \in scans' : r.stamp <= m
             /\ \A j \in Jobs :
                  (pc'[j] # "idle" /\ InScope(j, r)) => AtLeast(r, input'[j])
  <2>1. CASE r.day = p
    <3>1. r \in Scanned(n, p)
      BY <1>1, <2>1 DEF Scanned
    <3>2. r.stamp \in Nat
      BY <1>1, ConstantsAssumption DEF TypeOK, Row, Stamps
    <3> QED
      BY <1>1, <1>4, <3>1, <3>2 DEF Commit, AtLeast
  <2>2. CASE r.day # p
    BY <1>1, <1>4, <2>2 DEF Commit, AtLeast
  <2> QED
    BY <2>1, <2>2
<1>5. ASSUME NEW n \in scans, IngestEnds(n)
      PROVE  /\ AtLeast(r, raw')
             /\ \A m \in scans' : r.stamp <= m
             /\ \A j \in Jobs :
                  (pc'[j] # "idle" /\ InScope(j, r)) => AtLeast(r, input'[j])
  BY <1>1, <1>5 DEF IngestEnds
<1>6. ASSUME NEW k \in Jobs, List(k)
      PROVE  /\ AtLeast(r, raw')
             /\ \A m \in scans' : r.stamp <= m
             /\ \A j \in Jobs :
                  (pc'[j] # "idle" /\ InScope(j, r)) => AtLeast(r, input'[j])
  <2>1. UNCHANGED <<raw, scans>>
    BY <1>6 DEF List
  <2>2. InScope(k, r) => AtLeast(r, ScopeOf(k, raw))
    BY <1>1 DEF AtLeast, ScopeOf, InScope
  <2>3. \A j \in Jobs : IF j = k THEN input'[j] = ScopeOf(k, raw)
                       ELSE input'[j] = input[j] /\ pc'[j] = pc[j]
    BY <1>6 DEF List, TypeOK
  <2> QED
    BY <1>1, <2>1, <2>2, <2>3
<1>7. ASSUME NEW k \in Jobs, WriteStaging(k) \/ Count(k) \/ WriteQuarantine(k)
      PROVE  /\ AtLeast(r, raw')
             /\ \A m \in scans' : r.stamp <= m
             /\ \A j \in Jobs :
                  (pc'[j] # "idle" /\ InScope(j, r)) => AtLeast(r, input'[j])
  <2>1. UNCHANGED <<raw, scans, input>>
    BY <1>7 DEF WriteStaging, Count, WriteQuarantine
  <2>2. \A j \in Jobs : pc'[j] # "idle" => pc[j] # "idle"
    BY <1>7 DEF WriteStaging, Count, WriteQuarantine, TypeOK
  <2> QED
    BY <1>1, <2>1, <2>2
<1>8. ASSUME NEW k \in Jobs, JobEnds(k)
      PROVE  /\ AtLeast(r, raw')
             /\ \A m \in scans' : r.stamp <= m
             /\ \A j \in Jobs :
                  (pc'[j] # "idle" /\ InScope(j, r)) => AtLeast(r, input'[j])
  <2>1. UNCHANGED <<raw, scans>>
    BY <1>8 DEF JobEnds
  <2>2. \A j \in Jobs : pc'[j] # "idle" =>
          (pc[j] # "idle" /\ input'[j] = input[j])
    BY <1>8 DEF JobEnds, TypeOK
  <2> QED
    BY <1>1, <2>1, <2>2
<1>9. CASE UNCHANGED <<raw, scans, pc, input>>
  BY <1>1, <1>9
<1> QED
  BY <1>3, <1>4, <1>5, <1>6, <1>7, <1>8, <1>9 DEF Next, vars, SourceLoad

(* A load brings rows newer than everything the tables hold.               *)
LEMMA SecuredByLoad ==
  ASSUME TypeOK, FromSource, NEW load \in Loads, SourceLoad(load)
  PROVE  Secured' = Secured
<1>1. UNCHANGED <<staging, raw, scans, pc, input>>
  BY DEF SourceLoad
<1>2. source \subseteq source' /\ \A r \in source' \ source : r.stamp = loads + 1
  BY DEF SourceLoad
<1>3. \A r \in source' : AtLeast(r, staging) => r \in source
  <2> SUFFICES ASSUME NEW r \in source', NEW s \in staging, r \notin source,
                      r.stamp <= s.stamp
               PROVE  FALSE
    BY DEF AtLeast
  <2>1. s.stamp <= loads /\ s.stamp \in Nat /\ loads \in Nat
    BY ConstantsAssumption DEF FromSource, TypeOK, Row, Stamps
  <2> QED
    BY <1>2, <2>1
<1> QED
  BY <1>1, <1>2, <1>3 DEF Secured, AtLeast, InScope

(* However ingestions with older and newer scans, daily jobs, their        *)
(* reruns, failures and the backfill interleave, a secured version is kept *)
(* in its day or gives way to a newer one (clean_transactions.py:255-266,  *)
(* dynamic overwrite): the jobs implement StagingLayer, for any sets of    *)
(* days, ids and loads and any number of active jobs.                      *)
THEOREM StagingLayerImplemented == Spec => ImplementsStagingLayer
<1>1. Init => Promise!Init
  BY DEF Init, Promise!Init, Secured
<1>2. ASSUME TypeOK, FromSource, [Next]_vars
      PROVE  [Promise!Next]_<<source, Secured>>
  <2>1. ASSUME NEW j \in Jobs, WriteStaging(j)
        PROVE  Promise!Publish
    <3>1. UNCHANGED source
      BY <2>1 DEF WriteStaging
    <3>2. Secured' \subseteq source
      BY <3>1 DEF Secured
    <3> QED
      BY <1>2, <2>1, <3>1, <3>2, SecuredByWrite DEF Promise!Publish
  <2>2. ASSUME NEW load \in Loads, SourceLoad(load)
        PROVE  Promise!Load
    <3>1. source \subseteq source'
      BY <2>2 DEF SourceLoad
    <3> QED
      BY <1>2, <2>2, <3>1, SecuredByLoad DEF Promise!Load
  <2>3. CASE UNCHANGED <<source, staging>>
    <3>1. Secured' \subseteq source
      BY <2>3 DEF Secured
    <3> QED
      BY <1>2, <2>3, <3>1, SecuredStays DEF Promise!Next, Promise!Publish
  <2>4. \/ \E j \in Jobs : WriteStaging(j)
        \/ \E load \in Loads : SourceLoad(load)
        \/ UNCHANGED <<source, staging>>
    BY <1>2 DEF Next, vars, Scan, Commit, IngestEnds, List, Count,
                WriteQuarantine, JobEnds
  <2> QED
    BY <2>1, <2>2, <2>3, <2>4 DEF Promise!Next
<1> QED
  BY <1>1, <1>2, TypeCorrect, PTL DEF Spec, ImplementsStagingLayer, Promise!Spec

===============================================================================
