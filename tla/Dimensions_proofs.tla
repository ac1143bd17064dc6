---------------------------- MODULE Dimensions_proofs ----------------------------
(***************************************************************************)
(* The properties of Dimensions hold for any users, cards, partitions,     *)
(* contents, loads and faults, and any number of ingestions and builds.    *)
(***************************************************************************)
EXTENDS Dimensions, TLAPS

-----------------------------------------------------------------------------
(* Type correctness                                                        *)

SourceRow(t) == [id : Ids(t), part : Parts, value : Values,
                 loaded : 1..MaxLoads]

AnySource == [id : Users \union Cards \union {NullId}, part : Parts,
              value : Values, loaded : 1..MaxLoads]

AnyRow == Row("users") \union Row("cards")

(* TypeOK, with what the lake's tables are and when a build has a number.  *)
Typed ==
  /\ TypeOK
  /\ raw \in [Tables -> SUBSET AnyRow]
  /\ staging \in [Tables -> SUBSET AnyRow]
  /\ \A t \in Tables : source[t] \subseteq SourceRow(t)
  /\ usersPc # "idle" => builds \in 1..MaxBuilds

LEMMA RowsOfTables ==
  ASSUME NEW t \in Tables
  PROVE  SourceRow(t) \subseteq AnySource /\ Row(t) \subseteq AnyRow
<1>1. Ids(t) \subseteq Users \union Cards \union {NullId}
  BY DEF Ids
<1>2. SourceRow(t) \subseteq AnySource
  BY <1>1 DEF SourceRow, AnySource
<1>3. t = "users" \/ t = "cards"
  BY DEF Tables
<1> QED
  BY <1>2, <1>3 DEF AnyRow

LEMMA InitTyped == Init => Typed
BY ConstantsAssumption DEF Init, Typed, TypeOK, Tables

LEMMA OverwriteTyped ==
  ASSUME NEW T, NEW table \in SUBSET T, NEW rows \in SUBSET T
  PROVE  DynamicOverwrite(table, rows) \in SUBSET T
BY DEF DynamicOverwrite

LEMMA NewestLoadedOf ==
  ASSUME NEW rows, NEW w \in NewestLoaded(rows)
  PROVE  /\ w \subseteq rows
         /\ \A r \in rows : \E s \in w : s.id = r.id
         /\ \A r, s \in w : r.id = s.id => r = s
         /\ \A s \in w, r \in rows : r.id = s.id => r.loaded <= s.loaded
BY DEF NewestLoaded, OnePerId

LEMMA NewestIngestedOf ==
  ASSUME NEW rows, NEW w \in NewestIngested(rows)
  PROVE  /\ w \subseteq rows
         /\ \A r, s \in w : r.id = s.id => r = s
         /\ \A s \in w, r \in rows : r.id = s.id => r.ingested <= s.ingested
BY DEF NewestIngested, OnePerId

LEMMA SourceLoadTyped ==
  ASSUME Typed, NEW t \in Tables, SourceLoad(t)
  PROVE  Typed'
<1>1. PICK load \in Loads[t] :
        source' = [source EXCEPT ![t] = @ \union
         {[id |-> r.id, part |-> r.part, value |-> r.value,
           loaded |-> loads + 1] : r \in load}]
  BY DEF SourceLoad
<1>2. load \subseteq Draft(t)
  BY ConstantsAssumption
<1>3. loads + 1 \in 1..MaxLoads /\ loads' = loads + 1
  BY ConstantsAssumption DEF SourceLoad, Typed, TypeOK
<1>4. {[id |-> r.id, part |-> r.part, value |-> r.value,
           loaded |-> loads + 1] : r \in load} \subseteq SourceRow(t)
  BY <1>2, <1>3 DEF Draft, SourceRow
<1>5. \A u \in Tables : source'[u] \subseteq SourceRow(u)
  BY <1>1, <1>4 DEF Typed, TypeOK
<1>6. source' \in [Tables -> SUBSET AnySource]
  BY <1>1, <1>4, RowsOfTables DEF Typed, TypeOK, AnySource
<1>7. loads' \in 0..MaxLoads
  BY <1>3
<1> QED
  BY <1>5, <1>6, <1>7
     DEF SourceLoad, Typed, TypeOK, AnySource, ingestion, cards, users

LEMMA StampedTyped ==
  ASSUME NEW t \in Tables, NEW rows \in SUBSET SourceRow(t),
         NEW b \in 1..MaxBatches
  PROVE  Stamped(rows, b) \in SUBSET Row(t)
BY DEF Stamped, SourceRow, Row

LEMMA StartIngestTyped ==
  ASSUME Typed, NEW t \in Tables, StartIngest(t)
  PROVE  Typed'
<1>1. batches + 1 \in 1..MaxBatches /\ batches' = batches + 1
  BY ConstantsAssumption DEF StartIngest, Typed, TypeOK
<1>2. [table |-> t, batch |-> batches + 1, seen |-> 0] \in
        [table : Tables, batch : 1..MaxBatches, seen : 0..MaxLoads]
  BY <1>1, ConstantsAssumption
<1>3. ingesters' \subseteq
        [table : Tables, batch : 1..MaxBatches, seen : 0..MaxLoads]
  BY <1>2 DEF StartIngest, Typed, TypeOK
<1>4. overlapped' \subseteq 1..MaxBatches
  BY <1>1 DEF StartIngest, Running, Typed, TypeOK
<1>5. batches' \in 0..MaxBatches
  BY <1>1
<1> QED
  BY <1>3, <1>4, <1>5 DEF StartIngest, Typed, TypeOK, cards, users

LEMMA ScanTyped ==
  ASSUME Typed, NEW i \in ingesters, Scan(i)
  PROVE  Typed'
<1>1. ingesters' \subseteq
        [table : Tables, batch : 1..MaxBatches, seen : 0..MaxLoads]
  BY DEF Scan, Typed, TypeOK
<1> QED
  BY <1>1 DEF Scan, Typed, TypeOK, cards, users

LEMMA CommitTyped ==
  ASSUME Typed, NEW i \in ingesters, Commit(i)
  PROVE  Typed'
<1>1. i.table \in Tables /\ i.batch \in 1..MaxBatches
  BY DEF Typed, TypeOK
<1>2. Scanned(i) \in SUBSET SourceRow(i.table)
  BY <1>1 DEF Scanned, Typed
<1>3. Stamped(Scanned(i), i.batch) \in SUBSET Row(i.table)
  BY <1>1, <1>2, StampedTyped
<1>4. DynamicOverwrite(raw[i.table], Stamped(Scanned(i), i.batch))
        \in SUBSET Row(i.table)
  BY <1>1, <1>3, OverwriteTyped DEF Typed, TypeOK
<1>5. \A u \in Tables : raw'[u] \subseteq Row(u)
  BY <1>1, <1>4 DEF Commit, Typed, TypeOK
<1>6. raw' \in [Tables -> SUBSET AnyRow]
  BY <1>1, <1>4, RowsOfTables DEF Commit, Typed
<1>7. ingesters' \subseteq ingesters
  BY DEF Commit
<1> QED
  BY <1>5, <1>6, <1>7 DEF Commit, Typed, TypeOK, cards, users

LEMMA IngestFailsTyped ==
  ASSUME Typed, NEW i \in ingesters, IngestFails(i)
  PROVE  Typed'
BY DEF IngestFails, Typed, TypeOK, cards, users

LEMMA CleanTyped ==
  ASSUME Typed, NEW t \in Tables, Clean(t)
  PROVE  Typed'
<1>1. PICK w \in NewestLoaded(raw[t]) :
        staging' = [staging EXCEPT ![t] = DynamicOverwrite(@, w)]
  BY DEF Clean
<1>2. DynamicOverwrite(staging[t], w) \in SUBSET Row(t)
  BY NewestLoadedOf, OverwriteTyped DEF Typed, TypeOK
<1>3. \A u \in Tables : staging'[u] \subseteq Row(u)
  BY <1>1, <1>2 DEF Typed, TypeOK
<1>4. staging' \in [Tables -> SUBSET AnyRow]
  BY <1>1, <1>2, RowsOfTables DEF Typed
<1> QED
  BY <1>3, <1>4 DEF Clean, Typed, TypeOK, ingestion, cards, users

LEMMA CardsTyped ==
  ASSUME Typed, DeleteDimCards \/ WriteDimCards \/ DimCardsFails
  PROVE  Typed'
<1>1. CASE DeleteDimCards
  BY <1>1 DEF DeleteDimCards, Typed, TypeOK, lake, ingestion, users
<1>2. CASE WriteDimCards
  <2>1. dimCards' \subseteq Row("cards")
    BY <1>2, NewestIngestedOf DEF WriteDimCards, Typed, TypeOK, Tables
  <2> QED
    BY <1>2, <2>1 DEF WriteDimCards, Typed, TypeOK, lake, ingestion, users
<1>3. CASE DimCardsFails
  BY <1>3, ConstantsAssumption
     DEF DimCardsFails, Typed, TypeOK, lake, ingestion, users
<1> QED
  BY <1>1, <1>2, <1>3

LEMMA VersionsTyped ==
  ASSUME Typed, usersPc = "write", NEW s \in SUBSET staging["users"]
  PROVE  /\ UnchangedRows(s) \subseteq Version
         /\ RowsToClose(s) \subseteq Version
         /\ NewRows(s) \subseteq Version
<1>1. builds \in 1..MaxBuilds /\ MaxBuilds \in Nat /\ old \subseteq Version
  BY ConstantsAssumption DEF Typed, TypeOK
<1>2. builds \in 1..FarFuture /\ FarFuture \in 1..FarFuture
  BY <1>1 DEF FarFuture
<1>3. \A r \in s : r.id \in Users \union {NullId} /\ r.value \in Values
  BY DEF Typed, TypeOK, Tables, Row, Ids
<1>4. UnchangedRows(s) \subseteq Version
  BY <1>1 DEF UnchangedRows
<1>5. RowsToClose(s) \subseteq Version
  BY <1>1, <1>2 DEF RowsToClose, Version
<1>6. ASSUME NEW r \in s
      PROVE  [user |-> r.id, value |-> r.value, from |-> builds,
              to |-> FarFuture, current |-> TRUE] \in Version
  BY <1>1, <1>2, <1>3 DEF Version
<1>7. NewRows(s) \subseteq Version
  BY <1>6 DEF NewRows
<1> QED
  BY <1>4, <1>5, <1>7

LEMMA UsersTyped ==
  ASSUME Typed,
         \/ StartDimUsers \/ DeleteDimUsers \/ WriteDimUsers
         \/ MergeCannotRead \/ DimUsersFails
  PROVE  Typed'
<1> USE ConstantsAssumption
<1>1. CASE StartDimUsers
  BY <1>1 DEF StartDimUsers, Typed, TypeOK, lake, ingestion, cards
<1>2. CASE DeleteDimUsers
  BY <1>2 DEF DeleteDimUsers, Typed, TypeOK, lake, ingestion, cards
<1>3. CASE WriteDimUsers
  <2>1. dimUsers' \subseteq Version
    BY <1>3, VersionsTyped DEF WriteDimUsers, OnePerId
  <2> QED
    BY <1>3, <2>1 DEF WriteDimUsers, Typed, TypeOK, lake, ingestion, cards
<1>4. CASE MergeCannotRead
  BY <1>4 DEF MergeCannotRead, Typed, TypeOK, lake, ingestion, cards
<1>5. CASE DimUsersFails
  BY <1>5 DEF DimUsersFails, Typed, TypeOK, lake, ingestion, cards
<1> QED
  BY <1>1, <1>2, <1>3, <1>4, <1>5

LEMMA UnchangedTyped == Typed /\ UNCHANGED vars => Typed'
BY DEF vars, lake, ingestion, cards, users, Typed, TypeOK

LEMMA StepTyped == Typed /\ [Next]_vars => Typed'
<1> SUFFICES ASSUME Typed, [Next]_vars PROVE Typed'
  OBVIOUS
<1>1. "users" \in Tables /\ "cards" \in Tables
  BY DEF Tables
<1> QED
  BY <1>1, SourceLoadTyped, StartIngestTyped, ScanTyped, CommitTyped,
     IngestFailsTyped, CleanTyped, CardsTyped, UsersTyped, UnchangedTyped
     DEF Next, CleanUsers, CleanCards

LEMMA TypedHolds == Spec => []Typed
BY InitTyped, StepTyped, PTL DEF Spec

-----------------------------------------------------------------------------
(* The lake                                                                *)

Draftless(r) == [id |-> r.id, part |-> r.part, value |-> r.value,
                 loaded |-> r.loaded]

(* Raw and staging hold rows of the source, stamped by a batch that has    *)
(* been built; ingesters under way are among those and have seen loads     *)
(* that were committed.                                                    *)
RawOfSource ==
  /\ \A t \in Tables : \A r \in source[t] : r.loaded <= loads
  /\ \A t \in Tables : \A r \in raw[t] \union staging[t] :
       Draftless(r) \in source[t] /\ r.ingested <= batches
  /\ \A i \in ingesters : i.batch <= batches /\ i.seen <= loads

(* A stamped row is a row of the source with the batch.                    *)
LEMMA StampedOf ==
  ASSUME NEW t \in Tables, NEW rows \in SUBSET SourceRow(t), NEW b,
         NEW s \in Stamped(rows, b)
  PROVE  Draftless(s) \in rows /\ s.ingested = b
<1>1. PICK r \in rows :
        s = [id |-> r.id, part |-> r.part, value |-> r.value,
             loaded |-> r.loaded, ingested |-> b]
  BY DEF Stamped
<1>2. Draftless(s) = [id |-> r.id, part |-> r.part, value |-> r.value,
                      loaded |-> r.loaded]
  BY <1>1 DEF Draftless
<1>3. r = [id |-> r.id, part |-> r.part, value |-> r.value,
           loaded |-> r.loaded]
  BY DEF SourceRow
<1> QED
  BY <1>1, <1>2, <1>3

LEMMA LoadOfSource ==
  ASSUME Typed, RawOfSource, NEW t \in Tables, SourceLoad(t)
  PROVE  RawOfSource'
<1>1. PICK load \in Loads[t] :
        source' = [source EXCEPT ![t] = @ \union
         {[id |-> r.id, part |-> r.part, value |-> r.value,
           loaded |-> loads + 1] : r \in load}]
  BY DEF SourceLoad
<1>2. loads' = loads + 1 /\ loads \in Nat
  BY ConstantsAssumption DEF SourceLoad, Typed, TypeOK
<1>3. \A u \in Tables : source[u] \subseteq source'[u]
  BY <1>1 DEF Typed, TypeOK
<1>4. ASSUME NEW u \in Tables, NEW r \in source'[u]
      PROVE  r.loaded <= loads'
  <2>1. CASE r \in source[u]
    <3>1. r.loaded \in Nat /\ r.loaded <= loads
      BY <2>1 DEF RawOfSource, Typed, SourceRow
    <3> QED
      BY <1>2, <3>1
  <2>2. CASE r \notin source[u]
    <3>1. r.loaded = loads + 1
      BY <1>1, <1>4, <2>2 DEF Typed, TypeOK
    <3> QED
      BY <1>2, <3>1
  <2> QED
    BY <2>1, <2>2
<1>5. UNCHANGED <<raw, staging, batches, ingesters>>
  BY DEF SourceLoad, ingestion
<1>6. \A i \in ingesters : i.batch <= batches /\ i.seen \in Nat /\ i.seen <= loads
  BY DEF RawOfSource, Typed, TypeOK
<1> QED
  BY <1>2, <1>3, <1>4, <1>5, <1>6 DEF RawOfSource

(* What a commit leaves in raw: old rows and rows stamped by its batch.    *)
LEMMA CommittedRows ==
  ASSUME Typed, NEW i \in ingesters, Commit(i),
         NEW u \in Tables, NEW r \in raw'[u]
  PROVE  \/ r \in raw[u]
         \/ /\ u = i.table /\ r.ingested = i.batch
            /\ Draftless(r) \in source[u] /\ r.loaded <= i.seen
<1>1. i.table \in Tables
  BY DEF Typed, TypeOK
<1>2. Scanned(i) \in SUBSET SourceRow(i.table)
  BY <1>1 DEF Scanned, Typed
<1>3. \A s \in Stamped(Scanned(i), i.batch) :
        Draftless(s) \in Scanned(i) /\ s.ingested = i.batch
  BY <1>1, <1>2, StampedOf
<1>4. \A s \in Stamped(Scanned(i), i.batch) : s.loaded <= i.seen
  BY <1>3 DEF Scanned, Draftless
<1>5. CASE u = i.table
  <2>1. raw'[u] = DynamicOverwrite(raw[u], Stamped(Scanned(i), i.batch))
    BY <1>1, <1>5 DEF Commit, Typed
  <2> QED
    BY <1>3, <1>4, <1>5, <2>1 DEF DynamicOverwrite, Scanned
<1>6. CASE u # i.table
  BY <1>1, <1>6 DEF Commit, Typed
<1> QED
  BY <1>5, <1>6

(* A commit leaves the versions of the source that its scan has seen.      *)
LEMMA CommitKeeps ==
  ASSUME Typed, RawOfSource, NEW i \in ingesters, Commit(i),
         NEW d \in source[i.table], d.loaded <= i.seen
  PROVE  \E z \in raw'[i.table] : z.id = d.id /\ z.loaded = d.loaded
<1>1. i.table \in Tables
  BY DEF Typed, TypeOK
<1> DEFINE s == [id |-> d.id, part |-> d.part, value |-> d.value,
                 loaded |-> d.loaded, ingested |-> i.batch]
<1>2. s \in Stamped(Scanned(i), i.batch)
  BY DEF Stamped, Scanned
<1>3. s \in raw'[i.table]
  BY <1>1, <1>2 DEF Commit, DynamicOverwrite, Typed
<1>4. s.id = d.id /\ s.loaded = d.loaded
  OBVIOUS
<1> QED
  BY <1>3, <1>4

LEMMA CleanedRows ==
  ASSUME Typed, NEW t \in Tables, Clean(t)
  PROVE  \A u \in Tables : staging'[u] \subseteq staging[u] \union raw[u]
<1>1. PICK w \in NewestLoaded(raw[t]) :
        staging' = [staging EXCEPT ![t] = DynamicOverwrite(@, w)]
  BY DEF Clean
<1>2. w \subseteq raw[t]
  BY NewestLoadedOf
<1> QED
  BY <1>1, <1>2 DEF DynamicOverwrite, Typed

LEMMA RawOfSourceNext ==
  ASSUME Typed, RawOfSource, [Next]_vars
  PROVE  RawOfSource'
<1>1. CASE \E t \in Tables : SourceLoad(t)
  BY <1>1, LoadOfSource
<1>2. ASSUME NEW t \in Tables, StartIngest(t)
      PROVE  RawOfSource'
  <2>1. UNCHANGED <<source, loads, raw, staging>> /\ batches' = batches + 1
    BY <1>2 DEF StartIngest
  <2>2. batches \in Nat /\ loads \in Nat
    BY ConstantsAssumption DEF Typed, TypeOK
  <2>3. \A u \in Tables : \A r \in raw[u] \union staging[u] : r.ingested \in Nat
    BY DEF Typed, TypeOK, Row
  <2>4. \A i \in ingesters : i.batch \in Nat
    BY DEF Typed, TypeOK
  <2>5. \A i \in ingesters' : i \in ingesters \/
          (i.batch = batches + 1 /\ i.seen = 0)
    BY <1>2 DEF StartIngest
  <2>6. \A i \in ingesters' : i.batch <= batches' /\ i.seen <= loads'
    BY <2>1, <2>2, <2>4, <2>5 DEF RawOfSource
  <2> QED
    BY <2>1, <2>2, <2>3, <2>6 DEF RawOfSource
<1>3. ASSUME NEW i \in ingesters, Scan(i)
      PROVE  RawOfSource'
  <2>1. UNCHANGED <<source, loads, raw, staging, batches>> /\ loads \in Nat
    BY <1>3, ConstantsAssumption DEF Scan, Typed, TypeOK
  <2>2. [i EXCEPT !.seen = loads].batch = i.batch
        /\ [i EXCEPT !.seen = loads].seen = loads
    BY DEF Typed, TypeOK
  <2>3. \A k \in ingesters' : k \in ingesters \/
          (k.batch = i.batch /\ k.seen = loads)
    BY <1>3, <2>2 DEF Scan
  <2>4. \A k \in ingesters' : k.batch <= batches' /\ k.seen <= loads'
    BY <2>1, <2>3 DEF RawOfSource
  <2> QED
    BY <2>1, <2>4 DEF RawOfSource
<1>4. ASSUME NEW i \in ingesters, Commit(i)
      PROVE  RawOfSource'
  <2>1. UNCHANGED <<source, loads, staging, batches>> /\ ingesters' \subseteq ingesters
    BY <1>4 DEF Commit
  <2>2. \A u \in Tables : \A r \in raw'[u] :
          Draftless(r) \in source[u] /\ r.ingested <= batches
    BY <1>4, CommittedRows DEF RawOfSource
  <2> QED
    BY <2>1, <2>2 DEF RawOfSource
<1>5. ASSUME NEW i \in ingesters, IngestFails(i)
      PROVE  RawOfSource'
  BY <1>5 DEF IngestFails, RawOfSource
<1>6. ASSUME NEW t \in Tables, Clean(t)
      PROVE  RawOfSource'
  BY <1>6, CleanedRows DEF Clean, ingestion, RawOfSource
<1>7. CASE UNCHANGED lake
  BY <1>7 DEF lake, ingestion, RawOfSource
<1>8. "users" \in Tables /\ "cards" \in Tables
  BY DEF Tables
<1> QED
  BY <1>1, <1>2, <1>3, <1>4, <1>5, <1>6, <1>7, <1>8
     DEF Next, CleanUsers, CleanCards, vars, DeleteDimCards, WriteDimCards,
         DimCardsFails, StartDimUsers, DeleteDimUsers, WriteDimUsers,
         MergeCannotRead, DimUsersFails

(* The dimensions hold what the loads brought: dim_cards rows of the       *)
(* source, and dim_users versions with attributes the user was loaded with.*)
DimsOfSource ==
  /\ \A r \in dimCards : Draftless(r) \in source["cards"]
  /\ \A v \in dimUsers \union old : \E r \in source["users"] :
       r.id = v.user /\ r.value = v.value

LEMMA DimsOfSourceNext ==
  ASSUME Typed, RawOfSource, DimsOfSource, [Next]_vars
  PROVE  DimsOfSource'
<1>0. "users" \in Tables /\ "cards" \in Tables
  BY DEF Tables
<1>1. CASE \E t \in Tables : SourceLoad(t)
  <2>1. \A u \in Tables : source[u] \subseteq source'[u]
    BY <1>1 DEF SourceLoad, Typed, TypeOK
  <2> QED
    BY <1>0, <1>1, <2>1 DEF SourceLoad, cards, users, DimsOfSource
<1>2. CASE UNCHANGED <<source, cards, users>>
  BY <1>2 DEF cards, users, DimsOfSource
<1>3. CASE WriteDimCards
  <2>1. dimCards' \subseteq staging["cards"]
    BY <1>3, NewestIngestedOf DEF WriteDimCards
  <2> QED
    BY <1>0, <1>3, <2>1 DEF WriteDimCards, lake, users, RawOfSource, DimsOfSource
<1>4. CASE WriteDimUsers
  <2>1. PICK s1, s2, s3 \in OnePerId(staging["users"]) :
          dimUsers' = UnchangedRows(s1) \union RowsToClose(s2) \union NewRows(s3)
    BY <1>4 DEF WriteDimUsers
  <2>2. UNCHANGED <<source, dimCards>> /\ old' = {}
    BY <1>4 DEF WriteDimUsers, lake, cards
  <2>3. ASSUME NEW v \in RowsToClose(s2)
        PROVE  \E r \in source["users"] : r.id = v.user /\ r.value = v.value
    <3>1. PICK x \in old : v = [x EXCEPT !.to = builds, !.current = FALSE]
      BY <2>3 DEF RowsToClose
    <3>2. x \in Version
      BY DEF Typed, TypeOK
    <3>3. v.user = x.user /\ v.value = x.value
      BY <3>1, <3>2 DEF Version
    <3> QED
      BY <3>3 DEF DimsOfSource
  <2>4. ASSUME NEW v \in NewRows(s3)
        PROVE  \E r \in source["users"] : r.id = v.user /\ r.value = v.value
    <3>1. PICK r \in s3 : v = [user |-> r.id, value |-> r.value, from |-> builds,
                               to |-> FarFuture, current |-> TRUE]
      BY <2>4 DEF NewRows
    <3>2. Draftless(r) \in source["users"]
      BY <1>0 DEF OnePerId, RawOfSource
    <3>3. Draftless(r).id = v.user /\ Draftless(r).value = v.value
      BY <3>1 DEF Draftless
    <3> QED
      BY <3>2, <3>3
  <2>5. UnchangedRows(s1) \subseteq old
    BY DEF UnchangedRows
  <2> QED
    BY <2>1, <2>2, <2>3, <2>4, <2>5 DEF DimsOfSource
<1>5. CASE \/ DeleteDimCards \/ DimCardsFails \/ StartDimUsers
           \/ DeleteDimUsers \/ MergeCannotRead \/ DimUsersFails
  BY <1>5 DEF DeleteDimCards, DimCardsFails, StartDimUsers, DeleteDimUsers,
     MergeCannotRead, DimUsersFails, lake, users, cards, DimsOfSource
<1> QED
  BY <1>0, <1>1, <1>2, <1>3, <1>4, <1>5
     DEF Next, CleanUsers, CleanCards, Clean, StartIngest, Scan, Commit,
         IngestFails, vars, lake

(* Type correctness, and provenance: raw, staging and dim_cards hold rows  *)
(* as PostgreSQL committed them, and every version of dim_users has an id  *)
(* and attributes that some load brought together.                         *)
THEOREM TypeCorrect == Spec => [](TypeOK /\ RawOfSource /\ DimsOfSource)
<1>1. Init => Typed /\ RawOfSource /\ DimsOfSource
  <2>1. Init => Typed
    BY InitTyped
  <2> QED
    BY <2>1 DEF Init, RawOfSource, DimsOfSource, Tables
<1>2. Typed /\ RawOfSource /\ DimsOfSource /\ [Next]_vars
        => Typed' /\ RawOfSource' /\ DimsOfSource'
  BY StepTyped, RawOfSourceNext, DimsOfSourceNext
<1>3. Typed => TypeOK
  BY DEF Typed
<1> QED
  BY <1>1, <1>2, <1>3, PTL DEF Spec

-----------------------------------------------------------------------------
(* The newest version of a card                                            *)

CardRows == raw["cards"] \union staging["cards"]

(* Rows whose ingester had the table for itself.                           *)
AloneRows == {x \in CardRows : x.ingested \notin overlapped}

(* Ingesters under way together are known to overlap.                      *)
OverlapsKnown ==
  \A i, j \in Running("cards") :
    i # j => i.batch \in overlapped /\ j.batch \in overlapped

(* A row of an ingester that was alone is older than those under way.      *)
AloneIsOlder ==
  \A i \in Running("cards"), x \in AloneRows : x.ingested < i.batch

(* A scan has seen what was published before a row of such an ingester.    *)
ScanSawOlder ==
  \A i \in Running("cards"), x \in AloneRows, y \in CardRows :
    (i.seen > 0 /\ y.ingested <= x.ingested) => y.loaded <= i.seen

(* The scan of an ingester that is alone has seen all that is published.   *)
AloneSawAll ==
  \A i \in Running("cards"), y \in CardRows :
    (i.seen > 0 /\ i.batch \notin overlapped) => y.loaded <= i.seen

(* Raw has as new a version of what was published before a row of its own. *)
OlderInRaw ==
  \A x \in AloneRows, y \in CardRows :
    (x \in raw["cards"] /\ y.ingested <= x.ingested) =>
      \E z \in raw["cards"] : z.id = y.id /\ y.loaded <= z.loaded

(* Of two versions of a card, the one staged from an ingester that was     *)
(* alone and ingested later was loaded later.                              *)
LaterIngestedNewer ==
  \A x \in AloneRows, y \in CardRows :
    (x \in staging["cards"] /\ y.id = x.id /\ y.ingested <= x.ingested) =>
      y.loaded <= x.loaded

CardsInv ==
  /\ Typed /\ RawOfSource
  /\ OverlapsKnown /\ AloneIsOlder /\ ScanSawOlder /\ AloneSawAll
  /\ OlderInRaw /\ LaterIngestedNewer

LEMMA CardsInit == Init => CardsInv
<1>1. Init => Typed
  BY InitTyped
<1> QED
  BY <1>1 DEF Init, CardsInv, RawOfSource, OverlapsKnown, AloneIsOlder,
     ScanSawOlder, AloneSawAll, OlderInRaw, LaterIngestedNewer, AloneRows,
     CardRows, Running, Tables

LEMMA CardNumbers ==
  ASSUME Typed
  PROVE  /\ \A x \in CardRows : x.ingested \in Nat /\ x.loaded \in Nat
         /\ \A i \in ingesters : i.batch \in Nat /\ i.seen \in Nat
BY DEF Typed, TypeOK, CardRows, Tables, Row

(* Steps that publish and build no ingester of cards, and scan nothing.    *)
LEMMA CardsQuiet ==
  ASSUME CardsInv, raw'["cards"] = raw["cards"],
         staging'["cards"] \subseteq CardRows,
         overlapped \subseteq overlapped',
         Running("cards")' \subseteq Running("cards")
  PROVE  /\ OverlapsKnown' /\ AloneIsOlder' /\ ScanSawOlder' /\ AloneSawAll'
         /\ OlderInRaw'
         /\ staging'["cards"] \subseteq staging["cards"] => LaterIngestedNewer'
<1>1. CardRows' \subseteq CardRows
  BY DEF CardRows
<1>2. AloneRows' \subseteq AloneRows
  BY <1>1 DEF AloneRows
<1>3. OverlapsKnown'
  BY DEF CardsInv, OverlapsKnown
<1>4. AloneIsOlder'
  BY <1>2 DEF CardsInv, AloneIsOlder
<1>5. ScanSawOlder'
  BY <1>1, <1>2 DEF CardsInv, ScanSawOlder
<1>6. AloneSawAll'
  BY <1>1 DEF CardsInv, AloneSawAll
<1>7. OlderInRaw'
  BY <1>1, <1>2 DEF CardsInv, OlderInRaw
<1>8. staging'["cards"] \subseteq staging["cards"] => LaterIngestedNewer'
  BY <1>1, <1>2 DEF CardsInv, LaterIngestedNewer
<1> QED
  BY <1>3, <1>4, <1>5, <1>6, <1>7, <1>8

LEMMA CardsStart ==
  ASSUME CardsInv, NEW t \in Tables, StartIngest(t)
  PROVE  /\ OverlapsKnown' /\ AloneIsOlder' /\ ScanSawOlder' /\ AloneSawAll'
         /\ OlderInRaw' /\ LaterIngestedNewer'
<1> DEFINE new == [table |-> t, batch |-> batches + 1, seen |-> 0]
<1>1. UNCHANGED <<raw, staging>> /\ ingesters' = ingesters \union {new}
      /\ overlapped \subseteq overlapped'
  BY DEF StartIngest
<1>2. CardRows' = CardRows /\ AloneRows' \subseteq AloneRows
  BY <1>1 DEF CardRows, AloneRows
<1>3. CASE t # "cards"
  <2>1. new.table # "cards"
    BY <1>3
  <2>2. Running("cards")' \subseteq Running("cards")
    BY <1>1, <2>1 DEF Running
  <2> QED
    BY <1>1, <2>2, CardsQuiet DEF CardRows
<1>4. CASE t = "cards"
  <2>1. \A i \in Running("cards")' : i \in Running("cards") \/ i = new
    BY <1>1 DEF Running
  <2>2. new.batch = batches + 1 /\ new.seen = 0 /\ batches \in Nat
    BY ConstantsAssumption DEF CardsInv, Typed, TypeOK
  <2>3. \A x \in CardRows : x.ingested <= batches /\ x.ingested \in Nat
    BY CardNumbers DEF CardsInv, RawOfSource, CardRows, Tables
  <2>4. OverlapsKnown'
    <3>1. CASE Running("cards") = {}
      BY <2>1, <3>1 DEF OverlapsKnown
    <3>2. CASE Running("cards") # {}
      <4>1. overlapped' = overlapped
              \union {i.batch : i \in Running("cards")} \union {batches + 1}
        BY <1>4, <3>2 DEF StartIngest
      <4>2. \A i \in Running("cards")' : i.batch \in overlapped'
        BY <2>1, <2>2, <4>1
      <4> QED
        BY <4>2 DEF OverlapsKnown
    <3> QED
      BY <3>1, <3>2
  <2>5. AloneIsOlder'
    <3>1. \A x \in AloneRows' : x \in AloneRows /\ x \in CardRows
      BY <1>2 DEF AloneRows
    <3>2. \A x \in AloneRows' : x.ingested < new.batch
      BY <2>2, <2>3, <3>1
    <3> QED
      BY <2>1, <3>1, <3>2 DEF CardsInv, AloneIsOlder
  <2>6. ~(new.seen > 0)
    BY <2>2
  <2>7. ScanSawOlder'
    BY <1>2, <2>1, <2>6 DEF CardsInv, ScanSawOlder
  <2>8. AloneSawAll'
    BY <1>1, <1>2, <2>1, <2>6 DEF CardsInv, AloneSawAll
  <2>9. OlderInRaw' /\ LaterIngestedNewer'
    BY <1>1, <1>2 DEF CardsInv, OlderInRaw, LaterIngestedNewer
  <2> QED
    BY <2>4, <2>5, <2>7, <2>8, <2>9
<1> QED
  BY <1>3, <1>4

LEMMA CardsScan ==
  ASSUME CardsInv, NEW i \in ingesters, Scan(i)
  PROVE  /\ OverlapsKnown' /\ AloneIsOlder' /\ ScanSawOlder' /\ AloneSawAll'
         /\ OlderInRaw' /\ LaterIngestedNewer'
<1> DEFINE done == [i EXCEPT !.seen = loads]
<1>1. UNCHANGED <<raw, staging, overlapped>>
      /\ ingesters' = (ingesters \ {i}) \union {done}
  BY DEF Scan
<1>2. CardRows' = CardRows /\ AloneRows' = AloneRows
  BY <1>1 DEF CardRows, AloneRows
<1>3. done.table = i.table /\ done.batch = i.batch /\ done.seen = loads
  BY DEF CardsInv, Typed, TypeOK
<1>4. \A k \in Running("cards")' :
        \/ k \in Running("cards") /\ k # i
        \/ k = done /\ i \in Running("cards")
  BY <1>1, <1>3 DEF Running
<1>5. \A y \in CardRows : y.loaded <= loads
  <2>1. \A y \in CardRows : Draftless(y) \in source["cards"]
    BY DEF CardsInv, RawOfSource, CardRows, Tables
  <2>2. \A y \in CardRows : Draftless(y).loaded <= loads
    BY <2>1 DEF CardsInv, RawOfSource, Tables
  <2> QED
    BY <2>2 DEF Draftless
<1> HIDE DEF done
<1>6. OverlapsKnown'
  BY <1>1, <1>3, <1>4 DEF CardsInv, OverlapsKnown
<1>7. AloneIsOlder'
  BY <1>2, <1>3, <1>4 DEF CardsInv, AloneIsOlder
<1>8. ScanSawOlder'
  BY <1>2, <1>3, <1>4, <1>5 DEF CardsInv, ScanSawOlder
<1>9. AloneSawAll'
  BY <1>1, <1>2, <1>3, <1>4, <1>5 DEF CardsInv, AloneSawAll
<1>10. OlderInRaw' /\ LaterIngestedNewer'
  BY <1>1, <1>2 DEF CardsInv, OlderInRaw, LaterIngestedNewer
<1> QED
  BY <1>6, <1>7, <1>8, <1>9, <1>10

LEMMA CardsCommit ==
  ASSUME CardsInv, NEW i \in ingesters, Commit(i), i.table = "cards"
  PROVE  /\ OverlapsKnown' /\ AloneIsOlder' /\ ScanSawOlder' /\ AloneSawAll'
         /\ OlderInRaw' /\ LaterIngestedNewer'
<1>1. UNCHANGED <<source, staging, overlapped>> /\ ingesters' = ingesters \ {i}
      /\ i.seen > 0
  BY DEF Commit
<1>2. i \in Running("cards")
      /\ Running("cards")' = Running("cards") \ {i}
  BY <1>1 DEF Running
<1>3. \A y \in CardRows' :
        y \in CardRows \/ (y \in raw'["cards"] /\ y.ingested = i.batch)
  BY <1>1, CommittedRows DEF CardRows, CardsInv, Tables
<1>4. \A x \in AloneRows' :
        \/ x \in AloneRows
        \/ /\ x \in raw'["cards"] /\ x.ingested = i.batch
           /\ i.batch \notin overlapped
  BY <1>1, <1>3 DEF AloneRows
<1>5. i.batch \in Nat
      /\ \A x \in CardRows : x.ingested \in Nat /\ x.loaded \in Nat
  BY CardNumbers DEF CardsInv
<1>6. \A j \in Running("cards")' : j \in Running("cards") /\ j # i
        /\ i.batch \in overlapped /\ j.batch \in overlapped
  BY <1>2 DEF CardsInv, OverlapsKnown
<1>7. \A x \in AloneRows : x \in CardRows /\ x.ingested < i.batch
  BY <1>2 DEF CardsInv, AloneIsOlder, AloneRows
<1>8. \A x \in AloneRows, y \in CardRows' :
        y.ingested <= x.ingested => y \in CardRows
  BY <1>3, <1>5, <1>7
<1>9. OverlapsKnown'
  BY <1>1, <1>2 DEF CardsInv, OverlapsKnown
<1>10. AloneIsOlder'
  BY <1>4, <1>6 DEF CardsInv, AloneIsOlder
<1>11. ScanSawOlder'
  BY <1>4, <1>6, <1>8 DEF CardsInv, ScanSawOlder
<1>12. AloneSawAll'
  BY <1>1, <1>6 DEF AloneSawAll
<1>13. ASSUME NEW y \in CardRows, y.loaded <= i.seen
       PROVE  \E z \in raw'["cards"] : z.id = y.id /\ y.loaded <= z.loaded
  <2>1. Draftless(y) \in source["cards"]
    BY DEF CardsInv, RawOfSource, CardRows, Tables
  <2>2. Draftless(y).id = y.id /\ Draftless(y).loaded = y.loaded
    BY DEF Draftless
  <2>3. PICK z \in raw'["cards"] : z.id = y.id /\ z.loaded = y.loaded
    BY <1>13, <2>1, <2>2, CommitKeeps DEF CardsInv
  <2> QED
    BY <1>5, <2>3
<1>14. OlderInRaw'
  <2>1. ASSUME NEW x \in AloneRows', NEW y \in CardRows',
               y.ingested <= x.ingested
        PROVE  \E z \in raw'["cards"] : z.id = y.id /\ y.loaded <= z.loaded
    <3>1. CASE y \in raw'["cards"]
      <4>1. y.loaded \in Nat
        BY StepTyped, <3>1 DEF CardsInv, Next, Typed, TypeOK, Tables, Row
      <4> QED
        BY <3>1, <4>1
    <3>2. CASE y \notin raw'["cards"]
      <4>1. y \in CardRows
        BY <1>3, <3>2
      <4>2. y.loaded <= i.seen
        BY <1>1, <1>2, <1>4, <2>1, <4>1 DEF CardsInv, ScanSawOlder, AloneSawAll
      <4> QED
        BY <1>13, <4>1, <4>2
    <3> QED
      BY <3>1, <3>2
  <2> QED
    BY <2>1 DEF OlderInRaw
<1>15. LaterIngestedNewer'
  <2>1. ASSUME NEW x \in AloneRows', x \in staging["cards"]
        PROVE  x \in AloneRows
    BY <1>1, <2>1 DEF AloneRows, CardRows
  <2> QED
    BY <1>1, <1>8, <2>1 DEF CardsInv, LaterIngestedNewer
<1> QED
  BY <1>9, <1>10, <1>11, <1>12, <1>14, <1>15

LEMMA CardsClean ==
  ASSUME CardsInv, Clean("cards")
  PROVE  /\ OverlapsKnown' /\ AloneIsOlder' /\ ScanSawOlder' /\ AloneSawAll'
         /\ OlderInRaw' /\ LaterIngestedNewer'
<1>1. UNCHANGED <<raw, ingesters, overlapped>> /\ "cards" \in Tables
  BY DEF Clean, ingestion, Tables
<1>2. PICK w \in NewestLoaded(raw["cards"]) :
        staging' = [staging EXCEPT !["cards"] = DynamicOverwrite(@, w)]
  BY DEF Clean
<1>3. /\ w \subseteq raw["cards"]
      /\ \A s \in w, r \in raw["cards"] : r.id = s.id => r.loaded <= s.loaded
  BY NewestLoadedOf
<1>4. staging'["cards"] \subseteq staging["cards"] \union w
  BY <1>1, <1>2 DEF DynamicOverwrite, CardsInv, Typed
<1>5. CardRows' \subseteq CardRows
  BY <1>1, <1>3, <1>4 DEF CardRows
<1>6. AloneRows' \subseteq AloneRows
  BY <1>1, <1>5 DEF AloneRows
<1>7. ASSUME NEW x \in AloneRows, NEW y \in CardRows,
             x \in staging["cards"] \union w, y.id = x.id,
             y.ingested <= x.ingested
      PROVE  y.loaded <= x.loaded
  <2>1. CASE x \in staging["cards"]
    BY <1>7, <2>1 DEF CardsInv, LaterIngestedNewer
  <2>2. CASE x \in w
    <3>1. PICK z \in raw["cards"] : z.id = y.id /\ y.loaded <= z.loaded
      BY <1>3, <1>7, <2>2 DEF CardsInv, OlderInRaw
    <3>2. z.loaded <= x.loaded
      BY <1>3, <1>7, <2>2, <3>1
    <3>3. x.loaded \in Nat /\ y.loaded \in Nat /\ z.loaded \in Nat
      BY <1>3, <2>2, CardNumbers DEF CardsInv, CardRows
    <3> QED
      BY <3>1, <3>2, <3>3
  <2> QED
    BY <1>7, <2>1, <2>2
<1>8. LaterIngestedNewer'
  BY <1>4, <1>5, <1>6, <1>7 DEF LaterIngestedNewer
<1>9. Running("cards")' = Running("cards")
  BY <1>1 DEF Running
<1>10. staging'["cards"] \subseteq CardRows
  BY <1>3, <1>4 DEF CardRows
<1> QED
  BY <1>1, <1>8, <1>9, <1>10, CardsQuiet

LEMMA CardsNext ==
  ASSUME CardsInv, [Next]_vars
  PROVE  CardsInv'
<1>1. Typed' /\ RawOfSource'
  BY StepTyped, RawOfSourceNext DEF CardsInv
<1> DEFINE Rest == /\ OverlapsKnown' /\ AloneIsOlder' /\ ScanSawOlder'
                   /\ AloneSawAll' /\ OlderInRaw' /\ LaterIngestedNewer'
<1> SUFFICES Rest
  BY <1>1 DEF CardsInv
<1>2. CASE UNCHANGED <<raw, ingesters, overlapped, staging>>
  <2>1. Running("cards")' = Running("cards")
    BY <1>2 DEF Running
  <2> QED
    BY <1>2, <2>1, CardsQuiet DEF CardRows
<1>3. CASE \E t \in Tables : SourceLoad(t)
  BY <1>2, <1>3 DEF SourceLoad, ingestion
<1>4. CASE \E t \in Tables : StartIngest(t)
  BY <1>4, CardsStart
<1>5. CASE \E i \in ingesters : Scan(i)
  BY <1>5, CardsScan
<1>6. ASSUME NEW i \in ingesters, Commit(i)
      PROVE  Rest
  <2>1. CASE i.table = "cards"
    BY <1>6, <2>1, CardsCommit
  <2>2. CASE i.table # "cards"
    <3>1. raw'["cards"] = raw["cards"] /\ UNCHANGED <<staging, overlapped>>
      BY <1>6, <2>2 DEF Commit, CardsInv, Typed, Tables
    <3>2. Running("cards")' \subseteq Running("cards")
      BY <1>6 DEF Commit, Running
    <3> QED
      BY <3>1, <3>2, CardsQuiet DEF CardRows
  <2> QED
    BY <2>1, <2>2
<1>7. ASSUME NEW i \in ingesters, IngestFails(i)
      PROVE  Rest
  <2>1. UNCHANGED <<raw, staging, overlapped>>
    BY <1>7 DEF IngestFails
  <2>2. Running("cards")' \subseteq Running("cards")
    BY <1>7 DEF IngestFails, Running
  <2> QED
    BY <2>1, <2>2, CardsQuiet DEF CardRows
<1>8. CASE CleanCards
  BY <1>8, CardsClean DEF CleanCards
<1>9. CASE CleanUsers
  <2>1. UNCHANGED <<raw, ingesters, overlapped>>
        /\ staging'["cards"] = staging["cards"]
    BY <1>9 DEF CleanUsers, Clean, ingestion, CardsInv, Typed, Tables
  <2>2. Running("cards")' = Running("cards")
    BY <2>1 DEF Running
  <2> QED
    BY <2>1, <2>2, CardsQuiet DEF CardRows
<1>10. CASE \/ DeleteDimCards \/ WriteDimCards \/ DimCardsFails
            \/ StartDimUsers \/ DeleteDimUsers \/ WriteDimUsers
            \/ MergeCannotRead \/ DimUsersFails
  BY <1>2, <1>10 DEF lake, ingestion, DeleteDimCards, WriteDimCards,
     DimCardsFails, StartDimUsers, DeleteDimUsers, WriteDimUsers,
     MergeCannotRead, DimUsersFails
<1>11. CASE UNCHANGED vars
  BY <1>2, <1>11 DEF vars, lake, ingestion
<1> QED
  BY <1>3, <1>4, <1>5, <1>6, <1>7, <1>8, <1>9, <1>10, <1>11 DEF Next

(* A build of dim_cards serves of every card the version loaded last,      *)
(* although staging keeps stale rows in partitions that renewed cards      *)
(* have left, whenever the ingester of the served version ran alone: what  *)
(* was published before it had been scanned by it, so the version ingested *)
(* last was loaded last.                                                   *)
THEOREM DimCardsNewestHolds == Spec => DimCardsNewest
<1>1. CardsInv =>
        (WriteDimCards =>
           \A c \in dimCards', r \in staging["cards"] :
             (c.id = r.id /\ c.ingested \notin overlapped)
               => r.loaded <= c.loaded)
  <2> SUFFICES ASSUME CardsInv, WriteDimCards,
                      NEW c \in dimCards', NEW r \in staging["cards"],
                      c.id = r.id, c.ingested \notin overlapped
               PROVE  r.loaded <= c.loaded
    OBVIOUS
  <2>1. c \in staging["cards"] /\ r.ingested <= c.ingested
    BY NewestIngestedOf DEF WriteDimCards
  <2>2. c \in AloneRows /\ r \in CardRows
    BY <2>1 DEF AloneRows, CardRows
  <2> QED
    BY <2>1, <2>2 DEF CardsInv, LaterIngestedNewer
<1>2. Spec => []CardsInv
  BY CardsInit, CardsNext, PTL DEF Spec
<1> QED
  BY <1>1, <1>2, PTL DEF DimCardsNewest

-----------------------------------------------------------------------------
(* One current version of a user                                           *)

(* Rows of users lie in the cohorts in which loads brought them.           *)
FromLoads(r) == \E k \in Loads["users"] : \E q \in k :
                  q.id = r.id /\ q.part = r.part

UsersFromLoads ==
  \A r \in source["users"] \union staging["users"] : FromLoads(r)

(* A partition of staging holds all there is of its users.                 *)
OneStaged == \A r, s \in staging["users"] :
               (r.id = s.id /\ r.id # NullId) => r = s

StagedUsersInv == Typed /\ RawOfSource /\ UsersFromLoads /\ OneStaged

LEMMA SameCohort ==
  ASSUME NEW r, NEW s, FromLoads(r), FromLoads(s), r.id = s.id, r.id # NullId
  PROVE  r.part = s.part
BY ConstantsAssumption DEF FromLoads

LEMMA StagedUsersInit == Init => StagedUsersInv
<1>1. Init => Typed
  BY InitTyped
<1> QED
  BY <1>1 DEF Init, StagedUsersInv, RawOfSource, UsersFromLoads, OneStaged,
     Tables

LEMMA StagedUsersLoad ==
  ASSUME StagedUsersInv, NEW t \in Tables, SourceLoad(t)
  PROVE  UsersFromLoads' /\ OneStaged'
<1>1. UNCHANGED staging
  BY DEF SourceLoad
<1>2. PICK load \in Loads[t] :
        source' = [source EXCEPT ![t] = @ \union
         {[id |-> r.id, part |-> r.part, value |-> r.value,
           loaded |-> loads + 1] : r \in load}]
  BY DEF SourceLoad
<1>3. ASSUME NEW r \in source'["users"]
      PROVE  FromLoads(r)
  <2>1. CASE r \in source["users"]
    BY <2>1 DEF StagedUsersInv, UsersFromLoads
  <2>2. CASE r \notin source["users"]
    <3>1. t = "users"
      BY <1>2, <1>3, <2>2 DEF StagedUsersInv, Typed, TypeOK, Tables
    <3>2. PICK q \in load : r = [id |-> q.id, part |-> q.part,
                                 value |-> q.value, loaded |-> loads + 1]
      BY <1>2, <1>3, <2>2, <3>1 DEF StagedUsersInv, Typed, TypeOK, Tables
    <3> QED
      BY <1>2, <3>1, <3>2 DEF FromLoads
  <2> QED
    BY <2>1, <2>2
<1> QED
  BY <1>1, <1>3 DEF StagedUsersInv, UsersFromLoads, OneStaged, FromLoads

LEMMA StagedUsersClean ==
  ASSUME StagedUsersInv, NEW t \in Tables, Clean(t)
  PROVE  UsersFromLoads' /\ OneStaged'
<1>1. UNCHANGED source
  BY DEF Clean
<1>2. CASE t # "users"
  <2>1. staging'["users"] = staging["users"]
    BY <1>2 DEF Clean, StagedUsersInv, Typed, Tables
  <2> QED
    BY <1>1, <2>1 DEF StagedUsersInv, UsersFromLoads, OneStaged, FromLoads
<1>3. CASE t = "users"
  <2>1. PICK w \in NewestLoaded(raw["users"]) :
          staging' = [staging EXCEPT !["users"] = DynamicOverwrite(@, w)]
    BY <1>3 DEF Clean
  <2>2. w \subseteq raw["users"] /\ \A r, s \in w : r.id = s.id => r = s
    BY <2>1, NewestLoadedOf
  <2>3. staging'["users"] =
          {r \in staging["users"] : \A s \in w : s.part # r.part} \union w
    BY <1>3, <2>1 DEF DynamicOverwrite, StagedUsersInv, Typed
  <2>4. ASSUME NEW r \in raw["users"] PROVE FromLoads(r)
    <3>1. Draftless(r) \in source["users"]
      BY <2>4 DEF StagedUsersInv, RawOfSource, Tables
    <3>2. FromLoads(Draftless(r))
      BY <3>1 DEF StagedUsersInv, UsersFromLoads
    <3> QED
      BY <3>2 DEF FromLoads, Draftless
  <2>5. \A r \in staging["users"] : FromLoads(r)
    BY DEF StagedUsersInv, UsersFromLoads
  <2>6. UsersFromLoads'
    BY <1>1, <2>2, <2>3, <2>4, <2>5 DEF StagedUsersInv, UsersFromLoads, FromLoads
  <2>7. ASSUME NEW r \in staging'["users"], NEW s \in staging'["users"],
               r.id = s.id, r.id # NullId
        PROVE  r = s
    <3>1. r.part = s.part
      BY <2>2, <2>3, <2>4, <2>5, <2>7, SameCohort
    <3>2. CASE r \in w /\ s \in w
      BY <2>2, <2>7, <3>2
    <3>3. CASE r \notin w /\ s \notin w
      BY <2>3, <2>7, <3>3 DEF StagedUsersInv, OneStaged
    <3> QED
      BY <2>3, <2>7, <3>1, <3>2, <3>3
  <2> QED
    BY <2>6, <2>7 DEF OneStaged
<1> QED
  BY <1>2, <1>3

LEMMA StagedUsersNext ==
  ASSUME StagedUsersInv, [Next]_vars
  PROVE  StagedUsersInv'
<1>1. Typed' /\ RawOfSource'
  BY StepTyped, RawOfSourceNext DEF StagedUsersInv
<1>2. CASE \E t \in Tables : SourceLoad(t)
  BY <1>1, <1>2, StagedUsersLoad DEF StagedUsersInv
<1>3. CASE \E t \in Tables : Clean(t)
  BY <1>1, <1>3, StagedUsersClean DEF StagedUsersInv
<1>4. CASE UNCHANGED <<source, staging>>
  BY <1>1, <1>4 DEF StagedUsersInv, UsersFromLoads, OneStaged, FromLoads
<1>5. CASE \/ \E t \in Tables : StartIngest(t)
           \/ \E i \in ingesters : Scan(i) \/ Commit(i) \/ IngestFails(i)
  BY <1>4, <1>5 DEF StartIngest, Scan, Commit, IngestFails
<1>6. CASE \/ DeleteDimCards \/ WriteDimCards \/ DimCardsFails
           \/ StartDimUsers \/ DeleteDimUsers \/ WriteDimUsers
           \/ MergeCannotRead \/ DimUsersFails
  BY <1>4, <1>6 DEF lake, DeleteDimCards, WriteDimCards, DimCardsFails,
     StartDimUsers, DeleteDimUsers, WriteDimUsers, MergeCannotRead,
     DimUsersFails
<1>7. CASE UNCHANGED vars
  BY <1>4, <1>7 DEF vars, lake
<1>8. "users" \in Tables /\ "cards" \in Tables
  BY DEF Tables
<1> QED
  BY <1>2, <1>3, <1>5, <1>6, <1>7, <1>8
     DEF Next, CleanUsers, CleanCards

(* Staging has one row of every user with an id, so every evaluation of    *)
(* dropDuplicates keeps it and the branches of the union agree.            *)
LEMMA SnapshotsAgree ==
  ASSUME OneStaged, NEW s \in OnePerId(staging["users"])
  PROVE  /\ s \subseteq staging["users"]
         /\ \A r \in staging["users"] : r.id # NullId => r \in s
         /\ \A r, x \in s : r.id = x.id => r = x
         /\ ChangedUsers(s) = ChangedUsers(staging["users"])
<1>1. /\ s \subseteq staging["users"]
      /\ \A r \in staging["users"] : \E x \in s : x.id = r.id
      /\ \A r, x \in s : r.id = x.id => r = x
  BY DEF OnePerId
<1>2. \A r \in staging["users"] : r.id # NullId => r \in s
  BY <1>1 DEF OneStaged
<1>3. \A r \in staging["users"] : IsChanged(r) => r.id # NullId
  BY DEF IsChanged, Matches
<1> QED
  BY <1>1, <1>2, <1>3 DEF ChangedUsers

OneCurrentIn(table) ==
  \A v, w \in table :
    (v.user = w.user /\ v.user # NullId /\ v.current /\ w.current) => v = w

OneCurrentInv ==
  StagedUsersInv /\ OneCurrentIn(dimUsers) /\ OneCurrentIn(old)

LEMMA WriteOneCurrent ==
  ASSUME OneCurrentInv, WriteDimUsers
  PROVE  OneCurrentIn(dimUsers')
<1> DEFINE staged == staging["users"]
<1>1. PICK s1, s2, s3 \in OnePerId(staged) :
        dimUsers' = UnchangedRows(s1) \union RowsToClose(s2) \union NewRows(s3)
  BY DEF WriteDimUsers
<1>2. OneStaged /\ OneCurrentIn(old)
  BY DEF OneCurrentInv, StagedUsersInv
<1>3. ASSUME NEW v \in RowsToClose(s2) PROVE ~v.current
  <2>1. PICK x \in old : x.current /\ v = [x EXCEPT !.to = builds, !.current = FALSE]
    BY <1>3 DEF RowsToClose
  <2>2. x \in Version
    BY <2>1 DEF OneCurrentInv, StagedUsersInv, Typed, TypeOK
  <2> QED
    BY <2>1, <2>2 DEF Version
<1>4. ASSUME NEW v \in NewRows(s3)
      PROVE  \E r \in s3 : /\ IsNew(r) \/ IsChanged(r)
                           /\ v = [user |-> r.id, value |-> r.value,
                                   from |-> builds, to |-> FarFuture,
                                   current |-> TRUE]
  BY <1>4 DEF NewRows
<1>5. ASSUME NEW v \in UnchangedRows(s1), NEW w \in NewRows(s3),
             v.current, v.user = w.user, v.user # NullId
      PROVE  FALSE
  <2>1. PICK r \in s3 : (IsNew(r) \/ IsChanged(r)) /\ r.id = w.user
    BY <1>4, <1>5
  <2>2. v \in old /\ v.user \notin ChangedUsers(staged)
    BY <1>2, <1>5, SnapshotsAgree DEF UnchangedRows
  <2>3. ~IsNew(r)
    BY <1>5, <2>1, <2>2 DEF IsNew, Matches
  <2>4. r.id \in ChangedUsers(staged)
    BY <1>2, <2>1, <2>3, SnapshotsAgree DEF ChangedUsers
  <2> QED
    BY <1>5, <2>1, <2>2, <2>4
<1>6. ASSUME NEW v \in NewRows(s3), NEW w \in NewRows(s3), v.user = w.user
      PROVE  v = w
  <2>1. PICK r \in s3 : v = [user |-> r.id, value |-> r.value,
                             from |-> builds, to |-> FarFuture,
                             current |-> TRUE]
    BY <1>4
  <2>2. PICK x \in s3 : w = [user |-> x.id, value |-> x.value,
                             from |-> builds, to |-> FarFuture,
                             current |-> TRUE]
    BY <1>4
  <2>3. r = x
    BY <1>2, <1>6, <2>1, <2>2, SnapshotsAgree
  <2> QED
    BY <2>1, <2>2, <2>3
<1>7. UnchangedRows(s1) \subseteq old
  BY DEF UnchangedRows
<1> QED
  BY <1>1, <1>2, <1>3, <1>5, <1>6, <1>7 DEF OneCurrentIn

(* The steps before the dimensions.                                        *)
LakeStep ==
  \/ \E t \in Tables : SourceLoad(t) \/ StartIngest(t) \/ Clean(t)
  \/ \E i \in ingesters : Scan(i) \/ Commit(i) \/ IngestFails(i)

LEMMA LakeStepLeaves == LakeStep => UNCHANGED users
BY DEF LakeStep, SourceLoad, StartIngest, Clean, Scan, Commit, IngestFails

LEMMA OneCurrentNext ==
  ASSUME OneCurrentInv, [Next]_vars
  PROVE  OneCurrentInv'
<1>1. StagedUsersInv'
  BY StagedUsersNext DEF OneCurrentInv
<1>2. CASE UNCHANGED <<dimUsers, old>>
  BY <1>1, <1>2 DEF OneCurrentInv, OneCurrentIn
<1>3. CASE LakeStep
  BY <1>2, <1>3, LakeStepLeaves DEF users
<1>4. CASE DeleteDimCards \/ WriteDimCards \/ DimCardsFails
  BY <1>2, <1>4 DEF DeleteDimCards, WriteDimCards, DimCardsFails, users
<1>5. CASE \/ StartDimUsers \/ DeleteDimUsers \/ MergeCannotRead
           \/ DimUsersFails
  BY <1>1, <1>5 DEF StartDimUsers, DeleteDimUsers, MergeCannotRead,
     DimUsersFails, OneCurrentInv, OneCurrentIn
<1>6. CASE WriteDimUsers
  <2>1. old' = {}
    BY <1>6 DEF WriteDimUsers
  <2> QED
    BY <1>1, <1>6, <2>1, WriteOneCurrent DEF OneCurrentInv, OneCurrentIn
<1>7. CASE UNCHANGED vars
  BY <1>2, <1>7 DEF vars, users
<1>8. "users" \in Tables /\ "cards" \in Tables
  BY DEF Tables
<1> QED
  BY <1>3, <1>4, <1>5, <1>6, <1>7, <1>8
     DEF Next, LakeStep, CleanUsers, CleanCards

LEMMA OneCurrentInvHolds == Spec => []OneCurrentInv
<1>1. Init => OneCurrentInv
  BY StagedUsersInit DEF Init, OneCurrentInv, OneCurrentIn
<1>2. OneCurrentInv /\ [Next]_vars => OneCurrentInv'
  BY OneCurrentNext
<1> QED
  BY <1>1, <1>2, PTL DEF Spec

(* No sequence of loads, cleanings, builds and failures gives a user with  *)
(* an id two current versions.                                             *)
THEOREM OneCurrentHolds == Spec => []OneCurrent
<1>1. OneCurrentInv => OneCurrent
  BY DEF OneCurrentInv, OneCurrentIn, OneCurrent
<1> QED
  BY <1>1, OneCurrentInvHolds, PTL

-----------------------------------------------------------------------------
(* The history of users                                                    *)

(* A current version ends never, a closed one before the latest build; a   *)
(* build replaces exactly the versions it has found.                       *)
ValidityInv ==
  /\ \A x \in dimUsers \union old :
       /\ x.from <= builds
       /\ x.current => x.to = FarFuture
       /\ ~x.current => x.to <= builds
  /\ usersPc = "overwrite" => old = dimUsers
  /\ usersPc = "write" => dimUsers = {}

HistoryInv == OneCurrentInv /\ ValidityInv

(* What a written version is.                                              *)
LEMMA WrittenVersion ==
  ASSUME OneCurrentInv, WriteDimUsers, NEW x \in dimUsers'
  PROVE  \/ x \in old /\ x.user \notin ChangedUsers(staging["users"])
         \/ \E v \in old :
              /\ v.current /\ v.user \in ChangedUsers(staging["users"])
              /\ x.user = v.user /\ x.value = v.value /\ x.from = v.from
              /\ x.to = builds /\ x.current = FALSE
         \/ \E r \in staging["users"] :
              /\ IsNew(r) \/ IsChanged(r)
              /\ x = [user |-> r.id, value |-> r.value, from |-> builds,
                      to |-> FarFuture, current |-> TRUE]
<1> DEFINE staged == staging["users"]
<1>1. PICK s1, s2, s3 \in OnePerId(staged) :
        dimUsers' = UnchangedRows(s1) \union RowsToClose(s2) \union NewRows(s3)
  BY DEF WriteDimUsers
<1>2. OneStaged
  BY DEF OneCurrentInv, StagedUsersInv
<1>3. CASE x \in UnchangedRows(s1)
  BY <1>2, <1>3, SnapshotsAgree DEF UnchangedRows
<1>4. CASE x \in RowsToClose(s2)
  <2>1. PICK v \in old :
          /\ v.current /\ v.user \in ChangedUsers(s2)
          /\ x = [v EXCEPT !.to = builds, !.current = FALSE]
    BY <1>4 DEF RowsToClose
  <2>2. v \in Version
    BY <2>1 DEF OneCurrentInv, StagedUsersInv, Typed, TypeOK
  <2>3. /\ x.user = v.user /\ x.value = v.value /\ x.from = v.from
        /\ x.to = builds /\ x.current = FALSE
    BY <2>1, <2>2 DEF Version
  <2>4. v.user \in ChangedUsers(staged)
    BY <1>2, <2>1, SnapshotsAgree
  <2> QED
    BY <2>1, <2>3, <2>4
<1>5. CASE x \in NewRows(s3)
  BY <1>2, <1>5, SnapshotsAgree DEF NewRows
<1> QED
  BY <1>1, <1>3, <1>4, <1>5

(* The versions of users who did not change, and the new version of one    *)
(* who did, are written.                                                   *)
LEMMA VersionsWritten ==
  ASSUME OneCurrentInv, WriteDimUsers
  PROVE  /\ \A v \in old : v.user \notin ChangedUsers(staging["users"])
                             => v \in dimUsers'
         /\ \A r \in staging["users"] :
              (r.id # NullId /\ (IsNew(r) \/ IsChanged(r))) =>
                [user |-> r.id, value |-> r.value, from |-> builds,
                 to |-> FarFuture, current |-> TRUE] \in dimUsers'
<1> DEFINE staged == staging["users"]
<1>1. PICK s1, s2, s3 \in OnePerId(staged) :
        dimUsers' = UnchangedRows(s1) \union RowsToClose(s2) \union NewRows(s3)
  BY DEF WriteDimUsers
<1>2. OneStaged
  BY DEF OneCurrentInv, StagedUsersInv
<1>3. ASSUME NEW v \in old, v.user \notin ChangedUsers(staged)
      PROVE  v \in dimUsers'
  BY <1>1, <1>2, <1>3, SnapshotsAgree DEF UnchangedRows
<1>4. ASSUME NEW r \in staged, r.id # NullId, IsNew(r) \/ IsChanged(r)
      PROVE  [user |-> r.id, value |-> r.value, from |-> builds,
              to |-> FarFuture, current |-> TRUE] \in dimUsers'
  <2>1. r \in s3
    BY <1>2, <1>4, SnapshotsAgree
  <2> QED
    BY <1>1, <1>4, <2>1 DEF NewRows
<1> QED
  BY <1>3, <1>4

LEMMA WriteServesSnapshot ==
  ASSUME OneCurrentInv, WriteDimUsers,
         NEW r \in staging["users"], r.id # NullId
  PROVE  \E v \in dimUsers' : v.user = r.id /\ v.current /\ v.value = r.value
<1>1. CASE IsNew(r) \/ IsChanged(r)
  <2> DEFINE w == [user |-> r.id, value |-> r.value, from |-> builds,
                   to |-> FarFuture, current |-> TRUE]
  <2>1. w \in dimUsers'
    BY <1>1, VersionsWritten
  <2>2. w.user = r.id /\ w.current /\ w.value = r.value
    OBVIOUS
  <2> QED
    BY <2>1, <2>2
<1>2. CASE ~IsNew(r) /\ ~IsChanged(r)
  <2>1. PICK v \in old : v.current /\ Matches(v, r)
    BY <1>2 DEF IsNew
  <2>2. v.user = r.id /\ v.value = r.value
    BY <1>2, <2>1 DEF IsChanged, Matches
  <2>3. r.id \notin ChangedUsers(staging["users"])
    <3>1. SUFFICES ASSUME NEW s \in staging["users"], s.id = r.id
                   PROVE  ~IsChanged(s)
      BY DEF ChangedUsers
    <3>2. s = r
      BY <3>1 DEF OneCurrentInv, StagedUsersInv, OneStaged
    <3> QED
      BY <1>2, <3>2
  <2> QED
    BY <2>1, <2>2, <2>3, VersionsWritten
<1> QED
  BY <1>1, <1>2

(* Of every staged user with an id a build leaves a current version with   *)
(* the staged attributes, whatever users were new, changed or changed back *)
(* and whatever table earlier builds and failures left: the row is         *)
(* inserted when it is new or changed, and otherwise its current version   *)
(* is neither closed nor left out.                                         *)
THEOREM SnapshotServedHolds == Spec => SnapshotServed
<1>1. OneCurrentInv =>
        (WriteDimUsers =>
           \A r \in staging["users"] : r.id # NullId =>
             \E v \in dimUsers' :
               v.user = r.id /\ v.current /\ v.value = r.value)
  BY WriteServesSnapshot
<1> QED
  BY <1>1, OneCurrentInvHolds, PTL DEF SnapshotServed

LEMMA ValidityWrite ==
  ASSUME HistoryInv, WriteDimUsers
  PROVE  ValidityInv'
<1>1. builds' = builds /\ usersPc' = "idle" /\ old' = {}
  BY DEF WriteDimUsers
<1>2. builds \in Nat
  BY ConstantsAssumption
     DEF HistoryInv, OneCurrentInv, StagedUsersInv, Typed, TypeOK
<1>3. ASSUME NEW x \in dimUsers'
      PROVE  /\ x.from <= builds
             /\ x.current => x.to = FarFuture
             /\ ~x.current => x.to <= builds
  <2>1. \A v \in old : /\ v.from <= builds
                       /\ v.current => v.to = FarFuture
                       /\ ~v.current => v.to <= builds
    BY DEF HistoryInv, ValidityInv
  <2>2. CASE x \in old
    BY <2>1, <2>2
  <2>3. CASE \E v \in old : x.from = v.from /\ x.to = builds /\ x.current = FALSE
    BY <1>2, <2>1, <2>3
  <2>4. CASE \E r \in staging["users"] :
               x = [user |-> r.id, value |-> r.value, from |-> builds,
                    to |-> FarFuture, current |-> TRUE]
    BY <1>2, <2>4
  <2> QED
    BY <2>2, <2>3, <2>4, WrittenVersion DEF HistoryInv
<1> QED
  BY <1>1, <1>3 DEF ValidityInv

LEMMA HistoryNext ==
  ASSUME HistoryInv, [Next]_vars
  PROVE  HistoryInv'
<1>1. OneCurrentInv'
  BY OneCurrentNext DEF HistoryInv
<1>2. CASE UNCHANGED users
  BY <1>1, <1>2 DEF HistoryInv, ValidityInv, users
<1>3. CASE LakeStep
  BY <1>2, <1>3, LakeStepLeaves
<1>4. CASE DeleteDimCards \/ WriteDimCards \/ DimCardsFails
  BY <1>2, <1>4 DEF DeleteDimCards, WriteDimCards, DimCardsFails
<1>5. CASE StartDimUsers
  <2>1. builds \in Nat
    BY ConstantsAssumption
       DEF HistoryInv, OneCurrentInv, StagedUsersInv, Typed, TypeOK
  <2>2. \A x \in dimUsers : x.from \in Nat /\ x.to \in Nat
    BY DEF HistoryInv, OneCurrentInv, StagedUsersInv, Typed, TypeOK, Version
  <2>3. ValidityInv'
    BY <1>5, <2>1, <2>2 DEF StartDimUsers, HistoryInv, ValidityInv
  <2> QED
    BY <1>1, <2>3 DEF HistoryInv
<1>6. CASE DeleteDimUsers \/ MergeCannotRead \/ DimUsersFails
  BY <1>1, <1>6 DEF DeleteDimUsers, MergeCannotRead, DimUsersFails,
     HistoryInv, ValidityInv
<1>7. CASE WriteDimUsers
  BY <1>1, <1>7, ValidityWrite DEF HistoryInv
<1>8. CASE UNCHANGED vars
  BY <1>2, <1>8 DEF vars
<1>9. "users" \in Tables /\ "cards" \in Tables
  BY DEF Tables
<1> QED
  BY <1>3, <1>4, <1>5, <1>6, <1>7, <1>8, <1>9
     DEF Next, LakeStep, CleanUsers, CleanCards

(* What a table of versions answers about a user at a time.                *)
Answers(table, u, t) ==
  {v.value : v \in {x \in table : x.user = u /\ x.from <= t /\ t < x.to}}

LEMMA AnswersOf ==
  ASSUME NEW u \in Users, NEW t \in 0..MaxBuilds
  PROVE  /\ AsOf[u][t] = Answers(Served, u, t)
         /\ AsOf'[u][t] = Answers(Served', u, t)
BY DEF AsOf, Answers

(* Answers that agree at every time are the same answers.                  *)
LEMMA SameAnswers ==
  ASSUME NEW u \in Users,
         \A t \in 0..MaxBuilds :
           Answers(Served', u, t) = Answers(Served, u, t)
  PROVE  AsOf'[u] = AsOf[u]
BY DEF AsOf, Answers

(* A written table records the staged version of each user.                *)
LEMMA WriteRecords ==
  ASSUME HistoryInv, WriteDimUsers, NEW u \in Users
  PROVE  \/ AsOf'[u] = AsOf[u]
         \/ \E v \in Values : History!Recorded(u, v, AsOf'[u])
<1> DEFINE staged == staging["users"]
           changed == ChangedUsers(staged)
<1>1. Served = old /\ Served' = dimUsers'
  BY DEF WriteDimUsers, Served
<1>2. /\ OneCurrentInv /\ OneStaged
      /\ staged \subseteq Row("users") /\ old \subseteq Version
      /\ builds \in 1..MaxBuilds /\ MaxBuilds \in Nat
  BY ConstantsAssumption
     DEF HistoryInv, OneCurrentInv, StagedUsersInv, Typed, TypeOK, Tables,
         WriteDimUsers
<1>3. u # NullId
  BY ConstantsAssumption
<1>4. \A x \in old : /\ x.from \in Nat /\ x.to \in Nat
                     /\ x.current \in BOOLEAN
  BY <1>2 DEF Version
<1>5. \A x \in old : /\ x.from <= builds
                     /\ x.current => x.to = FarFuture
                     /\ ~x.current => x.to <= builds
  BY DEF HistoryInv, ValidityInv
<1>6. CASE \A r \in staged : r.id = u => ~IsNew(r) /\ ~IsChanged(r)
  <2>1. u \notin changed
    BY <1>6 DEF ChangedUsers
  <2>2. ASSUME NEW x \in dimUsers', x.user = u PROVE x \in old
    <3>1. ~ \E v \in old : v.user \in changed /\ x.user = v.user
      BY <2>1, <2>2
    <3>2. ~ \E q \in staged :
              /\ IsNew(q) \/ IsChanged(q)
              /\ x = [user |-> q.id, value |-> q.value, from |-> builds,
                      to |-> FarFuture, current |-> TRUE]
      BY <1>6, <2>2
    <3> QED
      BY <1>2, <3>1, <3>2, WrittenVersion
  <2>3. \A x \in old : x.user = u => x \in dimUsers'
    BY <1>2, <2>1, VersionsWritten
  <2>4. \A t \in 0..MaxBuilds :
          Answers(dimUsers', u, t) = Answers(old, u, t)
    BY <2>2, <2>3 DEF Answers
  <2> QED
    BY <1>1, <2>4, SameAnswers
<1>7. ASSUME NEW r \in staged, r.id = u, IsNew(r) \/ IsChanged(r)
      PROVE  \E v \in Values : History!Recorded(u, v, AsOf'[u])
  <2> DEFINE new == [user |-> r.id, value |-> r.value, from |-> builds,
                     to |-> FarFuture, current |-> TRUE]
  <2>1. r.value \in Values
    BY <1>2 DEF Row
  <2>2. new \in dimUsers'
    BY <1>2, <1>3, <1>7, VersionsWritten
  <2>3. \A x \in staged : x.id = u => x = r
    BY <1>2, <1>3, <1>7 DEF OneStaged
  <2>4. IsChanged(r) => u \in changed
    BY <1>7 DEF ChangedUsers
  <2>5. ASSUME NEW x \in dimUsers', x.user = u, x # new
        PROVE  \E v \in old : /\ v.user = u /\ x.value = v.value
                              /\ x.from = v.from /\ x.to <= builds
                              /\ x.to \in Nat /\ x.to <= v.to
    <3>1. CASE x \in old /\ x.user \notin changed
      <4>1. IsNew(r)
        BY <1>7, <2>4, <2>5, <3>1
      <4>2. ~x.current
        BY <1>3, <1>7, <2>5, <3>1, <4>1 DEF IsNew, Matches
      <4> QED
        BY <1>4, <1>5, <2>5, <3>1, <4>2
    <3>2. CASE \E v \in old :
                 /\ v.current
                 /\ x.user = v.user /\ x.value = v.value /\ x.from = v.from
                 /\ x.to = builds /\ x.current = FALSE
      BY <1>2, <1>4, <1>5, <2>5, <3>2 DEF FarFuture
    <3>3. ~ \E q \in staged :
              /\ IsNew(q) \/ IsChanged(q)
              /\ x = [user |-> q.id, value |-> q.value, from |-> builds,
                      to |-> FarFuture, current |-> TRUE]
      BY <2>3, <2>5
    <3> QED
      BY <1>2, <3>1, <3>2, <3>3, WrittenVersion
  <2>6. Answers(old, u, builds) # {r.value}
    <3>1. CASE IsNew(r)
      <4>1. \A x \in old : x.user = u => ~x.current
        BY <1>3, <1>7, <3>1 DEF IsNew, Matches
      <4>2. Answers(old, u, builds) = {}
        BY <1>2, <1>4, <1>5, <4>1 DEF Answers
      <4> QED
        BY <4>2
    <3>2. CASE IsChanged(r)
      <4>1. PICK x \in old : x.current /\ x.user = u /\ x.value # r.value
        BY <1>7, <3>2 DEF IsChanged, Matches
      <4>2. x.value \in Answers(old, u, builds)
        BY <1>2, <1>5, <4>1 DEF Answers, FarFuture
      <4> QED
        BY <4>1, <4>2
    <3> QED
      BY <1>7, <3>1, <3>2
  <2>7. ASSUME NEW t \in 0..MaxBuilds, t < builds
        PROVE  Answers(dimUsers', u, t) \subseteq Answers(old, u, t)
    <3>1. ASSUME NEW x \in dimUsers', x.user = u, x.from <= t, t < x.to
          PROVE  x.value \in Answers(old, u, t)
      <4>1. x # new
        BY <1>2, <2>7, <3>1
      <4>2. PICK v \in old : /\ v.user = u /\ x.value = v.value
                             /\ x.from = v.from /\ x.to \in Nat /\ x.to <= v.to
        BY <2>5, <3>1, <4>1
      <4>3. v.from <= t /\ t < v.to
        BY <1>4, <3>1, <4>2
      <4> QED
        BY <4>2, <4>3 DEF Answers
    <3> QED
      BY <3>1 DEF Answers
  <2>8. ASSUME NEW t \in 0..MaxBuilds, ~(t < builds)
        PROVE  Answers(dimUsers', u, t) = {r.value}
    <3>1. new.user = u /\ new.value = r.value /\ new.from <= t /\ t < new.to
      BY <1>2, <1>7, <2>8 DEF FarFuture
    <3>2. ASSUME NEW x \in dimUsers', x.user = u, x.from <= t, t < x.to
          PROVE  x = new
      BY <1>2, <2>5, <2>8, <3>2
    <3> HIDE DEF new
    <3>3. r.value \in Answers(dimUsers', u, t)
      BY <2>2, <3>1 DEF Answers
    <3>4. Answers(dimUsers', u, t) \subseteq {r.value}
      BY <3>1, <3>2 DEF Answers
    <3> QED
      BY <3>3, <3>4
  <2>9. \A t \in 0..MaxBuilds :
          /\ AsOf[u][t] = Answers(old, u, t)
          /\ AsOf'[u][t] = Answers(dimUsers', u, t)
    BY <1>1, AnswersOf
  <2>10. AsOf[u][builds] # {r.value}
    BY <1>2, <2>6, <2>9
  <2>11. \A t \in 0..MaxBuilds : IF t < builds THEN AsOf'[u][t] \subseteq AsOf[u][t]
                                              ELSE AsOf'[u][t] = {r.value}
    BY <2>7, <2>8, <2>9
  <2>12. History!Recorded(u, r.value, AsOf'[u])
    BY <2>10, <2>11 DEF History!Recorded, History!Times
  <2> QED
    BY <2>1, <2>12
<1> QED
  BY <1>6, <1>7

LEMMA AnswersTyped ==
  ASSUME NEW table \in SUBSET Version, NEW u, NEW t
  PROVE  Answers(table, u, t) \in SUBSET Values
BY DEF Answers, Version

LEMMA WriteIsRecord ==
  ASSUME HistoryInv, WriteDimUsers
  PROVE  History!Record
<1>1. dimUsers' \in SUBSET Version
  BY UsersTyped DEF HistoryInv, OneCurrentInv, StagedUsersInv, Typed, TypeOK
<1>2. Served' = dimUsers'
  BY DEF WriteDimUsers, Served
<1>3. AsOf' = [u \in Users |-> [t \in 0..MaxBuilds |->
                 Answers(dimUsers', u, t)]]
  BY <1>2 DEF AsOf, Answers
<1>4. \A u \in Users, t \in 0..MaxBuilds :
        Answers(dimUsers', u, t) \in SUBSET Values
  BY <1>1, AnswersTyped
<1>5. AsOf' \in [Users -> [0..MaxBuilds -> SUBSET Values]]
  BY <1>3, <1>4
<1>6. UNCHANGED builds
  BY DEF WriteDimUsers
<1> QED
  BY <1>5, <1>6, WriteRecords DEF History!Record, History!Times

(* A table without versions has no answers.                                *)
LEMMA NoVersions ==
  (Served = {} => AsOf = History!NoAnswers)
    /\ (Served' = {} => AsOf' = History!NoAnswers)
<1>1. \A u, t : Answers({}, u, t) = {}
  BY DEF Answers
<1>2. AsOf = [u \in Users |-> [t \in 0..MaxBuilds |-> Answers(Served, u, t)]]
  BY DEF AsOf, Answers
<1>3. AsOf' = [u \in Users |-> [t \in 0..MaxBuilds |-> Answers(Served', u, t)]]
  BY DEF AsOf, Answers
<1> QED
  BY <1>1, <1>2, <1>3 DEF History!NoAnswers, History!Times

LEMMA HistoryStep ==
  ASSUME HistoryInv, [Next]_vars
  PROVE  [History!Next]_<<AsOf, builds>>
<1>1. CASE UNCHANGED <<Served, builds>>
  BY <1>1 DEF AsOf
<1>2. CASE LakeStep
  BY <1>1, <1>2, LakeStepLeaves DEF users, Served
<1>3. CASE DeleteDimCards \/ WriteDimCards \/ DimCardsFails
  BY <1>1, <1>3 DEF DeleteDimCards, WriteDimCards, DimCardsFails, users, Served
<1>4. CASE StartDimUsers
  <2>1. Served' = Served /\ builds < MaxBuilds /\ builds' = builds + 1
    BY <1>4 DEF StartDimUsers, Served
  <2>2. AsOf' = AsOf
    BY <2>1 DEF AsOf
  <2> QED
    BY <2>1, <2>2 DEF History!Next, History!Tick
<1>5. CASE DeleteDimUsers
  <2>1. Served' = Served /\ UNCHANGED builds
    BY <1>5 DEF DeleteDimUsers, Served, HistoryInv, ValidityInv
  <2> QED
    BY <1>1, <2>1
<1>6. CASE WriteDimUsers
  BY <1>6, WriteIsRecord DEF History!Next
<1>7. CASE (MergeCannotRead \/ DimUsersFails) /\ usersPc = "write"
  <2>1. Served' = {} /\ UNCHANGED builds
    BY <1>7 DEF MergeCannotRead, DimUsersFails, Served, HistoryInv, ValidityInv
  <2> QED
    BY <2>1, NoVersions DEF History!Next, History!Lose
<1>8. CASE DimUsersFails /\ usersPc # "write"
  <2>1. Served' = Served /\ UNCHANGED builds
    BY <1>8 DEF DimUsersFails, Served
  <2> QED
    BY <1>1, <2>1
<1>9. CASE UNCHANGED vars
  BY <1>1, <1>9 DEF vars, users, Served
<1>10. "users" \in Tables /\ "cards" \in Tables
  BY DEF Tables
<1>11. MergeCannotRead => usersPc = "write"
  BY DEF MergeCannotRead
<1> QED
  BY <1>2, <1>3, <1>4, <1>5, <1>6, <1>7, <1>8, <1>9, <1>10, <1>11
     DEF Next, LakeStep, CleanUsers, CleanCards

(* The table of versions implements the history it promises: at any time   *)
(* a user has the answer the builds gave, at most one, and an answer about *)
(* the past is lost at worst, never another.                               *)
THEOREM UserHistoryImplemented == Spec => ImplementsUserHistory
<1>1. Init => HistoryInv
  BY StagedUsersInit
     DEF Init, HistoryInv, OneCurrentInv, OneCurrentIn, ValidityInv
<1>2. Init => History!Init
  <2> SUFFICES ASSUME Init PROVE History!Init
    OBVIOUS
  <2>1. Served = {} /\ builds = 0
    BY DEF Init, Served
  <2> QED
    BY <2>1, NoVersions DEF History!Init
<1>3. HistoryInv /\ [Next]_vars => HistoryInv' /\ [History!Next]_<<AsOf, builds>>
  BY HistoryNext, HistoryStep
<1> QED
  BY <1>1, <1>2, <1>3, PTL DEF Spec, ImplementsUserHistory, History!Spec,
     History!vars

================================================================================
