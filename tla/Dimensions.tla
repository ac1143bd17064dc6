------------------------------- MODULE Dimensions -------------------------------
(***************************************************************************)
(* The reference data, users and cards, from the source database to the    *)
(* dimensions of the warehouse: UserJDBCIngester and CardJDBCIngester,     *)
(* clean_users.py, clean_cards.py, build_dim_cards.py (type 1: the latest  *)
(* version) and build_dim_users.py (type 2: versions with validity).       *)
(*                                                                         *)
(* The raw and staging tables are partitioned by attributes of the row     *)
(* (users by birth cohort, cards by brand and expiry year) and overwritten *)
(* dynamically, so a partition without a row in the result stays.  Active  *)
(* runs of the DAG ingest the same tables beside each other.  The          *)
(* dimensions have no partitions: an overwrite deletes the directory and   *)
(* then runs the tasks that compute the new rows.                          *)
(***************************************************************************)
EXTENDS Naturals, FiniteSets

CONSTANTS
  Users, Cards,  \* ids
  NullId,        \* the id of a row whose id is NULL
  Parts,         \* partitions
  Values,        \* contents of the tracked columns
  Loads,         \* for each table, the loads the source may receive
  MaxLoads,      \* bound: loads of the source
  MaxBatches,    \* bound: ingesters built
  MaxBuilds,     \* bound: builds of dim_users
  MaxFaults      \* bound: failures of a build that are not the code's

Tables == {"users", "cards"}
Ids(t) == IF t = "users" THEN Users \union {NullId} ELSE Cards \union {NullId}

Draft(t) == [id : Ids(t), part : Parts, value : Values]
Row(t)   == [id : Ids(t), part : Parts, value : Values,
             loaded : 1..MaxLoads, ingested : 1..MaxBatches]

(* Users are partitioned by birth year and month, which a person keeps.    *)
ASSUME ConstantsAssumption ==
  /\ NullId \notin Users \union Cards
  /\ Loads \in [Tables -> SUBSET (SUBSET Draft("users") \union SUBSET Draft("cards"))]
  /\ \A t \in Tables : Loads[t] \subseteq SUBSET Draft(t)
  /\ \A k, l \in Loads["users"] : \A r \in k, s \in l :
       (r.id = s.id /\ r.id # NullId) => r.part = s.part
  /\ MaxLoads \in Nat /\ MaxBatches \in Nat
  /\ MaxBuilds \in Nat /\ MaxFaults \in Nat

(* valid_to of a current version: the year 9999.                           *)
FarFuture == MaxBuilds + 1

Version == [user : Users \union {NullId}, value : Values,
            from : 1..MaxBuilds, to : 1..FarFuture, current : BOOLEAN]

VARIABLES
  source,    \* rows of raw_users and raw_cards in PostgreSQL
  loads,     \* loads committed; a load's number is its _loaded_at
  raw,       \* the raw layer
  batches,   \* ingesters built; an ingester's number is its _ingested_at
  ingesters, \* those under way, with the loads their scan has seen
  overlapped,\* batches of ingesters that have run beside another one
  staging,   \* the staging layer
  dimCards,  \* warehouse/dim_cards; no rows: no table
  cardsPc,   \* build_dim_cards
  dimUsers,  \* warehouse/dim_users; no rows: no table
  usersPc,   \* build_dim_users
  old,       \* the versions build_dim_users has found
  builds,    \* builds of dim_users; a build's number is its now
  faults     \* failures of builds so far

ingestion == <<batches, ingesters, overlapped>>
lake  == <<source, loads, raw, ingestion, staging>>
cards == <<dimCards, cardsPc>>
users == <<dimUsers, usersPc, old, builds>>
vars  == <<lake, cards, users, faults>>

TypeOK ==
  /\ source \in [Tables -> SUBSET [id : Users \union Cards \union {NullId},
                   part : Parts, value : Values, loaded : 1..MaxLoads]]
  /\ loads \in 0..MaxLoads
  /\ batches \in 0..MaxBatches
  /\ ingesters \subseteq
       [table : Tables, batch : 1..MaxBatches, seen : 0..MaxLoads]
  /\ overlapped \subseteq 1..MaxBatches
  /\ \A t \in Tables : raw[t] \subseteq Row(t) /\ staging[t] \subseteq Row(t)
  /\ dimCards \subseteq Row("cards")
  /\ cardsPc \in {"idle", "write"}
  /\ dimUsers \subseteq Version
  /\ usersPc \in {"idle", "overwrite", "write"}
  /\ old \subseteq Version
  /\ builds \in 0..MaxBuilds
  /\ faults \in 0..MaxFaults

-----------------------------------------------------------------------------
(* Tables                                                                  *)

(* One row of each id, an arbitrary one: dropDuplicates.                   *)
OnePerId(rows) ==
  {w \in SUBSET rows :
     /\ \A r \in rows : \E s \in w : s.id = r.id
     /\ \A r, s \in w : r.id = s.id => r = s}

(* row_number() = 1 by _loaded_at, newest first; equal stamps in any order.*)
NewestLoaded(rows) ==
  {w \in OnePerId(rows) :
     \A s \in w, r \in rows : r.id = s.id => r.loaded <= s.loaded}

(* Mutant: dropDuplicates instead of the window.                           *)
MutantAnyIngested(rows) == OnePerId(rows)

(* row_number() = 1 by _ingested_at, newest first.                         *)
NewestIngested(rows) ==
  {w \in OnePerId(rows) :
     \A s \in w, r \in rows : r.id = s.id => r.ingested <= s.ingested}

(* Dynamic overwrite: only the partitions of the result are replaced.      *)
DynamicOverwrite(table, rows) ==
  {r \in table : \A s \in rows : s.part # r.part} \union rows

-----------------------------------------------------------------------------
Init ==
  /\ source = [t \in Tables |-> {}] /\ loads = 0
  /\ raw = [t \in Tables |-> {}]
  /\ batches = 0 /\ ingesters = {} /\ overlapped = {}
  /\ staging = [t \in Tables |-> {}]
  /\ dimCards = {} /\ cardsPc = "idle"
  /\ dimUsers = {} /\ usersPc = "idle" /\ old = {} /\ builds = 0
  /\ faults = 0

(* A load commits; it only adds rows, the table has no key.                *)
SourceLoad(t) ==
  /\ loads < MaxLoads
  /\ loads' = loads + 1
  /\ \E load \in Loads[t] :
       source' = [source EXCEPT ![t] = @ \union
         {[id |-> r.id, part |-> r.part, value |-> r.value,
           loaded |-> loads + 1] : r \in load}]
  /\ UNCHANGED <<raw, ingestion, staging, cards, users, faults>>

Stamped(rows, batch) ==
  {[id |-> r.id, part |-> r.part, value |-> r.value,
    loaded |-> r.loaded, ingested |-> batch] : r \in rows}

Running(t) == {i \in ingesters : i.table = t}

(* The ingester of a table is built: it takes its _ingested_at now, before *)
(* the ingesters of the run that come first have done their work.          *)
StartIngest(t) ==
  /\ batches < MaxBatches
  /\ batches' = batches + 1
  /\ ingesters' = ingesters \union
       {[table |-> t, batch |-> batches + 1, seen |-> 0]}
  /\ overlapped' = IF Running(t) = {} THEN overlapped
       ELSE overlapped \union {i.batch : i \in Running(t)} \union {batches + 1}
  /\ UNCHANGED <<source, loads, raw, staging, cards, users, faults>>

(* Its query reads the whole table.                                        *)
Scan(i) ==
  /\ i.seen = 0 /\ loads > 0
  /\ ingesters' = (ingesters \ {i}) \union {[i EXCEPT !.seen = loads]}
  /\ UNCHANGED <<source, loads, raw, batches, overlapped, staging, cards, users,
                 faults>>

(* Its write replaces the partitions of the rows the scan has seen.        *)
Scanned(i) == {r \in source[i.table] : r.loaded <= i.seen}

Commit(i) ==
  /\ i.seen > 0
  /\ raw' = [raw EXCEPT ![i.table] =
               DynamicOverwrite(@, Stamped(Scanned(i), i.batch))]
  /\ ingesters' = ingesters \ {i}
  /\ UNCHANGED <<source, loads, batches, overlapped, staging, cards, users,
                 faults>>

(* It fails before it has published anything.                              *)
IngestFails(i) ==
  /\ ingesters' = ingesters \ {i}
  /\ UNCHANGED <<source, loads, raw, batches, overlapped, staging, cards, users,
                 faults>>

BuildIdle(t) == IF t = "users" THEN usersPc = "idle" ELSE cardsPc = "idle"

(* The cleaning of a table.  Rows without an id are marked invalid and     *)
(* staged like the others.  A job runs to its end before the build of the  *)
(* same table is started by hand.                                          *)
Clean(t) ==
  /\ BuildIdle(t)
  /\ raw[t] # {}
  /\ \E w \in NewestLoaded(raw[t]) :
       staging' = [staging EXCEPT ![t] = DynamicOverwrite(@, w)]
  /\ UNCHANGED <<source, loads, raw, ingestion, cards, users, faults>>

CleanUsers == Clean("users")
CleanCards == Clean("cards")

-----------------------------------------------------------------------------
(* build_dim_cards                                                         *)

(* The rows are counted and the old directory is deleted.                  *)
DeleteDimCards ==
  /\ cardsPc = "idle"
  /\ staging["cards"] # {}
  /\ dimCards' = {}
  /\ cardsPc' = "write"
  /\ UNCHANGED <<lake, users, faults>>

WriteDimCards ==
  /\ cardsPc = "write"
  /\ dimCards' \in NewestIngested(staging["cards"])
  /\ cardsPc' = "idle"
  /\ UNCHANGED <<lake, users, faults>>

DimCardsFails ==
  /\ cardsPc = "write" /\ faults < MaxFaults
  /\ faults' = faults + 1
  /\ cardsPc' = "idle"
  /\ UNCHANGED <<lake, dimCards, users>>

-----------------------------------------------------------------------------
(* build_dim_users                                                         *)

(* The job reads the time, staging and what there is of the dimension.     *)
StartDimUsers ==
  /\ usersPc = "idle" /\ builds < MaxBuilds
  /\ staging["users"] # {}
  /\ builds' = builds + 1
  /\ old' = dimUsers
  /\ usersPc' = "overwrite"
  /\ UNCHANGED <<lake, cards, dimUsers, faults>>

(* mode("overwrite") deletes the directory the plan still has to read.     *)
DeleteDimUsers ==
  /\ usersPc = "overwrite"
  /\ dimUsers' = {}
  /\ usersPc' = "write"
  /\ UNCHANGED <<lake, cards, old, builds, faults>>

(* Joins on user_id never match NULL.                                      *)
Matches(v, r) == r.id # NullId /\ v.user = r.id

(* is_new: no current version to join.                                     *)
IsNew(r) == \A v \in old : v.current => ~Matches(v, r)

IsChanged(r) == \E v \in old : v.current /\ Matches(v, r) /\ v.value # r.value

(* Mutant: valid_to of a new version is left NULL.                         *)
MutantNullValidTo(snapshot) ==
  {[user |-> r.id, value |-> r.value, from |-> builds, to |-> 0,
    current |-> TRUE] : r \in {s \in snapshot : IsNew(s) \/ IsChanged(s)}}

(* Mutant: rows_changed is left out of rows_to_insert.                     *)
MutantInsertNewOnly(snapshot) ==
  {[user |-> r.id, value |-> r.value, from |-> builds, to |-> FarFuture,
    current |-> TRUE] : r \in {s \in snapshot : IsNew(s)}}

NewRows(snapshot) ==
  {[user |-> r.id, value |-> r.value, from |-> builds, to |-> FarFuture,
    current |-> TRUE] : r \in {s \in snapshot : IsNew(s) \/ IsChanged(s)}}

ChangedUsers(snapshot) == {r.id : r \in {s \in snapshot : IsChanged(s)}}

RowsToClose(snapshot) ==
  {[v EXCEPT !.to = builds, !.current = FALSE] :
     v \in {x \in old : x.current /\ x.user \in ChangedUsers(snapshot)}}

(* Mutant: without the left_anti join.                                     *)
MutantKeepAll(snapshot) == old

(* left_anti: every version of a changed user is left out.                 *)
UnchangedRows(snapshot) ==
  {v \in old : v.user \notin ChangedUsers(snapshot)}

(* The first load, and a merge whose tasks could read the old versions.    *)
(* Each branch of the union evaluates dropDuplicates for itself.           *)
WriteDimUsers ==
  /\ usersPc = "write"
  /\ \E s1, s2, s3 \in OnePerId(staging["users"]) :
       dimUsers' = UnchangedRows(s1) \union RowsToClose(s2) \union NewRows(s3)
  /\ usersPc' = "idle" /\ old' = {}
  /\ UNCHANGED <<lake, cards, builds, faults>>

(* A merge reads its input after it has deleted it: the tasks do not find  *)
(* the files.                                                              *)
MergeCannotRead ==
  /\ usersPc = "write" /\ old # {}
  /\ usersPc' = "idle" /\ old' = {}
  /\ UNCHANGED <<lake, cards, dimUsers, builds, faults>>

DimUsersFails ==
  /\ usersPc # "idle" /\ faults < MaxFaults
  /\ faults' = faults + 1
  /\ usersPc' = "idle" /\ old' = {}
  /\ UNCHANGED <<lake, cards, dimUsers, builds>>

-----------------------------------------------------------------------------
Next ==
  \/ \E t \in Tables : SourceLoad(t)
  \/ \E t \in Tables : StartIngest(t)
  \/ \E i \in ingesters : Scan(i)
  \/ \E i \in ingesters : Commit(i)
  \/ \E i \in ingesters : IngestFails(i)
  \/ CleanUsers
  \/ CleanCards
  \/ DeleteDimCards
  \/ WriteDimCards
  \/ DimCardsFails
  \/ StartDimUsers
  \/ DeleteDimUsers
  \/ WriteDimUsers
  \/ MergeCannotRead
  \/ DimUsersFails

Spec == Init /\ [][Next]_vars

-----------------------------------------------------------------------------
(* Properties                                                              *)

(* A user with an id has at most one current version in dim_users, so the  *)
(* joins with is_current = true do not multiply transactions, however      *)
(* builds, changes and failures follow each other.                         *)
OneCurrent ==
  \A v, w \in dimUsers :
    (v.user = w.user /\ v.user # NullId /\ v.current /\ w.current) => v = w

(* Although staging keeps stale rows of cards whose partition changed and  *)
(* cleaning and the dimension choose by different times, a build of        *)
(* dim_cards serves of every card the version loaded last, unless the      *)
(* ingester of the served version ran beside another one: then a later     *)
(* _ingested_at may belong to an earlier scan.                             *)
DimCardsNewest ==
  [][WriteDimCards =>
       \A c \in dimCards', r \in staging["cards"] :
         (c.id = r.id /\ c.ingested \notin overlapped) => r.loaded <= c.loaded]_vars

(* A build leaves of every staged user with an id a current version with   *)
(* the staged attributes, whether the user is new, changed, changed back   *)
(* or the same, and whatever builds, rows without an id and failures have  *)
(* left in the table it starts from.                                       *)
SnapshotServed ==
  [][WriteDimUsers =>
       \A r \in staging["users"] : r.id # NullId =>
         \E v \in dimUsers' :
           v.user = r.id /\ v.current /\ v.value = r.value]_vars

(* The answers of dim_users about a user at a time, as a reader gets them  *)
(* while no build is replacing the table.                                  *)
Served == IF usersPc = "write" THEN old ELSE dimUsers

AsOf == [u \in Users |-> [t \in 0..MaxBuilds |->
  {v.value : v \in {x \in Served : x.user = u /\ x.from <= t /\ t < x.to}}]]

History == INSTANCE UserHistory
  WITH Users <- Users, Values <- Values, LastTime <- MaxBuilds,
       asOf <- AsOf, clock <- builds

(* The table of versions answers readers as UserHistory promises: builds   *)
(* never give two answers for one time nor change an answer about the past.*)
ImplementsUserHistory == History!Spec

(* A build that ends leaves every version it found, open or closed.        *)
HistoryKept ==
  [][(usersPc # "idle" /\ usersPc' = "idle") =>
       \A v \in old : \E w \in dimUsers' :
         w.user = v.user /\ w.value = v.value /\ w.from = v.from]_vars

================================================================================
