------------------------------ MODULE StagingLayer ------------------------------
(***************************************************************************)
(* What cleaning promises of the staging layer of transactions             *)
(* (transformation/staging/clean_transactions.py and the _full job): once  *)
(* a committed version of a transaction is kept in a day, that day keeps   *)
(* it or a newer one, until a version at least as new that is rejected or  *)
(* belongs to another day takes the transaction out of the day.  Nothing   *)
(* of a day is lost or rolled back by cleaning another one, by a retry, by *)
(* a rerun or by the backfill.                                             *)
(***************************************************************************)
EXTENDS Naturals

CONSTANTS
  NoDay,   \* the day of a row whose date does not parse
  NullId   \* the id of a row whose id is NULL

VARIABLES
  known,  \* rows the source has committed
  kept    \* those of them a day holds, as they are or in a newer version

Admissible(r) == r.id # NullId /\ r.day # NoDay /\ r.ok

SameKey(r, s) == r.id = s.id /\ r.day = s.day

(* A version at least as new takes transaction r.id out of day r.day.      *)
Withdrawn(r) ==
  \E s \in known : /\ s.id = r.id /\ r.stamp <= s.stamp
                   /\ ~Admissible(s) \/ s.day # r.day

Init == known = {} /\ kept = {}

Load == known \subseteq known' /\ UNCHANGED kept

Publish ==
  /\ UNCHANGED known
  /\ kept' \subseteq known
  /\ \A r \in kept :
       r \in kept' \/ (Withdrawn(r) /\ \A s \in kept' : ~SameKey(r, s))

Next == Load \/ Publish

Spec == Init /\ [][Next]_<<known, kept>>
================================================================================
