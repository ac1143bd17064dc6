-------------------------- MODULE MCCleanTransactions --------------------------
(***************************************************************************)
(* Small instances of CleanTransactions for TLC.                           *)
(***************************************************************************)
EXTENDS CleanTransactions, TLC

(* Rows TLC loads: every valid or rejected version of an id in every day,  *)
(* one row of each id without a day and one NULL id in each day.           *)
MCDrafts ==
  {r \in Drafts : r.day = NoDay => (r.id # NullId /\ ~r.ok)} \
    {r \in Drafts : r.id = NullId /\ r.ok}

(* Loads of one row, loads that bring an id twice (two versions with the   *)
(* same _loaded_at, in one day or in two, not both rejected), and loads    *)
(* that bring two valid transactions of a day.                             *)
SingleLoads == {{r} : r \in MCDrafts}
TwinLoads   == {load \in SUBSET {r \in MCDrafts : r.id \in Ids /\ r.day \in Days} :
                  /\ Cardinality(load) = 2
                  /\ \A r, s \in load : r.id = s.id
                  /\ \E r \in load : r.ok}
DayLoads    == {{r \in MCDrafts : r.id \in Ids /\ r.day = d /\ r.ok} : d \in Days}
MCLoads == SingleLoads \union TwinLoads \union DayLoads

Symmetry == Permutations(Days) \union Permutations(Ids)
================================================================================
