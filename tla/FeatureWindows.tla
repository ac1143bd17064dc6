----------------------------- MODULE FeatureWindows -----------------------------
(***************************************************************************)
(* The velocity features of build_fraud_features.py: counts and sums over  *)
(* the transactions of a user in the last hour, day and week.  The daily   *)
(* job computes them from a few days of staging, the backfill from all.    *)
(***************************************************************************)
EXTENDS Naturals, FiniteSets

CONSTANTS
  DayLength,    \* seconds of a day: 86400
  Hour,         \* seconds of an hour: 3600
  WeekDays,     \* days of the widest window: 7
  LookbackDays  \* days the daily job reads before its own: 7

ASSUME WindowsAssumption ==
  /\ DayLength \in Nat \ {0}
  /\ Hour \in 0..DayLength
  /\ WeekDays \in Nat /\ LookbackDays \in Nat
  /\ 1 <= WeekDays /\ WeekDays <= LookbackDays

(* Staged transactions: day is the partition one is in, sec the second of  *)
(* that day.                                                               *)
Txns(ids, users, days) ==
  [id : ids, user : users, day : days, sec : 0..(DayLength - 1)]

(* unix_timestamp                                                          *)
Ts(x) == x.day * DayLength + x.sec

Spans == {Hour, DayLength, WeekDays * DayLength}

(* rangeBetween(-span, currentRow) of the rows of one user.                *)
Window(rows, x, span) ==
  {y \in rows : y.user = x.user /\ Ts(x) <= Ts(y) + span /\ Ts(y) <= Ts(x)}

(* Mutant: >= where <= lookback_date is meant; the first day is left out.  *)
MutantLookback(rows, d) ==
  {y \in rows : d < y.day + LookbackDays /\ y.day <= d}

(* The partitions the daily job reads.                                     *)
Lookback(rows, d) ==
  {y \in rows : d <= y.day + LookbackDays /\ y.day <= d}

(* The velocity features of a transaction.                                 *)
Features(rows, x) ==
  [txn_count_last_1h  |-> Cardinality(Window(rows, x, Hour)),
   txn_count_last_24h |-> Cardinality(Window(rows, x, DayLength)),
   txn_count_last_7d  |-> Cardinality(Window(rows, x, WeekDays * DayLength))]

(* build_fraud_features: only the rows of the day are kept.                *)
DailyFeatures(rows, d) ==
  [x \in {y \in Lookback(rows, d) : y.day = d} |->
     Features(Lookback(rows, d), x)]

(* build_fraud_features_full                                               *)
FullFeatures(rows) == [x \in rows |-> Features(rows, x)]

================================================================================
