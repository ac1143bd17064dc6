-------------------------------- MODULE RowRules --------------------------------
(***************************************************************************)
(* The pure rules the jobs apply to rows, against their references: the    *)
(* parsing of an amount and the features of staged transactions.  The      *)
(* state is the input.                                                     *)
(***************************************************************************)
EXTENDS AmountParser, FeatureWindows

CONSTANTS
  Lengths,     \* lengths of the groups of digits
  Separators,  \* numbers of separators
  Ids, Users,  \* transactions and users
  Days,        \* event days
  MaxTxns      \* bound: transactions

ASSUME InputsAssumption ==
  /\ Lengths \subseteq Nat /\ Separators \subseteq Nat
  /\ Days \subseteq Nat /\ MaxTxns \in Nat

VARIABLES
  amount,  \* the text of an amount
  txns     \* staged transactions

vars == <<amount, txns>>

NoAmount == [missing |-> TRUE, currency |-> "none", hidden |-> FALSE,
             junk |-> "none", seps |-> <<>>, groups |-> <<0>>]

Init == amount = NoAmount /\ txns = {}

(* The parser gets the text of a row.                                      *)
ReadAmount ==
  /\ amount = NoAmount /\ txns = {}
  /\ amount' \in Texts(Lengths, Separators)
  /\ UNCHANGED txns

(* A transaction is staged.                                                *)
StageTxn ==
  /\ amount = NoAmount
  /\ Cardinality(txns) < MaxTxns
  /\ \E x \in Txns(Ids, Users, Days) : txns' = txns \union {x}
  /\ UNCHANGED amount

Next == ReadAmount \/ StageTxn

Spec == Init /\ [][Next]_vars

-----------------------------------------------------------------------------
(* Properties                                                              *)

(* The parser never guesses: when it gives a value, every convention that  *)
(* could have written the text means that value.                           *)
NeverGuesses ==
  HasValue(ParseAmount(amount)) =>
    \A c \in Conventions, k \in 0..LastGroup(amount) :
      Writes(c, amount, k) => k = ParseAmount(amount).scale

(* What some convention writes is parsed or called ambiguous, never        *)
(* rejected as invalid.                                                    *)
NeverInvalid ==
  (\E c \in Conventions, k \in 0..LastGroup(amount) : Writes(c, amount, k)) =>
    ParseAmount(amount).format # "INVALID"

(* The velocity features the daily job computes from its lookback are      *)
(* those the backfill computes from all of staging.                        *)
LookbackSuffices ==
  \A d \in Days : \A x \in txns :
    x.day = d => /\ x \in DOMAIN DailyFeatures(txns, d)
                 /\ DailyFeatures(txns, d)[x] = FullFeatures(txns)[x]

================================================================================
