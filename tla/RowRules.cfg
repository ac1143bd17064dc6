\* Small texts and small sets of transactions.
SPECIFICATION Spec
CONSTANTS
  Lengths = {0, 1, 3, 4}
  Separators = {0, 1, 2, 3}
  DayLength = 3
  Hour = 1
  WeekDays = 2
  LookbackDays = 2
  Ids = {a, b}
  Users = {u, v}
  Days = {0, 1, 2, 3}
  MaxTxns = 3
INVARIANTS
  NeverGuesses
  NeverInvalid
  LookbackSuffices
CHECK_DEADLOCK FALSE
