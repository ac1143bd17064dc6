----------------------------- MODULE RowRules_proofs -----------------------------
(***************************************************************************)
(* The rules of RowRules hold for every text and every set of transactions.*)
(***************************************************************************)
EXTENDS RowRules, TLAPS

-----------------------------------------------------------------------------
(* Windows of features                                                     *)

(* A day that lies before the lookback ends before the windows begin.      *)
LEMMA DaysBefore ==
  ASSUME NEW D \in Nat \ {0}, NEW a \in Nat, NEW b \in Nat, NEW L \in Nat,
         b + L < a
  PROVE  b * D + D <= a * D - L * D
<1>1. b + L + 1 <= a
  OBVIOUS
<1>2. (b + L + 1) * D <= a * D
  BY <1>1, Z3
<1>3. (b + L + 1) * D = b * D + L * D + D
  BY Z3
<1> QED
  BY <1>2, <1>3, Z3

LEMMA SpansWithinLookback ==
  ASSUME NEW span \in Spans
  PROVE  span \in Nat /\ span <= LookbackDays * DayLength
<1> USE WindowsAssumption DEF Spans
<1>1. WeekDays * DayLength \in Nat /\ LookbackDays * DayLength \in Nat
  BY Z3
<1>2. WeekDays * DayLength <= LookbackDays * DayLength
  BY Z3
<1>3. DayLength <= WeekDays * DayLength
  BY Z3
<1> QED
  BY <1>1, <1>2, <1>3

(* A window of a transaction of day d lies within the lookback of d.       *)
LEMMA WindowWithinLookback ==
  ASSUME NEW rows, NEW ids, NEW users, NEW days \in SUBSET Nat,
         rows \subseteq Txns(ids, users, days),
         NEW x \in rows, NEW span \in Spans
  PROVE  Window(Lookback(rows, x.day), x, span) = Window(rows, x, span)
<1>1. span \in Nat /\ span <= LookbackDays * DayLength
  BY SpansWithinLookback
<1>2. x.day \in Nat /\ x.sec \in 0..(DayLength - 1) /\ DayLength \in Nat \ {0}
      /\ LookbackDays \in Nat
  BY WindowsAssumption DEF Txns
<1>3. ASSUME NEW y \in rows, y \in Window(rows, x, span)
      PROVE  y \in Lookback(rows, x.day)
  <2>1. y.day \in Nat /\ y.sec \in 0..(DayLength - 1)
    BY DEF Txns
  <2>2. /\ x.day * DayLength + x.sec <= y.day * DayLength + y.sec + span
        /\ y.day * DayLength + y.sec <= x.day * DayLength + x.sec
    BY <1>3 DEF Window, Ts
  <2>3. /\ x.day * DayLength \in Nat /\ y.day * DayLength \in Nat
        /\ LookbackDays * DayLength \in Nat
    BY <1>2, <2>1, Z3
  <2>4. x.day <= y.day + LookbackDays
    <3>1. SUFFICES ASSUME y.day + LookbackDays < x.day PROVE FALSE
      BY <1>2, <2>1
    <3>2. y.day * DayLength + DayLength
            <= x.day * DayLength - LookbackDays * DayLength
      BY <1>2, <2>1, <3>1, DaysBefore
    <3> QED
      BY <1>1, <1>2, <2>1, <2>2, <2>3, <3>2
  <2>5. y.day <= x.day
    <3>1. SUFFICES ASSUME x.day < y.day PROVE FALSE
      BY <1>2, <2>1
    <3>2. x.day * DayLength + DayLength
            <= y.day * DayLength - 0 * DayLength
      BY <1>2, <2>1, <3>1, DaysBefore
    <3>3. 0 * DayLength = 0
      BY <1>2
    <3> QED
      BY <1>2, <2>1, <2>2, <2>3, <3>2, <3>3
  <2> QED
    BY <2>4, <2>5 DEF Lookback
<1> QED
  BY <1>3 DEF Window, Lookback

(* The daily job computes the features the backfill computes.              *)
LEMMA DailyEqualsFull ==
  ASSUME NEW rows, NEW ids, NEW users, NEW days \in SUBSET Nat,
         rows \subseteq Txns(ids, users, days), NEW x \in rows
  PROVE  /\ x \in DOMAIN DailyFeatures(rows, x.day)
         /\ DailyFeatures(rows, x.day)[x] = FullFeatures(rows)[x]
<1>1. x.day \in Nat /\ LookbackDays \in Nat
  BY WindowsAssumption DEF Txns
<1>2. x \in {y \in Lookback(rows, x.day) : y.day = x.day}
  BY <1>1 DEF Lookback
<1>3. DailyFeatures(rows, x.day)[x] = Features(Lookback(rows, x.day), x)
  BY <1>2 DEF DailyFeatures
<1>4. FullFeatures(rows)[x] = Features(rows, x)
  BY DEF FullFeatures
<1>5. \A span \in Spans :
        Window(Lookback(rows, x.day), x, span) = Window(rows, x, span)
  BY WindowWithinLookback
<1>6. Features(Lookback(rows, x.day), x) = Features(rows, x)
  BY <1>5 DEF Features, Spans
<1> QED
  BY <1>2, <1>3, <1>4, <1>6 DEF DailyFeatures

(* Windows never reach behind the lookback, for any lengths of day and    *)
(* hour and any transactions: the first day that is read is early enough.  *)
THEOREM LookbackSufficesHolds == Spec => []LookbackSuffices
<1> DEFINE Staged == txns \subseteq Txns(Ids, Users, Days)
<1>1. Init => Staged
  BY DEF Init
<1>2. Staged /\ [Next]_vars => Staged'
  BY DEF Next, ReadAmount, StageTxn, vars
<1>3. Staged => LookbackSuffices
  <2>1. SUFFICES ASSUME Staged, NEW d \in Days, NEW x \in txns, x.day = d
                 PROVE  /\ x \in DOMAIN DailyFeatures(txns, d)
                        /\ DailyFeatures(txns, d)[x] = FullFeatures(txns)[x]
    BY DEF LookbackSuffices
  <2>2. Days \in SUBSET Nat
    BY InputsAssumption
  <2> QED
    BY <2>1, <2>2, DailyEqualsFull
<1> QED
  BY <1>1, <1>2, <1>3, PTL DEF Spec

-----------------------------------------------------------------------------
(* Amounts                                                                 *)

(* What the parser can be given.                                           *)
Given == amount = NoAmount \/ amount \in Texts(Lengths, Separators)

LEMMA GivenHolds == Spec => []Given
<1>1. Init => Given
  BY DEF Init, Given
<1>2. Given /\ [Next]_vars => Given'
  BY DEF Next, ReadAmount, StageTxn, vars, Given
<1> QED
  BY <1>1, <1>2, PTL DEF Spec

LEMMA LengthOf ==
  ASSUME NEW S, NEW n \in Nat, NEW f \in [1..n -> S]
  PROVE  f \in Seq(S) /\ Len(f) = n
OBVIOUS

(* What is used of a text: one group of digits more than separators.       *)
Shaped(t) ==
  /\ Len(t.seps) \in Nat
  /\ t.seps \in [1..Len(t.seps) -> {"dot", "comma"}]
  /\ Len(t.groups) = Len(t.seps) + 1
  /\ t.groups \in [1..(Len(t.seps) + 1) -> Nat]

LEMMA TextsShaped ==
  ASSUME NEW t \in Texts(Lengths, Separators)
  PROVE  Shaped(t)
<1>1. PICK n \in Separators :
        t \in [missing : BOOLEAN, currency : {"none", "VND", "other"},
               hidden : BOOLEAN, junk : {"none", "head", "tail"},
               seps : [1..n -> {"dot", "comma"}], groups : [1..(n + 1) -> Lengths]]
  BY DEF Texts
<1>2. n \in Nat
  BY InputsAssumption
<1>3. /\ t.seps \in [1..n -> {"dot", "comma"}]
      /\ t.groups \in [1..(n + 1) -> Nat]
  BY <1>1, InputsAssumption
<1>4. Len(t.seps) = n
  BY <1>2, <1>3, LengthOf
<1>5. n + 1 \in Nat
  BY <1>2
<1>6. Len(t.groups) = n + 1
  BY <1>5, <1>3, LengthOf
<1> QED
  BY <1>2, <1>3, <1>4, <1>6 DEF Shaped

LEMMA KindsDiffer ==
  ASSUME NEW c \in Conventions
  PROVE  c.thousands # c.decimal
BY DEF Conventions

(* What is written by a convention is a number.                            *)
LEMMA WrittenIsNumber ==
  ASSUME NEW t, Shaped(t), NEW c, NEW k, Writes(c, t, k)
  PROVE  IsNumber(t) /\ ~t.missing /\ ~t.hidden /\ t.junk = "none"
<1>1. t.groups[1] > 0
  BY DEF Writes, Grouped
<1>2. 1 \in DOMAIN t.groups
  BY DEF Shaped
<1> QED
  BY <1>1, <1>2 DEF Writes, IsNumber

(* With dots and commas the last separator, which occurs once, is decimal. *)
LEMMA BothKinds ==
  ASSUME NEW t, Shaped(t), NEW c \in Conventions, NEW k, Writes(c, t, k),
         Dots(t) # {}, Commas(t) # {}
  PROVE  /\ k = LastGroup(t)
         /\ t.seps[Len(t.seps)] = "dot" => ~Several(Dots(t))
         /\ t.seps[Len(t.seps)] # "dot" => ~Several(Commas(t))
<1>1. PICK i \in 1..Len(t.seps), j \in 1..Len(t.seps) :
        t.seps[i] = "dot" /\ t.seps[j] = "comma"
  BY DEF Shaped, Dots, Commas
<1>2. ~Grouped(c, t, Len(t.seps))
  BY <1>1 DEF Grouped
<1>3. /\ k = LastGroup(t)
      /\ t.seps[Len(t.seps)] = c.decimal
      /\ \A m \in 1..(Len(t.seps) - 1) : t.seps[m] = c.thousands
  BY <1>2 DEF Writes, Grouped
<1>4. \A m \in 1..Len(t.seps) :
        t.seps[m] = t.seps[Len(t.seps)] => m = Len(t.seps)
  BY <1>3, KindsDiffer DEF Shaped
<1>5. ASSUME t.seps[Len(t.seps)] = "dot" PROVE ~Several(Dots(t))
  BY <1>4, <1>5 DEF Several, Dots, Shaped
<1>6. ASSUME t.seps[Len(t.seps)] # "dot" PROVE ~Several(Commas(t))
  <2>1. t.seps[Len(t.seps)] = "comma"
    BY <1>1, <1>6 DEF Shaped
  <2> QED
    BY <1>4, <2>1 DEF Several, Commas, Shaped
<1> QED
  BY <1>3, <1>5, <1>6

(* Separators of one kind that repeat group thousands.                     *)
LEMMA RepeatedKind ==
  ASSUME NEW t, Shaped(t), NEW c \in Conventions, NEW k, Writes(c, t, k),
         NEW i \in 1..Len(t.seps), NEW j \in 1..Len(t.seps), i # j,
         \A m \in 1..Len(t.seps) : t.seps[m] = t.seps[i]
  PROVE  k = 0
<1>1. SUFFICES ASSUME k # 0 PROVE FALSE
  OBVIOUS
<1>2. /\ t.seps[Len(t.seps)] = c.decimal
      /\ \A m \in 1..(Len(t.seps) - 1) : t.seps[m] = c.thousands
  BY <1>1 DEF Writes, Grouped
<1>3. Len(t.seps) > 1
  BY DEF Shaped
<1>4. 1 \in 1..(Len(t.seps) - 1) /\ 1 \in 1..Len(t.seps)
      /\ Len(t.seps) \in 1..Len(t.seps)
  BY <1>3 DEF Shaped
<1> QED
  BY <1>2, <1>4, KindsDiffer

(* One separator: three digits behind it are thousands, unless they are a  *)
(* fraction of an amount that is not in VND.                               *)
LEMMA SingleSeparator ==
  ASSUME NEW t, Shaped(t), NEW c \in Conventions, NEW k, Writes(c, t, k),
         Len(t.seps) = 1
  PROVE  /\ LastGroup(t) # 3 => k = LastGroup(t)
         /\ t.currency = "VND" => k = 0
<1>1. LastGroup(t) = t.groups[2]
  BY DEF LastGroup, Shaped
<1>2. Grouped(c, t, 1) => t.groups[2] = 3
  BY DEF Grouped
<1> QED
  BY <1>1, <1>2 DEF Writes

(* How ParseAmount branches.                                               *)
LEMMA Branches ==
  ASSUME NEW t, Shaped(t), ~t.missing
  PROVE  \/ Len(t.seps) = 0 /\ ParseAmount(t) = Number(t, "CLEAN", 0)
         \/ /\ Dots(t) # {} /\ Commas(t) # {}
            /\ ParseAmount(t) = ParseBoth(t)
         \/ /\ \E i, j \in 1..Len(t.seps) :
                 i # j /\ \A m \in 1..Len(t.seps) : t.seps[m] = t.seps[i]
            /\ \/ ParseAmount(t) = Number(t, "VN", 0)
               \/ ParseAmount(t) = Number(t, "US", 0)
         \/ Len(t.seps) = 1 /\ ParseAmount(t) = ParseSingle(t)
<1>0. /\ DOMAIN t.seps = 1..Len(t.seps) /\ Len(t.seps) \in Nat
      /\ \A m \in 1..Len(t.seps) : t.seps[m] = "dot" \/ t.seps[m] = "comma"
  BY DEF Shaped
<1>1. CASE Len(t.seps) = 0
  <2>1. Dots(t) = {} /\ Commas(t) = {}
    BY <1>0, <1>1 DEF Dots, Commas
  <2> QED
    BY <1>1, <2>1 DEF ParseAmount, Several
<1>2. CASE Len(t.seps) # 0 /\ Dots(t) # {} /\ Commas(t) # {}
  BY <1>2 DEF ParseAmount
<1>3. CASE Len(t.seps) # 0 /\ Commas(t) = {}
  <2>1. \A m \in 1..Len(t.seps) : t.seps[m] = "dot"
    BY <1>0, <1>3 DEF Commas
  <2>2. Dots(t) = 1..Len(t.seps)
    BY <1>0, <2>1 DEF Dots
  <2>3. CASE Several(Dots(t))
    <3>1. ParseAmount(t) = Number(t, "VN", 0)
      BY <1>3, <2>3 DEF ParseAmount, Several
    <3> QED
      BY <2>1, <2>2, <2>3, <3>1 DEF Several
  <2>4. CASE ~Several(Dots(t))
    <3>1. Len(t.seps) = 1
      <4>1. 1 \in 1..Len(t.seps) /\ Len(t.seps) \in 1..Len(t.seps)
        BY <1>0, <1>3
      <4> QED
        BY <2>2, <2>4, <4>1 DEF Several
    <3>2. ParseAmount(t) = ParseSingle(t)
      BY <1>3, <2>4 DEF ParseAmount, Several
    <3> QED
      BY <3>1, <3>2
  <2> QED
    BY <2>3, <2>4
<1>4. CASE Len(t.seps) # 0 /\ Dots(t) = {}
  <2>1. \A m \in 1..Len(t.seps) : t.seps[m] = "comma"
    BY <1>0, <1>4 DEF Dots
  <2>2. Commas(t) = 1..Len(t.seps)
    BY <1>0, <2>1 DEF Commas
  <2>3. CASE Several(Commas(t))
    <3>1. ParseAmount(t) = Number(t, "US", 0)
      BY <1>4, <2>3 DEF ParseAmount, Several
    <3> QED
      BY <2>1, <2>2, <2>3, <3>1 DEF Several
  <2>4. CASE ~Several(Commas(t))
    <3>1. Len(t.seps) = 1
      <4>1. 1 \in 1..Len(t.seps) /\ Len(t.seps) \in 1..Len(t.seps)
        BY <1>0, <1>4
      <4> QED
        BY <2>2, <2>4, <4>1 DEF Several
    <3>2. ParseAmount(t) = ParseSingle(t)
      BY <1>4, <2>4 DEF ParseAmount, Several
    <3> QED
      BY <3>1, <3>2
  <2> QED
    BY <2>3, <2>4
<1> QED
  BY <1>1, <1>2, <1>3, <1>4

(* Whatever the text, the parsed fraction is that of every convention that *)
(* could have written it, and such a text is not called invalid.           *)
LEMMA ParsedAsWritten ==
  ASSUME NEW t, Shaped(t), NEW c \in Conventions, NEW k, Writes(c, t, k)
  PROVE  /\ HasValue(ParseAmount(t)) => k = ParseAmount(t).scale
         /\ ParseAmount(t).format # "INVALID"
<1>1. IsNumber(t) /\ ~t.missing /\ ~t.hidden /\ t.junk = "none"
  BY WrittenIsNumber
<1>2. \A f, n : Number(t, f, n) = [format |-> f, scale |-> n]
  BY <1>1 DEF Number
<1>3. CASE Len(t.seps) = 0 /\ ParseAmount(t) = Number(t, "CLEAN", 0)
  BY <1>2, <1>3 DEF Writes
<1>4. CASE /\ Dots(t) # {} /\ Commas(t) # {}
           /\ ParseAmount(t) = ParseBoth(t)
  BY <1>2, <1>4, BothKinds DEF ParseBoth
<1>5. CASE /\ \E i, j \in 1..Len(t.seps) :
                i # j /\ \A m \in 1..Len(t.seps) : t.seps[m] = t.seps[i]
           /\ \/ ParseAmount(t) = Number(t, "VN", 0)
              \/ ParseAmount(t) = Number(t, "US", 0)
  <2>1. k = 0
    BY <1>5, RepeatedKind
  <2> QED
    BY <1>2, <1>5, <2>1
<1>6. CASE Len(t.seps) = 1 /\ ParseAmount(t) = ParseSingle(t)
  <2>1. LastGroup(t) \in Nat
    <3>1. t.groups \in [1..2 -> Nat] /\ Len(t.groups) = 2
      BY <1>6 DEF Shaped
    <3> QED
      BY <3>1 DEF LastGroup
  <2>2. DecimalLength(t) = LastGroup(t)
    BY <1>1, <2>1 DEF DecimalLength
  <2>3. Currency(t) = t.currency
    BY <1>1 DEF Currency
  <2>4. CASE LastGroup(t) = 3 /\ t.currency = "VND"
    <3>1. ParseAmount(t) = [format |-> "VN", scale |-> 0]
      BY <1>1, <1>2, <1>6, <2>2, <2>3, <2>4 DEF ParseSingle
    <3> QED
      BY <1>6, <2>4, <3>1, SingleSeparator
  <2>5. CASE LastGroup(t) = 3 /\ t.currency # "VND"
    <3>1. ParseAmount(t) = Ambiguous
      BY <1>6, <2>2, <2>3, <2>5 DEF ParseSingle
    <3> QED
      BY <3>1 DEF Ambiguous, HasValue
  <2>6. CASE LastGroup(t) # 3
    <3>1. \E f \in {"CLEAN", "EU"} :
            ParseAmount(t) = [format |-> f, scale |-> LastGroup(t)]
      BY <1>2, <1>6, <2>2, <2>6 DEF ParseSingle
    <3> QED
      BY <1>6, <2>6, <3>1, SingleSeparator
  <2> QED
    BY <2>4, <2>5, <2>6
<1> QED
  BY <1>1, <1>3, <1>4, <1>5, <1>6, Branches

LEMMA GivenShaped == Given => Shaped(amount)
<1>1. Shaped(NoAmount)
  <2>1. /\ NoAmount.seps = <<>> /\ NoAmount.groups = <<0>>
    BY DEF NoAmount
  <2> QED
    BY <2>1 DEF Shaped
<1> QED
  BY <1>1, TextsShaped DEF Given

(* No text makes the parser guess, whatever the numbers and lengths of its *)
(* groups.                                                                 *)
THEOREM NeverGuessesHolds == Spec => []NeverGuesses
<1>1. Given => NeverGuesses
  BY GivenShaped, ParsedAsWritten DEF NeverGuesses
<1> QED
  BY <1>1, GivenHolds, PTL

(* No well-written amount is rejected, whatever its length.                *)
THEOREM NeverInvalidHolds == Spec => []NeverInvalid
<1>1. Given => NeverInvalid
  BY GivenShaped, ParsedAsWritten DEF NeverInvalid
<1> QED
  BY <1>1, GivenHolds, PTL

================================================================================
