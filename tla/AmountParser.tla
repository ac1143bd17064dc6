------------------------------ MODULE AmountParser ------------------------------
(***************************************************************************)
(* parse_amount of amount_parser.py: which of the conventions for writing  *)
(* amounts a text follows.  The digits of the amount are those of the text *)
(* in any case; what the parser decides is how many of them are the        *)
(* fraction, the scale.                                                    *)
(***************************************************************************)
EXTENDS Naturals, Sequences

(* A text is a sequence of groups of digits with separators between them.  *)
(* groups are the lengths of the groups; other characters stand before     *)
(* the first or behind the last group, or not at all (junk).  A currency   *)
(* sign is hidden when a minus or a parenthesis stands before it.          *)
Texts(lengths, separators) ==
  UNION {[missing  : BOOLEAN,
          currency : {"none", "VND", "other"},
          hidden   : BOOLEAN,
          junk     : {"none", "head", "tail"},
          seps     : [1..n -> {"dot", "comma"}],
          groups   : [1..(n + 1) -> lengths]] : n \in separators}

Text == Texts(Nat, Nat)

Dots(t)   == {i \in DOMAIN t.seps : t.seps[i] = "dot"}
Commas(t) == {i \in DOMAIN t.seps : t.seps[i] = "comma"}
Several(positions) == \E i, j \in positions : i # j

LastGroup(t) == t.groups[Len(t.groups)]

(* The currency, unless "^" in its pattern fails.                          *)
Currency(t) == IF t.hidden THEN "none" ELSE t.currency

(* float() accepts what is left of the text.  It also takes an exponent,   *)
(* an underscore, a second sign, nan and inf, which no convention writes   *)
(* and which count as junk here.                                           *)
IsNumber(t) ==
  /\ \E i \in DOMAIN t.groups : t.groups[i] > 0
  /\ t.junk = "none"
  /\ t.hidden => t.currency = "none"

Invalid   == [format |-> "INVALID", scale |-> 0]
Ambiguous == [format |-> "AMBIGUOUS", scale |-> 0]

Number(t, format, scale) ==
  IF IsNumber(t) THEN [format |-> format, scale |-> scale] ELSE Invalid

(* Mutant: the counts of dots and commas are swapped.                      *)
MutantParseBoth(t) ==
  IF t.seps[Len(t.seps)] = "dot"
  THEN IF Several(Commas(t)) THEN Invalid ELSE Number(t, "US", LastGroup(t))
  ELSE IF Several(Dots(t)) THEN Invalid ELSE Number(t, "EU", LastGroup(t))

(* Dots and commas: the last one is the decimal separator, and float()     *)
(* fails if it occurs twice.                                               *)
ParseBoth(t) ==
  IF t.seps[Len(t.seps)] = "dot"
  THEN IF Several(Dots(t)) THEN Invalid ELSE Number(t, "US", LastGroup(t))
  ELSE IF Several(Commas(t)) THEN Invalid ELSE Number(t, "EU", LastGroup(t))

(* decimal_len counts whatever characters follow the separator.            *)
DecimalLength(t) == LastGroup(t) + (IF t.junk = "tail" THEN 1 ELSE 0)

(* Mutant: the three-digit rule is applied to dots only.                   *)
MutantParseSingle(t) ==
  IF DecimalLength(t) = 3 /\ t.seps[1] = "dot"
  THEN IF Currency(t) = "VND" /\ IsNumber(t) THEN Number(t, "VN", 0)
                                             ELSE Ambiguous
  ELSE Number(t, IF t.seps[1] = "dot" THEN "CLEAN" ELSE "EU", LastGroup(t))

(* One separator: with three digits behind it, it may be of either kind.   *)
ParseSingle(t) ==
  IF DecimalLength(t) = 3
  THEN IF Currency(t) = "VND" /\ IsNumber(t) THEN Number(t, "VN", 0)
                                             ELSE Ambiguous
  ELSE Number(t, IF t.seps[1] = "dot" THEN "CLEAN" ELSE "EU", LastGroup(t))

ParseAmount(t) ==
  IF t.missing THEN Invalid
  ELSE IF Len(t.seps) = 0 THEN Number(t, "CLEAN", 0)
  ELSE IF Dots(t) # {} /\ Commas(t) # {} THEN ParseBoth(t)
  ELSE IF Several(Dots(t)) THEN Number(t, "VN", 0)
  ELSE IF Several(Commas(t)) THEN Number(t, "US", 0)
  ELSE ParseSingle(t)

(* amount is not NULL.                                                     *)
HasValue(result) == result.format \notin {"INVALID", "AMBIGUOUS"}

-----------------------------------------------------------------------------
(* The reference: how amounts are written.                                 *)

(* The conventions of the enumeration AmountFormat: US, EU, CLEAN and the  *)
(* two of VN, which knows no fractions; how thousands are grouped and what *)
(* comes before the fraction.                                              *)
Conventions ==
  {[thousands |-> "comma", decimal |-> "dot"],
   [thousands |-> "dot",   decimal |-> "comma"],
   [thousands |-> "none",  decimal |-> "dot"],
   [thousands |-> "dot",   decimal |-> "none"],
   [thousands |-> "comma", decimal |-> "none"]}

(* The first n separators of t group thousands.                            *)
Grouped(c, t, n) ==
  /\ \A i \in 1..n : t.seps[i] = c.thousands
  /\ t.groups[1] > 0
  /\ n > 0 => t.groups[1] <= 3
  /\ \A i \in 2..(n + 1) : t.groups[i] = 3

(* t is an amount with a fraction of k digits written by convention c.     *)
Writes(c, t, k) ==
  /\ ~t.missing /\ t.junk = "none" /\ ~t.hidden
  /\ \/ k = 0 /\ Grouped(c, t, Len(t.seps))
     \/ /\ t.currency # "VND"
        /\ Len(t.seps) > 0 /\ t.seps[Len(t.seps)] = c.decimal
        /\ k > 0 /\ k = LastGroup(t)
        /\ Grouped(c, t, Len(t.seps) - 1)

================================================================================
