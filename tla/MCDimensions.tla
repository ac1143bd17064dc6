------------------------------ MODULE MCDimensions ------------------------------
(***************************************************************************)
(* Small instances of Dimensions for TLC.                                  *)
(***************************************************************************)
EXTENDS Dimensions, TLC

CONSTANTS p1, p2

(* Users keep their cohort.  Cards change partition when they are renewed; *)
(* one load may bring two versions of a card.  Contents of cards, and of   *)
(* users without an id, do not matter.                                     *)
AnyValue == CHOOSE v \in Values : TRUE
UserDrafts == {r \in Draft("users") :
                 r.part = p1 /\ (r.id = NullId => r.value = AnyValue)}
CardDrafts == {r \in Draft("cards") : r.value = AnyValue}

MCLoads == [t \in Tables |->
  IF t = "users" THEN {{r} : r \in UserDrafts}
  ELSE {load \in SUBSET {r \in CardDrafts : r.id # NullId} :
          Cardinality(load) \in 1..2 /\ \A r, s \in load : r.id = s.id}]

(* Users and cards share no state, so TLC follows one of them at a time.   *)
OneTable == \E t \in Tables : source[t] = {} /\ Running(t) = {}

UserSymmetry == Permutations(Users)
================================================================================
