------------------------------ MODULE UserHistory ------------------------------
(***************************************************************************)
(* What a history of users promises to the readers of build_dim_users.py,  *)
(* who ask for the attributes a user had at a time ("valid_from <=         *)
(* target_date < valid_to"): at most one answer, the answer of a build     *)
(* holds from that build on until a build sees the user changed, the past  *)
(* of a user who did not change is kept, and an answer about the past is   *)
(* never a different one later, though it may be lost.                     *)
(***************************************************************************)
EXTENDS Naturals

CONSTANTS
  Users,   \* users with an id
  Values,  \* attributes of a user that are tracked
  LastTime \* bound: the last time a reader asks about

Times == 0..LastTime

VARIABLES
  asOf,  \* the answers about a user at a time
  clock  \* the time of the latest build

vars == <<asOf, clock>>

NoAnswers == [u \in Users |-> [t \in Times |-> {}]]

Init == asOf = NoAnswers /\ clock = 0

(* A build starts.                                                         *)
Tick == clock < LastTime /\ clock' = clock + 1 /\ UNCHANGED asOf

(* What a build that saw value v of user u may leave of the answers.       *)
Recorded(u, v, answers) ==
  IF asOf[u][clock] = {v}
  THEN answers = asOf[u]
  ELSE \A t \in Times : IF t < clock THEN answers[t] \subseteq asOf[u][t]
                                     ELSE answers[t] = {v}

(* A build records the users of a snapshot; the others stay.               *)
Record ==
  /\ asOf' \in [Users -> [Times -> SUBSET Values]]
  /\ \A u \in Users : \/ asOf'[u] = asOf[u]
                      \/ \E v \in Values : Recorded(u, v, asOf'[u])
  /\ UNCHANGED clock

(* The whole history is lost.                                              *)
Lose == asOf' = NoAnswers /\ UNCHANGED clock

Next == Tick \/ Record \/ Lose

Spec == Init /\ [][Next]_vars

================================================================================
