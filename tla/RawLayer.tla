------------------------------- MODULE RawLayer -------------------------------
(***************************************************************************)
(* What ingestion promises of the raw layer of transactions                *)
(* (ingestion/base_ingester.py, _write: "idempotent overwrite per          *)
(* partition ... with the newest data"): of each day the lake holds a      *)
(* prefix of the loads the source has committed for it, which grows and    *)
(* never shrinks.  With several ingestions at a time this holds of what    *)
(* the lake and every running ingestion still have (see                    *)
(* FraudDataPipeline), not of the partition itself.                        *)
(***************************************************************************)
EXTENDS Naturals, Sequences

CONSTANTS
  Days,     \* event days
  Loads     \* kinds of load

VARIABLES
  source,   \* day -> sequence of loads committed in the source database
  raw       \* day -> number of loads the lake is sure to keep

Init ==
  /\ source = [d \in Days |-> << >>]
  /\ raw = [d \in Days |-> 0]

Load(d, load) ==
  /\ source' = [source EXCEPT ![d] = Append(@, load)]
  /\ UNCHANGED raw

Publish ==
  /\ raw' \in [Days -> Nat]
  /\ \A d \in Days : raw[d] <= raw'[d] /\ raw'[d] <= Len(source[d])
  /\ UNCHANGED source

Next == Publish \/ \E d \in Days, load \in Loads : Load(d, load)

Spec == Init /\ [][Next]_<<source, raw>>
===============================================================================
