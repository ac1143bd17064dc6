------------------------- MODULE MCFraudDataPipeline -------------------------
(***************************************************************************)
(* Small instances of FraudDataPipeline for TLC.                           *)
(***************************************************************************)
EXTENDS FraudDataPipeline

(* Loads of clean rows only; loads with and without a NULL id; loads with  *)
(* a valid row of a transaction that another day has as well.              *)
ValidLoads == {{"valid"}}
NullLoads  == {{"valid"}, {"valid", "nullid"}}
TwinLoads  == {{"valid", "twin"}}

=============================================================================
