-------------------------- MODULE MCStorageMaintenance --------------------------
(***************************************************************************)
(* A small instance of StorageMaintenance for TLC.                         *)
(***************************************************************************)
EXTENDS StorageMaintenance

(* Rows of the first day are rejected, none of the others.                 *)
MCRejected == {1}
================================================================================
