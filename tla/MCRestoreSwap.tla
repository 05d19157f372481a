---------------------------- MODULE MCRestoreSwap ----------------------------
(* Small instances of RestoreSwap for TLC. *)
EXTENDS RestoreSwap
=============================================================================
