---------------------------- MODULE MCWriteQueue ----------------------------
(* A small instance: three callers, one nested, one that fails by itself. *)
EXTENDS WriteQueue
=============================================================================
