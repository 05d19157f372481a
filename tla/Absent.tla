------------------------------- MODULE Absent -------------------------------
(***************************************************************************)
(* The value for what is not there: a NULL column, a missing file, a       *)
(* manager with no request under way.                                      *)
(***************************************************************************)
CONSTANT None
=============================================================================
