--------------------------- MODULE MCCaptureAgent ---------------------------
(* A small instance: two tills, two receipts, a channel of one job. *)
EXTENDS CaptureAgent
=============================================================================
