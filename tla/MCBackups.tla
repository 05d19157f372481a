----------------------------- MODULE MCBackups ------------------------------
(* A small instance: the scheduler and one manager, three destinations.     *)
EXTENDS Backups
=============================================================================
