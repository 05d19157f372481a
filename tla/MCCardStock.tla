---------------------------- MODULE MCCardStock -----------------------------
(* Small instances of CardStock for TLC. *)
EXTENDS CardStock, TLC

AnyDesk == Permutations(Desks) \cup Permutations(Customers)
=============================================================================
