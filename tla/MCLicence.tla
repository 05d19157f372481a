------------------------------ MODULE MCLicence ------------------------------
(* Small instances of Licence for TLC. *)
EXTENDS Licence

CONSTANTS trial, forever, phone

PayloadOf == [c \in Codes |->
    IF c = trial THEN [kind |-> "trial", iat |-> 2, exp |-> 3]
    ELSE [kind |-> "perpetual", iat |-> 2, exp |-> None]]
UntilOf == [u \in Unlocks |-> 3]
=============================================================================
