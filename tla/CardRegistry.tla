---------------------------- MODULE CardRegistry ----------------------------
(***************************************************************************)
(* What a scanner relies on and the card service promises: a card, once    *)
(* handed to a customer, never opens anybody else's account, and however   *)
(* cards are lost, found and swapped a customer never has two that work.   *)
(* CardStock implements this specification.                                *)
(***************************************************************************)
CONSTANTS Cards, Customers, None

VARIABLES
    holder,    \* holder[c]: the customer card c was handed to, or None
    working    \* working[k]: the cards that open k's account: none, or one

registryVars == <<holder, working>>

Init ==
    /\ holder = [c \in Cards |-> None]
    /\ working = [k \in Customers |-> {}]

\* k is handed c, in place of whatever worked before.
Hand(k, c) ==
    /\ holder[c] = None
    /\ holder' = [holder EXCEPT ![c] = k]
    /\ working' = [working EXCEPT ![k] = {c}]

Suspend(k) ==
    /\ working' = [working EXCEPT ![k] = {}]
    /\ UNCHANGED holder

\* A card k already holds works again, unless another does.
Resume(k, c) ==
    /\ holder[c] = k
    /\ working[k] = {}
    /\ working' = [working EXCEPT ![k] = {c}]
    /\ UNCHANGED holder

Next ==
    \E k \in Customers :
        \/ Suspend(k)
        \/ \E c \in Cards : Hand(k, c) \/ Resume(k, c)

Spec == Init /\ [][Next]_registryVars
=============================================================================
