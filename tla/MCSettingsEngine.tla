------------------------- MODULE MCSettingsEngine -------------------------
(* A small instance: one setting, a build that narrows it, one without it. *)
EXTENDS SettingsEngine, TLC

CONSTANT fade

Anywhere == [scopes |-> Layers, values |-> {1, 2}, default |-> 1]
Narrowed == [scopes |-> {"MERCHANT"}, values |-> {1}, default |-> 1]

Builds == {[k \in {fade} |-> Anywhere], [k \in {fade} |-> Narrowed], [k \in {} |-> Anywhere]}
AnyManager == Permutations(Editors)
===========================================================================
