--------------------------- MODULE MCServiceStart ---------------------------
(* A small instance: two versions, and the databases a machine may hold.    *)
EXTENDS ServiceStart

Database(shape, ledger, rows, of, id) ==
    [Template(0) EXCEPT !.shape = shape, !.ledger = ledger, !.rows = rows, !.of = of, !.id = id]

Empties == {Template(1), Database(Odd, 0, {}, "nobody", None), Database(2, 2, {}, "nobody", None)}
Shops == {Database(v, v, Tables, "shop", "template") : v \in 1..2}
Strangers == {Database(v, v, Tables, "stranger", i) : v \in 1..2, i \in {None, "theirs"}}
Foreign == {Database(Odd, 0, {"other"}, "stranger", None)}
Spoilt == {[d EXCEPT !.settled = FALSE] : d \in Shops} \cup {[Bare EXCEPT !.state = "cut"]}

Databases == Empties \cup Shops \cup Strangers \cup Foreign \cup Spoilt
=============================================================================
