----------------------------- MODULE MCSaleDesk -----------------------------
(* Small instances of SaleDesk for TLC. *)
EXTENDS SaleDesk, TLC

CONSTANTS c1, c2, k1, k2, low, high

TwoInvoices == {1, 2}
OneInvoice == {1}

HolderOf == [c \in Cards |-> IF c = c1 THEN k1 ELSE k2]

\* The low ladder rewards the second invoice only, the high one both.
EarnedOf == [l \in Ladders |-> [i \in Invoices |-> IF l = high THEN i ELSE i - 1]]

Ask(c, i, m) == [card |-> c, invoice |-> i, mode |-> m]

AnyRequest == {Ask(c, i, m) : c \in Cards, i \in Invoices \cup {None}, m \in {"live", "replay"}}
NamedRequest == {a \in AnyRequest : a.invoice # None}

AnyScan == Permutations(Scans) \cup Permutations(Sends)
=============================================================================
