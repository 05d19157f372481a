------------------------------- MODULE Ledger -------------------------------
(***************************************************************************)
(* What the sale desk promises the shop's books, with no request, station, *)
(* licence or queue in sight: a captured invoice is credited to one        *)
(* customer once and for ever, the discount it earned is written with the  *)
(* slip that accounts for it, and that slip is settled at most once.       *)
(* SaleDesk implements this specification.                                 *)
(***************************************************************************)
EXTENDS Naturals

CONSTANTS
    Invoices,   \* the invoices a register may print
    Customers,  \* the registered customers
    None,       \* "no customer": a sale nobody has claimed
    Due         \* Due[i]: the discounts some published ladder gives invoice i

VARIABLES
    captured,   \* the invoices that have a row
    customer,   \* customer[i]: whom the sale is credited to, or None
    discount,   \* discount[i]: what the customer did not pay
    voucher     \* voucher[i]: the slip that accounts for the discount

ledgerVars == <<captured, customer, discount, voucher>>

VoucherStatus == {"NONE", "ISSUED", "REDEEMED", "VOID"}

NoVoucher == [status |-> "NONE", value |-> 0]

Issued(d) == IF d > 0 THEN [status |-> "ISSUED", value |-> d] ELSE NoVoucher

Init ==
    /\ captured = {}
    /\ customer = [i \in Invoices |-> None]
    /\ discount = [i \in Invoices |-> 0]
    /\ voucher = [i \in Invoices |-> NoVoucher]

Capture(i) ==
    /\ i \notin captured
    /\ captured' = captured \cup {i}
    /\ UNCHANGED <<customer, discount, voucher>>

Credit(i, k, d) ==
    /\ i \in captured
    /\ customer[i] = None
    /\ customer' = [customer EXCEPT ![i] = k]
    /\ discount' = [discount EXCEPT ![i] = d]
    /\ voucher' = [voucher EXCEPT ![i] = Issued(d)]
    /\ UNCHANGED captured

Close(i, status) ==
    /\ voucher[i].status = "ISSUED"
    /\ voucher' = [voucher EXCEPT ![i].status = status]
    /\ UNCHANGED <<captured, customer, discount>>

Next ==
    \E i \in Invoices :
        \/ Capture(i)
        \/ \E k \in Customers, d \in Due[i] \cup {0} : Credit(i, k, d)
        \/ \E status \in {"REDEEMED", "VOID"} : Close(i, status)

Spec == Init /\ [][Next]_ledgerVars
=============================================================================
