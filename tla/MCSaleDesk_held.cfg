\* Sales refused by a lapsed licence, held, applied across a crash or a failed
\* statement, and settled once the licence stays active, while two cashiers
\* settle or void the slips.
CONSTANTS
    c1 = c1
    c2 = c2
    k1 = k1
    k2 = k2
    low = low
    high = high
    Cards = {c1, c2}
    Customers = {k1, k2}
    Holder <- HolderOf
    Ladders = {high}
    Earned <- EarnedOf
    Invoices <- OneInvoice
    Scans = {r1, r2}
    Sends = {s1}
    Cashiers = {t1, t2}
    Requested <- NamedRequest
    Pass = Pass
    None = None
    Env = {"licence", "cards"}
    MaxFaults = 1
SPECIFICATION FairSpec
INVARIANTS HeldIsOnFile SettlementIsTrue NothingTwice
PROPERTY HeldSalesAreSettled
