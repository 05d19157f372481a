\* Two stations scan while two invoices arrive, age and are re-priced.
CONSTANTS
    c1 = c1
    c2 = c2
    k1 = k1
    k2 = k2
    low = low
    high = high
    Cards = {c1, c2}
    Customers = {k1, k2}
    Holder <- HolderOf
    Ladders = {low, high}
    Earned <- EarnedOf
    Invoices <- TwoInvoices
    Scans = {r1, r2}
    Sends = {s1, s2}
    Cashiers = {}
    Requested <- AnyRequest
    Pass = Pass
    None = None
    Env = {"rules", "clock"}
    MaxFaults = 0
SYMMETRY AnyScan
SPECIFICATION Spec
INVARIANTS BooksBalance OneWinner AnswersMatchLedger CreatedOnce
PROPERTY LedgerKept
