\* Two scans; the network, the page and the licence come and go; one may be malformed.
CONSTANTS
    Sales <- TwoSales
    Scanned <- Kinds
    MaxBatch = 1
    HeldCap = 1
    MaxScans = 2
    MaxFaults = 1
    None = None
SPECIFICATION FairSpec
INVARIANTS KeptUntilAnswered LetGoIsDone
PROPERTIES FreshAreSent SpendIsCredited
