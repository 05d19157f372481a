\* Starts, crashes and a visit of support over every database a machine may hold.
SPECIFICATION FairSpec
CONSTANTS
    Latest = 2
    Placed <- Databases
    Limit = 3
    None = None
    MaxFaults = 2
    MaxVisits = 2
INVARIANT Inv
PROPERTIES RecordsAreKept OpensAgain
