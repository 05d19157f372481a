\* A trial, a perpetual licence and an emergency code; clock, module, anchors, database and stored code fail.
CONSTANTS
    Grace = 1
    Tolerance = 1
    Fallback = 2
    IssueLead = 1
    UnlockCover = 2
    None = None
    trial = trial
    forever = forever
    phone = phone
    Codes = {trial, forever}
    Payload <- PayloadOf
    Unlocks = {phone}
    Until <- UntilOf
    Checks = {k1}
    Env = {"clock", "module", "restore", "anchors", "damage"}
    MaxTime = 5
    MaxWrites = 1
    MaxFaults = 1
SPECIFICATION LicenceSpec
INVARIANT LicenceTypeOK
PROPERTIES NoDayIsAdded AllowedIsCovered PaidIsNeverStopped
