\* The nightly run and a manager's, with two mishaps between them.
SPECIFICATION Spec
CONSTANTS
    Scheduler = Scheduler
    Managers = {m1}
    Keys = {k1, k2}
    None = None
    Keep = 1
    EverySales = 1
    UsbDir = FALSE
    MaxWrites = 1
    MaxFaults = 2
    MaxClock = 1
INVARIANTS Inv CopiesServe
PROPERTY SlotIsCovered
