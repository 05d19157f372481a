\* Three callers, all answered in the end: the system stops there.
SPECIFICATION Spec
CHECK_DEADLOCK FALSE
CONSTANTS
    Callers = {c1, c2, c3}
    Nested = {c1}
    Doomed = {c2}
    MaxAttempts = 2
    MaxTrouble = 4
    None = None
INVARIANT Inv
PROPERTY EverybodyIsAnswered
