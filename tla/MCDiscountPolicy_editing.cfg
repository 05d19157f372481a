CONSTANTS
    Amounts <- SomeAmounts
    Rules <- SomeRules
    Limits <- SomeLimits
    Defaults <- StartLimits
    Managers = {m1, m2}
    Scans = {s1}
    None = None
SPECIFICATION Spec
INVARIANTS GrantIsCapped OneBracket
