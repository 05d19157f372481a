\* Two operators, a batch of two blanks and a thermal card, two customers.
CONSTANTS
    MaxSerial = 2
    Thermal = {p1}
    Customers = {k1, k2}
    Desks = {d1, d2}
    Quantities = {1, 2}
    None = None
SYMMETRY AnyDesk
SPECIFICATION Spec
INVARIANTS NobodyIsStranded DeadCardsLeadHome
PROPERTIES RetiredBatchIsDead RegistryKept
