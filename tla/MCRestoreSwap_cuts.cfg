\* Two restores, the process ended at any two steps of them.
CONSTANTS
    MaxCopies = 2
    MaxFolders = 5
    MaxBoots = 2
    MaxCuts = 2
    Shop = Shop
    Template = Template
    Damaged = Damaged
    None = None
SPECIFICATION FairSpec
INVARIANTS ShopIsKept SwapIsClean PreviousIsKept
PROPERTY ShopReopens
