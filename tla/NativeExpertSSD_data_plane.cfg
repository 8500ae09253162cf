CONSTANTS
    NTarget = 2
    Experts = {e1, e2, e3}
    Slots = {s1, s2}
    NoSlot = NoSlot
    Garbage = Garbage
    Unread = Unread
    TopK = 2
    Workers = 2
    MaxPasses = 3

SPECIFICATION FairSpec

INVARIANT TypeOK
INVARIANT ServedIsRouted
INVARIANT KernelRowsIntact
INVARIANT PolicyAgreesWithMap
INVARIANT ResidentsHoldTheirBytes
INVARIANT ExactAccounting
 
PROPERTY ImplementsService
PROPERTY MainRests

\* a closed runtime takes no further step
CHECK_DEADLOCK FALSE
