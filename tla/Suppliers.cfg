CONSTANTS
    Suppliers = {p1}
    Services = {s1, s2}
    None = None
    Derived = TRUE
    Restakes = FALSE
    RetryRelative = FALSE
    MaxStake = 2
    MaxData = 2
    MaxHeight = 4
    MaxCrashes = 1
SPECIFICATION FairSpec
INVARIANTS SuppliersMatchChain ServicesMatchChain
PROPERTIES BlocksAreIndexed
CHECK_DEADLOCK FALSE
