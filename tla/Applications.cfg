CONSTANTS
    Apps = {a1, a2}
    Services = {s1, s2}
    Gateways = {g1}
    None = None
    MaxStake = 2
    MaxData = 2
    MaxOps = 6
SPECIFICATION FairSpec
INVARIANTS ListedMatchChain UnbondedAreClosed
PROPERTIES BlocksAreIndexed
CHECK_DEADLOCK FALSE
