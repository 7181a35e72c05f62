CONSTANTS
    Apps = {a1, a2}
    Gateways = {g1, g2}
    None = None
    MaxStake = 2
    EndTogether = FALSE
    MaxData = 3
    MaxOps = 6
SPECIFICATION FairSpec
INVARIANTS DelegationsMatchChain GatewaysMatchChain
PROPERTIES BlocksAreIndexed
CHECK_DEADLOCK FALSE
