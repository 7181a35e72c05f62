CONSTANTS
    Pairs = {p1, p2}
    Services = {s1, s2}
    Works <- FewWorks
    Rewards <- FewRewards
    Ratios = {1}
    UnitsPerRelay = 2
    Difficulty = 3
    None = None
    Repeats = FALSE
    Mixed = FALSE
    MaxData = 2
    MaxHeight = 2
    MaxCrashes = 1
SPECIFICATION FairSpec
INVARIANTS SettledMatchChain TransfersMatchChain CreatedMatchMessages
PROPERTIES EveryBlockIndexed
CHECK_DEADLOCK FALSE
