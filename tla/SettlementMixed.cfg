CONSTANTS
    Pairs = {p1, p2}
    Services = {s1, s2}
    Works <- FewWorks
    Rewards <- FewRewards
    Ratios = {1}
    UnitsPerRelay = 2
    Difficulty = 3
    None = None
    Repeats = FALSE
    Mixed = TRUE
    MaxData = 2
    MaxHeight = 1
    MaxCrashes = 0
SPECIFICATION Spec
INVARIANT TransfersMatchChain
CHECK_DEADLOCK FALSE
