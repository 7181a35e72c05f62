CONSTANTS
    upokt = upokt
    other = other
    a1 = a1
    a2 = a2
    a3 = a3
    s1 = s1
    s2 = s2
    d1 = d1
    d2 = d2
    p1 = p1
    p2 = p2
    None = None
    Open = Open
    Denoms = {upokt, other}
    Native = upokt
    PageLimit = 2
    Morse = {a1, a2, a3}
    Kind <- FewKinds
    Amount <- FewAmounts
    Batched = FALSE
    Suppliers = {p1, p2}
    Services = {s1, s2}
    Domains = {d1, d2}
    Relays <- FewRelays
    BlocksOfDay = 2
    Bases <- FewBases
    StakeAmounts = {2}
    Offers <- FewOffers
    ImportWithRecovery = FALSE
    Delegated = FALSE
    SlashAtEnd = FALSE
    LateClaims = FALSE
    MaxChanges = 4
    MaxHeight = 4
SPECIFICATION Spec
SYMMETRY Symmetry
INVARIANTS SupplyMatchesChain TotalSupplyConserved MorseMatchesChain ReportsMatchChain ByServiceMatchesChain DailyRewardsMatchChain
CHECK_DEADLOCK FALSE
