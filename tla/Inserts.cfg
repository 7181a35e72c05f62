CONSTANTS
    Docs = {d1, d2}
    Callers = {c1, c2}
    Shared = FALSE
    RemoveBy = TRUE
    Keyed = FALSE
    MaxHeight = 3
    MaxFailures = 2
    s1 = s1
    s2 = s2
    p1 = p1
    a1 = a1
    a2 = a2
    g1 = g1
    v1 = v1
    v2 = v2
    Services = {s1, s2}
    Suppliers = {p1}
    Apps = {a1, a2}
    Gateways = {g1}
    Validators = {v1, v2}
    None = None
    Files <- FewFiles
    BusyFirstBlock = FALSE
    MaxCrashes = 1
SPECIFICATION InsertsSpec
INVARIANTS BlockRowsExact ValidatorsMatchGenesis MessagesHaveTransactions RowsOfOneAttempt
PROPERTIES RowsMirrorChain
CHECK_DEADLOCK FALSE
