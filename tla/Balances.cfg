CONSTANTS
    Users = {u1, u2}
    Modules = {m1}
    Amounts = {0, 1}
    Genesis <- OneRichUser
    GenesisTxs = FALSE
    MaxHeight = 3
    MaxCrashes = 1
SPECIFICATION FairSpec
INVARIANTS HistoryExact OneVersionInForce BalanceHasAccount
PROPERTIES UserBalancesMirrorChain EveryBlockIndexed
CHECK_DEADLOCK FALSE
