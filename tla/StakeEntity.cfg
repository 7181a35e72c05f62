CONSTANTS
    Entities = {a, b, c}
    Txs = {1, 2}
    MaxBlock = 3
SPECIFICATION Schedule
INVARIANTS OneAtATime InChainOrder
CHECK_DEADLOCK FALSE
