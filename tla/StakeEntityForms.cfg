CONSTANTS
    Entities = {a, b}
    Txs = {1}
    MaxBlock = 2
SPECIFICATION FairSchedule
PROPERTIES NewerEventsHandled
CHECK_DEADLOCK FALSE
