SPECIFICATION FairSpec
CONSTANTS
    Items = {i1, i2}
    Versions = {v1}
    Requests = {r1, r2}
    Workers = {w1}
    MaxAttempts = 2
    BatchSize = 1
    FaultKinds = {}
    MaxFaults = 0
    NoText = NoText
    NoEntry = NoEntry
PROPERTIES InsertedItemsSettle
CHECK_DEADLOCK FALSE
