SPECIFICATION FairSpec
CONSTANTS
    Items = {i1}
    Versions = {v1, v2}
    Requests = {r1}
    Workers = {w1}
    MaxAttempts = 2
    BatchSize = 1
    FaultKinds = {}
    MaxFaults = 0
    NoText = NoText
    NoEntry = NoEntry
PROPERTIES UpdateReEmbeds
CHECK_DEADLOCK FALSE
