SPECIFICATION FairSpec
CONSTANTS
    Items = {i1}
    Versions = {v1}
    Requests = {r1, r2}
    Workers = {w1, w2}
    MaxAttempts = 3
    BatchSize = 1
    FaultKinds = {"refused", "lost", "crash"}
    MaxFaults = 1
    NoText = NoText
    NoEntry = NoEntry
PROPERTIES PendingSettles JobsAreShared RetriesAdvance
CHECK_DEADLOCK FALSE
