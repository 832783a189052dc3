SPECIFICATION FairSpec
CONSTANTS
    Items = {i1, i2}
    Versions = {v1}
    Requests = {r1, r2}
    Workers = {w1}
    MaxAttempts = 2
    BatchSize = 1
    FaultKinds = {"refused", "lost", "crash"}
    MaxFaults = 1
    NoText = NoText
    NoEntry = NoEntry
INVARIANTS PendingIsCovered
PROPERTIES JobsKeepLifecycle JobsSettle
CHECK_DEADLOCK FALSE
