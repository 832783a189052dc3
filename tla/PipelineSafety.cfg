SPECIFICATION Spec
CONSTANTS
    Items = {i1, i2}
    Versions = {v1}
    Requests = {r1}
    Workers = {w1, w2}
    MaxAttempts = 2
    BatchSize = 2
    FaultKinds = {"refused", "lost", "crash"}
    MaxFaults = 1
    NoText = NoText
    NoEntry = NoEntry
SYMMETRY Symmetry
INVARIANTS TypeOK AttemptsBounded ReadyVectorIsOwn PendingIsCovered ProcessingIsHeld DoneIsEmbedded
CHECK_DEADLOCK FALSE
