SPECIFICATION Spec
CONSTANTS
    Procs = {p1}
    Owners = {ann}
    Households = {h1}
    Readers = {r1, r2}
    Writers = {w1}
    TTL = 2
    MaxLoad = 1
    MaxTime = 4
    MaxWrites = 2
    NoEntry = NoEntry
SYMMETRY Symmetry
INVARIANTS TypeOK StalenessBounded
