SPECIFICATION Spec
CONSTANTS
    Procs = {p1, p2}
    Owners = {ann}
    Households = {h1, h2}
    Readers = {r1}
    Writers = {w1}
    TTL = 1
    MaxLoad = 0
    MaxTime = 0
    MaxWrites = 2
    NoEntry = NoEntry
SYMMETRY Symmetry
INVARIANTS WritesAreSeen
