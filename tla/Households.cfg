SPECIFICATION Spec
CONSTANTS
    Users = {ann, bob}
    Houses = {h1, h2, h3}
    Requests = {r1, r2}
    None = None
SYMMETRY Symmetry
INVARIANTS TypeOK CreatedOnce PersonalIsPrivate NoOrphans
PROPERTIES NobodyStranded OperationsAreAtomic
