SPECIFICATION Spec
CONSTANTS
    Requests = {r1, r2}
    Routes = {"join", "ai"}
    Ips = {home}
    Users = {ann, bob}
    Window = 2
    Limit <- JoinLimit
    MaxTime = 5
SYMMETRY Symmetry
INVARIANTS TypeOK SpanBound
PROPERTIES RejectionsAreDue ClientsAreIndependent
