SPECIFICATION Spec
CONSTANTS
    d1 = d1
    d2 = d2
    d3 = d3
    Free = Free
    Deliveries = {d1, d2, d3}
    Kind <- Kinds
    WithId = {d1, d2}
    Requests = {r1, r2}
    Secrets = {s1, s2}
    Buffer = 1
    MaxCopies = 2
    MaxRestarts = 2
SYMMETRY RequestSymmetry
INVARIANTS
    TypeOK
    AtMostOneJob
    RotationHasNoDowntime
    RefusedCanBeResent
CHECK_DEADLOCK FALSE
