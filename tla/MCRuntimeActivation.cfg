SPECIFICATION Spec
CONSTANTS
    Snapshots = {s1, s2}
    NoSnapshot = NoSnapshot
    NoReadiness = NoReadiness
    MaxRevision = 4
    Coordinators = {c1, c2}
    Requests = {r1, r2}
    NoLease = NoLease
    InitialSnapshot = s1
SYMMETRY Symmetry
INVARIANTS
    TokenCurrentIffUnmoved
    LeasePinsItsActivation
PROPERTIES
    ImplementsContract
