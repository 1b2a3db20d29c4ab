SPECIFICATION Spec
CONSTANTS
    Threads = {t1, t2, t3}
    Charges = {"source", "retained"}
    Dims = {"retained", "files"}
    Retained = "retained"
    Limit <- MCLimit
    Shapes <- MCShapes
    NoToken = NoToken
    MaxCount = 4
SYMMETRY Symmetry
INVARIANTS
    ReservedIsOwned
PROPERTIES
    ImplementsAtomic
