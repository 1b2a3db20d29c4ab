SPECIFICATION FairSpec
CONSTANTS
    Requests = {r1, r2}
    MaxConcurrent = 1
    Modes = {"ordinary", "verified", "direct"}
CHECK_DEADLOCK FALSE
INVARIANTS
    PermitsMatchOwnedWork
    NothingOwnedAfterReturn
    LatecomersNeverAdmitted
PROPERTIES
    DrainSparesAdmitted
    SignalEndsServing
    HandlersEnd
    UnwatchedRuntimeCloses
