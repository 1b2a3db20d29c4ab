SPECIFICATION FairSpec
CONSTANTS
    NoSnapshot = NoSnapshot
    NoReadiness = NoReadiness
    MaxRevision = 7
    SourceCount = 2
    Inputs = {good, bad}
    InvalidInputs = {bad}
    Tables = {t, u}
    VerifiedModes = {TRUE, FALSE}
    MaxChanges = 2
    MaxFaults = 1
    MaxSpareAttempts = 1
CHECK_DEADLOCK FALSE
INVARIANTS
    ObservedDriftFenced
    ServesBaseline
    FailedAttemptFences
PROPERTIES
    ImplementsContract
    HealsOnceServable
    ShutdownStopsWorker
