SPECIFICATION Spec
CONSTANTS
    NoSnapshot = NoSnapshot
    NoReadiness = NoReadiness
    MaxRevision = 8
    SourceCount = 1
    Inputs = {good}
    InvalidInputs = {}
    Tables = {t}
    VerifiedModes = {TRUE}
    MaxChanges = 0
    MaxFaults = 1
    MaxSpareAttempts = 2
CHECK_DEADLOCK FALSE
PROPERTIES
    StopsOnlyWhenClosed
