SPECIFICATION Spec
CONSTANTS
    Snapshots = {s1, s2}
    NoSnapshot = NoSnapshot
    NoReadiness = NoReadiness
    MaxRevision = 4
    InitialSnapshot = s1
    MaxChanges = 0
    MaxFaults = 0
CHECK_DEADLOCK FALSE
INVARIANTS
    PlannedShutdownSucceeds
