SPECIFICATION FairSpec
CONSTANTS
    Snapshots = {s1, s2}
    NoSnapshot = NoSnapshot
    NoReadiness = NoReadiness
    MaxRevision = 6
    InitialSnapshot = s1
    MaxChanges = 2
    MaxFaults = 2
CHECK_DEADLOCK FALSE
INVARIANTS
    ProbesWhatIsServed
    BuildIsOwned
    AbnormalExitFailsClosed
    SuccessfulShutdownIsComplete
PROPERTIES
    SettlesOnSource
    ShutdownEnds
