SPECIFICATION FairSpec
CONSTANTS
    Options <- MCOptions
    ExternalControl = FALSE
    UnwrittenSends = FALSE
    MaxFaults = 2
    MaxHistory = 4
INVARIANTS
    TypeOK
    QuietWhenNotSending
    RecordsAreKept
PROPERTIES
    ImplementsReplay
    RunSettles
CHECK_DEADLOCK FALSE
