SPECIFICATION Spec
CONSTANTS
    Options <- MCSteering
    ExternalControl = TRUE
    UnwrittenSends = TRUE
    MaxFaults = 1
    MaxHistory = 3
INVARIANTS
    SingleTick
CHECK_DEADLOCK FALSE
