SPECIFICATION Spec
CONSTANTS
    c1 = c1
    c2 = c2
    c3 = c3
    svc = svc
    res1 = res1
    res2 = res2
    r1 = r1
    r2 = r2
    None = None
    Streams = {c1, c2, c3}
    Service = svc
    Sessions <- MCSessions
    Rooms = {r1, r2}
    Persistent = {r2}
    Nicks = {n1, n2}
    Resources = {res1, res2}
    WindowMs = 1
    MaxFailures = 2
    MaxInitiations = 2
    Plans <- MCPlans
SYMMETRY Alike
INVARIANTS
    EveryoneAgrees
    OnlyFailuresAreCharged
PROPERTIES
    DeliversToTheAddressed
CHECK_DEADLOCK FALSE
