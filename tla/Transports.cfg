SPECIFICATION FairSpec
CONSTANTS
    Options <- MCOptions
    Peers = {p1, p2}
    Waiters = {w1, w2}
    MaxConnects = 2
    MaxHandles = 2
    MaxFaults = 1
INVARIANTS
    NothingSurvivesDisconnect
    GreetingFirst
PROPERTIES
    ImplementsContract
    ConnectKeepsItsWord
    CallsSettle
CHECK_DEADLOCK FALSE
