SPECIFICATION Spec
CONSTANTS
    Watchers = {p1, p2}
    Sockets = {p1, p2}
    Calls = {p1, p2}
    Receivers = {p1, p2}
    MaxDrops = 2
INVARIANTS
    ObjectsInvariant
PROPERTIES
    ImplementsPromise
    RecipientsAreAnnounced
    NobodyWaits
CHECK_DEADLOCK FALSE
