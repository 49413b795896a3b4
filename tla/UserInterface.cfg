SPECIFICATION FairSpec
CONSTANTS
    Mixes = {{"tcp client"}, {"tcp server"}, {"stream", "xmpp"}, {"udp", "ws client"}, {"xmpp"}}
    LateMixes = {{"xmpp"}}
    MaxLines = 1
    MaxRequests = 2
    MaxConnects = 2
    MaxFaults = 1
INVARIANTS
    PlaysWhatItShows
    
    WindowAgrees
PROPERTIES
    AttemptsEnd
CHECK_DEADLOCK FALSE
