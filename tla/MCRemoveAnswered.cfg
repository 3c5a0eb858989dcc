CONSTANTS
    p1 = p1
    p2 = p2
    p3 = p3
    Peers = {p2}
    Address <- MCAddress
    MaxCalls = 3
SPECIFICATION PeerTableSpec
PROPERTY
    RemoveAnswered
CHECK_DEADLOCK FALSE
