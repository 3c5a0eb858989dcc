CONSTANTS
    MaxJobs = 2
    MaxCost = 1
    Prices <- MCPrices
    p1 = p1
    p2 = p2
    p3 = p3
    Peers = {p1, p2, p3}
    Address <- MCAddress
    MaxCalls = 3
    PeCallers = {"c"}
    PeOutputBuffer = 1
    PeTrickle = 1
    PeInv = {"t"}
    PeInventories <- MCPeInventories
    PeMaxQueued = 1
    PeMaxReceived = 1
    RcCalls = {"n"}
    RcRescan = {}
    RcNotify = {"n"}
    RcBuffer = 1
    RcConns = 2
    RcMaxFails = 1
SPECIFICATION MCSpec
INVARIANTS
    TypeOK
    CleanMeansSaved
    HistoryNotAhead
    PeerTableInvariant
    
    RpcClientInvariant
PROPERTIES
    FinishedIsSaved
    UpdatesKept
    CallsEnd
    
    
CHECK_DEADLOCK FALSE
