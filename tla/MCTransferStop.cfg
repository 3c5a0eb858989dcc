CONSTANTS
    p1 = p1
    p2 = p2
    f1 = f1
    f0 = f0
    None = None
    MaxJobs = 2
    MaxGets = 0
    Peers = {p1}
    Files = {f1}
    Chunks <- MCChunks
    Offers <- MCOneOffer
SPECIFICATION Spec
INVARIANTS
    StopBound
    ActiveMeansRunning
CHECK_DEADLOCK FALSE
