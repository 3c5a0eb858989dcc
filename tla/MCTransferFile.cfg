CONSTANTS
    p1 = p1
    p2 = p2
    f1 = f1
    f0 = f0
    None = None
    MaxJobs = 1
    MaxGets = 1
    Peers = {p1, p2}
    Files = {f1}
    Chunks <- MCChunks
    Offers <- MCOffers
SPECIFICATION Spec
INVARIANT
    FinishedFileIsWhole
CHECK_DEADLOCK FALSE
