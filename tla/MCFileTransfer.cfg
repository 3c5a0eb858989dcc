CONSTANTS
    p1 = p1
    p2 = p2
    f1 = f1
    f0 = f0
    None = None
    MaxJobs = 1
    MaxGets = 1
    Peers = {p1}
    Files = {f1, f0}
    Chunks <- MCChunks
    Offers <- MCNoneOrOne
SPECIFICATION Spec
INVARIANTS
    TypeOK
    PayPerChunk
    CostIsSpent
    FinishedMeansComplete
    DiskAccounts
    RequestInRange
PROPERTIES
    DownloadsEnd
CHECK_DEADLOCK FALSE
