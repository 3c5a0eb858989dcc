CONSTANTS
    n1 = n1
    n2 = n2
    s1 = s1
    s2 = s2
    Producers = {n1, n2}
    Servers = {s1, s2}
    Prices = {1, 200}
    RecordBytes <- MCBytes
    Skew <- MCSkew
    MaxTime = 1
    MaxRegs = 2
    r1 = r1
    r2 = r2
    r3 = r3
    d1 = d1
    d2 = d2
    d3 = d3
    u1 = u1
    u2 = u2
    w1 = w1
    w2 = w2
    q1 = q1
    q2 = q2
    q3 = q3
    StoreRequests = {r1, r2, r3}
    MaxLines = 4
    Downloads = {d1, d2, d3}
    Pieces <- MCPieces
    Transactions = {1, 2, 3, 4}
    Uploads = {u1, u2}
    Puts = {w1, w2}
    Content <- MCContent
    ChunkSize = 2
    DriveCap = 2
    Requests = {q1, q2}
SPECIFICATION MCSpec
INVARIANTS
    
    ConfirmationInvariant
    MeteringInvariant
    
    NodeManagerInvariant
PROPERTIES
    NeverRegresses
CHECK_DEADLOCK FALSE
