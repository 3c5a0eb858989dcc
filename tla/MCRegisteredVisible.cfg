CONSTANTS
    n1 = n1
    n2 = n2
    s1 = s1
    s2 = s2
    Producers = {n1, n2}
    Servers = {s1, s2}
    Prices = {1, 200}
    RecordBytes <- MCBytes
    Skew <- MCNoSkew
    MaxTime = 1
    MaxRegs = 2
SPECIFICATION MarketSpec
INVARIANT
    RegisteredVisible
CHECK_DEADLOCK FALSE
