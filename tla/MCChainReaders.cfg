CONSTANTS
    Block <- MCBlock
    Genesis = "g"
    Prev <- MCPrev
    Work <- MCWork
    Creates <- MCCreates
    Spends <- MCSpends
    Out <- MCOut
    Fault <- MCFault
    Fast = {"c1"}
    MaxOrphans = 1
    Others = TRUE
    MaxCrashes = 1
SPECIFICATION ChainSpec
INVARIANTS DiskRecoverable
CHECK_DEADLOCK FALSE
