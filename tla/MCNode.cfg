CONSTANTS
    Block <- MCBlock
    Genesis = "g"
    Prev <- MCPrev
    Work <- MCWork
    Creates <- MCCreates
    Spends <- MCSpends
    Out <- MCOut
    Fault <- MCFault
    Fast = {"c1"}
    MaxOrphans = 1
    Others = FALSE
    MaxCrashes = 1
    Tx <- MCTx
    TxOutPoint <- MCOutPoint
    MpTx <- MCMpTx
    BaseCoins = {"k", "l"}
    MpBlocks <- MCMpBlocks
    MinRelayTxFee = 1000
    FreeTxRelayLimit = 1
    MaxOrphanTxs = 1
    MaxReplacementEvictions = 100
    PeerTag = {"p"}
    MaxChainMoves = 3
    Peer = {"h", "f"}
    Faulty = {"f"}
    Tip = 3
    Checkpoints = {2}
    Txn = {101}
    MaxRequested = 4
    MaxInv = 2
    MaxHeaders = 1
    MinInFlight = 1
    MaxQueue = 1
    IxParent <- MCIxParent
    IxSpends = {"a"}
    IxGenesis = "g"
    IxIncrement = 2
    IxBatch = 2
    IxMaxMoves = 4
    IxMaxStarts = 3
    AlLevel0 = 2
    AlMaxLevel = 5
    AlMaxEntries = 62
SPECIFICATION MCSpec
INVARIANTS
    ChainInvariant
    MempoolInvariant
    
    IndexersInvariant
    AddrLevelsInvariant
PROPERTIES
    DurableStore
    FeesGrow
    
CHECK_DEADLOCK FALSE
