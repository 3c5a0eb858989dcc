CONSTANTS
    FdBlocks = {"x", "y"}
    FdKeys = {"k"}
    FdReaders = {"r"}
    FdFileBlocks = 1
    FdTxBlocks = 1
    FdPruneTarget = 1
    FdMaxUpdates = 1
    FdMaxFile = 1
    FdMaxCrashes = 1
    FdMaxFaults = 1
    FdLoseClosed = FALSE
    WtTx <- MCWtTx
    WtValue <- MCWtValue
    WtOwn = {"c0", "a0", "b0"}
    WtBlock <- MCWtBlock
    WtMempool = {"a", "b", "d"}
    WtMaturity = 2
    WtReorgDown = FALSE
    WtMaxMoves = 8
    KmAccounts = {"a"}
    KmWatchAccounts = {"w"}
    KmKeys = {0}
    KmPass = {"p", "q"}
    KmMaxIndex = 1
    KmExtends = TRUE
    NetAddr = {"a"}
    TargetOutbound = 1
    MaxConnReq = 2
    NetGroup <- MCNetGroup
    NetPermanent = {}
    NetInbound = {"i"}
    NetWhitelist = {"a"}
    MaxPeers = 1
    MaxPeerId = 2
    AmAddrs = {"a", "b", "c"}
    AmSources = {"s", "t"}
    AmNew = {1, 2}
    AmTried = {1}
    AmNewBucket <- MCAmNewBucket
    AmTriedBucket <- MCAmTriedBucket
    AmNewSize = 1
    AmTriedSize = 1
    AmRefs = 2
SPECIFICATION MCSpec
INVARIANTS
    
    WalletTxInvariant
    
    ServerInvariant
    
PROPERTIES
    AtomicStore
CHECK_DEADLOCK FALSE
