CONSTANTS
    WtTx <- MCWtTx
    WtValue <- MCWtValue
    WtOwn = {"c0", "a0", "b0"}
    WtBlock <- MCWtBlock
    WtMempool = {"a", "b", "d"}
    WtMaturity = 2
    WtReorgDown = TRUE
    WtMaxMoves = 5
SPECIFICATION WalletTxSpec
INVARIANT MinedIsOnChain
CHECK_DEADLOCK FALSE
