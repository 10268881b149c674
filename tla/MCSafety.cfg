SPECIFICATION SafetySpec
CONSTANTS
    None = None
    Txs <- MCTxs
    AdminOps = {op1}
    PendingLimit = 2
    WaitingLimit = 2
    Blocks <- MCBlocks
    op1 = op1
    Receivers = 1
    MaxArrivals = 4
    Replicas = {r1, r2}
    ValScenarios <- MCScenarios
    Sender = sender
    Contracts = {k1, k2}
    k1 = k1
    k2 = k2
    Coinbase = zero
    ripemd = ripemd
    SlotValues = {0, 2}
    EvmWorlds <- MCEvmWorlds
    MaxDepth = 3
INVARIANTS
    ReapedExecute
    CachedMeansQueued
    
    ProposersAgree
    TurnsFollowPower
    SnapshotsRestore
    NothingIsLost
CHECK_DEADLOCK FALSE
