SPECIFICATION RoutinesSpec
CONSTANTS
    None = None
    TipHeight = 4
    MaxCrashes = 3
    BlockTxs = 2
    ValidateRoutines = {c1, c2}
    TxKinds = {"good", "garbage", "unsigned", "rejected"}
    t1 = t1
    t2 = t2
    r1 = r1
    r2 = r2
    TxValues = {t1, t2}
    CacheSize = 2
    TxLimit = 0
    MemReceivers = {r1, r2}
    MemPeers = {q1}
    MaxElements = 3
    MemBlocks <- MCMemBlocks
    MemBounds <- MCMemBounds
    RaftNodes = {n1, n2}
    MaxRaftHeight = 2
    RaftBounds <- MCRaftBounds
    v1 = v1
    v2 = v2
    v3 = v3
    GossipVals = {v1, v2, v3}
    BlockVoters = {v1, v2}
    MaxRound = 2
    GossipCases <- MCGossipCases
    Parts = {1, 2}
    Blocks = {x, y}
    Committed = y
    MaxPartRound = 1
INVARIANTS
    HeightsOnDisk
    
    
    
    ChainsAgree
    
PROPERTIES
    NodeRecovers
    
    
    RaftGoesOn
    PeerGetsVotes
    
CHECK_DEADLOCK FALSE
