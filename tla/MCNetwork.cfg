CONSTANTS
    Peers = {p1, p2}
    p1 = p1
    None = None
    PeerHeight <- Behind
    Bodies = {"good", "badbody", "badcommit"}
    MaxHeight = 3
    MaxRequesters = 2
    MaxPerPeer = 1
    ChanCap = 1
    Budgets <- OneFault
    MaySwitch = TRUE
    Channels = {1, 2}
    Priority <- MCPriority
    BatchPackets = 2
    RecvCapacity = 2
    ConnCases <- MCConnCases
    c1 = c1
    c2 = c2
    c3 = c3
    n1 = n1
    n2 = n2
    n3 = n3
    Conns = {c1, c2, c3}
    Nodes = {n1, n2, n3}
    Reactors = {pool, pex}
    SwitchCases <- MCSwitchCases
SPECIFICATION NetworkSpec
CHECK_DEADLOCK FALSE
INVARIANTS
    ExecutesVerifiedBlocks
    PendingIsCounted
    RemovedPeersAreRedone
    ReceivedIsSent
    
PROPERTIES
    FastSyncEnds
    ConnectionSettles
