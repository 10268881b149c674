CONSTANTS
    Me = Me
    Peer = Peer
    Byzantine = Byzantine
    First = Peer
    Second = Me
    Proposed = {block1, block2}
    Validators = {Me, Peer, Byzantine}
    Power <- MCPower
    Self = Me
    Faulty = {Byzantine}
    Blocks = {block1, block2}
    NilHash = nilHash
    BlockIDs <- MCBlockIDs
    ValidBlocks = {block1}
    None = None
    Peers = {}
    PeerKeys = {Me, Peer, Byzantine}
    Proposer <- MCProposer
    MaxRound = 0
    MaxInFlight = 2
    FaultyHashes = {nilHash, block1, block2}
    FaultyRounds = {0}
    FaultyVotes <- MCFaultyVotes
    Proposals <- AllProposals
    NewBlock = block1
    ExecOutcomes = {"ok", "error"}
SPECIFICATION Spec
INVARIANTS
    
    WaitsAreTimed
CHECK_DEADLOCK FALSE
