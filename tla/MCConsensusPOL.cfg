CONSTANTS
    Me = Me
    Peer = Peer
    Byzantine = Byzantine
    First = Peer
    Second = Me
    Proposed = {block1}
    Validators = {Me, Peer, Byzantine}
    Power <- MCPower
    Self = Me
    Faulty = {Byzantine}
    Blocks = {block1, block2}
    NilHash = nilHash
    BlockIDs <- MCBlockIDs
    ValidBlocks = {block1, block2}
    None = None
    Peers = {}
    PeerKeys = {Me, Peer, Byzantine}
    Proposer <- MCProposer
    MaxRound = 1
    MaxInFlight = 2
    FaultyHashes = {block2}
    FaultyRounds = {1}
    FaultyVotes <- MCFaultyVotes
    Proposals <- GoodProposals
    NewBlock = block2
    ExecOutcomes = {"ok"}
SPECIFICATION Spec
INVARIANTS
    OwnProposalsAreValid
CHECK_DEADLOCK FALSE
