CONSTANTS
    Block1 = block1
    Block2 = block2
    Alice = Alice
    Bob = Bob
    Carol = Carol
    Validators = {Alice, Bob, Carol}
    Power <- MCPower
    BlockIDs = {nilBlock, block1, block2}
    NilBlock = nilBlock
    None = None
    Peers = {peer1, peer2}
    TheStep = thisStep
    OtherSteps = {otherStep}
    Strangers = {Stranger}
    PeerKeys = {peer1, peer2}
    MaxRound = 3
    HVSVoters = {Alice}
    HVSBlocks = {nilBlock}
    HVSClaimers = {peer1}
    ClaimRounds = {1}
    Faulty = {Carol}
    Rounds <- MCRounds
    Values = {block1, block2}
    LastStep = 2
    LastHeight = 2
    VoteFaults <- MCVoteFaults
SYMMETRY SymmetricBlocks
SPECIFICATION VotingSpec
INVARIANTS
    CommitVerifies
    LastCommitReconstructs
    TrackedRounds
    Agreement
    NeverSignsTwice
    ReplayRestoresVotes
PROPERTIES
    NothingIsTakenBack
CHECK_DEADLOCK FALSE
