-------------------------- MODULE MCConsensusState --------------------------
(***************************************************************************)
(* ConsensusState for TLC: Self of power 1, a correct peer of power 2 and  *)
(* a faulty one of power 1, so that a quorum (3 of 4) takes the correct    *)
(* peer and one of the other two.                                          *)
(***************************************************************************)
EXTENDS ConsensusState, TLC

CONSTANTS Me, Peer, Byzantine, First, Second, Proposed, FaultyHashes

MCPowers == Me :> 1 @@ Peer :> 2 @@ Byzantine :> 1

MCPowerTable ==
    [S \in SUBSET DOMAIN MCPowers |-> MapThenSumSet(LAMBDA v : MCPowers[v], S)]

MCPower(S) == MCPowerTable[S]

\* Whose turn the even and the odd rounds are.
MCProposer(r) == IF r % 2 = 0 THEN First ELSE Second

\* Proposals of the round's proposer or of a faulty validator, with any POLRound.
AllProposals ==
    {p \in [round : Rounds, block : Blocks, POLRound : Rounds \cup {-1},
            signer : Validators \ {Self}] :
        p.signer = Proposer(p.round) \/ p.signer \in Faulty}

\* Those that pass the checks of defaultSetProposal, for the blocks in Proposed.
GoodProposals ==
    {p \in AllProposals : /\ p.signer = Proposer(p.round)
                          /\ p.POLRound < p.round
                          /\ p.block \in Proposed}

\* The BlockIDs that can be voted for: of one block, or the hash of our own
\* block with the parts header of another.
MCBlockIDs == {NilBlock} \cup {<<b, b>> : b \in Blocks} \cup ({NewBlock} \X Blocks)

MCFaultyVotes == {<<b, b>> : b \in FaultyHashes}

=============================================================================
