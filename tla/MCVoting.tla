------------------------------ MODULE MCVoting ------------------------------
(***************************************************************************)
(* VoteSetSpec, HeightVoteSetSpec, ConsensusRules and OwnVotes for TLC,    *)
(* one of them at a time: a behaviour chooses its part in the initial      *)
(* state and moves only that.                                              *)
(*                                                                         *)
(* Three validators of powers 2, 1 and 1, so that a quorum (3 of 4) is     *)
(* reached by two of them or by all three, with one block, another and the *)
(* zero BlockID to vote for.  For the rules Carol is faulty: with Alice    *)
(* she makes a polka without Bob.  For the HeightVoteSet the rounds and    *)
(* the peers vary and the votes do not.                                    *)
(***************************************************************************)
EXTENDS VoteSetSpec, HeightVoteSetSpec, ConsensusRules, OwnVotes, TLC

CONSTANTS Alice, Bob, Carol, Block1, Block2

VARIABLE part    \* which of the four this behaviour is of

MCPowers == Alice :> 2 @@ Bob :> 1 @@ Carol :> 1

MCPowerTable ==
    [S \in SUBSET DOMAIN MCPowers |-> MapThenSumSet(LAMBDA v : MCPowers[v], S)]

MCPower(S) == MCPowerTable[S]

MCRounds == 0 .. 2

\* OwnVotes: how many crashes, rotations of the WAL and failed saves of the signer.
MCVoteFaults == {[crashes |-> 1, rotations |-> 1, saveErrors |-> 0],
                 [crashes |-> 2, rotations |-> 0, saveErrors |-> 0],
                 [crashes |-> 1, rotations |-> 0, saveErrors |-> 1]}

\* The two blocks are interchangeable.
SymmetricBlocks == Permutations({Block1, Block2})

VotingInit ==
    /\ part \in {"votes", "height", "rules", "own votes"}
    /\ Init /\ HVSInit /\ RulesInit
    /\ VoteInit /\ (part = "own votes" \/ votesLeft = CHOOSE f \in VoteFaults : TRUE)

VotingNext ==
    /\ UNCHANGED part
    /\ \/ part = "votes" /\ Next /\ UNCHANGED <<hvs, rulesVars, voteVars>>
       \/ part = "height" /\ HVSNext /\ UNCHANGED <<voteSet, rulesVars, voteVars>>
       \/ part = "rules" /\ RulesNext /\ UNCHANGED <<voteSet, hvs, voteVars>>
       \/ part = "own votes" /\ VoteNext /\ UNCHANGED <<voteSet, hvs, rulesVars>>

VotingSpec == VotingInit /\ [][VotingNext]_<<part, voteSet, hvs, rulesVars, voteVars>>

=============================================================================
