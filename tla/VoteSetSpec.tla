---------------------------- MODULE VoteSetSpec ----------------------------
(***************************************************************************)
(* One VoteSet under every sequence of calls its owners can make: votes    *)
(* from validators (each may sign for several blocks), votes that fail a   *)
(* check of addVote, and majority claims by peers.  Its mutex makes each   *)
(* call one step.                                                          *)
(***************************************************************************)
EXTENDS VoteSet, FiniteSetsExt

CONSTANTS
    TheStep,       \* the (height, round, type) of this VoteSet
    OtherSteps,    \* those of votes that reach it by mistake
    Strangers      \* signers that are not in the validator set

VARIABLE voteSet

Votes == [step : {TheStep} \cup OtherSteps, val : Validators \cup Strangers,
          block : BlockIDs, verifies : BOOLEAN]

Init == voteSet = NewVoteSet(TheStep)

ReceiveVote(vote) == voteSet' = AddVote(voteSet, vote).voteSet

ReceiveMaj23Claim(peer, block) == voteSet' = SetPeerMaj23(voteSet, peer, block)

Next ==
    \/ \E vote \in Votes : ReceiveVote(vote)
    \/ \E peer \in Peers, block \in BlockIDs : ReceiveMaj23Claim(peer, block)

Spec == Init /\ [][Next]_voteSet

-----------------------------------------------------------------------------

\* The fields of a VoteSet keep their types.
TypeOK == voteSet \in VoteSets({TheStep})

\* Who has voted, by the canonical votes.
Voted == {v \in Validators : voteSet.votes[v] # None}

\* Double signing does not distort the tallies: the total is the power of the
\* validators that have voted, each counted once whatever it signed, the tally
\* of a block is the power of the validators counted for it, and the bit array
\* the reactor gossips from (BitArray, then GetByIndex) marks exactly the
\* validators a canonical vote is held for.
TalliesAreExact ==
    /\ voteSet.sum = Power(Voted)
    /\ voteSet.votesBitArray = Voted
    /\ \A b \in BlockIDs :
          voteSet.votesByBlock[b].sum = Power(voteSet.votesByBlock[b].votes)

\* ValidatorSet.VerifyCommit, for a commit of genuine precommits of one step:
\* the precommits for the block exceed two thirds of the power.
VerifyCommit(blockID, commit) ==
    Power({v \in Validators : commit.precommits[v] = blockID}) >
        ((TotalVotingPower * 2) \div 3)

\* Whenever the set reports a majority, the commit made of its canonical votes
\* (saved as seen commit, proposed as LastCommit of the next block) passes
\* VerifyCommit for that block.
CommitVerifies ==
    HasTwoThirdsMajority(voteSet) =>
        VerifyCommit(voteSet.maj23, MakeCommit(voteSet))

\* ConsensusState.reconstructLastCommit: after a restart the seen commit's
\* precommits are added one by one to a new VoteSet; one that is not added, or
\* no majority at the end, is a panic.
reconstructLastCommit(commit) ==
    LET add(v, acc) ==
          LET res == AddVote(acc.voteSet, [step |-> TheStep, val |-> v,
                       block |-> commit.precommits[v], verifies |-> TRUE])
          IN  [voteSet |-> res.voteSet, ok |-> acc.ok /\ res.added]
    IN  FoldSet(add, [voteSet |-> NewVoteSet(TheStep), ok |-> TRUE],
                {v \in Validators : commit.precommits[v] # None})

\* A node that stored the seen commit can always restart: reconstructing the
\* LastCommit from it hits neither panic and finds the same majority.
LastCommitReconstructs ==
    HasTwoThirdsMajority(voteSet) =>
        LET last == reconstructLastCommit(MakeCommit(voteSet))
        IN  last.ok /\ last.voteSet.maj23 = voteSet.maj23

\* A block whose tally reaches the quorum is noticed: either it is the reported
\* majority or another block reached its quorum before.
QuorumIsNoticed ==
    \A b \in BlockIDs :
        voteSet.votesByBlock[b].sum >= Quorum => HasTwoThirdsMajority(voteSet)

\* "One for each validator, and one more for each peer's claim" (the memory
\* bound argued for in the comment on VoteSet): a validator is counted for at
\* most one block that no peer has claimed a majority for.
ConflictsOnlyWhereClaimed ==
    \A v \in Validators : \A b, c \in BlockIDs :
        /\ v \in voteSet.votesByBlock[b].votes
        /\ v \in voteSet.votesByBlock[c].votes
        /\ b # c
        => voteSet.votesByBlock[b].peerMaj23 \/ voteSet.votesByBlock[c].peerMaj23

\* What the consensus engine has acted upon is never taken back: a reported
\* majority stays the majority, a validator is not un-counted, and a canonical
\* vote changes only to one for the majority block.
NothingIsTakenBack ==
    [][/\ HasTwoThirdsMajority(voteSet) => voteSet'.maj23 = voteSet.maj23
       /\ \A b \in BlockIDs :
             voteSet.votesByBlock[b].votes \subseteq voteSet'.votesByBlock[b].votes
       /\ \A v \in Voted : voteSet'.votes[v] \in {voteSet.votes[v], voteSet'.maj23}
      ]_voteSet

=============================================================================
