------------------------------ MODULE VoteSet ------------------------------
(***************************************************************************)
(* types/vote_set.go: the votes of one kind (prevote or precommit) cast at *)
(* one height and round.  A VoteSet is a value here, and each method that  *)
(* changes it is an operator from a VoteSet to a VoteSet, so that the      *)
(* modules of the consensus engine can hold any number of them.            *)
(*                                                                         *)
(* A vote is [step, val, block, verifies]: `step' stands for the           *)
(* (height, round, type) triple, `val' for validator index and address,    *)
(* `block' for the BlockID (the nil vote's zero BlockID included) and      *)
(* `verifies' for the outcome of the signature check.                      *)
(***************************************************************************)
EXTENDS VotingPower, VoteValues

CONSTANT
    Peers          \* the peers that may claim a +2/3 majority

ASSUME NoneAssumption == None \notin BlockIDs

(***************************************************************************)
(* The state.                                                              *)
(***************************************************************************)

\* blockVotes.  The slice `votes' and the bit array say the same thing: which
\* validators voted for the block.  `tracked': the map has an entry.
BlockVotes == [tracked : BOOLEAN, peerMaj23 : BOOLEAN,
               votes : SUBSET Validators, sum : Nat]

noBlockVotes == [tracked |-> FALSE, peerMaj23 |-> FALSE, votes |-> {}, sum |-> 0]

newBlockVotes(peerMaj23) ==
    [tracked |-> TRUE, peerMaj23 |-> peerMaj23, votes |-> {}, sum |-> 0]

\* VoteSet, without the immutable chain ID and validator set.
VoteSets(Steps) ==
    [step          : Steps,
     votesBitArray : SUBSET Validators,
     votes         : [Validators -> BlockIDs \cup {None}],
     sum           : Nat,
     maj23         : BlockIDs \cup {None},
     votesByBlock  : [BlockIDs -> BlockVotes],
     peerMaj23s    : [Peers -> BlockIDs \cup {None}]]

NewVoteSet(step) ==
    [step          |-> step,
     votesBitArray |-> {},
     votes         |-> [v \in Validators |-> None],
     sum           |-> 0,
     maj23         |-> None,
     votesByBlock  |-> [b \in BlockIDs |-> noBlockVotes],
     peerMaj23s    |-> [p \in Peers |-> None]]

(***************************************************************************)
(* Adding a vote.                                                          *)
(***************************************************************************)

\* getVote: is this very vote already known, as the canonical vote of its
\* validator or as one of the votes kept for its block?
hasVote(vs, vote) ==
    \/ vs.votes[vote.val] = vote.block
    \/ vote.val \in vs.votesByBlock[vote.block].votes

\* blockVotes.addVerifiedVote: a validator counts once for a block.
addToBlock(bv, val) ==
    IF val \in bv.votes THEN bv
    ELSE [bv EXCEPT !.votes = @ \cup {val}, !.sum = @ + Power({val})]

\* addVerifiedVote, first half: the canonical vote of the validator.
recordCanonical(vs, vote) ==
    IF vs.votes[vote.val] # None
    THEN IF vs.maj23 = vote.block
         THEN [vs EXCEPT !.votes[vote.val] = vote.block,
                         !.votesBitArray = @ \cup {vote.val}]
         ELSE vs
    ELSE [vs EXCEPT !.votes[vote.val] = vote.block,
                    !.votesBitArray = @ \cup {vote.val},
                    !.sum = @ + Power({vote.val})]

\* Mistakes in the last third of addVerifiedVote: the votes for the majority
\* block are not made canonical; a second quorum replaces the first.
BugMajorityNotCopied(vs, block, origSum) ==
    IF origSum < Quorum /\ Quorum <= vs.votesByBlock[block].sum /\ vs.maj23 = None
    THEN [vs EXCEPT !.maj23 = block]
    ELSE vs

BugLastQuorumWins(vs, block, origSum) ==
    IF origSum < Quorum /\ Quorum <= vs.votesByBlock[block].sum
    THEN [vs EXCEPT !.maj23 = block,
                    !.votes = [v \in Validators |->
                                 IF v \in vs.votesByBlock[block].votes
                                 THEN block ELSE @[v]]]
    ELSE vs

\* addVerifiedVote, last third: when the block's sum crosses the quorum and no
\* block had a majority, it becomes maj23 and its votes become canonical.
recordMajority(vs, block, origSum) ==
    LET bv == vs.votesByBlock[block] IN
    IF origSum < Quorum /\ Quorum <= bv.sum /\ vs.maj23 = None
    THEN [vs EXCEPT !.maj23 = block,
                    !.votes = [v \in Validators |->
                                 IF v \in bv.votes THEN block ELSE @[v]]]
    ELSE vs

\* Is the vote counted for its block?  A conflicting vote is, only for a block
\* some peer claims a majority for.
keptByBlock(vs, vote) ==
    LET bv == vs.votesByBlock[vote.block]
        conflicting == vs.votes[vote.val] # None
    IN  ~ conflicting \/ (bv.tracked /\ bv.peerMaj23)

\* addVerifiedVote as a whole.
addVerifiedVote(vs, vote) ==
    LET canonical == recordCanonical(vs, vote)
        bv == IF vs.votesByBlock[vote.block].tracked
              THEN vs.votesByBlock[vote.block]
              ELSE newBlockVotes(FALSE)
    IN  IF keptByBlock(vs, vote)
        THEN recordMajority([canonical EXCEPT !.votesByBlock[vote.block] =
                                                 addToBlock(bv, vote.val)],
                            vote.block, bv.sum)
        ELSE canonical

\* The checks of addVote before the vote is looked at as new: its step is the
\* set's, its sender a validator with the claimed index and address, and its
\* signature verifies (a known vote is recognised before that last check).
acceptable(vs, vote) ==
    /\ vote.step = vs.step
    /\ vote.val \in Validators
    /\ ~ hasVote(vs, vote)
    /\ vote.verifies

\* VoteSet.AddVote: the new set and the returned `added'.
AddVote(vs, vote) ==
    IF acceptable(vs, vote)
    THEN [voteSet |-> addVerifiedVote(vs, vote), added |-> keptByBlock(vs, vote)]
    ELSE [voteSet |-> vs, added |-> FALSE]

(***************************************************************************)
(* A peer's claim that it has seen a +2/3 majority for a block.            *)
(***************************************************************************)
SetPeerMaj23(vs, peer, block) ==
    IF vs.peerMaj23s[peer] # None THEN vs
    ELSE LET bv == vs.votesByBlock[block] IN
         [vs EXCEPT !.peerMaj23s[peer] = block,
                    !.votesByBlock[block] = IF bv.tracked
                                            THEN [bv EXCEPT !.peerMaj23 = TRUE]
                                            ELSE newBlockVotes(TRUE)]

(***************************************************************************)
(* Queries.                                                                *)
(***************************************************************************)
HasTwoThirdsMajority(vs) == vs.maj23 # None

HasTwoThirdsAny(vs) == vs.sum > ((TotalVotingPower * 2) \div 3)

HasAll(vs) == vs.sum = TotalVotingPower

\* A mistake: only the votes that were canonical before the majority formed,
\* and are still counted for another block, are left out of the commit.
BugCommitWithoutEquivocators(vs) ==
    [blockID |-> vs.maj23,
     precommits |-> [v \in Validators |->
        IF \E b \in BlockIDs \ {vs.maj23} : v \in vs.votesByBlock[b].votes
        THEN None ELSE vs.votes[v]]]

\* MakeCommit, for a set with a majority: the block and the canonical votes.
MakeCommit(vs) == [blockID |-> vs.maj23, precommits |-> vs.votes]

=============================================================================
