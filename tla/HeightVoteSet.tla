--------------------------- MODULE HeightVoteSet ---------------------------
(***************************************************************************)
(* consensus/pbft/height_vote_set.go: the VoteSets of all rounds of one    *)
(* height, as a value.  The map roundVoteSets is a function on the rounds  *)
(* that have been created.                                                 *)
(***************************************************************************)
EXTENDS VoteSet, FiniteSetsExt

CONSTANT PeerKeys          \* who hands us votes; the node itself may be one of them

VoteTypes == {"prevote", "precommit"}

newRoundVoteSet(r) == [t \in VoteTypes |-> NewVoteSet(<<r, t>>)]

NewHeightVoteSet ==
    [round             |-> 0,
     roundVoteSets     |-> [r \in {0} |-> newRoundVoteSet(r)],
     peerCatchupRounds |-> [p \in PeerKeys |-> {}]]

\* addRound for each of the rounds that does not exist yet.
addRounds(sets, rounds) ==
    [r \in DOMAIN sets \cup rounds |->
        IF r \in DOMAIN sets THEN sets[r] ELSE newRoundVoteSet(r)]

\* SetRound panics when the round does not increase, except from the initial 0.
SetRoundPanics(hvs, round) == hvs.round # 0 /\ round < hvs.round + 1

SetRound(hvs, round) ==
    [hvs EXCEPT !.round = round,
                !.roundVoteSets = addRounds(@, (hvs.round + 1) .. round)]

\* A mistake: a peer is not charged for the rounds it makes us track.
BugFreeCatchup(hvs, vote, peer) ==
    LET sets == addRounds(hvs.roundVoteSets, {vote.round})
        res  == AddVote(sets[vote.round][vote.type],
                        [step |-> <<vote.round, vote.type>>, val |-> vote.val,
                         block |-> vote.block, verifies |-> TRUE])
    IN  [hvs |-> [hvs EXCEPT
                    !.roundVoteSets = [sets EXCEPT ![vote.round][vote.type] = res.voteSet]],
         added |-> res.added]

\* HeightVoteSet.AddVote: the VoteSet of an unknown round is created, at most
\* two times for each peer; the vote is looked at only after that.
AddVoteFrom(hvs, vote, peer) ==
    LET known == vote.round \in DOMAIN hvs.roundVoteSets
        spare == Cardinality(hvs.peerCatchupRounds[peer]) < 2
        sets  == addRounds(hvs.roundVoteSets, {vote.round})
        res   == AddVote(sets[vote.round][vote.type],
                         [step |-> <<vote.round, vote.type>>, val |-> vote.val,
                          block |-> vote.block, verifies |-> TRUE])
    IN  IF known \/ spare
        THEN [hvs |-> [hvs EXCEPT
                         !.roundVoteSets = [sets EXCEPT ![vote.round][vote.type] = res.voteSet],
                         !.peerCatchupRounds[peer] = IF known THEN @ ELSE @ \cup {vote.round}],
              added |-> res.added]
        ELSE [hvs |-> hvs, added |-> FALSE]

\* HeightVoteSet.SetPeerMaj23: ignored for a round without a VoteSet.
SetPeerMaj23In(hvs, round, type, peer, block) ==
    IF round \in DOMAIN hvs.roundVoteSets
    THEN [hvs EXCEPT !.roundVoteSets[round][type] = SetPeerMaj23(@, peer, block)]
    ELSE hvs

\* TwoThirdsMajority of the prevotes or precommits of a round; a nil VoteSet
\* has none.
Majority(hvs, round, type) ==
    IF round \in DOMAIN hvs.roundVoteSets
    THEN hvs.roundVoteSets[round][type].maj23 ELSE None

AnyTwoThirds(hvs, round, type) ==
    /\ round \in DOMAIN hvs.roundVoteSets
    /\ HasTwoThirdsAny(hvs.roundVoteSets[round][type])

\* POLInfo: the last tracked round with a polka, -1 if there is none.
POLRound(hvs) ==
    Max({r \in 0 .. hvs.round : Majority(hvs, r, "prevote") # None} \cup {-1})

=============================================================================
