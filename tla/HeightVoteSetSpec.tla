------------------------- MODULE HeightVoteSetSpec -------------------------
(***************************************************************************)
(* A HeightVoteSet as the consensus engine uses it: votes and majority     *)
(* claims come in from several peers, for any round, while the engine      *)
(* moves to later and later rounds.                                        *)
(***************************************************************************)
EXTENDS HeightVoteSet

CONSTANTS
    MaxRound,      \* bound on the rounds
    HVSVoters,     \* bound: the validators whose votes arrive
    HVSBlocks,     \* bound: what they are for
    HVSClaimers,   \* bound: the peers that claim majorities
    ClaimRounds    \* bound: the rounds that majorities are claimed for

HVSRounds == 0 .. MaxRound

VARIABLE hvs

HVSInit == hvs = NewHeightVoteSet

ReceiveVoteFrom ==
    \E peer \in PeerKeys, r \in HVSRounds, type \in VoteTypes, v \in HVSVoters, b \in HVSBlocks :
        hvs' = AddVoteFrom(hvs, [round |-> r, type |-> type, val |-> v, block |-> b], peer).hvs

ReceiveClaimFrom ==
    \E peer \in HVSClaimers, r \in ClaimRounds, type \in VoteTypes, b \in HVSBlocks :
        hvs' = SetPeerMaj23In(hvs, r, type, peer, b)

\* enterNewRound(r - 1).
EnterRound ==
    \E r \in (hvs.round + 1) .. MaxRound :
        ~ SetRoundPanics(hvs, r) /\ hvs' = SetRound(hvs, r)

HVSNext == ReceiveVoteFrom \/ ReceiveClaimFrom \/ EnterRound

HVSSpec == HVSInit /\ [][HVSNext]_hvs

-----------------------------------------------------------------------------

\* The rounds that have a VoteSet are those up to `round' and those a peer has
\* paid for, so POLInfo meets no hole and a peer can make us allocate two
\* VoteSets of later rounds and no more.
TrackedRounds ==
    /\ 0 .. hvs.round \subseteq DOMAIN hvs.roundVoteSets
    /\ DOMAIN hvs.roundVoteSets \subseteq
          0 .. hvs.round \cup UNION {hvs.peerCatchupRounds[p] : p \in PeerKeys}
    /\ \A p \in PeerKeys : Cardinality(hvs.peerCatchupRounds[p]) <= 2

=============================================================================
