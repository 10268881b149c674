--------------------------- MODULE VoteSetProofs ---------------------------
(***************************************************************************)
(* Proofs about VoteSetSpec, for any validators, powers, blocks and peers. *)
(***************************************************************************)
EXTENDS VoteSetSpec, VotingPowerProofs

\* What is counted for a block was somebody's vote, a block without an entry
\* has no votes, and the votes of the majority block reached the quorum and are
\* the canonical votes of their validators.
Consistent ==
    /\ \A b \in BlockIDs :
          /\ voteSet.votesByBlock[b].votes \subseteq Voted
          /\ ~ voteSet.votesByBlock[b].tracked =>
                voteSet.votesByBlock[b] = noBlockVotes
    /\ voteSet.maj23 # None =>
          /\ voteSet.votesByBlock[voteSet.maj23].sum >= Quorum
          /\ \A v \in voteSet.votesByBlock[voteSet.maj23].votes :
                voteSet.votes[v] = voteSet.maj23

\* The inductive invariant.
IInv == /\ TypeOK
        /\ TalliesAreExact
        /\ Consistent
        /\ QuorumIsNoticed
        /\ ConflictsOnlyWhereClaimed

\* The initial, empty set satisfies the invariant.
LEMMA InitIInv == Init => IInv
<1>. SUFFICES ASSUME Init PROVE IInv
  OBVIOUS
<1>1. TypeOK
  BY DEF Init, NewVoteSet, TypeOK, VoteSets, BlockVotes, noBlockVotes
<1>2. Voted = {}
  BY DEF Init, NewVoteSet, Voted
<1>3. \A b \in BlockIDs : /\ voteSet.votesByBlock[b] = noBlockVotes
                          /\ voteSet.votesByBlock[b].votes = {}
                          /\ voteSet.votesByBlock[b].sum = 0
  BY DEF Init, NewVoteSet, noBlockVotes
<1>4. voteSet.maj23 = None /\ voteSet.sum = 0 /\ voteSet.votesBitArray = {}
  BY DEF Init, NewVoteSet
<1>5. Power({}) = 0
  BY PowerAssumption
<1>6. TalliesAreExact
  BY <1>2, <1>3, <1>4, <1>5 DEF TalliesAreExact
<1>7. Consistent
  BY <1>2, <1>3, <1>4 DEF Consistent
<1>8. QuorumIsNoticed
  BY <1>3, QuorumThreshold DEF QuorumIsNoticed
<1>9. ConflictsOnlyWhereClaimed
  BY <1>3 DEF ConflictsOnlyWhereClaimed
<1>. QED  BY <1>1, <1>6, <1>7, <1>8, <1>9 DEF IInv

\* The types of what an accepted vote is added to.
LEMMA FieldTypes ==
    ASSUME TypeOK
    PROVE  /\ voteSet.votes \in [Validators -> BlockIDs \cup {None}]
           /\ voteSet.sum \in Nat
           /\ voteSet.maj23 \in BlockIDs \cup {None}
           /\ voteSet.votesBitArray \in SUBSET Validators
           /\ voteSet.votesByBlock \in [BlockIDs -> BlockVotes]
           /\ \A b \in BlockIDs :
                 /\ voteSet.votesByBlock[b] \in BlockVotes
                 /\ voteSet.votesByBlock[b].votes \in SUBSET Validators
                 /\ voteSet.votesByBlock[b].sum \in Nat
                 /\ voteSet.votesByBlock[b].tracked \in BOOLEAN
                 /\ voteSet.votesByBlock[b].peerMaj23 \in BOOLEAN
           /\ Voted \in SUBSET Validators
<1>1. /\ voteSet.votes \in [Validators -> BlockIDs \cup {None}]
      /\ voteSet.sum \in Nat
      /\ voteSet.maj23 \in BlockIDs \cup {None}
      /\ voteSet.votesBitArray \in SUBSET Validators
      /\ voteSet.votesByBlock \in [BlockIDs -> BlockVotes]
  BY DEF TypeOK, VoteSets
<1>2. \A b \in BlockIDs : voteSet.votesByBlock[b] \in BlockVotes
  BY <1>1
<1>. QED  BY <1>1, <1>2 DEF BlockVotes, Voted

\* A conflicting vote that is not counted for its block: it changes at most
\* the canonical vote of its validator, to the majority block.
LEMMA NotKeptIInv ==
    ASSUME IInv, NEW vote \in Votes, acceptable(voteSet, vote),
           ~ keptByBlock(voteSet, vote),
           voteSet' = recordCanonical(voteSet, vote)
    PROVE  IInv'
<1>. DEFINE v == vote.val
            b == vote.block
<1>1. TypeOK
  BY DEF IInv
<1>2. v \in Validators /\ b \in BlockIDs /\ b # None
  BY NoneAssumption DEF Votes, acceptable
<1>3. voteSet.votes[v] # None
  BY DEF keptByBlock
<1>4. CASE voteSet.maj23 # b
  <2>1. voteSet' = voteSet
    BY <1>3, <1>4 DEF recordCanonical
  <2>. QED  BY <2>1 DEF IInv, TypeOK, TalliesAreExact, Consistent, Voted,
       QuorumIsNoticed, ConflictsOnlyWhereClaimed
<1>5. CASE voteSet.maj23 = b
  <2>1. voteSet' = [voteSet EXCEPT !.votes[v] = b, !.votesBitArray = @ \cup {v}]
    BY <1>3, <1>5 DEF recordCanonical
  <2>2. /\ voteSet'.votes = [voteSet.votes EXCEPT ![v] = b]
        /\ voteSet'.votesBitArray = voteSet.votesBitArray \cup {v}
        /\ voteSet'.sum = voteSet.sum
        /\ voteSet'.maj23 = voteSet.maj23
        /\ voteSet'.votesByBlock = voteSet.votesByBlock
    BY <1>1, <2>1 DEF TypeOK, VoteSets
  <2>3. Voted' = Voted /\ v \in Voted
    BY <1>1, <1>2, <1>3, <2>2, FieldTypes DEF Voted
  <2>4. TypeOK'
    <3>1. /\ [voteSet.votes EXCEPT ![v] = b] \in [Validators -> BlockIDs \cup {None}]
          /\ voteSet.votesBitArray \cup {v} \in SUBSET Validators
      BY <1>1, <1>2, FieldTypes
    <3>. HIDE DEF v, b
    <3>. QED  BY <1>1, <2>1, <3>1 DEF TypeOK, VoteSets
  <2>5. TalliesAreExact'
    BY <2>2, <2>3 DEF IInv, TalliesAreExact
  <2>6. Consistent'
    BY <1>1, <1>2, <1>5, <2>2, <2>3, FieldTypes DEF IInv, Consistent
  <2>7. QuorumIsNoticed' /\ ConflictsOnlyWhereClaimed'
    BY <2>2 DEF IInv, QuorumIsNoticed, ConflictsOnlyWhereClaimed,
       HasTwoThirdsMajority
  <2>. QED  BY <2>4, <2>5, <2>6, <2>7 DEF IInv
<1>. QED  BY <1>4, <1>5

\* A vote that is counted for its block, before the majority is looked at:
\* the fields of the set, and what the block's entry becomes.
LEMMA KeptFields ==
    ASSUME TypeOK, Consistent, NEW vote \in Votes, acceptable(voteSet, vote),
           keptByBlock(voteSet, vote),
           voteSet' = addVerifiedVote(voteSet, vote)
    PROVE  LET v == vote.val
               b == vote.block
               old == voteSet.votesByBlock[b]
               new == voteSet'.votesByBlock[b]
               first == voteSet.votes[v] = None
               crosses == old.sum < Quorum /\ Quorum <= new.sum /\ voteSet.maj23 = None
           IN  /\ voteSet' \in VoteSets({TheStep})
               /\ voteSet'.votesByBlock = [voteSet.votesByBlock EXCEPT ![b] = new]
               /\ new.tracked
               /\ new.peerMaj23 = old.peerMaj23
               /\ new.votes = old.votes \cup {v}
               /\ v \notin old.votes
               /\ new.sum = old.sum + Power({v})
               /\ voteSet'.sum = IF first THEN voteSet.sum + Power({v}) ELSE voteSet.sum
               /\ voteSet'.votesBitArray \in {voteSet.votesBitArray,
                                              voteSet.votesBitArray \cup {v}}
               /\ first => voteSet'.votesBitArray = voteSet.votesBitArray \cup {v}
               /\ voteSet'.maj23 = IF crosses THEN b ELSE voteSet.maj23
               /\ \A u \in Validators :
                     voteSet'.votes[u] = IF crosses /\ u \in new.votes THEN b
                                         ELSE IF u = v /\ (first \/ voteSet.maj23 = b)
                                         THEN b ELSE voteSet.votes[u]
<1>. DEFINE v == vote.val
            b == vote.block
            old == voteSet.votesByBlock[b]
            bv == IF old.tracked THEN old ELSE newBlockVotes(FALSE)
            nbv == [tracked |-> TRUE, peerMaj23 |-> old.peerMaj23,
                    votes |-> old.votes \cup {v}, sum |-> old.sum + Power({v})]
            first == voteSet.votes[v] = None
            c == recordCanonical(voteSet, vote)
            x == [c EXCEPT !.votesByBlock[b] = nbv]
            crosses == old.sum < Quorum /\ Quorum <= nbv.sum /\ voteSet.maj23 = None
<1>1. /\ v \in Validators
      /\ b \in BlockIDs
      /\ b # None
      /\ voteSet.votes[v] # b
      /\ v \notin old.votes
  BY NoneAssumption DEF Votes, acceptable, hasVote
<1>2. /\ old \in BlockVotes
      /\ Power({v}) \in Nat
      /\ old.votes \in SUBSET Validators
      /\ old.sum \in Nat
  BY <1>1, FieldTypes, PowerType
<1>3. /\ bv.votes = old.votes
      /\ bv.sum = old.sum
      /\ addToBlock(bv, v) = nbv
      /\ nbv \in BlockVotes
  <2>1. bv = [tracked |-> TRUE, peerMaj23 |-> old.peerMaj23,
              votes |-> old.votes, sum |-> old.sum]
    <3>1. CASE old.tracked
      <4>1. old.tracked = TRUE
        BY <1>2, <3>1 DEF BlockVotes
      <4>. HIDE DEF old
      <4>. QED  BY <1>2, <4>1 DEF BlockVotes
    <3>2. CASE ~ old.tracked
      <4>1. old = noBlockVotes
        BY <1>1, <3>2 DEF Consistent
      <4>2. newBlockVotes(FALSE) = [tracked |-> TRUE, peerMaj23 |-> FALSE,
                                    votes |-> {}, sum |-> 0]
        BY DEF newBlockVotes
      <4>3. old.peerMaj23 = FALSE /\ old.votes = {} /\ old.sum = 0
        BY <4>1 DEF noBlockVotes
      <4>4. bv = newBlockVotes(FALSE)
        BY <3>2
      <4>. HIDE DEF old, bv
      <4>. QED  BY <4>2, <4>3, <4>4
    <3>. QED  BY <3>1, <3>2
  <2>. HIDE DEF bv
  <2>2. bv.votes = old.votes /\ bv.sum = old.sum
    BY <2>1
  <2>3. addToBlock(bv, v) = [bv EXCEPT !.votes = old.votes \cup {v},
                                       !.sum = old.sum + Power({v})]
    BY <1>1, <2>2 DEF addToBlock
  <2>4. nbv \in BlockVotes
    BY <1>1, <1>2 DEF BlockVotes
  <2>. QED  BY <2>1, <2>2, <2>3, <2>4
<1>4. voteSet' = recordMajority(x, b, old.sum)
  BY <1>3 DEF addVerifiedVote
<1>5. /\ c \in VoteSets({TheStep})
      /\ c.maj23 = voteSet.maj23
      /\ c.votesByBlock = voteSet.votesByBlock
      /\ c.sum = IF first THEN voteSet.sum + Power({v}) ELSE voteSet.sum
      /\ c.votesBitArray \in {voteSet.votesBitArray, voteSet.votesBitArray \cup {v}}
      /\ first => c.votesBitArray = voteSet.votesBitArray \cup {v}
      /\ \A u \in Validators :
            c.votes[u] = IF u = v /\ (first \/ voteSet.maj23 = b)
                         THEN b ELSE voteSet.votes[u]
  <2>1. /\ [voteSet.votes EXCEPT ![v] = b] \in [Validators -> BlockIDs \cup {None}]
        /\ voteSet.votesBitArray \cup {v} \in SUBSET Validators
        /\ voteSet.sum + Power({v}) \in Nat
    BY <1>1, <1>2, FieldTypes
  <2>2. CASE first
    <3>1. c = [voteSet EXCEPT !.votes = [voteSet.votes EXCEPT ![v] = b],
                              !.votesBitArray = voteSet.votesBitArray \cup {v},
                              !.sum = voteSet.sum + Power({v})]
      BY <2>2 DEF recordCanonical
    <3>2. \A u \in Validators : [voteSet.votes EXCEPT ![v] = b][u] =
                                  IF u = v THEN b ELSE voteSet.votes[u]
      BY <1>1, FieldTypes
    <3>. HIDE DEF c, v, b
    <3>. QED  BY <2>1, <2>2, <3>1, <3>2 DEF TypeOK, VoteSets
  <2>3. CASE ~ first /\ voteSet.maj23 = b
    <3>1. c = [voteSet EXCEPT !.votes = [voteSet.votes EXCEPT ![v] = b],
                              !.votesBitArray = voteSet.votesBitArray \cup {v}]
      BY <2>3 DEF recordCanonical
    <3>2. \A u \in Validators : [voteSet.votes EXCEPT ![v] = b][u] =
                                  IF u = v THEN b ELSE voteSet.votes[u]
      BY <1>1, FieldTypes
    <3>. HIDE DEF c, v, b
    <3>. QED  BY <2>1, <2>3, <3>1, <3>2 DEF TypeOK, VoteSets
  <2>4. CASE ~ first /\ voteSet.maj23 # b
    <3>1. c = voteSet
      BY <2>4 DEF recordCanonical
    <3>. QED  BY <2>4, <3>1 DEF TypeOK
  <2>. QED  BY <2>2, <2>3, <2>4
<1>6. /\ x \in VoteSets({TheStep})
      /\ x.maj23 = voteSet.maj23
      /\ x.sum = c.sum
      /\ x.votes = c.votes
      /\ x.votesBitArray = c.votesBitArray
      /\ x.votesByBlock = [voteSet.votesByBlock EXCEPT ![b] = nbv]
      /\ x.votesByBlock[b] = nbv
  <2>1. x = [c EXCEPT !.votesByBlock = [c.votesByBlock EXCEPT ![b] = nbv]]
    OBVIOUS
  <2>2. [c.votesByBlock EXCEPT ![b] = nbv] \in [BlockIDs -> BlockVotes]
    BY <1>1, <1>3, <1>5, FieldTypes
  <2>3. [c.votesByBlock EXCEPT ![b] = nbv][b] = nbv
    BY <1>1, <1>5, FieldTypes
  <2>. HIDE DEF c, nbv, b, x
  <2>. QED  BY <1>5, <2>1, <2>2, <2>3 DEF VoteSets
<1>. HIDE DEF c, x, bv
<1>7. CASE crosses
  <2>. DEFINE f == [u \in Validators |-> IF u \in nbv.votes THEN b ELSE x.votes[u]]
  <2>1. voteSet' = [x EXCEPT !.maj23 = b, !.votes = f]
    BY <1>4, <1>6, <1>7 DEF recordMajority
  <2>2. f \in [Validators -> BlockIDs \cup {None}]
    BY <1>1, <1>6 DEF VoteSets
  <2>3. \A u \in Validators : f[u] = IF u \in nbv.votes THEN b ELSE x.votes[u]
    OBVIOUS
  <2>. HIDE DEF f
  <2>4. /\ voteSet' \in VoteSets({TheStep})
        /\ voteSet'.maj23 = b
        /\ voteSet'.votes = f
        /\ voteSet'.sum = x.sum
        /\ voteSet'.votesBitArray = x.votesBitArray
        /\ voteSet'.votesByBlock = x.votesByBlock
    BY <1>1, <1>6, <2>1, <2>2 DEF VoteSets
  <2>5. voteSet'.votesByBlock[b] = nbv
    BY <1>6, <2>4
  <2>6. \A u \in Validators :
           voteSet'.votes[u] = IF u \in nbv.votes THEN b ELSE voteSet.votes[u]
    BY <1>1, <1>5, <1>6, <2>3, <2>4
  <2>7. /\ nbv.tracked
        /\ nbv.peerMaj23 = old.peerMaj23
        /\ nbv.votes = old.votes \cup {v}
        /\ nbv.sum = old.sum + Power({v})
    OBVIOUS
  <2>. HIDE DEF nbv
  <2>. QED  BY <1>1, <1>5, <1>6, <1>7, <2>4, <2>5, <2>6, <2>7
<1>8. CASE ~ crosses
  <2>1. voteSet' = x
    BY <1>4, <1>6, <1>8 DEF recordMajority
  <2>2. /\ voteSet' \in VoteSets({TheStep})
        /\ voteSet'.maj23 = voteSet.maj23
        /\ voteSet'.sum = c.sum
        /\ voteSet'.votes = c.votes
        /\ voteSet'.votesBitArray = c.votesBitArray
        /\ voteSet'.votesByBlock = [voteSet.votesByBlock EXCEPT ![b] = nbv]
        /\ voteSet'.votesByBlock[b] = nbv
    BY <1>6, <2>1
  <2>3. /\ nbv.tracked
        /\ nbv.peerMaj23 = old.peerMaj23
        /\ nbv.votes = old.votes \cup {v}
        /\ nbv.sum = old.sum + Power({v})
    OBVIOUS
  <2>. HIDE DEF nbv
  <2>. QED  BY <1>1, <1>5, <1>8, <2>2, <2>3
<1>. QED  BY <1>7, <1>8

\* A vote that is counted for its block preserves the invariant.
LEMMA KeptIInv ==
    ASSUME IInv, NEW vote \in Votes, acceptable(voteSet, vote),
           keptByBlock(voteSet, vote),
           voteSet' = addVerifiedVote(voteSet, vote)
    PROVE  IInv'
<1>. DEFINE v == vote.val
            b == vote.block
            old == voteSet.votesByBlock[b]
            new == voteSet'.votesByBlock[b]
            first == voteSet.votes[v] = None
            crosses == old.sum < Quorum /\ Quorum <= new.sum /\ voteSet.maj23 = None
<1>1. TypeOK /\ Consistent /\ TalliesAreExact
  BY DEF IInv
<1>2. /\ v \in Validators
      /\ b \in BlockIDs
      /\ b # None
  BY NoneAssumption DEF Votes, acceptable
<1>3. /\ voteSet' \in VoteSets({TheStep})
      /\ voteSet'.votesByBlock = [voteSet.votesByBlock EXCEPT ![b] = new]
      /\ new.tracked
      /\ new.peerMaj23 = old.peerMaj23
      /\ new.votes = old.votes \cup {v}
      /\ v \notin old.votes
      /\ new.sum = old.sum + Power({v})
  BY <1>1, KeptFields
<1>4. /\ voteSet'.sum = IF first THEN voteSet.sum + Power({v}) ELSE voteSet.sum
      /\ voteSet'.votesBitArray \in {voteSet.votesBitArray,
                                     voteSet.votesBitArray \cup {v}}
      /\ first => voteSet'.votesBitArray = voteSet.votesBitArray \cup {v}
      /\ voteSet'.maj23 = IF crosses THEN b ELSE voteSet.maj23
      /\ \A u \in Validators :
            voteSet'.votes[u] = IF crosses /\ u \in new.votes THEN b
                                ELSE IF u = v /\ (first \/ voteSet.maj23 = b)
                                THEN b ELSE voteSet.votes[u]
  BY <1>1, KeptFields
<1>5. keptByBlock(voteSet, vote) = (first \/ (old.tracked /\ old.peerMaj23))
  BY DEF keptByBlock
<1>6. /\ old.votes \in SUBSET Validators
      /\ old.votes \subseteq Voted
      /\ old.sum \in Nat
      /\ old.sum = Power(old.votes)
      /\ Voted \in SUBSET Validators
      /\ voteSet.sum \in Nat
      /\ voteSet.maj23 \in BlockIDs \cup {None}
      /\ Power({v}) \in Nat
  BY <1>1, <1>2, FieldTypes, PowerType DEF Consistent, TalliesAreExact
<1>7. \A a \in BlockIDs : a # b => voteSet'.votesByBlock[a] = voteSet.votesByBlock[a]
  BY <1>1, <1>3, FieldTypes
<1>. HIDE DEF v, b, old, new
<1>8. Voted' = Voted \cup {v}
  <2>1. \A u \in Validators : u \in new.votes => u = v \/ u \in Voted
    BY <1>3, <1>6
  <2>2. \A u \in Validators : voteSet'.votes[u] # None <=> (u = v \/ u \in Voted)
    BY <1>2, <1>4, <2>1 DEF Voted, first
  <2>. QED  BY <1>2, <1>6, <2>2 DEF Voted
<1>9. TypeOK'
  BY <1>3 DEF TypeOK
<1>10. TalliesAreExact'
  <2>1. voteSet'.sum = Power(Voted)'
    <3>1. CASE first
      <4>1. v \notin Voted
        BY <3>1 DEF Voted
      <4>. QED  BY <1>1, <1>2, <1>4, <1>6, <1>8, <3>1, <4>1, PowerAdd DEF TalliesAreExact
    <3>2. CASE ~ first
      <4>1. Voted' = Voted
        BY <1>2, <1>8, <3>2 DEF Voted
      <4>. QED  BY <1>1, <1>4, <3>2, <4>1 DEF TalliesAreExact
    <3>. QED  BY <3>1, <3>2
  <2>2. voteSet'.votesBitArray = Voted'
    <3>1. CASE first
      BY <1>1, <1>4, <1>8, <3>1 DEF TalliesAreExact
    <3>2. CASE ~ first
      <4>1. v \in Voted
        BY <1>2, <3>2 DEF Voted
      <4>. QED  BY <1>1, <1>4, <1>8, <4>1 DEF TalliesAreExact
    <3>. QED  BY <3>1, <3>2
  <2>3. new.sum = Power(new.votes)
    BY <1>2, <1>3, <1>6, PowerAdd
  <2>4. ASSUME NEW a \in BlockIDs
        PROVE  voteSet'.votesByBlock[a].sum = Power(voteSet'.votesByBlock[a].votes)
    BY <1>1, <1>7, <2>3 DEF TalliesAreExact, new, b
  <2>. QED  BY <2>1, <2>2, <2>4 DEF TalliesAreExact
<1>11. QuorumIsNoticed'
  <2>. SUFFICES ASSUME NEW a \in BlockIDs, voteSet'.votesByBlock[a].sum >= Quorum
                PROVE  voteSet'.maj23 # None
    BY DEF QuorumIsNoticed, HasTwoThirdsMajority
  <2>1. CASE a # b
    BY <1>2, <1>4, <1>7, <2>1 DEF IInv, QuorumIsNoticed, HasTwoThirdsMajority
  <2>2. CASE a = b /\ old.sum >= Quorum
    BY <1>2, <1>4, <2>2 DEF IInv, QuorumIsNoticed, HasTwoThirdsMajority, old
  <2>3. CASE a = b /\ ~ (old.sum >= Quorum)
    <3>1. old.sum < Quorum /\ Quorum <= new.sum
      BY <1>3, <1>6, <2>3, QuorumThreshold DEF new
    <3>. QED  BY <1>2, <1>4, <3>1
  <2>. QED  BY <2>1, <2>2, <2>3
<1>12. Consistent'
  <2>1. ASSUME NEW a \in BlockIDs
        PROVE  /\ voteSet'.votesByBlock[a].votes \subseteq Voted'
               /\ ~ voteSet'.votesByBlock[a].tracked =>
                     voteSet'.votesByBlock[a] = noBlockVotes
    <3>1. CASE a # b
      BY <1>1, <1>7, <1>8, <3>1 DEF Consistent
    <3>2. CASE a = b
      BY <1>3, <1>6, <1>8, <3>2 DEF new
    <3>. QED  BY <3>1, <3>2
  <2>2. ASSUME voteSet'.maj23 # None
        PROVE  /\ voteSet'.votesByBlock[voteSet'.maj23].sum >= Quorum
               /\ \A u \in voteSet'.votesByBlock[voteSet'.maj23].votes :
                     voteSet'.votes[u] = voteSet'.maj23
    <3>1. CASE crosses
      <4>1. /\ voteSet'.maj23 = b
            /\ new.sum >= Quorum
            /\ new.votes \subseteq Validators
        BY <1>2, <1>3, <1>4, <1>6, <3>1, QuorumThreshold
      <4>. QED  BY <1>4, <3>1, <4>1 DEF new
    <3>2. CASE ~ crosses /\ voteSet.maj23 = b
      <4>1. voteSet'.maj23 = b /\ voteSet.maj23 # None
        BY <1>2, <1>4, <3>2
      <4>2. old.sum >= Quorum /\ \A u \in old.votes : voteSet.votes[u] = b
        BY <1>1, <3>2, <4>1 DEF Consistent, old
      <4>3. new.sum >= Quorum
        BY <1>3, <1>6, <4>2, QuorumThreshold
      <4>4. \A u \in new.votes : voteSet'.votes[u] = b
        BY <1>2, <1>3, <1>4, <1>6, <3>2, <4>2
      <4>. QED  BY <4>1, <4>3, <4>4 DEF new
    <3>3. CASE ~ crosses /\ voteSet.maj23 # b
      <4>1. voteSet'.maj23 = voteSet.maj23 /\ voteSet.maj23 \in BlockIDs
        BY <1>4, <1>6, <2>2, <3>3
      <4>2. voteSet'.votesByBlock[voteSet.maj23] = voteSet.votesByBlock[voteSet.maj23]
        BY <1>7, <3>3, <4>1
      <4>3. \A u \in voteSet.votesByBlock[voteSet.maj23].votes :
               u \in Validators /\ u \in Voted /\ voteSet.votes[u] = voteSet.maj23
        BY <1>1, <1>6, <2>2, <4>1 DEF Consistent
      <4>4. \A u \in voteSet.votesByBlock[voteSet.maj23].votes :
               voteSet'.votes[u] = voteSet.maj23
        BY <1>4, <3>3, <4>1, <4>3 DEF Voted, first
      <4>. QED  BY <1>1, <2>2, <4>1, <4>2, <4>4 DEF Consistent
    <3>. QED  BY <3>1, <3>2, <3>3
  <2>. QED  BY <2>1, <2>2 DEF Consistent
<1>13. ConflictsOnlyWhereClaimed'
  <2>. SUFFICES ASSUME NEW u \in Validators, NEW a \in BlockIDs, NEW c \in BlockIDs,
                       u \in voteSet'.votesByBlock[a].votes,
                       u \in voteSet'.votesByBlock[c].votes,
                       a # c
                PROVE  \/ voteSet'.votesByBlock[a].peerMaj23
                       \/ voteSet'.votesByBlock[c].peerMaj23
    BY DEF ConflictsOnlyWhereClaimed
  <2>1. \A d \in BlockIDs :
           voteSet'.votesByBlock[d].peerMaj23 = voteSet.votesByBlock[d].peerMaj23
    BY <1>3, <1>7 DEF new, old
  <2>2. \A d \in BlockIDs : u \in voteSet'.votesByBlock[d].votes =>
           u \in voteSet.votesByBlock[d].votes \/ (d = b /\ u = v)
    BY <1>3, <1>7 DEF new, old
  <2>3. CASE u \in voteSet.votesByBlock[a].votes /\ u \in voteSet.votesByBlock[c].votes
    BY <2>1, <2>3 DEF IInv, ConflictsOnlyWhereClaimed
  <2>4. CASE u = v /\ (a = b \/ c = b)
    <3>1. u \in Voted
      BY <1>1, <2>2, <2>4 DEF Consistent
    <3>2. old.peerMaj23
      BY <1>5, <2>4, <3>1 DEF Voted, first
    <3>. QED  BY <2>1, <2>4, <3>2 DEF old
  <2>. QED  BY <2>2, <2>3, <2>4
<1>. QED  BY <1>9, <1>10, <1>11, <1>12, <1>13 DEF IInv

\* A peer's claim preserves the invariant.
LEMMA ClaimIInv ==
    ASSUME IInv, NEW peer \in Peers, NEW block \in BlockIDs,
           ReceiveMaj23Claim(peer, block)
    PROVE  IInv'
<1>. DEFINE old == voteSet.votesByBlock[block]
            new == [tracked |-> TRUE, peerMaj23 |-> TRUE,
                    votes |-> old.votes, sum |-> old.sum]
<1>1. TypeOK /\ Consistent
  BY DEF IInv
<1>2. CASE voteSet.peerMaj23s[peer] # None
  <2>1. voteSet' = voteSet
    BY <1>2 DEF ReceiveMaj23Claim, SetPeerMaj23
  <2>. QED  BY <2>1 DEF IInv, TypeOK, TalliesAreExact, Consistent, Voted,
       QuorumIsNoticed, ConflictsOnlyWhereClaimed
<1>3. CASE voteSet.peerMaj23s[peer] = None
  <2>1. old \in BlockVotes /\ new \in BlockVotes
    <3>1. old \in BlockVotes
      BY <1>1, FieldTypes
    <3>. HIDE DEF old
    <3>. QED  BY <3>1 DEF BlockVotes
  <2>2. (IF old.tracked THEN [old EXCEPT !.peerMaj23 = TRUE] ELSE newBlockVotes(TRUE))
           = new
    <3>1. CASE old.tracked
      <4>1. old.tracked = TRUE
        BY <2>1, <3>1 DEF BlockVotes
      <4>. HIDE DEF old
      <4>. QED  BY <2>1, <4>1 DEF BlockVotes, new
    <3>2. CASE ~ old.tracked
      <4>1. old = noBlockVotes
        BY <1>1, <3>2 DEF Consistent
      <4>2. old.votes = {} /\ old.sum = 0
        BY <4>1 DEF noBlockVotes
      <4>. HIDE DEF old
      <4>. QED  BY <3>2, <4>2 DEF newBlockVotes
    <3>. QED  BY <3>1, <3>2
  <2>. HIDE DEF new
  <2>3. voteSet' = [voteSet EXCEPT
                      !.peerMaj23s = [voteSet.peerMaj23s EXCEPT ![peer] = block],
                      !.votesByBlock = [voteSet.votesByBlock EXCEPT ![block] = new]]
    BY <1>3, <2>2 DEF ReceiveMaj23Claim, SetPeerMaj23
  <2>4. /\ [voteSet.peerMaj23s EXCEPT ![peer] = block] \in [Peers -> BlockIDs \cup {None}]
        /\ [voteSet.votesByBlock EXCEPT ![block] = new] \in [BlockIDs -> BlockVotes]
    <3>1. voteSet.peerMaj23s \in [Peers -> BlockIDs \cup {None}]
      BY <1>1 DEF TypeOK, VoteSets
    <3>. QED  BY <1>1, <2>1, <3>1, FieldTypes
  <2>5. /\ TypeOK'
        /\ voteSet'.votes = voteSet.votes
        /\ voteSet'.sum = voteSet.sum
        /\ voteSet'.maj23 = voteSet.maj23
        /\ voteSet'.votesBitArray = voteSet.votesBitArray
        /\ voteSet'.votesByBlock = [voteSet.votesByBlock EXCEPT ![block] = new]
    BY <1>1, <2>3, <2>4 DEF TypeOK, VoteSets
  <2>6. \A b \in BlockIDs :
           /\ voteSet'.votesByBlock[b].votes = voteSet.votesByBlock[b].votes
           /\ voteSet'.votesByBlock[b].sum = voteSet.votesByBlock[b].sum
           /\ voteSet.votesByBlock[b].peerMaj23 => voteSet'.votesByBlock[b].peerMaj23
           /\ ~ voteSet'.votesByBlock[b].tracked =>
                 b # block /\ voteSet'.votesByBlock[b] = voteSet.votesByBlock[b]
    BY <1>1, <2>5, FieldTypes DEF new
  <2>7. Voted' = Voted
    BY <2>5 DEF Voted
  <2>8. TalliesAreExact'
    BY <2>5, <2>6, <2>7 DEF IInv, TalliesAreExact
  <2>9. Consistent'
    BY <1>1, <2>5, <2>6, <2>7, FieldTypes DEF Consistent
  <2>10. QuorumIsNoticed' /\ ConflictsOnlyWhereClaimed'
    BY <2>5, <2>6 DEF IInv, QuorumIsNoticed, ConflictsOnlyWhereClaimed,
       HasTwoThirdsMajority
  <2>. QED  BY <2>5, <2>8, <2>9, <2>10 DEF IInv
<1>. QED  BY <1>2, <1>3

\* Every call preserves the invariant.
LEMMA NextIInv == IInv /\ [Next]_voteSet => IInv'
<1>. SUFFICES ASSUME IInv, [Next]_voteSet PROVE IInv'
  OBVIOUS
<1>1. ASSUME NEW vote \in Votes, ReceiveVote(vote) PROVE IInv'
  <2>1. CASE ~ acceptable(voteSet, vote)
    <3>1. voteSet' = voteSet
      BY <1>1, <2>1 DEF ReceiveVote, AddVote
    <3>. QED  BY <3>1 DEF IInv, TypeOK, TalliesAreExact, Consistent, Voted,
         QuorumIsNoticed, ConflictsOnlyWhereClaimed
  <2>2. CASE acceptable(voteSet, vote)
    <3>1. voteSet' = addVerifiedVote(voteSet, vote)
      BY <1>1, <2>2 DEF ReceiveVote, AddVote
    <3>2. CASE keptByBlock(voteSet, vote)
      BY <2>2, <3>1, <3>2, KeptIInv
    <3>3. CASE ~ keptByBlock(voteSet, vote)
      <4>1. voteSet' = recordCanonical(voteSet, vote)
        BY <3>1, <3>3 DEF addVerifiedVote
      <4>. QED  BY <2>2, <3>3, <4>1, NotKeptIInv
    <3>. QED  BY <3>2, <3>3
  <2>. QED  BY <2>1, <2>2
<1>2. ASSUME NEW peer \in Peers, NEW block \in BlockIDs, ReceiveMaj23Claim(peer, block)
      PROVE  IInv'
  BY <1>2, ClaimIInv
<1>3. CASE voteSet' = voteSet
  BY <1>3 DEF IInv, TypeOK, TalliesAreExact, Consistent, Voted,
     QuorumIsNoticed, ConflictsOnlyWhereClaimed
<1>. QED  BY <1>1, <1>2, <1>3 DEF Next

\* The invariant holds in every reachable state of a VoteSet.
THEOREM Invariance == Spec => []IInv
BY InitIInv, NextIInv, PTL DEF Spec

\* Type correctness of VoteSet.
THEOREM TypeCorrect == Spec => []TypeOK
<1>1. IInv => TypeOK
  BY DEF IInv
<1>. QED  BY <1>1, Invariance, PTL

\* However validators double sign and peers claim, addVerifiedVote keeps the
\* tallies equal to the power of the validators counted.
THEOREM TalliesCorrect == Spec => []TalliesAreExact
<1>1. IInv => TalliesAreExact
  BY DEF IInv
<1>. QED  BY <1>1, Invariance, PTL

\* No block reaches the quorum without the set reporting a majority.
THEOREM QuorumNoticed == Spec => []QuorumIsNoticed
<1>1. IInv => QuorumIsNoticed
  BY DEF IInv
<1>. QED  BY <1>1, Invariance, PTL

\* The memory bound: outside the blocks peers vouch for, one vote a validator.
THEOREM ConflictsBounded == Spec => []ConflictsOnlyWhereClaimed
<1>1. IInv => ConflictsOnlyWhereClaimed
  BY DEF IInv
<1>. QED  BY <1>1, Invariance, PTL

\* A commit made from a set with a majority (MakeCommit) passes VerifyCommit:
\* the votes counted for the majority block are all canonical.
THEOREM CommitCorrect == Spec => []CommitVerifies
<1>1. IInv => CommitVerifies
  <2>. SUFFICES ASSUME IInv, voteSet.maj23 # None
                PROVE  VerifyCommit(voteSet.maj23, MakeCommit(voteSet))
    BY DEF CommitVerifies, HasTwoThirdsMajority
  <2>. DEFINE counted == voteSet.votesByBlock[voteSet.maj23].votes
              canonical == {v \in Validators : voteSet.votes[v] = voteSet.maj23}
  <2>1. TypeOK /\ Consistent /\ TalliesAreExact
    BY DEF IInv
  <2>2. voteSet.maj23 \in BlockIDs
    BY <2>1, FieldTypes
  <2>3. /\ counted \in SUBSET Validators
        /\ canonical \in SUBSET Validators
        /\ counted \subseteq canonical
        /\ Power(counted) >= Quorum
    BY <2>1, <2>2, FieldTypes DEF Consistent, TalliesAreExact
  <2>. HIDE DEF counted
  <2>4. Power(canonical) >= Quorum
    <3>. HIDE DEF canonical
    <3>. QED  BY <2>3, PowerMonotone, PowerType, QuorumThreshold
  <2>5. Power(canonical) > ((TotalVotingPower * 2) \div 3)
    <3>. HIDE DEF canonical
    <3>. QED  BY <2>3, <2>4, PowerType, QuorumThreshold
  <2>. QED  BY <2>5 DEF VerifyCommit, MakeCommit
<1>. QED  BY <1>1, Invariance, PTL

\* What the consensus engine acted upon is not taken back: no call of AddVote
\* or SetPeerMaj23 changes a reported majority, un-counts a validator, or makes
\* a canonical vote anything but one for the majority block.
THEOREM NotTakenBack == Spec => NothingIsTakenBack
<1>. DEFINE Stable ==
       /\ HasTwoThirdsMajority(voteSet) => voteSet'.maj23 = voteSet.maj23
       /\ \A b \in BlockIDs :
             voteSet.votesByBlock[b].votes \subseteq voteSet'.votesByBlock[b].votes
       /\ \A v \in Voted : voteSet'.votes[v] \in {voteSet.votes[v], voteSet'.maj23}
<1>1. IInv /\ [Next]_voteSet => [Stable]_voteSet
  <2>. SUFFICES ASSUME IInv, Next PROVE [Stable]_voteSet
    OBVIOUS
  <2>1. TypeOK /\ Consistent
    BY DEF IInv
  <2>2. ASSUME NEW vote \in Votes, ReceiveVote(vote) PROVE [Stable]_voteSet
    <3>1. CASE ~ acceptable(voteSet, vote)
      BY <2>2, <3>1 DEF ReceiveVote, AddVote
    <3>2. CASE acceptable(voteSet, vote) /\ ~ keptByBlock(voteSet, vote)
      <4>1. voteSet' = recordCanonical(voteSet, vote) /\ voteSet.votes[vote.val] # None
        BY <2>2, <3>2 DEF ReceiveVote, AddVote, addVerifiedVote, keptByBlock
      <4>2. CASE voteSet.maj23 # vote.block
        BY <4>1, <4>2 DEF recordCanonical
      <4>3. CASE voteSet.maj23 = vote.block
        <5>1. /\ voteSet'.votes = [voteSet.votes EXCEPT ![vote.val] = vote.block]
              /\ voteSet'.maj23 = voteSet.maj23
              /\ voteSet'.votesByBlock = voteSet.votesByBlock
          BY <2>1, <4>1, <4>3 DEF recordCanonical, TypeOK, VoteSets
        <5>. QED  BY <2>1, <4>3, <5>1, FieldTypes DEF Voted
      <4>. QED  BY <4>2, <4>3
    <3>3. CASE acceptable(voteSet, vote) /\ keptByBlock(voteSet, vote)
      <4>. DEFINE v == vote.val
                  b == vote.block
                  old == voteSet.votesByBlock[b]
                  new == voteSet'.votesByBlock[b]
      <4>1. voteSet' = addVerifiedVote(voteSet, vote)
        BY <2>2, <3>3 DEF ReceiveVote, AddVote
      <4>2. b \in BlockIDs /\ b # None
        BY NoneAssumption DEF Votes
      <4>3. /\ voteSet'.votesByBlock = [voteSet.votesByBlock EXCEPT ![b] = new]
            /\ new.votes = old.votes \cup {v}
        BY <2>1, <3>3, <4>1, KeptFields
      <4>4. \/ /\ voteSet'.maj23 = b
               /\ voteSet.maj23 = None
               /\ \A u \in Validators : voteSet'.votes[u] \in {b, voteSet.votes[u]}
            \/ /\ voteSet'.maj23 = voteSet.maj23
               /\ \A u \in Validators :
                     \/ voteSet'.votes[u] = voteSet.votes[u]
                     \/ voteSet.votes[u] = None
                     \/ voteSet'.votes[u] = voteSet.maj23
        BY <2>1, <3>3, <4>1, KeptFields
      <4>. HIDE DEF b, v
      <4>5. \A a \in BlockIDs :
               voteSet.votesByBlock[a].votes \subseteq voteSet'.votesByBlock[a].votes
        BY <2>1, <4>2, <4>3, FieldTypes
      <4>6. \A u \in Voted : voteSet'.votes[u] \in {voteSet.votes[u], voteSet'.maj23}
        BY <4>4 DEF Voted
      <4>. QED  BY <4>4, <4>5, <4>6 DEF HasTwoThirdsMajority
    <3>. QED  BY <3>1, <3>2, <3>3
  <2>3. ASSUME NEW peer \in Peers, NEW block \in BlockIDs, ReceiveMaj23Claim(peer, block)
        PROVE  [Stable]_voteSet
    <3>1. CASE voteSet.peerMaj23s[peer] # None
      BY <2>3, <3>1 DEF ReceiveMaj23Claim, SetPeerMaj23
    <3>2. CASE voteSet.peerMaj23s[peer] = None
      <4>. DEFINE old == voteSet.votesByBlock[block]
                  new == IF old.tracked THEN [old EXCEPT !.peerMaj23 = TRUE]
                         ELSE newBlockVotes(TRUE)
      <4>1. voteSet' = [voteSet EXCEPT
                !.peerMaj23s = [voteSet.peerMaj23s EXCEPT ![peer] = block],
                !.votesByBlock = [voteSet.votesByBlock EXCEPT ![block] = new]]
        BY <2>3, <3>2 DEF ReceiveMaj23Claim, SetPeerMaj23
      <4>2. old.votes \subseteq new.votes
        <5>1. CASE old.tracked
          <6>1. old \in BlockVotes
            BY <2>1, FieldTypes
          <6>. HIDE DEF old
          <6>. QED  BY <5>1, <6>1 DEF BlockVotes
        <5>2. CASE ~ old.tracked
          <6>1. old = noBlockVotes
            BY <2>1, <5>2 DEF Consistent
          <6>. QED  BY <6>1 DEF noBlockVotes
        <5>. QED  BY <5>1, <5>2
      <4>. HIDE DEF new
      <4>3. /\ voteSet'.votes = voteSet.votes
            /\ voteSet'.maj23 = voteSet.maj23
            /\ voteSet'.votesByBlock = [voteSet.votesByBlock EXCEPT ![block] = new]
        BY <2>1, <4>1 DEF TypeOK, VoteSets
      <4>4. \A a \in BlockIDs :
               voteSet.votesByBlock[a].votes \subseteq voteSet'.votesByBlock[a].votes
        BY <2>1, <4>2, <4>3, FieldTypes
      <4>. QED  BY <4>3, <4>4
    <3>. QED  BY <3>1, <3>2
  <2>. QED  BY <2>2, <2>3 DEF Next
<1>2. Spec => [][Stable]_voteSet
  <2>. HIDE DEF Stable
  <2>. QED  BY <1>1, Invariance, PTL DEF Spec
<1>. QED  BY <1>2 DEF NothingIsTakenBack

=============================================================================
