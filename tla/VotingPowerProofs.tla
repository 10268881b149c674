------------------------- MODULE VotingPowerProofs -------------------------
(***************************************************************************)
(* What the proofs use about voting power.                                 *)
(***************************************************************************)
EXTENDS VotingPower, TLAPS

\* The power of a set of validators is a natural number.
LEMMA PowerType ==
    ASSUME NEW S \in SUBSET Validators
    PROVE  Power(S) \in Nat
BY PowerAssumption

\* Adding a validator that is not yet counted adds its power.
LEMMA PowerAdd ==
    ASSUME NEW S \in SUBSET Validators, NEW v \in Validators, v \notin S
    PROVE  /\ S \cup {v} \in SUBSET Validators
           /\ Power(S \cup {v}) = Power(S) + Power({v})
<1>1. /\ {v} \in SUBSET Validators
      /\ S \cup {v} \in SUBSET Validators
      /\ S \cap {v} = {}
  OBVIOUS
<1>2. Power(S \cup {v}) + Power(S \cap {v}) = Power(S) + Power({v})
  BY <1>1, PowerAssumption
<1>. QED  BY <1>1, <1>2, PowerAssumption

\* More validators have no less power.
LEMMA PowerMonotone ==
    ASSUME NEW S \in SUBSET Validators, NEW T \in SUBSET Validators, S \subseteq T
    PROVE  Power(S) <= Power(T)
<1>1. /\ T \ S \in SUBSET Validators
      /\ S \cup (T \ S) = T
      /\ S \cap (T \ S) = {}
  OBVIOUS
<1>2. Power(S \cup (T \ S)) + Power(S \cap (T \ S)) = Power(S) + Power(T \ S)
  BY <1>1, PowerAssumption
<1>. QED  BY <1>1, <1>2, PowerAssumption

\* The threshold of addVerifiedVote (quorum <= sum) and the one of
\* HasTwoThirdsAny and VerifyCommit (sum > total*2/3) are the same.
LEMMA QuorumThreshold ==
    /\ Quorum \in Nat \ {0}
    /\ \A n \in Nat : n >= Quorum <=> n > ((TotalVotingPower * 2) \div 3)
<1>1. TotalVotingPower \in Nat
  BY PowerAssumption DEF TotalVotingPower
<1>2. (TotalVotingPower * 2) \div 3 \in Nat
  BY <1>1
<1>. QED  BY <1>2 DEF Quorum

=============================================================================
