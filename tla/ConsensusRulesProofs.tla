------------------------ MODULE ConsensusRulesProofs ------------------------
(***************************************************************************)
(* Agreement, for any number of validators, any powers with less than a    *)
(* third faulty, any number of rounds and any blocks.                      *)
(***************************************************************************)
EXTENDS ConsensusRules, VotingPowerProofs, WellFoundedInduction

\* A non-empty set of rounds has a first one.
LEMMA FirstRound ==
    ASSUME NEW T, T \subseteq Nat, T # {}
    PROVE  \E first \in T : \A r \in T : ~ (r < first)
<1>1. \E x \in T : \A y \in T : ~ (<<y, x>> \in OpToRel(<, Nat))
  BY NatLessThanWellFounded, WFMin, Zenon
<1>. QED  BY <1>1 DEF OpToRel

\* Two sets of validators that reach the quorum share a correct validator.
LEMMA QuorumsShareCorrect ==
    ASSUME NEW S \in SUBSET Validators, NEW T \in SUBSET Validators,
           Power(S \cup Faulty) >= Quorum, Power(T \cup Faulty) >= Quorum
    PROVE  \E v \in Correct : v \in S /\ v \in T
<1>. DEFINE A == S \cup Faulty
            B == T \cup Faulty
<1>. SUFFICES ASSUME ~ \E v \in Correct : v \in S /\ v \in T
              PROVE  FALSE
  OBVIOUS
<1>1. /\ A \in SUBSET Validators
      /\ B \in SUBSET Validators
      /\ A \cup B \in SUBSET Validators
      /\ A \cap B \in SUBSET Validators
      /\ Faulty \in SUBSET Validators
      /\ Validators \in SUBSET Validators
      /\ A \cup B \subseteq Validators
      /\ A \cap B \subseteq Faulty
  BY FaultyAssumption DEF Correct
<1>2. Power(A) >= Quorum /\ Power(B) >= Quorum
  OBVIOUS
<1>. HIDE DEF A, B
<1>3. Power(A \cup B) + Power(A \cap B) = Power(A) + Power(B)
  BY <1>1, PowerAssumption
<1>4. Power(A \cup B) <= TotalVotingPower
  BY <1>1, PowerMonotone DEF TotalVotingPower
<1>5. Power(A \cap B) <= Power(Faulty)
  BY <1>1, PowerMonotone
<1>6. /\ Power(A) \in Nat
      /\ Power(B) \in Nat
      /\ Power(A \cup B) \in Nat
      /\ Power(A \cap B) \in Nat
      /\ Power(Faulty) \in Nat
      /\ TotalVotingPower \in Nat
  BY <1>1, PowerType DEF TotalVotingPower
<1>7. 3 * Quorum > 2 * TotalVotingPower
  BY <1>6 DEF Quorum
<1>8. Quorum \in Nat
  BY QuorumThreshold
<1>9. 3 * Power(Faulty) < TotalVotingPower
  BY FaultyAssumption
<1>. QED  BY <1>2, <1>3, <1>4, <1>5, <1>6, <1>7, <1>8, <1>9

\* Rounds are naturals, and the correct validators of a vote are validators.
LEMMA VotersType ==
    ASSUME NEW votes, NEW r, NEW b
    PROVE  /\ Voters(votes, r, b) \in SUBSET Correct
           /\ Voters(votes, r, b) \in SUBSET Validators
           /\ Voters(votes, r, b) \cup Faulty \in SUBSET Validators
BY FaultyAssumption DEF Voters, Correct

\* A precommitted block had a polka in its round.
PrecommitsHavePolkas ==
    \A v \in Correct : \A r \in Rounds : \A b \in NonNil :
        precommitted[v][r] = b => Polka(r, b)

\* A correct validator that prevoted against an earlier precommit of its own
\* was released by a polka in between.
LocksReleased ==
    \A v \in Correct : \A q, r \in Rounds : \A c \in NonNil :
        q < r /\ precommitted[v][q] = c /\ prevoted[v][r] \notin {None, c} =>
            \E p \in Rounds : \E d \in BlockIDs : q < p /\ p < r /\ d # c /\ Polka(p, d)

\* A decision rests on +2/3 precommits.
DecisionsBacked ==
    \A v \in Correct : decided[v] # None =>
        decided[v] \in NonNil /\ \E r \in Rounds : Committable(r, decided[v])

\* The inductive invariant.
IInv == RulesTypeOK /\ PrecommitsHavePolkas /\ LocksReleased /\ DecisionsBacked

\* Two quorums of one kind in one round are for the same block.
LEMMA OneQuorumPerRound ==
    ASSUME NEW votes, NEW r, NEW b, NEW c, Backed(votes, r, b), Backed(votes, r, c)
    PROVE  b = c
<1>1. PICK v \in Correct : v \in Voters(votes, r, b) /\ v \in Voters(votes, r, c)
  BY VotersType, QuorumsShareCorrect DEF Backed
<1>. QED  BY <1>1 DEF Voters

\* The argument for the locks: look at the first round after q with a polka for
\* something other than b.  One of its voters had precommitted b in round q,
\* so it was released by a polka against b in a round before the first one.
LEMMA IInvLocksHold == IInv => LocksHold
<1>. SUFFICES ASSUME IInv, NEW q \in Rounds, NEW b \in NonNil, Committable(q, b),
                     NEW r \in Rounds, NEW c \in BlockIDs, q < r, Polka(r, c), c # b
              PROVE  FALSE
  BY DEF LocksHold
<1>. DEFINE Against == {p \in Rounds : q < p /\ \E d \in BlockIDs : d # b /\ Polka(p, d)}
<1>1. Against \subseteq Nat /\ r \in Against
  BY RoundsAssumption
<1>2. PICK first \in Against : \A p \in Against : ~ (p < first)
  BY <1>1, FirstRound
<1>3. PICK d \in BlockIDs : d # b /\ Polka(first, d)
  OBVIOUS
<1>4. PICK v \in Correct : /\ v \in Voters(precommitted, q, b)
                           /\ v \in Voters(prevoted, first, d)
  BY <1>3, VotersType, QuorumsShareCorrect DEF Committable, Polka, Backed
<1>5. precommitted[v][q] = b /\ prevoted[v][first] = d
  BY <1>4 DEF Voters
<1>6. d \notin {None, b}
  BY <1>3, BlockAssumption
<1>7. PICK p \in Rounds : \E e \in BlockIDs : q < p /\ p < first /\ e # b /\ Polka(p, e)
  BY <1>2, <1>5, <1>6 DEF IInv, LocksReleased
<1>8. p \in Against /\ p < first
  BY <1>7
<1>. QED  BY <1>2, <1>8

\* Two decisions rest on +2/3 precommits, in one round (the quorums share a
\* correct validator) or in two (the later one had a polka, which the locks of
\* the earlier one allow only for the same block).
LEMMA IInvAgreement == IInv => Agreement
<1>. SUFFICES ASSUME IInv, NEW v \in Correct, NEW w \in Correct,
                     decided[v] # None, decided[w] # None
              PROVE  decided[v] = decided[w]
  BY DEF Agreement
<1>1. ASSUME NEW q \in Rounds, NEW r \in Rounds, NEW b \in NonNil, NEW c \in NonNil,
             Committable(q, b), Committable(r, c), q < r
      PROVE  b = c
  <2>1. PICK u \in Correct : /\ u \in Voters(precommitted, r, c)
                             /\ u \in Voters(precommitted, r, c)
    BY <1>1, VotersType, QuorumsShareCorrect DEF Committable, Backed
  <2>2. Polka(r, c)
    BY <2>1 DEF IInv, PrecommitsHavePolkas, Voters
  <2>. QED  BY <1>1, <2>2, IInvLocksHold DEF LocksHold, NonNil
<1>2. PICK q \in Rounds : decided[v] \in NonNil /\ Committable(q, decided[v])
  BY DEF IInv, DecisionsBacked
<1>3. PICK r \in Rounds : decided[w] \in NonNil /\ Committable(r, decided[w])
  BY DEF IInv, DecisionsBacked
<1>4. q \in Nat /\ r \in Nat
  BY RoundsAssumption
<1>5. CASE q = r
  BY <1>2, <1>3, <1>5, OneQuorumPerRound DEF Committable
<1>6. CASE q < r
  BY <1>1, <1>2, <1>3, <1>6
<1>7. CASE r < q
  BY <1>1, <1>2, <1>3, <1>7
<1>. QED  BY <1>4, <1>5, <1>6, <1>7

\* Votes are only added: one that was signed stays.
Grows(votes, later) ==
    \A v \in Correct : \A r \in Rounds : votes[v][r] # None => later[v][r] = votes[v][r]

\* More votes back what was backed.
LEMMA BackedStable ==
    ASSUME NEW votes, NEW later, Grows(votes, later),
           NEW r \in Rounds, NEW b \in BlockIDs, Backed(votes, r, b)
    PROVE  Backed(later, r, b)
<1>. DEFINE S == Voters(votes, r, b) \cup Faulty
            T == Voters(later, r, b) \cup Faulty
<1>1. b # None
  BY BlockAssumption
<1>2. S \subseteq T
  BY <1>1 DEF Grows, Voters
<1>3. S \in SUBSET Validators /\ T \in SUBSET Validators
  BY VotersType
<1>4. Power(S) <= Power(T) /\ Power(S) \in Nat /\ Power(T) \in Nat
  <2>. HIDE DEF S, T
  <2>. QED  BY <1>2, <1>3, PowerMonotone, PowerType
<1>5. Power(S) >= Quorum
  BY DEF Backed
<1>6. Power(T) >= Quorum
  <2>. HIDE DEF S, T
  <2>. QED  BY <1>4, <1>5, QuorumThreshold
<1>. QED  BY <1>6 DEF Backed

\* Before anyone has voted the invariant holds.
LEMMA InitIInv == RulesInit => IInv
<1>. SUFFICES ASSUME RulesInit PROVE IInv
  OBVIOUS
<1>1. RulesTypeOK
  BY DEF RulesInit, RulesTypeOK, VoteTable
<1>2. \A v \in Correct : /\ decided[v] = None
                         /\ \A r \in Rounds : precommitted[v][r] = None
  BY DEF RulesInit
<1>. QED  BY <1>1, <1>2, BlockAssumption
     DEF IInv, PrecommitsHavePolkas, LocksReleased, DecisionsBacked, NonNil

\* A step of one validator preserves the invariant.
LEMMA StepIInv ==
    ASSUME IInv, NEW v \in Correct, NEW r \in Rounds, Step(v, r)
    PROVE  IInv'
<1>. PICK prevote \in Prevotes(v, r), precommit \in Precommits(v, r),
          block \in Decisions(v) : Act(v, r, prevote, precommit, block)
  BY DEF Step
<1>1. /\ RulesTypeOK
      /\ prevoted \in VoteTable
      /\ precommitted \in VoteTable
      /\ decided \in [Correct -> NonNil \cup {None}]
  BY DEF IInv, RulesTypeOK
<1>2. /\ prevote \in BlockIDs \cup {None}
      /\ precommit \in BlockIDs \cup {None}
      /\ block \in NonNil \cup {None}
      /\ None \notin NonNil
  BY BlockAssumption DEF Prevotes, Precommits, Decisions, NonNil
<1>3. /\ prevote # None => /\ prevoted[v][r] = None
                           /\ NothingAfter(v, r)
                           /\ Released(v, r, prevote)
      /\ precommit # None => /\ precommitted[v][r] = None
                             /\ NothingAfter(v, r)
                             /\ precommit \in NonNil => Polka(r, precommit)
      /\ block # None => \E q \in Rounds : Committable(q, block)
  BY DEF Prevotes, Precommits, Decisions
<1>4. ASSUME NEW u \in Correct, NEW q \in Rounds
      PROVE  /\ prevoted'[u][q] = IF u = v /\ q = r /\ prevote # None
                                  THEN prevote ELSE prevoted[u][q]
             /\ precommitted'[u][q] = IF u = v /\ q = r /\ precommit # None
                                      THEN precommit ELSE precommitted[u][q]
  BY <1>1 DEF Act, VoteTable
<1>5. RulesTypeOK'
  <2>1. prevoted' \in VoteTable
    BY <1>1, <1>2 DEF Act, VoteTable
  <2>2. precommitted' \in VoteTable
    BY <1>1, <1>2 DEF Act, VoteTable
  <2>3. decided' \in [Correct -> NonNil \cup {None}]
    BY <1>1, <1>2 DEF Act
  <2>. QED  BY <2>1, <2>2, <2>3 DEF RulesTypeOK
<1>6. Grows(prevoted, prevoted') /\ Grows(precommitted, precommitted')
  BY <1>3, <1>4 DEF Grows
<1>7. \A q \in Rounds : \A b \in BlockIDs : Polka(q, b) => Backed(prevoted', q, b)
  BY <1>6, BackedStable DEF Polka
<1>8. \A q \in Rounds : \A b \in BlockIDs : Committable(q, b) => Backed(precommitted', q, b)
  BY <1>6, BackedStable DEF Committable
<1>9. PrecommitsHavePolkas'
  <2>. SUFFICES ASSUME NEW u \in Correct, NEW q \in Rounds, NEW b \in NonNil,
                       precommitted'[u][q] = b
                PROVE  Backed(prevoted', q, b)
    BY DEF PrecommitsHavePolkas, Polka
  <2>1. Polka(q, b)
    BY <1>2, <1>3, <1>4 DEF IInv, PrecommitsHavePolkas
  <2>. QED  BY <1>7, <2>1 DEF NonNil
<1>10. LocksReleased'
  <2>. SUFFICES ASSUME NEW u \in Correct, NEW q \in Rounds, NEW s \in Rounds,
                       NEW c \in NonNil, q < s, precommitted'[u][q] = c,
                       prevoted'[u][s] \notin {None, c}
                PROVE  \E p \in Rounds : \E d \in BlockIDs :
                          q < p /\ p < s /\ d # c /\ Backed(prevoted', p, d)
    BY DEF LocksReleased, Polka
  <2>1. \E p \in Rounds : \E d \in BlockIDs : q < p /\ p < s /\ d # c /\ Polka(p, d)
    <3>0. q \in Nat /\ s \in Nat /\ r \in Nat
      BY RoundsAssumption
    <3>1. CASE precommitted[u][q] = c /\ prevoted'[u][s] = prevoted[u][s]
      BY <3>1 DEF IInv, LocksReleased
    <3>2. CASE precommitted[u][q] = c /\ prevoted'[u][s] # prevoted[u][s]
      <4>1. u = v /\ s = r /\ prevote # None /\ prevoted'[u][s] = prevote
        BY <1>4, <3>2
      <4>. QED  BY <1>3, <3>2, <4>1 DEF Released
    <3>3. CASE precommitted[u][q] # c
      <4>1. u = v /\ q = r /\ precommit # None
        BY <1>4, <3>3
      <4>2. prevoted[u][s] = None
        BY <1>3, <3>0, <4>1 DEF NothingAfter
      <4>. QED  BY <1>4, <3>0, <4>1, <4>2
    <3>. QED  BY <3>1, <3>2, <3>3
  <2>. QED  BY <1>7, <2>1
<1>11. DecisionsBacked'
  <2>. SUFFICES ASSUME NEW u \in Correct, decided'[u] # None
                PROVE  /\ decided'[u] \in NonNil
                       /\ \E q \in Rounds : Backed(precommitted', q, decided'[u])
    BY DEF DecisionsBacked, Committable
  <2>1. decided'[u] = IF u = v /\ block # None THEN block ELSE decided[u]
    BY <1>1 DEF Act
  <2>2. \E b \in NonNil : b = decided'[u] /\ \E q \in Rounds : Committable(q, b)
    BY <1>2, <1>3, <2>1 DEF IInv, DecisionsBacked
  <2>. QED  BY <1>8, <2>2 DEF NonNil
<1>. QED  BY <1>5, <1>9, <1>10, <1>11 DEF IInv

\* The rules are an inductive invariant of the votes and decisions.
THEOREM Invariance == RulesSpec => []IInv
<1>1. IInv /\ [RulesNext]_rulesVars => IInv'
  <2>. SUFFICES ASSUME IInv, [RulesNext]_rulesVars PROVE IInv'
    OBVIOUS
  <2>1. ASSUME NEW v \in Correct, NEW r \in Rounds, Step(v, r) PROVE IInv'
    BY <2>1, StepIInv
  <2>2. CASE UNCHANGED rulesVars
    <3>1. prevoted' = prevoted /\ precommitted' = precommitted /\ decided' = decided
      BY <2>2 DEF rulesVars
    <3>2. RulesTypeOK' /\ PrecommitsHavePolkas'
      BY <3>1 DEF IInv, RulesTypeOK, PrecommitsHavePolkas, Polka
    <3>3. LocksReleased'
      BY <3>1 DEF IInv, LocksReleased, Polka
    <3>4. DecisionsBacked'
      BY <3>1 DEF IInv, DecisionsBacked, Committable
    <3>. QED  BY <3>2, <3>3, <3>4 DEF IInv
  <2>. QED  BY <2>1, <2>2 DEF RulesNext
<1>. QED  BY <1>1, InitIInv, PTL DEF RulesSpec

\* Type correctness of the votes and decisions.
THEOREM TypeCorrect == RulesSpec => []RulesTypeOK
<1>1. IInv => RulesTypeOK
  BY DEF IInv
<1>. QED  BY <1>1, Invariance, PTL

\* Validators that follow the voting rules of the engine never commit different
\* blocks at a height, as long as less than a third of the power is faulty.
THEOREM AgreementHolds == RulesSpec => []Agreement
BY Invariance, IInvAgreement, PTL

\* A block that can be committed in some round stays the only block with a
\* polka in later rounds.
THEOREM LocksHoldAlways == RulesSpec => []LocksHold
BY Invariance, IInvLocksHold, PTL

=============================================================================
