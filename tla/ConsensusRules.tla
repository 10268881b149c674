--------------------------- MODULE ConsensusRules ---------------------------
(***************************************************************************)
(* What the PBFT engine (consensus/pbft/state.go) promises about the votes *)
(* and decisions of the correct validators at one height.  A correct       *)
(* validator signs at most one prevote and one precommit a round, in       *)
(* rounds that never go back, precommits a block only in a round with a    *)
(* polka (+2/3 prevotes) for it, and after precommitting a block prevotes  *)
(* something else only once it has seen a later polka for something else.  *)
(* Faulty validators are not represented: they may have signed anything,   *)
(* so they count towards every quorum.                                     *)
(*                                                                         *)
(* ConsensusState implements this specification: the rules are what its    *)
(* Locked* fields, its guards and its step order amount to.                *)
(***************************************************************************)
EXTENDS VotingPower, VoteValues

CONSTANTS
    Faulty,        \* the validators that may deviate from the code
    Rounds,        \* the rounds of this height
    NilBlock       \* the zero BlockID of a nil vote

Correct == Validators \ Faulty

NonNil == BlockIDs \ {NilBlock}

ASSUME RoundsAssumption == Rounds \subseteq Nat

ASSUME BlockAssumption == NilBlock \in BlockIDs /\ None \notin BlockIDs

(***************************************************************************)
(* The fault model of the engine: less than one third of the power.        *)
(***************************************************************************)
ASSUME FaultyAssumption ==
    /\ Faulty \subseteq Validators
    /\ 3 * Power(Faulty) < TotalVotingPower

VARIABLES
    prevoted,      \* prevoted[v][r]: the prevote v signed in round r, or None
    precommitted,  \* precommitted[v][r]: its precommit
    decided        \* decided[v]: the block v has committed, or None

rulesVars == <<prevoted, precommitted, decided>>

VoteTable == [Correct -> [Rounds -> BlockIDs \cup {None}]]

RulesTypeOK == /\ prevoted \in VoteTable
          /\ precommitted \in VoteTable
          /\ decided \in [Correct -> NonNil \cup {None}]

\* The correct validators with this vote.
Voters(votes, r, b) == {v \in Correct : votes[v][r] = b}

\* Can +2/3 of the votes of round r be for b?
Backed(votes, r, b) == Power(Voters(votes, r, b) \cup Faulty) >= Quorum

Polka(r, b) == Backed(prevoted, r, b)

Committable(r, b) == Backed(precommitted, r, b)

\* v has signed nothing in a round after r.
NothingAfter(v, r) ==
    \A q \in Rounds : q > r => prevoted[v][q] = None /\ precommitted[v][q] = None

\* v is free to prevote b in round r: each block it has precommitted before, if
\* it is not b, was overridden by a polka between the two rounds.
Released(v, r, b) ==
    \A q \in Rounds : \A c \in NonNil :
        q < r /\ precommitted[v][q] = c /\ c # b =>
            \E p \in Rounds : \E d \in BlockIDs : q < p /\ p < r /\ d # c /\ Polka(p, d)

\* A mistake: a lock counts only in the round after it.
BugShortLock(v, r) ==
    {b \in BlockIDs :
        /\ prevoted[v][r] = None /\ NothingAfter(v, r)
        /\ r - 1 \in Rounds /\ precommitted[v][r - 1] \in NonNil => precommitted[v][r - 1] = b}
        \cup {None}

\* The prevotes and precommits v may sign in round r; None for not voting.
Prevotes(v, r) ==
    {b \in BlockIDs : prevoted[v][r] = None /\ NothingAfter(v, r) /\ Released(v, r, b)}
        \cup {None}

Precommits(v, r) ==
    {b \in BlockIDs : /\ precommitted[v][r] = None
                      /\ NothingAfter(v, r)
                      /\ b \in NonNil => Polka(r, b)}
        \cup {None}

\* The blocks v may commit; None for not committing.
Decisions(v) ==
    {b \in NonNil : decided[v] = None /\ \E r \in Rounds : Committable(r, b)} \cup {None}

(***************************************************************************)
(* One step of v: the engine may prevote, precommit and commit while it    *)
(* handles one message, all on the strength of votes it has received.      *)
(***************************************************************************)
Act(v, r, prevote, precommit, block) ==
    /\ prevoted' = IF prevote = None THEN prevoted
                   ELSE [prevoted EXCEPT ![v][r] = prevote]
    /\ precommitted' = IF precommit = None THEN precommitted
                       ELSE [precommitted EXCEPT ![v][r] = precommit]
    /\ decided' = IF block = None THEN decided ELSE [decided EXCEPT ![v] = block]

Step(v, r) ==
    LET prevotes == Prevotes(v, r)
        precommits == Precommits(v, r)
        decisions == Decisions(v)
    IN  \E prevote \in prevotes, precommit \in precommits, block \in decisions :
            Act(v, r, prevote, precommit, block)

RulesInit == /\ prevoted = [v \in Correct |-> [r \in Rounds |-> None]]
        /\ precommitted = [v \in Correct |-> [r \in Rounds |-> None]]
        /\ decided = [v \in Correct |-> None]

RulesNext == \E v \in Correct, r \in Rounds : Step(v, r)

RulesSpec == RulesInit /\ [][RulesNext]_rulesVars

-----------------------------------------------------------------------------

\* No two correct validators commit different blocks at a height.
Agreement ==
    \A v, w \in Correct : decided[v] # None /\ decided[w] # None =>
        decided[v] = decided[w]

\* Once a block can be committed, no later round has a polka for anything else:
\* the lock of the +1/3 correct validators that precommitted it holds.
LocksHold ==
    \A q \in Rounds : \A b \in NonNil : Committable(q, b) =>
        \A r \in Rounds : \A c \in BlockIDs : q < r /\ Polka(r, c) => c = b

=============================================================================
