--------------------------- MODULE ConsensusState ---------------------------
(***************************************************************************)
(* consensus/pbft/state.go: the state machine of one PBFT node at one      *)
(* height, with its timer (ticker.go), its signer (priv_validator.go) and  *)
(* the vote bookkeeping of HeightVoteSet.  The node, Self, is modelled     *)
(* function by function; a ConsensusState is a value `cs' and each Go      *)
(* function an operator from one to the next, so that the one step of      *)
(* handling a message is the composition of all the calls it makes.        *)
(*                                                                         *)
(* The world around Self: the other correct validators vote as             *)
(* ConsensusRules allows, the faulty ones send anything, proposals of      *)
(* others are arbitrary, and messages arrive in any order, late, or never. *)
(*                                                                         *)
(* A block stands for its hash and for the header of its parts, and has    *)
(* one part.  A BlockID is a pair, hash and parts header, that need not be *)
(* of the same block.                                                      *)
(***************************************************************************)
EXTENDS HeightVoteSet, Sequences

CONSTANTS
    Self,          \* the validator this node is
    Faulty,        \* the validators that may deviate
    Blocks,        \* the blocks of this height
    NilHash,       \* the empty hash
    ValidBlocks,   \* the blocks that pass ValidateBlock
    Proposer(_),   \* Proposer(r): the validator whose turn round r is
    MaxRound,      \* bound: rounds are 0 .. MaxRound
    MaxInFlight,   \* bound: votes of the others that are on their way to us
    FaultyVotes,   \* bound: the BlockIDs faulty validators vote for
    FaultyRounds,  \* bound: the rounds they vote in
    Proposals,     \* bound: the proposals others send
    NewBlock,      \* what createProposalBlock makes of the mempool
    ExecOutcomes   \* what ApplyBlock may return: a subset of {"ok", "error"}

Rounds == 0 .. MaxRound

NilBlock == <<NilHash, NilHash>>        \* the zero BlockID

hash(id) == id[1]

PartsHeader(id) == id[2]

Correct == Validators \ Faulty

Others == Correct \ {Self}

VARIABLES
    cs,              \* the ConsensusState of Self
    peerPrevoted,    \* peerPrevoted[v][r]: what v in Others has prevoted
    peerPrecommitted,
    inFlight         \* the votes of Others that have not reached us yet

vars == <<cs, peerPrevoted, peerPrecommitted, inFlight>>

(***************************************************************************)
(* RoundStepType, in the order the code compares.                          *)
(***************************************************************************)
StepNewHeight == 1
StepNewRound == 2
StepPropose == 3
StepPrevote == 4
StepPrevoteWait == 5
StepPrecommit == 6
StepPrecommitWait == 7
StepCommit == 8

(***************************************************************************)
(* PartSet, of one part: `data' is the block the part in it came from.     *)
(***************************************************************************)
NewPartSetFromHeader(block) == [header |-> block, data |-> None]

HasHeader(parts, block) == parts # None /\ parts.header = block

\* NewConsensusState and OnStart: RoundState as updateToState leaves it, the
\* signer's memory, and the timer armed by scheduleRound0.
NewConsensusState ==
    [Height |-> 1, Round |-> 0, Step |-> StepNewHeight,
     Proposal |-> None, ProposalBlock |-> None, ProposalBlockParts |-> None,
     LockedRound |-> 0, LockedBlock |-> None, LockedBlockParts |-> None,
     Votes |-> NewHeightVoteSet, CommitRound |-> -1, LastCommit |-> None,
     internalMsgQueue |-> <<>>,
     privVal |-> [round |-> 0, step |-> 0, bytes |-> None],
     ti |-> <<1, 0, StepNewHeight>>, tocks |-> {<<1, 0, StepNewHeight>>},
     stored |-> None,
     panic |-> "none",
     signed |-> [t \in VoteTypes |-> [r \in Rounds |-> None]],
     refused |-> FALSE]

Panic(s, what) == [s EXCEPT !.panic = what]

(***************************************************************************)
(* timeoutTicker: a tick for an older (height, round, step) than the last  *)
(* one, `ti', is ignored; any other replaces the timer.  A replaced timer  *)
(* may have fired just before, its tock carried by a goroutine of its own, *)
(* so every timeout ever accepted can be handed to us from then on.        *)
(***************************************************************************)
\* A mistake: a later step of the same round does not count.
BugSameRoundIgnored(ti, than) ==
    \/ ti[1] > than[1]
    \/ ti[1] = than[1] /\ ti[2] > than[2]

Newer(ti, than) ==
    \/ ti[1] > than[1]
    \/ ti[1] = than[1] /\ ti[2] > than[2]
    \/ ti[1] = than[1] /\ ti[2] = than[2] /\ ti[3] > than[3]

scheduleTimeout(s, round, step) ==
    LET ti == <<s.Height, round, step>> IN
    IF Newer(ti, s.ti) THEN [s EXCEPT !.ti = ti, !.tocks = @ \cup {ti}] ELSE s

(***************************************************************************)
(* PrivValidator.signBytesHRS, for one height: 1, 2 and 3 are the steps    *)
(* propose, prevote and precommit.                                         *)
(***************************************************************************)
regression(pv, round, step, bytes) ==
    \/ pv.round > round
    \/ pv.round = round /\ pv.step > step
    \/ pv.round = round /\ pv.step = step /\ pv.bytes # bytes

send(s, msg) == [s EXCEPT !.internalMsgQueue = Append(@, msg)]

\* signAddVote: sign a vote of the current round and queue it for ourselves.
\* `signed' remembers what was ever signed, `refused' that the signer objected.
signAddVote(s, type, block) ==
    LET step == IF type = "prevote" THEN 2 ELSE 3
        vote == [kind |-> "vote", round |-> s.Round, type |-> type,
                 val |-> Self, block |-> block]
    IN  IF regression(s.privVal, s.Round, step, vote)
        THEN [s EXCEPT !.refused = TRUE]
        ELSE send([s EXCEPT !.privVal = [round |-> s.Round, step |-> step, bytes |-> vote],
                            !.signed[type][s.Round] = hash(block)], vote)

\* updateRoundStep.
updateRoundStep(s, round, step) == [s EXCEPT !.Round = round, !.Step = step]

\* A mistake: a step may be entered a second time.
BugReenterStep(s, round, step) ==
    \/ s.panic # "none"
    \/ round < s.Round
    \/ s.Round = round /\ step < s.Step

\* The guard most of the enter functions begin with; nothing runs after a panic.
invalidArgs(s, round, step) ==
    \/ s.panic # "none"
    \/ round < s.Round
    \/ s.Round = round /\ step <= s.Step

(***************************************************************************)
(* Propose.                                                                *)
(***************************************************************************)

\* isProposalComplete: the block, and the polka the proposal refers to.
isProposalComplete(s) ==
    /\ s.Proposal # None
    /\ s.ProposalBlock # None
    /\ \/ s.Proposal.POLRound < 0
       \/ Majority(s.Votes, s.Proposal.POLRound, "prevote") # None

\* defaultDecideProposal: propose the locked block or a new one.
defaultDecideProposal(s, round) ==
    LET block == IF s.LockedBlock # None THEN s.LockedBlock ELSE NewBlock
        proposal == [kind |-> "proposal", round |-> round, block |-> block,
                     POLRound |-> POLRound(s.Votes), signer |-> Self]
        part == [kind |-> "part", block |-> block]
    IN  IF regression(s.privVal, round, 1, proposal)
        THEN [s EXCEPT !.refused = TRUE]
        ELSE send(send([s EXCEPT !.privVal = [round |-> round, step |-> 1,
                                              bytes |-> proposal]],
                       proposal), part)

\* A mistake: the lock is not looked at.
BugIgnoreLock(s) ==
    signAddVote(s, "prevote",
        IF s.ProposalBlock \in ValidBlocks
        THEN <<s.ProposalBlock, s.ProposalBlockParts.header>>
        ELSE NilBlock)

\* defaultDoPrevote: the locked block, else the proposed one if valid, else nil.
defaultDoPrevote(s) ==
    signAddVote(s, "prevote",
        IF s.LockedBlock # None THEN <<s.LockedBlock, s.LockedBlockParts.header>>
        ELSE IF s.ProposalBlock \in ValidBlocks
        THEN <<s.ProposalBlock, s.ProposalBlockParts.header>>
        ELSE NilBlock)

enterPrevote(s, round) ==
    IF invalidArgs(s, round, StepPrevote) THEN s
    ELSE updateRoundStep(defaultDoPrevote(s), round, StepPrevote)

enterPropose(s, round) ==
    IF invalidArgs(s, round, StepPropose) THEN s
    ELSE LET timed == scheduleTimeout(s, round, StepPropose)
             asked == IF Proposer(round) = Self
                      THEN defaultDecideProposal(timed, round) ELSE timed
             done  == updateRoundStep(asked, round, StepPropose)
         IN  IF isProposalComplete(done) THEN enterPrevote(done, round) ELSE done

enterNewRound(s, round) ==
    IF s.panic # "none" \/ round < s.Round \/ (s.Round = round /\ s.Step # StepNewHeight)
    THEN s
    ELSE LET fresh == IF round = 0 THEN s
                      ELSE [s EXCEPT !.Proposal = None, !.ProposalBlock = None,
                                     !.ProposalBlockParts = None]
             entered == updateRoundStep(fresh, round, StepNewRound)
         IN  IF SetRoundPanics(s.Votes, round + 1)
             THEN Panic(entered, "SetRound() must increment hvs.round")
             ELSE enterPropose([entered EXCEPT !.Votes = SetRound(@, round + 1)],
                               round)

(***************************************************************************)
(* Prevote and precommit.                                                  *)
(***************************************************************************)
enterPrevoteWait(s, round) ==
    IF invalidArgs(s, round, StepPrevoteWait) THEN s
    ELSE IF ~ AnyTwoThirds(s.Votes, round, "prevote")
         THEN Panic(s, "enterPrevoteWait without +2/3 prevotes")
    ELSE updateRoundStep(scheduleTimeout(s, round, StepPrevoteWait), round, StepPrevoteWait)

unlock(s) == [s EXCEPT !.LockedRound = 0, !.LockedBlock = None, !.LockedBlockParts = None]

\* Wait for the block of this BlockID, unless its parts are already coming in.
fetch(s, id) ==
    IF HasHeader(s.ProposalBlockParts, PartsHeader(id)) THEN s
    ELSE [s EXCEPT !.ProposalBlock = None,
                   !.ProposalBlockParts = NewPartSetFromHeader(PartsHeader(id))]

\* A mistake: whatever the polka is for, the proposal is locked.
BugLockProposal(s, round, id) ==
    IF s.ProposalBlock \in ValidBlocks
    THEN signAddVote([s EXCEPT !.LockedRound = round, !.LockedBlock = s.ProposalBlock,
                               !.LockedBlockParts = s.ProposalBlockParts],
                     "precommit", id)
    ELSE signAddVote(fetch(unlock(s), id), "precommit", NilBlock)

\* enterPrecommit once there is a polka for a block in this round: relock, lock,
\* or unlock and fetch.
precommitPolka(s, round, id) ==
    IF s.LockedBlock = hash(id)
    THEN signAddVote([s EXCEPT !.LockedRound = round], "precommit", id)
    ELSE IF s.ProposalBlock # hash(id)
    THEN signAddVote(fetch(unlock(s), id), "precommit", NilBlock)
    ELSE IF s.ProposalBlock \notin ValidBlocks
    THEN Panic(s, "+2/3 prevoted for an invalid block")
    ELSE signAddVote([s EXCEPT !.LockedRound = round, !.LockedBlock = s.ProposalBlock,
                               !.LockedBlockParts = s.ProposalBlockParts],
                     "precommit", id)

enterPrecommit(s, round) ==
    LET id == Majority(s.Votes, round, "prevote") IN
    IF invalidArgs(s, round, StepPrecommit) THEN s
    ELSE IF id # None /\ POLRound(s.Votes) < round
         THEN Panic(s, "This POLRound should be the round")
    ELSE updateRoundStep(
            IF id = None THEN signAddVote(s, "precommit", NilBlock)
            ELSE IF id = NilBlock THEN signAddVote(unlock(s), "precommit", NilBlock)
            ELSE precommitPolka(s, round, id),
            round, StepPrecommit)

enterPrecommitWait(s, round) ==
    IF invalidArgs(s, round, StepPrecommitWait) THEN s
    ELSE IF ~ AnyTwoThirds(s.Votes, round, "precommit")
         THEN Panic(s, "enterPrecommitWait without +2/3 precommits")
    ELSE updateRoundStep(scheduleTimeout(s, round, StepPrecommitWait),
                         round, StepPrecommitWait)

(***************************************************************************)
(* Commit.                                                                 *)
(***************************************************************************)

\* updateToState and scheduleRound0, for the state of the next height: its
\* RoundState starts afresh and the precommits become LastCommit.
updateToState(s) ==
    LET lastPrecommits == s.Votes.roundVoteSets[s.CommitRound]["precommit"]
        next == [s EXCEPT
                   !.Height = @ + 1, !.Round = 0, !.Step = StepNewHeight,
                   !.Proposal = None, !.ProposalBlock = None, !.ProposalBlockParts = None,
                   !.LockedRound = 0, !.LockedBlock = None, !.LockedBlockParts = None,
                   !.Votes = NewHeightVoteSet, !.CommitRound = -1,
                   !.LastCommit = lastPrecommits]
    IN  scheduleTimeout(next, 0, StepNewHeight)

\* finalizeCommit: the assertions, SaveBlock, ApplyBlock.  When ApplyBlock
\* fails the state stays behind and updateToState panics, the block being stored.
finalizeCommit(s, exec) ==
    LET id == Majority(s.Votes, s.CommitRound, "precommit")
        saved == [s EXCEPT !.stored = s.ProposalBlock]
    IN  IF s.Step # StepCommit THEN s
        ELSE IF ~ HasHeader(s.ProposalBlockParts, PartsHeader(id))
             THEN Panic(s, "Expected ProposalBlockParts header to be commit header")
        ELSE IF s.ProposalBlock \notin ValidBlocks
             THEN Panic(s, "+2/3 committed an invalid block")
        ELSE IF s.ProposalBlockParts.data = None
             THEN Panic(s, "BlockStore can only save complete block part sets")
        ELSE IF exec = "error"
             THEN Panic(saved, "updateToState() expected state height")
        ELSE updateToState(saved)

tryFinalizeCommit(s, exec) ==
    LET id == Majority(s.Votes, s.CommitRound, "precommit") IN
    IF id \in {None, NilBlock} \/ s.ProposalBlock # hash(id) THEN s
    ELSE finalizeCommit(s, exec)

enterCommit(s, commitRound, exec) ==
    LET id == Majority(s.Votes, commitRound, "precommit")
        moved == IF s.LockedBlock = hash(id)
                 THEN [s EXCEPT !.ProposalBlock = s.LockedBlock,
                                !.ProposalBlockParts = s.LockedBlockParts]
                 ELSE s
        ready == IF moved.ProposalBlock = hash(id) THEN moved ELSE fetch(moved, id)
    IN  IF s.panic # "none" \/ StepCommit <= s.Step THEN s
        ELSE IF id = None
             THEN Panic(s, "RunActionCommit() expects +2/3 precommits")
        ELSE tryFinalizeCommit([ready EXCEPT !.Step = StepCommit,
                                             !.CommitRound = commitRound], exec)

(***************************************************************************)
(* Messages.  `exec' is what ApplyBlock returns, if it is called.          *)
(***************************************************************************)
defaultSetProposal(s, proposal) ==
    IF \/ s.Proposal # None
       \/ s.Height # 1
       \/ proposal.round # s.Round
       \/ StepCommit <= s.Step
       \/ proposal.POLRound # -1 /\ proposal.round <= proposal.POLRound
       \/ proposal.signer # Proposer(s.Round)
    THEN s
    ELSE [s EXCEPT !.Proposal = [block |-> proposal.block, POLRound |-> proposal.POLRound],
                   !.ProposalBlockParts = NewPartSetFromHeader(proposal.block)]

\* addProposalBlockPart: a part of a peer must belong to the header, our own is
\* not verified.
addProposalBlockPart(s, part, verify, exec) ==
    LET filled == [s EXCEPT !.ProposalBlockParts.data = part.block,
                            !.ProposalBlock = part.block]
    IN  IF \/ s.Height # 1
           \/ s.ProposalBlockParts = None
           \/ s.ProposalBlockParts.data # None
           \/ verify /\ part.block # s.ProposalBlockParts.header
        THEN s
        ELSE IF s.Step = StepPropose /\ isProposalComplete(filled)
             THEN enterPrevote(filled, s.Round)
        ELSE IF s.Step = StepCommit THEN tryFinalizeCommit(filled, exec)
        ELSE filled

\* A mistake: one prevote of our round is enough to wait for the others.
BugAnyPrevote(s, round) ==
    IF s.Round <= round
    THEN IF Majority(s.Votes, round, "prevote") # None
         THEN enterPrecommit(enterNewRound(s, round), round)
         ELSE enterPrevoteWait(enterPrevote(enterNewRound(s, round), round), round)
    ELSE s

\* addVote after a prevote was added: unlock on a later polka, then skip to its
\* round, precommit or wait, or prevote a proposal whose polka is now complete.
addedPrevote(s, round) ==
    LET id == Majority(s.Votes, round, "prevote")
        free  == IF /\ s.LockedBlock # None
                    /\ s.LockedRound < round
                    /\ round <= s.Round
                    /\ id # None
                    /\ s.LockedBlock # hash(id)
                 THEN unlock(s) ELSE s
        there == enterNewRound(free, round)
    IN  IF s.Round <= round /\ AnyTwoThirds(s.Votes, round, "prevote")
        THEN IF id # None THEN enterPrecommit(there, round)
             ELSE enterPrevoteWait(enterPrevote(there, round), round)
        ELSE IF /\ free.Proposal # None
                /\ free.Proposal.POLRound = round
                /\ isProposalComplete(free)
             THEN enterPrevote(free, free.Round)
        ELSE free

\* A mistake: any +2/3 precommits move the node only when they are ahead of it.
BugOnlyLaterRounds(s, round, exec) ==
    LET id == Majority(s.Votes, round, "precommit")
        there == enterPrecommit(enterNewRound(s, round), round)
    IN  IF id = NilBlock THEN enterNewRound(s, round + 1)
        ELSE IF id # None THEN enterCommit(there, round, exec)
        ELSE IF s.Round < round /\ AnyTwoThirds(s.Votes, round, "precommit")
             THEN enterPrecommitWait(there, round)
        ELSE s

\* addVote after a precommit was added: next round on +2/3 nil, commit on +2/3
\* for a block, or skip to the round of any +2/3 and wait.
addedPrecommit(s, round, exec) ==
    LET id == Majority(s.Votes, round, "precommit")
        there == enterPrecommit(enterNewRound(s, round), round)
    IN  IF id = NilBlock THEN enterNewRound(s, round + 1)
        ELSE IF id # None THEN enterCommit(there, round, exec)
        ELSE IF s.Round <= round /\ AnyTwoThirds(s.Votes, round, "precommit")
             THEN enterPrecommitWait(there, round)
        ELSE s

\* addVote: at the next height only a late precommit is of use, to LastCommit.
addVote(s, vote, peer, exec) ==
    LET res  == AddVoteFrom(s.Votes, vote, peer)
        has  == [s EXCEPT !.Votes = res.hvs]
        last == AddVote(s.LastCommit, [step |-> <<vote.round, vote.type>>, val |-> vote.val,
                                       block |-> vote.block, verifies |-> TRUE])
    IN  IF s.Height # 1
        THEN IF s.Step = StepNewHeight /\ vote.type = "precommit"
             THEN [s EXCEPT !.LastCommit = last.voteSet] ELSE s
        ELSE IF ~ res.added THEN has
        ELSE IF vote.type = "prevote" THEN addedPrevote(has, vote.round)
        ELSE addedPrecommit(has, vote.round, exec)

handleTimeout(s, ti) ==
    IF \/ ti[1] # s.Height
       \/ ti[2] < s.Round
       \/ ti[2] = s.Round /\ ti[3] < s.Step
    THEN s
    ELSE CASE ti[3] = StepNewHeight -> enterNewRound(s, 0)
           [] ti[3] = StepPropose -> enterPrevote(s, ti[2])
           [] ti[3] = StepPrevoteWait -> enterPrecommit(s, ti[2])
           [] ti[3] = StepPrecommitWait -> enterNewRound(s, ti[2] + 1)

(***************************************************************************)
(* The specification.                                                      *)
(***************************************************************************)
NoVotes == [v \in Others |-> [r \in Rounds |-> None]]

\* What every correct validator has signed and committed, Self included: the
\* variables of ConsensusRules.  The others' own commits do not matter to Self.
prevoted == [v \in Correct |-> IF v = Self THEN cs.signed["prevote"] ELSE peerPrevoted[v]]

precommitted ==
    [v \in Correct |-> IF v = Self THEN cs.signed["precommit"] ELSE peerPrecommitted[v]]

decided == [v \in Correct |-> IF v = Self THEN cs.stored ELSE None]

Rules == INSTANCE ConsensusRules
            WITH BlockIDs <- Blocks \cup {NilHash}, NilBlock <- NilHash

Init == /\ cs = NewConsensusState
        /\ peerPrevoted = NoVotes
        /\ peerPrecommitted = NoVotes
        /\ inFlight = {}

\* What another correct validator may vote now.
MayVote(v, r, type) ==
    IF type = "prevote"
    THEN Rules!Prevotes(v, r) \cap (ValidBlocks \cup {NilHash})
    ELSE Rules!Precommits(v, r) \ {None}

\* Another correct validator votes.
PeerVotes ==
    /\ Cardinality(inFlight) < MaxInFlight
    /\ \E v \in Others, r \in Rounds, type \in VoteTypes :
         LET votes == MayVote(v, r, type) IN
         \E b \in votes :
            /\ IF type = "prevote"
               THEN /\ peerPrevoted' = [peerPrevoted EXCEPT ![v][r] = b]
                    /\ UNCHANGED peerPrecommitted
               ELSE /\ peerPrecommitted' = [peerPrecommitted EXCEPT ![v][r] = b]
                    /\ UNCHANGED peerPrevoted
            /\ inFlight' = inFlight \cup
                   {[round |-> r, type |-> type, val |-> v, block |-> <<b, b>>]}
    /\ UNCHANGED cs

\* One turn of receiveRoutine: the process is alive, and the rounds are bounded.
Turn(next) == /\ cs.panic = "none"
              /\ next.Round <= MaxRound
              /\ cs' = next
              /\ UNCHANGED <<peerPrevoted, peerPrecommitted>>

ReceiveVote ==
    \E vote \in inFlight, exec \in ExecOutcomes :
        /\ Turn(addVote(cs, vote, vote.val, exec))
        /\ inFlight' = inFlight \ {vote}

\* A faulty validator sends what it likes.
ReceiveFaultyVote ==
    /\ \E v \in Faulty, r \in FaultyRounds, type \in VoteTypes, b \in FaultyVotes,
          exec \in ExecOutcomes :
            Turn(addVote(cs, [round |-> r, type |-> type, val |-> v, block |-> b], v, exec))
    /\ UNCHANGED inFlight

ReceiveProposal ==
    /\ \E proposal \in Proposals : Turn(defaultSetProposal(cs, proposal))
    /\ UNCHANGED inFlight

ReceiveBlockPart ==
    /\ \E b \in Blocks, exec \in ExecOutcomes :
         Turn(addProposalBlockPart(cs, [block |-> b], TRUE, exec))
    /\ UNCHANGED inFlight

\* Our own proposals, parts and votes, in the order they were queued.
HandleInternalMsg ==
    /\ cs.internalMsgQueue # <<>>
    /\ LET msg == Head(cs.internalMsgQueue)
           s == [cs EXCEPT !.internalMsgQueue = Tail(@)]
       IN  \E exec \in ExecOutcomes :
             Turn(CASE msg.kind = "proposal" -> defaultSetProposal(s, msg)
                    [] msg.kind = "part" -> addProposalBlockPart(s, msg, FALSE, exec)
                    [] msg.kind = "vote" -> addVote(s, msg, Self, exec))
    /\ UNCHANGED inFlight

\* A timeout, in time or late.
HandleTock ==
    /\ cs.Height = 1
    /\ \E ti \in cs.tocks : Turn(handleTimeout(cs, ti))
    /\ UNCHANGED inFlight

Next == \/ PeerVotes
        \/ ReceiveVote
        \/ ReceiveFaultyVote
        \/ ReceiveProposal
        \/ ReceiveBlockPart
        \/ HandleInternalMsg
        \/ HandleTock

Spec == Init /\ [][Next]_vars

-----------------------------------------------------------------------------

\* The types of the node's fields; a node that has committed has its block stored.
TypeOK ==
    /\ cs.Height \in 1 .. 2 /\ cs.Round \in Rounds /\ cs.Step \in 1 .. 8
    /\ cs.Proposal \in [block : Blocks, POLRound : Rounds \cup {-1}] \cup {None}
    /\ {cs.ProposalBlock, cs.LockedBlock, cs.stored} \subseteq Blocks \cup {None}
    /\ {cs.ProposalBlockParts, cs.LockedBlockParts}
          \subseteq [header : Blocks, data : Blocks \cup {None}] \cup {None}
    /\ cs.LockedRound \in Rounds /\ cs.CommitRound \in Rounds \cup {-1}
    /\ cs.Votes.round \in 0 .. MaxRound + 1
    /\ (cs.Height = 2) => (cs.stored # None)

\* The node keeps the voting rules of ConsensusRules, which are what Agreement
\* is proved from: it never votes twice in a round, goes back, precommits
\* without a polka, prevotes against its lock or commits without a quorum.
Implements == Rules!RulesSpec

\* While the process runs, the state machine never asks the signer for a vote or
\* proposal it must refuse: no step of a round is entered a second time.
SignerNeverRefuses == ~ cs.refused

\* A lock is on a valid block that we have in full, and the prevotes of the
\* locked round are a polka for it.
LockHasPolka ==
    cs.LockedBlock # None =>
        /\ cs.LockedBlock \in ValidBlocks
        /\ cs.LockedBlockParts.data = cs.LockedBlock
        /\ hash(Majority(cs.Votes, cs.LockedRound, "prevote")) = cs.LockedBlock

\* A node in the commit step has +2/3 precommits for a block and collects the
\* parts of that very block.
CommitCanFinish ==
    cs.Step = StepCommit =>
        /\ Majority(cs.Votes, cs.CommitRound, "precommit") \notin {None, NilBlock}
        /\ cs.panic = "none" =>
              HasHeader(cs.ProposalBlockParts,
                        PartsHeader(Majority(cs.Votes, cs.CommitRound, "precommit")))

\* The assertions of the enter functions, of SetRound and of ValidateBlock on
\* +2/3 blocks cannot fail.  The other panics are about block parts that were
\* replaced while the block was kept, and about an application that fails; a node
\* in the commit step can finish it.  The fields keep their types.
AssertionsHold ==
    /\ TypeOK /\ CommitCanFinish
    /\ cs.panic \in {"none",
                     "Expected ProposalBlockParts header to be commit header",
                     "BlockStore can only save complete block part sets",
                     "updateToState() expected state height"}

\* A step that ends with a timeout has one: the ticker took the tick and did not
\* drop it as older than another.
WaitsAreTimed ==
    cs.Step \in {StepNewHeight, StepPropose, StepPrevoteWait, StepPrecommitWait} =>
        <<cs.Height, cs.Round, cs.Step>> \in cs.tocks

\* Votes that should move the node have moved it: it is in the last round with
\* any +2/3, and past the step those votes end.
NoMissedQuorum ==
    cs.Height = 1 /\ cs.panic = "none" =>
        \A r \in Rounds :
            /\ AnyTwoThirds(cs.Votes, r, "prevote") =>
                  cs.Round > r \/ (cs.Round = r /\ cs.Step >= StepPrevoteWait)
            /\ AnyTwoThirds(cs.Votes, r, "precommit") =>
                  cs.Round > r \/ (cs.Round = r /\ cs.Step >= StepPrecommitWait)
            /\ Majority(cs.Votes, r, "precommit") # None =>
                  cs.Round > r \/ cs.Step = StepCommit

\* What LastCommit will justify in the next block is the block that was stored,
\* however many late precommits arrive.
LastCommitJustifies ==
    cs.Height = 2 => cs.LastCommit.maj23 # None /\ hash(cs.LastCommit.maj23) = cs.stored

\* What the node relies on has its votes: its lock a polka (enterPrecommit,
\* addVote), and the block it stored the LastCommit it proposes next with
\* (finalizeCommit, updateToState).
JustifiedByVotes == LockHasPolka /\ LastCommitJustifies

(***************************************************************************)
(* What the code's comments and assertions say, and the code does not do.  *)
(***************************************************************************)

\* SaveBlock is only called with a complete part set (its assertion): a proposal
\* that arrives after enterPrecommit has fetched the block replaces the parts and
\* leaves the block.
SavesWholeBlocks == cs.panic # "BlockStore can only save complete block part sets"

\* Block parts are validated against the hash in the proposal when they are
\* received: our own are not, and may meet the parts header of another round.
PartsAreValidated ==
    cs.ProposalBlockParts # None =>
        cs.ProposalBlockParts.data \in {None, cs.ProposalBlockParts.header}

\* The POLRound of a proposal is -1 or less than its round: a proposer that skips
\* to its round on a polka of that round proposes with POLRound = Round.
OwnProposalsAreValid ==
    \A i \in DOMAIN cs.internalMsgQueue :
        cs.internalMsgQueue[i].kind = "proposal" =>
            cs.internalMsgQueue[i].POLRound < cs.internalMsgQueue[i].round

=============================================================================
