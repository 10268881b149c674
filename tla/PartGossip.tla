----------------------------- MODULE PartGossip -----------------------------
(***************************************************************************)
(* How gossipDataRoutine of the consensus reactor gives the proposal and   *)
(* the parts of a block to one peer at a height, and helps the peer to     *)
(* finish that height after we have committed it.                          *)
(*                                                                         *)
(* A proposal may be for the block that is committed in the end or for     *)
(* another.  The peer's moves are those of its consensus state that change *)
(* the part set it collects; each broadcasts a message by a goroutine of   *)
(* its own, so that they arrive in any order.                              *)
(***************************************************************************)
EXTENDS Integers, Sequences, Absent

CONSTANTS Parts,         \* the indices of a block's parts
          Blocks,        \* the blocks that may be proposed
          Committed,     \* the one that the height ends with
          MaxPartRound   \* bound on the rounds

VARIABLES node,       \* our round, proposal, part set; height 2 once we committed
          mate,       \* the peer's round, step, proposal, part set
          mateState,  \* our PeerState for it
          marking,    \* a part that was sent and is not yet marked
          dataNet,    \* parts and proposals on the way to the peer, in order
          stepNet,    \* NewRoundStep and CommitStep messages on the way to us
          misled      \* what the peer announced for its commit was overwritten

partVars == <<node, mate, mateState, marking, dataNet, stepNet, misled>>

NewRoundStepOf(q) == [k |-> "step", r |-> q.round, commit |-> q.commit]
CommitStepOf(q) == [k |-> "commit", header |-> q.header, parts |-> q.parts]

PartInit ==
  /\ node = [height |-> 1, round |-> 0, proposal |-> None, header |-> None, parts |-> {}]
  /\ mate = [round |-> 0, commit |-> FALSE, proposal |-> None, header |-> None, parts |-> {},
             done |-> FALSE]
  /\ mateState = [round |-> -1, commit |-> FALSE, proposal |-> FALSE, header |-> None, parts |-> None]
  /\ marking = None
  /\ dataNet = <<>>
  /\ stepNet = {NewRoundStepOf(mate)}
  /\ misled = FALSE

-----------------------------------------------------------------------------
(* Our consensus state *)

NodeOnly == UNCHANGED <<mate, mateState, marking, dataNet, stepNet, misled>>

\* We propose, or have received the proposal and the block.
HoldProposal ==
  /\ node.height = 1 /\ node.proposal = None /\ node.header = None
  /\ \E b \in Blocks : node' = [node EXCEPT !.proposal = b, !.header = b, !.parts = Parts]
  /\ NodeOnly

NextRound ==
  /\ node.height = 1 /\ node.round < MaxPartRound
  /\ node' = [node EXCEPT !.round = @ + 1, !.proposal = None, !.header = None, !.parts = {}]
  /\ NodeOnly

\* We commit: the block is in the store and the round state is that of height 2.
CommitBlock ==
  /\ node.height = 1
  /\ node' = [height |-> 2, round |-> 0, proposal |-> None, header |-> None, parts |-> {}]
  /\ NodeOnly

-----------------------------------------------------------------------------
(* The peer *)

MateMoves(q, msgs) ==
  /\ ~mate.commit
  /\ mate' = q
  /\ stepNet' = stepNet \cup msgs
  /\ UNCHANGED <<node, mateState, marking, dataNet, misled>>

MateNextRound ==
  /\ mate.round < MaxPartRound
  /\ LET q == [mate EXCEPT !.round = @ + 1, !.proposal = None, !.header = None, !.parts = {}]
     IN  MateMoves(q, {NewRoundStepOf(q)})

\* enterPrecommit for a polka of a block it lacks: nothing is announced.
MatePolka ==
  /\ mate.header # Committed
  /\ MateMoves([mate EXCEPT !.header = Committed, !.parts = {}], {})

\* enterCommit, with a complete block it goes on to the next height.
MateCommits ==
  LET q == [mate EXCEPT !.commit = TRUE, !.header = Committed,
                        !.parts = IF mate.header = Committed THEN @ ELSE {}]
      r == [q EXCEPT !.done = q.parts = Parts]
  IN  MateMoves(r, {NewRoundStepOf(q), CommitStepOf(q)})

\* defaultSetProposal and addProposalBlockPart; a part of another block fails
\* its proof.
MateReceives ==
  /\ dataNet # <<>>
  /\ dataNet' = Tail(dataNet)
  /\ LET m == Head(dataNet)
         got == [mate EXCEPT !.parts = @ \cup {m.index}]
     IN  mate' = CASE m.k = "proposal" /\ mate.proposal = None /\ m.r = mate.round /\ ~mate.commit ->
                        [mate EXCEPT !.proposal = m.header, !.header = m.header, !.parts = {}]
                   [] m.k = "part" /\ mate.header = m.header /\ ~mate.done ->
                        [got EXCEPT !.done = mate.commit /\ got.parts = Parts]
                   [] OTHER -> mate
  /\ UNCHANGED <<node, mateState, marking, stepNet, misled>>

-----------------------------------------------------------------------------
(* PeerState *)

ApplyStep(p, m) ==
  IF m.r < p.round \/ (m.r = p.round /\ (p.commit \/ ~m.commit)) THEN p
  ELSE IF m.r = p.round THEN [p EXCEPT !.commit = m.commit]
  ELSE [round |-> m.r, commit |-> m.commit, proposal |-> FALSE, header |-> None, parts |-> None]

\* Before the first step message the height does not match.
ApplyCommitStep(p, m) ==
  IF p.round < 0 THEN p ELSE [p EXCEPT !.header = m.header, !.parts = m.parts]

SetHasProposalTo(p, r, header) ==
  IF p.round # r \/ p.proposal THEN p
  ELSE [p EXCEPT !.proposal = TRUE, !.header = header, !.parts = {}]

SetHasProposalBlockPart(p, r, i) ==
  IF p.round # r \/ p.parts = None THEN p ELSE [p EXCEPT !.parts = @ \cup {i}]

\* The peer waits for the committed block and said so, and what we hold about
\* it is, or has become, something else.
Mislead(q) ==
  misled' = (misled \/ (/\ mate.commit /\ \A m \in stepNet' : m.k # "commit"
                        /\ q.header # Committed))

ReceiveStep(m) ==
  LET q == IF m.k = "step" THEN ApplyStep(mateState, m) ELSE ApplyCommitStep(mateState, m)
  IN  /\ m \in stepNet
      /\ stepNet' = stepNet \ {m}
      /\ mateState' = q
      /\ Mislead(q)
      /\ UNCHANGED <<node, mate, marking, dataNet>>

-----------------------------------------------------------------------------
(* gossipDataRoutine.  A part is sent first and marked afterwards, in the   *)
(* array that the PeerState has by then.                                    *)

SendPart(header, i) ==
  /\ dataNet' = Append(dataNet, [k |-> "part", header |-> header, index |-> i])
  /\ marking' = [r |-> mateState.round, header |-> header, index |-> i]
  /\ UNCHANGED <<node, mate, mateState, stepNet, misled>>

PartsOf(p) == IF p.parts = None THEN {} ELSE p.parts

Matches == node.header # None /\ node.header = mateState.header
Missing == node.parts \ PartsOf(mateState)

SendProposalPart ==
  /\ marking = None
  /\ Matches
  /\ \E i \in Missing : SendPart(node.header, i)

\* A mistake: only a peer that had the proposal is helped.
BugOnlyProposed ==
  /\ marking = None
  /\ mateState.proposal /\ node.height = 2
  /\ mateState.parts # None /\ mateState.header = Committed
  /\ \E i \in Parts \ mateState.parts : SendPart(Committed, i)

\* The peer is on the previous height; the block comes from the store.
SendStoredPart ==
  /\ marking = None
  /\ ~(Matches /\ Missing # {})
  /\ mateState.round >= 0 /\ node.height = 2
  /\ mateState.parts # None
  /\ mateState.header = Committed
  /\ \E i \in Parts \ mateState.parts : SendPart(Committed, i)

MarkPart ==
  /\ marking # None
  /\ mateState' = SetHasProposalBlockPart(mateState, marking.r, marking.index)
  /\ misled' = (misled \/ (/\ mateState' # mateState
                           /\ mateState.header = Committed /\ marking.header # Committed))
  /\ marking' = None
  /\ UNCHANGED <<node, mate, dataNet, stepNet>>

SendProposal ==
  /\ marking = None
  /\ ~(Matches /\ Missing # {})
  /\ node.height = 1 /\ node.round = mateState.round
  /\ node.proposal # None /\ ~mateState.proposal
  /\ dataNet' = Append(dataNet, [k |-> "proposal", r |-> node.round, header |-> node.proposal])
  /\ mateState' = SetHasProposalTo(mateState, node.round, node.proposal)
  /\ UNCHANGED <<node, mate, marking, stepNet>>
  /\ Mislead(mateState')

GossipData == SendProposalPart \/ SendStoredPart \/ MarkPart \/ SendProposal

PartNext ==
  \/ HoldProposal \/ NextRound \/ CommitBlock
  \/ MateNextRound \/ MatePolka \/ MateCommits
  \/ MateReceives
  \/ \E m \in stepNet : ReceiveStep(m)
  \/ SendProposalPart \/ SendStoredPart \/ MarkPart \/ SendProposal

\* The routine goes on, and messages arrive.
PartFairness ==
  /\ WF_partVars(GossipData)
  /\ WF_partVars(MateReceives)
  /\ WF_partVars(\E m \in stepNet : ReceiveStep(m))

PartSpec == PartInit /\ [][PartNext]_partVars /\ PartFairness

-----------------------------------------------------------------------------
\* The PeerState is never ahead of the peer, and only a known part set has bits.
PartTypeOK ==
  /\ mateState.round <= mate.round
  /\ mateState.header # None => mateState.parts # None
  /\ mateState.parts = None \/ mateState.parts \subseteq Parts
  /\ mate.parts # {} => mate.header # None
  /\ mate.done => mate.commit /\ mate.header = Committed /\ mate.parts = Parts

\* A part that the PeerState says the peer has is there or on its way, as long
\* as both mean the same block and round, unless the PeerState was misled: a
\* part marked after a round change or for an older array never hides a part
\* that gossipDataRoutine still has to send.
PartBeliefs ==
  (mateState.header = mate.header /\ mateState.round = mate.round /\ ~misled)
  => PartsOf(mateState) \subseteq
       (mate.parts \cup {i \in Parts : \E n \in 1..Len(dataNet) :
          dataNet[n] = [k |-> "part", header |-> mate.header, index |-> i]})

\* A peer that waits for the block we have committed gets it from us, unless the
\* PeerState was misled: parts that arrive before the proposal, an announcement
\* that overtakes others and a part still being marked do not leave it waiting.
HasBlockOrMisled == mate.commit /\ node.height = 2 => mate.done \/ misled
BlockArrives == []<>HasBlockOrMisled

\* "If the peer is on a previous height, help catch up."
HelpsCatchUp == (mate.commit /\ node.height = 2) ~> mate.done

=============================================================================
