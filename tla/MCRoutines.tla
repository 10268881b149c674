----------------------------- MODULE MCRoutines -----------------------------
(***************************************************************************)
(* The components with a liveness property, for TLC, one of them at a      *)
(* time: a behaviour chooses its part in the initial state and moves only  *)
(* that, under the fairness of its module.  Bounds that a module chooses   *)
(* in its initial state vary only in the behaviours of that part.          *)
(***************************************************************************)
EXTENDS NodeRecovery, BlockExecution, Mempool, RaftEngine, VoteGossip, PartGossip

CONSTANTS t1, t2, r1, r2,    \* Mempool: transactions and the routines they arrive on
          v1, v2, v3         \* VoteGossip: validators

VARIABLE part

(***************************************************************************)
(* Mempool: two routines at the size limit, or one and two blocks.         *)
(***************************************************************************)
MCMemBlocks == {{t1}, {t2}}
MCMemBounds == {[receivers |-> {r1, r2}, refreshes |-> 1, limited |-> TRUE],
                [receivers |-> {r1}, refreshes |-> 2, limited |-> FALSE]}

(***************************************************************************)
(* RaftEngine: elections alone, with a crash, or with a lost proposal and  *)
(* a snapshot.                                                             *)
(***************************************************************************)
MCRaftBounds ==
    { [elections |-> 3, losses |-> 0, crashes |-> 0, snapshots |-> 0],
      [elections |-> 2, losses |-> 0, crashes |-> 1, snapshots |-> 0],
      [elections |-> 2, losses |-> 1, crashes |-> 0, snapshots |-> 1] }

(***************************************************************************)
(* VoteGossip: where we and the peer are, the votes each has and may get   *)
(* elsewhere, how far they move, how many sends fail, and a POL round.     *)
(***************************************************************************)
SetOf(h, r, t, vs) == {VoteOf(h, r, t, v) : v \in vs}
PeerAt(h, r, s) == [height |-> h, round |-> r, step |-> s, commit |-> <<-1, -1, -1>>, extra |-> {}]
UsAt(h, r, c) == [height |-> h, round |-> r, commit |-> <<c, c, c>>]
Case(u, o, p, t, late, elsewhere, moves, losses, pol) ==
    [us |-> u, ours |-> o, peer |-> p, theirs |-> t, late |-> late, elsewhere |-> elsewhere,
     moves |-> moves, peerMoves |-> 1, losses |-> losses, pol |-> pol]

MCGossipCases ==
    { \* Votes of the peer's round, one of which arrives while it moves.
      Case(UsAt(1, 0, -1), SetOf(1, 0, "prevote", {v1}), PeerAt(1, 0, StepPrevote), {},
           SetOf(1, 0, "prevote", {v2}), {}, 0, 1, -1),
      \* Our round ends with a commit while the peer is in it.
      Case(UsAt(1, 0, -1), SetOf(1, 0, "precommit", {v1}), PeerAt(1, 0, StepPrecommit),
           SetOf(1, 0, "precommit", {v2}), SetOf(1, 0, "precommit", {v2}), {}, 1, 1, -1),
      \* The peer is a height behind and the commit is of a round it does not know.
      Case(UsAt(2, 0, 2), SetOf(1, 2, "precommit", {v1, v2}), PeerAt(1, 0, StepPrevote), {},
           {}, {}, 0, 1, -1),
      \* The peer commits in the round of our commit and lacks a straggler.
      Case(UsAt(2, 0, 0), SetOf(1, 0, "precommit", {v1, v2, v3}), PeerAt(1, 0, StepCommit),
           SetOf(1, 0, "precommit", {v1, v2}), {}, {}, 0, 1, -1),
      \* Prevotes of the proposal's POL round.
      Case(UsAt(1, 1, -1), SetOf(1, 0, "prevote", {v1, v2}), PeerAt(1, 1, StepPrevote),
           SetOf(1, 0, "prevote", {v1}), {}, SetOf(1, 0, "prevote", {v2}), 0, 0, 0),
      \* The peer is two heights behind.
      Case(UsAt(3, 0, 0), SetOf(1, 0, "precommit", {v1, v2}) \cup SetOf(2, 0, "precommit", {v1, v2}),
           PeerAt(1, 0, StepCommit), SetOf(1, 0, "precommit", {v1, v2}), {}, {}, 0, 0, -1) }

-----------------------------------------------------------------------------
Only(p, choice, choices) == part = p \/ choice = CHOOSE c \in choices : TRUE

RoutinesInit ==
    /\ part \in {"recovery", "execution", "mempool", "raft", "votes", "parts"}
    /\ RecInit /\ PartInit
    /\ ExecInit /\ Only("execution", kind, [Txn -> TxKinds])
    /\ MemInit /\ Only("mempool", memBound, MemBounds)
    /\ RaftInit /\ Only("raft", raftBound, RaftBounds)
    /\ GossipInit /\ Only("votes", gossipCase, GossipCases)

RoutinesNext ==
    /\ UNCHANGED part
    /\ \/ /\ part = "recovery" /\ RecNext
          /\ UNCHANGED <<execVars, mempoolVars, raftVars, gossipVars, partVars>>
       \/ /\ part = "execution" /\ ExecNext
          /\ UNCHANGED <<recVars, mempoolVars, raftVars, gossipVars, partVars>>
       \/ /\ part = "mempool" /\ MemNext
          /\ UNCHANGED <<recVars, execVars, raftVars, gossipVars, partVars>>
       \/ /\ part = "raft" /\ RaftNext
          /\ UNCHANGED <<recVars, execVars, mempoolVars, gossipVars, partVars>>
       \/ /\ part = "votes" /\ GossipNext
          /\ UNCHANGED <<recVars, execVars, mempoolVars, raftVars, partVars>>
       \/ /\ part = "parts" /\ PartNext
          /\ UNCHANGED <<recVars, execVars, mempoolVars, raftVars, gossipVars>>

routinesVars == <<part, recVars, execVars, mempoolVars, raftVars, gossipVars, partVars>>

\* The fairness of each module, in the behaviours of its part.
RoutinesFairness ==
    /\ WF_recVars(part = "recovery" /\ Restart)
    /\ WF_recVars(part = "recovery" /\ StartApp)
    /\ WF_recVars(part = "recovery" /\ Commit)
    /\ WF_execVars(part = "execution" /\ InitTx) /\ WF_execVars(part = "execution" /\ Execute)
    /\ WF_execVars(part = "execution" /\ Listen) /\ WF_execVars(part = "execution" /\ CallTimeout)
    /\ \A c \in ValidateRoutines : WF_execVars(part = "execution" /\ Check(c))
    /\ \A p \in MemPeers : WF_mempoolVars(part = "mempool" /\ Broadcast(p))
    /\ WF_raftVars(part = "raft" /\ RaftElects) /\ WF_raftVars(part = "raft" /\ CommitEntry)
    /\ \A n \in RaftNodes :
          /\ WF_raftVars(part = "raft" /\ StepDown(n))
          /\ WF_raftVars(part = "raft" /\ Apply(n))
          /\ WF_raftVars(part = "raft" /\ RunStep(n))
    /\ WF_gossipVars(part = "votes" /\ ReadStates) /\ WF_gossipVars(part = "votes" /\ PickSendVote)
    /\ WF_gossipVars(part = "votes" /\ QueryMaj23)
    /\ WF_gossipVars(part = "votes" /\ \E x \in voteNet : PeerReceivesVote(x))
    /\ \A k \in {"step", "hasvote", "proposal", "pol"} :
          WF_gossipVars(part = "votes" /\ \E m \in stateNet : m.k = k /\ ReceiveState(m))
    /\ \A t \in VoteTypes :
          /\ WF_gossipVars(part = "votes"
                           /\ \E m \in stateNet : m.k = "bits" /\ m.t = t /\ ReceiveState(m))
          /\ WF_gossipVars(part = "votes"
                           /\ \E m \in stateNet : m.k = "maj23" /\ m.t = t /\ PeerAnswers(m))
    /\ WF_partVars(part = "parts" /\ GossipData) /\ WF_partVars(part = "parts" /\ MateReceives)
    /\ WF_partVars(part = "parts" /\ \E m \in stepNet : ReceiveStep(m))

RoutinesSpec == RoutinesInit /\ [][RoutinesNext]_routinesVars /\ RoutinesFairness

-----------------------------------------------------------------------------
\* What the reactor's PeerState says of the peer's votes and block parts is true
\* or on its way to being true: see VoteGossip and PartGossip.
BeliefsHold == GossipTypeOK /\ PartTypeOK /\ BeliefsAreTrue /\ PartBeliefs

(* The liveness properties of the modules, each of its own behaviours.     *)

\* A node that crashed outside the window of NodeRecovery follows the chain
\* again (RecoverFromCrash): see NodeRecovery.
NodeRecovers == []<>(part = "recovery" => Recovered)

\* The goroutines of exeWithCPUParallelVeirfy finish with the block, and
\* BroadcastTxCommit returns: see BlockExecution.
ExecutionEnds == []<>(part = "execution" => Executed /\ Returned)

\* broadcastTxRoutine sends what stays in the pool: see Mempool.
TxsAreSent == []<>(part = "mempool" => AllSent)

\* ConsensusState.run of raft stops only for a proposal that was lost: see
\* RaftEngine.
RaftGoesOn == <>[](part = "raft" => DoneOrLost)

\* gossipVotesRoutine and queryMaj23Routine bring the peer the votes it can
\* use: see VoteGossip.
PeerGetsVotes == []<>(part = "votes" => NothingOwed)

\* gossipDataRoutine brings the peer the committed block: see PartGossip.
PeerGetsBlock == []<>(part = "parts" => HasBlockOrMisled)

=============================================================================
