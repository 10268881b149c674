----------------------------- MODULE RaftEngine -----------------------------
(***************************************************************************)
(* The Raft engine (gemmill/consensus/raft): the loop of every node that   *)
(* proposes a block when it leads, and the state machine that applies the  *)
(* blocks of the log, saves them, and tells the loop on an unbuffered      *)
(* channel.  hashicorp/raft is external: a committed log every node reads  *)
(* in order, the leader's entries not committed yet, of which a new leader *)
(* keeps a prefix, and former leaders that do not know it yet.             *)
(***************************************************************************)
EXTENDS Integers, Sequences, FiniteSets, Absent

CONSTANTS RaftNodes, MaxRaftHeight,
          RaftBounds  \* scenarios [elections, losses, crashes, snapshots]: how many of each

ASSUME RaftAssumption == MaxRaftHeight \in Nat /\ None \notin RaftNodes

VARIABLES
    raftLog,      \* the committed entries: blocks [height, prev, id]
    uncommitted,  \* what the leader has accepted and not committed
    leader,       \* the leader, or None
    stale,        \* nodes that still take themselves for the leader
    applied,      \* per node: entries given to FSM.Apply
    raftChain,        \* per node: the ids in the block store
    stateAt,      \* per node: fsm.state.LastBlockHeight
    sending,      \* per node: Apply is at b.appliedCh <- block
    loop,         \* per node: where run is
    proposal,     \* per node: the block createProposalBlock is making
    lost,         \* per node: the proposal it waits for will never be committed
    gap,          \* per node: a snapshot stood in for blocks it does not have
    made,         \* proposals made, for unique ids
    applyErrors,  \* calls of Apply that ended with an error
    raftBound

raftLibVars == <<raftLog, uncommitted, leader, stale>>
fsmVars     == <<applied, raftChain, stateAt, sending, applyErrors>>
loopVars    == <<loop, proposal, made>>
raftVars    == <<raftLibVars, fsmVars, loopVars, lost, gap, raftBound>>

LastId(n) == IF stateAt[n] = 0 THEN 0 ELSE raftChain[n][stateAt[n]]
NoBlock == [height |-> 0, prev |-> 0, id |-> 0]

RaftInit ==
    /\ raftLog = <<>> /\ uncommitted = <<>> /\ leader = None /\ stale = {}
    /\ applied = [n \in RaftNodes |-> 0] /\ raftChain = [n \in RaftNodes |-> <<>>]
    /\ stateAt = [n \in RaftNodes |-> 0] /\ sending = [n \in RaftNodes |-> FALSE]
    /\ loop = [n \in RaftNodes |-> "off"] /\ proposal = [n \in RaftNodes |-> NoBlock]
    /\ lost = [n \in RaftNodes |-> FALSE] /\ gap = [n \in RaftNodes |-> FALSE]
    /\ made = 0 /\ applyErrors = 0 /\ raftBound \in RaftBounds

Spend(what) == /\ raftBound[what] > 0
               /\ raftBound' = [raftBound EXCEPT ![what] = @ - 1]

-----------------------------------------------------------------------------
(* hashicorp/raft.                                                         *)

\* The proposals of the entries a new leader does not keep are lost.
LostWith(dropped) ==
    [n \in RaftNodes |-> lost[n] \/ (loop[n] = "waiting" /\ \E i \in DOMAIN dropped : dropped[i].id = proposal[n].id)]

\* A node is elected; it holds every committed entry and some of the others.
Elect(n, kept) ==
    /\ leader # n /\ Spend("elections")
    /\ (kept < Len(uncommitted)) => raftBound.losses > 0
    /\ uncommitted' = SubSeq(uncommitted, 1, kept)
    /\ lost' = LostWith(SubSeq(uncommitted, kept + 1, Len(uncommitted)))
    /\ leader' = n /\ stale' = (IF leader = None THEN stale ELSE stale \cup {leader}) \ {n}
    /\ UNCHANGED <<raftLog, fsmVars, loopVars, gap>>

\* A former leader hears of the new one.
StepDown(n) ==
    /\ n \in stale /\ stale' = stale \ {n}
    /\ UNCHANGED <<raftLog, uncommitted, leader, fsmVars, loopVars, lost, gap, raftBound>>

CommitEntry ==
    /\ uncommitted # <<>> /\ leader # None
    /\ raftLog' = Append(raftLog, Head(uncommitted)) /\ uncommitted' = Tail(uncommitted)
    /\ UNCHANGED <<leader, stale, fsmVars, loopVars, lost, gap, raftBound>>

\* A follower that is far behind gets a snapshot, in which there are no blocks:
\* Restore only reads it.
RestoreSnapshot(n) ==
    /\ n # leader /\ leader # None /\ ~sending[n]
    /\ applied[n] < applied[leader] /\ Spend("snapshots")
    /\ applied' = [applied EXCEPT ![n] = applied[leader]]
    /\ gap' = [gap EXCEPT ![n] = TRUE]
    /\ UNCHANGED <<raftLibVars, raftChain, stateAt, sending, applyErrors, loopVars, lost>>

-----------------------------------------------------------------------------
(* The state machine.                                                      *)

\* ExecBlock's validation: the block is built on the block of the state.
Validates(n, b) == b.height = stateAt[n] + 1 /\ b.prev = LastId(n)

\* What Apply does with the next entry b of the log.
Skip == UNCHANGED <<raftChain, stateAt, sending, applyErrors>>

Save(n, b) == raftChain' = [raftChain EXCEPT ![n] = Append(@, b.id)]

\* ExecBlock, the new state, and the send to the loop.
ApplyBlock(n, b) ==
    IF Validates(n, b)
    THEN /\ stateAt' = [stateAt EXCEPT ![n] = @ + 1]
         /\ sending' = [sending EXCEPT ![n] = TRUE] /\ UNCHANGED applyErrors
    ELSE applyErrors' = applyErrors + 1 /\ UNCHANGED <<stateAt, sending>>

\* A mistake: a block of a height the store has is saved as the next one.
BugNoDupCheck(n, b) == Save(n, b) /\ ApplyBlock(n, b)

\* A mistake: the loop is not told of the block.
BugNotSent(n, b) ==
    IF Len(raftChain[n]) + 1 # b.height
    THEN Skip
    ELSE Save(n, b) /\ stateAt' = [stateAt EXCEPT ![n] = @ + 1] /\ UNCHANGED <<sending, applyErrors>>

\* A height that is not the store's next is a duplicate; otherwise the block is
\* saved, applied to a copy of the state, and sent to the loop.
ApplyEntry(n, b) ==
    IF Len(raftChain[n]) + 1 # b.height THEN Skip ELSE Save(n, b) /\ ApplyBlock(n, b)

Apply(n) ==
    /\ applied[n] < Len(raftLog) /\ ~sending[n]
    /\ applied' = [applied EXCEPT ![n] = @ + 1]
    /\ ApplyEntry(n, raftLog[applied[n] + 1])
    /\ UNCHANGED <<raftLibVars, loopVars, lost, gap, raftBound>>

-----------------------------------------------------------------------------
(* The loop.                                                               *)

ToLoop(n, pc) == loop' = [loop EXCEPT ![n] = pc]

\* The SwitchToConsensus event starts run.
StartRun(n) ==
    /\ loop[n] = "off" /\ ToLoop(n, "top")
    /\ UNCHANGED <<raftLibVars, fsmVars, proposal, made, lost, gap, raftBound>>

\* A follower waits for a block for a second (a candidate only sleeps).
Follow(n) ==
    /\ loop[n] = "top" /\ n \notin stale \cup {leader} /\ ToLoop(n, "follow")
    /\ UNCHANGED <<raftLibVars, fsmVars, proposal, made, lost, gap, raftBound>>

FollowerReceive(n) ==
    /\ loop[n] = "follow" /\ ToLoop(n, "top")
    /\ sending' = [sending EXCEPT ![n] = FALSE]
    /\ UNCHANGED <<raftLibVars, applied, raftChain, stateAt, applyErrors, proposal, made, lost, gap, raftBound>>

\* As a leader: createProposalBlock reads the height of the state, ...
ReadHeight(n) ==
    /\ loop[n] = "top" /\ n \in stale \cup {leader}
    /\ stateAt[n] < MaxRaftHeight
    /\ made' = made + 1
    /\ proposal' = [proposal EXCEPT ![n] = [height |-> stateAt[n] + 1, prev |-> 0, id |-> made + 1]]
    /\ ToLoop(n, "made")
    /\ UNCHANGED <<raftLibVars, fsmVars, lost, gap, raftBound>>

\* ... then its last block, from a state Apply may have replaced meanwhile; ...
ReadLastBlock(n) ==
    /\ loop[n] = "made" /\ ToLoop(n, "signed")
    /\ proposal' = [proposal EXCEPT ![n].prev = LastId(n)]
    /\ UNCHANGED <<raftLibVars, fsmVars, made, lost, gap, raftBound>>

\* ... the block is signed and given to raft, whose answer is not looked at: it
\* is refused when the node no longer leads, or when its queue is full for 3s.
RaftApply(n) ==
    /\ loop[n] = "signed" /\ ToLoop(n, "waiting")
    /\ \/ /\ n = leader /\ uncommitted' = Append(uncommitted, proposal[n])
          /\ lost' = [lost EXCEPT ![n] = FALSE] /\ UNCHANGED raftBound
       \/ /\ IF n = leader THEN Spend("losses") ELSE UNCHANGED raftBound
          /\ lost' = [lost EXCEPT ![n] = TRUE] /\ UNCHANGED uncommitted
    /\ UNCHANGED <<raftLog, leader, stale, fsmVars, proposal, made, gap>>

\* <-cs.fsm.AppliedCh(): any block that is applied, there is no timeout.
LeaderReceive(n) ==
    /\ loop[n] = "waiting" /\ sending[n]
    /\ sending' = [sending EXCEPT ![n] = FALSE] /\ ToLoop(n, "top")
    /\ lost' = [lost EXCEPT ![n] = FALSE]
    /\ UNCHANGED <<raftLibVars, applied, raftChain, stateAt, applyErrors, proposal, made, gap, raftBound>>

\* The process ends and starts again: raft gives its whole log to Apply again,
\* and NewBlockchainReactor takes the store back to the height of the state.
CrashRaft(n) ==
    /\ Spend("crashes")
    /\ applied' = [applied EXCEPT ![n] = 0] /\ sending' = [sending EXCEPT ![n] = FALSE]
    /\ raftChain' = [raftChain EXCEPT ![n] = SubSeq(@, 1, stateAt[n])]
    /\ ToLoop(n, "off") /\ proposal' = [proposal EXCEPT ![n] = NoBlock]
    /\ lost' = [lost EXCEPT ![n] = FALSE]
    /\ leader' = (IF leader = n THEN None ELSE leader) /\ stale' = stale \ {n}
    /\ UNCHANGED <<raftLog, uncommitted, stateAt, applyErrors, made, gap>>

RaftLib == (\E n \in RaftNodes, k \in 0 .. Len(uncommitted) : Elect(n, k))
           \/ (\E n \in RaftNodes : StepDown(n) \/ RestoreSnapshot(n)) \/ CommitEntry

RunStep(n) == StartRun(n) \/ Follow(n) \/ FollowerReceive(n) \/ ReadHeight(n) \/ ReadLastBlock(n)
              \/ RaftApply(n) \/ LeaderReceive(n)

RaftNext == RaftLib \/ \E n \in RaftNodes : Apply(n) \/ RunStep(n) \/ CrashRaft(n)

\* Raft elects while there is no leader, former leaders hear of it, entries of
\* a leader are committed, and the goroutines run.
RaftElects == leader = None /\ \E n \in RaftNodes, k \in 0 .. Len(uncommitted) : Elect(n, k)

RaftFairness ==
    /\ WF_raftVars(RaftElects) /\ WF_raftVars(CommitEntry)
    /\ \A n \in RaftNodes : WF_raftVars(StepDown(n)) /\ WF_raftVars(Apply(n)) /\ WF_raftVars(RunStep(n))

RaftSpec == RaftInit /\ [][RaftNext]_raftVars /\ RaftFairness

-----------------------------------------------------------------------------
\* Types.
RaftTypeOK ==
    /\ leader \in RaftNodes \cup {None} /\ stale \subseteq RaftNodes \ {leader}
    /\ \A n \in RaftNodes :
          /\ applied[n] \in 0 .. Len(raftLog)
          /\ stateAt[n] \in 0 .. Len(raftChain[n])
          /\ sending[n] \in BOOLEAN /\ lost[n] \in BOOLEAN /\ gap[n] \in BOOLEAN
          /\ loop[n] \in {"off", "top", "follow", "made", "signed", "waiting"}

\* Two nodes that saw the whole log never save different blocks at one height,
\* whoever led and however often the log holds a height: the first entry of a
\* height is the one of all.  Apply saves a block before it validates it; yet,
\* while no node was given a snapshot, no block it saves fails: one made from two
\* states, or for a height that was filled meanwhile, comes after another block of
\* its height in the log and is dropped as a duplicate.
ChainsAgree ==
    /\ RaftTypeOK
    /\ \A n, k \in RaftNodes : ~gap[n] /\ ~gap[k] =>
          \A h \in DOMAIN raftChain[n] \cap DOMAIN raftChain[k] : raftChain[n][h] = raftChain[k][h]
    /\ (\A n \in RaftNodes : ~gap[n]) =>
          applyErrors = 0 /\ \A n \in RaftNodes : stateAt[n] = Len(raftChain[n])

\* While all proposals get into the log, a chain stops only because it is done:
\* a duplicate never leaves the leader waiting for a block nobody will apply.
\* When one does not, a halted cluster is one whose leader waits for it.
DoneOrLost == \/ leader = None
              \/ stateAt[leader] = MaxRaftHeight
              \/ loop[leader] = "waiting" /\ lost[leader]
              \/ \E n \in RaftNodes : gap[n]
HaltsOnlyOnLoss == <>[]DoneOrLost

=============================================================================
