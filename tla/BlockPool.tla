----------------------------- MODULE BlockPool -----------------------------
(***************************************************************************)
(* Fast sync: blockchain/pool.go (BlockPool, bpPeer, bpRequester) driven   *)
(* by blockchain/reactor.go (poolRoutine, Receive).  The goroutines are    *)
(* makeRequestersRoutine, one requestRoutine per height, one `redo' call   *)
(* per removal, the timers of the peers, the receive routine of each       *)
(* connection, and poolRoutine.  A step is what runs between two points    *)
(* where a goroutine can wait: the pool mutex, a channel, a select.        *)
(* The mutex is free between steps except while AddBlock waits for the     *)
(* requester on the unbuffered gotBlockCh: `adding' is that call.          *)
(***************************************************************************)
EXTENDS Absent, Integers, Sequences, FiniteSets, FiniteSetsExt, SequencesExt

CONSTANTS Peers,
          PeerHeight,     \* the height each peer reports
          Bodies,         \* what peers answer: "good", "badbody", "badcommit"
          MaxHeight,      \* bound: requesters are made up to here
          MaxRequesters,  \* maxTotalRequesters and maxPendingRequests
          MaxPerPeer,     \* maxPendingRequestsPerPeer
          ChanCap,        \* capacity of requestsCh
          Budgets,        \* bounds on what may go wrong: connections lost, peers timed out or
                          \* slow, blocks refused, and status answers and reconnections
          MaySwitch       \* whether the ticker for the switch to consensus runs

ASSUME BlockPoolAssumption ==
    /\ None \notin Peers
    /\ PeerHeight \in [Peers -> Nat]
    /\ {MaxHeight, MaxRequesters, MaxPerPeer, ChanCap} \subseteq Nat \ {0}

VARIABLES
    running,     \* the pool: started and not stopped
    height,      \* pool.height
    requesters,  \* pool.requesters: height -> [peerID, block]
    numPending,  \* pool.numPending
    peers,       \* pool.peers: id -> [height, numPending, didTimeout, timer, monitor]
    routine,     \* requestRoutine of every requester made: [pc, peer]
    redos,       \* redo() calls waiting on redoCh, by height
    adding,      \* the AddBlock that holds the pool mutex, <<peer, height>> or None
    requests,    \* requestsCh
    timeouts,    \* timeoutsCh
    orphans,     \* armed timers of bpPeers that are no longer in the pool
    connected,   \* peers of the Switch
    leaving,     \* peers whose Reactor.RemovePeer call is still to come
    net,         \* block responses that Receive has still to handle
    sync,        \* poolRoutine: [pc, first, second, peer]
    executed,    \* the blocks given to blockExecuter
    panicked,    \* RedoRequest's PanicSanity
    budget,      \* what is left of the bounds on faults
    removed,     \* whether a requester's peer was ever removed
    missed       \* heights whose peer was removed before its id was assigned

poolVars == <<height, requesters, numPending, peers, redos>>
auxVars  == <<orphans, removed, missed>>
netVars  == <<connected, leaving, net>>
syncVars == <<poolVars, running, routine, adding, requests, timeouts, auxVars, netVars,
              sync, executed, panicked, budget>>

Heights   == 1 .. MaxHeight
Idle      == [pc |-> "select", first |-> None, second |-> None, peer |-> None]
LockFree  == adding = None
Alive     == ~panicked
TimedOut  == {p \in DOMAIN peers : peers[p].didTimeout}

PoolInit ==
    /\ running = TRUE /\ height = 1 /\ requesters = <<>> /\ numPending = 0
    /\ peers = <<>> /\ routine = <<>> /\ redos = [h \in Heights |-> 0]
    /\ adding = None /\ requests = <<>> /\ timeouts = <<>> /\ orphans = {}
    /\ connected = Peers /\ leaving = {} /\ net = {} /\ sync = Idle
    /\ executed = <<>> /\ panicked = FALSE
    /\ removed = FALSE /\ missed = {}
    /\ budget \in Budgets

-----------------------------------------------------------------------------
(* The methods of BlockPool that hold the mutex to their end.              *)

\* What outlives the removal of the ids in S, whose requesters are `hit'.
NotedRemoval(S, hit) ==
    /\ orphans' = orphans \cup {p \in S \cap DOMAIN peers : peers[p].timer}
    /\ removed' = (removed \/ hit # {} \/ S \cap DOMAIN peers # {})
    /\ missed' = missed \cup {h \in DOMAIN routine : routine[h].pc = "assign" /\ routine[h].peer \in S}

\* A mistake: only a requester that has its block is told to redo.
BugRedoOnlyWaiting(S) ==
    LET hit == {h \in DOMAIN requesters : requesters[h].peerID \in S}
    IN  /\ numPending' = numPending + Cardinality(hit)
        /\ redos' = [h \in Heights |->
                       redos[h] + (IF h \in hit /\ requesters[h].block # None THEN 1 ELSE 0)]
        /\ NotedRemoval(S, hit)

\* A mistake: the requesters told to redo are not counted as pending again.
BugRemoveUncounted(S) ==
    LET hit == {h \in DOMAIN requesters : requesters[h].peerID \in S}
    IN  /\ numPending' = numPending
        /\ redos' = [h \in Heights |-> redos[h] + (IF h \in hit THEN 1 ELSE 0)]
        /\ NotedRemoval(S, hit)

\* removePeer for the ids in S: every requester that carries one of them is
\* counted as pending once more and told to redo.
removePeer(S) ==
    LET hit == {h \in DOMAIN requesters : requesters[h].peerID \in S}
    IN  /\ numPending' = numPending + Cardinality(hit)
        /\ redos' = [h \in Heights |-> redos[h] + (IF h \in hit THEN 1 ELSE 0)]
        /\ NotedRemoval(S, hit)

Without(S) == [p \in DOMAIN peers \ S |-> peers[p]]

\* incrPending: the first pending request makes the monitor and arms the timer.
incrPending(peer) == [peer EXCEPT !.numPending = @ + 1, !.monitor = TRUE,
                                   !.timer = @ \/ peer.numPending = 0]

\* decrPending: the last one stops it, any other restarts it.
decrPending(peer) == [peer EXCEPT !.numPending = @ - 1, !.timer = (peer.numPending # 1)]

\* makeRequestersRoutine below its limits.  GetStatus and makeNextRequester
\* take the mutex one after the other; only removals can come between, and
\* a removal does not see the new requester, so the two are one step here.
MakeNextRequester ==
    LET next == height + Cardinality(DOMAIN requesters)
    IN  /\ Alive /\ running /\ LockFree
        /\ numPending < MaxRequesters
        /\ Cardinality(DOMAIN requesters) < MaxRequesters
        /\ next \in Heights
        /\ requesters' = [h \in DOMAIN requesters \cup {next} |->
                            IF h = next THEN [peerID |-> None, block |-> None] ELSE requesters[h]]
        /\ routine' = [h \in DOMAIN routine \cup {next} |->
                            IF h = next THEN [pc |-> "pick", peer |-> None] ELSE routine[h]]
        /\ numPending' = numPending + 1
        /\ UNCHANGED <<running, height, peers, redos, adding, requests, timeouts, auxVars,
                       netVars, sync, executed, panicked, budget>>

\* makeRequestersRoutine at its limits: removeTimedoutPeers.  Any set of the
\* peers with pending requests may be receiving below minRecvRate.
RemoveTimedoutPeers ==
    /\ Alive /\ running /\ LockFree
    /\ numPending >= MaxRequesters \/ Cardinality(DOMAIN requesters) >= MaxRequesters
    /\ \E slow \in SUBSET {p \in DOMAIN peers : ~peers[p].didTimeout /\ peers[p].numPending > 0} :
          /\ slow \cup TimedOut # {}
          /\ Cardinality(slow) <= budget.timeouts
          /\ removePeer(slow \cup TimedOut)
          /\ peers' = Without(slow \cup TimedOut)
          /\ timeouts' = timeouts \o SetToSeq(slow)
          /\ budget' = [budget EXCEPT !.timeouts = @ - Cardinality(slow)]
    /\ UNCHANGED <<running, height, requesters, routine, adding, requests, netVars, sync,
                   executed, panicked>>

\* A status response: SetPeerHeight.
SetPeerHeight(p) ==
    /\ Alive /\ LockFree /\ p \in connected
    /\ p \notin DOMAIN peers
    /\ budget.joins > 0
    /\ budget' = [budget EXCEPT !.joins = @ - 1]
    /\ peers' = [q \in DOMAIN peers \cup {p} |->
                    IF q = p THEN [height |-> PeerHeight[p], numPending |-> 0,
                                   didTimeout |-> FALSE, timer |-> FALSE, monitor |-> FALSE]
                             ELSE peers[q]]
    /\ UNCHANGED <<running, height, requesters, numPending, routine, redos, adding, requests,
                   timeouts, auxVars, netVars, sync, executed, panicked>>

\* onTimeout, of a peer of the pool or of one that was removed meanwhile.
OnTimeout(p) ==
    /\ Alive /\ LockFree /\ budget.timeouts > 0
    /\ budget' = [budget EXCEPT !.timeouts = @ - 1]
    /\ timeouts' = IF running THEN Append(timeouts, p) ELSE timeouts
    /\ \/ /\ p \in orphans
          /\ orphans' = orphans \ {p}
          /\ UNCHANGED <<peers, removed, missed>>
       \/ /\ p \in DOMAIN peers /\ peers[p].timer
          /\ peers' = [peers EXCEPT ![p].timer = FALSE, ![p].didTimeout = TRUE]
          /\ UNCHANGED auxVars
    /\ UNCHANGED <<running, height, requesters, numPending, routine, redos, adding, requests,
                   netVars, sync, executed, panicked>>

-----------------------------------------------------------------------------
(* requestRoutine of the requester for height h.                           *)

SetRoutine(h, pc, peer) == routine' = [routine EXCEPT ![h] = [pc |-> pc, peer |-> peer]]

\* bpr.IsRunning() && bpr.pool.IsRunning(): PopRequest stops the requester.
IsRunning(h) == running /\ h \in DOMAIN requesters

\* One turn of PICK_PEER_LOOP: pickIncrAvailablePeer walks the map in any
\* order, removes the timed out peers it meets, and stops at the first peer
\* that can serve the height.  A turn that changes nothing only sleeps.
PickPeer(h) ==
    LET usable == {p \in DOMAIN peers \ TimedOut :
                     peers[p].numPending < MaxPerPeer /\ peers[p].height >= h}
    IN  /\ Alive /\ LockFree /\ routine[h].pc = "pick" /\ IsRunning(h)
        /\ \E met \in SUBSET TimedOut :
              /\ removePeer(met)
              /\ \/ \E p \in usable :
                       /\ peers' = [Without(met) EXCEPT ![p] = incrPending(@)]
                       /\ SetRoutine(h, "assign", p)
                 \/ /\ usable = {} /\ met = TimedOut /\ met # {}
                    /\ peers' = Without(met)
                    /\ UNCHANGED routine
        /\ UNCHANGED <<running, height, requesters, adding, requests, timeouts, netVars, sync,
                       executed, panicked, budget>>

\* bpr.peerID = peer.id, under the requester's own mutex.
AssignPeer(h) ==
    /\ Alive /\ routine[h].pc = "assign"
    /\ requesters' = IF h \in DOMAIN requesters
                     THEN [requesters EXCEPT ![h].peerID = routine[h].peer] ELSE requesters
    /\ SetRoutine(h, "send", routine[h].peer)
    /\ UNCHANGED <<running, height, numPending, peers, redos, adding, requests, timeouts,
                   auxVars, netVars, sync, executed, panicked, budget>>

\* sendRequest: waits while requestsCh is full, sends nothing once the pool stopped.
SendRequest(h) ==
    /\ Alive /\ routine[h].pc = "send"
    /\ \/ /\ running /\ Len(requests) < ChanCap
          /\ requests' = Append(requests, <<h, routine[h].peer>>)
       \/ ~running /\ UNCHANGED requests
    /\ SetRoutine(h, "wait", None)
    /\ UNCHANGED <<poolVars, running, adding, timeouts, auxVars, netVars, sync, executed,
                   panicked, budget>>

\* A redo() call meets the routine in one of its two selects: reset().
Redo(h) ==
    /\ Alive /\ routine[h].pc \in {"wait", "got"} /\ redos[h] > 0
    /\ redos' = [redos EXCEPT ![h] = @ - 1]
    /\ requesters' = IF h \in DOMAIN requesters
                     THEN [requesters EXCEPT ![h] = [peerID |-> None, block |-> None]]
                     ELSE requesters
    /\ SetRoutine(h, "pick", None)
    /\ UNCHANGED <<running, height, numPending, peers, adding, requests, timeouts, auxVars,
                   netVars, sync, executed, panicked, budget>>

\* The routine returns: one of the Quit cases, or the test of PICK_PEER_LOOP.
Quit(h) ==
    /\ Alive /\ routine[h].pc \in {"pick", "wait", "got"} /\ ~IsRunning(h)
    /\ SetRoutine(h, "done", None)
    /\ UNCHANGED <<poolVars, running, adding, requests, timeouts, auxVars, netVars, sync,
                   executed, panicked, budget>>

-----------------------------------------------------------------------------
(* Receive and the Switch.                                                 *)

\* AddBlock up to the send on gotBlockCh.  A block nobody waits for is dropped.
AddBlock(p, h, body) ==
    /\ Alive /\ LockFree /\ <<p, h, body>> \in net
    /\ net' = net \ {<<p, h, body>>}
    /\ IF h \in DOMAIN requesters /\ requesters[h] = [peerID |-> p, block |-> None]
       THEN /\ requesters' = [requesters EXCEPT ![h].block = body]
            /\ adding' = <<p, h>>
       ELSE UNCHANGED <<requesters, adding>>
    /\ UNCHANGED <<running, height, numPending, peers, routine, redos, requests, timeouts,
                   auxVars, connected, leaving, sync, executed, panicked, budget>>

\* The rest of AddBlock, once requestRoutine takes the signal.  When the peer
\* was removed meanwhile, or made anew and so without a monitor, decrPending
\* dereferences nil: the panic releases the mutex and stops the connection.
GotBlock ==
    /\ Alive /\ adding # None
    /\ LET p  == adding[1]
           h  == adding[2]
           ok == p \in DOMAIN peers /\ peers[p].monitor
       IN  /\ routine[h].pc = "wait"
           /\ SetRoutine(h, "got", None)
           /\ adding' = None
           /\ numPending' = numPending - 1
           /\ peers' = IF p \in DOMAIN peers
                       THEN [peers EXCEPT ![p] =
                               IF ok THEN decrPending(@) ELSE [@ EXCEPT !.numPending = @ - 1]]
                       ELSE peers
           /\ connected' = IF ok THEN connected ELSE connected \ {p}
           /\ leaving' = IF ok \/ p \notin connected THEN leaving ELSE leaving \cup {p}
    /\ UNCHANGED <<running, height, requesters, redos, requests, timeouts, auxVars, net, sync,
                   executed, panicked, budget>>

\* A connection ends.  Receive may be handling one last message.
Disconnect(p) ==
    /\ Alive /\ p \in connected /\ budget.drops > 0
    /\ connected' = connected \ {p} /\ leaving' = leaving \cup {p}
    /\ net' \in {net \ {m \in net : m[1] = p}} \cup
                {{m \in net : m[1] = p => m = last} : last \in {m \in net : m[1] = p}}
    /\ budget' = [budget EXCEPT !.drops = @ - 1]
    /\ UNCHANGED <<poolVars, running, routine, adding, requests, timeouts, auxVars, sync,
                   executed, panicked>>

\* Reactor.RemovePeer for a connection that ended.
RemovePeer(p) ==
    /\ Alive /\ LockFree /\ p \in leaving
    /\ leaving' = leaving \ {p}
    /\ removePeer({p}) /\ peers' = Without({p})
    /\ UNCHANGED <<running, height, requesters, routine, adding, requests, timeouts, connected,
                   net, sync, executed, panicked, budget>>

Reconnect(p) ==
    /\ Alive /\ p \notin connected \cup leaving /\ budget.joins > 0
    /\ connected' = connected \cup {p}
    /\ budget' = [budget EXCEPT !.joins = @ - 1]
    /\ UNCHANGED <<poolVars, running, routine, adding, requests, timeouts, auxVars, leaving,
                   net, sync, executed, panicked>>

-----------------------------------------------------------------------------
(* poolRoutine.                                                            *)

\* case request := <-requestsCh: a connected peer that has the block may answer.
HandleRequest ==
    /\ Alive /\ sync.pc = "select" /\ requests # <<>>
    /\ LET h == Head(requests)[1]
           p == Head(requests)[2]
       IN  net' \in IF p \in connected /\ h <= PeerHeight[p]
                    THEN {net \cup {<<p, h, body>>} :
                            body \in IF budget.rejects > 0 THEN Bodies ELSE {"good"}}
                    ELSE {net}
    /\ requests' = Tail(requests)
    /\ UNCHANGED <<poolVars, running, routine, adding, timeouts, auxVars, connected, leaving,
                   sync, executed, panicked, budget>>

\* case peerID := <-timeoutsCh: StopPeerForError, with RemovePeer inside.
HandleTimeout ==
    LET p == Head(timeouts)
    IN  /\ Alive /\ sync.pc = "select" /\ timeouts # <<>> /\ LockFree
        /\ timeouts' = Tail(timeouts)
        /\ IF p \in connected
           THEN /\ connected' = connected \ {p}
                /\ net' = {m \in net : m[1] # p}
                /\ removePeer({p}) /\ peers' = Without({p})
           ELSE UNCHANGED <<connected, net, peers, numPending, redos, auxVars>>
        /\ UNCHANGED <<running, height, requesters, routine, adding, requests, leaving, sync,
                       executed, panicked, budget>>

\* A mistake: the height of the best peer has to be passed.
BugCaughtUpStrict ==
    /\ DOMAIN peers # {}
    /\ height > Max({peers[p].height : p \in DOMAIN peers})

\* IsCaughtUp: the pool starts above height 0, so its clock plays no part.
IsCaughtUp ==
    /\ DOMAIN peers # {}
    /\ height >= Max({peers[p].height : p \in DOMAIN peers})

\* case <-switchToConsensusTicker.C
SwitchToConsensus ==
    /\ Alive /\ MaySwitch /\ running /\ sync.pc = "select" /\ LockFree /\ IsCaughtUp
    /\ running' = FALSE
    /\ sync' = [Idle EXCEPT !.pc = "stopped"]
    /\ UNCHANGED <<poolVars, routine, adding, requests, timeouts, auxVars, netVars, executed,
                   panicked, budget>>

\* SYNC_LOOP: PeekTwoBlocks.  Without both blocks the loop is left.
PeekTwoBlocks ==
    /\ Alive /\ sync.pc = "select" /\ LockFree
    /\ {height, height + 1} \subseteq DOMAIN requesters
    /\ requesters[height].block # None /\ requesters[height + 1].block # None
    /\ sync' = [pc |-> "peeked", first |-> requesters[height].block,
                second |-> requesters[height + 1].block, peer |-> None]
    /\ UNCHANGED <<poolVars, running, routine, adding, requests, timeouts, auxVars, netVars,
                   executed, panicked, budget>>

\* blockVerifier on the first block and the LastCommit of the second.
Verifies == sync.first # "badbody" /\ sync.second # "badcommit"

\* A mistake: the block is taken from the requester when it is popped.
BugPopCurrentBlock ==
    /\ Alive /\ sync.pc = "peeked" /\ Verifies /\ LockFree
    /\ height \in DOMAIN requesters
    /\ executed' = Append(executed, requesters[height].block)
    /\ requesters' = [h \in DOMAIN requesters \ {height} |-> requesters[h]]
    /\ height' = height + 1
    /\ sync' = Idle
    /\ UNCHANGED <<running, numPending, peers, redos, routine, adding, requests, timeouts,
                   auxVars, netVars, panicked, budget>>

\* PopRequest, then blockExecuter on the block that was peeked.
PopRequest ==
    /\ Alive /\ sync.pc = "peeked" /\ Verifies /\ LockFree
    /\ height \in DOMAIN requesters
    /\ requesters' = [h \in DOMAIN requesters \ {height} |-> requesters[h]]
    /\ height' = height + 1
    /\ executed' = Append(executed, sync.first)
    /\ sync' = Idle
    /\ UNCHANGED <<running, numPending, peers, redos, routine, adding, requests, timeouts,
                   auxVars, netVars, panicked, budget>>

\* RedoRequest up to its test of request.block: nil is a panic of poolRoutine.
RedoRequest ==
    /\ Alive /\ sync.pc = "peeked" /\ ~Verifies /\ LockFree
    /\ budget.rejects > 0
    /\ budget' = [budget EXCEPT !.rejects = @ - 1]
    /\ panicked' = (requesters[height].block = None)
    /\ sync' = [sync EXCEPT !.pc = "redo"]
    /\ UNCHANGED <<poolVars, running, routine, adding, requests, timeouts, auxVars, netVars,
                   executed>>

\* request.peerID is read after the test, and RemovePeer called with it.
RedoRead ==
    /\ Alive /\ sync.pc = "redo"
    /\ sync' = [sync EXCEPT !.pc = "remove", !.peer = requesters[height].peerID]
    /\ UNCHANGED <<poolVars, running, routine, adding, requests, timeouts, auxVars, netVars,
                   executed, panicked, budget>>

RedoRemove ==
    /\ Alive /\ sync.pc = "remove" /\ LockFree
    /\ removePeer({sync.peer}) /\ peers' = Without({sync.peer})
    /\ sync' = Idle
    /\ UNCHANGED <<running, height, requesters, routine, adding, requests, timeouts, netVars,
                   executed, panicked, budget>>

-----------------------------------------------------------------------------
Routine(h) == PickPeer(h) \/ AssignPeer(h) \/ SendRequest(h) \/ Redo(h) \/ Quit(h)

Sync == \/ HandleRequest \/ HandleTimeout \/ SwitchToConsensus
        \/ PeekTwoBlocks \/ PopRequest \/ RedoRequest \/ RedoRead \/ RedoRemove

Receive == GotBlock \/ \E m \in net : AddBlock(m[1], m[2], m[3])

PoolNext ==
    \/ MakeNextRequester \/ RemoveTimedoutPeers
    \/ \E h \in DOMAIN routine : Routine(h)
    \/ Receive
    \/ Sync
    \/ \E p \in Peers : SetPeerHeight(p) \/ OnTimeout(p) \/ Disconnect(p) \/ RemovePeer(p)
                        \/ Reconnect(p)

\* Every goroutine that can run keeps running, and connected peers answer;
\* nothing says that connections are lost or that timers fire.
PoolFairness ==
    /\ WF_syncVars(MakeNextRequester) /\ WF_syncVars(Receive)
    /\ \A h \in Heights : WF_syncVars(h \in DOMAIN routine /\ Routine(h))
    /\ WF_syncVars(HandleRequest) /\ SF_syncVars(HandleTimeout) /\ SF_syncVars(SwitchToConsensus)
    /\ SF_syncVars(PeekTwoBlocks)
    /\ WF_syncVars(PopRequest \/ RedoRequest \/ RedoRead \/ RedoRemove)
    /\ \A p \in Peers : WF_syncVars(SetPeerHeight(p)) /\ WF_syncVars(RemovePeer(p))

PoolSpec == PoolInit /\ [][PoolNext]_syncVars /\ PoolFairness



-----------------------------------------------------------------------------
(* Properties.                                                             *)

\* The fields of the pool and its requesters have their types, requestsCh never
\* holds more than its capacity, pool.height is "the lowest key in requesters" and
\* the keys have no gaps: makeNextRequester, which computes its key from the
\* number of requesters, never replaces one.
PoolTypeOK ==
    /\ running \in BOOLEAN /\ panicked \in BOOLEAN /\ height \in Nat /\ numPending \in Int
    /\ DOMAIN requesters \subseteq Heights /\ DOMAIN routine \subseteq Heights
    /\ DOMAIN requesters \subseteq DOMAIN routine
    /\ \A h \in DOMAIN requesters : requesters[h].peerID \in Peers \cup {None}
                                    /\ requesters[h].block \in Bodies \cup {None}
    /\ DOMAIN peers \subseteq Peers /\ orphans \subseteq Peers
    /\ connected \subseteq Peers /\ leaving \subseteq Peers
    /\ redos \in [Heights -> Nat]
    /\ Len(requests) <= ChanCap
    /\ DOMAIN requesters = height .. (height + Cardinality(DOMAIN requesters) - 1)

\* The blocks poolRoutine hands to blockExecuter are the ones blockVerifier
\* accepted, one for each height below pool.height, although the block of a
\* requester "can disappear at any time" between PeekTwoBlocks and PopRequest.
ExecutesVerifiedBlocks ==
    /\ Len(executed) = height - 1
    /\ \A i \in 1 .. Len(executed) : executed[i] \in Bodies \ {"badbody"}

\* numPending never counts fewer requests than are waiting for a peer or a
\* block: the limit of makeRequestersRoutine is never exceeded for want of
\* counting, whatever removePeer, redo and AddBlock do to one another.  Until a
\* peer is removed it is what the comment on the field says, the "number of
\* requests pending assignment or block response", and RedoRequest's assertion
\* "Expected block to be non-nil" holds.
PendingIsCounted ==
    LET pending == Cardinality({h \in DOMAIN requesters : requesters[h].block = None})
    IN  /\ PoolTypeOK
        /\ numPending >= pending
        /\ ~removed => ~panicked /\ (adding = None => numPending = pending)

\* "RemovePeer will redo all requesters associated with this peer": a
\* requester that waits for an answer of a peer that is gone has a redo
\* coming, unless the peer left between its choice and its assignment.
RemovedPeersAreRedone ==
    \A h \in DOMAIN requesters \ missed :
        (running /\ routine[h].pc \in {"wait", "got"} /\ redos[h] = 0)
            => requesters[h].peerID \in DOMAIN peers \cup leaving

\* Fast sync ends: with peers that stay, answer and have good blocks, the node
\* executes every block below the height of the lowest peer at least (the
\* others may not have reported theirs yet) and switches to consensus.
Faultless == budget.drops + budget.timeouts + budget.rejects = 0 /\ MaySwitch
CatchesUp == Faultless => <>(~running /\ height >= Min({PeerHeight[p] : p \in Peers}))

=============================================================================
