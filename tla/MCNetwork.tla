----------------------------- MODULE MCNetwork -----------------------------
(***************************************************************************)
(* What happens between two nodes, for TLC, one component at a time: a     *)
(* behaviour chooses its part in the initial state and moves only that.    *)
(***************************************************************************)
EXTENDS BlockPool, Connection, Switch

CONSTANTS p1,           \* BlockPool: the peer that is not behind
          c1, c2, c3,   \* Switch: connections
          n1, n2, n3    \* Switch: nodes

VARIABLE part

(***************************************************************************)
(* BlockPool: two peers of which one is a block behind, at most one fault. *)
(***************************************************************************)
Behind == [p \in Peers |-> IF p = p1 THEN 3 ELSE 2]

Faults(drops, timedout, rejects, joins) ==
    [drops |-> drops, timeouts |-> timedout, rejects |-> rejects, joins |-> joins]

OneFault == {Faults(1, 0, 0, 3), Faults(0, 1, 0, 2), Faults(0, 0, 1, 3), Faults(0, 0, 0, 2)}

(***************************************************************************)
(* Connection: the messages of two channels, by their packets; the ticks   *)
(* of the ping and statistics timers, and a fault.  A queue, a buffer and  *)
(* a wire hold one.                                                        *)
(***************************************************************************)
MCPriority == <<1, 2>>

End(one, two, pings, ticks, fault) ==
    [msgs |-> <<one, two>>, pings |-> pings, stats |-> ticks, fault |-> fault,
     wire |-> 1, buf |-> 1, queue |-> 1]
Between(x, y) == [e \in ConnEnds |-> IF e = "a" THEN x ELSE y]

MCConnCases ==
    { \* Two channels share the connection.
      Between(End(<<1, 1>>, <<2>>, 0, 1, "none"), End(<<>>, <<>>, 0, 0, "none")),
      \* Both ends send more than fits, and ping.
      Between(End(<<2>>, <<>>, 1, 0, "none"), End(<<2>>, <<>>, 1, 0, "none")),
      \* A message that is too long for the other end.
      Between(End(<<3>>, <<>>, 0, 0, "none"), End(<<>>, <<>>, 1, 0, "none")),
      \* A reactor of the receiver panics, or gives the peer up.
      Between(End(<<1>>, <<>>, 0, 0, "none"), End(<<>>, <<1>>, 1, 0, "panic")),
      Between(End(<<1>>, <<>>, 0, 0, "none"), End(<<>>, <<>>, 1, 0, "refuse")),
      \* An end is stopped, or the network fails.
      Between(End(<<1>>, <<>>, 1, 1, "stop"), End(<<>>, <<>>, 0, 0, "none")),
      Between(End(<<1>>, <<>>, 1, 0, "network"), End(<<>>, <<>>, 0, 0, "none")) }

(***************************************************************************)
(* Switch: a node that connects twice, next to another; three nodes.       *)
(***************************************************************************)
SwCase(keys, fails, gives) ==
    [keys |-> keys, stops |-> [c \in Callers |-> IF c = "connection" THEN fails ELSE gives]]

MCSwitchCases ==
    { SwCase(c1 :> n1 @@ c2 :> n1 @@ c3 :> n2, {c1}, {c1}),
      SwCase(c1 :> n1 @@ c2 :> n1 @@ c3 :> n1, {c1, c2}, {}),
      SwCase(c1 :> n1 @@ c2 :> n2 @@ c3 :> n3, {}, {c1, c2}) }

-----------------------------------------------------------------------------
Only(p, choice, choices) == part = p \/ choice = CHOOSE c \in choices : TRUE

NetworkInit ==
    /\ part \in {"fast sync", "connection", "switch"}
    /\ PoolInit /\ Only("fast sync", budget, Budgets)
    /\ ConnInit /\ Only("connection", todo, ConnCases)
    /\ SwitchInit /\ Only("switch", switchCase, SwitchCases)

NetworkNext ==
    /\ UNCHANGED part
    /\ \/ part = "fast sync" /\ PoolNext /\ UNCHANGED <<connVars, switchVars>>
       \/ part = "connection" /\ ConnNext /\ UNCHANGED <<syncVars, switchVars>>
       \/ part = "switch" /\ SwitchNext /\ UNCHANGED <<syncVars, connVars>>

\* The fairness of each module, in the behaviours of its part.
NetworkFairness ==
    /\ WF_syncVars(part = "fast sync" /\ MakeNextRequester)
    /\ WF_syncVars(part = "fast sync" /\ Receive)
    /\ \A h \in Heights : WF_syncVars(part = "fast sync" /\ h \in DOMAIN routine /\ Routine(h))
    /\ WF_syncVars(part = "fast sync" /\ HandleRequest)
    /\ SF_syncVars(part = "fast sync" /\ HandleTimeout)
    /\ SF_syncVars(part = "fast sync" /\ SwitchToConsensus)
    /\ SF_syncVars(part = "fast sync" /\ PeekTwoBlocks)
    /\ WF_syncVars(part = "fast sync" /\ (PopRequest \/ RedoRequest \/ RedoRead \/ RedoRemove))
    /\ \A p \in Peers : /\ WF_syncVars(part = "fast sync" /\ SetPeerHeight(p))
                        /\ WF_syncVars(part = "fast sync" /\ RemovePeer(p))
    /\ \A e \in ConnEnds : /\ WF_connVars(part = "connection" /\ sendRoutine(e))
                           /\ WF_connVars(part = "connection" /\ recvRoutine(e))
                           /\ WF_connVars(part = "connection" /\ caller(e))

NetworkSpec == NetworkInit /\ [][NetworkNext]_<<part, syncVars, connVars, switchVars>> /\ NetworkFairness

-----------------------------------------------------------------------------
\* Fast sync ends, in the behaviours of the pool: poolRoutine executes the blocks
\* and switches to consensus, see BlockPool.
FastSyncEnds == part = "fast sync" => CatchesUp

\* sendRoutine and recvRoutine deliver what was queued, or end: see Connection.
ConnectionSettles == []<>Settled
=============================================================================
