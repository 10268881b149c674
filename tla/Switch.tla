------------------------------- MODULE Switch -------------------------------
(***************************************************************************)
(* gemmill/p2p: the switch's peers.  Each connection makes a Peer of its   *)
(* own, and two connections of one node have the same Key.  A peer comes   *)
(* by AddPeerWithConnection and goes by StopPeerForError, which its        *)
(* connection calls (onError) and any reactor may call too; each is a      *)
(* sequence of steps, in routines that nothing orders: the PeerSet's       *)
(* table, the peer's own Start or Stop, then every reactor, in the order   *)
(* of a map.  A reactor's state is the peer it has under each key, as the  *)
(* block pool's.                                                           *)
(***************************************************************************)
EXTENDS Integers, Sequences, Absent

CONSTANTS Conns,        \* connections
          Nodes,        \* Peer.Key of the nodes at their other ends
          Reactors,
          SwitchCases   \* bounds: the node of each connection, who may stop which

ASSUME SwitchAssumption ==
    Reactors # {} /\ None \notin Conns /\ \A c \in SwitchCases : c.keys \in [Conns -> Nodes]

VARIABLES switchCase,  \* one of SwitchCases
          peerSet,     \* PeerSet: list, lookup by key, and the items' indexes
          life,        \* Peer's BaseService
          joining,     \* AddPeerWithConnection: its next step, the reactors to tell
          stopping,    \* StopPeerForError, of either caller: likewise
          told,        \* the peer a reactor has under a key
          crossed      \* history: keys of which one call undid another's

switchVars == <<switchCase, peerSet, life, joining, stopping, told, crossed>>

Callers == {"connection", "reactor"}
keyOf == switchCase.keys
Listed(p) == \E i \in DOMAIN peerSet.list : peerSet.list[i] = p

SwitchInit ==
    /\ switchCase \in SwitchCases
    /\ peerSet = [list |-> <<>>, lookup |-> [k \in Nodes |-> None], index |-> [p \in Conns |-> 0]]
    /\ life = [p \in Conns |-> "new"]
    /\ joining = [p \in Conns |-> [at |-> "add", left |-> Reactors]]
    /\ stopping = [p \in Conns |-> [c \in Callers |-> [at |-> "no", left |-> Reactors]]]
    /\ told = [r \in Reactors |-> [k \in Nodes |-> None]]
    /\ crossed = {}

-----------------------------------------------------------------------------
(* PeerSet.                                                                *)

SetAdd(ps, p) ==
    [list |-> Append(ps.list, p), lookup |-> [ps.lookup EXCEPT ![keyOf[p]] = p],
     index |-> [ps.index EXCEPT ![p] = Len(ps.list) + 1]]

\* Remove goes by the key: it takes out the peer of that key, whichever it is,
\* and moves the last of the list to its place.
SetRemove(ps, p) ==
    LET old == ps.lookup[keyOf[p]]
        last == ps.list[Len(ps.list)] IN
    IF old = None THEN ps
    ELSE [list |-> SubSeq([ps.list EXCEPT ![ps.index[old]] = last], 1, Len(ps.list) - 1),
          lookup |-> [ps.lookup EXCEPT ![keyOf[p]] = None],
          index |-> [ps.index EXCEPT ![last] = ps.index[old]]]

-----------------------------------------------------------------------------
(* AddPeerWithConnection, after the handshakes.                            *)

BugAddsDuplicates(p) ==
    /\ joining[p].at = "add"
    /\ peerSet' = SetAdd(peerSet, p)
    /\ joining' = [joining EXCEPT ![p].at = "start"]
    /\ UNCHANGED <<switchCase, life, stopping, told, crossed>>

\* A peer of a key the set has is stopped and refused.
AddPeer(p) ==
    /\ joining[p].at = "add"
    /\ IF peerSet.lookup[keyOf[p]] # None
       THEN /\ life' = [life EXCEPT ![p] = "stopped"]
            /\ joining' = [joining EXCEPT ![p].at = "refused"]
            /\ UNCHANGED peerSet
       ELSE /\ peerSet' = SetAdd(peerSet, p)
            /\ joining' = [joining EXCEPT ![p].at = "start"]
            /\ UNCHANGED life
    /\ UNCHANGED <<switchCase, stopping, told, crossed>>

\* startInitPeer: Start does nothing for a peer that is stopped already, and the
\* reactors are told all the same.
StartPeer(p) ==
    /\ joining[p].at = "start"
    /\ life' = [life EXCEPT ![p] = IF @ = "new" THEN "running" ELSE @]
    /\ joining' = [joining EXCEPT ![p].at = "reactors"]
    /\ UNCHANGED <<switchCase, peerSet, stopping, told, crossed>>

ReactorAddPeer(p, r) ==
    /\ joining[p].at = "reactors" /\ r \in joining[p].left
    /\ joining' = [joining EXCEPT ![p].left = @ \ {r}]
    /\ told' = [told EXCEPT ![r][keyOf[p]] = p]
    /\ crossed' = IF told[r][keyOf[p]] # None \/ \E c \in Callers : r \notin stopping[p][c].left
                  THEN crossed \cup {keyOf[p]} ELSE crossed
    /\ UNCHANGED <<switchCase, peerSet, life, stopping>>

-----------------------------------------------------------------------------
(* StopPeerForError and StopPeerGracefully.                                *)

StopAt(p, c, at) == stopping[p][c].at = at
StopGoto(p, c, at) == stopping' = [stopping EXCEPT ![p][c].at = at]

\* The connection fails while it runs: onError stops the peer first.
ConnectionFails(p) ==
    /\ p \in switchCase.stops["connection"] /\ StopAt(p, "connection", "no") /\ life[p] = "running"
    /\ StopGoto(p, "connection", "on_error")
    /\ UNCHANGED <<switchCase, peerSet, life, joining, told, crossed>>

OnError(p) ==
    /\ StopAt(p, "connection", "on_error")
    /\ life' = [life EXCEPT ![p] = "stopped"]
    /\ StopGoto(p, "connection", "remove")
    /\ UNCHANGED <<switchCase, peerSet, joining, told, crossed>>

\* A reactor got the peer from the set and is going to stop it.
ReactorStops(p) ==
    /\ p \in switchCase.stops["reactor"] /\ StopAt(p, "reactor", "no") /\ Listed(p)
    /\ StopGoto(p, "reactor", "remove")
    /\ UNCHANGED <<switchCase, peerSet, life, joining, told, crossed>>

RemoveFromSet(p, c) ==
    /\ StopAt(p, c, "remove")
    /\ peerSet' = SetRemove(peerSet, p)
    /\ crossed' = IF peerSet.lookup[keyOf[p]] \in {p, None} THEN crossed ELSE crossed \cup {keyOf[p]}
    /\ StopGoto(p, c, "stop")
    /\ UNCHANGED <<switchCase, life, joining, told>>

StopPeer(p, c) ==
    /\ StopAt(p, c, "stop")
    /\ life' = [life EXCEPT ![p] = "stopped"]
    /\ StopGoto(p, c, "reactors")
    /\ UNCHANGED <<switchCase, peerSet, joining, told, crossed>>

ReactorRemovePeer(p, c, r) ==
    /\ StopAt(p, c, "reactors") /\ r \in stopping[p][c].left
    /\ stopping' = [stopping EXCEPT ![p][c].left = @ \ {r}]
    /\ told' = [told EXCEPT ![r][keyOf[p]] = None]
    /\ crossed' = IF told[r][keyOf[p]] \in {p, None} THEN crossed ELSE crossed \cup {keyOf[p]}
    /\ UNCHANGED <<switchCase, peerSet, life, joining>>

SwitchNext ==
    \E p \in Conns :
       \/ AddPeer(p) \/ StartPeer(p) \/ (\E r \in Reactors : ReactorAddPeer(p, r))
       \/ ConnectionFails(p) \/ OnError(p) \/ ReactorStops(p)
       \/ \E c \in Callers :
             \/ RemoveFromSet(p, c) \/ StopPeer(p, c)
             \/ \E r \in Reactors : ReactorRemovePeer(p, c, r)

SwitchSpec == SwitchInit /\ [][SwitchNext]_switchVars

-----------------------------------------------------------------------------
\* A peer is listed where its index says, and is the one found under its key.
PeerSetAgrees ==
    /\ \A i \in DOMAIN peerSet.list :
          LET p == peerSet.list[i] IN peerSet.index[p] = i /\ peerSet.lookup[keyOf[p]] = p
    /\ \A k \in Nodes : peerSet.lookup[k] # None => Listed(peerSet.lookup[k]) /\ keyOf[peerSet.lookup[k]] = k

\* No call about a peer of key k is under way.
Quiet(k) ==
    \A p \in {q \in Conns : keyOf[q] = k} :
       /\ joining[p].at \in {"add", "refused"} \/ joining[p].left = {}
       /\ \A c \in Callers : StopAt(p, c, "no") \/ stopping[p][c].left = {}

\* The PeerSet's list, lookup and indexes say the same, through every removal by
\* key and move of the last peer.  When the calls about a key have returned, its
\* peer that runs is the one listed and the one every reactor has, and there is at
\* most one; unless a late StopPeerForError of an older connection took out the
\* newer one, or a reactor was told of a removal before it was told of the peer
\* (AddPeerWithConnection, StopPeerForError).
RunningIsListed ==
    /\ PeerSetAgrees
    /\ \A k \in Nodes \ crossed : Quiet(k) =>
          /\ {p \in Conns : keyOf[p] = k /\ life[p] = "running"} = {peerSet.lookup[k]} \ {None}
          /\ \A r \in Reactors : told[r][k] = peerSet.lookup[k]
=============================================================================
