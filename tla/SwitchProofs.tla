---------------------------- MODULE SwitchProofs ----------------------------
(***************************************************************************)
(* For any connections, nodes and reactors: the PeerSet's list, lookup and *)
(* indexes agree, and once the calls about a key have returned the switch, *)
(* the peer and the reactors agree on who is there.                        *)
(*                                                                         *)
(* A call has done to a peer what its program counter says: the invariant  *)
(* derives the peer's life, its entry in the set and what each reactor     *)
(* holds from how far AddPeerWithConnection and StopPeerForError have got, *)
(* as long as no call has undone another's work (crossed).                 *)
(***************************************************************************)
EXTENDS Switch, TLAPS

JoinSteps == {"add", "refused", "start", "reactors"}
StopSteps == {"no", "on_error", "remove", "stop", "reactors"}
Lifes     == {"new", "running", "stopped"}

SwitchTypes ==
    /\ switchCase \in SwitchCases
    /\ peerSet \in [list : Seq(Conns), lookup : [Nodes -> Conns \cup {None}], index : [Conns -> Nat]]
    /\ life \in [Conns -> Lifes]
    /\ joining \in [Conns -> [at : JoinSteps, left : SUBSET Reactors]]
    /\ stopping \in [Conns -> [Callers -> [at : StopSteps, left : SUBSET Reactors]]]
    /\ told \in [Reactors -> [Nodes -> Conns \cup {None}]]
    /\ crossed \subseteq Nodes

\* PeerSetAgrees, as a relation of the set's parts.
Agree(list, lookup, index, keys) ==
    /\ \A i \in DOMAIN list : index[list[i]] = i /\ lookup[keys[list[i]]] = list[i]
    /\ \A k \in Nodes : lookup[k] # None => /\ \E i \in DOMAIN list : list[i] = lookup[k]
                                            /\ keys[lookup[k]] = k

SetInv == Agree(peerSet.list, peerSet.lookup, peerSet.index, keyOf)

Joined(p) == joining[p].at \in {"start", "reactors"}

\* A call has taken p out of the set; p's Stop has been called; a call has told
\* r that p is gone.
TakenOut(p)  == \E c \in Callers : stopping[p][c].at \in {"stop", "reactors"}
Stopped(p)   == \/ stopping[p]["connection"].at \in {"remove", "stop", "reactors"}
                \/ stopping[p]["reactor"].at = "reactors"
Passed(p, r) == \E c \in Callers : r \notin stopping[p][c].left

Calls(p) ==
    /\ ~Joined(p) => \A c \in Callers : stopping[p][c].at = "no"
    /\ joining[p].at # "reactors" => joining[p].left = Reactors
    /\ \A c \in Callers : stopping[p][c].at # "reactors" => stopping[p][c].left = Reactors

Lives(p) ==
    /\ joining[p].at = "add" => life[p] = "new"
    /\ joining[p].at = "refused" => life[p] = "stopped"
    /\ Joined(p) /\ Stopped(p) => life[p] = "stopped"
    /\ joining[p].at = "start" /\ ~Stopped(p) => life[p] = "new"
    /\ joining[p].at = "reactors" /\ ~Stopped(p) => life[p] = "running"

Entry(p) ==
    LET k == keyOf[p]
    IN  /\ peerSet.lookup[k] = p => Joined(p) /\ ~TakenOut(p)
        /\ Joined(p) /\ ~TakenOut(p) /\ k \notin crossed => peerSet.lookup[k] = p

Held(p, r) ==
    LET k == keyOf[p]
    IN  k \notin crossed => (told[r][k] = p <=> r \notin joining[p].left /\ ~Passed(p, r))

ToldKeys == \A r \in Reactors, k \in Nodes : told[r][k] # None => keyOf[told[r][k]] = k

SwitchInv ==
    /\ SwitchTypes /\ SetInv /\ ToldKeys
    /\ \A p \in Conns : Calls(p) /\ Lives(p) /\ Entry(p) /\ \A r \in Reactors : Held(p, r)

-----------------------------------------------------------------------------
\* Every connection has a node, and no connection is nil.
LEMMA KeysAre ==
    ASSUME SwitchTypes
    PROVE  keyOf \in [Conns -> Nodes] /\ None \notin Conns
  BY SwitchAssumption DEF SwitchTypes, keyOf

\* PeerSet.Add of a peer whose key is free.
LEMMA AddAgrees ==
    ASSUME NEW keys \in [Conns -> Nodes], NEW list \in Seq(Conns),
           NEW lookup \in [Nodes -> Conns \cup {None}], NEW index \in [Conns -> Nat],
           Agree(list, lookup, index, keys), NEW p \in Conns, lookup[keys[p]] = None
    PROVE  Agree(Append(list, p), [lookup EXCEPT ![keys[p]] = p],
                 [index EXCEPT ![p] = Len(list) + 1], keys)
  <1> DEFINE n == Len(list)
             new == Append(list, p)
  <1>1. None \notin Conns
    BY SwitchAssumption
  <1>2. /\ n \in Nat /\ DOMAIN list = 1 .. n /\ DOMAIN new = 1 .. n + 1 /\ new[n + 1] = p
        /\ \A i \in 1 .. n : new[i] = list[i] /\ list[i] \in Conns
    OBVIOUS
  <1>3. \A i \in 1 .. n : list[i] # p /\ keys[list[i]] # keys[p]
    BY <1>1, <1>2 DEF Agree
  <1> HIDE DEF n, new
  <1>4. \A i \in DOMAIN new : /\ [index EXCEPT ![p] = n + 1][new[i]] = i
                              /\ [lookup EXCEPT ![keys[p]] = p][keys[new[i]]] = new[i]
    <2> TAKE i \in DOMAIN new
    <2>1. CASE i = n + 1
      BY <1>2, <2>1
    <2>2. CASE i \in 1 .. n
      <3>1. new[i] = list[i] /\ list[i] \in Conns /\ list[i] # p /\ keys[list[i]] # keys[p] /\ keys[list[i]] \in Nodes
        BY <1>2, <1>3, <2>2
      <3>2. index[list[i]] = i /\ lookup[keys[list[i]]] = list[i]
        BY <1>2, <2>2 DEF Agree
      <3> QED BY <3>1, <3>2
    <2> QED BY <1>2, <2>1, <2>2
  <1>5. ASSUME NEW k \in Nodes, [lookup EXCEPT ![keys[p]] = p][k] # None
        PROVE  /\ \E i \in DOMAIN new : new[i] = [lookup EXCEPT ![keys[p]] = p][k]
               /\ keys[[lookup EXCEPT ![keys[p]] = p][k]] = k
    <2>1. CASE k = keys[p]
      BY <1>2, <2>1
    <2>2. CASE k # keys[p]
      <3>1. [lookup EXCEPT ![keys[p]] = p][k] = lookup[k] /\ lookup[k] # None
        BY <1>5, <2>2
      <3>2. PICK i \in DOMAIN list : list[i] = lookup[k] /\ keys[lookup[k]] = k
        BY <3>1 DEF Agree
      <3>3. i \in DOMAIN new /\ new[i] = list[i]
        BY <1>2, <3>2
      <3> QED BY <3>1, <3>2, <3>3
    <2> QED BY <2>1, <2>2
  <1> QED BY <1>4, <1>5 DEF Agree, n, new

\* PeerSet.Remove: the last peer of the list takes the place of the one removed.
LEMMA RemoveAgrees ==
    ASSUME NEW keys \in [Conns -> Nodes], NEW list \in Seq(Conns),
           NEW lookup \in [Nodes -> Conns \cup {None}], NEW index \in [Conns -> Nat],
           Agree(list, lookup, index, keys), NEW k \in Nodes, lookup[k] # None
    PROVE  LET old == lookup[k]
               last == list[Len(list)]
               list2 == SubSeq([list EXCEPT ![index[old]] = last], 1, Len(list) - 1)
               index2 == [index EXCEPT ![last] = index[old]]
           IN  /\ Agree(list2, [lookup EXCEPT ![k] = None], index2, keys)
               /\ list2 \in Seq(Conns) /\ index2 \in [Conns -> Nat]
  <1>1. PICK old, last, at, n : old = lookup[k] /\ last = list[Len(list)] /\ at = index[old] /\ n = Len(list)
    OBVIOUS
  <1>2. PICK i0 \in DOMAIN list : list[i0] = old /\ keys[old] = k
    BY <1>1 DEF Agree
  <1>3. /\ n \in Nat /\ DOMAIN list = 1 .. n /\ at = i0 /\ at \in 1 .. n /\ n > 0 /\ list[at] = old
        /\ last = list[n] /\ last \in Conns /\ old \in Conns /\ n \in 1 .. n
        /\ \A i \in 1 .. n : list[i] \in Conns
    BY <1>1, <1>2 DEF Agree
  <1>4. \A i \in 1 .. n : index[list[i]] = i /\ lookup[keys[list[i]]] = list[i]
    BY <1>3 DEF Agree
  <1>5. PICK list2, index2 : list2 = SubSeq([list EXCEPT ![at] = last], 1, n - 1) /\ index2 = [index EXCEPT ![last] = at]
    OBVIOUS
  <1>6. /\ list2 \in Seq(Conns) /\ DOMAIN list2 = 1 .. n - 1
        /\ \A i \in 1 .. n - 1 : list2[i] = IF i = at THEN last ELSE list[i]
    <2>1. PICK mid : mid = [list EXCEPT ![at] = last]
      OBVIOUS
    <2>2. mid \in Seq(Conns) /\ Len(mid) = n /\ \A i \in 1 .. n : mid[i] = IF i = at THEN last ELSE list[i]
      BY <1>1, <1>3, <2>1
    <2>3. list2 = SubSeq(mid, 1, n - 1)
      BY <1>5, <2>1, <2>2
    <2> QED BY <1>3, <2>2, <2>3
  <1>7. index2 \in [Conns -> Nat] /\ index2[last] = at /\ \A p \in Conns : p # last => index2[p] = index[p]
    BY <1>3, <1>5
  <1>8. PICK look2 : look2 = [lookup EXCEPT ![k] = None]
    OBVIOUS
  <1>9. ASSUME NEW i \in DOMAIN list2
        PROVE  index2[list2[i]] = i /\ look2[keys[list2[i]]] = list2[i]
    <2>1. i \in 1 .. n - 1 /\ i \in 1 .. n /\ i # n
      BY <1>3, <1>6
    <2>2. CASE i = at
      <3>1. list2[i] = last /\ index2[last] = i
        BY <1>6, <1>7, <2>1, <2>2
      <3>2. last # old
        BY <1>3, <1>4, <2>1, <2>2
      <3>3. lookup[keys[last]] = last /\ keys[last] \in Nodes
        BY <1>3, <1>4
      <3>4. keys[last] # k
        BY <1>1, <3>2, <3>3
      <3> QED BY <1>8, <3>1, <3>3, <3>4
    <2>3. CASE i # at
      <3>1. list2[i] = list[i] /\ list[i] \in Conns
        BY <1>3, <1>6, <2>1, <2>3
      <3>2. index[list[i]] = i /\ index[last] = n /\ lookup[keys[list[i]]] = list[i]
        BY <1>3, <1>4, <2>1
      <3>3. list[i] # last /\ list[i] # old
        BY <1>1, <2>1, <2>3, <3>2
      <3>4. keys[list[i]] # k /\ keys[list[i]] \in Nodes
        BY <1>1, <3>1, <3>2, <3>3
      <3> QED BY <1>7, <1>8, <3>1, <3>2, <3>3, <3>4
    <2> QED BY <2>2, <2>3
  <1>10. ASSUME NEW j \in Nodes, look2[j] # None
         PROVE  (\E i \in DOMAIN list2 : list2[i] = look2[j]) /\ keys[look2[j]] = j
    <2>1. j # k /\ look2[j] = lookup[j]
      BY <1>8, <1>10
    <2>2. PICK i \in DOMAIN list : list[i] = lookup[j] /\ keys[lookup[j]] = j
      BY <1>10, <2>1 DEF Agree
    <2>3. i # at
      BY <1>2, <1>3, <2>1, <2>2
    <2>4. CASE i = n
      <3>1. at \in 1 .. n - 1 /\ list2[at] = last /\ last = lookup[j]
        BY <1>3, <1>6, <2>2, <2>3, <2>4
      <3> QED BY <1>6, <2>1, <2>2, <3>1
    <2>5. CASE i # n
      <3>1. i \in 1 .. n - 1 /\ list2[i] = list[i]
        BY <1>3, <1>6, <2>2, <2>3, <2>5
      <3> QED BY <1>6, <2>1, <2>2, <3>1
    <2> QED BY <2>4, <2>5
  <1>11. Agree(list2, look2, index2, keys)
    BY <1>9, <1>10 DEF Agree
  <1> QED BY <1>1, <1>5, <1>6, <1>7, <1>8, <1>11

-----------------------------------------------------------------------------
\* No connection has been made.
LEMMA SwitchInvInit == SwitchInit => SwitchInv
  <1> SUFFICES ASSUME SwitchInit PROVE SwitchInv
    OBVIOUS
  <1>1. SwitchTypes
    BY DEF SwitchInit, SwitchTypes, JoinSteps, StopSteps, Lifes
  <1>2. keyOf \in [Conns -> Nodes] /\ None \notin Conns
    BY <1>1, KeysAre
  <1>3. SetInv /\ ToldKeys
    BY DEF SwitchInit, SetInv, ToldKeys, Agree
  <1>4. ASSUME NEW p \in Conns
        PROVE  Calls(p) /\ Lives(p) /\ Entry(p) /\ \A r \in Reactors : Held(p, r)
    BY <1>2 DEF SwitchInit, Calls, Lives, Entry, Held, Joined, TakenOut, Stopped, Passed
  <1> QED BY <1>1, <1>3, <1>4 DEF SwitchInv

\* What the assignments to the two program counters do.
LEMMA JoinStep ==
    ASSUME SwitchTypes, NEW p \in Conns, NEW at \in JoinSteps, joining' = [joining EXCEPT ![p].at = at]
    PROVE  /\ joining' \in [Conns -> [at : JoinSteps, left : SUBSET Reactors]]
           /\ joining'[p].at = at /\ joining'[p].left = joining[p].left
           /\ \A q \in Conns : q # p => joining'[q] = joining[q]
  BY DEF SwitchTypes

LEMMA StopStep ==
    ASSUME SwitchTypes, NEW p \in Conns, NEW c \in Callers, NEW at \in StopSteps,
           stopping' = [stopping EXCEPT ![p][c].at = at]
    PROVE  /\ stopping' \in [Conns -> [Callers -> [at : StopSteps, left : SUBSET Reactors]]]
           /\ stopping'[p][c].at = at
           /\ \A d \in Callers : d # c => stopping'[p][d] = stopping[p][d]
           /\ \A d \in Callers : stopping'[p][d].left = stopping[p][d].left
           /\ \A q \in Conns : q # p => stopping'[q] = stopping[q]
  <1>1. PICK cell, row : cell = [stopping[p][c] EXCEPT !.at = at] /\ row = [stopping[p] EXCEPT ![c] = cell]
    OBVIOUS
  <1>2. stopping \in [Conns -> [Callers -> [at : StopSteps, left : SUBSET Reactors]]]
    BY DEF SwitchTypes
  <1>3. /\ cell \in [at : StopSteps, left : SUBSET Reactors]
        /\ cell.at = at /\ cell.left = stopping[p][c].left
    BY <1>1, <1>2
  <1>4. /\ row \in [Callers -> [at : StopSteps, left : SUBSET Reactors]]
        /\ row[c] = cell /\ \A d \in Callers : d # c => row[d] = stopping[p][d]
    BY <1>1, <1>2, <1>3
  <1>5. stopping' = [stopping EXCEPT ![p] = row]
    BY <1>1
  <1>6. /\ stopping' \in [Conns -> [Callers -> [at : StopSteps, left : SUBSET Reactors]]]
        /\ stopping'[p] = row /\ \A q \in Conns : q # p => stopping'[q] = stopping[q]
    BY <1>2, <1>4, <1>5
  <1> QED BY <1>3, <1>4, <1>6

\* A peer that a step leaves alone.
LEMMA OthersKeep ==
    ASSUME SwitchInv, NEW q \in Conns, switchCase' = switchCase,
           joining'[q] = joining[q], stopping'[q] = stopping[q], life'[q] = life[q]
    PROVE  /\ Calls(q)' /\ Lives(q)'
           /\ Joined(q)' <=> Joined(q)
           /\ TakenOut(q)' <=> TakenOut(q)
           /\ \A r \in Reactors : Passed(q, r)' <=> Passed(q, r)
  BY DEF SwitchInv, Calls, Lives, Joined, TakenOut, Stopped, Passed

\* AddPeer finds the key taken, or adds the peer to the set.
LEMMA AddPeerKeeps ==
    ASSUME SwitchInv, NEW p \in Conns, AddPeer(p)
    PROVE  SwitchInv'
  <1>1. /\ SwitchTypes /\ SetInv /\ ToldKeys /\ Calls(p)
        /\ \A q \in Conns : Entry(q) /\ \A r \in Reactors : Held(q, r)
    BY DEF SwitchInv
  <1>2. keyOf \in [Conns -> Nodes] /\ None \notin Conns /\ keyOf' = keyOf /\ switchCase' = switchCase
    BY <1>1, KeysAre DEF AddPeer, keyOf
  <1>3. UNCHANGED <<stopping, told, crossed>> /\ joining[p].at = "add"
    BY DEF AddPeer
  <1>4. ToldKeys'
    BY <1>1, <1>2, <1>3 DEF ToldKeys
  <1>5. joining[p].left = Reactors /\ \A c \in Callers : stopping[p][c].at = "no" /\ stopping[p][c].left = Reactors
    BY <1>1, <1>3 DEF Calls, Joined
  <1>6. ~Stopped(p)' /\ ~TakenOut(p)' /\ \A r \in Reactors : ~Passed(p, r)'
    BY <1>3, <1>5 DEF Stopped, TakenOut, Passed, Callers
  <1>7. CASE peerSet.lookup[keyOf[p]] # None
    <2>1. /\ joining' = [joining EXCEPT ![p].at = "refused"] /\ peerSet' = peerSet
          /\ life' = [life EXCEPT ![p] = "stopped"]
      BY <1>7 DEF AddPeer
    <2>2. /\ joining' \in [Conns -> [at : JoinSteps, left : SUBSET Reactors]]
          /\ joining'[p].at = "refused" /\ joining'[p].left = joining[p].left
          /\ \A q \in Conns : q # p => joining'[q] = joining[q]
      BY <1>1, <2>1, JoinStep DEF JoinSteps
    <2>3. life' \in [Conns -> Lifes] /\ life'[p] = "stopped" /\ \A q \in Conns : q # p => life'[q] = life[q]
      BY <1>1, <2>1 DEF SwitchTypes, Lifes
    <2>4. SwitchTypes' /\ SetInv'
      BY <1>1, <1>2, <1>3, <2>1, <2>2, <2>3 DEF SwitchTypes, SetInv
    <2>5. ASSUME NEW q \in Conns
          PROVE  Calls(q)' /\ Lives(q)' /\ Entry(q)' /\ \A r \in Reactors : Held(q, r)'
      <3>1. CASE q = p
        <4>1. Calls(p)' /\ Lives(p)' /\ ~Joined(p)'
          BY <1>3, <1>5, <2>2, <2>3 DEF Calls, Lives, Joined
        <4>2. peerSet.lookup[keyOf[p]] # p
          BY <1>1, <1>3 DEF Entry, Joined
        <4>3. Entry(p)'
          BY <1>2, <2>1, <4>1, <4>2 DEF Entry
        <4>4. ASSUME NEW r \in Reactors PROVE Held(p, r)'
          BY <1>1, <1>2, <1>3, <1>5, <2>2 DEF Held
        <4> QED BY <3>1, <4>1, <4>3, <4>4
      <3>2. CASE q # p
        <4>1. /\ Calls(q)' /\ Lives(q)' /\ (Joined(q)' <=> Joined(q)) /\ (TakenOut(q)' <=> TakenOut(q))
              /\ \A r \in Reactors : Passed(q, r)' <=> Passed(q, r)
          BY <1>2, <1>3, <2>2, <2>3, <3>2, OthersKeep
        <4> QED BY <1>1, <1>2, <1>3, <2>1, <2>2, <3>2, <4>1 DEF Entry, Held
      <3> QED BY <3>1, <3>2
    <2> QED BY <1>4, <2>4, <2>5 DEF SwitchInv
  <1>8. CASE peerSet.lookup[keyOf[p]] = None
    <2>1. /\ joining' = [joining EXCEPT ![p].at = "start"] /\ peerSet' = SetAdd(peerSet, p) /\ life' = life
      BY <1>8 DEF AddPeer
    <2>2. /\ joining' \in [Conns -> [at : JoinSteps, left : SUBSET Reactors]]
          /\ joining'[p].at = "start" /\ joining'[p].left = joining[p].left
          /\ \A q \in Conns : q # p => joining'[q] = joining[q]
      BY <1>1, <2>1, JoinStep DEF JoinSteps
    <2>3. /\ peerSet.list \in Seq(Conns) /\ peerSet.lookup \in [Nodes -> Conns \cup {None}]
          /\ peerSet.index \in [Conns -> Nat] /\ Len(peerSet.list) \in Nat
      BY <1>1 DEF SwitchTypes
    <2>4. /\ peerSet'.list = Append(peerSet.list, p)
          /\ peerSet'.lookup = [peerSet.lookup EXCEPT ![keyOf[p]] = p]
          /\ peerSet'.index = [peerSet.index EXCEPT ![p] = Len(peerSet.list) + 1]
          /\ peerSet' = [list |-> peerSet'.list, lookup |-> peerSet'.lookup, index |-> peerSet'.index]
      BY <2>1 DEF SetAdd
    <2>5. SetInv'
      <3>1. Agree(peerSet.list, peerSet.lookup, peerSet.index, keyOf)
        BY <1>1 DEF SetInv
      <3>2. Agree(Append(peerSet.list, p), [peerSet.lookup EXCEPT ![keyOf[p]] = p],
                  [peerSet.index EXCEPT ![p] = Len(peerSet.list) + 1], keyOf)
        BY <1>2, <1>8, <2>3, <3>1, AddAgrees
      <3> QED BY <1>2, <2>4, <3>2 DEF SetInv
    <2>6. SwitchTypes'
      <3>1. peerSet'.list \in Seq(Conns) /\ peerSet'.lookup \in [Nodes -> Conns \cup {None}]
        BY <1>2, <2>3, <2>4
      <3>2. peerSet'.index \in [Conns -> Nat]
        BY <2>3, <2>4
      <3>3. peerSet' \in [list : Seq(Conns), lookup : [Nodes -> Conns \cup {None}], index : [Conns -> Nat]]
        BY <2>4, <3>1, <3>2
      <3> QED BY <1>1, <1>2, <1>3, <2>1, <2>2, <3>3 DEF SwitchTypes
    <2>7. ASSUME NEW q \in Conns
          PROVE  Calls(q)' /\ Lives(q)' /\ Entry(q)' /\ \A r \in Reactors : Held(q, r)'
      <3>1. CASE q = p
        <4>1. life[p] = "new"
          BY <1>3 DEF SwitchInv, Lives
        <4>2. Calls(p)' /\ Lives(p)' /\ Joined(p)'
          BY <1>3, <1>5, <1>6, <2>1, <2>2, <4>1 DEF Calls, Lives, Joined
        <4>3. Entry(p)'
          BY <1>2, <1>6, <2>3, <2>4, <4>2 DEF Entry
        <4>4. ASSUME NEW r \in Reactors PROVE Held(p, r)'
          BY <1>1, <1>2, <1>3, <1>5, <2>2 DEF Held
        <4> QED BY <3>1, <4>2, <4>3, <4>4
      <3>2. CASE q # p
        <4>1. /\ Calls(q)' /\ Lives(q)' /\ (Joined(q)' <=> Joined(q)) /\ (TakenOut(q)' <=> TakenOut(q))
              /\ \A r \in Reactors : Passed(q, r)' <=> Passed(q, r)
          BY <1>2, <1>3, <2>1, <2>2, <3>2, OthersKeep
        <4>2. \A r \in Reactors : Held(q, r)'
          BY <1>1, <1>2, <1>3, <2>2, <3>2, <4>1 DEF Held
        <4>3. Entry(q)'
          <5>1. CASE keyOf[q] = keyOf[p]
            BY <1>1, <1>2, <1>3, <1>8, <2>3, <2>4, <3>2, <4>1, <5>1 DEF Entry
          <5>2. CASE keyOf[q] # keyOf[p]
            BY <1>1, <1>2, <1>3, <2>3, <2>4, <4>1, <5>2 DEF Entry
          <5> QED BY <5>1, <5>2
        <4> QED BY <4>1, <4>2, <4>3
      <3> QED BY <3>1, <3>2
    <2> QED BY <1>4, <2>5, <2>6, <2>7 DEF SwitchInv
  <1> QED BY <1>7, <1>8

\* startInitPeer.
LEMMA StartPeerKeeps ==
    ASSUME SwitchInv, NEW p \in Conns, StartPeer(p)
    PROVE  SwitchInv'
  <1>1. /\ SwitchTypes /\ SetInv /\ ToldKeys /\ Calls(p) /\ Lives(p)
        /\ \A q \in Conns : Entry(q) /\ \A r \in Reactors : Held(q, r)
    BY DEF SwitchInv
  <1>2. /\ UNCHANGED <<switchCase, peerSet, stopping, told, crossed>> /\ keyOf' = keyOf
        /\ joining[p].at = "start" /\ joining' = [joining EXCEPT ![p].at = "reactors"]
        /\ life' = [life EXCEPT ![p] = IF @ = "new" THEN "running" ELSE @]
    BY DEF StartPeer, keyOf
  <1>3. /\ joining' \in [Conns -> [at : JoinSteps, left : SUBSET Reactors]]
        /\ joining'[p].at = "reactors" /\ joining'[p].left = joining[p].left
        /\ \A q \in Conns : q # p => joining'[q] = joining[q]
    BY <1>1, <1>2, JoinStep DEF JoinSteps
  <1>4. /\ life' \in [Conns -> Lifes] /\ \A q \in Conns : q # p => life'[q] = life[q]
        /\ life'[p] = IF life[p] = "new" THEN "running" ELSE life[p]
    BY <1>1, <1>2 DEF SwitchTypes, Lifes
  <1>5. SwitchTypes' /\ SetInv' /\ ToldKeys'
    BY <1>1, <1>2, <1>3, <1>4 DEF SwitchTypes, SetInv, ToldKeys
  <1>6. ASSUME NEW q \in Conns
        PROVE  Calls(q)' /\ Lives(q)' /\ Entry(q)' /\ \A r \in Reactors : Held(q, r)'
    <2>1. CASE q = p
      <3>1. Joined(p) /\ Joined(p)' /\ (Stopped(p)' <=> Stopped(p)) /\ (TakenOut(p)' <=> TakenOut(p))
        BY <1>2, <1>3 DEF Joined, Stopped, TakenOut
      <3>2. \A r \in Reactors : Passed(p, r)' <=> Passed(p, r)
        BY <1>2 DEF Passed
      <3>3. Calls(p)'
        BY <1>1, <1>2, <1>3, <3>1 DEF Calls
      <3>4. Lives(p)'
        BY <1>1, <1>2, <1>3, <1>4, <3>1 DEF Lives
      <3>5. Entry(p)' /\ \A r \in Reactors : Held(p, r)'
        BY <1>1, <1>2, <1>3, <3>1, <3>2 DEF Entry, Held
      <3> QED BY <2>1, <3>3, <3>4, <3>5
    <2>2. CASE q # p
      <3>1. /\ Calls(q)' /\ Lives(q)' /\ (Joined(q)' <=> Joined(q)) /\ (TakenOut(q)' <=> TakenOut(q))
            /\ \A r \in Reactors : Passed(q, r)' <=> Passed(q, r)
        BY <1>2, <1>3, <1>4, <2>2, OthersKeep
      <3> QED BY <1>1, <1>2, <1>3, <2>2, <3>1 DEF Entry, Held
    <2> QED BY <2>1, <2>2
  <1> QED BY <1>5, <1>6 DEF SwitchInv

\* A reactor's AddPeer.
LEMMA ReactorAddPeerKeeps ==
    ASSUME SwitchInv, NEW p \in Conns, NEW s \in Reactors, ReactorAddPeer(p, s)
    PROVE  SwitchInv'
  <1>1. /\ SwitchTypes /\ SetInv /\ ToldKeys /\ Calls(p) /\ Lives(p)
        /\ \A q \in Conns : Entry(q) /\ \A r \in Reactors : Held(q, r)
    BY DEF SwitchInv
  <1>2. /\ UNCHANGED <<switchCase, peerSet, life, stopping>> /\ keyOf' = keyOf
        /\ joining[p].at = "reactors" /\ joining' = [joining EXCEPT ![p].left = @ \ {s}]
        /\ told' = [told EXCEPT ![s][keyOf[p]] = p]
    BY DEF ReactorAddPeer, keyOf
  <1>3. /\ crossed \subseteq crossed' /\ crossed' \subseteq crossed \cup {keyOf[p]}
        /\ keyOf[p] \notin crossed' => told[s][keyOf[p]] = None /\ ~Passed(p, s)
    BY DEF ReactorAddPeer, Passed
  <1>4. keyOf \in [Conns -> Nodes] /\ None \notin Conns
    BY <1>1, KeysAre
  <1>5. /\ joining' \in [Conns -> [at : JoinSteps, left : SUBSET Reactors]]
        /\ joining'[p].at = "reactors" /\ joining'[p].left = joining[p].left \ {s}
        /\ \A q \in Conns : q # p => joining'[q] = joining[q]
    BY <1>1, <1>2 DEF SwitchTypes
  <1>6. /\ told' \in [Reactors -> [Nodes -> Conns \cup {None}]] /\ told'[s][keyOf[p]] = p
        /\ \A r \in Reactors, k \in Nodes : r # s \/ k # keyOf[p] => told'[r][k] = told[r][k]
    BY <1>1, <1>2, <1>4 DEF SwitchTypes
  <1>7. SwitchTypes' /\ SetInv'
    BY <1>1, <1>2, <1>3, <1>4, <1>5, <1>6 DEF SwitchTypes, SetInv
  <1>8. ToldKeys'
    BY <1>1, <1>2, <1>4, <1>6 DEF ToldKeys
  <1>9. ASSUME NEW q \in Conns
        PROVE  Calls(q)' /\ Lives(q)' /\ Entry(q)' /\ \A r \in Reactors : Held(q, r)'
    <2>1. Calls(q) /\ Lives(q) /\ Entry(q)
      BY DEF SwitchInv
    <2>2. /\ (Joined(q)' <=> Joined(q)) /\ (Stopped(q)' <=> Stopped(q)) /\ (TakenOut(q)' <=> TakenOut(q))
          /\ joining'[q].at = joining[q].at
      BY <1>2, <1>5 DEF Joined, Stopped, TakenOut
    <2>3. \A r \in Reactors : Passed(q, r)' <=> Passed(q, r)
      BY <1>2 DEF Passed
    <2>4. Calls(q)'
      BY <1>2, <1>5, <2>1, <2>2 DEF Calls
    <2>5. Lives(q)'
      BY <1>2, <2>1, <2>2 DEF Lives
    <2>6. Entry(q)'
      BY <1>2, <1>3, <2>1, <2>2 DEF Entry
    <2>7. ASSUME NEW r \in Reactors PROVE Held(q, r)'
      <3>1. Held(q, r) /\ keyOf[q] \in Nodes
        BY <1>1, <1>4
      <3>2. CASE r # s \/ keyOf[q] # keyOf[p]
        <4>1. told'[r][keyOf[q]] = told[r][keyOf[q]]
          BY <1>6, <3>1, <3>2
        <4>2. r \in joining'[q].left <=> r \in joining[q].left
          BY <1>5, <3>2
        <4> QED BY <1>2, <1>3, <2>3, <3>1, <4>1, <4>2 DEF Held
      <3>3. CASE r = s /\ q = p
        BY <1>2, <1>3, <1>5, <1>6, <2>3, <3>3 DEF Held
      <3>4. CASE r = s /\ q # p /\ keyOf[q] = keyOf[p]
        BY <1>2, <1>3, <1>4, <1>5, <1>6, <2>3, <3>1, <3>4 DEF Held
      <3> QED BY <3>2, <3>3, <3>4
    <2> QED BY <2>4, <2>5, <2>6, <2>7
  <1> QED BY <1>7, <1>8, <1>9 DEF SwitchInv

-----------------------------------------------------------------------------
\* A step of StopPeerForError tells no reactor by itself.
LEMMA StopCalls ==
    ASSUME SwitchInv, NEW p \in Conns, NEW c \in Callers, NEW at \in StopSteps, Joined(p),
           stopping[p][c].at # "reactors", StopGoto(p, c, at), UNCHANGED <<switchCase, joining>>
    PROVE  /\ \A q \in Conns : /\ Calls(q)' /\ (Joined(q)' <=> Joined(q))
                               /\ \A r \in Reactors : Passed(q, r)' <=> Passed(q, r)
           /\ stopping' \in [Conns -> [Callers -> [at : StopSteps, left : SUBSET Reactors]]]
           /\ stopping'[p][c].at = at /\ \A d \in Callers : d # c => stopping'[p][d] = stopping[p][d]
           /\ \A q \in Conns : q # p => stopping'[q] = stopping[q]
  <1>1. /\ stopping' \in [Conns -> [Callers -> [at : StopSteps, left : SUBSET Reactors]]]
        /\ stopping'[p][c].at = at
        /\ \A d \in Callers : d # c => stopping'[p][d] = stopping[p][d]
        /\ \A d \in Callers : stopping'[p][d].left = stopping[p][d].left
        /\ \A q \in Conns : q # p => stopping'[q] = stopping[q]
    BY StopStep DEF SwitchInv, StopGoto
  <1>2. ASSUME NEW q \in Conns
        PROVE  Calls(q)' /\ (Joined(q)' <=> Joined(q)) /\ \A r \in Reactors : Passed(q, r)' <=> Passed(q, r)
    <2>1. Calls(q) /\ (Joined(q)' <=> Joined(q))
      BY DEF SwitchInv, Joined
    <2>2. CASE q = p
      <3>1. \A r \in Reactors : Passed(p, r)' <=> Passed(p, r)
        BY <1>1 DEF Passed
      <3>2. Calls(p)'
        BY <1>1, <2>1, <2>2 DEF Calls
      <3> QED BY <2>1, <2>2, <3>1, <3>2
    <2>3. CASE q # p
      BY <1>1, <2>1, <2>3 DEF Calls, Passed
    <2> QED BY <2>2, <2>3
  <1> QED BY <1>1, <1>2

\* The connection fails; a reactor decides to stop a peer it found in the set.
LEMMA StopBegins ==
    ASSUME SwitchInv, NEW p \in Conns, ConnectionFails(p) \/ ReactorStops(p)
    PROVE  SwitchInv'
  <1>1. /\ SwitchTypes /\ SetInv /\ ToldKeys
        /\ \A q \in Conns : Calls(q) /\ Lives(q) /\ Entry(q) /\ \A r \in Reactors : Held(q, r)
    BY DEF SwitchInv
  <1>2. PICK c \in Callers, at \in {"on_error", "remove"} :
           /\ UNCHANGED <<switchCase, peerSet, life, joining, told, crossed>> /\ keyOf' = keyOf
           /\ stopping[p][c].at = "no" /\ StopGoto(p, c, at)
           /\ c = "connection" => life[p] = "running" /\ at = "on_error"
           /\ c = "reactor" => Listed(p)
    BY DEF ConnectionFails, ReactorStops, StopAt, keyOf, Callers
  <1>3. Joined(p)
    <2>1. CASE c = "connection"
      <3>1. joining[p].at \in JoinSteps /\ life[p] = "running"
        BY <1>1, <1>2, <2>1 DEF SwitchTypes
      <3> QED BY <1>1, <3>1 DEF Lives, Joined, JoinSteps
    <2>2. CASE c = "reactor"
      <3>1. peerSet.lookup[keyOf[p]] = p
        BY <1>1, <1>2, <2>2 DEF SetInv, Agree, Listed
      <3> QED BY <1>1, <3>1 DEF Entry
    <2> QED BY <2>1, <2>2 DEF Callers
  <1>4. /\ \A q \in Conns : /\ Calls(q)' /\ (Joined(q)' <=> Joined(q))
                            /\ \A r \in Reactors : Passed(q, r)' <=> Passed(q, r)
        /\ stopping' \in [Conns -> [Callers -> [at : StopSteps, left : SUBSET Reactors]]]
        /\ stopping'[p][c].at = at /\ \A d \in Callers : d # c => stopping'[p][d] = stopping[p][d]
        /\ \A q \in Conns : q # p => stopping'[q] = stopping[q]
    BY <1>2, <1>3, StopCalls DEF StopSteps
  <1>5. \A q \in Conns : (Stopped(q)' <=> Stopped(q)) /\ (TakenOut(q)' <=> TakenOut(q))
    BY <1>2, <1>4 DEF Stopped, TakenOut, Callers
  <1>6. SwitchTypes' /\ SetInv' /\ ToldKeys'
    BY <1>1, <1>2, <1>4 DEF SwitchTypes, SetInv, ToldKeys
  <1>7. ASSUME NEW q \in Conns PROVE Lives(q)' /\ Entry(q)' /\ \A r \in Reactors : Held(q, r)'
    <2>1. Lives(q)'
      BY <1>1, <1>2, <1>4, <1>5 DEF Lives
    <2>2. Entry(q)' /\ \A r \in Reactors : Held(q, r)'
      BY <1>1, <1>2, <1>4, <1>5 DEF Entry, Held
    <2> QED BY <2>1, <2>2
  <1> QED BY <1>4, <1>6, <1>7 DEF SwitchInv

\* onError stops the peer before the set forgets it; StopPeerForError stops it
\* after that.
LEMMA StopKeeps ==
    ASSUME SwitchInv, NEW p \in Conns, OnError(p) \/ \E c \in Callers : StopPeer(p, c)
    PROVE  SwitchInv'
  <1>1. /\ SwitchTypes /\ SetInv /\ ToldKeys
        /\ \A q \in Conns : Calls(q) /\ Lives(q) /\ Entry(q) /\ \A r \in Reactors : Held(q, r)
    BY DEF SwitchInv
  <1>2. PICK c \in Callers, from \in {"on_error", "stop"}, at \in {"remove", "reactors"} :
           /\ UNCHANGED <<switchCase, peerSet, joining, told, crossed>> /\ keyOf' = keyOf
           /\ life' = [life EXCEPT ![p] = "stopped"]
           /\ stopping[p][c].at = from /\ StopGoto(p, c, at)
           /\ \/ c = "connection" /\ from = "on_error" /\ at = "remove"
              \/ from = "stop" /\ at = "reactors"
    BY DEF OnError, StopPeer, StopAt, keyOf, Callers
  <1>3. Joined(p)
    BY <1>1, <1>2 DEF Calls
  <1>4. /\ \A q \in Conns : /\ Calls(q)' /\ (Joined(q)' <=> Joined(q))
                            /\ \A r \in Reactors : Passed(q, r)' <=> Passed(q, r)
        /\ stopping' \in [Conns -> [Callers -> [at : StopSteps, left : SUBSET Reactors]]]
        /\ stopping'[p][c].at = at /\ \A d \in Callers : d # c => stopping'[p][d] = stopping[p][d]
        /\ \A q \in Conns : q # p => stopping'[q] = stopping[q]
    BY <1>2, <1>3, StopCalls DEF StopSteps
  <1>5. \A q \in Conns : TakenOut(q)' <=> TakenOut(q)
    BY <1>2, <1>4 DEF TakenOut
  <1>6. Stopped(p)' /\ \A q \in Conns : q # p => (Stopped(q)' <=> Stopped(q))
    BY <1>2, <1>4 DEF Stopped, Callers
  <1>7. life' \in [Conns -> Lifes] /\ life'[p] = "stopped" /\ \A q \in Conns : q # p => life'[q] = life[q]
    BY <1>1, <1>2 DEF SwitchTypes, Lifes
  <1>8. SwitchTypes' /\ SetInv' /\ ToldKeys'
    BY <1>1, <1>2, <1>4, <1>7 DEF SwitchTypes, SetInv, ToldKeys
  <1>9. ASSUME NEW q \in Conns PROVE Lives(q)' /\ Entry(q)' /\ \A r \in Reactors : Held(q, r)'
    <2>1. Entry(q)' /\ \A r \in Reactors : Held(q, r)'
      BY <1>1, <1>2, <1>4, <1>5 DEF Entry, Held
    <2>2. CASE q = p
      BY <1>2, <1>3, <1>6, <1>7, <2>1, <2>2 DEF Lives, Joined
    <2>3. CASE q # p
      BY <1>1, <1>2, <1>4, <1>6, <1>7, <2>1, <2>3 DEF Lives
    <2> QED BY <2>2, <2>3
  <1> QED BY <1>4, <1>8, <1>9 DEF SwitchInv

\* PeerSet.Remove, of the peer or of another of its key.
LEMMA RemoveFromSetKeeps ==
    ASSUME SwitchInv, NEW p \in Conns, NEW c \in Callers, RemoveFromSet(p, c)
    PROVE  SwitchInv'
  <1>1. /\ SwitchTypes /\ SetInv /\ ToldKeys
        /\ \A q \in Conns : Calls(q) /\ Lives(q) /\ Entry(q) /\ \A r \in Reactors : Held(q, r)
    BY DEF SwitchInv
  <1>2. /\ UNCHANGED <<switchCase, life, joining, told>> /\ keyOf' = keyOf
        /\ stopping[p][c].at = "remove" /\ StopGoto(p, c, "stop")
        /\ peerSet' = SetRemove(peerSet, p)
        /\ crossed \subseteq crossed' /\ crossed' \subseteq crossed \cup {keyOf[p]}
        /\ keyOf[p] \notin crossed' => peerSet.lookup[keyOf[p]] \in {p, None}
    BY DEF RemoveFromSet, StopAt, keyOf
  <1>3. Joined(p) /\ keyOf \in [Conns -> Nodes] /\ None \notin Conns
    BY <1>1, <1>2, KeysAre DEF Calls
  <1>4. /\ \A q \in Conns : /\ Calls(q)' /\ (Joined(q)' <=> Joined(q))
                            /\ \A r \in Reactors : Passed(q, r)' <=> Passed(q, r)
        /\ stopping' \in [Conns -> [Callers -> [at : StopSteps, left : SUBSET Reactors]]]
        /\ stopping'[p][c].at = "stop" /\ \A d \in Callers : d # c => stopping'[p][d] = stopping[p][d]
        /\ \A q \in Conns : q # p => stopping'[q] = stopping[q]
    BY <1>2, <1>3, StopCalls DEF StopSteps
  <1>5. /\ TakenOut(p)' /\ \A q \in Conns : q # p => (TakenOut(q)' <=> TakenOut(q))
        /\ \A q \in Conns : Stopped(q)' <=> Stopped(q)
    BY <1>2, <1>4 DEF Stopped, TakenOut, Callers
  <1>6. /\ peerSet.list \in Seq(Conns) /\ peerSet.lookup \in [Nodes -> Conns \cup {None}]
        /\ peerSet.index \in [Conns -> Nat] /\ Agree(peerSet.list, peerSet.lookup, peerSet.index, keyOf)
        /\ peerSet \in [list : Seq(Conns), lookup : [Nodes -> Conns \cup {None}], index : [Conns -> Nat]]
    BY <1>1 DEF SwitchTypes, SetInv
  <1>7. /\ peerSet' \in [list : Seq(Conns), lookup : [Nodes -> Conns \cup {None}], index : [Conns -> Nat]]
        /\ Agree(peerSet'.list, peerSet'.lookup, peerSet'.index, keyOf)
        /\ peerSet'.lookup[keyOf[p]] = None
        /\ \A k \in Nodes : k # keyOf[p] => peerSet'.lookup[k] = peerSet.lookup[k]
    <2>1. CASE peerSet.lookup[keyOf[p]] = None
      BY <1>2, <1>6, <2>1 DEF SetRemove
    <2>2. CASE peerSet.lookup[keyOf[p]] # None
      <3>1. PICK list2, look2, index2 :
               /\ list2 = SubSeq([peerSet.list EXCEPT ![peerSet.index[peerSet.lookup[keyOf[p]]]] =
                                     peerSet.list[Len(peerSet.list)]], 1, Len(peerSet.list) - 1)
               /\ look2 = [peerSet.lookup EXCEPT ![keyOf[p]] = None]
               /\ index2 = [peerSet.index EXCEPT ![peerSet.list[Len(peerSet.list)]] = peerSet.index[peerSet.lookup[keyOf[p]]]]
        OBVIOUS
      <3>2. keyOf[p] \in Nodes
        BY <1>3
      <3>3. Agree(list2, look2, index2, keyOf) /\ list2 \in Seq(Conns) /\ index2 \in [Conns -> Nat]
        BY <1>3, <1>6, <2>2, <3>1, <3>2, RemoveAgrees
      <3>4. peerSet' = [list |-> list2, lookup |-> look2, index |-> index2]
        BY <1>2, <2>2, <3>1 DEF SetRemove
      <3>5. look2 \in [Nodes -> Conns \cup {None}] /\ look2[keyOf[p]] = None
        BY <1>6, <3>1, <3>2
      <3>6. \A k \in Nodes : k # keyOf[p] => look2[k] = peerSet.lookup[k]
        BY <1>6, <3>1, <3>2
      <3> QED BY <3>3, <3>4, <3>5, <3>6
    <2> QED BY <2>1, <2>2
  <1>8. SwitchTypes' /\ SetInv' /\ ToldKeys'
    <2>1. crossed' \subseteq Nodes
      BY <1>1, <1>2, <1>3 DEF SwitchTypes
    <2> QED BY <1>1, <1>2, <1>4, <1>7, <2>1 DEF SwitchTypes, SetInv, ToldKeys
  <1>9. ASSUME NEW q \in Conns PROVE Lives(q)' /\ Entry(q)' /\ \A r \in Reactors : Held(q, r)'
    <2>1. Lives(q)'
      BY <1>1, <1>2, <1>4, <1>5 DEF Lives
    <2>2. \A r \in Reactors : Held(q, r)'
      BY <1>1, <1>2, <1>4 DEF Held
    <2>3. CASE q = p
      BY <1>2, <1>3, <1>5, <1>7, <2>1, <2>2, <2>3 DEF Entry
    <2>4. CASE q # p /\ keyOf[q] = keyOf[p]
      BY <1>1, <1>2, <1>3, <1>4, <1>5, <1>7, <2>1, <2>2, <2>4 DEF Entry
    <2>5. CASE q # p /\ keyOf[q] # keyOf[p]
      <3>1. keyOf[q] \in Nodes /\ peerSet'.lookup[keyOf[q]] = peerSet.lookup[keyOf[q]]
        BY <1>3, <1>7, <2>5
      <3> QED BY <1>1, <1>2, <1>4, <1>5, <2>1, <2>2, <2>5, <3>1 DEF Entry
    <2> QED BY <2>3, <2>4, <2>5
  <1> QED BY <1>4, <1>8, <1>9 DEF SwitchInv

\* A reactor's RemovePeer, of whatever it has under the key.
LEMMA ReactorRemovePeerKeeps ==
    ASSUME SwitchInv, NEW p \in Conns, NEW c \in Callers, NEW s \in Reactors, ReactorRemovePeer(p, c, s)
    PROVE  SwitchInv'
  <1>1. /\ SwitchTypes /\ SetInv /\ ToldKeys
        /\ \A q \in Conns : Calls(q) /\ Lives(q) /\ Entry(q) /\ \A r \in Reactors : Held(q, r)
    BY DEF SwitchInv
  <1>2. /\ UNCHANGED <<switchCase, peerSet, life, joining>> /\ keyOf' = keyOf
        /\ stopping[p][c].at = "reactors" /\ stopping' = [stopping EXCEPT ![p][c].left = @ \ {s}]
        /\ told' = [told EXCEPT ![s][keyOf[p]] = None]
        /\ crossed \subseteq crossed' /\ crossed' \subseteq crossed \cup {keyOf[p]}
        /\ keyOf[p] \notin crossed' => told[s][keyOf[p]] \in {p, None}
    BY DEF ReactorRemovePeer, StopAt, keyOf
  <1>3. keyOf \in [Conns -> Nodes] /\ None \notin Conns
    BY <1>1, KeysAre
  <1>4. /\ stopping' \in [Conns -> [Callers -> [at : StopSteps, left : SUBSET Reactors]]]
        /\ stopping'[p][c].left = stopping[p][c].left \ {s}
        /\ \A d \in Callers : d # c => stopping'[p][d] = stopping[p][d]
        /\ \A q \in Conns : q # p => stopping'[q] = stopping[q]
        /\ \A q \in Conns, d \in Callers : stopping'[q][d].at = stopping[q][d].at
    <2>1. PICK cell, row : /\ cell = [stopping[p][c] EXCEPT !.left = @ \ {s}]
                           /\ row = [stopping[p] EXCEPT ![c] = cell]
      OBVIOUS
    <2>2. stopping \in [Conns -> [Callers -> [at : StopSteps, left : SUBSET Reactors]]]
      BY <1>1 DEF SwitchTypes
    <2>3. /\ cell \in [at : StopSteps, left : SUBSET Reactors]
          /\ cell.at = stopping[p][c].at /\ cell.left = stopping[p][c].left \ {s}
      BY <2>1, <2>2
    <2>4. /\ row \in [Callers -> [at : StopSteps, left : SUBSET Reactors]]
          /\ row[c] = cell /\ \A d \in Callers : d # c => row[d] = stopping[p][d]
      BY <2>1, <2>2, <2>3
    <2>5. stopping' = [stopping EXCEPT ![p] = row]
      BY <1>2, <2>1
    <2>6. /\ stopping' \in [Conns -> [Callers -> [at : StopSteps, left : SUBSET Reactors]]]
          /\ stopping'[p] = row /\ \A q \in Conns : q # p => stopping'[q] = stopping[q]
      BY <2>2, <2>4, <2>5
    <2> QED BY <2>3, <2>4, <2>6
  <1>5. \A q \in Conns : /\ (Joined(q)' <=> Joined(q)) /\ (Stopped(q)' <=> Stopped(q))
                         /\ (TakenOut(q)' <=> TakenOut(q))
    BY <1>2, <1>4 DEF Joined, Stopped, TakenOut, Callers
  <1>6. /\ Passed(p, s)'
        /\ \A q \in Conns, r \in Reactors : q # p \/ r # s => (Passed(q, r)' <=> Passed(q, r))
    <2>1. Passed(p, s)'
      BY <1>4 DEF Passed
    <2>2. ASSUME NEW q \in Conns, NEW r \in Reactors, q # p \/ r # s
          PROVE  Passed(q, r)' <=> Passed(q, r)
      BY <1>4, <2>2 DEF Passed
    <2> QED BY <2>1, <2>2
  <1>7. /\ told' \in [Reactors -> [Nodes -> Conns \cup {None}]] /\ told'[s][keyOf[p]] = None
        /\ \A r \in Reactors, k \in Nodes : r # s \/ k # keyOf[p] => told'[r][k] = told[r][k]
    BY <1>1, <1>2, <1>3 DEF SwitchTypes
  <1>8. SwitchTypes' /\ SetInv'
    <2>1. crossed \subseteq Nodes /\ keyOf[p] \in Nodes
      BY <1>1, <1>3 DEF SwitchTypes
    <2>2. crossed' \subseteq Nodes
      BY <1>2, <2>1
    <2> QED BY <1>1, <1>2, <1>4, <1>7, <2>2 DEF SwitchTypes, SetInv
  <1>9. ToldKeys'
    BY <1>1, <1>2, <1>7 DEF ToldKeys
  <1>10. ASSUME NEW q \in Conns PROVE Calls(q)' /\ Lives(q)' /\ Entry(q)'
    <2>1. Calls(q)'
      BY <1>1, <1>2, <1>4, <1>5 DEF Calls
    <2>2. Lives(q)'
      BY <1>1, <1>2, <1>5 DEF Lives
    <2>3. Entry(q)'
      BY <1>1, <1>2, <1>5 DEF Entry
    <2> QED BY <2>1, <2>2, <2>3
  <1>11. ASSUME NEW q \in Conns, NEW r \in Reactors PROVE Held(q, r)'
    <2>1. Held(q, r) /\ keyOf[q] \in Nodes
      BY <1>1, <1>3
    <2>2. CASE r # s \/ keyOf[q] # keyOf[p]
      <3>1. told'[r][keyOf[q]] = told[r][keyOf[q]] /\ (Passed(q, r)' <=> Passed(q, r))
        BY <1>6, <1>7, <2>1, <2>2
      <3> QED BY <1>2, <2>1, <3>1 DEF Held
    <2>3. CASE r = s /\ q = p
      BY <1>2, <1>3, <1>6, <1>7, <2>3 DEF Held
    <2>4. CASE r = s /\ q # p /\ keyOf[q] = keyOf[p]
      BY <1>2, <1>3, <1>6, <1>7, <2>1, <2>4 DEF Held
    <2> QED BY <2>2, <2>3, <2>4
  <1> QED BY <1>8, <1>9, <1>10, <1>11 DEF SwitchInv

-----------------------------------------------------------------------------
\* When the calls about a key have returned, every peer of it has either left no
\* trace or is listed, running and known to all reactors.
LEMMA QuietAgrees ==
    ASSUME SwitchInv, NEW k \in Nodes \ crossed, Quiet(k)
    PROVE  /\ {p \in Conns : keyOf[p] = k /\ life[p] = "running"} = {peerSet.lookup[k]} \ {None}
           /\ \A r \in Reactors : told[r][k] = peerSet.lookup[k]
  <1>1. /\ SwitchTypes /\ SetInv /\ ToldKeys
        /\ \A q \in Conns : Calls(q) /\ Lives(q) /\ Entry(q) /\ \A r \in Reactors : Held(q, r)
    BY DEF SwitchInv
  <1>2. /\ keyOf \in [Conns -> Nodes] /\ None \notin Conns /\ Reactors # {}
        /\ peerSet.lookup[k] \in Conns \cup {None} /\ \A r \in Reactors : told[r][k] \in Conns \cup {None}
    BY <1>1, KeysAre, SwitchAssumption DEF SwitchTypes
  <1>3. ASSUME NEW p \in Conns, keyOf[p] = k
        PROVE  /\ life[p] = "running" <=> peerSet.lookup[k] = p
               /\ \A r \in Reactors : told[r][k] = p <=> peerSet.lookup[k] = p
    <2>1. /\ joining[p].at \in {"add", "refused"} \/ joining[p].left = {}
          /\ \A c \in Callers : stopping[p][c].at = "no" \/ stopping[p][c].left = {}
      BY <1>3 DEF Quiet, StopAt
    <2>2. /\ joining[p].at \in {"add", "refused"} \/ (joining[p].at = "reactors" /\ joining[p].left = {})
          /\ \A c \in Callers : \/ stopping[p][c].at = "no" /\ stopping[p][c].left = Reactors
                                \/ stopping[p][c].at = "reactors" /\ stopping[p][c].left = {}
      BY <1>1, <1>2, <2>1 DEF Calls
    <2>3. CASE joining[p].at \in {"add", "refused"}
      <3>1. ~Joined(p) /\ joining[p].left = Reactors
        BY <1>1, <2>3 DEF Calls, Joined
      <3>2. life[p] # "running"
        BY <1>1, <2>3 DEF Lives
      <3>3. peerSet.lookup[k] # p
        BY <1>1, <1>3, <3>1 DEF Entry
      <3>4. \A r \in Reactors : told[r][k] # p
        BY <1>1, <1>3, <3>1 DEF Held
      <3> QED BY <3>2, <3>3, <3>4
    <2>4. CASE joining[p].at = "reactors" /\ joining[p].left = {} /\ \A c \in Callers : stopping[p][c].at = "no"
      <3>1. Joined(p) /\ ~Stopped(p) /\ ~TakenOut(p) /\ \A r \in Reactors : ~Passed(p, r)
        BY <2>2, <2>4 DEF Joined, Stopped, TakenOut, Passed, Callers
      <3>2. life[p] = "running"
        BY <1>1, <2>4, <3>1 DEF Lives
      <3>3. peerSet.lookup[k] = p
        BY <1>1, <1>3, <3>1 DEF Entry
      <3>4. \A r \in Reactors : told[r][k] = p
        BY <1>1, <1>3, <2>4, <3>1 DEF Held
      <3> QED BY <3>2, <3>3, <3>4
    <2>5. CASE joining[p].at = "reactors" /\ \E c \in Callers : stopping[p][c].at = "reactors"
      <3>1. Joined(p) /\ Stopped(p) /\ TakenOut(p) /\ \A r \in Reactors : Passed(p, r)
        BY <2>2, <2>5 DEF Joined, Stopped, TakenOut, Passed, Callers
      <3>2. life[p] # "running"
        BY <1>1, <3>1 DEF Lives
      <3>3. peerSet.lookup[k] # p
        BY <1>1, <1>3, <3>1 DEF Entry
      <3>4. \A r \in Reactors : told[r][k] # p
        BY <1>1, <1>3, <3>1 DEF Held
      <3> QED BY <3>2, <3>3, <3>4
    <2> QED BY <2>2, <2>3, <2>4, <2>5
  <1>4. peerSet.lookup[k] # None => keyOf[peerSet.lookup[k]] = k
    BY <1>1 DEF SetInv, Agree
  <1>5. {p \in Conns : keyOf[p] = k /\ life[p] = "running"} = {peerSet.lookup[k]} \ {None}
    BY <1>2, <1>3, <1>4
  <1>6. ASSUME NEW r \in Reactors PROVE told[r][k] = peerSet.lookup[k]
    <2>1. told[r][k] # None => keyOf[told[r][k]] = k
      BY <1>1 DEF ToldKeys
    <2> QED BY <1>2, <1>3, <1>4, <2>1
  <1> QED BY <1>5, <1>6

\* The PeerSet is consistent through every Add and Remove, and when the calls
\* about a key have returned, the peer that runs, the one listed and the one each
\* reactor has are the same, for any number of connections and reactors and any
\* interleaving of AddPeerWithConnection and StopPeerForError that does not cross.
THEOREM SwitchAgrees == SwitchSpec => []RunningIsListed
  <1>1. SwitchInv /\ [SwitchNext]_switchVars => SwitchInv'
    <2> SUFFICES ASSUME SwitchInv, [SwitchNext]_switchVars PROVE SwitchInv'
      OBVIOUS
    <2>1. CASE UNCHANGED switchVars
      BY <2>1 DEF SwitchInv, switchVars, SwitchTypes, SetInv, ToldKeys, Calls, Lives, Entry, Held,
                  Joined, Stopped, TakenOut, Passed, keyOf
    <2>2. CASE SwitchNext
      BY <2>2, AddPeerKeeps, StartPeerKeeps, ReactorAddPeerKeeps, StopBegins, StopKeeps,
         RemoveFromSetKeeps, ReactorRemovePeerKeeps DEF SwitchNext
    <2> QED BY <2>1, <2>2
  <1>2. SwitchInv => RunningIsListed
    <2> SUFFICES ASSUME SwitchInv PROVE RunningIsListed
      OBVIOUS
    <2>1. Agree(peerSet.list, peerSet.lookup, peerSet.index, keyOf)
      BY DEF SwitchInv, SetInv
    <2>2. PeerSetAgrees
      BY <2>1, Zenon DEF Agree, PeerSetAgrees, Listed
    <2> QED BY <2>2, QuietAgrees DEF RunningIsListed
  <1> QED BY SwitchInvInit, <1>1, <1>2, PTL DEF SwitchSpec
=============================================================================
