----------------------------- MODULE VoteGossip -----------------------------
(***************************************************************************)
(* How the consensus reactor gives its votes to one peer: the PeerState    *)
(* it keeps about the peer, gossipVotesRoutine and queryMaj23Routine,      *)
(* which run beside the receive routine, and the peer's answers.           *)
(*                                                                         *)
(* "We" are the node whose reactor is modelled; the peer runs the same     *)
(* code, of which only what we can see is kept: it moves through heights,  *)
(* rounds and steps, collects votes, and broadcasts both.  A broadcast     *)
(* starts a goroutine per message, so these messages arrive in any order.  *)
(* A vote is identified by height, round, type and validator; the          *)
(* validators in BlockVoters vote for the block and hold more than two     *)
(* thirds of the power, the others vote nil.                               *)
(***************************************************************************)
EXTENDS Integers, FiniteSets, SequencesExt, Absent

CONSTANTS GossipVals,    \* the validators
          BlockVoters,   \* those who vote for the block
          MaxRound,      \* bound on the rounds
          GossipCases    \* the situations in which the peer is met

VARIABLES us,        \* our height, round and the round each height was committed in
          ours,      \* the votes we have
          peer,      \* the peer's height, round, step, commit rounds and catch-up rounds
          theirs,    \* the votes the peer has
          ps,        \* our PeerState for the peer
          view,      \* the vote sets gossipVotesRoutine still tries, chosen from us and ps
          voteNet,   \* votes on the way to the peer
          stateNet,  \* all other messages, either way
          lostVotes, \* votes whose Send failed after they were marked
          stopped,   \* the receive routine panicked and the peer was dropped
          gossipCase \* what may still happen

gossipVars == <<us, ours, peer, theirs, ps, view, voteNet, stateNet, lostVotes,
                stopped, gossipCase>>

VoteTypes == {"prevote", "precommit"}
StepNewHeight == 1
StepPrevote == 4
StepPrecommit == 6
StepCommit == 8
GossipSteps == {StepNewHeight, StepPrevote, StepPrecommit, StepCommit}

VoteOf(h, r, t, v) == [h |-> h, r |-> r, t |-> t, v |-> v]
In(votes, h, r, t) == {x.v : x \in {y \in votes : y.h = h /\ y.r = r /\ y.t = t}}
HasMaj23(votes, h, r, t) == BlockVoters \subseteq In(votes, h, r, t)
ForBlock(votes, h, r, t) == In(votes, h, r, t) \cap BlockVoters

-----------------------------------------------------------------------------
(* PeerState: what we believe the peer has.  None is a nil bit array.  The  *)
(* field aliased says that CatchupCommit and Precommits are one array.      *)

NewPeerState ==
  [height |-> 0, round |-> -1, step |-> 0, polRound |-> -1, pol |-> None,
   prevote |-> None, precommit |-> None, lcRound |-> -1, lastCommit |-> None,
   ccRound |-> -1, catchup |-> None, aliased |-> FALSE]

\* The array of a set of votes, None when it is not worth sending.
getVoteBitArray(p, h, r, t) ==
  CASE p.height = h /\ p.round = r -> t
    [] p.height = h /\ p.round # r /\ p.ccRound = r ->
         IF t = "precommit" THEN "catchup" ELSE None
    [] p.height = h /\ r \notin {p.round, p.ccRound} /\ p.polRound = r ->
         IF t = "prevote" THEN "pol" ELSE None
    [] p.height = h + 1 /\ p.lcRound = r /\ t = "precommit" -> "lastCommit"
    [] OTHER -> None

WriteBits(p, f, votes) ==
  IF f = None THEN p
  ELSE IF p[f] = None THEN p
  ELSE IF f = "precommit" /\ p.aliased
       THEN [p EXCEPT !.precommit = votes, !.catchup = votes]
       ELSE [p EXCEPT ![f] = votes]

setHasVote(p, h, r, t, v) ==
  LET f == getVoteBitArray(p, h, r, t)
  IN  IF f = None THEN p ELSE IF p[f] = None THEN p ELSE WriteBits(p, f, p[f] \cup {v})

ensureCatchupCommitRound(p, h, r) ==
  IF p.height # h \/ p.ccRound = r THEN p
  ELSE [p EXCEPT !.ccRound = r,
                 !.catchup = IF r = p.round THEN p.precommit ELSE {},
                 !.aliased = r = p.round /\ p.precommit # None]

ensureVoteBitArrays(p, h) ==
  LET made(a) == IF a = None THEN {} ELSE a
  IN  IF p.height = h
      THEN [p EXCEPT !.prevote = made(@), !.precommit = made(@),
                     !.catchup = made(@), !.pol = made(@)]
      ELSE IF p.height = h + 1 THEN [p EXCEPT !.lastCommit = made(@)]
      ELSE p

After(m, p) ==
  \/ m.h > p.height
  \/ m.h = p.height /\ m.r > p.round
  \/ m.h = p.height /\ m.r = p.round /\ m.s > p.step

\* A mistake: the prevotes of the round before are kept.
BugPrevotesKept(p, m) ==
  IF ~After(m, p) THEN p
  ELSE [p EXCEPT !.height = m.h, !.round = m.r, !.step = m.s, !.precommit = None, !.aliased = FALSE,
                 !.polRound = -1, !.pol = None,
                 !.lastCommit = IF p.height = m.h THEN @ ELSE None,
                 !.lcRound = IF p.height = m.h THEN @ ELSE m.lcr,
                 !.ccRound = IF p.height = m.h THEN @ ELSE -1,
                 !.catchup = IF p.height = m.h THEN @ ELSE None]

\* Precommits are reset before they are shifted, so LastCommit starts out nil
\* whatever the commit round is.
ApplyNewRoundStep(p, m) ==
  IF ~After(m, p) THEN p
  ELSE LET moved == p.height # m.h \/ p.round # m.r
           caught == p.height = m.h /\ p.round # m.r /\ m.r = p.ccRound
           q == [p EXCEPT !.height = m.h, !.round = m.r, !.step = m.s]
           r == IF ~moved THEN q
                ELSE [q EXCEPT !.polRound = -1, !.pol = None, !.prevote = None,
                               !.precommit = IF caught THEN p.catchup ELSE None,
                               !.aliased = caught /\ p.catchup # None]
       IN  IF p.height = m.h THEN r
           ELSE [r EXCEPT !.lcRound = m.lcr, !.lastCommit = None,
                          !.ccRound = -1, !.catchup = None]

SetHasProposal(p, m) ==
  IF p.height # m.h \/ p.round # m.r \/ p.polRound # -1 THEN p
  ELSE [p EXCEPT !.polRound = m.pol, !.pol = None]

ApplyProposalPOL(p, m) ==
  IF p.height # m.h \/ p.polRound # m.pol THEN p ELSE [p EXCEPT !.pol = m.votes]

ApplyHasVote(p, m) ==
  IF p.height # m.h THEN p ELSE setHasVote(p, m.h, m.r, m.t, m.v)

\* A mistake: bits are only ever added.
BugBitsAdded(p, m, our) ==
  LET f == getVoteBitArray(p, m.h, m.r, m.t)
  IN  IF f = None THEN p ELSE IF p[f] = None THEN p ELSE WriteBits(p, f, p[f] \cup m.votes)

\* our is None when our height is not the message's.
ApplyVoteSetBits(p, m, our) ==
  LET f == getVoteBitArray(p, m.h, m.r, m.t)
  IN  IF f = None THEN p
      ELSE IF p[f] = None THEN p
      ELSE WriteBits(p, f, IF our = None THEN m.votes ELSE (p[f] \ our) \cup m.votes)

-----------------------------------------------------------------------------
(* The peer *)

StepMessage(q) ==
  [k |-> "step", h |-> q.height, r |-> q.round, s |-> q.step,
   lcr |-> IF q.height = 1 THEN -1 ELSE q.commit[q.height - 1]]

\* Has the peer a vote set for this round of its height?
Tracked(q, r) ==
  \/ r <= (IF q.step = StepNewHeight THEN 0 ELSE q.round + 1)
  \/ r \in q.extra

InitGossip(c) ==
  /\ us = c.us /\ ours = c.ours /\ peer = c.peer /\ theirs = c.theirs
  /\ stateNet = {StepMessage(c.peer)}
  /\ gossipCase = c

GossipInit ==
  /\ \E c \in GossipCases : InitGossip(c)
  /\ ps = NewPeerState
  /\ view = <<>>
  /\ voteNet = {}
  /\ lostVotes = {}
  /\ stopped = FALSE

PeerMoves(q) ==
  /\ peer' = q
  /\ stateNet' = stateNet \cup {StepMessage(q)}
  /\ gossipCase' = [gossipCase EXCEPT !.peerMoves = @ - 1]
  /\ UNCHANGED <<us, ours, theirs, ps, view, voteNet, lostVotes, stopped>>

\* The peer goes on at its height: a later step, or a later round.
PeerSteps ==
  /\ gossipCase.peerMoves > 0
  /\ \E r \in peer.round..MaxRound, s \in GossipSteps \ {StepNewHeight} :
       /\ r > peer.round \/ s > peer.step
       /\ s = StepCommit => \E c \in 0..MaxRound : HasMaj23(theirs, peer.height, c, "precommit")
       /\ peer.step # StepCommit
       /\ PeerMoves([peer EXCEPT !.round = r, !.step = s])

\* finalizeCommit: the commit round's precommits become its LastCommit.
PeerCommits ==
  /\ gossipCase.peerMoves > 0
  /\ peer.step = StepCommit
  /\ \E c \in 0..MaxRound :
       /\ HasMaj23(theirs, peer.height, c, "precommit")
       /\ PeerMoves([peer EXCEPT !.height = @ + 1, !.round = 0, !.step = StepNewHeight,
                                 !.commit[peer.height] = c, !.extra = {}])

HasVoteMessage(x) == [k |-> "hasvote", h |-> x.h, r |-> x.r, t |-> x.t, v |-> x.v]

\* The peer adds a vote of its height if it knows the round or may still add
\* one for us, and a straggler of its last commit; others it drops.
PeerReceivesVote(x) ==
  LET now == x.h = peer.height
      straggler == /\ x.h + 1 = peer.height /\ peer.step = StepNewHeight
                   /\ x.t = "precommit" /\ x.r = peer.commit[x.h]
      room == Tracked(peer, x.r) \/ Cardinality(peer.extra) < 2
      added == ((now /\ room) \/ straggler) /\ x \notin theirs
  IN  /\ ~stopped
      /\ x \in voteNet
      /\ voteNet' = voteNet \ {x}
      /\ peer' = IF now /\ ~Tracked(peer, x.r) /\ room
                 THEN [peer EXCEPT !.extra = @ \cup {x.r}] ELSE peer
      /\ theirs' = IF added THEN theirs \cup {x} ELSE theirs
      /\ stateNet' = IF added THEN stateNet \cup {HasVoteMessage(x)} ELSE stateNet
      /\ UNCHANGED <<us, ours, ps, view, lostVotes, stopped, gossipCase>>

\* The peer gets a vote from somebody else.
PeerFindsVote ==
  \E x \in gossipCase.elsewhere \ theirs :
    /\ x.h = peer.height /\ Tracked(peer, x.r)
    /\ theirs' = theirs \cup {x}
    /\ stateNet' = stateNet \cup {HasVoteMessage(x)}
    /\ UNCHANGED <<us, ours, peer, ps, view, voteNet, lostVotes, stopped, gossipCase>>

\* The peer sends us the proposal of its round and the prevotes it has of the
\* proposal's POL round.
PeerSendsPOL ==
  /\ gossipCase.pol >= 0 /\ gossipCase.pol < peer.round
  /\ gossipCase' = [gossipCase EXCEPT !.pol = -1]
  /\ stateNet' = stateNet \cup
       {[k |-> "proposal", h |-> peer.height, r |-> peer.round, pol |-> gossipCase.pol],
        [k |-> "pol", h |-> peer.height, pol |-> gossipCase.pol,
         votes |-> In(theirs, peer.height, gossipCase.pol, "prevote")]}
  /\ UNCHANGED <<us, ours, peer, theirs, ps, view, voteNet, lostVotes, stopped>>

\* Answer to our claim of a majority.
PeerAnswers(m) ==
  /\ ~stopped
  /\ m \in stateNet /\ m.k = "maj23"
  /\ stateNet' = (stateNet \ {m}) \cup
       (IF m.h # peer.height THEN {}
        ELSE {[k |-> "bits", h |-> m.h, r |-> m.r, t |-> m.t,
               votes |-> IF Tracked(peer, m.r) THEN ForBlock(theirs, m.h, m.r, m.t)
                         ELSE None]})
  /\ UNCHANGED <<us, ours, peer, theirs, ps, view, voteNet, lostVotes, stopped, gossipCase>>

-----------------------------------------------------------------------------
(* Our node *)

FindVote ==
  \E x \in gossipCase.late \ ours :
    /\ x.h = us.height
    /\ ours' = ours \cup {x}
    /\ UNCHANGED <<us, peer, theirs, ps, view, voteNet, stateNet, lostVotes, stopped,
                   gossipCase>>

Advance ==
  /\ gossipCase.moves > 0
  /\ gossipCase' = [gossipCase EXCEPT !.moves = @ - 1]
  /\ \/ us.round < MaxRound /\ us' = [us EXCEPT !.round = @ + 1]
     \/ \E c \in 0..us.round :
          /\ HasMaj23(ours, us.height, c, "precommit")
          /\ us' = [us EXCEPT !.height = @ + 1, !.round = 0, !.commit[us.height] = c]
  /\ UNCHANGED <<ours, peer, theirs, ps, view, voteNet, stateNet, lostVotes, stopped>>

\* The vote sets gossipVotesRoutine tries, in order, from what it has read.
Candidates(rs, prs) ==
  LET set(h, r, t) == <<[h |-> h, r |-> r, t |-> t]>>
      when(cond, s) == IF cond THEN s ELSE <<>>
      commit(h) == set(h, rs.commit[h], "precommit")
      near == prs.round # -1 /\ prs.round <= rs.round
  IN  IF rs.height = prs.height
      THEN when(prs.step = StepNewHeight /\ rs.height > 1, commit(rs.height - 1))
           \o when(prs.step <= StepPrevote /\ near, set(rs.height, prs.round, "prevote"))
           \o when(prs.step <= StepPrecommit /\ near, set(rs.height, prs.round, "precommit"))
           \o when(prs.polRound # -1 /\ prs.polRound <= rs.round + 1,
                   set(rs.height, prs.polRound, "prevote"))
      ELSE when(prs.height # 0 /\ rs.height > prs.height, commit(prs.height))

ReadStates ==
  /\ ~stopped
  /\ view = <<>>
  /\ view' = Candidates(us, ps)
  /\ UNCHANGED <<us, ours, peer, theirs, ps, voteNet, stateNet, lostVotes, stopped, gossipCase>>

\* PickSendVote on the next set: a vote the peer seems to lack is marked under
\* the lock of ps and sent, and the routine starts over; the result of Send is
\* not looked at.
Ensured(p, c) ==
  ensureVoteBitArrays(IF c.t = "precommit" /\ HasMaj23(ours, c.h, c.r, c.t)
                      THEN ensureCatchupCommitRound(p, c.h, c.r) ELSE p, c.h)
Lacks(p, c) ==
  LET f == getVoteBitArray(p, c.h, c.r, c.t)
  IN  IF f = None THEN {} ELSE In(ours, c.h, c.r, c.t) \ p[f]

Sent(x) ==
  \/ /\ voteNet' = voteNet \cup {x}
     /\ lostVotes' = lostVotes \ {x}
     /\ UNCHANGED gossipCase
  \/ /\ gossipCase.losses > 0
     /\ gossipCase' = [gossipCase EXCEPT !.losses = @ - 1]
     /\ lostVotes' = lostVotes \cup {x}
     /\ UNCHANGED voteNet

PickSendVote ==
  /\ ~stopped /\ view # <<>>
  /\ \E c \in {Head(view)} : \E q \in {Ensured(ps, c)} : \E l \in {Lacks(q, c)} :
       \/ /\ l = {} /\ ps' = q /\ view' = Tail(view)
          /\ UNCHANGED <<voteNet, lostVotes, gossipCase>>
       \/ \E v \in l :
            /\ ps' = setHasVote(q, c.h, c.r, c.t, v)
            /\ view' = <<>>
            /\ Sent(VoteOf(c.h, c.r, c.t, v))
  /\ UNCHANGED <<us, ours, peer, theirs, stateNet, stopped>>

\* queryMaj23Routine's four questions.
Maj23(h, r, t) == [k |-> "maj23", h |-> h, r |-> r, t |-> t]
Queries ==
  LET asked(r, t) == IF /\ us.height = ps.height /\ r >= 0
                        /\ HasMaj23(ours, ps.height, r, t)
                     THEN {Maj23(ps.height, r, t)} ELSE {}
  IN  asked(ps.round, "prevote") \cup asked(ps.round, "precommit")
      \cup asked(ps.polRound, "prevote")
      \cup (IF ps.ccRound # -1 /\ 0 < ps.height /\ ps.height < us.height
            THEN {Maj23(ps.height, us.commit[ps.height], "precommit")} ELSE {})

\* The routine sleeps after each: one question of a kind is out at a time.
Open(m) == \E n \in stateNet : n.k \in {"maj23", "bits"} /\ n.r = m.r /\ n.t = m.t

QueryMaj23 ==
  /\ ~stopped
  /\ \E m \in Queries :
       /\ ~Open(m)
       /\ stateNet' = stateNet \cup {m}
       /\ UNCHANGED <<us, ours, peer, theirs, ps, view, voteNet, lostVotes, stopped, gossipCase>>

\* Receive: a nil bit array in a VoteSetBitsMessage is dereferenced, the
\* panic is recovered by the connection and ends it.
Nil(m) ==
  /\ m.k = "bits" /\ m.votes = None
  /\ LET f == getVoteBitArray(ps, m.h, m.r, m.t)
     IN  IF f = None THEN FALSE ELSE ps[f] # None

Applied(m) ==
  CASE m.k = "step" -> ApplyNewRoundStep(ps, m)
    [] m.k = "hasvote" -> ApplyHasVote(ps, m)
    [] m.k = "proposal" -> SetHasProposal(ps, m)
    [] m.k = "pol" -> ApplyProposalPOL(ps, m)
    [] m.k = "bits" -> ApplyVoteSetBits(ps, m,
                         IF m.h = us.height THEN ForBlock(ours, m.h, m.r, m.t) ELSE None)

ReceiveState(m) ==
  /\ ~stopped
  /\ m \in stateNet /\ m.k # "maj23"
  /\ stateNet' = stateNet \ {m}
  /\ stopped' = Nil(m)
  /\ ps' = IF Nil(m) THEN ps ELSE Applied(m)
  /\ UNCHANGED <<us, ours, peer, theirs, view, voteNet, lostVotes, gossipCase>>

GossipNext ==
  \/ PeerSteps \/ PeerCommits \/ PeerFindsVote \/ PeerSendsPOL
  \/ \E x \in voteNet : PeerReceivesVote(x)
  \/ \E m \in stateNet : PeerAnswers(m) \/ ReceiveState(m)
  \/ FindVote \/ Advance
  \/ ReadStates \/ PickSendVote \/ QueryMaj23

\* The reactor's routines go on, and what is sent on a connection that stays
\* up arrives.  Neither node has to get anywhere.
GossipFairness ==
  /\ WF_gossipVars(ReadStates) /\ WF_gossipVars(PickSendVote)
  /\ WF_gossipVars(\E x \in voteNet : PeerReceivesVote(x))
  /\ \A k \in {"step", "hasvote", "proposal", "pol"} :
       WF_gossipVars(\E m \in stateNet : m.k = k /\ ReceiveState(m))
  /\ \A t \in VoteTypes :
       /\ WF_gossipVars(\E m \in stateNet : m.k = "bits" /\ m.t = t /\ ReceiveState(m))
       /\ WF_gossipVars(\E m \in stateNet : m.k = "maj23" /\ m.t = t /\ PeerAnswers(m))
  /\ WF_gossipVars(QueryMaj23)

GossipSpec == GossipInit /\ [][GossipNext]_gossipVars /\ GossipFairness

-----------------------------------------------------------------------------
AllVotes == [h : 1..3, r : 0..MaxRound, t : VoteTypes, v : GossipVals]

\* The arrays of the PeerState are nil or sets of validators, the peer is never
\* believed to be further than it is, and an array shared by Precommits and
\* CatchupCommit (reactor.go, ensureCatchupCommitRound) has one content.
GossipTypeOK ==
  /\ ours \subseteq AllVotes /\ theirs \subseteq AllVotes
  /\ voteNet \subseteq AllVotes /\ lostVotes \subseteq AllVotes
  /\ \A f \in {"pol", "prevote", "precommit", "lastCommit", "catchup"} :
       ps[f] = None \/ ps[f] \in SUBSET GossipVals
  /\ ~After([h |-> ps.height, r |-> ps.round, s |-> ps.step], peer)
  /\ ps.aliased => ps.precommit = ps.catchup /\ ps.round = ps.ccRound

\* A vote the peer can still use.
Usable(x) ==
  \/ x.h = peer.height
  \/ /\ x.h + 1 = peer.height /\ peer.step = StepNewHeight
     /\ x.t = "precommit" /\ x.r = peer.commit[x.h]

\* What the PeerState says the peer has, the peer has, or it is on its way, or
\* its Send failed: messages that arrive late or out of order, answers older
\* than what was sent since, and the sharing and shifting of bit arrays never
\* make gossipVotesRoutine skip a vote that the peer lacks and can use.
BeliefsAreTrue ==
  \A x \in AllVotes :
    LET f == getVoteBitArray(ps, x.h, x.r, x.t)
    IN  /\ Usable(x) /\ f # None
        => (ps[f] = None \/ x.v \notin ps[f] \/ x \in theirs \cup voteNet \cup lostVotes)

\* A vote of ours that the peer should get where it is now.
Due(x) ==
  /\ x \in ours /\ x.h = peer.height
  /\ IF us.height = x.h
     THEN /\ x.r = peer.round /\ x.r <= us.round
          /\ peer.step <= (IF x.t = "prevote" THEN StepPrevote ELSE StepPrecommit)
     ELSE us.height > x.h /\ x.t = "precommit" /\ x.r = us.commit[x.h]

\* A vote whose Send failed is found missing again when its set has a majority.
Repairable(x) == x.v \in BlockVoters /\ HasMaj23(ours, x.h, x.r, x.t)

\* A vote that is due, missing, and not lost for good.
Owed(x) ==
  Due(x) /\ x \notin theirs /\ ~stopped /\ (x \in lostVotes => Repairable(x))

\* A peer that stays where a vote of ours is of use gets it, whatever it knew
\* before; when the Send failed it still gets it if the vote belongs to a
\* majority, by the exchange of VoteSetMaj23 and VoteSetBits messages.
NothingOwed == \A x \in ours : ~Owed(x)
VotesArrive == []<>NothingOwed

=============================================================================
