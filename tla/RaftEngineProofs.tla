-------------------------- MODULE RaftEngineProofs --------------------------
(***************************************************************************)
(* For any number of nodes, elections, losses, crashes and snapshots, and  *)
(* a log of any length: nodes that saw the whole log have the same chain.  *)
(*                                                                         *)
(* The argument: an entry is proposed for the height above a block its     *)
(* proposer has, so the entries of a height come after the first one of    *)
(* the height below; a node that reads the log in order therefore saves    *)
(* the first entry of each height, and any other is a duplicate to it.     *)
(* A block that was made from two states is of a height that is filled.    *)
(***************************************************************************)
EXTENDS RaftEngine, TLAPS

Block == [height : Nat, prev : Nat, id : Nat]

\* The log has an entry of height h; its first one has this id.
InLog(log, h) == \E i \in 1 .. Len(log) : log[i].height = h
IsFirst(log, i) == \A j \in 1 .. i - 1 : log[j].height # log[i].height
FirstIs(log, h, id) ==
    \E i \in 1 .. Len(log) : log[i].height = h /\ log[i].id = id /\ IsFirst(log, i)

\* A height that is built on one of the log, and a block built on the first
\* entry of the height below.
Rooted(log, h)  == h # 0 /\ (h = 1 \/ InLog(log, h - 1))
BuiltOn(log, b) == IF b.height = 1 THEN b.prev = 0 ELSE FirstIs(log, b.height - 1, b.prev)

NoGap == \A n \in RaftNodes : ~gap[n]

Types ==
    /\ raftLog \in Seq(Block) /\ uncommitted \in Seq(Block)
    /\ leader \in RaftNodes \cup {None} /\ stale \subseteq RaftNodes \ {leader}
    /\ applied \in [RaftNodes -> Nat] /\ stateAt \in [RaftNodes -> Nat]
    /\ raftChain \in [RaftNodes -> Seq(Nat)]
    /\ sending \in [RaftNodes -> BOOLEAN] /\ lost \in [RaftNodes -> BOOLEAN]
    /\ gap \in [RaftNodes -> BOOLEAN]
    /\ loop \in [RaftNodes -> {"off", "top", "follow", "made", "signed", "waiting"}]
    /\ proposal \in [RaftNodes -> Block] /\ made \in Nat /\ applyErrors \in Nat
    /\ \A n \in RaftNodes : applied[n] <= Len(raftLog) /\ stateAt[n] <= Len(raftChain[n])

\* Every entry of the log comes after one of the height below.
LogIsRooted ==
    \A i \in 1 .. Len(raftLog) :
        /\ raftLog[i].height # 0
        /\ raftLog[i].height = 1 \/ \E j \in 1 .. i - 1 : raftLog[j].height = raftLog[i].height - 1

\* So will the entries that are not committed yet and the proposals being made.
PendingIsRooted ==
    /\ \A i \in 1 .. Len(uncommitted) : Rooted(raftLog, uncommitted[i].height)
    /\ \A n \in RaftNodes : loop[n] \in {"made", "signed"} =>
          Rooted(raftLog, proposal[n].height) /\ proposal[n].height <= stateAt[n] + 1

\* A node has only heights of the log, ...
ChainIsLogged == \A n \in RaftNodes : \A h \in 1 .. Len(raftChain[n]) : InLog(raftLog, h)

\* ... without a snapshot all the heights it was given, and of each the first entry.
SeenIsSaved ==
    \A n \in RaftNodes : ~gap[n] => \A i \in 1 .. applied[n] : raftLog[i].height <= Len(raftChain[n])
FirstIsSaved ==
    \A n \in RaftNodes : ~gap[n] =>
        \A h \in 1 .. Len(raftChain[n]) : FirstIs(raftLog, h, raftChain[n][h])

\* Without snapshots, what is the first entry of its height, or may become it, is
\* built on the first entry of the height below, so that nothing fails in Apply.
FirstIsBuiltOn ==
    NoGap =>
        /\ \A i \in 1 .. Len(raftLog) : IsFirst(raftLog, i) => BuiltOn(raftLog, raftLog[i])
        /\ \A i \in 1 .. Len(uncommitted) : InLog(raftLog, uncommitted[i].height) \/ BuiltOn(raftLog, uncommitted[i])
        /\ \A n \in RaftNodes : loop[n] = "signed" => InLog(raftLog, proposal[n].height) \/ BuiltOn(raftLog, proposal[n])
NothingFails ==
    NoGap => applyErrors = 0 /\ \A n \in RaftNodes : stateAt[n] = Len(raftChain[n])

RaftInv == /\ Types /\ LogIsRooted /\ PendingIsRooted /\ ChainIsLogged
           /\ SeenIsSaved /\ FirstIsSaved /\ FirstIsBuiltOn /\ NothingFails

-----------------------------------------------------------------------------
\* A height has one first entry.
LEMMA FirstIsUnique ==
    ASSUME NEW log \in Seq(Block), NEW h \in Nat, NEW a, NEW b, FirstIs(log, h, a), FirstIs(log, h, b)
    PROVE  a = b
  <1>1. PICK i \in 1 .. Len(log) : log[i].height = h /\ log[i].id = a /\ IsFirst(log, i)
    BY DEF FirstIs
  <1>2. PICK j \in 1 .. Len(log) : log[j].height = h /\ log[j].id = b /\ IsFirst(log, j)
    BY DEF FirstIs
  <1>3. ~(i < j) /\ ~(j < i)
    BY <1>1, <1>2 DEF IsFirst
  <1> QED BY <1>1, <1>2, <1>3

\* What is said of the log stays true while it grows.
Grown(log, new, b) ==
    /\ new \in Seq(Block) /\ Len(new) = Len(log) + 1 /\ Len(log) \in Nat
    /\ \A i \in 1 .. Len(log) : new[i] = log[i]
    /\ new[Len(log) + 1] = b
    /\ \A i \in 1 .. Len(log) : IsFirst(new, i) <=> IsFirst(log, i)
    /\ \A h : InLog(log, h) => InLog(new, h)
    /\ \A h, id : FirstIs(log, h, id) => FirstIs(new, h, id)
    /\ \A h : Rooted(log, h) => Rooted(new, h)
    /\ \A c : BuiltOn(log, c) => BuiltOn(new, c)

\* Append lets the log grow in this sense.
LEMMA LogGrows ==
    ASSUME NEW log \in Seq(Block), NEW b \in Block
    PROVE  Grown(log, Append(log, b), b)
  <1> DEFINE new == Append(log, b)
  <1>1. /\ new \in Seq(Block) /\ Len(new) = Len(log) + 1 /\ Len(log) \in Nat
        /\ \A i \in 1 .. Len(log) : new[i] = log[i]
        /\ new[Len(log) + 1] = b
    OBVIOUS
  <1> HIDE DEF new
  <1>2. \A i \in 1 .. Len(log) : IsFirst(new, i) <=> IsFirst(log, i)
    BY <1>1 DEF IsFirst
  <1>3. \A h : InLog(log, h) => InLog(new, h)
    BY <1>1 DEF InLog
  <1>4. \A h, id : FirstIs(log, h, id) => FirstIs(new, h, id)
    BY <1>1, <1>2 DEF FirstIs
  <1>5. \A h : Rooted(log, h) => Rooted(new, h)
    BY <1>3 DEF Rooted
  <1>6. \A c : BuiltOn(log, c) => BuiltOn(new, c)
    BY <1>4 DEF BuiltOn
  <1>7. Grown(log, new, b)
    BY <1>1, <1>2, <1>3, <1>4, <1>5, <1>6 DEF Grown
  <1> QED BY <1>7 DEF new

\* A cluster that has done nothing satisfies the invariant.
LEMMA RaftInvInit == RaftInit => RaftInv
  <1> SUFFICES ASSUME RaftInit PROVE RaftInv
    OBVIOUS
  <1>1. Types
    BY DEF RaftInit, Types, Block, NoBlock
  <1>2. LogIsRooted /\ PendingIsRooted /\ ChainIsLogged
    BY DEF RaftInit, LogIsRooted, PendingIsRooted, ChainIsLogged
  <1>3. SeenIsSaved /\ FirstIsSaved
    BY DEF RaftInit, SeenIsSaved, FirstIsSaved
  <1>4. FirstIsBuiltOn /\ NothingFails
    BY DEF RaftInit, FirstIsBuiltOn, NothingFails
  <1> QED BY <1>1, <1>2, <1>3, <1>4 DEF RaftInv

-----------------------------------------------------------------------------
\* An entry becomes committed.
LEMMA CommitEntryKeeps == RaftInv /\ CommitEntry => RaftInv'
  <1> SUFFICES ASSUME RaftInv, CommitEntry PROVE RaftInv'
    OBVIOUS
  <1> USE DEF RaftInv
  <1> DEFINE b == Head(uncommitted)
             n0 == Len(raftLog)
  <1>1. /\ raftLog \in Seq(Block) /\ b \in Block /\ b = uncommitted[1] /\ 1 \in 1 .. Len(uncommitted)
        /\ uncommitted' \in Seq(Block) /\ Len(uncommitted') = Len(uncommitted) - 1
        /\ Len(uncommitted) \in Nat
        /\ \A i \in 1 .. Len(uncommitted') : uncommitted'[i] = uncommitted[i + 1] /\ i + 1 \in 1 .. Len(uncommitted)
    BY DEF CommitEntry, Types
  <1>2. raftLog' = Append(raftLog, b)
    BY DEF CommitEntry
  <1>3. /\ UNCHANGED <<leader, stale, applied, raftChain, stateAt, sending, applyErrors>>
        /\ UNCHANGED <<loop, proposal, made, lost, gap, raftBound>>
    BY DEF CommitEntry, fsmVars, loopVars
  <1> HIDE DEF b
  <1>4. /\ raftLog' \in Seq(Block) /\ Len(raftLog') = n0 + 1 /\ n0 \in Nat
        /\ \A i \in 1 .. n0 : raftLog'[i] = raftLog[i]
        /\ raftLog'[n0 + 1] = b
        /\ \A i \in 1 .. n0 : IsFirst(raftLog', i) <=> IsFirst(raftLog, i)
        /\ \A h : InLog(raftLog, h) => InLog(raftLog', h)
        /\ \A h, id : FirstIs(raftLog, h, id) => FirstIs(raftLog', h, id)
        /\ \A h : Rooted(raftLog, h) => Rooted(raftLog', h)
        /\ \A c : BuiltOn(raftLog, c) => BuiltOn(raftLog', c)
    <2>1. Grown(raftLog, raftLog', b)
      BY <1>1, <1>2, LogGrows
    <2> QED BY <2>1 DEF Grown
  <1>5. Types'
    BY <1>1, <1>3, <1>4 DEF Types
  <1>6. LogIsRooted'
    <2>1. Rooted(raftLog, b.height)
      BY <1>1 DEF PendingIsRooted
    <2> SUFFICES ASSUME NEW i \in 1 .. n0 + 1
                 PROVE  /\ raftLog'[i].height # 0
                        /\ \/ raftLog'[i].height = 1
                           \/ \E j \in 1 .. i - 1 : raftLog'[j].height = raftLog'[i].height - 1
      BY <1>4 DEF LogIsRooted
    <2>2. CASE i \in 1 .. n0
      BY <2>2, <1>4 DEF LogIsRooted
    <2>3. CASE i = n0 + 1
      BY <2>1, <2>3, <1>4 DEF Rooted, InLog
    <2> QED BY <2>2, <2>3, <1>4
  <1>7. PendingIsRooted'
    BY <1>1, <1>3, <1>4 DEF PendingIsRooted
  <1>8. ChainIsLogged'
    BY <1>3, <1>4 DEF ChainIsLogged
  <1>9. SeenIsSaved'
    <2>1. \A n \in RaftNodes : applied[n] \in Nat /\ applied[n] <= n0
      BY DEF Types
    <2>2. \A n \in RaftNodes : \A i \in 1 .. applied[n] : raftLog'[i] = raftLog[i]
      BY <2>1, <1>4
    <2> QED BY <1>3, <2>2 DEF SeenIsSaved
  <1>10. FirstIsSaved'
    BY <1>3, <1>4 DEF FirstIsSaved
  <1>11. FirstIsBuiltOn'
    <2> SUFFICES ASSUME NoGap
                 PROVE  /\ \A i \in 1 .. n0 + 1 : IsFirst(raftLog', i) => BuiltOn(raftLog', raftLog'[i])
                        /\ \A i \in 1 .. Len(uncommitted') :
                              InLog(raftLog', uncommitted'[i].height) \/ BuiltOn(raftLog', uncommitted'[i])
                        /\ \A n \in RaftNodes : loop'[n] = "signed" =>
                              InLog(raftLog', proposal'[n].height) \/ BuiltOn(raftLog', proposal'[n])
      BY <1>3, <1>4 DEF FirstIsBuiltOn, NoGap
    <2>1. \A i \in 1 .. n0 : IsFirst(raftLog', i) => BuiltOn(raftLog', raftLog'[i])
      BY <1>4 DEF FirstIsBuiltOn
    <2>2. IsFirst(raftLog', n0 + 1) => ~InLog(raftLog, b.height)
      BY <1>4 DEF IsFirst, InLog
    <2>3. InLog(raftLog, b.height) \/ BuiltOn(raftLog, b)
      BY <1>1 DEF FirstIsBuiltOn
    <2>4. IsFirst(raftLog', n0 + 1) => BuiltOn(raftLog', raftLog'[n0 + 1])
      BY <2>2, <2>3, <1>4
    <2>5. \A i \in 1 .. Len(uncommitted') : InLog(raftLog', uncommitted'[i].height) \/ BuiltOn(raftLog', uncommitted'[i])
      BY <1>1, <1>4 DEF FirstIsBuiltOn
    <2>6. \A n \in RaftNodes : loop'[n] = "signed" => InLog(raftLog', proposal'[n].height) \/ BuiltOn(raftLog', proposal'[n])
      BY <1>3, <1>4 DEF FirstIsBuiltOn
    <2> QED BY <2>1, <2>4, <2>5, <2>6, <1>4
  <1>12. NothingFails'
    BY <1>3 DEF NothingFails, NoGap
  <1> QED BY <1>5, <1>6, <1>7, <1>8, <1>9, <1>10, <1>11, <1>12

\* What the library does with leaders and snapshots.
LEMMA RaftLibKeeps == RaftInv /\ RaftLib => RaftInv'
  <1> SUFFICES ASSUME RaftInv, RaftLib PROVE RaftInv'
    OBVIOUS
  <1> USE DEF RaftInv
  <1>1. ASSUME NEW n \in RaftNodes, NEW kept \in 0 .. Len(uncommitted), Elect(n, kept)
        PROVE  RaftInv'
    <2>1. /\ UNCHANGED <<raftLog, applied, raftChain, stateAt, sending, applyErrors>>
          /\ UNCHANGED <<loop, proposal, made, gap>>
      BY <1>1 DEF Elect, fsmVars, loopVars
    <2>2. /\ uncommitted' \in Seq(Block)
          /\ \A i \in 1 .. Len(uncommitted') : i \in 1 .. Len(uncommitted) /\ uncommitted'[i] = uncommitted[i]
      BY <1>1 DEF Elect, Types
    <2>3. leader' \in RaftNodes \cup {None} /\ stale' \subseteq RaftNodes \ {leader'}
      BY <1>1 DEF Elect, Types
    <2>4. lost' \in [RaftNodes -> BOOLEAN]
      BY <1>1 DEF Elect, LostWith, Types
    <2>5. Types'
      BY <2>1, <2>2, <2>3, <2>4 DEF Types
    <2>6. LogIsRooted' /\ PendingIsRooted' /\ ChainIsLogged' /\ SeenIsSaved' /\ FirstIsSaved'
      BY <2>1, <2>2 DEF LogIsRooted, PendingIsRooted, ChainIsLogged, SeenIsSaved, FirstIsSaved
    <2>7. FirstIsBuiltOn' /\ NothingFails'
      BY <2>1, <2>2 DEF FirstIsBuiltOn, NothingFails, NoGap
    <2> QED BY <2>5, <2>6, <2>7
  <1>2. ASSUME NEW n \in RaftNodes, StepDown(n) PROVE RaftInv'
    <2>1. /\ UNCHANGED <<raftLog, uncommitted, leader, applied, raftChain, stateAt, sending, applyErrors>>
          /\ UNCHANGED <<loop, proposal, made, lost, gap>>
          /\ stale' = stale \ {n}
      BY <1>2 DEF StepDown, fsmVars, loopVars
    <2>2. Types'
      BY <2>1 DEF Types
    <2>3. LogIsRooted' /\ PendingIsRooted' /\ ChainIsLogged' /\ SeenIsSaved' /\ FirstIsSaved'
      BY <2>1 DEF LogIsRooted, PendingIsRooted, ChainIsLogged, SeenIsSaved, FirstIsSaved
    <2>4. FirstIsBuiltOn' /\ NothingFails'
      BY <2>1 DEF FirstIsBuiltOn, NothingFails, NoGap
    <2> QED BY <2>2, <2>3, <2>4
  <1>3. ASSUME NEW n \in RaftNodes, RestoreSnapshot(n) PROVE RaftInv'
    <2>1. /\ UNCHANGED <<raftLog, uncommitted, leader, stale, raftChain, stateAt, sending, applyErrors>>
          /\ UNCHANGED <<loop, proposal, made, lost>>
          /\ applied' = [applied EXCEPT ![n] = applied[leader]] /\ leader \in RaftNodes
          /\ gap' = [gap EXCEPT ![n] = TRUE]
      BY <1>3 DEF RestoreSnapshot, raftLibVars, loopVars, Types
    <2>2. Types'
      BY <2>1 DEF Types
    <2>3. LogIsRooted' /\ PendingIsRooted' /\ ChainIsLogged'
      BY <2>1 DEF LogIsRooted, PendingIsRooted, ChainIsLogged
    <2>4. gap'[n] /\ \A k \in RaftNodes \ {n} : gap'[k] = gap[k] /\ applied'[k] = applied[k]
      BY <2>1 DEF Types
    <2>5. SeenIsSaved' /\ FirstIsSaved'
      BY <2>1, <2>4 DEF SeenIsSaved, FirstIsSaved
    <2>6. ~NoGap'
      BY <2>4 DEF NoGap
    <2> QED BY <2>2, <2>3, <2>5, <2>6 DEF FirstIsBuiltOn, NothingFails
  <1> QED BY <1>1, <1>2, <1>3, CommitEntryKeeps DEF RaftLib

\* A node crashes: the log is given to it again from its start.
LEMMA CrashKeeps ==
    ASSUME RaftInv, NEW n \in RaftNodes, CrashRaft(n)
    PROVE  RaftInv'
  <1> USE DEF RaftInv
  <1>1. /\ UNCHANGED <<raftLog, uncommitted, stateAt, applyErrors, made, gap>>
        /\ applied' = [applied EXCEPT ![n] = 0] /\ sending' = [sending EXCEPT ![n] = FALSE]
        /\ raftChain' = [raftChain EXCEPT ![n] = SubSeq(@, 1, stateAt[n])]
        /\ loop' = [loop EXCEPT ![n] = "off"] /\ proposal' = [proposal EXCEPT ![n] = NoBlock]
        /\ lost' = [lost EXCEPT ![n] = FALSE]
        /\ leader' = (IF leader = n THEN None ELSE leader) /\ stale' = stale \ {n}
    BY DEF CrashRaft, ToLoop
  <1>2. \A k \in RaftNodes :
          /\ raftChain'[k] \in Seq(Nat)
          /\ stateAt[k] <= Len(raftChain'[k]) /\ Len(raftChain'[k]) <= Len(raftChain[k])
          /\ \A h \in 1 .. Len(raftChain'[k]) : h \in 1 .. Len(raftChain[k]) /\ raftChain'[k][h] = raftChain[k][h]
          /\ k # n => raftChain'[k] = raftChain[k] /\ applied'[k] = applied[k]
          /\ stateAt[k] = Len(raftChain[k]) => stateAt[k] = Len(raftChain'[k])
    <2> TAKE k \in RaftNodes
    <2>1. CASE k = n
      <3>1. raftChain'[k] = SubSeq(raftChain[n], 1, stateAt[n])
        BY <2>1, <1>1 DEF Types
      <3>2. stateAt[n] \in 0 .. Len(raftChain[n]) /\ raftChain[n] \in Seq(Nat)
        BY DEF Types
      <3> QED BY <2>1, <3>1, <3>2
    <2>2. CASE k # n
      BY <2>2, <1>1 DEF Types
    <2> QED BY <2>1, <2>2
  <1>3. /\ raftChain' \in [RaftNodes -> Seq(Nat)]
        /\ leader' \in RaftNodes \cup {None} /\ stale' \subseteq RaftNodes \ {leader'}
    BY <1>1, <1>2, RaftAssumption DEF Types
  <1>4. Types'
    BY <1>1, <1>2, <1>3 DEF Types, Block, NoBlock
  <1>5. loop'[n] = "off" /\ applied'[n] = 0
        /\ \A k \in RaftNodes \ {n} : loop'[k] = loop[k] /\ proposal'[k] = proposal[k]
    BY <1>1 DEF Types
  <1>6. LogIsRooted' /\ PendingIsRooted'
    BY <1>1, <1>5 DEF LogIsRooted, PendingIsRooted
  <1>7. ChainIsLogged' /\ FirstIsSaved'
    BY <1>1, <1>2 DEF ChainIsLogged, FirstIsSaved
  <1>8. SeenIsSaved'
    BY <1>1, <1>2, <1>5 DEF SeenIsSaved
  <1>9. FirstIsBuiltOn' /\ NothingFails'
    BY <1>1, <1>2, <1>5 DEF FirstIsBuiltOn, NothingFails, NoGap
  <1> QED BY <1>4, <1>6, <1>7, <1>8, <1>9

\* The state machine is given the next entry of the log.
LEMMA ApplyKeeps ==
    ASSUME RaftInv, NEW n \in RaftNodes, Apply(n)
    PROVE  RaftInv'
  <1> USE DEF RaftInv
  <1> DEFINE at == applied[n] + 1
             b  == raftLog[at]
             l  == Len(raftChain[n])
  <1>1. /\ UNCHANGED <<raftLog, uncommitted, leader, stale, loop, proposal, made, lost, gap>>
        /\ applied' = [applied EXCEPT ![n] = at]
        /\ ApplyEntry(n, b)
    BY DEF Apply, raftLibVars, loopVars
  <1>2. /\ at \in 1 .. Len(raftLog) /\ applied[n] \in Nat /\ b \in Block /\ b.height \in Nat
        /\ l \in Nat /\ raftChain[n] \in Seq(Nat) /\ stateAt[n] \in 0 .. l
        /\ \A i \in 1 .. Len(raftLog) : raftLog[i].height \in Nat
    <2>1. raftLog \in Seq(Block) /\ applied[n] \in Nat /\ applied[n] < Len(raftLog)
      BY DEF Apply, Types
    <2>2. raftChain[n] \in Seq(Nat) /\ stateAt[n] \in Nat /\ stateAt[n] <= Len(raftChain[n])
      BY DEF Types
    <2>3. \A i \in 1 .. Len(raftLog) : raftLog[i] \in Block
      BY <2>1
    <2>4. \A c \in Block : c.height \in Nat
      BY DEF Block
    <2> QED BY <2>1, <2>2, <2>3, <2>4
  <1> HIDE DEF b, l
  <1>3. ~gap[n] => b.height <= l + 1
    <2> SUFFICES ASSUME ~gap[n] PROVE b.height <= l + 1
      OBVIOUS
    <2>1. b.height = 1 \/ \E j \in 1 .. applied[n] : raftLog[j].height = b.height - 1
      <3>1. b.height = 1 \/ \E j \in 1 .. at - 1 : raftLog[j].height = b.height - 1
        BY <1>2 DEF LogIsRooted, b
      <3>2. at - 1 = applied[n]
        BY <1>2
      <3> QED BY <3>1, <3>2
    <2>2. \A j \in 1 .. applied[n] : raftLog[j].height <= l
      BY DEF SeenIsSaved, l
    <2>3. CASE b.height = 1
      BY <2>3, <1>2
    <2>4. ASSUME NEW j \in 1 .. applied[n], raftLog[j].height = b.height - 1 PROVE b.height <= l + 1
      BY <2>2, <2>4, <1>2
    <2> QED BY <2>1, <2>3, <2>4
  <1>4. LogIsRooted'
    BY <1>1 DEF LogIsRooted
  <1>5. CASE l + 1 # b.height
    <2>1. UNCHANGED <<raftChain, stateAt, sending, applyErrors>>
      BY <1>1, <1>5 DEF ApplyEntry, Skip, l
    <2>2. Types'
      BY <1>1, <1>2, <2>1 DEF Types
    <2>3. PendingIsRooted' /\ ChainIsLogged' /\ FirstIsSaved'
      BY <1>1, <2>1 DEF PendingIsRooted, ChainIsLogged, FirstIsSaved
    <2>4. FirstIsBuiltOn' /\ NothingFails'
      BY <1>1, <2>1 DEF FirstIsBuiltOn, NothingFails, NoGap
    <2>5. ~gap[n] => \A i \in 1 .. at : raftLog[i].height <= l
      <3>1. ~gap[n] => \A i \in 1 .. applied[n] : raftLog[i].height <= l
        BY DEF SeenIsSaved, l
      <3>2. ~gap[n] => b.height <= l
        BY <1>2, <1>3, <1>5
      <3> QED BY <3>1, <3>2, <1>2 DEF b
    <2>6. applied'[n] = at /\ \A k \in RaftNodes \ {n} : applied'[k] = applied[k]
      BY <1>1 DEF Types
    <2>7. SeenIsSaved'
      BY <1>1, <2>1, <2>5, <2>6 DEF SeenIsSaved, l
    <2> QED BY <1>4, <2>2, <2>3, <2>4, <2>7
  <1>6. CASE l + 1 = b.height
    <2>1. Save(n, b) /\ ApplyBlock(n, b)
      BY <1>1, <1>6 DEF ApplyEntry, l
    <2>2. /\ raftChain' = [raftChain EXCEPT ![n] = Append(raftChain[n], b.id)]
          /\ raftChain'[n] = Append(raftChain[n], b.id) /\ b.id \in Nat
          /\ \A k \in RaftNodes \ {n} : raftChain'[k] = raftChain[k]
      BY <1>2, <2>1 DEF Save, Types, Block
    <2>3. /\ raftChain'[n] \in Seq(Nat) /\ Len(raftChain'[n]) = l + 1
          /\ raftChain'[n][l + 1] = b.id
          /\ \A h \in 1 .. l : raftChain'[n][h] = raftChain[n][h]
      BY <1>2, <2>2 DEF l
    <2>4. raftChain' \in [RaftNodes -> Seq(Nat)]
      BY <2>2, <2>3 DEF Types
    <2>5. /\ applied'[n] = at /\ \A k \in RaftNodes \ {n} : applied'[k] = applied[k]
          /\ applied' \in [RaftNodes -> Nat] /\ \A k \in RaftNodes : applied'[k] <= Len(raftLog)
      BY <1>1, <1>2 DEF Types
    <2>6. \/ stateAt' = [stateAt EXCEPT ![n] = @ + 1] /\ stateAt[n] + 1 = b.height /\ UNCHANGED applyErrors
          \/ UNCHANGED stateAt /\ applyErrors' = applyErrors + 1 /\ ~Validates(n, b)
      BY <2>1 DEF ApplyBlock, Validates
    <2>7. /\ stateAt' \in [RaftNodes -> Nat] /\ applyErrors' \in Nat
          /\ \A k \in RaftNodes : stateAt[k] <= stateAt'[k] /\ stateAt'[k] <= Len(raftChain'[k])
      <3>1. CASE stateAt' = [stateAt EXCEPT ![n] = @ + 1] /\ stateAt[n] + 1 = b.height /\ UNCHANGED applyErrors
        BY <1>2, <1>6, <2>2, <2>3, <3>1 DEF Types
      <3>2. CASE UNCHANGED stateAt /\ applyErrors' = applyErrors + 1
        BY <1>2, <2>2, <2>3, <3>2 DEF Types
      <3> QED BY <2>6, <3>1, <3>2
    <2>8. sending' \in [RaftNodes -> BOOLEAN]
      BY <2>1 DEF ApplyBlock, Types
    <2>9. Types'
      BY <1>1, <2>4, <2>5, <2>7, <2>8 DEF Types
    <2>10. PendingIsRooted'
      <3>1. \A k \in RaftNodes : loop[k] \in {"made", "signed"} => proposal[k].height <= stateAt'[k] + 1
        BY <2>7 DEF PendingIsRooted, Types, Block
      <3> QED BY <1>1, <3>1 DEF PendingIsRooted
    <2>11. ChainIsLogged'
      <3>1. InLog(raftLog, b.height)
        BY <1>2 DEF InLog, b
      <3>2. \A h \in 1 .. l : InLog(raftLog, h)
        BY DEF ChainIsLogged, l
      <3>3. \A h \in 1 .. l + 1 : InLog(raftLog, h)
        BY <1>2, <1>6, <3>1, <3>2
      <3> QED BY <1>1, <2>2, <2>3, <3>3 DEF ChainIsLogged
    <2>12. SeenIsSaved'
      <3>1. ~gap[n] => \A i \in 1 .. applied[n] : raftLog[i].height <= l
        BY DEF SeenIsSaved, l
      <3>2. ~gap[n] => \A i \in 1 .. at : raftLog[i].height <= l + 1
        <4> SUFFICES ASSUME ~gap[n], NEW i \in 1 .. at PROVE raftLog[i].height <= l + 1
          OBVIOUS
        <4>1. CASE i = at
          BY <4>1, <1>2, <1>6 DEF b
        <4>2. CASE i \in 1 .. applied[n]
          <5>1. raftLog[i].height \in Nat
            BY <1>2, <4>2
          <5> QED BY <4>2, <3>1, <1>2, <5>1
        <4> QED BY <4>1, <4>2, <1>2
      <3> QED BY <1>1, <2>2, <2>3, <2>5, <3>2 DEF SeenIsSaved
    <2>13. ~gap[n] => IsFirst(raftLog, at)
      <3> SUFFICES ASSUME ~gap[n], NEW j \in 1 .. at - 1 PROVE raftLog[j].height # b.height
        BY DEF IsFirst, b
      <3>1. raftLog[j].height <= l /\ raftLog[j].height \in Nat
        BY <1>2 DEF SeenIsSaved, l
      <3> QED BY <3>1, <1>2, <1>6
    <2>14. FirstIsSaved'
      <3>1. ~gap[n] => FirstIs(raftLog, l + 1, b.id)
        BY <1>2, <1>6, <2>13 DEF FirstIs, b
      <3>2. ~gap[n] => \A h \in 1 .. l : FirstIs(raftLog, h, raftChain[n][h])
        BY DEF FirstIsSaved, l
      <3>3. ~gap[n] => \A h \in 1 .. l + 1 : FirstIs(raftLog, h, raftChain'[n][h])
        <4> SUFFICES ASSUME ~gap[n], NEW h \in 1 .. l + 1 PROVE FirstIs(raftLog, h, raftChain'[n][h])
          OBVIOUS
        <4>1. CASE h = l + 1
          BY <2>3, <3>1, <4>1
        <4>2. CASE h \in 1 .. l
          BY <2>3, <3>2, <4>2
        <4> QED BY <1>2, <4>1, <4>2
      <3> QED BY <1>1, <2>2, <2>3, <3>3 DEF FirstIsSaved
    <2>15. FirstIsBuiltOn'
      BY <1>1 DEF FirstIsBuiltOn, NoGap
    <2>16. NoGap => Validates(n, b)
      <3> SUFFICES ASSUME NoGap PROVE Validates(n, b)
        OBVIOUS
      <3>1. stateAt[n] = l /\ ~gap[n]
        BY DEF NothingFails, NoGap, l
      <3>2. BuiltOn(raftLog, b)
        BY <1>2, <2>13, <3>1 DEF FirstIsBuiltOn, b
      <3>3. b.prev = LastId(n)
        <4>1. CASE l = 0
          BY <1>6, <3>1, <3>2, <4>1 DEF BuiltOn, LastId
        <4>2. CASE l # 0
          <5>1. FirstIs(raftLog, l, b.prev)
            BY <1>2, <1>6, <3>2, <4>2 DEF BuiltOn
          <5>2. FirstIs(raftLog, l, raftChain[n][l])
            BY <1>2, <3>1, <4>2 DEF FirstIsSaved, l
          <5>3. b.prev = raftChain[n][l]
            BY <1>2, <5>1, <5>2, FirstIsUnique DEF Types
          <5> QED BY <3>1, <4>2, <5>3 DEF LastId
        <4> QED BY <4>1, <4>2
      <3> QED BY <1>6, <3>1, <3>3 DEF Validates
    <2>17. NothingFails'
      <3> SUFFICES ASSUME NoGap PROVE applyErrors' = 0 /\ \A k \in RaftNodes : stateAt'[k] = Len(raftChain'[k])
        BY <1>1 DEF NothingFails, NoGap
      <3>1. applyErrors = 0 /\ \A k \in RaftNodes : stateAt[k] = Len(raftChain[k])
        BY DEF NothingFails
      <3>2. stateAt' = [stateAt EXCEPT ![n] = @ + 1] /\ UNCHANGED applyErrors
        BY <2>6, <2>16
      <3> QED BY <2>2, <2>3, <3>1, <3>2 DEF Types, l
    <2> QED BY <1>4, <2>9, <2>10, <2>11, <2>12, <2>14, <2>15, <2>17
  <1> QED BY <1>5, <1>6

\* The loop moves on with no proposal in its hands.
LEMMA LoopMoves ==
    ASSUME RaftInv, NEW n \in RaftNodes, NEW pc \in {"top", "follow", "waiting"},
           loop' = [loop EXCEPT ![n] = pc],
           sending' \in [RaftNodes -> BOOLEAN], lost' \in [RaftNodes -> BOOLEAN],
           UNCHANGED <<raftLog, uncommitted, leader, stale, applied, raftChain, stateAt, applyErrors>>,
           UNCHANGED <<proposal, made, gap>>
    PROVE  RaftInv'
  <1> USE DEF RaftInv
  <1>1. Types'
    BY DEF Types
  <1>2. loop'[n] \notin {"made", "signed"} /\ \A k \in RaftNodes \ {n} : loop'[k] = loop[k]
    BY DEF Types
  <1>3. LogIsRooted' /\ ChainIsLogged' /\ SeenIsSaved' /\ FirstIsSaved' /\ NothingFails'
    BY DEF LogIsRooted, ChainIsLogged, SeenIsSaved, FirstIsSaved, NothingFails, NoGap
  <1>4. PendingIsRooted'
    BY <1>2 DEF PendingIsRooted
  <1>5. FirstIsBuiltOn'
    BY <1>2 DEF FirstIsBuiltOn, NoGap
  <1> QED BY <1>1, <1>3, <1>4, <1>5

\* A step of the loop.
LEMMA RunStepKeeps ==
    ASSUME RaftInv, NEW n \in RaftNodes, RunStep(n)
    PROVE  RaftInv'
  <1> USE DEF RaftInv
  <1>1. CASE StartRun(n) \/ Follow(n) \/ FollowerReceive(n) \/ LeaderReceive(n)
    <2>1. \E pc \in {"top", "follow", "waiting"} : loop' = [loop EXCEPT ![n] = pc]
      BY <1>1 DEF StartRun, Follow, FollowerReceive, LeaderReceive, ToLoop
    <2>2. sending' \in [RaftNodes -> BOOLEAN] /\ lost' \in [RaftNodes -> BOOLEAN]
      BY <1>1 DEF StartRun, Follow, FollowerReceive, LeaderReceive, fsmVars, Types
    <2>3. /\ UNCHANGED <<raftLog, uncommitted, leader, stale, applied, raftChain, stateAt, applyErrors>>
          /\ UNCHANGED <<proposal, made, gap>>
      BY <1>1 DEF StartRun, Follow, FollowerReceive, LeaderReceive, raftLibVars, fsmVars
    <2> QED BY <2>1, <2>2, <2>3, LoopMoves
  <1>2. CASE ReadHeight(n)
    <2>1. /\ UNCHANGED <<raftLog, uncommitted, leader, stale, applied, raftChain, stateAt, sending, applyErrors>>
          /\ UNCHANGED <<lost, gap>> /\ made' = made + 1
          /\ proposal' = [proposal EXCEPT ![n] = [height |-> stateAt[n] + 1, prev |-> 0, id |-> made + 1]]
          /\ loop' = [loop EXCEPT ![n] = "made"]
      BY <1>2 DEF ReadHeight, ToLoop, raftLibVars, fsmVars
    <2>2. Types'
      BY <2>1 DEF Types, Block
    <2>3. /\ loop'[n] = "made" /\ proposal'[n].height = stateAt[n] + 1
          /\ \A k \in RaftNodes \ {n} : loop'[k] = loop[k] /\ proposal'[k] = proposal[k]
      BY <2>1 DEF Types
    <2>4. LogIsRooted' /\ ChainIsLogged' /\ SeenIsSaved' /\ FirstIsSaved' /\ NothingFails'
      BY <2>1 DEF LogIsRooted, ChainIsLogged, SeenIsSaved, FirstIsSaved, NothingFails, NoGap
    <2>5. Rooted(raftLog, stateAt[n] + 1)
      <3>1. stateAt[n] \in Nat /\ stateAt[n] <= Len(raftChain[n]) /\ Len(raftChain[n]) \in Nat
        BY DEF Types
      <3>2. stateAt[n] # 0 => InLog(raftLog, stateAt[n])
        BY <3>1 DEF ChainIsLogged
      <3>3. (stateAt[n] + 1) - 1 = stateAt[n] /\ (stateAt[n] = 0 => stateAt[n] + 1 = 1) /\ stateAt[n] + 1 # 0
        BY <3>1
      <3> QED BY <3>2, <3>3 DEF Rooted
    <2>6. stateAt[n] + 1 <= stateAt[n] + 1
      BY DEF Types
    <2>7. PendingIsRooted'
      BY <2>1, <2>3, <2>5, <2>6 DEF PendingIsRooted
    <2>8. FirstIsBuiltOn'
      BY <2>1, <2>3 DEF FirstIsBuiltOn, NoGap
    <2> QED BY <2>2, <2>4, <2>7, <2>8
  <1>3. CASE ReadLastBlock(n)
    <2>1. /\ UNCHANGED <<raftLog, uncommitted, leader, stale, applied, raftChain, stateAt, sending, applyErrors>>
          /\ UNCHANGED <<lost, gap, made>>
          /\ proposal' = [proposal EXCEPT ![n].prev = LastId(n)]
          /\ loop[n] = "made" /\ loop' = [loop EXCEPT ![n] = "signed"]
      BY <1>3 DEF ReadLastBlock, ToLoop, raftLibVars, fsmVars
    <2>2. /\ stateAt[n] \in Nat /\ stateAt[n] <= Len(raftChain[n]) /\ Len(raftChain[n]) \in Nat
          /\ raftChain[n] \in Seq(Nat) /\ proposal[n] \in Block /\ proposal[n].height \in Nat
      BY DEF Types, Block
    <2>3. LastId(n) \in Nat
      BY <2>2 DEF LastId
    <2>4. /\ proposal' \in [RaftNodes -> Block]
          /\ proposal'[n].height = proposal[n].height /\ proposal'[n].prev = LastId(n)
          /\ loop'[n] = "signed"
          /\ \A k \in RaftNodes \ {n} : loop'[k] = loop[k] /\ proposal'[k] = proposal[k]
      BY <2>1, <2>3 DEF Types, Block
    <2>5. Types'
      BY <2>1, <2>4 DEF Types
    <2>6. LogIsRooted' /\ ChainIsLogged' /\ SeenIsSaved' /\ FirstIsSaved' /\ NothingFails'
      BY <2>1 DEF LogIsRooted, ChainIsLogged, SeenIsSaved, FirstIsSaved, NothingFails, NoGap
    <2>7. PendingIsRooted'
      BY <2>1, <2>4 DEF PendingIsRooted
    <2>8. NoGap => InLog(raftLog, proposal'[n].height) \/ BuiltOn(raftLog, proposal'[n])
      <3> SUFFICES ASSUME NoGap
                   PROVE  InLog(raftLog, proposal'[n].height) \/ BuiltOn(raftLog, proposal'[n])
        OBVIOUS
      <3> DEFINE h == proposal[n].height
      <3>1. h # 0 /\ h <= stateAt[n] + 1
        BY <2>1 DEF PendingIsRooted, Rooted
      <3>2. CASE h <= stateAt[n]
        BY <2>2, <2>4, <3>1, <3>2 DEF ChainIsLogged
      <3>3. CASE h = stateAt[n] + 1
        <4>1. CASE h = 1
          BY <2>2, <2>4, <3>3, <4>1 DEF BuiltOn, LastId
        <4>2. CASE h # 1
          <5>1. h - 1 = stateAt[n] /\ stateAt[n] \in 1 .. Len(raftChain[n])
            BY <2>2, <3>1, <3>3, <4>2
          <5>2. FirstIs(raftLog, h - 1, LastId(n))
            BY <5>1 DEF FirstIsSaved, NoGap, LastId
          <5> QED BY <2>4, <4>2, <5>2 DEF BuiltOn
        <4> QED BY <4>1, <4>2
      <3> QED BY <2>2, <3>1, <3>2, <3>3
    <2>9. FirstIsBuiltOn'
      BY <2>1, <2>4, <2>8 DEF FirstIsBuiltOn, NoGap
    <2> QED BY <2>5, <2>6, <2>7, <2>9
  <1>4. CASE RaftApply(n)
    <2>1. /\ UNCHANGED <<raftLog, leader, stale, applied, raftChain, stateAt, sending, applyErrors>>
          /\ UNCHANGED <<proposal, made, gap>>
          /\ loop[n] = "signed" /\ loop' = [loop EXCEPT ![n] = "waiting"]
          /\ lost' \in [RaftNodes -> BOOLEAN]
          /\ uncommitted' = Append(uncommitted, proposal[n]) \/ UNCHANGED uncommitted
      BY <1>4 DEF RaftApply, ToLoop, fsmVars, Types
    <2>2. CASE UNCHANGED uncommitted
      BY <2>1, <2>2, LoopMoves DEF Types
    <2>3. CASE uncommitted' = Append(uncommitted, proposal[n])
      <3>1. /\ uncommitted' \in Seq(Block) /\ Len(uncommitted') = Len(uncommitted) + 1
            /\ Len(uncommitted) \in Nat /\ uncommitted'[Len(uncommitted) + 1] = proposal[n]
            /\ \A i \in 1 .. Len(uncommitted) : uncommitted'[i] = uncommitted[i]
        BY <2>3 DEF Types
      <3>2. \A i \in 1 .. Len(uncommitted') :
               \/ uncommitted'[i] = proposal[n]
               \/ i \in 1 .. Len(uncommitted) /\ uncommitted'[i] = uncommitted[i]
        BY <3>1
      <3>3. Types'
        BY <2>1, <3>1 DEF Types
      <3>4. loop'[n] = "waiting" /\ \A k \in RaftNodes \ {n} : loop'[k] = loop[k]
        BY <2>1 DEF Types
      <3>5. LogIsRooted' /\ ChainIsLogged' /\ SeenIsSaved' /\ FirstIsSaved' /\ NothingFails'
        BY <2>1 DEF LogIsRooted, ChainIsLogged, SeenIsSaved, FirstIsSaved, NothingFails, NoGap
      <3>6. PendingIsRooted'
        BY <2>1, <3>2, <3>4 DEF PendingIsRooted
      <3>7. FirstIsBuiltOn'
        BY <2>1, <3>2, <3>4 DEF FirstIsBuiltOn, NoGap
      <3> QED BY <3>3, <3>5, <3>6, <3>7
    <2> QED BY <2>1, <2>2, <2>3
  <1> QED BY <1>1, <1>2, <1>3, <1>4 DEF RunStep

\* Every step keeps the invariant.
LEMMA RaftInvNext == RaftInv /\ [RaftNext]_raftVars => RaftInv'
  <1> SUFFICES ASSUME RaftInv, [RaftNext]_raftVars PROVE RaftInv'
    OBVIOUS
  <1>1. CASE RaftNext
    BY <1>1, RaftLibKeeps, ApplyKeeps, RunStepKeeps, CrashKeeps DEF RaftNext
  <1>2. CASE UNCHANGED raftVars
    <2>1. /\ UNCHANGED <<raftLog, uncommitted, leader, stale, applied, raftChain, stateAt, sending, applyErrors>>
          /\ UNCHANGED <<loop, proposal, made, lost, gap>>
      BY <1>2 DEF raftVars, raftLibVars, fsmVars, loopVars
    <2> QED BY <2>1 DEF RaftInv, Types, LogIsRooted, PendingIsRooted, ChainIsLogged, SeenIsSaved, FirstIsSaved,
                        FirstIsBuiltOn, NothingFails, NoGap
  <1> QED BY <1>1, <1>2

\* Whoever leads and however often, and whatever is lost, crashes or is given a
\* snapshot: nodes that saw the whole log have equal blocks at equal heights; and
\* while nobody was given a snapshot, no block Apply saves fails in ExecBlock.
THEOREM RaftChainsAgree == RaftSpec => []ChainsAgree
  <1>1. RaftInv => ChainsAgree
    <2> SUFFICES ASSUME RaftInv PROVE ChainsAgree
      OBVIOUS
    <2> USE DEF RaftInv
    <2>1. RaftTypeOK
      BY DEF RaftTypeOK, Types
    <2>2. ASSUME NEW n \in RaftNodes, NEW k \in RaftNodes, ~gap[n], ~gap[k],
                 NEW h \in DOMAIN raftChain[n] \cap DOMAIN raftChain[k]
          PROVE  raftChain[n][h] = raftChain[k][h]
      <3>1. h \in 1 .. Len(raftChain[n]) /\ h \in 1 .. Len(raftChain[k]) /\ h \in Nat
        BY DEF Types
      <3>2. FirstIs(raftLog, h, raftChain[n][h]) /\ FirstIs(raftLog, h, raftChain[k][h])
        BY <2>2, <3>1 DEF FirstIsSaved
      <3> QED BY <3>1, <3>2, FirstIsUnique DEF Types
    <2> QED BY <2>1, <2>2 DEF ChainsAgree, NothingFails, NoGap
  <1> QED BY <1>1, RaftInvInit, RaftInvNext, PTL DEF RaftSpec

=============================================================================
