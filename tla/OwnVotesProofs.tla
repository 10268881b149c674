--------------------------- MODULE OwnVotesProofs ---------------------------
(***************************************************************************)
(* For every number of steps, heights and faults: the signer's file keeps  *)
(* a validator from signing two values for one step, whatever it crashes   *)
(* between.  The signer is what the other guarantees of the node rest on,  *)
(* so the argument leaves the WAL out: it holds whatever was replayed.     *)
(***************************************************************************)
EXTENDS OwnVotes, TLAPS

\* The order of signBytesHRS: a is of an earlier height, or step of the height.
Before(a, b) == a.height < b.height \/ (a.height = b.height /\ a.step < b.step)

\* Where the heights of the process, of the signer and of the saved State stand.
HeightsAgree ==
    /\ vpc \in {"down", "syncing", "up", "saved"}
    /\ csHeight \in Nat \ {0} /\ savedHeight \in Nat /\ entered \in Nat
    /\ vpc = "up" => csHeight = savedHeight + 1
    /\ vpc = "saved" => csHeight = savedHeight

\* What the signer may hold.
SignerStates == [height : Nat, step : Nat, value : Values \cup {None}]

\* The signer, in memory and on disk, is at most one height ahead of the State.
SignerHeights ==
    /\ privVal \in SignerStates /\ privFile \in SignerStates
    /\ privVal.height <= savedHeight + 1 /\ privFile.height <= savedHeight + 1

\* As long as every save succeeded: a running process has the signer that is
\* on disk, and that is the last vote that was signed.
FileIsLast ==
    /\ unsaved \in BOOLEAN
    /\ signed \subseteq SignerStates
    /\ ~unsaved =>
          /\ vpc # "down" => privVal = privFile
          /\ \A v \in signed : v = privFile \/ Before(v, privFile)
          /\ \A a, b \in signed : a.height = b.height /\ a.step = b.step => a = b

SignerInv == HeightsAgree /\ SignerHeights /\ FileIsLast

\* A vote that does not regress, and is not the last one again, is after it.
LEMMA SignsForward ==
    ASSUME NEW vote \in SignerStates, privVal \in SignerStates,
           ~regresses(vote), vote # privVal
    PROVE  Before(privVal, vote)
  <1>1. /\ privVal.height \in Nat /\ vote.height \in Nat
        /\ privVal.step \in Nat /\ vote.step \in Nat
    BY DEF SignerStates
  <1>2. privVal.height = vote.height /\ privVal.step = vote.step => privVal.value = vote.value
    BY DEF regresses
  <1>3. ~(privVal.height = vote.height /\ privVal.step = vote.step)
    BY <1>2 DEF SignerStates
  <1>4. ~(privVal.height > vote.height) /\ ~(privVal.height = vote.height /\ privVal.step > vote.step)
    BY DEF regresses
  <1> QED BY <1>1, <1>3, <1>4 DEF Before

\* The order is transitive.
LEMMA BeforeIsTransitive ==
    ASSUME NEW a \in SignerStates, NEW b \in SignerStates, NEW c \in SignerStates,
           Before(a, b), Before(b, c)
    PROVE  Before(a, c)
  BY DEF Before, SignerStates

\* A node that has signed nothing satisfies the invariant.
LEMMA SignerInvInit == VoteInit => SignerInv
  <1> SUFFICES ASSUME VoteInit PROVE SignerInv
    OBVIOUS
  <1>1. HeightsAgree
    BY DEF VoteInit, HeightsAgree
  <1>2. SignerHeights
    BY DEF VoteInit, SignerHeights, SignerStates, Unsigned
  <1>3. FileIsLast
    <2>1. unsaved \in BOOLEAN
      BY Zenon DEF VoteInit
    <2> QED BY <2>1 DEF VoteInit, FileIsLast
  <1> QED BY <1>1, <1>2, <1>3 DEF SignerInv

\* Signing a vote that is after the last one, saved or not.
LEMMA SignAndSaveKeeps ==
    ASSUME SignerInv, vpc = "up", UNCHANGED <<vpc, csHeight, savedHeight>>, entered' \in Nat,
           NEW vote \in SignerStates, vote.height = csHeight,
           Before(privVal, vote), signAndSave(vote)
    PROVE  SignerInv'
  <1> USE DEF SignerInv
  <1>1. HeightsAgree'
    BY DEF HeightsAgree
  <1>2. SignerHeights'
    BY DEF SignerHeights, HeightsAgree, signAndSave
  <1>3. CASE privFile' = vote /\ UNCHANGED <<votesLeft, unsaved>>
    <2>1. signed' \subseteq SignerStates /\ unsaved' \in BOOLEAN
      BY <1>3 DEF FileIsLast, signAndSave
    <2> SUFFICES ASSUME ~unsaved'
                 PROVE  /\ privVal' = privFile'
                        /\ \A v \in signed' : v = privFile' \/ Before(v, privFile')
                        /\ \A a, b \in signed' : a.height = b.height /\ a.step = b.step => a = b
      BY <1>1, <1>2, <2>1 DEF FileIsLast
    <2>2. ~unsaved
      BY <1>3
    <2>3. privVal = privFile
      BY <2>2 DEF FileIsLast
    <2>4. \A v \in signed : Before(v, vote)
      <3> TAKE v \in signed
      <3>1. v = privVal \/ Before(v, privVal)
        BY <2>2, <2>3 DEF FileIsLast
      <3>2. v \in SignerStates /\ privVal \in SignerStates
        BY DEF FileIsLast, SignerHeights
      <3> QED BY <3>1, <3>2, BeforeIsTransitive
    <2>5. \A v \in signed : ~(v.height = vote.height /\ v.step = vote.step)
      BY <2>4 DEF Before, SignerStates, FileIsLast
    <2>6. \A a, b \in signed : a.height = b.height /\ a.step = b.step => a = b
      BY <2>2 DEF FileIsLast
    <2>7. signed' = signed \cup {vote} /\ privVal' = vote
      BY DEF signAndSave
    <2>8. \A a, b \in signed' : a.height = b.height /\ a.step = b.step => a = b
      BY <2>5, <2>6, <2>7
    <2> QED BY <1>3, <2>4, <2>7, <2>8
  <1>4. CASE unsaved'
    BY <1>1, <1>2, <1>4 DEF FileIsLast, signAndSave
  <1> QED BY <1>1, <1>2, <1>3, <1>4 DEF signAndSave

\* Every step of the node keeps the invariant.
LEMMA SignerInvNext == SignerInv /\ [VoteNext]_voteVars => SignerInv'
  <1> SUFFICES ASSUME SignerInv, [VoteNext]_voteVars PROVE SignerInv'
    OBVIOUS
  <1> USE DEF SignerInv
  <1>1. CASE SignVote
    <2>1. PICK step \in entered + 1 .. LastStep, value \in Values :
             LET vote == [height |-> csHeight, step |-> step, value |-> value]
             IN  /\ vpc = "up"
                 /\ entered' = step
                 /\ \/ UNCHANGED <<privVal, privFile, signed, unsaved>>
                    \/ ~regresses(vote) /\ vote # privVal /\ signAndSave(vote)
                 /\ UNCHANGED <<vpc, csHeight, savedHeight>>
      BY <1>1 DEF SignVote
    <2> DEFINE vote == [height |-> csHeight, step |-> step, value |-> value]
    <2>2. step \in Nat /\ csHeight \in Nat
      BY OwnVotesAssumption DEF HeightsAgree
    <2>3. vote \in SignerStates /\ vote.height = csHeight
      BY <2>2 DEF SignerStates
    <2>4. CASE UNCHANGED <<privVal, privFile, signed, unsaved>>
      BY <2>1, <2>2, <2>4 DEF HeightsAgree, SignerHeights, FileIsLast, Before
    <2>5. CASE ~regresses(vote) /\ vote # privVal /\ signAndSave(vote)
      <3> HIDE DEF vote
      <3>1. Before(privVal, vote)
        BY <2>3, <2>5, SignsForward DEF SignerHeights
      <3> QED BY <2>1, <2>2, <2>3, <2>5, <3>1, SignAndSaveKeeps
    <2> QED BY <2>1, <2>4, <2>5
  <1>2. CASE LogOwnVote
    BY <1>2 DEF LogOwnVote, auxVotes, HeightsAgree, SignerHeights, FileIsLast, Before
  <1>3. CASE HandleOwnVote
    BY <1>3 DEF HandleOwnVote, HeightsAgree, SignerHeights, FileIsLast, Before
  <1>4. CASE FinalizeCommit
    BY <1>4 DEF FinalizeCommit, memVars, auxVotes, HeightsAgree, SignerHeights, SignerStates, FileIsLast, Before
  <1>5. CASE UpdateToState
    BY <1>5 DEF UpdateToState, HeightsAgree, SignerHeights, FileIsLast, Before
  <1>6. CASE RotateFile
    BY <1>6 DEF RotateFile, memVars, HeightsAgree, SignerHeights, FileIsLast, Before
  <1>7. CASE CrashVoter
    <2>1. HeightsAgree' /\ SignerHeights'
      BY <1>7 DEF CrashVoter, auxVotes, HeightsAgree, SignerHeights, SignerStates, Unsigned
    <2>2. FileIsLast'
      BY <1>7 DEF CrashVoter, auxVotes, FileIsLast, Before
    <2> QED BY <2>1, <2>2
  <1>8. CASE SyncBlock
    BY <1>8 DEF SyncBlock, memVars, auxVotes, HeightsAgree, SignerHeights, SignerStates,
                FileIsLast, Before
  <1>9. CASE SwitchVoter
    BY <1>9 DEF SwitchVoter, OnStart, auxVotes, HeightsAgree, SignerHeights, FileIsLast, Before
  <1>10. ASSUME NEW fastSync \in BOOLEAN, StartVoter(fastSync) PROVE SignerInv'
    <2>1. /\ vpc = "down" /\ privVal' = privFile
          /\ UNCHANGED <<entered, privFile, savedHeight, signed, unsaved>>
      BY <1>10 DEF StartVoter, auxVotes
    <2>2. \/ vpc' = "syncing" /\ csHeight' = csHeight
          \/ vpc' = "up" /\ csHeight' = savedHeight + 1
      BY <1>10 DEF StartVoter, OnStart
    <2> QED BY <2>1, <2>2 DEF HeightsAgree, SignerHeights, FileIsLast, Before
  <1>11. CASE UNCHANGED voteVars
    BY <1>11 DEF voteVars, HeightsAgree, SignerHeights, FileIsLast, Before
  <1> QED
    BY <1>1, <1>2, <1>3, <1>4, <1>5, <1>6, <1>7, <1>8, <1>9, <1>10, <1>11 DEF VoteNext

\* Whatever the number of crashes, rotations of the WAL and failing saves, and
\* wherever they fall, a validator signs one value for a step as long as every
\* save of signBytesHRS succeeded, and its file is never ahead of the height
\* the node restarts in.
THEOREM SignerIsSafe == VoteSpec => []NeverSignsTwice
  <1>1. SignerInv => NeverSignsTwice
    BY DEF SignerInv, SignerHeights, FileIsLast, NeverSignsTwice
  <1> QED BY <1>1, SignerInvInit, SignerInvNext, PTL DEF VoteSpec

=============================================================================
