------------------------------ MODULE OwnVotes ------------------------------
(***************************************************************************)
(* A validator's own votes across crashes: the signer and its file         *)
(* (types/priv_validator.go), the internal queue and receiveRoutine        *)
(* (consensus/pbft/state.go), the consensus WAL (consensus/pbft/wal.go) on *)
(* its group of files (go-autofile/group.go), and catchupReplay            *)
(* (consensus/pbft/replay.go).                                             *)
(*                                                                         *)
(* A vote is [height, step, value]; a step stands for a round and a type,  *)
(* in the order of the signer.  Of the WAL the model keeps the markers and *)
(* the node's own votes: the lines that matter after a restart, also in    *)
(* light mode.  What the other messages do to the size of the head file is *)
(* that it may be rotated at any time.                                     *)
(***************************************************************************)
EXTENDS Absent, Integers, Sequences, FiniteSets, FiniteSetsExt, SequencesExt

CONSTANTS Values,      \* what can be voted for
          LastStep,    \* bound: steps of a height are 1 .. LastStep
          LastHeight,  \* bound: the node stops at this height
          VoteFaults   \* bounds: sets of records [crashes, rotations, saveErrors]

ASSUME OwnVotesAssumption == LastStep \in Nat \ {0} /\ LastHeight \in Nat \ {0}

VARIABLES
    vpc,          \* "down", "syncing", "up", or "saved" between State.Save and newStep
    csHeight,     \* cs.Height
    entered,      \* the last step this process has entered in csHeight
    privVal,      \* the signer in memory: [height, step, value]
    privFile,     \* the signer's file
    queue,        \* internalMsgQueue
    handling,     \* the message that is in the WAL and not handled yet, or None
    ownVotes,     \* the node's own votes in cs.Votes
    wal,          \* the group of files, the head last
    savedHeight,  \* LastBlockHeight of the saved State
    votesLeft,    \* what is left of the bounds on faults
    signed,       \* every vote the signer has ever signed
    seen,         \* the votes of this height peers may have received
    rotatedAt,    \* the heights in which the WAL was rotated
    unsaved       \* whether a write of the signer's file ever failed

voteVars == <<vpc, csHeight, entered, privVal, privFile, queue, handling, ownVotes, wal,
              savedHeight, votesLeft, signed, seen, rotatedAt, unsaved>>
memVars  == <<csHeight, entered, privVal, queue, handling, ownVotes>>
auxVotes == <<signed, seen, rotatedAt, unsaved>>

Unsigned == [height |-> 0, step |-> 0, value |-> None]
SignableVotes == [height : 1 .. LastHeight, step : 1 .. LastStep, value : Values]

\* A line of the WAL: the marker of a height, or a vote.
Marker(h)      == [marker |-> h, vote |-> None]
VoteLine(vote) == [marker |-> None, vote |-> vote]
Logged(files, line) == [files EXCEPT ![Len(files)] = Append(@, line)]

VoteInit ==
    /\ vpc = "down" /\ csHeight = 1 /\ entered = 0 /\ privVal = Unsigned /\ privFile = Unsigned
    /\ queue = <<>> /\ handling = None /\ ownVotes = {} /\ wal = << <<>> >>
    /\ savedHeight = 0 /\ votesLeft \in VoteFaults
    /\ signed = {} /\ seen = {} /\ rotatedAt = {} /\ unsaved = FALSE

-----------------------------------------------------------------------------
(* Group.Search.                                                           *)

IsMarker(line) == line.marker # None

\* scanNext from the start of file i: the first marker there or in a later
\* file, as [file, height], or None at the end of the group.
scanNext(files, i) ==
    LET with == {j \in i .. Len(files) : \E k \in DOMAIN files[j] : IsMarker(files[j][k])}
    IN  IF with = {} THEN None
        ELSE LET j == Min(with)
             IN  [file |-> j, height |-> SelectSeq(files[j], IsMarker)[1].marker]

\* scanUntil from the start of file i: the lines after the first marker of
\* height h or above, and whether it is of h; None at the end of the group.
scanUntil(files, i, h) ==
    LET lines == FlattenSeq(SubSeq(files, i, Len(files)))
        hits  == {k \in DOMAIN lines : IsMarker(lines[k]) /\ lines[k].marker >= h}
    IN  IF hits = {} THEN None
        ELSE [found |-> lines[Min(hits)].marker = h,
              rest  |-> SubSeq(lines, Min(hits) + 1, Len(lines))]

\* Group.Search: the binary search between the files lo and hi.
Search(files, h) ==
    LET n == Len(files)
        in[lo \in 1 .. n, hi \in 1 .. n] ==
            LET cur == (lo + hi + 1) \div 2
                hit == scanNext(files, cur)
            IN  IF lo = hi THEN scanUntil(files, hi, h)
                ELSE IF hit = None THEN None
                ELSE IF hit.height < h THEN in[hit.file, hi]
                ELSE IF hit.height = h THEN scanUntil(files, hit.file, h)
                ELSE in[lo, cur - 1]
    IN  in[1, n]

Found(files, h) == Search(files, h) # None /\ Search(files, h).found

-----------------------------------------------------------------------------
(* Signing.                                                                *)

\* The regression check of signBytesHRS.
regresses(vote) ==
    \/ privVal.height > vote.height
    \/ privVal.height = vote.height /\ privVal.step > vote.step
    \/ privVal.height = vote.height /\ privVal.step = vote.step /\ privVal.value # vote.value

\* A mistake: the signer's file is written only when the process stops.
BugSaveLater(vote) ==
    /\ privVal' = vote /\ signed' = signed \cup {vote}
    /\ UNCHANGED <<privFile, votesLeft, unsaved>>

\* The end of signBytesHRS: sign, remember, save; an error of save is ignored.
signAndSave(vote) ==
    /\ privVal' = vote
    /\ signed' = signed \cup {vote}
    /\ \/ privFile' = vote /\ UNCHANGED <<votesLeft, unsaved>>
       \/ /\ votesLeft.saveErrors > 0
          /\ votesLeft' = [votesLeft EXCEPT !.saveErrors = @ - 1]
          /\ unsaved' = TRUE /\ UNCHANGED privFile

\* signAddVote at a step the node enters: it may want to vote for anything.
\* The same vote again gets the old signature.
SignVote ==
    \E step \in entered + 1 .. LastStep, value \in Values :
        LET vote == [height |-> csHeight, step |-> step, value |-> value]
        IN  /\ vpc = "up" /\ csHeight <= LastHeight /\ handling = None
            /\ entered' = step
            /\ IF regresses(vote) THEN UNCHANGED <<queue, privVal, privFile, signed, votesLeft, unsaved>>
               ELSE /\ queue' = Append(queue, vote)
                    /\ IF vote = privVal THEN UNCHANGED <<privVal, privFile, signed, votesLeft, unsaved>>
                                         ELSE signAndSave(vote)
            /\ UNCHANGED <<vpc, csHeight, handling, ownVotes, wal, savedHeight, seen, rotatedAt>>

\* A mistake: light mode leaves out the node's own messages.
BugLightDropsOwn ==
    /\ vpc = "up" /\ handling = None /\ queue # <<>>
    /\ handling' = Head(queue) /\ queue' = Tail(queue)
    /\ UNCHANGED <<vpc, csHeight, entered, privVal, privFile, ownVotes, wal, savedHeight, votesLeft, auxVotes>>

\* receiveRoutine takes a message of the node itself: first WAL.Save, ...
LogOwnVote ==
    /\ vpc = "up" /\ handling = None /\ queue # <<>>
    /\ wal' = Logged(wal, VoteLine(Head(queue)))
    /\ handling' = Head(queue) /\ queue' = Tail(queue)
    /\ UNCHANGED <<vpc, csHeight, entered, privVal, privFile, ownVotes, savedHeight, votesLeft, auxVotes>>

\* ... then handleMsg: a vote of this height is added, and peers get it.
HandleOwnVote ==
    LET mine == IF handling.height = csHeight THEN {handling} ELSE {}
    IN  /\ vpc = "up" /\ handling # None
        /\ ownVotes' = ownVotes \cup mine /\ seen' = seen \cup mine
        /\ handling' = None
        /\ UNCHANGED <<vpc, csHeight, entered, privVal, privFile, queue, wal, savedHeight, votesLeft,
                       signed, rotatedAt, unsaved>>

-----------------------------------------------------------------------------
(* Heights and files.                                                      *)

\* finalizeCommit up to State.Save, ...
FinalizeCommit ==
    /\ vpc = "up" /\ handling = None /\ csHeight <= LastHeight
    /\ savedHeight' = csHeight
    /\ vpc' = "saved"
    /\ UNCHANGED <<memVars, privFile, wal, votesLeft, auxVotes>>

\* ... and updateToState, whose newStep writes the marker of the new height.
UpdateToState ==
    /\ vpc = "saved"
    /\ csHeight' = csHeight + 1 /\ entered' = 0 /\ ownVotes' = {} /\ seen' = {}
    /\ wal' = Logged(wal, Marker(csHeight + 1))
    /\ vpc' = "up"
    /\ UNCHANGED <<privVal, privFile, queue, handling, savedHeight, votesLeft, signed, rotatedAt, unsaved>>

\* processTicks finds the head file over its limit: RotateFile.
RotateFile ==
    /\ vpc # "down" /\ votesLeft.rotations > 0 /\ Last(wal) # <<>>
    /\ wal' = Append(wal, <<>>)
    /\ rotatedAt' = rotatedAt \cup {savedHeight + 1}
    /\ votesLeft' = [votesLeft EXCEPT !.rotations = @ - 1]
    /\ UNCHANGED <<vpc, memVars, privFile, savedHeight, signed, seen, unsaved>>

\* The process dies: what is in memory is gone.
CrashVoter ==
    /\ vpc # "down" /\ votesLeft.crashes > 0
    /\ vpc' = "down" /\ queue' = <<>> /\ handling' = None /\ ownVotes' = {} /\ entered' = 0
    /\ privVal' = Unsigned /\ csHeight' = savedHeight + 1
    /\ votesLeft' = [votesLeft EXCEPT !.crashes = @ - 1]
    /\ UNCHANGED <<privFile, wal, savedHeight, auxVotes>>

-----------------------------------------------------------------------------
(* Starting.                                                               *)

\* WAL.OnStart: an empty head file is given the marker of height 1.
Opened(files) == IF Last(files) = <<>> THEN Logged(files, Marker(1)) ELSE files

\* The first part of ConsensusState.OnStart: the marker is written if missing.
Marked(files, h) == IF Found(files, h) THEN files ELSE Logged(files, Marker(h))

\* catchupReplay: the votes of the WAL after the marker of h.  It gives up
\* when the WAL has the marker of h + 1 or lacks that of h.
Replayed(files, h) ==
    IF Found(files, h + 1) \/ ~Found(files, h) THEN {}
    ELSE {vote \in SignableVotes : vote.height = h /\ Contains(Search(files, h).rest, VoteLine(vote))}

\* ConsensusState.OnStart on the files the caller has opened or marked.
OnStart(files, h) ==
    /\ wal' = Marked(files, h)
    /\ ownVotes' = Replayed(Marked(files, h), h)
    /\ csHeight' = h /\ vpc' = "up"

\* The node starts: LoadPrivValidator and NewWAL; with fast sync the consensus
\* state is not started yet.
StartVoter(fastSync) ==
    /\ vpc = "down"
    /\ privVal' = privFile
    /\ IF fastSync THEN vpc' = "syncing" /\ wal' = Opened(wal) /\ UNCHANGED <<ownVotes, csHeight>>
                   ELSE OnStart(Opened(wal), savedHeight + 1)
    /\ UNCHANGED <<entered, privFile, queue, handling, savedHeight, votesLeft, auxVotes>>

\* Fast sync executes a block: State.Save without a word to the WAL.
SyncBlock ==
    /\ vpc = "syncing" /\ savedHeight < LastHeight
    /\ savedHeight' = savedHeight + 1
    /\ UNCHANGED <<vpc, memVars, privFile, wal, votesLeft, auxVotes>>

\* ConsensusReactor.SwitchToConsensus: newStep writes a marker, then OnStart.
SwitchVoter ==
    /\ vpc = "syncing"
    /\ OnStart(Logged(wal, Marker(savedHeight + 1)), savedHeight + 1)
    /\ UNCHANGED <<entered, privVal, privFile, queue, handling, savedHeight, votesLeft, auxVotes>>

VoteNext ==
    \/ SignVote \/ LogOwnVote \/ HandleOwnVote \/ FinalizeCommit \/ UpdateToState
    \/ RotateFile \/ CrashVoter \/ SyncBlock \/ SwitchVoter
    \/ \E fastSync \in BOOLEAN : StartVoter(fastSync)

VoteSpec == VoteInit /\ [][VoteNext]_voteVars

-----------------------------------------------------------------------------
\* The variables have the types of the code.
VoteTypeOK ==
    /\ vpc \in {"down", "syncing", "up", "saved"}
    /\ csHeight \in 1 .. LastHeight + 1 /\ savedHeight \in 0 .. LastHeight
    /\ {privVal, privFile} \subseteq SignableVotes \cup {Unsigned}
    /\ ToSet(queue) \subseteq SignableVotes /\ ownVotes \subseteq SignableVotes
    /\ \A i \in DOMAIN wal : \A k \in DOMAIN wal[i] :
          wal[i][k].marker \in 1 .. LastHeight + 1 \/ wal[i][k].vote \in SignableVotes

\* Across crashes at any point the signer never signs two values for one step,
\* as long as its file could be written: signBytesHRS ignores an error of save.
\* A node that restarts is never below the height of its signer, so that
\* "Height regression" is an answer it does not get.
NeverSignsTwice ==
    /\ unsaved \/ \A a, b \in signed : a.height = b.height /\ a.step = b.step => a = b
    /\ privFile.height <= savedHeight + 1

\* What peers have received from the node in this height the node itself knows,
\* also after a crash: every message is in the WAL before it is handled, and
\* OnStart replays it, because the WAL has the marker of its height and not that
\* of the next one, unless the file was rotated in this height.
ReplayRestoresVotes ==
    /\ VoteTypeOK
    /\ vpc = "up" /\ csHeight \notin rotatedAt =>
          /\ \A vote \in seen : vote.height = csHeight => vote \in ownVotes
          /\ Found(wal, csHeight) /\ ~Found(wal, csHeight + 1)

=============================================================================
