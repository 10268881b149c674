----------------------------- MODULE Connection -----------------------------
(***************************************************************************)
(* gemmill/p2p/connection.go: the two ends of an MConnection.  Each end    *)
(* has a send routine and a receive routine; a third routine, the caller,  *)
(* is a reactor that sends, or that stops the connection.  The routines    *)
(* meet on unbuffered channels: pong, and the Ch of the two RepeatTimers,  *)
(* whose fireRoutine keeps a tick until the send routine takes it.  A      *)
(* message is a number and a size in packets; the bytes between the ends   *)
(* are packets in a bounded wire, behind the bounded buffer of bufWriter.  *)
(***************************************************************************)
EXTENDS Integers, SequencesExt, Absent

CONSTANTS Channels,       \* 1..n, in the order of MConnection.channels
          Priority,       \* the channels' priorities
          BatchPackets,   \* numBatchMsgPackets
          RecvCapacity,   \* RecvMessageCapacity, in packets
          ConnCases       \* what is sent, which ticks and which fault may happen

VARIABLES conn,       \* the MConnection of each end
          wire,       \* what an end wrote and the other did not read
          closed,     \* the ends that closed their net.Conn
          broken,     \* the network has failed
          todo,       \* what an end has yet to send, and its ticks and fault
          accepted,   \* history: what Send queued at an end
          received    \* history: what onReceive was given at an end

connVars == <<conn, wire, closed, broken, todo, accepted, received>>

ConnEnds == {"a", "b"}
Far(e) == CHOOSE o \in ConnEnds : o # e

\* The packets of the n-th message of a channel, of that many packets.
Pieces(n, size) == [k \in 1..size |-> <<n, k>>]

-----------------------------------------------------------------------------
(* The state of an end and the services it runs.                           *)

NewConn ==
    [stopped |-> FALSE, errors |-> 0, errored |-> FALSE, quit |-> FALSE,
     wake |-> FALSE, ping |-> "waiting", stats |-> "waiting", flushSet |-> FALSE,
     queue |-> [ch \in Channels |-> <<>>], sending |-> [ch \in Channels |-> <<>>],
     recving |-> [ch \in Channels |-> <<>>], recent |-> [ch \in Channels |-> 0],
     buf |-> <<>>, sticky |-> "no", err |-> "no", batch |-> 0, held |-> <<>>,
     pc |-> [r \in {"send", "recv", "caller"} |->
               CASE r = "send" -> "select" [] r = "recv" -> "read" [] OTHER -> "idle"],
     inCall |-> FALSE, panicked |-> FALSE]

Runs(c) == ~c.stopped
AtPc(c, r, l) == c.pc[r] = l
Goto(c, r, l) == [c EXCEPT !.pc[r] = l]

\* onError, for the first error only.
ReportError(c, r) ==
    [Goto(c, r, "done") EXCEPT !.errored = TRUE, !.errors = IF c.errored THEN @ ELSE @ + 1]

\* Stop: the first call goes on with OnStop.
Stop(c, r) == [Goto(c, r, "stop ping") EXCEPT !.stopped = TRUE, !.flushSet = FALSE]
stopForError(c, r) == IF c.stopped THEN ReportError(c, r) ELSE Stop(c, r)

\* The end of an iteration of sendRoutine; after "connection reset by peer" the
\* routine only sleeps.
EndOfCase(c) ==
    CASE c.stopped -> Goto(c, "send", "done")
      [] ~c.stopped /\ c.err = "fail" -> stopForError(c, "send")
      [] OTHER -> [Goto(c, "send", "select") EXCEPT !.err = "no"]

SetConn(e, c) == conn' = [conn EXCEPT ![e] = c]
Rest == UNCHANGED <<wire, closed, broken, todo, accepted, received>>

-----------------------------------------------------------------------------
(* Callers.                                                                *)

\* Send and TrySend: queue the message, then wake the send routine.  A full
\* queue refuses (TrySend) or waits until it times out (Send).
Send(e, ch) ==
    LET c == conn[e] IN
    /\ AtPc(c, "caller", "idle") /\ Runs(c) /\ todo[e].msgs[ch] # <<>>
    /\ Len(c.queue[ch]) < todo[e].queue
    /\ LET n == Len(accepted[e][ch]) + 1
           p == Pieces(n, Head(todo[e].msgs[ch])) IN
       /\ SetConn(e, [Goto(c, "caller", "queued") EXCEPT !.queue[ch] = Append(@, p)])
       /\ accepted' = [accepted EXCEPT ![e][ch] = Append(@, p)]
    /\ todo' = [todo EXCEPT ![e].msgs[ch] = Tail(@)]
    /\ UNCHANGED <<wire, closed, broken, received>>

WakeSender(e) ==
    /\ AtPc(conn[e], "caller", "queued")
    /\ SetConn(e, [Goto(conn[e], "caller", "idle") EXCEPT !.wake = TRUE]) /\ Rest

\* StopPeerForError or StopPeerGracefully from a routine of a reactor.
CallStop(e) ==
    /\ todo[e].fault = "stop" /\ AtPc(conn[e], "caller", "idle") /\ Runs(conn[e])
    /\ SetConn(e, Stop(conn[e], "caller"))
    /\ todo' = [todo EXCEPT ![e].fault = "none"]
    /\ UNCHANGED <<wire, closed, broken, accepted, received>>

-----------------------------------------------------------------------------
(* OnStop, in whichever routine called Stop first.  RepeatTimer.Stop waits *)
(* for fireRoutine to see quit, which it does only when it holds no tick.  *)

StopPingTimer(e, r) ==
    /\ AtPc(conn[e], r, "stop ping") /\ conn[e].ping # "firing"
    /\ SetConn(e, [Goto(conn[e], r, "stop stats") EXCEPT !.ping = "stopped"]) /\ Rest

StopStatsTimer(e, r) ==
    /\ AtPc(conn[e], r, "stop stats") /\ conn[e].stats # "firing"
    /\ SetConn(e, [Goto(conn[e], r, "close") EXCEPT !.stats = "stopped"]) /\ Rest

\* close(quit), conn.Close; then the callback of stopForError, or the return to
\* the reactor that called Stop, which for a Receive is the receive routine.
CloseConn(e, r) ==
    /\ AtPc(conn[e], r, "close")
    /\ LET c == [conn[e] EXCEPT !.quit = TRUE] IN
       SetConn(e, CASE r = "caller" -> Goto(c, r, "done")
                    [] r = "recv" /\ c.inCall -> Goto([c EXCEPT !.inCall = FALSE], r, "reset")
                    [] OTHER -> ReportError(c, r))
    /\ closed' = closed \cup {e}
    /\ UNCHANGED <<wire, broken, todo, accepted, received>>

\* fireRoutine of a RepeatTimer takes a tick of its ticker.
PingTick(e) ==
    /\ conn[e].ping = "waiting" /\ todo[e].pings > 0
    /\ SetConn(e, [conn[e] EXCEPT !.ping = "firing"])
    /\ todo' = [todo EXCEPT ![e].pings = @ - 1]
    /\ UNCHANGED <<wire, closed, broken, accepted, received>>

StatsTick(e) ==
    /\ conn[e].stats = "waiting" /\ todo[e].stats > 0
    /\ SetConn(e, [conn[e] EXCEPT !.stats = "firing"])
    /\ todo' = [todo EXCEPT ![e].stats = @ - 1]
    /\ UNCHANGED <<wire, closed, broken, accepted, received>>

-----------------------------------------------------------------------------
(* sendRoutine.                                                            *)

AtSelect(e) == AtPc(conn[e], "send", "select")

\* A byte written to bufWriter, and the flush after it; bufWriter keeps the
\* error of an earlier flush.
WriteByte(c, type) ==
    [Goto(c, "send", "flush") EXCEPT !.err = c.sticky, !.buf = IF c.sticky # "no" THEN @ ELSE Append(@, [type |-> type])]

SelectFlush(e) ==
    /\ AtSelect(e) /\ conn[e].flushSet
    /\ SetConn(e, [Goto(conn[e], "send", "flush") EXCEPT !.flushSet = FALSE]) /\ Rest

\* updateStats: recentlySent decays by a fifth.
SelectStats(e) ==
    /\ AtSelect(e) /\ conn[e].stats = "firing"
    /\ SetConn(e, EndOfCase([conn[e] EXCEPT !.stats = "waiting",
                               !.recent = [ch \in Channels |-> (8 * @[ch]) \div 10]]))
    /\ Rest

SelectPing(e) ==
    /\ AtSelect(e) /\ conn[e].ping = "firing"
    /\ SetConn(e, WriteByte([conn[e] EXCEPT !.ping = "waiting"], "ping")) /\ Rest

\* The receive routine hands over on the unbuffered channel pong, which it closes
\* when it ends, unless by a panic.
SelectPong(e) ==
    /\ AtSelect(e)
    /\ \/ /\ AtPc(conn[e], "recv", "pong")
          /\ SetConn(e, WriteByte(Goto(conn[e], "recv", "reset"), "pong"))
       \/ /\ AtPc(conn[e], "recv", "done") /\ ~conn[e].panicked
          /\ SetConn(e, WriteByte(conn[e], "pong"))
    /\ Rest

SelectQuit(e) ==
    /\ AtSelect(e) /\ conn[e].quit
    /\ SetConn(e, Goto(conn[e], "send", "done")) /\ Rest

SelectSend(e) ==
    /\ AtSelect(e) /\ conn[e].wake
    /\ SetConn(e, [Goto(conn[e], "send", "packets") EXCEPT !.wake = FALSE, !.batch = 0]) /\ Rest

\* isSendPending: the next message of the queue becomes the one being sent.
Taken(c) ==
    LET takes(ch) == c.sending[ch] = <<>> /\ c.queue[ch] # <<>> IN
    [c EXCEPT !.sending = [ch \in Channels |-> IF takes(ch) THEN Head(c.queue[ch]) ELSE @[ch]],
              !.queue = [ch \in Channels |-> IF takes(ch) THEN Tail(@[ch]) ELSE @[ch]]]

\* The pending channel of the least recentlySent/priority, the first of equals.
LeastChannel(c) ==
    LET Pending == {ch \in Channels : c.sending[ch] # <<>>}
        Less(x, y) == \/ c.recent[x] * Priority[y] < c.recent[y] * Priority[x]
                      \/ c.recent[x] * Priority[y] = c.recent[y] * Priority[x] /\ x < y
    IN IF Pending = {} THEN None ELSE CHOOSE x \in Pending : \A y \in Pending \ {x} : Less(x, y)

nextMsgPacket(c, ch) ==
    [type |-> "msg", ch |-> ch, piece |-> Head(c.sending[ch]), eof |-> Len(c.sending[ch]) = 1]

\* sendSomeMsgPackets has no more to send, or has sent its share and keeps the
\* routine awake.
Exhausted(c) == EndOfCase(c)
BugSleepsAfterBatch(c) == EndOfCase(c)
KeepAwake(c) == EndOfCase([c EXCEPT !.wake = TRUE])

\* The packet is in the buffer: flushTimer.Set, and the next of the batch.
Buffered(c, p) ==
    LET d == [c EXCEPT !.buf = Append(@, p), !.recent[p.ch] = @ + 1, !.flushSet = ~c.stopped, !.batch = @ + 1]
    IN IF d.batch < BatchPackets THEN Goto(d, "send", "packets") ELSE KeepAwake(d)

\* sendMsgPacket; a full buffer is written out before the packet fits.
SendMsgPacket(e) ==
    /\ AtPc(conn[e], "send", "packets")
    /\ LET c == Taken(conn[e])
           ch == LeastChannel(c)
           sent == [c EXCEPT !.sending[ch] = Tail(@)] IN
       SetConn(e, CASE ch = None -> Exhausted(c)
                    [] ch # None /\ c.sticky # "no" -> stopForError(sent, "send")
                    [] ch # None /\ c.sticky = "no" /\ Len(c.buf) < todo[e].buf -> Buffered(sent, nextMsgPacket(c, ch))
                    [] OTHER -> [Goto(sent, "send", "full") EXCEPT !.held = <<nextMsgPacket(c, ch)>>])
    /\ Rest

\* Reads and writes of the net.Conn may fail once an end closed it or the network
\* failed; a read may still find what was written before.
ConnFails == closed # {} \/ broken

\* Writing the buffer to the net.Conn waits for room in the wire.
WriteOut(e) ==
    /\ conn[e].pc["send"] \in {"flush", "full"} /\ conn[e].buf # <<>>
    /\ conn[e].sticky = "no" /\ ~ConnFails
    /\ Len(wire[e]) < todo[e].wire
    /\ wire' = [wire EXCEPT ![e] = Append(@, Head(conn[e].buf))]
    /\ SetConn(e, [conn[e] EXCEPT !.buf = Tail(@)])
    /\ UNCHANGED <<closed, broken, todo, accepted, received>>

\* The write is over, or fails; flush only logs an error, which the next write
\* meets.
WroteOut(e) ==
    /\ conn[e].pc["send"] \in {"flush", "full"}
    /\ conn[e].buf = <<>> \/ conn[e].sticky # "no" \/ ConnFails
    /\ \E how \in {"reset", "fail"} :
          LET c == IF conn[e].buf # <<>> /\ conn[e].sticky = "no" THEN [conn[e] EXCEPT !.sticky = how] ELSE conn[e]
              after == [c EXCEPT !.held = <<>>] IN
          SetConn(e, CASE AtPc(c, "send", "flush") -> EndOfCase(c)
                       [] AtPc(c, "send", "full") /\ c.sticky # "no" -> stopForError(after, "send")
                       [] OTHER -> Buffered(after, Head(c.held)))
    /\ Rest

-----------------------------------------------------------------------------
(* recvRoutine.                                                            *)

\* The loop ends, with stopForError if the connection runs.
RecvFails(c) == IF Runs(c) THEN stopForError(c, "recv") ELSE Goto(c, "recv", "done")

ReadFails(e) ==
    /\ AtPc(conn[e], "recv", "read") /\ ConnFails
    /\ SetConn(e, RecvFails(conn[e])) /\ Rest

\* A ping waits to hand over to the send routine; a pong is dropped.
ReadPingPong(e) ==
    /\ AtPc(conn[e], "recv", "read") /\ e \notin closed /\ wire[Far(e)] # <<>>
    /\ Head(wire[Far(e)]).type # "msg"
    /\ SetConn(e, Goto(conn[e], "recv", IF Head(wire[Far(e)]).type = "ping" THEN "pong" ELSE "reset"))
    /\ wire' = [wire EXCEPT ![Far(e)] = Tail(@)]
    /\ UNCHANGED <<closed, broken, todo, accepted, received>>

\* recvMsgPacket: the message so far, if it fits.
Appended(c, p) == [c EXCEPT !.recving[p.ch] = Append(@, p.piece)]
BugKeepsRecving(c, p) == c
Cleared(c, p) == [c EXCEPT !.recving[p.ch] = <<>>]

\* A whole message goes to onReceive, whose reactor may panic, which stopForError
\* recovers, or may call StopPeerForError.
AfterReceive(e, c) ==
    CASE todo[e].fault = "panic" -> stopForError([c EXCEPT !.panicked = TRUE], "recv")
      [] todo[e].fault = "refuse" /\ Runs(c) -> [Stop(c, "recv") EXCEPT !.inCall = TRUE]
      [] OTHER -> Goto(c, "recv", "reset")

ReadMsg(e) ==
    /\ AtPc(conn[e], "recv", "read") /\ e \notin closed /\ wire[Far(e)] # <<>>
    /\ LET p == Head(wire[Far(e)])
           c == Appended(conn[e], p)
           whole == p.eof /\ Len(c.recving[p.ch]) <= RecvCapacity IN
       /\ p.type = "msg"
       /\ wire' = [wire EXCEPT ![Far(e)] = Tail(@)]
       /\ SetConn(e, CASE Len(c.recving[p.ch]) > RecvCapacity -> RecvFails(conn[e])
                       [] whole -> AfterReceive(e, Cleared(c, p))
                       [] OTHER -> Goto(c, "recv", "reset"))
       /\ received' = IF whole THEN [received EXCEPT ![e][p.ch] = Append(@, c.recving[p.ch])] ELSE received
    /\ UNCHANGED <<closed, broken, todo, accepted>>

\* pingTimer.Reset: stop the timer as OnStop does, then start it again, even of a
\* connection that has stopped meanwhile.
ResetStops(e) ==
    /\ AtPc(conn[e], "recv", "reset") /\ conn[e].ping # "firing"
    /\ SetConn(e, [Goto(conn[e], "recv", "restart") EXCEPT !.ping = "stopped"]) /\ Rest

ResetStarts(e) ==
    /\ AtPc(conn[e], "recv", "restart")
    /\ SetConn(e, [Goto(conn[e], "recv", "read") EXCEPT !.ping = "waiting"]) /\ Rest

-----------------------------------------------------------------------------
NetworkFails ==
    /\ \E e \in ConnEnds : todo[e].fault = "network"
    /\ ~broken /\ broken' = TRUE
    /\ UNCHANGED <<conn, wire, closed, todo, accepted, received>>

ConnInit ==
    /\ conn = [e \in ConnEnds |-> NewConn]
    /\ wire = [e \in ConnEnds |-> <<>>]
    /\ closed = {} /\ broken = FALSE
    /\ todo \in ConnCases
    /\ accepted = [e \in ConnEnds |-> [ch \in Channels |-> <<>>]]
    /\ received = [e \in ConnEnds |-> [ch \in Channels |-> <<>>]]

OnStop(e, r) == StopPingTimer(e, r) \/ StopStatsTimer(e, r) \/ CloseConn(e, r)

sendRoutine(e) ==
    \/ SelectFlush(e) \/ SelectStats(e) \/ SelectPing(e) \/ SelectPong(e)
    \/ SelectQuit(e) \/ SelectSend(e)
    \/ SendMsgPacket(e) \/ WriteOut(e) \/ WroteOut(e) \/ OnStop(e, "send")

recvRoutine(e) ==
    ReadFails(e) \/ ReadPingPong(e) \/ ReadMsg(e) \/ ResetStops(e) \/ ResetStarts(e) \/ OnStop(e, "recv")

caller(e) == WakeSender(e) \/ OnStop(e, "caller")

ConnNext ==
    \/ \E e \in ConnEnds :
          \/ \E ch \in Channels : Send(e, ch)
          \/ CallStop(e) \/ PingTick(e) \/ StatsTick(e)
          \/ sendRoutine(e) \/ recvRoutine(e) \/ caller(e)
    \/ NetworkFails

\* The routines are goroutines that run on; flushTimer fires until it is heard.
ConnSpec ==
    /\ ConnInit /\ [][ConnNext]_connVars
    /\ \A e \in ConnEnds : WF_connVars(sendRoutine(e)) /\ WF_connVars(recvRoutine(e)) /\ WF_connVars(caller(e))

-----------------------------------------------------------------------------
\* What onReceive was given on a channel is what Send queued there, message by
\* message and whole, and an end reports at most one error, however its routines
\* fail together (recvMsgPacket, nextMsgPacket, stopForError).
ReceivedIsSent ==
    \A e \in ConnEnds :
       /\ conn[e].errors <= 1
       /\ \A ch \in Channels : IsPrefix(received[Far(e)][ch], accepted[e][ch])

\* OnStop waits for a timer that holds a tick, and the send routine, which alone
\* takes ticks, is not going to: it runs OnStop itself, or has seen that the
\* connection does not run and ended.
StopHangs(e) ==
    /\ conn[e].pc["send"] # "select"
    /\ \E r \in DOMAIN conn[e].pc :
          \/ AtPc(conn[e], r, "stop ping") /\ conn[e].ping = "firing"
          \/ AtPc(conn[e], r, "stop stats") /\ conn[e].stats = "firing"

\* An end that cannot send, as the wire is full, nor read, as its receive routine
\* waits for the send routine to take a pong or a tick.
EndIsStuck(e) ==
    /\ conn[e].pc["send"] \in {"flush", "full"} /\ Len(wire[e]) = todo[e].wire
    /\ AtPc(conn[e], "recv", "pong") \/ (AtPc(conn[e], "recv", "reset") /\ conn[e].ping = "firing")

\* A connection settles: while it stands, all that was queued is received, unless
\* both ends are stuck on each other; an end that stops closes its net.Conn,
\* unless OnStop hangs on a tick; and a failure, or the other end's closing, stops
\* an end.
Settled ==
    /\ \A e \in ConnEnds :
          /\ conn[e].stopped => e \in closed \/ StopHangs(e)
          /\ broken \/ Far(e) \in closed => conn[e].stopped
    /\ \/ \E e \in ConnEnds : conn[e].stopped
       \/ \A e \in ConnEnds : received[Far(e)] = accepted[e]
       \/ \A e \in ConnEnds : EndIsStuck(e)
ConnectionEnds == []<>Settled
=============================================================================
