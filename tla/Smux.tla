-------------------------------- MODULE Smux --------------------------------
(***************************************************************************)
(* A multiplexed session (pkg/smux) between a client and a server, and the *)
(* calls of the two programs that use it: Dial of proxy/smux, the server's *)
(* loop of AcceptStream, and on each stream one goroutine that writes, one *)
(* that reads and a Close when both have returned, as Relay does.          *)
(*                                                                         *)
(* The goroutines of a session are actions of its side: shaperLoop and     *)
(* sendLoop (SendLoop), recvLoop (Recv...), keepalive (Ping...,            *)
(* KeepaliveTick).  The connection is a FIFO of WireSize frames each way.  *)
(* A byte is its position in what its side writes, so that what is read    *)
(* can be compared with what was written, and a mark: the last byte of a   *)
(* frame is the last of its buffer, and the buffers of a stream are one    *)
(* sequence of such bytes.                                                 *)
(***************************************************************************)
EXTENDS Integers, Sequences, FiniteSets

CONSTANTS
    IdSpace,        \* 2^32 in the code: the stream ids wrap here
    CountSpace,     \* 2^32 in the code: the counters of version 2 wrap here
    FrameSize,      \* Config.MaxFrameSize
    ReceiveBuffer,  \* Config.MaxReceiveBuffer
    StreamBuffer,   \* Config.MaxStreamBuffer
    InitialWindow,  \* initialPeerWindow
    WireSize,       \* frames that the connection holds each way
    Scenarios,      \* per side, the configured version, how many bytes it writes, and
                    \* whether its keepalive timers tick while the session is well
    MaxEvents       \* calls of Dial and ticks of the keepalive timers, together

Sides == {"client", "server"}
Peer(p) == IF p = "client" THEN "server" ELSE "client"

\* The ids OpenStream of a client can give.
Sids == {i \in 2 .. IdSpace - 1 : i % 2 = 1}

\* int32(uint32): the signed reading of a counter.
Signed(x) == IF x >= CountSpace \div 2 THEN x - CountSpace ELSE x

ASSUME SmuxAssumption ==
    /\ IdSpace \in Nat \ {0} /\ CountSpace \in Nat /\ InitialWindow \in Nat
    /\ Scenarios \subseteq [Sides -> [ver : {1, 2}, write : Nat, ticks : BOOLEAN]]
    /\ {FrameSize, ReceiveBuffer, StreamBuffer, WireSize} \subseteq Nat \ {0}
    /\ StreamBuffer <= ReceiveBuffer    \* VerifyConfig
    /\ StreamBuffer < CountSpace \div 2 /\ InitialWindow < CountSpace \div 2

VARIABLES
    ver,       \* Config.Version of each side
    toWrite,   \* the bytes each side has to write on a stream
    ticks,     \* whether the keepalive timers of each side tick
    closed,    \* Session.Close: die is closed, and the connection
    errs,      \* which of chSocketReadError, chSocketWriteError, chProtoError are closed
    recv,      \* recvLoop: "run" or "end"
    bucket,    \* tokens
    notify,    \* bucketNotify holds a signal
    ready,     \* dataReady
    nextID, goAway,
    heap,      \* the requests of the shaper by class, in the order they were made
    call,      \* the writeFrameInternal of each caller
    wire,      \* the frames on their way to each side
    accepts,   \* chAccepts
    strm,      \* the stream objects
    dial, accepting,
    wr, rd, cl,  \* the goroutines that write, read and close each stream
    got,       \* the bytes each side has read of each stream
    missed,    \* the streams whose first frames came before they were registered
    events

sessVars == <<closed, errs, recv, bucket, notify, ready>>
sendVars == <<heap, call>>
userVars == <<wr, rd, cl, got>>
openVars == <<nextID, goAway, dial, accepting>>
conf == <<ver, toWrite, ticks>>
vars == <<conf, sessVars, sendVars, wire, accepts, strm, openVars, userVars, missed, events>>

\* The classes of requests.
CTRL == 0
DATA == 1
Classes == {CTRL, DATA}

\* The callers of writeFrameInternal: the kind of frame, and the stream.
Callers == ({"SYN", "PSH", "UPD", "FIN"} \X Sids) \cup {<<"NOP", 0>>}

ConnOpen == \A p \in Sides : ~closed[p]

Stream == [reg |-> FALSE, buf |-> <<>>, fin |-> FALSE, die |-> FALSE, event |-> FALSE,
           update |-> FALSE, deadline |-> FALSE, numRead |-> 0, numWritten |-> 0, incr |-> 0,
           consumed |-> 0, window |-> InitialWindow]

NewStream(p, i) == [strm EXCEPT ![p][i] = [Stream EXCEPT !.reg = TRUE]]

Writer == [pc |-> "off", next |-> 1, chunk |-> 0, n |-> 0, out |-> ""]
Reader == [pc |-> "off", n |-> 0, notify |-> FALSE, armed |-> FALSE, out |-> ""]

Init ==
    /\ \E s \in Scenarios : /\ ver = [p \in Sides |-> s[p].ver]
                          /\ toWrite = [p \in Sides |-> s[p].write]
                          /\ ticks = [p \in Sides |-> s[p].ticks]
    /\ closed = [p \in Sides |-> FALSE]
    /\ errs = [p \in Sides |-> {}]
    /\ recv = [p \in Sides |-> "run"]
    /\ bucket = [p \in Sides |-> ReceiveBuffer]
    /\ notify = [p \in Sides |-> FALSE]
    /\ ready = [p \in Sides |-> FALSE]
    /\ nextID = 1 /\ goAway = FALSE
    /\ heap = [p \in Sides |-> [c \in Classes |-> <<>>]]
    /\ call = [p \in Sides |-> [w \in Callers |-> "none"]]
    /\ wire = [p \in Sides |-> <<>>]
    /\ accepts = <<>>
    /\ strm = [p \in Sides |-> [i \in Sids |-> Stream]]
    /\ dial = [pc |-> "idle", sid |-> 0]
    /\ accepting = TRUE
    /\ wr = [p \in Sides |-> [i \in Sids |-> Writer]]
    /\ rd = [p \in Sides |-> [i \in Sids |-> Reader]]
    /\ cl = [p \in Sides |-> [i \in Sids |-> "off"]]
    /\ got = [p \in Sides |-> [i \in Sids |-> <<>>]]
    /\ missed = [p \in Sides |-> {}]
    /\ events = 0

-----------------------------------------------------------------------------
(***************************************************************************)
(* writeFrameInternal: a request is handed to the shaper, then its caller  *)
(* waits for the result.  It gives up when the session dies, when a write  *)
(* has failed, or at its deadline; the request stays where it is.  A call  *)
(* that finds the session broken at once is one that is handed in and then *)
(* fails: nothing is sent any more.                                        *)
(***************************************************************************)
Frame(p, cmd, i, data) == [ver |-> ver[p], cmd |-> cmd, sid |-> i, data |-> data]

\* shaperHeap.Less: control frames first, and in a class the order of the
\* sequence numbers, which is the order in which the requests were made.
Urgent(p) == IF heap[p][CTRL] # <<>> THEN CTRL ELSE DATA

\* A stream has one caller for each kind of frame.
Caller(f) == <<f.cmd, f.sid>>

Submit(p, class, frame) ==
    /\ heap' = [heap EXCEPT ![p][class] = Append(@, frame)]
    /\ call' = [call EXCEPT ![p][Caller(frame)] = "sent"]

\* The caller sees the session closed, or the write error, instead of the result.
Broken(p) == closed[p] \/ "write" \in errs[p]

CallOk(p, who) == call[p][who] = "ok"
CallFailed(p, who) == call[p][who] = "failed" \/ (call[p][who] # "none" /\ Broken(p))
CallTimeout(p, who) == call[p][who] = "sent"
CallEnd(p, who) == call' = [call EXCEPT ![p][who] = "none"]

\* A result that nobody waits for any more stays in its channel.
Result(p, who, r) == call' = [call EXCEPT ![p][who] = IF @ = "sent" THEN r ELSE @]

\* shaperLoop hands its least request to sendLoop, which writes the frame whole
\* or finds the connection closed.  The frame that is being written counts as
\* one of those that the connection holds.
SendLoop(p) ==
    /\ ~Broken(p) /\ heap[p][Urgent(p)] # <<>>
    /\ LET f == Head(heap[p][Urgent(p)]) IN
       \/ /\ ConnOpen /\ Len(wire[Peer(p)]) < WireSize
          /\ wire' = [wire EXCEPT ![Peer(p)] = Append(@, f)]
          /\ Result(p, Caller(f), "ok")
          /\ UNCHANGED errs
       \/ /\ ~ConnOpen
          /\ Result(p, Caller(f), "failed")
          /\ errs' = [errs EXCEPT ![p] = @ \cup {"write"}]
          /\ UNCHANGED wire
    /\ heap' = [heap EXCEPT ![p][Urgent(p)] = Tail(@)]
    /\ UNCHANGED <<conf, closed, recv, bucket, notify, ready, accepts, strm, openVars, userVars,
                   missed, events>>
-----------------------------------------------------------------------------
(***************************************************************************)
(* recvLoop.                                                               *)
(***************************************************************************)
\* The loop at its head reads on, or waits for a signal (and looks again) or
\* for the end of the session.
HasTokens(p) == bucket[p] > 0 \/ closed[p]

BucketWait(p) ==
    /\ recv[p] = "run" /\ bucket[p] <= 0
    /\ \/ ~closed[p] /\ notify[p] /\ notify' = [notify EXCEPT ![p] = FALSE] /\ UNCHANGED recv
       \/ closed[p] /\ recv' = [recv EXCEPT ![p] = "end"] /\ UNCHANGED notify
    /\ UNCHANGED <<conf, closed, errs, bucket, ready, sendVars, wire, accepts, strm, openVars,
                   userVars, missed, events>>

\* The connection is closed here, or closed there and drained.
ReadError(p) ==
    /\ recv[p] = "run" /\ HasTokens(p)
    /\ closed[p] \/ (closed[Peer(p)] /\ wire[p] = <<>>)
    /\ recv' = [recv EXCEPT ![p] = "end"]
    /\ errs' = [errs EXCEPT ![p] = @ \cup {"read"}]
    /\ UNCHANGED <<conf, closed, bucket, notify, ready, sendVars, wire, accepts, strm,
                   openVars, userVars, missed, events>>

\* A header has arrived; dataReady is set before its version is looked at.
Receives(p, cmd) ==
    /\ recv[p] = "run" /\ HasTokens(p) /\ ~closed[p]
    /\ wire[p] # <<>>
    /\ Head(wire[p]).ver = ver[p] /\ Head(wire[p]).cmd = cmd
    /\ wire' = [wire EXCEPT ![p] = Tail(@)]
    /\ ready' = [ready EXCEPT ![p] = TRUE]
    /\ UNCHANGED <<conf, closed, errs, recv, notify, sendVars, openVars, userVars, events>>

ProtoError(p) ==
    /\ recv[p] = "run" /\ HasTokens(p) /\ ~closed[p]
    /\ wire[p] # <<>> /\ Head(wire[p]).ver # ver[p]
    /\ wire' = [wire EXCEPT ![p] = Tail(@)]
    /\ ready' = [ready EXCEPT ![p] = TRUE]
    /\ recv' = [recv EXCEPT ![p] = "end"]
    /\ errs' = [errs EXCEPT ![p] = @ \cup {"proto"}]
    /\ UNCHANGED <<conf, closed, bucket, notify, sendVars, accepts, strm, openVars, userVars,
                   missed, events>>

RecvNop(p) ==
    /\ Receives(p, "NOP")
    /\ UNCHANGED <<bucket, accepts, strm, missed>>

RecvSyn(p) ==
    /\ Receives(p, "SYN")
    /\ LET i == Head(wire[p]).sid IN
       IF strm[p][i].reg
       THEN UNCHANGED <<strm, accepts>>
       ELSE /\ strm' = NewStream(p, i)
            /\ accepts' = Append(accepts, i)
    /\ UNCHANGED <<bucket, missed>>

\* A frame for a stream that is not in the map is dropped: the stream is
\* closed, or it is being opened and is not there yet.
Drop(p, i) ==
    /\ ~strm[p][i].reg
    /\ missed' = [missed EXCEPT ![p] = @ \cup IF rd[p][i].pc = "off" THEN {i} ELSE {}]
    /\ UNCHANGED <<strm, bucket>>

RecvFin(p) ==
    /\ Receives(p, "FIN")
    /\ LET i == Head(wire[p]).sid IN
       \/ /\ strm[p][i].reg
          /\ strm' = [strm EXCEPT ![p][i].fin = TRUE, ![p][i].event = TRUE]
          /\ UNCHANGED <<bucket, missed>>
       \/ Drop(p, i)
    /\ UNCHANGED accepts

\* pushBytes and notifyReadEvent.
Push(p, i, b) == strm' = [strm EXCEPT ![p][i].buf = @ \o b, ![p][i].event = TRUE]

RecvPsh(p) ==
    /\ Receives(p, "PSH")
    /\ LET i == Head(wire[p]).sid
           b == Head(wire[p]).data
       IN \/ /\ strm[p][i].reg
             /\ Push(p, i, b)
             /\ bucket' = [bucket EXCEPT ![p] = @ - Len(b)]
             /\ UNCHANGED missed
          \/ Drop(p, i)
    /\ UNCHANGED accepts

RecvUpd(p) ==
    /\ Receives(p, "UPD")
    /\ LET i == Head(wire[p]).sid
           u == Head(wire[p]).data
       IN \/ /\ strm[p][i].reg
             /\ strm' = [strm EXCEPT ![p][i].consumed = u[1], ![p][i].window = u[2],
                                     ![p][i].update = TRUE]
             /\ UNCHANGED <<bucket, missed>>
          \/ Drop(p, i)
    /\ UNCHANGED accepts
-----------------------------------------------------------------------------
(***************************************************************************)
(* Session.Close: die, the streams (sessionClose) and the connection.  It  *)
(* is one step: a stream that would be registered between the first two is *)
(* refused, since OpenStream looks at die under the lock of the streams.   *)
(***************************************************************************)
SessionClose(p) ==
    /\ closed' = [closed EXCEPT ![p] = TRUE]
    /\ strm' = [strm EXCEPT ![p] = [i \in Sids |-> IF @[i].reg THEN [@[i] EXCEPT !.die = TRUE]
                                                   ELSE @[i]]]

\* The bound on what may happen at any time.
Event == events < MaxEvents /\ events' = events + 1

(***************************************************************************)
(* keepalive.                                                              *)
(***************************************************************************)
\* The bound does not count for a ping that comes when the recvLoop has ended and
\* a writer still waits for a window, unless one waits in the shaper already.
LastPing(p) ==
    /\ recv[p] = "end" /\ \E i \in Sids : wr[p][i].pc = "window"
    /\ \A k \in DOMAIN heap[p][CTRL] : heap[p][CTRL][k].cmd # "NOP"
    /\ UNCHANGED events

Ping(p) ==
    /\ ~Broken(p) /\ call[p][<<"NOP", 0>>] = "none"
    /\ (ticks[p] /\ Event) \/ LastPing(p)
    /\ Submit(p, CTRL, Frame(p, "NOP", 0, <<>>))
    /\ UNCHANGED <<conf, sessVars, wire, accepts, strm, openVars, userVars, missed>>

\* The deadline of a ping is the ticker's next tick.
PingEnd(p) ==
    /\ \/ CallOk(p, <<"NOP", 0>>) \/ CallFailed(p, <<"NOP", 0>>)
       \/ CallTimeout(p, <<"NOP", 0>>)
    /\ CallEnd(p, <<"NOP", 0>>)
    /\ notify' = [notify EXCEPT ![p] = TRUE]
    /\ UNCHANGED <<conf, closed, errs, recv, bucket, ready, heap, wire, accepts,
                   strm, openVars, userVars, missed, events>>

\* The timeout ticker; the loop does not look at it while it waits for a ping.
KeepaliveTick(p) ==
    /\ ticks[p] /\ ~closed[p] /\ call[p][<<"NOP", 0>>] = "none"
    /\ Event
    /\ \/ ready[p] /\ ready' = [ready EXCEPT ![p] = FALSE] /\ UNCHANGED <<closed, strm>>
       \/ ~ready[p] /\ bucket[p] > 0 /\ SessionClose(p) /\ UNCHANGED ready
    /\ UNCHANGED <<conf, errs, recv, bucket, notify, sendVars, wire, accepts, openVars,
                   userVars, missed>>
-----------------------------------------------------------------------------
(***************************************************************************)
(* Dial and OpenStream of the client.  Dial holds mu to its end, so there  *)
(* is one at a time.  The first one has made the session.                  *)
(***************************************************************************)
StartUsers(p, i) ==
    /\ wr' = [wr EXCEPT ![p][i] = [Writer EXCEPT !.pc = "start"]]
    /\ rd' = [rd EXCEPT ![p][i] = [Reader EXCEPT !.pc = "try"]]
    /\ UNCHANGED <<cl, got>>

\* OpenStream fails: Dial closes the session and goes on with a new connection,
\* which is another session.
DialFails ==
    /\ dial' = [pc |-> "failed", sid |-> 0]
    /\ SessionClose("client")

\* OpenStream of a session that Dial has just made fails: the session stays, and
\* the next Dial will try it again.
FirstDialFails ==
    /\ dial' = [pc |-> "idle", sid |-> 0]
    /\ UNCHANGED <<closed, strm>>

OpenFails == IF dial.sid = 3 THEN FirstDialFails ELSE DialFails

DialStart ==
    /\ dial.pc = "idle" /\ Event
    /\ LET sid == (nextID + 2) % IdSpace IN
       \/ /\ closed["client"] \/ goAway
          /\ DialFails
          /\ UNCHANGED <<nextID, goAway, sendVars>>
       \/ /\ ~closed["client"] /\ ~goAway /\ sid = sid % 2
          /\ nextID' = sid /\ goAway' = TRUE
          /\ DialFails
          /\ UNCHANGED sendVars
       \/ /\ ~closed["client"] /\ ~goAway /\ sid # sid % 2
          /\ nextID' = sid /\ UNCHANGED goAway
          /\ Submit("client", CTRL, Frame("client", "SYN", sid, <<>>))
          /\ dial' = [pc |-> "syn", sid |-> sid] /\ UNCHANGED <<closed, strm>>
    /\ UNCHANGED <<conf, errs, recv, bucket, notify, ready, wire, accepts, accepting, userVars,
                   missed>>

\* The SYN has not gone out: the session failed, or openCloseTimeout has passed.
OpenFailed ==
    /\ dial.pc = "syn"
    /\ CallFailed("client", <<"SYN", dial.sid>>) \/ CallTimeout("client", <<"SYN", dial.sid>>)
    /\ CallEnd("client", <<"SYN", dial.sid>>)
    /\ OpenFails
    /\ UNCHANGED <<conf, errs, recv, bucket, notify, ready, heap, wire, accepts,
                   nextID, goAway, accepting, userVars, missed, events>>

\* The SYN is out; only now is the stream put into the session's map.
OpenRegister ==
    /\ dial.pc = "syn" /\ CallOk("client", <<"SYN", dial.sid>>)
    /\ CallEnd("client", <<"SYN", dial.sid>>)
    /\ \/ /\ errs["client"] \cap {"read", "write"} # {} \/ closed["client"]
          /\ OpenFails /\ UNCHANGED <<wr, rd, cl, got>>
       \/ /\ errs["client"] \cap {"read", "write"} = {} /\ ~closed["client"]
          /\ strm' = NewStream("client", dial.sid)
          /\ StartUsers("client", dial.sid)
          /\ dial' = [pc |-> "idle", sid |-> 0] /\ UNCHANGED closed
    /\ UNCHANGED <<conf, errs, recv, bucket, notify, ready, heap, wire, accepts,
                   nextID, goAway, accepting, missed, events>>

\* SmuxServer.Serve: a goroutine for each stream, until AcceptStream fails.
AcceptStream ==
    /\ accepting
    /\ \/ /\ accepts # <<>>
          /\ accepts' = Tail(accepts)
          /\ StartUsers("server", Head(accepts))
          /\ UNCHANGED <<closed, strm, accepting>>
       \/ /\ errs["server"] \cap {"read", "proto"} # {} \/ closed["server"]
          /\ accepting' = FALSE
          /\ SessionClose("server")
          /\ UNCHANGED <<accepts, userVars>>
    /\ UNCHANGED <<conf, errs, recv, bucket, notify, ready, sendVars, wire, nextID, goAway,
                   dial, missed, events>>
-----------------------------------------------------------------------------
(***************************************************************************)
(* Write of a stream: one call, for all that the side has to say.          *)
(***************************************************************************)
Smaller(a, b) == IF a < b THEN a ELSE b
Left(p, i) == toWrite[p] - wr[p][i].next + 1
writeRest == <<conf, sessVars, wire, accepts, openVars, rd, cl, got, missed, events>>

\* A slip: a reader that waits already does not learn of the deadline.
DeadlineSilent(s) == [s EXCEPT !.deadline = TRUE]

\* SetReadDeadline wakes a reader that waits without one.
Deadline(s) == [s EXCEPT !.deadline = TRUE, !.event = TRUE]

\* Write returns; Relay then sets a deadline for the other direction.
WriterEnd(p, i, out) ==
    /\ wr' = [wr EXCEPT ![p][i].pc = "end", ![p][i].out = out]
    /\ strm' = [strm EXCEPT ![p][i] = Deadline(@)]

\* The window of version 2, in modular arithmetic.
Inflight(p, i) == Signed((strm[p][i].numWritten - strm[p][i].consumed) % CountSpace)
Window(p, i) == strm[p][i].window - Inflight(p, i)

\* The first look at the stream, which may be closed by now.
WriteClosed(p, i) ==
    /\ wr[p][i].pc = "start"
    /\ \/ strm[p][i].fin /\ WriterEnd(p, i, "eof")
       \/ strm[p][i].die /\ WriterEnd(p, i, "closed")
       \/ Left(p, i) = 0 /\ WriterEnd(p, i, "ok")
    /\ UNCHANGED <<writeRest, sendVars>>

MayWrite(p, i) == \/ /\ wr[p][i].pc = "start"
                     /\ ~strm[p][i].fin /\ ~strm[p][i].die /\ Left(p, i) > 0
                  \/ wr[p][i].pc = "frame"

\* How much may go out before the window is looked at again.
Chunk(p, i) == IF wr[p][i].chunk > 0 THEN wr[p][i].chunk
               ELSE IF ver[p] = 2 THEN Smaller(Window(p, i), Left(p, i)) ELSE Left(p, i)

WriteNoWindow(p, i) ==
    /\ MayWrite(p, i) /\ ver[p] = 2 /\ wr[p][i].chunk = 0
    /\ Inflight(p, i) < 0 \/ Window(p, i) <= 0
    /\ IF Inflight(p, i) < 0 THEN WriterEnd(p, i, "consumed")
       ELSE wr' = [wr EXCEPT ![p][i].pc = "window"] /\ UNCHANGED strm
    /\ UNCHANGED <<writeRest, sendVars>>

WriteFrame(p, i) ==
    /\ MayWrite(p, i)
    /\ ver[p] = 2 /\ wr[p][i].chunk = 0 => Inflight(p, i) >= 0 /\ Window(p, i) > 0
    /\ LET n == Smaller(Chunk(p, i), FrameSize)
           data == [k \in 1 .. n |-> [at |-> wr[p][i].next + k - 1, last |-> k = n]]
       IN /\ Submit(p, DATA, Frame(p, "PSH", i, data))
          /\ wr' = [wr EXCEPT ![p][i].pc = "sending", ![p][i].n = n, ![p][i].chunk = Chunk(p, i)]
    /\ UNCHANGED <<writeRest, strm>>

\* A slip: version 2 counts frames too.
CountFrames(p, n) == 1

\* numWritten: version 2 counts bytes, version 1 counts frames.
Count(p, n) == IF ver[p] = 2 THEN n ELSE 1

\* The frame is out.
WriteSent(p, i) ==
    /\ wr[p][i].pc = "sending" /\ CallOk(p, <<"PSH", i>>)
    /\ CallEnd(p, <<"PSH", i>>)
    /\ LET w == wr[p][i]
           done == w.n = Left(p, i)
           s == [strm[p][i] EXCEPT !.numWritten = (@ + Count(p, w.n)) % CountSpace]
       IN /\ strm' = [strm EXCEPT ![p][i] = IF done THEN Deadline(s) ELSE s]
          /\ wr' = [wr EXCEPT ![p][i] = [w EXCEPT !.next = @ + w.n, !.chunk = @ - w.n, !.n = 0,
                       !.pc = IF done THEN "end" ELSE IF w.chunk > w.n THEN "frame" ELSE "window",
                       !.out = IF done THEN "ok" ELSE ""]]
    /\ UNCHANGED <<writeRest, heap>>

WriteFails(p, i) ==
    /\ wr[p][i].pc = "sending" /\ CallFailed(p, <<"PSH", i>>)
    /\ CallEnd(p, <<"PSH", i>>)
    /\ WriterEnd(p, i, "error")
    /\ UNCHANGED <<writeRest, heap>>

WriteWait(p, i) ==
    /\ wr[p][i].pc = "window"
    /\ \/ strm[p][i].fin /\ WriterEnd(p, i, "eof")
       \/ (strm[p][i].die \/ "write" \in errs[p]) /\ WriterEnd(p, i, "closed")
       \/ /\ strm[p][i].update
          /\ strm' = [strm EXCEPT ![p][i].update = FALSE]
          /\ wr' = [wr EXCEPT ![p][i].pc = "frame"]
    /\ UNCHANGED <<writeRest, sendVars>>
-----------------------------------------------------------------------------
(***************************************************************************)
(* Read of a stream, in a loop.                                            *)
(***************************************************************************)
ReaderEnd(p, i, out) == rd' = [rd EXCEPT ![p][i].pc = "end", ![p][i].out = out]
readRest == <<conf, closed, errs, recv, ready, wire, accepts, openVars, wr, cl, missed, events>>

\* The window update is due after half a buffer, and after the first read.
UpdateDue(incr, numRead, n) == incr >= StreamBuffer \div 2 \/ numRead = n

\* The places of the first buffer.
FirstBuffer(b) == {n \in 1 .. Len(b) : \A k \in 1 .. n - 1 : ~b[k].last}

\* tryRead: some bytes of the first buffer.
TryRead(p, i) ==
    /\ rd[p][i].pc = "try" /\ strm[p][i].buf # <<>>
    /\ \E n \in FirstBuffer(strm[p][i].buf) :
          LET s == strm[p][i]
              numRead == IF ver[p] = 2 THEN (s.numRead + n) % CountSpace ELSE 0
              incr == s.incr + n
              due == ver[p] = 2 /\ UpdateDue(incr, numRead, n)
          IN /\ strm' = [strm EXCEPT ![p][i] = [s EXCEPT
                   !.buf = SubSeq(@, n + 1, Len(@)),
                   !.numRead = numRead,
                   !.incr = IF ver[p] = 2 /\ ~due THEN incr ELSE 0]]
             /\ got' = [got EXCEPT ![p][i] = @ \o [k \in 1 .. n |-> s.buf[k].at]]
             /\ rd' = [rd EXCEPT ![p][i].pc = "taken", ![p][i].n = n,
                                 ![p][i].notify = due /\ numRead > 0]
    /\ UNCHANGED <<readRest, bucket, notify, sendVars>>

\* returnTokens
ReturnTokens(p, n) ==
    /\ bucket' = [bucket EXCEPT ![p] = @ + n]
    /\ notify' = [notify EXCEPT ![p] = @ \/ bucket'[p] > 0]

ReadReturns(p, i) ==
    /\ rd[p][i].pc = "taken"
    /\ ReturnTokens(p, rd[p][i].n)
    /\ \/ /\ ~rd[p][i].notify
          /\ rd' = [rd EXCEPT ![p][i].pc = "try", ![p][i].n = 0]
          /\ UNCHANGED sendVars
       \/ /\ rd[p][i].notify
          /\ Submit(p, CTRL, Frame(p, "UPD", i, <<strm[p][i].numRead, StreamBuffer>>))
          /\ rd' = [rd EXCEPT ![p][i].pc = "updating", ![p][i].n = 0]
    /\ UNCHANGED <<readRest, strm, got>>

\* sendWindowUpdate returns.
UpdateSent(p, i) ==
    /\ rd[p][i].pc = "updating"
    /\ \/ CallOk(p, <<"UPD", i>>) /\ rd' = [rd EXCEPT ![p][i].pc = "try"]
       \/ CallFailed(p, <<"UPD", i>>) /\ ReaderEnd(p, i, "error")
       \/ CallTimeout(p, <<"UPD", i>>) /\ strm[p][i].deadline /\ ReaderEnd(p, i, "timeout")
    /\ CallEnd(p, <<"UPD", i>>)
    /\ UNCHANGED <<readRest, bucket, notify, heap, strm, got>>

ReadEmpty(p, i) ==
    /\ rd[p][i].pc = "try" /\ strm[p][i].buf = <<>>
    /\ \/ strm[p][i].die /\ ReaderEnd(p, i, "closed")
       \/ /\ ~strm[p][i].die
          /\ rd' = [rd EXCEPT ![p][i].pc = "wait", ![p][i].armed = strm[p][i].deadline]
    /\ UNCHANGED <<readRest, bucket, notify, sendVars, strm, got>>

\* A slip: the end of the stream is reported without a look at the buffers.
FinReadBlind(p, i) == strm[p][i].fin /\ ReaderEnd(p, i, "EOF")

FinRead(p, i) ==
    /\ strm[p][i].fin
    /\ IF strm[p][i].buf = <<>> THEN ReaderEnd(p, i, "EOF")
       ELSE rd' = [rd EXCEPT ![p][i].pc = "try"]

\* waitRead: the deadline is the one that was set when the wait began.
WaitRead(p, i) ==
    /\ rd[p][i].pc = "wait"
    /\ \/ /\ strm[p][i].event
          /\ strm' = [strm EXCEPT ![p][i].event = FALSE]
          /\ rd' = [rd EXCEPT ![p][i].pc = "try"]
       \/ FinRead(p, i) /\ UNCHANGED strm
       \/ errs[p] \cap {"read", "proto"} # {} /\ ReaderEnd(p, i, "error") /\ UNCHANGED strm
       \/ rd[p][i].armed /\ ReaderEnd(p, i, "timeout") /\ UNCHANGED strm
       \/ strm[p][i].die /\ ReaderEnd(p, i, "closed") /\ UNCHANGED strm
    /\ UNCHANGED <<readRest, bucket, notify, sendVars, got>>
-----------------------------------------------------------------------------
(***************************************************************************)
(* Close of a stream, after both goroutines of Relay.                      *)
(***************************************************************************)
Buffered(p, i) == Len(strm[p][i].buf)

closeRest == <<conf, closed, errs, recv, ready, wire, accepts, openVars, wr, rd, got, missed, events>>

\* The FIN is a data frame: it stays behind the data.
FinClass == DATA

CloseStream(p, i) ==
    /\ wr[p][i].pc = "end" /\ rd[p][i].pc = "end" /\ cl[p][i] = "off"
    /\ strm' = [strm EXCEPT ![p][i].die = TRUE]
    /\ \/ /\ ~strm[p][i].die
          /\ Submit(p, FinClass, Frame(p, "FIN", i, <<>>))
          /\ cl' = [cl EXCEPT ![p][i] = "sending"]
       \/ /\ strm[p][i].die
          /\ cl' = [cl EXCEPT ![p][i] = "end"] /\ UNCHANGED sendVars
    /\ UNCHANGED <<closeRest, bucket, notify>>

\* A slip: the tokens of what was never read are gone.
StreamClosedLeaks(p, i) ==
    /\ strm' = [strm EXCEPT ![p][i].reg = FALSE, ![p][i].buf = <<>>]
    /\ UNCHANGED <<bucket, notify>>

\* streamClosed: the tokens of what was never read go back.
StreamClosed(p, i) ==
    /\ IF strm[p][i].reg /\ Buffered(p, i) > 0 THEN ReturnTokens(p, Buffered(p, i))
       ELSE UNCHANGED <<bucket, notify>>
    /\ strm' = [strm EXCEPT ![p][i].reg = FALSE, ![p][i].buf = <<>>]

CloseEnd(p, i) ==
    /\ cl[p][i] = "sending"
    /\ \/ CallOk(p, <<"FIN", i>>)
       \/ CallFailed(p, <<"FIN", i>>)
       \/ CallTimeout(p, <<"FIN", i>>)
    /\ CallEnd(p, <<"FIN", i>>)
    /\ cl' = [cl EXCEPT ![p][i] = "end"]
    /\ StreamClosed(p, i)
    /\ UNCHANGED <<closeRest, heap>>
-----------------------------------------------------------------------------
RecvLoop(p) == BucketWait(p) \/ ReadError(p) \/ ProtoError(p) \/ RecvNop(p) \/ RecvSyn(p)
               \/ RecvFin(p) \/ RecvPsh(p) \/ RecvUpd(p)

Writes(p, i) == WriteClosed(p, i) \/ WriteNoWindow(p, i) \/ WriteFrame(p, i) \/ WriteSent(p, i)
                \/ WriteFails(p, i) \/ WriteWait(p, i)

Reads(p, i) == TryRead(p, i) \/ ReadReturns(p, i) \/ UpdateSent(p, i) \/ ReadEmpty(p, i)
               \/ WaitRead(p, i)

StreamCloses(p, i) == CloseStream(p, i) \/ CloseEnd(p, i)

\* What the goroutines do once they are under way.
Goroutines ==
    \/ OpenFailed \/ OpenRegister \/ AcceptStream
    \/ \E p \in Sides :
          \/ SendLoop(p) \/ RecvLoop(p) \/ PingEnd(p)
          \/ \E i \in Sids : Writes(p, i) \/ Reads(p, i) \/ StreamCloses(p, i)

Next == Goroutines \/ DialStart \/ \E p \in Sides : Ping(p) \/ KeepaliveTick(p)

Spec == Init /\ [][Next]_vars

\* Goroutines that can go on do, and a session whose recvLoop has ended is pinged
\* for its writers; otherwise the program need not dial and the tickers of
\* keepalive need not tick.  Since no step can be repeated for ever, fairness of
\* all of them together says as much as fairness of each.
FairSpec == Spec /\ WF_vars(Goroutines \/ \E p \in Sides : Ping(p) /\ LastPing(p))
-----------------------------------------------------------------------------
(***************************************************************************)
(* Properties.                                                             *)
(***************************************************************************)
\* The bytes that a session holds, each a stream and a number: those in the
\* buffers and those that a reader has taken and not yet returned tokens for.
Holds(p, i) == Buffered(p, i) + (IF rd[p][i].pc = "taken" THEN rd[p][i].n ELSE 0)
Held(p) == UNION {{i} \X (1 .. Holds(p, i)) : i \in Sids}

\* The token bucket of recvLoop, TryRead and streamClosed: the tokens in the
\* bucket, the bytes in the buffers of the streams and the bytes taken by
\* readers that have not returned their tokens add up to MaxReceiveBuffer, and
\* until it is closed the session never holds a whole frame more than
\* MaxReceiveBuffer.
TokensConserved == \A p \in Sides :
    /\ bucket[p] + Cardinality(Held(p)) = ReceiveBuffer
    /\ ~closed[p] => bucket[p] > -FrameSize

\* The side that accepted a stream reads what the other side wrote, from its
\* first byte, in order and without a gap; when Read reports the end of the
\* stream it has read all that Write had sent before Close (waitRead looks at
\* the buffers before it returns EOF, and the FIN is queued as data).
AcceptorReadsAll == \A i \in Sids :
    LET b == got["server"][i] IN
    /\ b = [k \in DOMAIN b |-> k]
    /\ rd["server"][i].out = "EOF" => Len(b) = wr["client"][i].next - 1

\* writeV2 never finds that the peer has consumed more than was sent, though
\* numWritten is counted after the frame is out and the peer may have read it
\* and sent its window update by then.
NeverOverconsumed == \A p \in Sides, i \in Sids : wr[p][i].out # "consumed"

\* The side that opened a stream reads what the other side wrote, from its first
\* byte and without a gap, as a net.Conn does.
OpenerReadsAll == \A i \in Sids :
    LET b == got["client"][i] IN b = [k \in DOMAIN b |-> k]

\* A writer of version 2 waits for a window that cannot come: frames of this side
\* were dropped, or are, because OpenStream of the other side had not registered
\* the stream yet or had given it up.
WaitsForWindow(p, i) == i \in missed[Peer(p)] /\ wr[p][i].pc = "window"

\* Every call returns: OpenStream, and Write, Read and Close of each stream,
\* whatever fails and whichever side is closed in the meantime (no wake-up of
\* bucketNotify, chReadEvent or chUpdate is lost, and a deadline reaches a reader
\* that waits).  A read error does not wake a writer that waits for the window of
\* version 2; the next ping does, which cannot be written (stream.go:469-480,
\* session.go:465).  Left out are streams whose peer's frames were dropped because
\* OpenStream had not registered them.  When one side closes the session, the
\* other one's recvLoop ends, and the server closes its session too; the client's
\* stays until a keepalive timeout or the next Dial.
CallsReturn == <>[](
    /\ dial.pc # "syn"
    /\ \A p \in Sides, i \in Sids :
          wr[p][i].pc # "off" => cl[p][i] = "end" \/ i \in missed[p] \/ WaitsForWindow(p, i)
    /\ \A p \in Sides : closed[p] => recv[Peer(p)] = "end"
    /\ closed["client"] => closed["server"])
=============================================================================
