------------------------------- MODULE AnyTls -------------------------------
(***************************************************************************)
(* The anytls forwarder and the anytls listener (proxy/anytls), joined by  *)
(* one connection.  A Dial or DialUDP of the forwarder makes a session of  *)
(* its own with a single stream: the call opens it, sends the target as    *)
(* the first piece of data and waits for the SYNACK, while the session's   *)
(* readLoop already handles frames.  The listener authenticates, runs its  *)
(* own readLoop, accepts the stream, reads the target, dials it and        *)
(* answers.  Then both sides relay with two goroutines each, and close.    *)
(*                                                                         *)
(* Data are numbered: the i-th piece a side writes is i.  The target is    *)
(* piece 1 of the client and, for UDP over TCP, the request is piece 2.    *)
(***************************************************************************)
EXTENDS Naturals, Sequences

CONSTANTS
    StreamBuffer,   \* the capacity of stream.in: 32 in the code
    WireSize,       \* how many frames the connection holds each way
    Loads,          \* bound: how many pieces each side has to write after the dial
    MaxEvents,      \* bound: foreign frames and breaks of the connection
    HasFallback     \* whether the listener has a fallback address

ASSUME AnyTlsAssumption ==
    /\ StreamBuffer \in Nat \ {0} /\ WireSize \in Nat \ {0}
    /\ MaxEvents \in Nat
    /\ Loads \subseteq [{"client", "server"} -> Nat]
    /\ HasFallback \in BOOLEAN

VARIABLES
    kind,     \* "tcp" for Dial, "udp" for DialUDP
    good,     \* whether the client knows the listener's password
    load,     \* load[s]: how many pieces side s has to write
    wire,     \* wire[s]: the frames on their way to side s
    broken,   \* whether the connection is broken
    ep,       \* ep[s]: the session of side s with its only stream
    loop,     \* loop[s]: where the readLoop of side s is
    task,     \* task[s]: where the owner of the stream is: Dial's caller, serveStream
    serve,    \* where the listener's Serve is
    reader,   \* reader[s]: the goroutine that reads the stream
    writer,   \* writer[s]: the goroutine that writes the stream
    panic,    \* whether a goroutine sent on a closed channel
    events    \* foreign frames and breaks so far

vars == <<kind, good, load, wire, broken, ep, loop, task, serve, reader, writer, panic,
          events>>

Sides == {"client", "server"}

Peer(s) == IF s = "client" THEN "server" ELSE "client"

frame(command, data) == [cmd |-> command, data |-> data]

(* A session before it starts.  "reg": the stream is in session.streams.   *)
(* "eof": why stream.in was closed, "no" while it is open.  "ack": the     *)
(* channel of session.synack, "wait" while it is in the map.               *)
newSession ==
    [open |-> TRUE, done |-> FALSE, seen |-> FALSE, timed |-> FALSE,
     reg |-> FALSE, queued |-> FALSE, in |-> <<>>, eof |-> "no", closed |-> FALSE,
     ack |-> "none", sent |-> 0, got |-> <<>>]

Init ==
    /\ kind \in {"tcp", "udp"}
    /\ good \in BOOLEAN
    /\ load \in Loads
    /\ wire = [s \in Sides |-> <<>>]
    /\ broken = FALSE
    /\ ep = [s \in Sides |-> newSession]
    /\ loop = [s \in Sides |-> [at |-> "none", data |-> 0]]
    /\ task = [s \in Sides |-> IF s = "client" THEN "dial" ELSE "none"]
    /\ serve = "auth"
    /\ reader = [s \in Sides |-> "none"]
    /\ writer = [s \in Sides |-> "none"]
    /\ panic = FALSE
    /\ events = 0

-----------------------------------------------------------------------------
(* Session and stream operations, as functions of the session's state      *)

closeRead(e, why) == [e EXCEPT !.eof = IF @ = "no" THEN why ELSE @]

removeStream(e) ==
    [e EXCEPT !.reg = FALSE, !.ack = IF @ = "wait" THEN "gone" ELSE @]

(* closeOnce: close done and the connection, end every registered stream.  *)
CloseSession(e) ==
    IF e.done THEN e
    ELSE [removeStream(IF e.reg THEN closeRead(e, "cut") ELSE e)
             EXCEPT !.done = TRUE, !.open = FALSE]

openStream(e) == [e EXCEPT !.reg = TRUE, !.ack = "wait"]

(* A write to the connection: it waits, without a deadline and with        *)
(* writeMu held, until there is room, and may fail once either end is      *)
(* closed.                                                                 *)
CanWrite(s) == ep[s].open /\ ~broken /\ Len(wire[Peer(s)]) < WireSize

CanFail(s) == ~ep[s].open \/ broken \/ ~ep[Peer(s)].open

Sent(s, f) == [wire EXCEPT ![Peer(s)] = Append(@, f)]

(* A write whose error is ignored.                                         *)
WriteIgnored(s, f) ==
    wire' \in {w \in {Sent(s, f), wire} : IF w = wire THEN CanFail(s) ELSE CanWrite(s)}

-----------------------------------------------------------------------------
(* The forwarder's Dial and DialUDP                                        *)

Go(s, pc) == task' = [task EXCEPT ![s] = pc]

(* newClientSession: connect, TLS handshake and authentication, then the   *)
(* settings; then the readLoop starts.                                     *)
NewClientSession ==
    /\ task["client"] \in {"dial", "settings"}
    /\ \/ /\ CanWrite("client")
          /\ \/ /\ task["client"] = "dial"
                /\ wire' = Sent("client", frame(IF good THEN "auth" ELSE "badAuth", 0))
                /\ Go("client", "settings")
                /\ UNCHANGED loop
             \/ /\ task["client"] = "settings"
                /\ wire' = Sent("client", frame("settings", 0))
                /\ Go("client", "open")
                /\ loop' = [loop EXCEPT !["client"].at = "read"]
          /\ UNCHANGED ep
       \/ /\ task["client"] = "dial" \/ CanFail("client")
          /\ ep' = [ep EXCEPT !["client"].open = FALSE]
          /\ Go("client", "failed")
          /\ UNCHANGED <<wire, loop>>
    /\ UNCHANGED <<kind, good, load, broken, serve, reader, writer, panic, events>>

OpenStream ==
    /\ task["client"] = "open"
    /\ \/ /\ CanWrite("client")
          /\ wire' = Sent("client", frame("syn", 0))
          /\ ep' = [ep EXCEPT !["client"] = openStream(@)]
          /\ Go("client", "target")
       \/ /\ CanFail("client")
          /\ ep' = [ep EXCEPT !["client"] = CloseSession(removeStream(openStream(@)))]
          /\ Go("client", "failed")
          /\ UNCHANGED wire
    /\ UNCHANGED <<kind, good, load, broken, loop, serve, reader, writer, panic, events>>

(* The target, and for DialUDP the udp-over-tcp request after it.          *)
WriteTarget ==
    /\ task["client"] \in {"target", "request"}
    /\ \/ /\ CanWrite("client")
          /\ wire' = Sent("client", frame("psh", ep["client"].sent + 1))
          /\ ep' = [ep EXCEPT !["client"].sent = @ + 1]
          /\ Go("client", IF task["client"] = "target" /\ kind = "udp" THEN "request" ELSE "look")
       \/ /\ CanFail("client")
          /\ Go("client", "fin")
          /\ UNCHANGED <<wire, ep>>
    /\ UNCHANGED <<kind, good, load, broken, loop, serve, reader, writer, panic, events>>

(* Relay starts, or for UDP the two copies: CopyUDP puts a read deadline   *)
(* on the stream, which is one on the connection of the whole session.     *)
StartRelay(s) ==
    /\ Go(s, "relay")
    /\ reader' = [reader EXCEPT ![s] = "run"]
    /\ writer' = [writer EXCEPT ![s] = "run"]
    /\ ep' = [ep EXCEPT ![s].timed = (kind = "udp")]

(* waitSYNACK takes the channel from the map: a missing one means success. *)
LookForAck ==
    /\ task["client"] = "look"
    /\ IF ep["client"].ack = "wait"
       THEN Go("client", "select") /\ UNCHANGED <<reader, writer, ep>>
       ELSE StartRelay("client")
    /\ UNCHANGED <<kind, good, load, wire, broken, loop, serve, panic, events>>

(* The select of waitSYNACK: the answer that accepts, or one that refuses, *)
(* the session's end, or the timer, which may fire at any time.            *)
WaitAck ==
    /\ task["client"] = "select"
    /\ \/ /\ ep["client"].ack = "ok"
          /\ StartRelay("client")
       \/ /\ Go("client", "fin")
          /\ UNCHANGED <<reader, writer, ep>>
    /\ UNCHANGED <<kind, good, load, wire, broken, loop, serve, panic, events>>

-----------------------------------------------------------------------------
(* The listener                                                            *)

(* Serve up to the session: a handshake or readAuth that fails closes the  *)
(* connection, or hands it to the fallback.                                *)
Auth ==
    /\ serve = "auth"
    /\ \/ /\ wire["server"] # <<>>
          /\ ~broken
          /\ wire' = [wire EXCEPT !["server"] = Tail(@)]
          /\ IF Head(wire["server"]).cmd = "auth"
             THEN /\ serve' = "accept"
                  /\ loop' = [loop EXCEPT !["server"].at = "read"]
                  /\ UNCHANGED ep
             ELSE /\ serve' = IF HasFallback THEN "fallback" ELSE "end"
                  /\ ep' = [ep EXCEPT !["server"].open = HasFallback]
                  /\ UNCHANGED loop
       \/ /\ broken \/ ~ep["client"].open
          /\ serve' = "end"
          /\ ep' = [ep EXCEPT !["server"].open = FALSE]
          /\ UNCHANGED <<wire, loop>>
    /\ UNCHANGED <<kind, good, load, broken, task, reader, writer, panic, events>>

(* serveFallback relays the raw connection to the fallback and closes it.  *)
ServeFallback ==
    /\ serve = "fallback"
    /\ serve' = "end"
    /\ ep' = [ep EXCEPT !["server"].open = FALSE]
    /\ UNCHANGED <<kind, good, load, wire, broken, loop, task, reader, writer, panic, events>>

(* acceptStream, in Serve's loop: a queued stream or the session's end.    *)
AcceptStream ==
    /\ serve = "accept"
    /\ \/ /\ ep["server"].queued
          /\ ep' = [ep EXCEPT !["server"].queued = FALSE]
          /\ Go("server", "target")
          /\ UNCHANGED serve
       \/ /\ ep["server"].done
          /\ ep' = [ep EXCEPT !["server"] = CloseSession(@)]
          /\ serve' = "end"
          /\ UNCHANGED task
    /\ UNCHANGED <<kind, good, load, wire, broken, loop, reader, writer, panic, events>>

Readable(s) == ep[s].in # <<>>

AtEof(s) == ep[s].in = <<>> /\ ep[s].eof # "no"

(* stream.Read: take the next piece.                                       *)
Read(e) == [e EXCEPT !.in = Tail(@), !.got = Append(@, Head(e.in))]

(* serveStream reads the target, and serveUoT the request.                 *)
ReadTarget ==
    /\ task["server"] \in {"target", "request"}
    /\ \/ /\ Readable("server")
          /\ ep' = [ep EXCEPT !["server"] = Read(@)]
          /\ Go("server", IF task["server"] = "target" /\ kind = "udp" THEN "request" ELSE "connect")
          /\ UNCHANGED wire
       \/ /\ AtEof("server")
          /\ WriteIgnored("server", frame("synack", 1))
          /\ Go("server", "fin")
          /\ UNCHANGED ep
    /\ UNCHANGED <<kind, good, load, broken, loop, serve, reader, writer, panic, events>>

(* serveStream dials the target and answers with a SYNACK, which carries   *)
(* a text when the dial failed.                                            *)
ServeStream ==
    /\ task["server"] = "connect"
    /\ \/ /\ WriteIgnored("server", frame("synack", 0))
          /\ StartRelay("server")
       \/ /\ WriteIgnored("server", frame("synack", 1))
          /\ Go("server", "fin")
          /\ UNCHANGED <<reader, writer, ep>>
    /\ UNCHANGED <<kind, good, load, broken, loop, serve, panic, events>>

-----------------------------------------------------------------------------
(* Relaying, on either side                                                *)

(* The copy from the stream: a piece, the end of the stream, or an error   *)
(* of the other connection, after which the piece is lost.                 *)
CopyFrom(s) ==
    /\ reader[s] = "run"
    /\ \/ /\ Readable(s)
          /\ ep' = [ep EXCEPT ![s] = Read(@)]
          /\ reader' = [reader EXCEPT ![s] = "run"]
       \/ /\ Readable(s)
          /\ ep' = [ep EXCEPT ![s] = Read(@)]
          /\ reader' = [reader EXCEPT ![s] = "error"]
       \/ /\ AtEof(s)
          /\ reader' = [reader EXCEPT ![s] = "eof"]
          /\ UNCHANGED ep
    /\ UNCHANGED <<kind, good, load, wire, broken, loop, task, serve, writer, panic, events>>

(* How many pieces s writes in all, with the target and the request.       *)
Limit(s) ==
    load[s] + CASE s = "server" -> 0
                [] s = "client" /\ kind = "tcp" -> 1
                [] s = "client" /\ kind = "udp" -> 2

(* The copy to the stream: stream.Write, or the end of its source, or a    *)
(* write error.  Relay then puts a read deadline on the stream.            *)
CopyTo(s) ==
    /\ writer[s] = "run"
    /\ \/ /\ ep[s].sent < Limit(s)
          /\ CanWrite(s)
          /\ wire' = Sent(s, frame("psh", ep[s].sent + 1))
          /\ ep' = [ep EXCEPT ![s].sent = @ + 1]
          /\ UNCHANGED writer
       \/ /\ kind = "tcp" \/ s = "server" \/ CanFail(s)
          /\ writer' = [writer EXCEPT ![s] = "end"]
          /\ ep' = [ep EXCEPT ![s].timed = TRUE]
          /\ UNCHANGED wire
    /\ UNCHANGED <<kind, good, load, broken, loop, task, serve, reader, panic, events>>

(* Relay waits for both copies; serveUoT only for its own; a UDP session   *)
(* of another listener closes the packet connection when its copier ends.  *)
RelayEnds(s) ==
    /\ task[s] = "relay"
    /\ CASE kind = "tcp" -> reader[s] # "run" /\ writer[s] # "run"
         [] kind = "udp" /\ s = "server" -> writer[s] # "run"
         [] OTHER -> reader[s] # "run"
    /\ Go(s, "fin")
    /\ writer' = [writer EXCEPT ![s] = "end"]
    /\ UNCHANGED <<kind, good, load, wire, broken, ep, loop, serve, reader, panic, events>>

(* A slip: the session is closed before its stream.                        *)
AfterFinSwapped(s, pc) ==
    CASE s = "client" /\ pc = "fin" -> "session"
      [] s = "client" /\ pc = "session" -> "remove"
      [] s = "server" /\ pc = "fin" -> "remove"
      [] OTHER -> "closed"

(* The order in which stream.Close and then clientConn.Close go on.        *)
AfterFin(s, pc) ==
    CASE pc = "fin" -> "remove"
      [] pc = "remove" /\ s = "client" -> "session"
      [] OTHER -> "closed"

(* stream.Close writes a FIN, then forgets the stream; on the client the   *)
(* session is closed after it.                                             *)
StreamFin(s) ==
    /\ task[s] = "fin"
    /\ WriteIgnored(s, frame("fin", 0))
    /\ ep' = [ep EXCEPT ![s].closed = TRUE]
    /\ Go(s, AfterFin(s, "fin"))
    /\ UNCHANGED <<kind, good, load, broken, loop, serve, reader, writer, panic, events>>

StreamRemove(s) ==
    /\ task[s] = "remove"
    /\ ep' = [ep EXCEPT ![s] = removeStream(@)]
    /\ Go(s, AfterFin(s, "remove"))
    /\ UNCHANGED <<kind, good, load, wire, broken, loop, serve, reader, writer, panic, events>>

ClientConnClose(s) ==
    /\ task[s] = "session"
    /\ ep' = [ep EXCEPT ![s] = CloseSession(@)]
    /\ Go(s, AfterFin(s, "session"))
    /\ UNCHANGED <<kind, good, load, wire, broken, loop, serve, reader, writer, panic, events>>

-----------------------------------------------------------------------------
(* readLoop                                                                *)

LoopTo(s, pc) == loop' = [loop EXCEPT ![s].at = pc]

(* readFrame fails: the connection is closed, broken, at its end, or its   *)
(* deadline has passed.                                                    *)
ReadFails(s) ==
    /\ loop[s].at = "read"
    /\ \/ ~ep[s].open
       \/ broken
       \/ wire[s] = <<>> /\ ~ep[Peer(s)].open
       \/ ep[s].timed
    /\ ep' = [ep EXCEPT ![s] = CloseSession(@)]
    /\ LoopTo(s, "end")
    /\ UNCHANGED <<kind, good, load, wire, broken, task, serve, reader, writer, panic, events>>

(* readFrame returns a frame with this command.                            *)
Took(s, command) ==
    /\ loop[s].at = "read"
    /\ ep[s].open
    /\ ~broken
    /\ wire[s] # <<>>
    /\ Head(wire[s]).cmd = command

Rest(s) == [wire EXCEPT ![s] = Tail(@)]

(* Waste, heartbeats and settings; the last two want an answer.            *)
HandleControl(s) ==
    /\ \/ /\ \E command \in {"waste", "serverSettings", "heartResponse"} : Took(s, command)
          /\ UNCHANGED <<ep, loop>>
       \/ /\ Took(s, "heartRequest")
          /\ LoopTo(s, "heartResponse")
          /\ UNCHANGED ep
       \/ /\ Took(s, "settings")
          /\ ep' = [ep EXCEPT ![s].seen = TRUE]
          /\ LoopTo(s, "serverSettings")
    /\ wire' = Rest(s)
    /\ UNCHANGED <<kind, good, load, broken, task, serve, reader, writer, panic, events>>

(* The answers that handleFrame writes; while one waits for room, nothing  *)
(* is read.  A write that fails ends the session, and so does an alert.    *)
Answer(s) ==
    /\ \/ /\ loop[s].at \in {"heartResponse", "serverSettings"}
          /\ CanWrite(s)
          /\ wire' = Sent(s, frame(loop[s].at, 0))
          /\ LoopTo(s, "read")
          /\ UNCHANGED ep
       \/ /\ \/ loop[s].at \in {"heartResponse", "serverSettings"} /\ CanFail(s) /\ UNCHANGED wire
             \/ loop[s].at = "alert" /\ WriteIgnored(s, frame("alert", 0))
          /\ ep' = [ep EXCEPT ![s] = CloseSession(@)]
          /\ LoopTo(s, "end")
    /\ UNCHANGED <<kind, good, load, broken, task, serve, reader, writer, panic, events>>

(* An alert, an unknown command, or bytes that are no frame of a session.  *)
HandleBad(s) ==
    /\ \E command \in {"alert", "unknown"} : Took(s, command)
    /\ wire' = Rest(s)
    /\ ep' = [ep EXCEPT ![s] = CloseSession(@)]
    /\ LoopTo(s, "end")
    /\ UNCHANGED <<kind, good, load, broken, task, serve, reader, writer, panic, events>>

(* A SYN: refused with an alert before the settings, else a new stream is  *)
(* registered and queued for acceptStream.                                 *)
HandleSyn(s) ==
    /\ Took(s, "syn")
    /\ wire' = Rest(s)
    /\ \/ /\ ep[s].seen
          /\ ep' = [ep EXCEPT ![s].reg = TRUE, ![s].queued = TRUE]
          /\ UNCHANGED loop
       \/ /\ ~ep[s].seen
          /\ LoopTo(s, "alert")
          /\ UNCHANGED ep
    /\ UNCHANGED <<kind, good, load, broken, task, serve, reader, writer, panic, events>>

(* A SYNACK is handed over once: its channel leaves the map.               *)
HandleSynAck(s) ==
    /\ Took(s, "synack")
    /\ wire' = Rest(s)
    /\ ep' = [ep EXCEPT ![s].ack = IF @ # "wait" THEN @
                                   ELSE IF Head(wire[s]).data = 0 THEN "ok" ELSE "refused"]
    /\ UNCHANGED <<kind, good, load, broken, loop, task, serve, reader, writer, panic, events>>

(* getStream for a PSH: an unknown stream's data are dropped.              *)
HandlePsh(s) ==
    /\ Took(s, "psh")
    /\ wire' = Rest(s)
    /\ loop' = [loop EXCEPT ![s] = IF ep[s].reg THEN [at |-> "push", data |-> Head(wire[s]).data]
                                   ELSE @]
    /\ UNCHANGED <<kind, good, load, broken, ep, task, serve, reader, writer, panic, events>>

HandleFin(s) ==
    /\ Took(s, "fin")
    /\ wire' = Rest(s)
    /\ ep' = [ep EXCEPT ![s] = IF @.reg THEN removeStream(closeRead(@, "fin")) ELSE @]
    /\ UNCHANGED <<kind, good, load, broken, loop, task, serve, reader, writer, panic, events>>

(* A slip: a full stream drops the piece instead of waiting.               *)
PushDrops(s) ==
    /\ loop[s].at = "push"
    /\ ep' = [ep EXCEPT ![s].in = IF Len(@) < StreamBuffer THEN Append(@, loop[s].data) ELSE @]
    /\ LoopTo(s, "read")
    /\ UNCHANGED <<kind, good, load, wire, broken, task, serve, reader, writer, panic, events>>

(* A slip: the push does not watch the session's end.                      *)
PushBlocks(s) ==
    /\ loop[s].at = "push"
    /\ ep[s].eof = "no"
    /\ Len(ep[s].in) < StreamBuffer
    /\ ep' = [ep EXCEPT ![s].in = Append(@, loop[s].data)]
    /\ LoopTo(s, "read")
    /\ UNCHANGED <<kind, good, load, wire, broken, task, serve, reader, writer, panic, events>>

(* push: the select of stream.in and done.  A send on a stream.in that is  *)
(* closed is ready as well, and panics.                                    *)
Push(s) ==
    /\ loop[s].at = "push"
    /\ \/ /\ ep[s].eof = "no"
          /\ Len(ep[s].in) < StreamBuffer
          /\ ep' = [ep EXCEPT ![s].in = Append(@, loop[s].data)]
          /\ UNCHANGED panic
       \/ /\ ep[s].done
          /\ panic' = (panic \/ ep[s].eof # "no")
          /\ UNCHANGED ep
    /\ LoopTo(s, "read")
    /\ UNCHANGED <<kind, good, load, wire, broken, task, serve, reader, writer, events>>

-----------------------------------------------------------------------------
(* The environment                                                         *)

(* A peer of another implementation, or the fallback's answer, puts a      *)
(* frame of its own on the wire.                                           *)
Extra(s) ==
    /\ events < MaxEvents
    /\ loop[s].at # "none"
    /\ CanWrite(Peer(s))
    /\ \E command \in {"waste", "heartRequest", "unknown"} \cup
                      (IF s = "client" THEN {"syn"} ELSE {}) :
          wire' = [wire EXCEPT ![s] = Append(@, frame(command, 0))]
    /\ events' = events + 1
    /\ UNCHANGED <<kind, good, load, broken, ep, loop, task, serve, reader, writer, panic>>

Break ==
    /\ events < MaxEvents
    /\ broken' = TRUE
    /\ events' = events + 1
    /\ UNCHANGED <<kind, good, load, wire, ep, loop, task, serve, reader, writer, panic>>

readLoop(s) ==
    \/ ReadFails(s)
    \/ HandleControl(s)
    \/ Answer(s)
    \/ HandleBad(s)
    \/ HandleSyn(s)
    \/ HandleSynAck(s)
    \/ HandlePsh(s)
    \/ HandleFin(s)
    \/ Push(s)

Steps ==
    \/ NewClientSession \/ OpenStream \/ WriteTarget \/ LookForAck \/ WaitAck
    \/ Auth \/ ServeFallback \/ AcceptStream \/ ReadTarget \/ ServeStream
    \/ \E s \in Sides :
          \/ CopyFrom(s) \/ CopyTo(s) \/ RelayEnds(s)
          \/ StreamFin(s) \/ StreamRemove(s) \/ ClientConnClose(s)
          \/ readLoop(s)

Next ==
    \/ Steps
    \/ \E s \in Sides : Extra(s)
    \/ Break

Spec == Init /\ [][Next]_vars

(* Every goroutine that can run eventually does, timers included: no step  *)
(* repeats for ever, so one weak fairness stands for one per goroutine.    *)
FairSpec == Spec /\ WF_vars(Steps)

-----------------------------------------------------------------------------
(* Properties                                                              *)

(* readLoop never sends on a stream.in that a concurrent Close has closed: *)
(* stream.Close takes the stream out of the map before clientConn.Close    *)
(* closes the session, so session.Close finds nothing to close, and on the *)
(* listener only readLoop itself closes the session first                  *)
(* (session.go:216, stream.go:80).                                         *)
NoSendOnClosed == ~panic

(* What a stream reads is what the peer wrote, in order and without a gap, *)
(* and an end of file that a FIN caused comes after all of it, whatever    *)
(* the buffer of the stream and the readers' pace (stream.go:30,           *)
(* session.go:175).                                                        *)
ReadsWhatWasWritten ==
    \A s \in Sides :
        /\ \A i \in 1 .. Len(ep[s].got) : ep[s].got[i] = i
        /\ Len(ep[s].got) <= ep[Peer(s)].sent
        /\ reader[s] = "eof" /\ ep[s].eof = "fin" => Len(ep[s].got) = ep[Peer(s)].sent

Ended(s) ==
    /\ ~ep[s].open
    /\ loop[s].at \in {"none", "end"}
    /\ task[s] \in {"none", "failed", "closed"}
    /\ reader[s] # "run"
    /\ writer[s] # "run"

(* readLoop holds a piece for a full stream that nobody reads any more.    *)
HeadOfLine(s) ==
    /\ loop[s].at = "push"
    /\ Len(ep[s].in) = StreamBuffer
    /\ reader[s] # "run"
    /\ ~ep[s].done

(* A goroutine of s waits in a write for a peer that is there and does not *)
(* read, because its readLoop is held up.                                  *)
Choked(s) ==
    /\ ep[s].open /\ ep[Peer(s)].open /\ ~broken
    /\ Len(wire[Peer(s)]) = WireSize
    /\ HeadOfLine(Peer(s))
    /\ \/ task[s] = "fin"
       \/ writer[s] = "run"
       \/ loop[s].at \in {"heartResponse", "serverSettings", "alert"}

(* The copier of serveUoT waits on a stream that was closed under it.      *)
CopierLeft ==
    /\ kind = "udp"
    /\ reader["server"] = "run"
    /\ task["server"] = "closed"
    /\ ep["server"].eof = "no"

(* A dial that fails, a relay that ends and a connection that breaks all   *)
(* release what they hold: every goroutine ends and the connection is      *)
(* closed.  The code keeps something for ever in three ways: the           *)
(* listener's readLoop is blocked on a full stream whose reader has ended  *)
(* (session.go:170, stream.go:80), in the same way the UDP copier of a     *)
(* stream that serveUoT has closed (server.go:175), and then the other     *)
(* side's Write, which has no deadline, once the connection is full        *)
(* (session.go:104), so that it cannot send its FIN and close.             *)
SessionsEnd ==
    <>[](/\ Ended("client") \/ Choked("client")
         /\ \/ Ended("server") /\ serve = "end"
            \/ HeadOfLine("server")
            \/ CopierLeft
            \/ Choked("server"))

=============================================================================
