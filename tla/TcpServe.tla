------------------------------ MODULE TcpServe ------------------------------
(***************************************************************************)
(* What a listener does with one accepted connection: the handshake of its *)
(* protocol, perhaps after a transport (tls, ws, kcp, smux...) that hands  *)
(* the connection to an inner server, the dial, Relay with its two copies  *)
(* and the record of a failure against the forwarder.  "left" is the       *)
(* client's connection, "right" the one through the forwarder.             *)
(*                                                                         *)
(* Data are left out; what counts is how each end finishes, whether it     *)
(* reads, and which error a copy returns: "client" is an error of a tcp or *)
(* unix connection of the client, whose text holds the listener's address, *)
(* "remote" one on the other connection, "plain" an error without an       *)
(* address (a codec's, or that of a vsock, kcp or smux connection of the   *)
(* client), "deadline" os.ErrDeadlineExceeded.                             *)
(***************************************************************************)
EXTENDS Naturals, Sequences

CONSTANTS
    Protocols,    \* the listeners to look at
    Inner,        \* the servers a transport may hand a connection to
    Muxed,        \* the values of "the forwarder's connections are smux streams"
    HasUser,      \* the values of "the listener wants a user and a password"
    HasFallback   \* the values of "trojan and vless have a fallback"

VARIABLES
    lp,        \* the protocol that serves the connection now
    named,     \* whether its address is one that error texts can hold
    codec,     \* whether a codec lies between it and the client's connection
    via,       \* what carries the client's connection: "kernel" is tcp or unix
    mux,       \* whether the forwarder's connections are smux streams
    srv,       \* where Serve is
    end,       \* end[s]: how side s finished, "open" before that
    timed,     \* timed[s]: a read deadline has been put on side s
    closed,    \* closed[s]: side s was closed here
    cp,        \* cp[d]: the copy in direction d; "full" when it waits in a Write
    err,       \* err[d]: the error the copy returned
    body,      \* the goroutine of servHTTP that copies a request's body
    records    \* what was recorded for the forwarder

serveVars == <<lp, named, codec, via, mux, srv, end, timed, closed, cp, err, body, records>>

Both == {"left", "right"}
Ways == {"up", "down"}

Tunnels == {"tcp", "unix", "tls", "ws", "vsock", "kcp", "smux"}

ServeInit ==
    /\ lp \in Protocols
    /\ named = TRUE
    /\ codec \in IF lp = "trojan" THEN BOOLEAN ELSE {lp = "ss"}
    /\ via = "kernel"
    /\ mux \in Muxed
    /\ srv = "start"
    /\ end = [s \in Both |-> "open"]
    /\ timed = [s \in Both |-> FALSE]
    /\ closed = [s \in Both |-> FALSE]
    /\ cp = [d \in Ways |-> "none"]
    /\ err = [d \in Ways |-> "nil"]
    /\ body = "none"
    /\ records = {}

relayVars == <<mux, end, timed, cp, err, body>>

-----------------------------------------------------------------------------
(* Transports and handshakes                                               *)

(* Serve goes on at pc, on the same connection.                            *)
At(pc) == srv' = pc /\ UNCHANGED <<lp, named, codec, via, closed, records>>

(* Serve returns: its deferred calls close what it has opened.             *)
Return ==
    /\ srv' = "end"
    /\ closed' = [s \in Both |-> TRUE]
    /\ UNCHANGED <<lp, named, codec, via, records>>

(* The connection goes to the inner server, whose own address is empty.    *)
HandOver(wrapped) ==
    /\ lp' \in Inner
    /\ named' = FALSE
    /\ codec' = (codec \/ wrapped \/ lp' = "ss")
    /\ UNCHANGED <<srv, closed, records>>

Starts(p) == srv = "start" /\ lp = p

(* A transport without an inner server is a tunnel and dials at once; its  *)
(* handshake, if it has one, comes with the first Read or Write.           *)
Tunnel(p, wrapped, carrier) ==
    /\ Starts(p)
    /\ \/ HandOver(wrapped)
       \/ /\ srv' = "dial"
          /\ codec' = (codec \/ wrapped)
          /\ UNCHANGED <<lp, named, closed, records>>
    /\ via' = carrier

TcpServe == Starts("tcp") /\ At("dial")
UnixServe == Tunnel("unix", FALSE, via)
VsockServe == Tunnel("vsock", FALSE, "vsock")
TlsServe == Tunnel("tls", TRUE, via)
KcpServe == Tunnel("kcp", FALSE, "kcp")
SmuxServeStream == Tunnel("smux", FALSE, "smux")
(* The TLS and the websocket handshake may fail first.                     *)
WsServe == Tunnel("ws", TRUE, via) \/ (Starts("ws") /\ Return)
(* The PROXY header is parsed; there is always an inner server.            *)
PxyProtoServe == Starts("pxyproto") /\ ((HandOver(FALSE) /\ UNCHANGED via) \/ Return)
(* The first byte tells socks5 from http; both have the listener's address.*)
MixedServe ==
    /\ Starts("mixed")
    /\ lp' \in {"socks5", "http"}
    /\ UNCHANGED <<named, codec, via, srv, closed, records>>

(* No target, or the listener's own port: no dial.                         *)
RedirServe == Starts("redir") /\ (At("dial") \/ Return)

(* The greeting and the method; then user and password if there are any,   *)
(* of which an empty or a wrong one is refused; then the request, and the  *)
(* reply before the dial.  UDP ASSOCIATE keeps the connection.             *)
Socks5Handshake ==
    \/ /\ Starts("socks5")
       /\ \/ \E user \in HasUser : At(IF user THEN "auth" ELSE "request")
          \/ Return
    \/ /\ srv = "auth"
       /\ At("request") \/ Return
    \/ /\ srv = "request"
       /\ At("dial") \/ At("hold") \/ Return

(* A target that cannot be read: the rest is discarded, then closed.       *)
SsServe == Starts("ss") /\ (At("dial") \/ At("discard"))

(* readHeader, through a TeeReader: an error goes to the fallback, if any; *)
(* a UDP request without an upstream is served here.                       *)
Headed(p) ==
    /\ Starts(p)
    /\ \/ At("dial")
       \/ At("uot")
       \/ \E fallback \in HasFallback : IF fallback THEN At("fallback") ELSE Return

TrojanServe == Headed("trojan") \/ (Starts("trojan") /\ Return)
VlessServe == Headed("vless")

(* parseRequest, pretend and authentication; then CONNECT or a request.    *)
HttpServe == Starts("http") /\ (At("dial") \/ At("dialHTTP") \/ Return)

(* Data on a socks5 connection kept for UDP ends it, like its end.         *)
Hold == srv = "hold" /\ Return

Discard == srv = "discard" /\ end["left"] # "open" /\ Return

(* A client that leaves in a handshake ends it.                            *)
Handshake ==
    /\ \/ TcpServe \/ UnixServe \/ VsockServe \/ TlsServe \/ KcpServe \/ SmuxServeStream
       \/ WsServe \/ PxyProtoServe \/ MixedServe \/ RedirServe \/ Socks5Handshake
       \/ SsServe \/ TrojanServe \/ VlessServe \/ HttpServe \/ Hold \/ Discard
    /\ UNCHANGED relayVars

-----------------------------------------------------------------------------
(* The dial and what follows it                                            *)

Record(what) == records' = records \cup {what}

StartCopies == cp' = [d \in Ways |-> "run"]

(* The dial fails: only the tunnels record that themselves.                *)
DialFails ==
    /\ srv \in {"dial", "dialHTTP", "fallback"}
    /\ srv' = "end"
    /\ closed' = [s \in Both |-> TRUE]
    /\ IF srv = "dial" /\ lp \in Tunnels THEN Record("dialFailed") ELSE UNCHANGED records
    /\ UNCHANGED <<lp, named, codec, via, relayVars>>

(* proxy.Dial, and Record(true) by socks5 and http.                        *)
DialOk ==
    /\ srv = "dial"
    /\ srv' = "relay"
    /\ StartCopies
    /\ IF lp \in {"socks5", "http"} THEN Record("up") ELSE UNCHANGED records
    /\ UNCHANGED <<lp, named, codec, via, closed, mux, end, timed, err, body>>

(* serveFallback replays the bytes already read, then relays.              *)
ServeFallback ==
    /\ srv = "fallback"
    /\ srv' = "relayFallback"
    /\ StartCopies
    /\ UNCHANGED <<lp, named, codec, via, closed, records, mux, end, timed, err, body>>

(* SetReadDeadline, which does nothing on a vsock connection.              *)
TakesDeadline(s) == ~(s = "left" /\ via = "vsock")

(* Side s lets a Read or Write on it fail: the peer has reset it, or it was *)
(* closed here, which does not wake a Read of a vsock connection.          *)
Gone(s) == end[s] = "reset" \/ (closed[s] /\ TakesDeadline(s))

(* ServeUoT: CopyUDP in both directions with read deadlines on both ends.  *)
ServeUoT ==
    /\ srv = "uot"
    /\ srv' = "relayUDP"
    /\ StartCopies
    /\ timed' = [s \in Both |-> TakesDeadline(s)]
    /\ UNCHANGED <<lp, named, codec, via, closed, records, mux, end, err, body>>

(* servHTTP sends the request and starts the goroutine for its body.       *)
ServHTTP ==
    /\ srv = "dialHTTP"
    /\ srv' = "response"
    /\ Record("up")
    /\ body' = "peek"
    /\ UNCHANGED <<lp, named, codec, via, closed, mux, end, timed, cp, err>>

(* The body's goroutine has a first byte and copies; its Write waits while *)
(* the remote end does not read; or it fails.                              *)
BodyGoesOn ==
    /\ \/ body = "peek" /\ body' = "copy"
       \/ body = "copy" /\ ~Gone("right") /\ body' = "full"
       \/ body = "full" /\ body' = "copy"
    /\ UNCHANGED <<lp, named, codec, via, mux, srv, end, timed, closed, cp, err, records>>

(* Without a first byte it just ends; the end of its copy puts expired     *)
(* deadlines on both connections.                                          *)
BodyEnds ==
    /\ \/ body \in {"peek", "copy"} /\ (end["left"] # "open" \/ Gone("left"))
       \/ body \in {"copy", "full"} /\ Gone("right")
    /\ body' = "end"
    /\ timed' = [s \in Both |-> timed[s] \/ (body # "peek" /\ TakesDeadline(s))]
    /\ UNCHANGED <<lp, named, codec, via, mux, srv, end, closed, cp, err, records>>

(* The response is read until its end, an error or the deadline.           *)
Response ==
    /\ \/ srv = "response" /\ (end["right"] # "open" \/ timed["right"])
       \/ srv = "answer" /\ (Gone("left") \/ timed["left"])
    /\ Return
    /\ UNCHANGED relayVars

(* What the remote end sends: a bad start line or header, something that   *)
(* cannot be written to a client that is gone, or more than the client     *)
(* reads, so that the Write waits.                                         *)
ResponseData ==
    /\ \/ srv = "response" /\ (Return \/ At("answer"))
       \/ srv = "answer" /\ At("response")
    /\ UNCHANGED relayVars

-----------------------------------------------------------------------------
(* Relay                                                                   *)

From(d) == IF d = "up" THEN "left" ELSE "right"
To(d)   == IF d = "up" THEN "right" ELSE "left"

Failure(s) ==
    IF s = "right" THEN "remote" ELSE IF via = "kernel" THEN "client" ELSE "plain"

(* An expired deadline: the error of a smux stream is one of its own, and  *)
(* kcp's (a library) may be.                                               *)
Expiry(s) ==
    CASE s = "left" /\ via = "smux" -> {"plain"}
      [] s = "left" /\ via = "kcp"  -> {"plain", "deadline"}
      [] s = "right" /\ mux         -> {"plain"}
      [] OTHER                      -> {"deadline"}

Broken(s) == IF Gone(s) THEN {Failure(s)} ELSE {}

(* What ends the Read, or the Write that waits, of the copy in direction d.*)
BlockedErrors(d) ==
    IF cp[d] = "full" THEN Broken(To(d))
    ELSE (IF end[From(d)] = "eof" THEN {"nil"} ELSE {})
         \cup Broken(From(d))
         \cup (IF timed[From(d)] THEN Expiry(From(d)) ELSE {})

(* With what it copies it may also fail to write, and the codec on the     *)
(* client's side may refuse what comes or, in its handshake, fail.         *)
DataErrors(d) == Broken(To(d)) \cup (IF codec THEN {"plain"} ELSE {})

(* A slip: the copy that ends leaves the other one alone.                  *)
UnblockNone(d) == UNCHANGED timed

(* SetReadDeadline on the end the other copy reads from.                   *)
Unblock(d) == timed' = [timed EXCEPT ![To(d)] = TakesDeadline(To(d))]

(* A copy ends with error e.                                               *)
CopyEnds(d, e) ==
    /\ err' = [err EXCEPT ![d] = e]
    /\ cp' = [cp EXCEPT ![d] = "end"]
    /\ IF srv = "relayUDP" THEN UNCHANGED timed ELSE Unblock(d)
    /\ UNCHANGED <<lp, named, codec, via, mux, srv, end, closed, body, records>>

Copy(d) ==
    /\ cp[d] \in {"run", "full"}
    /\ \E e \in BlockedErrors(d) : CopyEnds(d, e)

CopyFails(d) ==
    /\ cp[d] = "run"
    /\ \E e \in DataErrors(d) : CopyEnds(d, e)

(* The copy's Write waits while the end it writes to does not read.        *)
Stall(d) ==
    /\ \/ cp[d] = "run" /\ ~Gone(To(d)) /\ cp' = [cp EXCEPT ![d] = "full"]
       \/ cp[d] = "full" /\ cp' = [cp EXCEPT ![d] = "run"]
    /\ UNCHANGED <<lp, named, codec, via, mux, srv, end, timed, closed, err, body, records>>

(* What Relay returns: err1, then err, and no expired deadline.            *)
RelayError(e1, e2) ==
    IF e1 \notin {"nil", "deadline"} THEN e1
    ELSE IF e2 \notin {"nil", "deadline"} THEN e2
    ELSE "nil"

(* A slip: every error counts against the forwarder.                       *)
BlamesAny(e) == e # "nil"

(* strings.Contains(err.Error(), s.addr): an empty address is in any text. *)
Blames(e) == e # "nil" /\ named /\ e # "client"

(* Relay returns; the error may count against the forwarder, but not after *)
(* a fallback.  The deferred calls close both connections.                 *)
RelayEnds ==
    /\ srv \in {"relay", "relayFallback"}
    /\ \A d \in Ways : cp[d] = "end"
    /\ srv' = IF srv = "relay" THEN "relayed" ELSE "end"
    /\ closed' = [s \in Both |-> TRUE]
    /\ IF srv = "relay" /\ Blames(RelayError(err["up"], err["down"]))
       THEN Record("relayFailed") ELSE UNCHANGED records
    /\ UNCHANGED <<lp, named, codec, via, relayVars>>

(* ServeUoT returns when its own copy ends and closes both ends.           *)
UoTEnds ==
    /\ srv = "relayUDP"
    /\ cp["down"] = "end"
    /\ Return
    /\ UNCHANGED relayVars

-----------------------------------------------------------------------------
(* The two ends                                                            *)

Ends(s) ==
    /\ end[s] = "open"
    /\ s = "left" \/ srv \in {"relay", "relayFallback", "response", "answer"}
    /\ \E how \in {"eof", "reset"} : end' = [end EXCEPT ![s] = how]
    /\ UNCHANGED <<lp, named, codec, via, mux, srv, timed, closed, cp, err, body, records>>

ServeSteps ==
    \/ Handshake
    \/ DialFails \/ DialOk \/ ServeFallback \/ ServeUoT
    \/ ServHTTP \/ BodyEnds \/ Response
    \/ \E d \in Ways : Copy(d)
    \/ RelayEnds \/ UoTEnds

(* What the two ends send, or do not read, and how they finish.            *)
Peers ==
    \/ BodyGoesOn \/ ResponseData
    \/ \E d \in Ways : CopyFails(d) \/ Stall(d)
    \/ \E s \in Both : Ends(s)

ServeNext == ServeSteps \/ Peers

ServeSpec == ServeInit /\ [][ServeNext]_serveVars

-----------------------------------------------------------------------------
(* Properties                                                              *)

(* A relay counts against the forwarder only if the remote connection      *)
(* failed ("record remote conn failure only"), but for errors whose text   *)
(* has no address: those of a codec on the client's side (tls, ws, ss,     *)
(* trojan: a client that fails the handshake of a tls tunnel is taken for  *)
(* the forwarder), those of a vsock, kcp or smux connection of the client, *)
(* and the timeout of a smux stream of the forwarder.  And a failure of    *)
(* the remote connection that one of the copies ran into does count,       *)
(* whichever copy it was and although the other one then ends by its       *)
(* deadline, unless the client failed as well or an inner server, whose    *)
(* address is empty, did the relay (socks5/server.go:94-100,               *)
(* conn.go:55-78).                                                         *)
RelayBlame ==
    /\ "relayFailed" \in records
          => end["right"] = "reset" \/ codec \/ via # "kernel" \/ mux
    /\ srv = "relayed" /\ "remote" \in {err[d] : d \in Ways} /\ end["left"] # "reset" /\ named
          => "relayFailed" \in records

(* servHTTP waits for a response without a deadline: the client has left   *)
(* without sending a body, so nothing has put one on the connections.      *)
WaitsForResponse ==
    srv = "response" /\ body = "end" /\ end["right"] = "open" /\ ~timed["right"]

(* A Write waits for an end that is there and does not read; the deadlines *)
(* that Relay sets are for reads.                                          *)
WaitsForReader ==
    \/ \E d \in Ways : cp[d] = "full" /\ ~Gone(To(d))
    \/ body = "full" /\ ~Gone("right")
    \/ srv = "answer" /\ ~Gone("left")

(* A Read of a vsock connection waits for a client that is there: it has   *)
(* no deadline, and closing it does not wake the Read.                     *)
WaitsForVsockClient ==
    /\ via = "vsock"
    /\ end["left"] = "open"
    /\ cp["up"] = "run" \/ body \in {"peek", "copy"}

(* When one end of a connection has finished, the connection is at last    *)
(* given up within the deadlines: both copies end, Serve returns and both  *)
(* ends are closed, and no goroutine is left behind (conn.go:55-78).  Three *)
(* things hold it as long as the other end likes: a plain HTTP request     *)
(* whose client has left while the server behind the forwarder is silent   *)
(* (http/server.go:129-142), a Write to an end that does not read, and a   *)
(* client on a vsock connection (vsock/socket.go:198).                     *)
ServeEnds ==
    <>[]((\E s \in Both : end[s] # "open")
           => \/ /\ srv \in {"end", "relayed"}
                 /\ \A d \in Ways : cp[d] \notin {"run", "full"}
                 /\ body \in {"none", "end"}
              \/ WaitsForResponse \/ WaitsForReader \/ WaitsForVsockClient)
=============================================================================
