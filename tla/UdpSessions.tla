---------------------------- MODULE UdpSessions ----------------------------
(***************************************************************************)
(* The UDP side of the listeners of one package (socks5, ss, tproxy, udp   *)
(* or unix).  A listener goroutine reads packets, looks the source up in   *)
(* the package's table nm, starts a session for a new source and sends     *)
(* the packet into the session's channel.  A session dials, forwards what  *)
(* comes out of its channel, and has a copier goroutine for the replies;   *)
(* when the copier ends, it takes the source out of the table and ends     *)
(* the session.  The table is a variable of the package: all its listeners *)
(* share it.                                                               *)
(***************************************************************************)
EXTENDS Naturals, Sequences

CONSTANTS
    Packages,    \* the packages to look at
    Listeners,   \* the listener goroutines of the package
    Sources,     \* the addresses packets come from
    ChanSize,    \* the capacity of msgCh: 32 in the code
    MaxPackets   \* bound: packets received in all

VARIABLES
    package,   \* the package of the listeners
    nm,        \* nm[k]: the number of the session of source k, 0 if there is none
    sess,      \* the sessions, in the order in which they were made
    lsn,       \* lsn[l]: where listener l is, with the source of its packet and its session
    received   \* packets received so far

udpVars == <<package, nm, sess, lsn, received>>

(* newSession; of the messages in its channel only the number counts.      *)
NewSession(k) == [key |-> k, msgCh |-> 0, at |-> "dial", copier |-> "none", finCh |-> FALSE]

Reading == [at |-> "read", key |-> "none", to |-> 0]

UdpInit ==
    /\ package \in Packages
    /\ nm = [k \in Sources |-> 0]
    /\ sess = <<>>
    /\ lsn = [l \in Listeners |-> Reading]
    /\ received = 0

-----------------------------------------------------------------------------
(* The listener                                                            *)

(* A packet arrives and nm.Load looks for the session of its source.       *)
Load(l) ==
    /\ lsn[l].at = "read"
    /\ received < MaxPackets
    /\ received' = received + 1
    /\ \E k \in Sources :
          lsn' = [lsn EXCEPT ![l] = [at  |-> IF nm[k] = 0 THEN "store" ELSE "send",
                                     key |-> k, to |-> nm[k]]]
    /\ UNCHANGED <<package, nm, sess>>

(* newSession, nm.Store and the go statement.                              *)
Store(l) ==
    LET i == Len(sess) + 1 IN
    /\ lsn[l].at = "store"
    /\ sess' = Append(sess, NewSession(lsn[l].key))
    /\ nm' = [nm EXCEPT ![lsn[l].key] = i]
    /\ lsn' = [lsn EXCEPT ![l].at = "send", ![l].to = i]
    /\ UNCHANGED <<package, received>>

(* session.msgCh <- message: it waits while the channel is full.           *)
Send(l) ==
    /\ lsn[l].at = "send"
    /\ sess[lsn[l].to].msgCh < ChanSize
    /\ sess' = [sess EXCEPT ![lsn[l].to].msgCh = @ + 1]
    /\ lsn' = [lsn EXCEPT ![l] = Reading]
    /\ UNCHANGED <<package, nm, received>>

Serving(l) == Load(l) \/ Store(l) \/ Send(l)

Socks5ServePacket(l) == package = "socks5" /\ Serving(l)
SsServePacket(l) == package = "ss" /\ Serving(l)
TProxyListen(l) == package = "tproxy" /\ Serving(l)
UdpListen(l) == package = "udp" /\ Serving(l)
(* A unix listener with a server of its own leaves its packets to it.      *)
UnixServePacket(l) == package = "unix" /\ Serving(l)

-----------------------------------------------------------------------------
(* The session                                                             *)

(* nm.Delete(key), whatever session the key has by now.                    *)
Delete(k) == nm' = [nm EXCEPT ![k] = 0]

SessionDialFails(i) ==
    /\ sess[i].at = "dial"
    /\ sess' = [sess EXCEPT ![i].at = "failed"]
    /\ Delete(sess[i].key)
    /\ UNCHANGED <<package, lsn, received>>

SessionDialOk(i) ==
    /\ sess[i].at = "dial"
    /\ sess' = [sess EXCEPT ![i].at = "serve", ![i].copier = "run"]
    /\ UNCHANGED <<package, nm, lsn, received>>

(* A slip: the session is told to end while its entry is still there.      *)
CopierEndsEarly(i) ==
    \/ /\ sess[i].copier = "run"
       /\ sess' = [sess EXCEPT ![i].copier = "close", ![i].finCh = TRUE]
       /\ UNCHANGED nm
    \/ /\ sess[i].copier = "close"
       /\ sess' = [sess EXCEPT ![i].copier = "end"]
       /\ Delete(sess[i].key)

(* A slip: the copier takes the entry away and forgets the session.        *)
CopierEndsSilent(i) ==
    /\ sess[i].copier = "run"
    /\ sess' = [sess EXCEPT ![i].copier = "end"]
    /\ Delete(sess[i].key)

(* The copier ends, by its read deadline or an error: nm.Delete, then      *)
(* close(finCh).                                                           *)
CopierEnds(i) ==
    \/ /\ sess[i].copier = "run"
       /\ sess' = [sess EXCEPT ![i].copier = "close"]
       /\ Delete(sess[i].key)
    \/ /\ sess[i].copier = "close"
       /\ sess' = [sess EXCEPT ![i].copier = "end", ![i].finCh = TRUE]
       /\ UNCHANGED nm

(* CopyUDP, with a deadline that grows from 5 seconds to 2 minutes.        *)
CopyUDP(i) == CopierEnds(i) /\ UNCHANGED <<package, lsn, received>>

(* The copier of tproxy, which sends from the address that answered.       *)
TProxyCopy(i) == CopierEnds(i) /\ UNCHANGED <<package, lsn, received>>

(* The loop of a session: a message to forward, or the end, when the       *)
(* deferred dstPC.Close runs.                                              *)
SessionLoop(i) ==
    /\ sess[i].at = "serve"
    /\ \/ /\ sess[i].msgCh > 0
          /\ sess' = [sess EXCEPT ![i].msgCh = @ - 1]
       \/ /\ sess[i].finCh
          /\ sess' = [sess EXCEPT ![i].at = "end"]
    /\ UNCHANGED <<package, nm, lsn, received>>

DialOrServe(i) == SessionDialFails(i) \/ SessionDialOk(i) \/ SessionLoop(i)

Socks5ServeSession(i) == package = "socks5" /\ (DialOrServe(i) \/ CopyUDP(i))
SsServeSession(i) == package = "ss" /\ (DialOrServe(i) \/ CopyUDP(i))
TProxyServeSession(i) == package = "tproxy" /\ (DialOrServe(i) \/ TProxyCopy(i))
UdpServeSession(i) == package = "udp" /\ (DialOrServe(i) \/ CopyUDP(i))
UnixServeSession(i) == package = "unix" /\ (DialOrServe(i) \/ CopyUDP(i))

UdpNext ==
    \/ \E l \in Listeners :
          \/ Socks5ServePacket(l) \/ SsServePacket(l) \/ TProxyListen(l)
          \/ UdpListen(l) \/ UnixServePacket(l)
    \/ \E i \in DOMAIN sess :
          \/ Socks5ServeSession(i) \/ SsServeSession(i) \/ TProxyServeSession(i)
          \/ UdpServeSession(i) \/ UnixServeSession(i)

UdpSpec == UdpInit /\ [][UdpNext]_udpVars

(* Goroutines run and dials return; whether a packet comes is up to the    *)
(* clients.  Packets are bounded, so no step repeats for ever.             *)
UdpSteps ==
    \/ \E l \in Listeners : Store(l) \/ Send(l)
    \/ \E i \in DOMAIN sess : DialOrServe(i) \/ CopyUDP(i) \/ TProxyCopy(i)

-----------------------------------------------------------------------------
(* Properties                                                              *)

(* A session in the table still takes its packets out of its channel, or   *)
(* is about to: an entry is deleted before its session is given up, so no  *)
(* packet is sent to a session that had ended when it was looked up        *)
(* (socks5/server.go:147-158 and the like).                                *)
RegisteredIsServed ==
    \A k \in Sources :
        nm[k] # 0 => sess[nm[k]].at \in {"dial", "serve"} /\ ~sess[nm[k]].finCh

(* Listener l has a packet for a session whose channel is full and that is *)
(* at a given point, where nobody takes packets out any more.              *)
BlockedOn(l, point) ==
    /\ lsn[l].at = "send"
    /\ sess[lsn[l].to].at = point
    /\ sess[lsn[l].to].msgCh = ChanSize

(* With a channel of 32 this takes more packets than that from one source  *)
(* while its dial is under way, and the dial then fails                    *)
(* (socks5/server.go:141-152).                                             *)
StuckOnFailedDial(l) == BlockedOn(l, "failed")

(* The session dialled well, but it forwards more slowly than its packets  *)
(* come; its copier ends by the deadline, and the select takes finCh while *)
(* the channel is full and the listener waits to send                      *)
(* (socks5/server.go:162-173).  No dial has to fail.                       *)
StuckOnEndedSession(l) == BlockedOn(l, "end")

(* Every session ends and gives its connection back, and every listener    *)
(* goes on reading, but for the two ways in which it waits for ever on a   *)
(* session that is over.                                                   *)
UdpGoesOn ==
    <>[](/\ \A i \in DOMAIN sess : sess[i].at \in {"failed", "end"}
         /\ \A l \in Listeners :
               lsn[l].at = "read" \/ StuckOnFailedDial(l) \/ StuckOnEndedSession(l))
=============================================================================
