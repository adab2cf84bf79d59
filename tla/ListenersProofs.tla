-------------------------- MODULE ListenersProofs --------------------------
(***************************************************************************)
(* Theorems about what listens to clients, for any constants: the UDP      *)
(* sessions (UdpSessions), a relayed connection (TcpServe), the dns        *)
(* forwarder and its cache (Dns, LruCache) and the dhcp service (Dhcp),    *)
(* and that the composition of them in Listeners behaves as each of them.  *)
(***************************************************************************)
EXTENDS Listeners, FiniteSetTheorems, SequenceTheorems, WellFoundedInduction, TLAPS

-----------------------------------------------------------------------------
(***************************************************************************)
(* UDP sessions: any number of listeners, sources and packets and any size *)
(* of a channel.                                                           *)
(***************************************************************************)
Session ==
    [key : Sources, msgCh : Nat, at : {"dial", "serve", "failed", "end"},
     copier : {"none", "run", "close", "end"}, finCh : BOOLEAN]

(* The types of the table, of the sessions and of a packet under way.      *)
UdpTypeOK ==
    /\ sess \in Seq(Session)
    /\ nm \in [Sources -> Nat]
    /\ \A k \in Sources : nm[k] # 0 => nm[k] \in 1..Len(sess)
    /\ lsn \in [Listeners -> [at : {"read", "store", "send"}, key : Sources \cup {"none"}, to : Nat]]
    /\ \A l \in Listeners :
          /\ lsn[l].at = "store" => lsn[l].key \in Sources
          /\ lsn[l].at = "send" => lsn[l].to \in 1..Len(sess)

(* A session is told to end only by its copier, when that is through, and  *)
(* has no copier during its dial.                                          *)
ToldByCopier ==
    \A i \in 1..Len(sess) :
        /\ sess[i].copier # "end" => ~sess[i].finCh /\ sess[i].at # "end"
        /\ sess[i].at = "dial" => sess[i].copier = "none"

(* An entry of the table is a session of the entry's source, which is      *)
(* still at its dial or whose copier has not begun to end it.              *)
EntryLives ==
    \A k \in Sources :
        nm[k] # 0 => /\ sess[nm[k]].key = k
                     /\ sess[nm[k]].at \in {"dial", "serve"}
                     /\ sess[nm[k]].copier \in {"none", "run"}

(* The inductive invariant.                                                *)
UdpInv == UdpTypeOK /\ ToldByCopier /\ EntryLives

-----------------------------------------------------------------------------
(* A session of which only the messages change: what a Send does, and the  *)
(* loop of a session that takes one.                                       *)
LEMMA MessagesOnly ==
    ASSUME UdpInv, NEW i \in 1..Len(sess), NEW n \in Nat,
           sess' = [sess EXCEPT ![i].msgCh = n], UNCHANGED nm,
           lsn' \in [Listeners -> [at : {"read", "store", "send"}, key : Sources \cup {"none"},
                                   to : Nat]],
           \A l \in Listeners : lsn'[l] = lsn[l] \/ lsn'[l].at = "read"
    PROVE  UdpInv'
  <1>1. UdpTypeOK /\ ToldByCopier /\ EntryLives
    BY DEF UdpInv
  <1>2. sess' \in Seq(Session) /\ Len(sess') = Len(sess)
    <2>1. sess \in Seq(Session) /\ sess[i] \in Session
      BY <1>1 DEF UdpTypeOK
    <2>2. [sess[i] EXCEPT !.msgCh = n] \in Session
      BY <2>1 DEF Session
    <2>3. QED
      BY <2>1, <2>2
  <1>3. ASSUME NEW j \in 1..Len(sess)
        PROVE  /\ sess'[j].key = sess[j].key /\ sess'[j].at = sess[j].at
               /\ sess'[j].copier = sess[j].copier /\ sess'[j].finCh = sess[j].finCh
    BY <1>1 DEF UdpTypeOK, Session
  <1>4. UdpTypeOK'
    BY <1>1, <1>2 DEF UdpTypeOK
  <1>5. ToldByCopier'
    BY <1>1, <1>2, <1>3 DEF ToldByCopier
  <1>6. EntryLives'
    BY <1>1, <1>3 DEF EntryLives, UdpTypeOK
  <1>7. QED
    BY <1>4, <1>5, <1>6 DEF UdpInv

(* A listener keeps the invariant: a new session is fresh, and of the      *)
(* source under which it is stored.                                        *)
LEMMA ServingStep ==
    ASSUME UdpInv, NEW l \in Listeners, Serving(l)
    PROVE  UdpInv'
  <1>0. UdpTypeOK /\ ToldByCopier /\ EntryLives
    BY DEF UdpInv
  <1>1. CASE Load(l)
    <2>1. PICK k \in Sources :
              lsn' = [lsn EXCEPT ![l] = [at  |-> IF nm[k] = 0 THEN "store" ELSE "send",
                                         key |-> k, to |-> nm[k]]]
      BY <1>1 DEF Load
    <2>2. nm' = nm /\ sess' = sess
      BY <1>1 DEF Load
    <2>3. UdpTypeOK'
      BY <1>0, <2>1, <2>2 DEF UdpTypeOK
    <2>4. QED
      BY <1>0, <2>2, <2>3 DEF UdpInv, ToldByCopier, EntryLives
  <1>2. CASE Store(l)
    <2> DEFINE i == Len(sess) + 1
    <2>1. lsn[l].key \in Sources
      BY <1>0, <1>2 DEF Store, UdpTypeOK
    <2>2. NewSession(lsn[l].key) \in Session
      BY <2>1 DEF NewSession, Session
    <2>3. /\ sess' \in Seq(Session) /\ Len(sess') = i /\ i \in Nat \ {0}
          /\ sess'[i] = NewSession(lsn[l].key)
          /\ \A j \in 1..Len(sess) : sess'[j] = sess[j]
      BY <1>0, <1>2, <2>2 DEF Store, UdpTypeOK
    <2>4. nm' = [nm EXCEPT ![lsn[l].key] = i]
      BY <1>2 DEF Store
    <2>5. lsn' = [lsn EXCEPT ![l].at = "send", ![l].to = i]
      BY <1>2 DEF Store
    <2>6. UdpTypeOK'
      <3> HIDE DEF i
      <3>1. 1..Len(sess) \subseteq 1..i /\ i \in 1..i /\ Len(sess) \in Nat
        BY <1>0, <2>3 DEF i, UdpTypeOK
      <3>2. nm' \in [Sources -> Nat] /\ \A k \in Sources : nm'[k] # 0 => nm'[k] \in 1..i
        BY <1>0, <2>1, <2>3, <2>4, <3>1 DEF UdpTypeOK
      <3>3. /\ lsn' \in [Listeners -> [at : {"read", "store", "send"},
                                        key : Sources \cup {"none"}, to : Nat]]
            /\ \A m \in Listeners :
                  /\ lsn'[m].at = "store" => lsn'[m].key \in Sources
                  /\ lsn'[m].at = "send" => lsn'[m].to \in 1..i
        <4>1. lsn[l] \in [at : {"read", "store", "send"}, key : Sources \cup {"none"}, to : Nat]
          BY <1>0 DEF UdpTypeOK
        <4> DEFINE r == [lsn[l] EXCEPT !.at = "send", !.to = i]
        <4>2. /\ r \in [at : {"read", "store", "send"}, key : Sources \cup {"none"}, to : Nat]
              /\ r.at = "send" /\ r.to = i
          BY <2>3, <4>1
        <4>3. lsn' = [lsn EXCEPT ![l] = r]
          BY <2>5
        <4> HIDE DEF r
        <4>4. QED
          BY <1>0, <3>1, <4>2, <4>3 DEF UdpTypeOK
      <3>4. QED
        BY <2>3, <3>2, <3>3 DEF UdpTypeOK
    <2>7. ToldByCopier'
      <3>1. ASSUME NEW j \in 1..i
            PROVE  /\ sess'[j].copier # "end" => ~sess'[j].finCh /\ sess'[j].at # "end"
                   /\ sess'[j].at = "dial" => sess'[j].copier = "none"
        <4>1. CASE j = i
          BY <2>3, <4>1 DEF NewSession
        <4>2. CASE j # i
          BY <1>0, <2>3, <4>2 DEF ToldByCopier, UdpTypeOK
        <4>3. QED
          BY <4>1, <4>2
      <3>2. QED
        BY <2>3, <3>1 DEF ToldByCopier
    <2>8. EntryLives'
      BY <1>0, <2>1, <2>3, <2>4 DEF EntryLives, NewSession, UdpTypeOK
    <2>9. QED
      BY <2>6, <2>7, <2>8 DEF UdpInv
  <1>3. CASE Send(l)
    <2>0. lsn[l].to \in 1..Len(sess)
      BY <1>0, <1>3 DEF Send, UdpTypeOK
    <2>1. sess[lsn[l].to].msgCh + 1 \in Nat
      <3>1. sess[lsn[l].to] \in Session
        BY <1>0, <2>0 DEF UdpTypeOK
      <3>2. QED
        BY <3>1 DEF Session
    <2>2. lsn' = [lsn EXCEPT ![l] = Reading]
      BY <1>3 DEF Send
    <2>3. /\ lsn' \in [Listeners -> [at : {"read", "store", "send"}, key : Sources \cup {"none"},
                                      to : Nat]]
          /\ \A m \in Listeners : lsn'[m] = lsn[m] \/ lsn'[m].at = "read"
      BY <1>0, <2>2 DEF Reading, UdpTypeOK
    <2>4. QED
      BY <1>3, <2>0, <2>1, <2>3, MessagesOnly DEF Send
  <1>4. QED
    BY <1>1, <1>2, <1>3 DEF Serving

(* The end of a session's dial, of its copier or of itself: session i      *)
(* changes otherwise than in its messages, and its entry is deleted unless *)
(* it stays as EntryLives wants it.                                        *)
LEMMA SessionChanges ==
    ASSUME UdpInv, UNCHANGED lsn, NEW i \in 1..Len(sess), NEW s \in Session,
           sess' = [sess EXCEPT ![i] = s], s.key = sess[i].key,
           s.copier # "end" => ~s.finCh /\ s.at # "end", s.at = "dial" => s.copier = "none",
           \/ UNCHANGED nm /\ s.at \in {"dial", "serve"} /\ s.copier \in {"none", "run"}
           \/ UNCHANGED nm /\ \A k \in Sources : nm[k] # i
           \/ Delete(s.key)
    PROVE  UdpInv'
  <1>1. UdpTypeOK /\ ToldByCopier /\ EntryLives
    BY DEF UdpInv
  <1>2. /\ sess' \in Seq(Session) /\ Len(sess') = Len(sess)
        /\ sess'[i] = s /\ \A j \in 1..Len(sess) : j # i => sess'[j] = sess[j]
    BY <1>1 DEF UdpTypeOK
  <1>3. s.key \in Sources
    BY DEF Session
  <1>4. nm' \in [Sources -> Nat] /\ \A k \in Sources : nm'[k] \in {0, nm[k]}
    BY <1>1, <1>3 DEF UdpTypeOK, Delete
  <1>5. UdpTypeOK'
    BY <1>1, <1>2, <1>4 DEF UdpTypeOK
  <1>6. ToldByCopier'
    BY <1>1, <1>2 DEF ToldByCopier
  <1>7. ASSUME NEW k \in Sources, nm'[k] # 0
        PROVE  /\ sess'[nm'[k]].key = k
               /\ sess'[nm'[k]].at \in {"dial", "serve"}
               /\ sess'[nm'[k]].copier \in {"none", "run"}
    <2>1. nm'[k] = nm[k] /\ nm[k] # 0 /\ nm[k] \in 1..Len(sess) /\ sess[nm[k]].key = k
      BY <1>1, <1>4, <1>7 DEF UdpTypeOK, EntryLives
    <2>2. CASE nm[k] # i
      BY <1>1, <1>2, <2>1, <2>2 DEF EntryLives
    <2>3. CASE nm[k] = i
      <3>1. ~Delete(s.key)
        BY <1>1, <1>7, <2>1, <2>3 DEF Delete, UdpTypeOK
      <3>2. QED
        BY <1>2, <2>1, <2>3, <3>1
    <2>4. QED
      BY <2>2, <2>3
  <1>8. QED
    BY <1>5, <1>6, <1>7 DEF UdpInv, EntryLives

(* A session and its copier keep the invariant: the entry is deleted       *)
(* before the session is told to end.                                      *)
LEMMA SessionStep ==
    ASSUME UdpInv, NEW i \in DOMAIN sess, DialOrServe(i) \/ CopyUDP(i)
    PROVE  UdpInv'
  <1>0. UdpTypeOK /\ ToldByCopier /\ EntryLives
    BY DEF UdpInv
  <1>a. i \in 1..Len(sess) /\ sess[i] \in Session
    BY <1>0 DEF UdpTypeOK
  <1>b. /\ sess[i].copier # "end" => ~sess[i].finCh /\ sess[i].at # "end"
        /\ sess[i].at = "dial" => sess[i].copier = "none"
    BY <1>0, <1>a DEF ToldByCopier
  <1>1. CASE SessionDialFails(i)
    <2> DEFINE s == [sess[i] EXCEPT !.at = "failed"]
    <2>1. /\ s \in Session /\ s.key = sess[i].key /\ s.at = "failed"
          /\ s.copier = sess[i].copier /\ s.finCh = sess[i].finCh
      BY <1>a DEF Session
    <2>2. sess' = [sess EXCEPT ![i] = s] /\ UNCHANGED lsn /\ Delete(s.key)
      BY <1>1, <2>1 DEF SessionDialFails
    <2> HIDE DEF s
    <2>3. QED
      BY <1>a, <1>b, <2>1, <2>2, SessionChanges
  <1>2. CASE SessionDialOk(i)
    <2> DEFINE s == [sess[i] EXCEPT !.at = "serve", !.copier = "run"]
    <2>1. /\ s \in Session /\ s.key = sess[i].key /\ s.at = "serve" /\ s.copier = "run"
          /\ s.finCh = sess[i].finCh
      BY <1>a DEF Session
    <2>2. sess' = [sess EXCEPT ![i] = s] /\ UNCHANGED lsn /\ UNCHANGED nm
      BY <1>2 DEF SessionDialOk
    <2>3. ~s.finCh
      BY <1>b, <1>2, <2>1 DEF SessionDialOk
    <2> HIDE DEF s
    <2>4. QED
      BY <1>a, <2>1, <2>2, <2>3, SessionChanges
  <1>3. CASE CopyUDP(i)
    <2>1. CASE sess[i].copier = "run"
      <3> DEFINE s == [sess[i] EXCEPT !.copier = "close"]
      <3>1. s \in Session /\ s.key = sess[i].key /\ s.at = sess[i].at /\ s.finCh = sess[i].finCh
        BY <1>a DEF Session
      <3>2. sess' = [sess EXCEPT ![i] = s] /\ UNCHANGED lsn /\ Delete(s.key)
        BY <1>3, <2>1, <3>1 DEF CopyUDP, CopierEnds
      <3>3. s.at \notin {"dial", "end"} /\ ~s.finCh
        BY <1>b, <2>1, <3>1
      <3> HIDE DEF s
      <3>4. QED
        BY <1>a, <3>1, <3>2, <3>3, SessionChanges
    <2>2. CASE sess[i].copier = "close"
      <3> DEFINE s == [sess[i] EXCEPT !.copier = "end", !.finCh = TRUE]
      <3>1. s \in Session /\ s.key = sess[i].key /\ s.copier = "end" /\ s.at = sess[i].at
        BY <1>a DEF Session
      <3>2. sess' = [sess EXCEPT ![i] = s] /\ UNCHANGED lsn /\ UNCHANGED nm
        BY <1>3, <2>2 DEF CopyUDP, CopierEnds
      <3>3. \A k \in Sources : nm[k] # i
        BY <1>0, <1>a, <2>2 DEF EntryLives
      <3> HIDE DEF s
      <3>4. QED
        BY <1>a, <1>b, <2>2, <3>1, <3>2, <3>3, SessionChanges
    <2>3. QED
      BY <1>3, <2>1, <2>2 DEF CopyUDP, CopierEnds
  <1>4. CASE SessionLoop(i)
    <2>1. CASE sess[i].msgCh > 0 /\ sess' = [sess EXCEPT ![i].msgCh = @ - 1]
      <3>1. sess[i].msgCh - 1 \in Nat
        BY <1>a, <2>1 DEF Session
      <3>2. UNCHANGED nm /\ UNCHANGED lsn
        BY <1>4 DEF SessionLoop
      <3>3. QED
        BY <1>0, <1>a, <2>1, <3>1, <3>2, MessagesOnly DEF UdpTypeOK
    <2>2. CASE sess[i].finCh /\ sess' = [sess EXCEPT ![i].at = "end"]
      <3> DEFINE s == [sess[i] EXCEPT !.at = "end"]
      <3>1. s \in Session /\ s.key = sess[i].key /\ s.copier = sess[i].copier /\ s.at = "end"
        BY <1>a DEF Session
      <3>2. sess' = [sess EXCEPT ![i] = s] /\ UNCHANGED lsn /\ UNCHANGED nm
        BY <1>4, <2>2 DEF SessionLoop
      <3>3. sess[i].copier = "end" /\ \A k \in Sources : nm[k] # i
        BY <1>0, <1>a, <1>b, <2>2 DEF EntryLives
      <3> HIDE DEF s
      <3>4. QED
        BY <1>a, <3>1, <3>2, <3>3, SessionChanges
    <2>3. QED
      BY <1>4, <2>1, <2>2 DEF SessionLoop
  <1>5. QED
    BY <1>1, <1>2, <1>3, <1>4 DEF DialOrServe

-----------------------------------------------------------------------------
(* The invariant holds in every state.                                     *)
THEOREM UdpInvariant == UdpSpec => []UdpInv
  <1>1. UdpInit => UdpInv
    BY DEF UdpInit, UdpInv, UdpTypeOK, ToldByCopier, EntryLives, Reading
  <1>2. UdpInv /\ [UdpNext]_udpVars => UdpInv'
    <2>1. SUFFICES ASSUME UdpInv, [UdpNext]_udpVars
                   PROVE  UdpInv'
      OBVIOUS
    <2>2. ASSUME NEW l \in Listeners, Serving(l)
          PROVE  UdpInv'
      BY <2>1, <2>2, ServingStep
    <2>3. ASSUME NEW i \in DOMAIN sess, DialOrServe(i) \/ CopyUDP(i) \/ TProxyCopy(i)
          PROVE  UdpInv'
      BY <2>1, <2>3, SessionStep DEF CopyUDP, TProxyCopy
    <2>4. CASE UNCHANGED udpVars
      BY <2>1, <2>4 DEF udpVars, UdpInv, UdpTypeOK, ToldByCopier, EntryLives
    <2>5. QED
      BY <2>1, <2>2, <2>3, <2>4
         DEF UdpNext, Socks5ServePacket, SsServePacket, TProxyListen, UdpListen,
             UnixServePacket, Socks5ServeSession, SsServeSession, TProxyServeSession,
             UdpServeSession, UnixServeSession
  <1>3. QED
    BY <1>1, <1>2, PTL DEF UdpSpec

(* A session that the table names is at its dial or serves, and has not    *)
(* been told to end, so no listener starts to send to a session that is    *)
(* over (socks5/server.go:147-158 and the like).                           *)
THEOREM RegisteredIsServedHolds == UdpSpec => []RegisteredIsServed
  <1>1. UdpInv => RegisteredIsServed
    BY DEF UdpInv, UdpTypeOK, ToldByCopier, EntryLives, RegisteredIsServed
  <1>2. QED
    BY <1>1, UdpInvariant, PTL

-----------------------------------------------------------------------------
(***************************************************************************)
(* A relayed connection: any listeners, inner servers and forwarders.      *)
(***************************************************************************)
ServeTypeOK ==
    /\ end \in [Both -> {"open", "eof", "reset"}]
    /\ closed \in [Both -> BOOLEAN] /\ timed \in [Both -> BOOLEAN]
    /\ cp \in [Ways -> {"none", "run", "full", "end"}]
    /\ err \in [Ways -> {"nil", "client", "remote", "plain", "deadline"}]

\* Before a relay there is no copy, and no connection is closed before Serve is
\* through with it: an error of a copy that Relay waits for is never one that
\* Serve has caused.  Relay waits for both copies.
Stages ==
    /\ srv \notin {"relay", "relayFallback", "relayUDP", "relayed", "end"} =>
          \A d \in Ways : cp[d] = "none" /\ err[d] = "nil"
    /\ srv \notin {"relayed", "end"} => \A s \in Both : ~closed[s]
    /\ srv = "relayed" => \A d \in Ways : cp[d] = "end"
    /\ "relayFailed" \in records => srv = "relayed"

\* The cause of an error that Relay may return.
Caused(e) ==
    /\ e = "remote" => end["right"] = "reset"
    /\ e = "client" => end["left"] = "reset"
    /\ e = "plain" => codec \/ mux \/ via # "kernel"

ErrorsCaused == srv \in {"relay", "relayed"} => \A d \in Ways : Caused(err[d])

\* The inductive invariant.
ServeInv == ServeTypeOK /\ Stages /\ ErrorsCaused /\ RelayBlame

-----------------------------------------------------------------------------
(* A relayed connection: the invariant is inductive.                       *)

Early == {"start", "auth", "request", "dial", "hold", "discard", "uot", "fallback", "dialHTTP"}

\* What a handshake does: it goes on before the relay, or Serve returns.
LEMMA HandshakeEffect ==
    ASSUME Handshake
    PROVE  /\ srv \in Early /\ records' = records
           /\ UNCHANGED <<mux, end, timed, cp, err>>
           /\ \/ srv' \in Early /\ closed' = closed
              \/ srv' = "end" /\ closed' = [s \in Both |-> TRUE]
  <1> USE DEF At, Return, HandOver, Starts, Tunnel, Early
  <1> DEFINE Effect ==
         /\ srv \in Early /\ records' = records
         /\ \/ srv' \in Early /\ closed' = closed
            \/ srv' = "end" /\ closed' = [s \in Both |-> TRUE]
  <1>1. TcpServe \/ UnixServe \/ VsockServe \/ TlsServe \/ KcpServe \/ SmuxServeStream => Effect
    BY DEF TcpServe, UnixServe, VsockServe, TlsServe, KcpServe, SmuxServeStream
  <1>2. WsServe \/ PxyProtoServe \/ MixedServe \/ RedirServe \/ SsServe \/ HttpServe => Effect
    BY DEF WsServe, PxyProtoServe, MixedServe, RedirServe, SsServe, HttpServe
  <1>3. Socks5Handshake => Effect
    BY DEF Socks5Handshake
  <1>4. TrojanServe \/ VlessServe => Effect
    BY DEF TrojanServe, VlessServe, Headed
  <1>5. Hold \/ Discard => Effect
    BY DEF Hold, Discard
  <1>6. UNCHANGED <<mux, end, timed, cp, err>>
    BY DEF Handshake, relayVars
  <1>7. QED
    BY <1>1, <1>2, <1>3, <1>4, <1>5, <1>6 DEF Handshake

LEMMA ServeInitInv == ServeInit => ServeInv
  BY DEF ServeInit, ServeInv, ServeTypeOK, Stages, ErrorsCaused, RelayBlame, Early

\* A step after which Serve is at an early stage, or at its end without a relay:
\* no error counts.
LEMMA NoRelay ==
    ASSUME ServeInv, ServeTypeOK', srv \notin {"relayed"}, records' \subseteq records \cup {"up", "dialFailed"},
           srv' \notin {"relay", "relayed"},
           srv' \notin {"relayFallback", "relayUDP", "end"} =>
              \A d \in Ways : cp'[d] = "none" /\ err'[d] = "nil",
           srv' # "end" => \A s \in Both : ~closed'[s]
    PROVE  ServeInv'
  <1>1. "relayFailed" \notin records /\ "relayFailed" \notin records'
    BY DEF ServeInv, Stages
  <1>2. QED
    BY <1>1 DEF ServeInv, Stages, ErrorsCaused, RelayBlame

LEMMA HandshakeInv == ServeInv /\ Handshake => ServeInv'
  <1> SUFFICES ASSUME ServeInv, Handshake PROVE ServeInv'
    OBVIOUS
  <1>1. /\ srv \in Early /\ records' = records
        /\ UNCHANGED <<mux, end, timed, cp, err>>
        /\ \/ srv' \in Early /\ closed' = closed
           \/ srv' = "end" /\ closed' = [s \in Both |-> TRUE]
    BY HandshakeEffect
  <1>2. ServeTypeOK'
    BY <1>1 DEF ServeInv, ServeTypeOK
  <1>3. /\ \A d \in Ways : cp[d] = "none" /\ err[d] = "nil"
        /\ \A s \in Both : ~closed[s]
    BY <1>1 DEF ServeInv, Stages, Early
  <1>4. srv # "relayed" /\ srv' \notin {"relay", "relayed"}
    BY <1>1 DEF Early
  <1>5. QED
    BY <1>1, <1>2, <1>3, <1>4, NoRelay

\* The dial and what follows it, but for the relay.
LEMMA DialInv == ServeInv /\ (DialFails \/ ServeFallback \/ ServeUoT \/ ServHTTP) => ServeInv'
  <1> SUFFICES ASSUME ServeInv, DialFails \/ ServeFallback \/ ServeUoT \/ ServHTTP PROVE ServeInv'
    OBVIOUS
  <1>1. ServeTypeOK'
    <2>1. \A s \in Both : TakesDeadline(s) \in BOOLEAN
      BY DEF TakesDeadline
    <2>2. timed' \in [Both -> BOOLEAN]
      BY <2>1 DEF DialFails, ServeFallback, ServeUoT, ServHTTP, relayVars, ServeInv, ServeTypeOK
    <2>3. cp' \in [Ways -> {"none", "run", "full", "end"}]
      BY DEF DialFails, ServeFallback, ServeUoT, ServHTTP, StartCopies, relayVars, ServeInv, ServeTypeOK
    <2>4. QED
      BY <2>2, <2>3 DEF DialFails, ServeFallback, ServeUoT, ServHTTP, relayVars, ServeInv, ServeTypeOK
  <1>2. /\ srv \in {"dial", "dialHTTP", "fallback", "uot"}
        /\ srv' \in {"end", "relayFallback", "relayUDP", "response"}
        /\ records' \subseteq records \cup {"up", "dialFailed"}
        /\ srv' = "response" => UNCHANGED <<cp, err>>
        /\ srv' # "end" => closed' = closed
    BY DEF DialFails, ServeFallback, ServeUoT, ServHTTP, Record
  <1>3. /\ \A d \in Ways : cp[d] = "none" /\ err[d] = "nil"
        /\ \A s \in Both : ~closed[s]
    BY <1>2 DEF ServeInv, Stages
  <1>4. QED
    BY <1>1, <1>2, <1>3, NoRelay

LEMMA DialOkInv == ServeInv /\ DialOk => ServeInv'
  <1> SUFFICES ASSUME ServeInv, DialOk PROVE ServeInv'
    OBVIOUS
  <1>1. ServeTypeOK'
    BY DEF DialOk, StartCopies, ServeInv, ServeTypeOK
  <1>2. /\ \A d \in Ways : err[d] = "nil"
        /\ \A s \in Both : ~closed[s]
        /\ "relayFailed" \notin records
    BY DEF DialOk, ServeInv, Stages
  <1>3. srv' = "relay" /\ UNCHANGED <<closed, end, err>> /\ "relayFailed" \notin records'
    BY <1>2 DEF DialOk, Record
  <1>4. QED
    BY <1>1, <1>2, <1>3 DEF ServeInv, Stages, ErrorsCaused, Caused, RelayBlame

\* Serve returns from where no relay's error counts.
LEMMA ReturnInv == ServeInv /\ (Response \/ ResponseData \/ UoTEnds) => ServeInv'
  <1> SUFFICES ASSUME ServeInv, Response \/ ResponseData \/ UoTEnds PROVE ServeInv'
    OBVIOUS
  <1>1. ServeTypeOK'
    BY DEF Response, ResponseData, UoTEnds, At, Return, relayVars, ServeInv, ServeTypeOK
  <1>2. /\ srv \in {"response", "answer", "relayUDP"} /\ records' = records
        /\ srv' = "end" \/ (srv' \in {"response", "answer"} /\ UNCHANGED <<closed, cp, err>>
                             /\ srv # "relayUDP")
    BY DEF Response, ResponseData, UoTEnds, At, Return, relayVars
  <1>3. srv # "relayUDP" => /\ \A d \in Ways : cp[d] = "none" /\ err[d] = "nil"
                            /\ \A s \in Both : ~closed[s]
    BY <1>2 DEF ServeInv, Stages
  <1>4. QED
    BY <1>1, <1>2, <1>3, NoRelay

LEMMA BodyInv == ServeInv /\ (BodyGoesOn \/ BodyEnds) => ServeInv'
  <1> SUFFICES ASSUME ServeInv, BodyGoesOn \/ BodyEnds PROVE ServeInv'
    OBVIOUS
  <1>1. UNCHANGED <<lp, named, codec, via, mux, srv, end, closed, cp, err, records>>
    BY DEF BodyGoesOn, BodyEnds
  <1>2. timed' \in [Both -> BOOLEAN]
    BY DEF BodyGoesOn, BodyEnds, TakesDeadline, ServeInv, ServeTypeOK
  <1>3. ServeTypeOK'
    BY <1>1, <1>2 DEF ServeInv, ServeTypeOK
  <1>4. QED
    BY <1>1, <1>3 DEF ServeInv, Stages, ErrorsCaused, Caused, RelayBlame

\* A copy's Write waits, or goes on.
LEMMA StallInv == ASSUME NEW d \in Ways PROVE ServeInv /\ Stall(d) => ServeInv'
  <1> SUFFICES ASSUME ServeInv, Stall(d) PROVE ServeInv'
    OBVIOUS
  <1>1. UNCHANGED <<lp, named, codec, via, mux, srv, end, timed, closed, err, records>>
    BY DEF Stall
  <1>2. /\ ServeTypeOK' /\ cp[d] \notin {"none", "end"}
    BY <1>1 DEF Stall, ServeInv, ServeTypeOK
  <1>3. srv \in {"relay", "relayFallback", "relayUDP", "end"}
    BY <1>2 DEF ServeInv, Stages
  <1>4. QED
    BY <1>1, <1>2, <1>3 DEF ServeInv, Stages, ErrorsCaused, Caused, RelayBlame

LEMMA EndsInv == ASSUME NEW s \in Both PROVE ServeInv /\ Ends(s) => ServeInv'
  <1> SUFFICES ASSUME ServeInv, Ends(s) PROVE ServeInv'
    OBVIOUS
  <1>1. UNCHANGED <<lp, named, codec, via, mux, srv, timed, closed, cp, err, records>>
    BY DEF Ends
  <1>2. ServeTypeOK'
    BY <1>1 DEF Ends, ServeInv, ServeTypeOK
  <1>3. \A x \in Both : end[x] = "reset" => end'[x] = "reset"
    BY DEF Ends, ServeInv, ServeTypeOK
  <1>4. QED
    BY <1>1, <1>2, <1>3 DEF ServeInv, Stages, ErrorsCaused, Caused, RelayBlame, Both

\* While Relay waits, every error with which a copy can end has its cause.
LEMMA CopyCaused ==
    ASSUME ServeInv, srv = "relay", NEW d \in Ways, NEW e \in BlockedErrors(d) \cup DataErrors(d)
    PROVE  Caused(e)
  <1>1. \A s \in Both : ~closed[s]
    BY DEF ServeInv, Stages
  <1>2. \A s \in Both : Broken(s) = IF end[s] = "reset" THEN {Failure(s)} ELSE {}
    BY <1>1 DEF Broken, Gone
  <1>3. From(d) \in Both /\ To(d) \in Both
    BY DEF From, To, Both
  <1>4. \/ e = "nil" \/ \E s \in Both : end[s] = "reset" /\ e = Failure(s)
        \/ e \in Expiry(From(d))
        \/ codec /\ e = "plain"
    BY <1>2, <1>3 DEF BlockedErrors, DataErrors
  <1>5. QED
    BY <1>4 DEF Caused, Failure, Expiry, Both

\* A copy ends with error e.
LEMMA CopyInv ==
    ASSUME NEW d \in Ways PROVE ServeInv /\ (Copy(d) \/ CopyFails(d)) => ServeInv'
  <1> SUFFICES ASSUME ServeInv, Copy(d) \/ CopyFails(d) PROVE ServeInv'
    OBVIOUS
  <1>2. PICK e \in BlockedErrors(d) \cup DataErrors(d) : CopyEnds(d, e)
    BY DEF Copy, CopyFails
  <1>1. /\ UNCHANGED <<lp, named, codec, via, mux, srv, end, closed, records>>
        /\ cp[d] \in {"run", "full"} /\ err' = [err EXCEPT ![d] = e]
    BY <1>2 DEF Copy, CopyFails, CopyEnds
  <1>3. e \in {"nil", "client", "remote", "plain", "deadline"}
    BY DEF BlockedErrors, DataErrors, Broken, Failure, Expiry
  <1>4. /\ err'[d] = e /\ \A x \in Ways \ {d} : err'[x] = err[x]
        /\ err' \in [Ways -> {"nil", "client", "remote", "plain", "deadline"}]
    BY <1>1, <1>3 DEF ServeInv, ServeTypeOK
  <1>5. ServeTypeOK'
    <2>1. timed' \in [Both -> BOOLEAN]
      BY <1>2 DEF CopyEnds, Unblock, TakesDeadline, ServeInv, ServeTypeOK
    <2>2. cp' \in [Ways -> {"none", "run", "full", "end"}]
      BY <1>2 DEF CopyEnds, ServeInv, ServeTypeOK
    <2>3. QED
      BY <1>1, <1>4, <2>1, <2>2 DEF ServeInv, ServeTypeOK
  <1>6. srv \in {"relay", "relayFallback", "relayUDP", "end"} /\ "relayFailed" \notin records
    BY <1>1 DEF ServeInv, Stages
  <1>7. Stages'
    BY <1>1, <1>6 DEF ServeInv, Stages
  <1>8. ErrorsCaused'
    <2>1. CASE srv = "relay"
      <3>1. \A x \in Ways : Caused(err'[x])
        BY <1>4, <2>1, CopyCaused DEF ServeInv, ErrorsCaused
      <3>2. QED
        BY <1>1, <3>1 DEF ErrorsCaused, Caused
    <2>2. QED
      BY <1>1, <1>6, <2>1 DEF ErrorsCaused
  <1>9. QED
    BY <1>1, <1>5, <1>6, <1>7, <1>8 DEF ServeInv, RelayBlame

LEMMA RelayEndsInv == ServeInv /\ RelayEnds => ServeInv'
  <1> SUFFICES ASSUME ServeInv, RelayEnds PROVE ServeInv'
    OBVIOUS
  <1>1. UNCHANGED <<lp, named, codec, via, mux, end, timed, cp, err>> /\ srv \in {"relay", "relayFallback"}
    BY DEF RelayEnds, relayVars
  <1>2. ServeTypeOK'
    BY <1>1 DEF RelayEnds, ServeInv, ServeTypeOK
  <1>3. CASE srv = "relayFallback"
    BY <1>2, <1>3, NoRelay DEF RelayEnds
  <1>4. CASE srv = "relay"
    <2> DEFINE e == RelayError(err["up"], err["down"])
    <2>1. srv' = "relayed" /\ records' = IF Blames(e) THEN records \cup {"relayFailed"} ELSE records
      BY <1>4 DEF RelayEnds, Record
    <2>2. Caused(err["up"]) /\ Caused(err["down"]) /\ "relayFailed" \notin records
      BY <1>4 DEF ServeInv, Stages, ErrorsCaused, Ways
    <2>3. /\ err["up"] \in {"nil", "client", "remote", "plain", "deadline"}
          /\ err["down"] \in {"nil", "client", "remote", "plain", "deadline"}
      BY DEF ServeInv, ServeTypeOK, Ways
    <2>4. /\ e \in {"nil", "client", "remote", "plain"} /\ Caused(e)
          /\ "remote" \in {err["up"], err["down"]} => e \in {"client", "remote", "plain"}
      BY <2>2, <2>3 DEF RelayError, Caused
    <2>5. Stages'
      BY <1>1, <1>4, <2>1 DEF RelayEnds, Stages
    <2>6. ErrorsCaused'
      BY <1>1, <2>1, <2>2 DEF ErrorsCaused, Caused, Ways
    <2>7. RelayBlame'
      <3>1. "relayFailed" \in records' <=> Blames(e)
        BY <2>1, <2>2
      <3>2. {err'[d] : d \in Ways} = {err["up"], err["down"]}
        BY <1>1 DEF Ways
      <3>3. QED
        BY <1>1, <2>1, <2>4, <3>1, <3>2 DEF RelayBlame, Blames, Caused
    <2>8. QED
      BY <1>2, <2>5, <2>6, <2>7 DEF ServeInv
  <1>5. QED
    BY <1>1, <1>3, <1>4

LEMMA ServeStutter == ServeInv /\ UNCHANGED serveVars => ServeInv'
  BY DEF serveVars, ServeInv, ServeTypeOK, Stages, ErrorsCaused, Caused, RelayBlame

\* ServeInv holds of every served connection.
THEOREM ServeInvariant == ServeSpec => []ServeInv
  <1>1. ServeInv /\ [ServeNext]_serveVars => ServeInv'
    BY HandshakeInv, DialInv, DialOkInv, ReturnInv, BodyInv, StallInv, EndsInv, CopyInv,
       RelayEndsInv, ServeStutter
       DEF ServeNext, ServeSteps, Peers
  <1>2. QED
    BY <1>1, ServeInitInv, PTL DEF ServeSpec

\* Which failures of a relay Serve records against the forwarder: for every
\* listener, the inner servers behind it and the forwarder's connections, of
\* multiplexed streams or not.
THEOREM RelayBlameHolds == ServeSpec => []RelayBlame
  <1>1. ServeInv => RelayBlame
    BY DEF ServeInv
  <1>2. QED
    BY <1>1, ServeInvariant, PTL

-----------------------------------------------------------------------------
(***************************************************************************)
(* dns: any names, keys, rules and servers, any size of the cache and any  *)
(* number of queries at a time.                                            *)
(***************************************************************************)
Messages == [id : Workers \cup {0}, key : Names \X Types]

Jobs == [pc : {"idle", "cache", "exchange", "try", "switchif", "switch", "answer", "reply", "failed"},
         key : (Names \X Types) \cup {Nil},
         server : 0..(Servers - 1), tries : 0..Servers, tried : SUBSET (0..(Servers - 1)),
         raced : BOOLEAN, ttl : TTLs \cup {0}, resp : Messages \cup {Nil}]

\* How many servers back s is from server.
Back(s, server) == IF s < server THEN server - s ELSE server + Servers - s

\* The servers that were tried, in a row, before server.
LastTried(n, server) == {s \in 0..(Servers - 1) : Back(s, server) <= n}

\* An exchange that nobody else's switch has met has the index for its own, and
\* the servers it has tried are the ones before it.
Row(j) ==
    /\ j.pc \in {"idle", "cache", "exchange"} => j.tries = 0 /\ j.tried = {} /\ ~j.raced
    /\ j.pc \in {"try", "switchif", "switch"} /\ ~j.raced => index = j.server
    /\ j.pc = "try" => j.tries < Servers /\ (~j.raced => j.tried = LastTried(j.tries, j.server))
    /\ j.pc \in {"switchif", "switch"} =>
          /\ j.tries > 0
          /\ ~j.raced => j.tried = LastTried(j.tries - 1, j.server) \cup {j.server}
    /\ j.pc = "failed" /\ ~j.raced => j.tried = 0..(Servers - 1)

\* What goroutine p is about to answer.
Pending(p, j) ==
    /\ j.pc \in {"cache", "answer"} => j.key \in Keys
    /\ j.pc # "idle" => j.key \in Names \X Types
    /\ j.pc \in {"answer", "reply"} => j.resp = Message(p[2], j.key)

JobsInv ==
    /\ index \in 0..(Servers - 1) /\ job \in [Procs -> Jobs]
    /\ \A p \in Procs : Row(job[p]) /\ Pending(p, job[p])

\* The list: no key is in it twice.
Entries == Keys \cup Dummies

Items == [val : Messages \cup {Nil}, expired : BOOLEAN,
          prev : Entries \cup {Nil}, next : Entries \cup {Nil}]

Caches == [head : Entries, tail : Entries, map : SUBSET Entries, item : [Entries -> Items]]

Linked(c, s) ==
    /\ c \in Caches /\ s \in Seq(Entries) /\ Len(s) >= 2
    /\ \A i, j \in 1..Len(s) : s[i] = s[j] => i = j
    /\ Lists(c, s)

\* What is stored for a key answers that key.
Keyed(c) == \A k \in Keys : k \in c.map => c.item[k].val \in Messages /\ c.item[k].val.key = k

StoreKeyed ==
    /\ DOMAIN store \subseteq Keys
    /\ \A k \in DOMAIN store : store[k] \in Messages /\ store[k].key = k

\* The inductive invariant.
DnsInv ==
    /\ JobsInv
    /\ Linked(lru, used) /\ (Len(used) <= Size \/ Len(used) = 2)
    /\ Keyed(lru) /\ StoreKeyed
    /\ AnswerMatches

-----------------------------------------------------------------------------
(* The list of the cache: what its operations do to a list that is s.      *)

LEMMA EntriesFacts ==
    /\ HeadKey \in Entries /\ TailKey \in Entries /\ HeadKey # TailKey
    /\ Nil \notin Entries /\ Keys \subseteq Entries
    /\ \A k \in Keys : k \notin Dummies
  <1>1. ASSUME NEW k \in Keys PROVE k \notin Dummies
    <2>1. k[2] \in {"A", "AAAA"}
      BY DnsAssumption
    <2>2. HeadKey[2] = "" /\ TailKey[2] = ""
      BY DEF HeadKey, TailKey
    <2>3. QED
      BY <2>1, <2>2 DEF Dummies
  <1>2. HeadKey[1] # TailKey[1]
    BY DEF HeadKey, TailKey
  <1>3. QED
    BY <1>1, <1>2, LruAssumption DEF Entries, Dummies

\* The neighbours of the i-th key.
LEMMA Neighbours ==
    ASSUME NEW c, NEW s, Linked(c, s), NEW i \in 1..Len(s)
    PROVE  /\ s[i] \in Entries /\ s[i] \in c.map
           /\ c.head = s[1] /\ c.tail = s[Len(s)] /\ 1 \in 1..Len(s) /\ Len(s) \in 1..Len(s)
           /\ i > 1 => i - 1 \in 1..Len(s) /\ c.item[s[i]].prev = s[i - 1] /\ s[i - 1] # s[i]
           /\ i = 1 => c.item[s[i]].prev = Nil
           /\ i < Len(s) => i + 1 \in 1..Len(s) /\ c.item[s[i]].next = s[i + 1] /\ s[i + 1] # s[i]
           /\ i = Len(s) => c.item[s[i]].next = Nil
  <1>1. Len(s) \in Nat /\ DOMAIN s = 1..Len(s) /\ Len(s) >= 2
    BY DEF Linked
  <1>2. s[i] \in Entries /\ s[i] \in c.map /\ c.head = s[1] /\ c.tail = s[Len(s)]
    BY <1>1 DEF Linked, Lists
  <1>3. /\ c.item[s[i]].next = IF i = Len(s) THEN Nil ELSE s[i + 1]
        /\ c.item[s[i]].prev = IF i = 1 THEN Nil ELSE s[i - 1]
    BY <1>1 DEF Linked, Lists
  <1>4. \A j \in 1..Len(s) : j # i => s[j] # s[i]
    BY DEF Linked
  <1>5. i > 1 => i - 1 \in 1..Len(s) /\ c.item[s[i]].prev = s[i - 1] /\ s[i - 1] # s[i]
    <2>1. i > 1 => i - 1 \in 1..Len(s) /\ i - 1 # i /\ i # 1
      BY <1>1
    <2>2. QED
      BY <1>3, <1>4, <2>1
  <1>6. i < Len(s) => i + 1 \in 1..Len(s) /\ c.item[s[i]].next = s[i + 1] /\ s[i + 1] # s[i]
    <2> DEFINE n == Len(s)
    <2>0. n \in Nat /\ i \in 1..n
      BY <1>1
    <2> HIDE DEF n
    <2>1. i < n => i + 1 \in 1..n /\ i + 1 # i /\ i # n
      BY <2>0
    <2>2. QED
      BY <1>3, <1>4, <2>1 DEF n
  <1>7. 1 \in 1..Len(s) /\ Len(s) \in 1..Len(s)
    BY <1>1
  <1>8. (i = 1 => c.item[s[i]].prev = Nil) /\ (i = Len(s) => c.item[s[i]].next = Nil)
    BY <1>3
  <1>9. QED
    BY <1>2, <1>5, <1>6, <1>7, <1>8

\* A pointer of one item is set.
WithNext(f, k, v) == [f EXCEPT ![k].next = v]
WithPrev(f, k, v) == [f EXCEPT ![k].prev = v]

LEMMA SetNext ==
    ASSUME NEW f \in [Entries -> Items], NEW k \in Entries, NEW v \in Entries \cup {Nil}
    PROVE  /\ WithNext(f, k, v) \in [Entries -> Items]
           /\ \A x \in Entries :
                 /\ WithNext(f, k, v)[x].val = f[x].val
                 /\ WithNext(f, k, v)[x].expired = f[x].expired
                 /\ WithNext(f, k, v)[x].prev = f[x].prev
                 /\ WithNext(f, k, v)[x].next = IF x = k THEN v ELSE f[x].next
  <1> DEFINE g == [f EXCEPT ![k].next = v]
  <1>1. [f[k] EXCEPT !.next = v] \in Items
    BY DEF Items
  <1>2. g[k] = [f[k] EXCEPT !.next = v] /\ \A x \in Entries \ {k} : g[x] = f[x]
    OBVIOUS
  <1>3. g \in [Entries -> Items]
    BY <1>1
  <1> HIDE DEF g
  <1>4. /\ g[k].val = f[k].val /\ g[k].expired = f[k].expired
        /\ g[k].prev = f[k].prev /\ g[k].next = v
    BY <1>2 DEF Items
  <1>5. WithNext(f, k, v) = g
    BY DEF g, WithNext
  <1>6. QED
    BY <1>2, <1>3, <1>4, <1>5

LEMMA SetPrev ==
    ASSUME NEW f \in [Entries -> Items], NEW k \in Entries, NEW v \in Entries \cup {Nil}
    PROVE  /\ WithPrev(f, k, v) \in [Entries -> Items]
           /\ \A x \in Entries :
                 /\ WithPrev(f, k, v)[x].val = f[x].val
                 /\ WithPrev(f, k, v)[x].expired = f[x].expired
                 /\ WithPrev(f, k, v)[x].next = f[x].next
                 /\ WithPrev(f, k, v)[x].prev = IF x = k THEN v ELSE f[x].prev
  <1> DEFINE g == [f EXCEPT ![k].prev = v]
  <1>1. [f[k] EXCEPT !.prev = v] \in Items
    BY DEF Items
  <1>2. g[k] = [f[k] EXCEPT !.prev = v] /\ \A x \in Entries \ {k} : g[x] = f[x]
    OBVIOUS
  <1>3. g \in [Entries -> Items]
    BY <1>1
  <1> HIDE DEF g
  <1>4. /\ g[k].val = f[k].val /\ g[k].expired = f[k].expired
        /\ g[k].next = f[k].next /\ g[k].prev = v
    BY <1>2 DEF Items
  <1>5. WithPrev(f, k, v) = g
    BY DEF g, WithPrev
  <1>6. QED
    BY <1>2, <1>3, <1>4, <1>5

\* moveToHead, pointer by pointer.
LEMMA MoveToHeadPointers ==
    ASSUME NEW c \in Caches, NEW k \in Entries, NEW p \in Entries, NEW n \in Entries \cup {Nil},
           k # c.head, p # k, n # k, n # p, p = c.item[k].prev, n = c.item[k].next,
           n = Nil <=> k = c.tail,
           NEW m, m = MoveToHead(c, k)
    PROVE  /\ m \in Caches /\ m.map = c.map /\ m.head = k
           /\ m.tail = IF k = c.tail THEN p ELSE c.tail
           /\ \A x \in Entries :
                 /\ m.item[x].val = c.item[x].val
                 /\ m.item[x].next = IF x = k THEN c.head ELSE IF x = p THEN n ELSE c.item[x].next
                 /\ m.item[x].prev = IF x = k THEN Nil ELSE IF x = c.head THEN k
                                     ELSE IF x = n THEN p ELSE c.item[x].prev
  <1> DEFINE u == Unlink(c, k)
             it == c.item
             pn == WithNext(it, p, n)
             ui == IF k = c.tail THEN pn ELSE WithPrev(pn, n, p)
             ut == IF k = c.tail THEN p ELSE c.tail
             f == WithPrev(ui, k, Nil)
             h == c.head
             g == WithNext(f, k, h)
             mi == WithPrev(g, h, k)
  <1>1. /\ Nil \notin Entries /\ h \in Entries /\ c.tail \in Entries
        /\ c.map \in SUBSET Entries /\ it \in [Entries -> Items]
    BY EntriesFacts DEF Caches
  <1> HIDE DEF it, pn, ui, f, g, h, mi
  <1>2. /\ pn \in [Entries -> Items]
        /\ \A x \in Entries : /\ pn[x].val = it[x].val /\ pn[x].prev = it[x].prev
                              /\ pn[x].next = IF x = p THEN n ELSE it[x].next
    <2>1. /\ WithNext(it, p, n) \in [Entries -> Items]
          /\ \A x \in Entries :
                /\ WithNext(it, p, n)[x].val = it[x].val
                /\ WithNext(it, p, n)[x].expired = it[x].expired
                /\ WithNext(it, p, n)[x].prev = it[x].prev
                /\ WithNext(it, p, n)[x].next = IF x = p THEN n ELSE it[x].next
      <3>1. it \in [Entries -> Items] /\ p \in Entries /\ n \in Entries \cup {Nil}
        BY <1>1
      <3>2. QED
        BY <3>1, SetNext, SMTT(60)
    <2>2. QED
      BY <2>1, Zenon DEF pn
  <1>3. /\ ui \in [Entries -> Items]
        /\ \A x \in Entries : /\ ui[x].val = pn[x].val /\ ui[x].next = pn[x].next
                              /\ ui[x].prev = IF x = n THEN p ELSE pn[x].prev
    <2>1. CASE k = c.tail
      BY <1>1, <1>2, <2>1 DEF ui
    <2>2. CASE k # c.tail
      <3>1. n \in Entries /\ ui = WithPrev(pn, n, p)
        BY <2>2 DEF ui
      <3>2. QED
        BY <1>2, <3>1, SetPrev, SMTT(30)
    <2>3. QED
      BY <2>1, <2>2
  <1>4. /\ f \in [Entries -> Items]
        /\ \A x \in Entries : /\ f[x].val = ui[x].val /\ f[x].next = ui[x].next
                              /\ f[x].prev = IF x = k THEN Nil ELSE ui[x].prev
    BY <1>3, SetPrev, SMTT(30) DEF f
  <1>5. /\ g \in [Entries -> Items]
        /\ \A x \in Entries : /\ g[x].val = f[x].val /\ g[x].prev = f[x].prev
                              /\ g[x].next = IF x = k THEN h ELSE f[x].next
    <2>1. /\ WithNext(f, k, h) \in [Entries -> Items]
          /\ \A x \in Entries :
                /\ WithNext(f, k, h)[x].val = f[x].val
                /\ WithNext(f, k, h)[x].expired = f[x].expired
                /\ WithNext(f, k, h)[x].prev = f[x].prev
                /\ WithNext(f, k, h)[x].next = IF x = k THEN h ELSE f[x].next
      <3>1. h \in Entries \cup {Nil}
        BY <1>1
      <3>2. QED
        BY <3>1, <1>4, SetNext, SMTT(60)
    <2>2. QED
      BY <2>1, Zenon DEF g
  <1>6. /\ mi \in [Entries -> Items]
        /\ \A x \in Entries : /\ mi[x].val = g[x].val /\ mi[x].next = g[x].next
                              /\ mi[x].prev = IF x = h THEN k ELSE g[x].prev
    BY <1>1, <1>5, SetPrev, SMTT(30) DEF mi
  <1>7. u = [c EXCEPT !.tail = ut, !.item = ui]
    <2>1. CASE k = c.tail
      BY <2>1 DEF Unlink, Caches, WithNext, ui, pn, it
    <2>2. CASE k # c.tail
      BY <2>2 DEF Unlink, Caches, WithNext, WithPrev, ui, pn, it
    <2>3. QED
      BY <2>1, <2>2
  <1>8. m = [u EXCEPT !.head = k, !.item = mi]
    <2>1. m = [u EXCEPT !.item[k].prev = Nil, !.item[k].next = c.head,
                        !.item[c.head].prev = k, !.head = k]
      BY DEF MoveToHead
    <2>2. u.item = ui
      BY <1>7 DEF Caches
    <2> HIDE DEF u
    <2>3. QED
      BY <2>1, <2>2 DEF mi, g, f, h, WithPrev, WithNext
  <1> HIDE DEF u
  <1>9. /\ m \in Caches /\ m.map = c.map /\ m.head = k /\ m.tail = ut /\ m.item = mi
    BY <1>1, <1>6, <1>7, <1>8 DEF Caches
  <1>10. QED
    BY <1>2, <1>3, <1>4, <1>5, <1>6, <1>9 DEF it, h

\* moveToHead: the list of a key that is in it.
LEMMA MoveLinked ==
    ASSUME NEW c, NEW s, Linked(c, s), NEW i \in 1..Len(s), NEW m, m = MoveToHead(c, s[i])
    PROVE  /\ Linked(m, Touched(s, i)) /\ Len(Touched(s, i)) = Len(s) /\ m.map = c.map
           /\ \A x \in Entries : m.item[x].val = c.item[x].val
  <1> DEFINE L == Len(s)
             t == Touched(s, i)
             Pos(a) == IF a = 1 THEN i ELSE IF a <= i THEN a - 1 ELSE a
  <1>1. /\ L \in Nat /\ L >= 2 /\ i \in 1..L /\ DOMAIN s = 1..L /\ s \in Seq(Entries)
        /\ c \in Caches /\ c.map = {s[j] : j \in 1..L} /\ c.head = s[1] /\ c.tail = s[L]
    BY DEF Linked, Lists
  <1>2. \A a \in 1..L : Pos(a) \in 1..L /\ t[a] = s[Pos(a)]
    BY <1>1 DEF Touched
  <1>3. t \in Seq(Entries) /\ Len(t) = L /\ DOMAIN t = 1..L
    BY <1>1 DEF Touched
  <1> HIDE DEF L, t
  <1>4. \A j \in 1..L, l \in 1..L : s[j] = s[l] => j = l
    BY DEF Linked, L
  <1>5. \A a, b \in 1..L : t[a] = t[b] => a = b
    BY <1>1, <1>2, <1>4
  <1>6. {t[a] : a \in 1..L} = {s[j] : j \in 1..L}
    <2>1. ASSUME NEW j \in 1..L PROVE \E a \in 1..L : t[a] = s[j]
      <3>1. CASE j = i
        BY <1>1, <1>2, <3>1
      <3>2. CASE j < i
        <4>1. j + 1 \in 1..L /\ Pos(j + 1) = j
          BY <1>1, <3>2
        <4>2. QED
          BY <1>2, <4>1
      <3>3. CASE j > i
        <4>1. Pos(j) = j
          BY <1>1, <3>3
        <4>2. QED
          BY <1>2, <4>1
      <3>4. QED
        BY <1>1, <3>1, <3>2, <3>3
    <2>2. ASSUME NEW a \in 1..L PROVE \E j \in 1..L : s[j] = t[a]
      BY <1>2
    <2>3. ASSUME NEW x \in {s[j] : j \in 1..L} PROVE x \in {t[a] : a \in 1..L}
      BY <2>1
    <2>4. ASSUME NEW x \in {t[a] : a \in 1..L} PROVE x \in {s[j] : j \in 1..L}
      BY <2>2
    <2>5. QED
      BY <2>3, <2>4
  <1>7. CASE i = 1
    <2>1. m = c
      BY <1>1, <1>7 DEF MoveToHead
    <2>2. \A a \in 1..L : t[a] = s[a]
      BY <1>1, <1>2, <1>7
    <2>3. t = s
      BY <1>1, <1>3, <2>2, SeqEqual DEF L
    <2>4. QED
      BY <2>1, <2>3 DEF t
  <1>8. CASE i > 1
    <2> DEFINE k == s[i]
               p == s[i - 1]
               n == IF i = L THEN Nil ELSE s[i + 1]
    <2>1. /\ k \in Entries /\ p \in Entries /\ n \in Entries \cup {Nil}
          /\ k # c.head /\ p # k /\ n # k /\ n # p
          /\ p = c.item[k].prev /\ n = c.item[k].next
          /\ n = Nil <=> k = c.tail
      <3>1. /\ i - 1 \in 1..L /\ i - 1 # i /\ i # 1 /\ 1 \in 1..L /\ L \in 1..L
            /\ i # L => i + 1 \in 1..L /\ i + 1 # i - 1 /\ i + 1 # i
        BY <1>1, <1>8
      <3>2. /\ k \in Entries /\ p \in Entries /\ (i # L => s[i + 1] \in Entries)
        BY <1>1, <3>1
      <3>3. p = c.item[k].prev /\ n = c.item[k].next
        BY <1>1, <3>1 DEF Linked, Lists, L
      <3>4. QED
        BY <1>1, <1>4, <3>1, <3>2, <3>3, EntriesFacts
    <2>2. /\ m \in Caches /\ m.map = c.map /\ m.head = k
          /\ m.tail = IF k = c.tail THEN p ELSE c.tail
          /\ \A x \in Entries :
                /\ m.item[x].val = c.item[x].val
                /\ m.item[x].next = IF x = k THEN c.head ELSE IF x = p THEN n ELSE c.item[x].next
                /\ m.item[x].prev = IF x = k THEN Nil ELSE IF x = c.head THEN k
                                    ELSE IF x = n THEN p ELSE c.item[x].prev
      BY <1>1, <2>1, MoveToHeadPointers
    <2>3. ASSUME NEW j \in 1..L
          PROVE  /\ m.item[s[j]].next = IF j = i THEN s[1] ELSE IF j = i - 1 THEN n
                                        ELSE IF j = L THEN Nil ELSE s[j + 1]
                 /\ m.item[s[j]].prev = IF j = i THEN Nil ELSE IF j = 1 THEN s[i]
                                        ELSE IF j = i + 1 THEN s[i - 1] ELSE s[j - 1]
      <3>1. /\ c.item[s[j]].next = IF j = L THEN Nil ELSE s[j + 1]
            /\ c.item[s[j]].prev = IF j = 1 THEN Nil ELSE s[j - 1]
            /\ s[j] \in Entries
        <4>1. j \in DOMAIN s /\ L = Len(s)
          BY <1>1 DEF L
        <4>2. s[j] \in Entries
          BY <1>1
        <4>3. QED
          BY <4>1, <4>2 DEF Linked, Lists
      <3>2. /\ s[j] = k <=> j = i
            /\ s[j] = p <=> j = i - 1
            /\ s[j] = c.head <=> j = 1
            /\ s[j] = n <=> j = i + 1
        <4>1. i - 1 \in 1..L /\ 1 \in 1..L /\ (i # L => i + 1 \in 1..L) /\ (i = L => j # i + 1)
          BY <1>1, <1>8
        <4>2. QED
          BY <1>1, <1>4, <3>1, <4>1, EntriesFacts
      <3> DEFINE x == s[j]
      <3>3. /\ x \in Entries /\ (x = k <=> j = i)
            /\ (x = p <=> j = i - 1) /\ (x = c.head <=> j = 1) /\ (x = n <=> j = i + 1)
        BY <3>1, <3>2
      <3> HIDE DEF k, p, n, x
      <3>4. /\ m.item[x].next = IF j = i THEN c.head ELSE IF j = i - 1 THEN n ELSE c.item[x].next
            /\ m.item[x].prev = IF j = i THEN Nil ELSE IF j = 1 THEN k
                                ELSE IF j = i + 1 THEN p ELSE c.item[x].prev
        BY <2>2, <3>3
      <3>5. QED
        BY <1>1, <3>1, <3>4 DEF k, p, x
    <2>4. m.tail = t[L] /\ m.head = t[1]
      <3>1. CASE i = L
        <4>1. Pos(L) = L - 1 /\ L \in 1..L /\ Pos(1) = i /\ 1 \in 1..L
          BY <1>1, <1>8, <3>1
        <4>2. QED
          BY <1>1, <1>2, <2>2, <3>1, <4>1
      <3>2. CASE i # L
        <4>1. Pos(L) = L /\ L \in 1..L /\ Pos(1) = i /\ 1 \in 1..L
          BY <1>1, <1>8, <3>2
        <4>2. s[i] # s[L]
          BY <1>1, <1>4, <3>2, <4>1
        <4>3. QED
          BY <1>1, <1>2, <2>2, <4>1, <4>2
      <3>3. QED
        BY <3>1, <3>2
    <2>5. ASSUME NEW a \in 1..L
          PROVE  m.item[t[a]].next = IF a = L THEN Nil ELSE t[a + 1]
      <3>1. Pos(a) \in 1..L /\ t[a] = s[Pos(a)] /\ (a # L => a + 1 \in 1..L)
        BY <1>1, <1>2
      <3>2. a # L => t[a + 1] = s[Pos(a + 1)]
        BY <1>2, <3>1
      <3> HIDE DEF p, k
      <3>3. CASE a = 1
        BY <1>1, <1>8, <2>3, <3>1, <3>2, <3>3
      <3>4. CASE a > 1 /\ a < i
        BY <1>1, <1>8, <2>3, <3>1, <3>2, <3>4
      <3>5. CASE a = i
        BY <1>1, <1>8, <2>3, <3>1, <3>2, <3>5
      <3>6. CASE a > i
        BY <1>1, <1>8, <2>3, <3>1, <3>2, <3>6
      <3>7. QED
        BY <1>1, <3>3, <3>4, <3>5, <3>6
    <2>6. ASSUME NEW a \in 1..L
          PROVE  m.item[t[a]].prev = IF a = 1 THEN Nil ELSE t[a - 1]
      <3>1. Pos(a) \in 1..L /\ t[a] = s[Pos(a)] /\ (a # 1 => a - 1 \in 1..L)
        BY <1>1, <1>2
      <3>2. a # 1 => t[a - 1] = s[Pos(a - 1)]
        BY <1>2, <3>1
      <3> HIDE DEF p, k
      <3>3. CASE a = 1
        BY <1>1, <1>8, <2>3, <3>1, <3>2, <3>3
      <3>4. CASE a > 1 /\ a <= i
        BY <1>1, <1>8, <2>3, <3>1, <3>2, <3>4
      <3>5. CASE a > i
        BY <1>1, <1>8, <2>3, <3>1, <3>2, <3>5
      <3>6. QED
        BY <1>1, <3>3, <3>4, <3>5
    <2>7. Lists(m, t)
      BY <1>1, <1>3, <1>6, <2>2, <2>4, <2>5, <2>6 DEF Lists
    <2>8. QED
      BY <1>1, <1>3, <1>5, <2>2, <2>7 DEF Linked, t, L
  <1>9. QED
    BY <1>1, <1>7, <1>8

\* putToHead, pointer by pointer, of a key that is not in the list.
LEMMA PutToHeadPointers ==
    ASSUME NEW c \in Caches, NEW k \in Entries, k # c.head, NEW v \in Messages,
           NEW m, m = PutToHead(c, k, v)
    PROVE  /\ m \in Caches /\ m.map = c.map \cup {k} /\ m.head = k /\ m.tail = c.tail
           /\ m.item[k].val = v /\ m.item[k].prev = Nil /\ m.item[k].next = c.head
           /\ \A x \in Entries \ {k} :
                 /\ m.item[x].val = c.item[x].val /\ m.item[x].next = c.item[x].next
                 /\ m.item[x].prev = IF x = c.head THEN k ELSE c.item[x].prev
  <1> DEFINE h == c.head
             it == c.item
             new == [NoItem EXCEPT !.val = v, !.next = h]
             f == [it EXCEPT ![k] = new]
             mi == WithPrev(f, h, k)
             mm == c.map \cup {k}
  <1>1. h \in Entries /\ it \in [Entries -> Items] /\ mm \in SUBSET Entries /\ c.tail \in Entries
    BY DEF Caches
  <1>2. new \in Items /\ new.val = v /\ new.prev = Nil /\ new.next = h
    BY <1>1 DEF NoItem, Items
  <1>3. m = [c EXCEPT !.map = mm, !.head = k, !.item = mi]
    BY DEF PutToHead, WithPrev, Caches
  <1> HIDE DEF h, it, new, f, mi, mm
  <1>4. f \in [Entries -> Items] /\ f[k] = new /\ \A x \in Entries \ {k} : f[x] = it[x]
    BY <1>1, <1>2 DEF f
  <1>5. /\ mi \in [Entries -> Items]
        /\ \A x \in Entries : /\ mi[x].val = f[x].val /\ mi[x].next = f[x].next
                              /\ mi[x].prev = IF x = h THEN k ELSE f[x].prev
    BY <1>1, <1>4, SetPrev DEF mi
  <1>6. /\ m \in Caches /\ m.map = mm /\ m.head = k /\ m.tail = c.tail /\ m.item = mi
    BY <1>1, <1>3, <1>5 DEF Caches
  <1>7. h = c.head /\ it = c.item /\ mm = c.map \cup {k} /\ k # h
    BY DEF h, it, mm
  <1>8. QED
    BY <1>2, <1>4, <1>5, <1>6, <1>7

\* removeTail, pointer by pointer.
LEMMA RemoveTailPointers ==
    ASSUME NEW c \in Caches, NEW p \in Entries, p = c.item[c.tail].prev, p # c.tail,
           NEW m, m = RemoveTail(c)
    PROVE  /\ m \in Caches /\ m.map = c.map \ {c.tail} /\ m.head = c.head /\ m.tail = p
           /\ \A x \in Entries \ {c.tail} :
                 /\ m.item[x].val = c.item[x].val /\ m.item[x].prev = c.item[x].prev
                 /\ m.item[x].next = IF x = p THEN Nil ELSE c.item[x].next
  <1> DEFINE l == c.tail
             it == c.item
             f == [it EXCEPT ![l] = NoItem]
             mi == WithNext(f, p, Nil)
  <1>1. l \in Entries /\ it \in [Entries -> Items] /\ c.map \in SUBSET Entries /\ c.head \in Entries
    BY DEF Caches
  <1>2. NoItem \in Items
    BY DEF NoItem, Items
  <1>3. m = [c EXCEPT !.map = c.map \ {l}, !.tail = p, !.item = mi]
    <2>1. m = [c EXCEPT !.map = c.map \ {l}, !.item[l] = NoItem, !.item[p].next = Nil, !.tail = p]
      BY DEF RemoveTail
    <2> HIDE DEF l
    <2>2. QED
      BY <2>1 DEF WithNext, Caches
  <1>4. l = c.tail /\ it = c.item /\ p # l
    OBVIOUS
  <1> HIDE DEF l, it, f, mi
  <1>5. f \in [Entries -> Items] /\ \A x \in Entries \ {l} : f[x] = it[x]
    BY <1>1, <1>2 DEF f
  <1>6. /\ mi \in [Entries -> Items]
        /\ \A x \in Entries : /\ mi[x].val = f[x].val /\ mi[x].prev = f[x].prev
                              /\ mi[x].next = IF x = p THEN Nil ELSE f[x].next
    BY <1>1, <1>5, SetNext DEF mi
  <1>7. /\ m \in Caches /\ m.map = c.map \ {l} /\ m.head = c.head /\ m.tail = p /\ m.item = mi
    BY <1>1, <1>3, <1>6 DEF Caches
  <1>8. QED
    BY <1>4, <1>5, <1>6, <1>7

\* putToHead of a key that is not in the list.
Grown(c, s, k, v, m, t) ==
    /\ Linked(m, t) /\ Len(t) = Len(s) + 1 /\ m.item[k].val = v
    /\ m.map = c.map \cup {k}
    /\ \A x \in Entries \ {k} : m.item[x].val = c.item[x].val

LEMMA PutLinked ==
    ASSUME NEW c, NEW s, Linked(c, s), NEW k \in Entries, \A i \in 1..Len(s) : s[i] # k,
           NEW v \in Messages
    PROVE  Grown(c, s, k, v, PutToHead(c, k, v), <<k>> \o s)
  <1> DEFINE L == Len(s)
             m == PutToHead(c, k, v)
             t == <<k>> \o s
  <1>1. /\ L \in Nat /\ L >= 2 /\ DOMAIN s = 1..L /\ s \in Seq(Entries)
        /\ c \in Caches /\ c.map = {s[j] : j \in 1..L} /\ c.head = s[1] /\ c.tail = s[L]
    BY DEF Linked, Lists
  <1>2. /\ t \in Seq(Entries) /\ Len(t) = L + 1 /\ DOMAIN t = 1..(L + 1) /\ t[1] = k
        /\ \A a \in 2..(L + 1) : t[a] = s[a - 1]
    BY <1>1
  <1>3. \A j \in 1..L, l \in 1..L : s[j] = s[l] => j = l
    BY DEF Linked
  <1>4. \A j \in 1..L : s[j] # k
    OBVIOUS
  <1>5. \A j \in 1..L : /\ c.item[s[j]].next = IF j = L THEN Nil ELSE s[j + 1]
                        /\ c.item[s[j]].prev = IF j = 1 THEN Nil ELSE s[j - 1]
    BY <1>1 DEF Linked, Lists
  <1>0. m = PutToHead(c, k, v)
    OBVIOUS
  <1> HIDE DEF L, m, t
  <1>6. /\ m \in Caches /\ m.map = c.map \cup {k} /\ m.head = k /\ m.tail = c.tail
        /\ m.item[k].val = v /\ m.item[k].prev = Nil /\ m.item[k].next = c.head
        /\ \A x \in Entries \ {k} :
              /\ m.item[x].val = c.item[x].val /\ m.item[x].next = c.item[x].next
              /\ m.item[x].prev = IF x = c.head THEN k ELSE c.item[x].prev
    <2>1. 1 \in 1..L
      BY <1>1
    <2>2. k # c.head
      BY <1>1, <1>4, <2>1
    <2>3. c \in Caches
      BY <1>1
    <2>4. QED
      BY <1>0, <2>2, <2>3, PutToHeadPointers
  <1>7. \A a, b \in 1..(L + 1) : t[a] = t[b] => a = b
    <2>1. \A a \in 2..(L + 1) : a - 1 \in 1..L
      BY <1>1
    <2>2. \A a \in 1..(L + 1) : a = 1 \/ a \in 2..(L + 1)
      BY <1>1
    <2>3. QED
      BY <1>1, <1>2, <1>3, <1>4, <2>1, <2>2
  <1>8. {t[a] : a \in 1..(L + 1)} = {s[j] : j \in 1..L} \cup {k}
    <2>1. ASSUME NEW j \in 1..L PROVE s[j] \in {t[a] : a \in 1..(L + 1)}
      <3>1. j + 1 \in 2..(L + 1) /\ j + 1 \in 1..(L + 1) /\ (j + 1) - 1 = j
        BY <1>1
      <3>2. QED
        BY <1>2, <3>1
    <2>2. ASSUME NEW a \in 1..(L + 1) PROVE t[a] = k \/ \E j \in 1..L : t[a] = s[j]
      <3>1. a = 1 \/ (a \in 2..(L + 1) /\ a - 1 \in 1..L)
        BY <1>1
      <3>2. QED
        BY <1>2, <3>1
    <2>3. k \in {t[a] : a \in 1..(L + 1)}
      BY <1>1, <1>2
    <2>4. ASSUME NEW x \in {t[a] : a \in 1..(L + 1)} PROVE x \in {s[j] : j \in 1..L} \cup {k}
      BY <2>2
    <2>5. ASSUME NEW x \in {s[j] : j \in 1..L} \cup {k} PROVE x \in {t[a] : a \in 1..(L + 1)}
      BY <2>1, <2>3
    <2>6. QED
      BY <2>4, <2>5
  <1>9. ASSUME NEW a \in 1..(L + 1)
        PROVE  /\ m.item[t[a]].next = IF a = L + 1 THEN Nil ELSE t[a + 1]
               /\ m.item[t[a]].prev = IF a = 1 THEN Nil ELSE t[a - 1]
    <2>1. CASE a = 1
      <3>1. a # L + 1 /\ 2 \in 2..(L + 1)
        BY <1>1, <2>1
      <3>2. t[2] = s[1]
        BY <1>2, <3>1
      <3>3. QED
        BY <1>1, <1>2, <1>6, <2>1, <3>1, <3>2
    <2>2. CASE a # 1
      <3> DEFINE x == s[a - 1]
      <3>1. a \in 2..(L + 1) /\ a - 1 \in 1..L /\ 1 \in 1..L
        BY <1>1, <2>2
      <3>2. t[a] = x /\ x \in Entries \ {k} /\ (x = c.head <=> a - 1 = 1)
        BY <1>1, <1>2, <1>3, <1>4, <3>1
      <3>3. /\ c.item[x].next = IF a - 1 = L THEN Nil ELSE s[a]
            /\ c.item[x].prev = IF a - 1 = 1 THEN Nil ELSE s[a - 2]
        <4>1. (a - 1) + 1 = a /\ (a - 1) - 1 = a - 2
          BY <1>1
        <4>2. QED
          BY <1>5, <3>1, <4>1
      <3> HIDE DEF x
      <3>4. /\ m.item[x].next = IF a - 1 = L THEN Nil ELSE s[a]
            /\ m.item[x].prev = IF a - 1 = 1 THEN k ELSE s[a - 2]
        BY <1>6, <3>2, <3>3
      <3>5. a # L + 1 => t[a + 1] = s[a]
        <4>1. a # L + 1 => a + 1 \in 2..(L + 1) /\ (a + 1) - 1 = a
          BY <1>1, <3>1
        <4>2. QED
          BY <1>2, <4>1
      <3>6. a # 2 => t[a - 1] = s[a - 2]
        <4>1. a # 2 => a - 1 \in 2..(L + 1) /\ (a - 1) - 1 = a - 2
          BY <1>1, <3>1
        <4>2. QED
          BY <1>2, <4>1
      <3>7. (a - 1 = L <=> a = L + 1) /\ (a - 1 = 1 <=> a = 2) /\ (a = 2 => t[a - 1] = k)
        BY <1>1, <1>2, <3>1
      <3>8. QED
        BY <2>2, <3>2, <3>4, <3>5, <3>6, <3>7
    <2>3. QED
      BY <2>1, <2>2
  <1>10. m.tail = t[L + 1]
    <2>1. L + 1 \in 2..(L + 1) /\ (L + 1) - 1 = L
      BY <1>1
    <2>2. QED
      BY <1>1, <1>2, <1>6, <2>1
  <1>11. Lists(m, t)
    <2>1. m.map = {t[a] : a \in DOMAIN t}
      BY <1>1, <1>2, <1>6, <1>8
    <2>2. m.head = t[1] /\ m.tail = t[Len(t)]
      BY <1>2, <1>6, <1>10
    <2>3. \A a \in DOMAIN t : /\ m.item[t[a]].next = IF a = Len(t) THEN Nil ELSE t[a + 1]
                              /\ m.item[t[a]].prev = IF a = 1 THEN Nil ELSE t[a - 1]
      BY <1>2, <1>9
    <2>4. QED
      BY <2>1, <2>2, <2>3 DEF Lists
  <1>12. Len(t) >= 2
    BY <1>1, <1>2
  <1>13. QED
    BY <1>2, <1>6, <1>7, <1>11, <1>12 DEF Grown, Linked, L, m, t

\* removeTail of a list of more than two.
Shrunk(c, s, m, t) ==
    /\ Linked(m, t) /\ Len(t) = Len(s) - 1
    /\ m.map = c.map \ {c.tail}
    /\ \A x \in m.map : m.item[x].val = c.item[x].val

LEMMA RemoveLinked ==
    ASSUME NEW c, NEW s, Linked(c, s), Len(s) > 2
    PROVE  Shrunk(c, s, RemoveTail(c), SubSeq(s, 1, Len(s) - 1))
  <1> DEFINE L == Len(s)
             m == RemoveTail(c)
             t == SubSeq(s, 1, Len(s) - 1)
  <1>1. /\ L \in Nat /\ L > 2 /\ DOMAIN s = 1..L /\ s \in Seq(Entries)
        /\ c \in Caches /\ c.map = {s[j] : j \in 1..L} /\ c.head = s[1] /\ c.tail = s[L]
    BY DEF Linked, Lists
  <1>2. /\ t \in Seq(Entries) /\ Len(t) = L - 1 /\ DOMAIN t = 1..(L - 1)
        /\ \A a \in 1..(L - 1) : t[a] = s[a]
    BY <1>1
  <1>3. \A j \in 1..L, l \in 1..L : s[j] = s[l] => j = l
    BY DEF Linked
  <1>4. \A j \in 1..L : /\ c.item[s[j]].next = IF j = L THEN Nil ELSE s[j + 1]
                        /\ c.item[s[j]].prev = IF j = 1 THEN Nil ELSE s[j - 1]
    BY <1>1 DEF Linked, Lists
  <1> HIDE DEF L
  <1>0. m = RemoveTail(c)
    OBVIOUS
  <1> HIDE DEF m, t
  <1>5. /\ 1 \in 1..L /\ L \in 1..L /\ L - 1 \in 1..L /\ L # 1 /\ L # L - 1
        /\ 1 \in 1..(L - 1) /\ L - 1 \in 1..(L - 1)
    BY <1>1
  <1> DEFINE p == s[L - 1]
  <1>6. p \in Entries /\ p = c.item[c.tail].prev /\ p # c.tail
    BY <1>1, <1>3, <1>4, <1>5
  <1>7. /\ m \in Caches /\ m.map = c.map \ {c.tail} /\ m.head = c.head /\ m.tail = p
        /\ \A x \in Entries \ {c.tail} :
              /\ m.item[x].val = c.item[x].val /\ m.item[x].prev = c.item[x].prev
              /\ m.item[x].next = IF x = p THEN Nil ELSE c.item[x].next
    BY <1>0, <1>1, <1>6, RemoveTailPointers
  <1>8. \A a \in 1..(L - 1) : /\ a \in 1..L /\ a # L /\ s[a] \in Entries \ {c.tail}
                              /\ (s[a] = p <=> a = L - 1)
    <2>1. \A a \in 1..(L - 1) : a \in 1..L /\ a # L
      BY <1>1
    <2>2. QED
      BY <1>1, <1>3, <1>5, <2>1
  <1>9. \A a, b \in 1..(L - 1) : t[a] = t[b] => a = b
    BY <1>2, <1>3, <1>8
  <1>10. {t[a] : a \in 1..(L - 1)} = m.map
    <2>1. ASSUME NEW a \in 1..(L - 1) PROVE t[a] \in m.map
      BY <1>1, <1>2, <1>7, <1>8
    <2>2. ASSUME NEW x \in m.map PROVE \E a \in 1..(L - 1) : t[a] = x
      <3>1. PICK j \in 1..L : x = s[j] /\ j # L
        BY <1>1, <1>7
      <3>2. j \in 1..(L - 1)
        BY <1>1, <3>1
      <3>3. QED
        BY <1>2, <3>1, <3>2
    <2>3. ASSUME NEW x \in {t[a] : a \in 1..(L - 1)} PROVE x \in m.map
      BY <2>1
    <2>4. ASSUME NEW x \in m.map PROVE x \in {t[a] : a \in 1..(L - 1)}
      BY <2>2
    <2>5. QED
      BY <2>3, <2>4
  <1>11. ASSUME NEW a \in 1..(L - 1)
         PROVE  /\ m.item[t[a]].next = IF a = L - 1 THEN Nil ELSE t[a + 1]
                /\ m.item[t[a]].prev = IF a = 1 THEN Nil ELSE t[a - 1]
    <2>1. a \in 1..L /\ a # L /\ s[a] \in Entries \ {c.tail} /\ (s[a] = p <=> a = L - 1) /\ t[a] = s[a]
      BY <1>2, <1>8
    <2>2. /\ c.item[s[a]].next = s[a + 1]
          /\ c.item[s[a]].prev = IF a = 1 THEN Nil ELSE s[a - 1]
      BY <1>4, <2>1
    <2>3. /\ a # L - 1 => t[a + 1] = s[a + 1]
          /\ a # 1 => t[a - 1] = s[a - 1]
      <3>1. (a # L - 1 => a + 1 \in 1..(L - 1)) /\ (a # 1 => a - 1 \in 1..(L - 1))
        BY <1>1
      <3>2. QED
        BY <1>2, <3>1
    <2> HIDE DEF p
    <2>4. QED
      BY <1>7, <2>1, <2>2, <2>3
  <1>12. Lists(m, t)
    <2>1. m.map = {t[a] : a \in DOMAIN t}
      BY <1>2, <1>10
    <2>2. m.head = t[1] /\ m.tail = t[Len(t)]
      BY <1>1, <1>2, <1>5, <1>7
    <2>3. \A a \in DOMAIN t : /\ m.item[t[a]].next = IF a = Len(t) THEN Nil ELSE t[a + 1]
                              /\ m.item[t[a]].prev = IF a = 1 THEN Nil ELSE t[a - 1]
      BY <1>2, <1>11
    <2>4. QED
      BY <2>1, <2>2, <2>3 DEF Lists
  <1>13. Len(t) >= 2
    BY <1>1, <1>2
  <1>14. \A x \in m.map : m.item[x].val = c.item[x].val
    BY <1>7 DEF Caches
  <1>15. QED
    BY <1>2, <1>7, <1>9, <1>12, <1>13, <1>14 DEF Shrunk, Linked, L, m, t

\* The map holds as many keys as the list.
LEMMA MapSize ==
    ASSUME NEW c, NEW s, Linked(c, s)
    PROVE  Cardinality(c.map) = Len(s)
  <1>1. Len(s) \in Nat /\ DOMAIN s = 1..Len(s) /\ c.map = {s[j] : j \in 1..Len(s)} /\ s \in Seq(Entries)
    BY DEF Linked, Lists
  <1>2. \A i, j \in 1..Len(s) : s[i] = s[j] => i = j
    BY DEF Linked
  <1>3. s \in Bijection(1..Len(s), c.map)
    <2>1. s \in [1..Len(s) -> c.map]
      BY <1>1
    <2>2. \A x \in c.map : \E j \in 1..Len(s) : s[j] = x
      BY <1>1
    <2>3. s \in Injection(1..Len(s), c.map)
      BY <1>1, <1>2, <2>1 DEF Injection, IsInjective
    <2>4. s \in Surjection(1..Len(s), c.map)
      BY <2>1, <2>2 DEF Surjection
    <2>5. QED
      BY <2>3, <2>4 DEF Bijection
  <1>4. IsFiniteSet(1..Len(s)) /\ Cardinality(1..Len(s)) = Len(s)
    BY <1>1, FS_Interval
  <1>5. QED
    BY <1>3, <1>4, FS_Bijection DEF ExistsBijection

\* Get: the key that was asked for is the first, if it is there.
LEMMA GetLinked ==
    ASSUME NEW c, NEW s, Linked(c, s), NEW k \in Entries
    PROVE  /\ Linked(GetItem(c, k), UsedByGet(s, k)) /\ Len(UsedByGet(s, k)) = Len(s)
           /\ GetItem(c, k).map = c.map
           /\ \A x \in Entries : GetItem(c, k).item[x].val = c.item[x].val
  <1>1. DOMAIN s = 1..Len(s) /\ c.map = {s[j] : j \in 1..Len(s)}
    BY DEF Linked, Lists
  <1>2. CASE \E i \in DOMAIN s : s[i] = k
    <2> DEFINE i == CHOOSE i \in DOMAIN s : s[i] = k
    <2>1. i \in 1..Len(s) /\ s[i] = k
      BY <1>1, <1>2
    <2>2. UsedByGet(s, k) = Touched(s, i)
      BY <1>2 DEF UsedByGet
    <2>3. GetItem(c, k) = MoveToHead(c, s[i])
      BY <1>1, <2>1 DEF GetItem
    <2> HIDE DEF i
    <2>4. QED
      BY <2>1, <2>2, <2>3, MoveLinked
  <1>3. CASE ~(\E i \in DOMAIN s : s[i] = k)
    BY <1>1, <1>3 DEF UsedByGet, GetItem
  <1>4. QED
    BY <1>2, <1>3

\* Set with a ttl: the key is the first, and the last one may have gone.
LEMMA SetLinked ==
    ASSUME NEW c, NEW s, Linked(c, s), Len(s) <= Size \/ Len(s) = 2, Keyed(c),
           NEW k \in Keys, NEW v \in Messages, v.key = k
    PROVE  /\ Linked(SetItem(c, k, v), UsedBySet(s, k)) /\ Keyed(SetItem(c, k, v))
           /\ Len(UsedBySet(s, k)) <= Size \/ Len(UsedBySet(s, k)) = 2
  <1>1. DOMAIN s = 1..Len(s) /\ c.map = {s[j] : j \in 1..Len(s)} /\ c \in Caches
    BY DEF Linked, Lists
  <1>2. k \in Entries /\ Keys \subseteq Entries
    BY EntriesFacts
  <1>3. CASE \E i \in DOMAIN s : s[i] = k
    <2> DEFINE d == [c EXCEPT !.item[k].val = v, !.item[k].expired = FALSE]
               i == CHOOSE i \in DOMAIN s : s[i] = k
    <2>1. i \in 1..Len(s) /\ s[i] = k
      BY <1>1, <1>3
    <2>2. UsedBySet(s, k) = Touched(s, i)
      BY <1>3 DEF UsedBySet, UsedByGet
    <2> HIDE DEF i
    <2>3. SetItem(c, k, v) = MoveToHead(d, s[i])
      BY <1>1, <2>1 DEF SetItem
    <2>4. /\ d \in Caches /\ d.map = c.map /\ d.head = c.head /\ d.tail = c.tail /\ d.item[k].val = v
          /\ \A x \in Entries : d.item[x].next = c.item[x].next /\ d.item[x].prev = c.item[x].prev
          /\ \A x \in Entries \ {k} : d.item[x].val = c.item[x].val
      <3> DEFINE it == c.item
                 new == [it[k] EXCEPT !.val = v, !.expired = FALSE]
                 f == [it EXCEPT ![k] = new]
      <3>1. /\ it \in [Entries -> Items] /\ it[k] \in Items
            /\ c.head \in Entries /\ c.tail \in Entries /\ c.map \in SUBSET Entries
        BY <1>1, <1>2 DEF Caches
      <3>2. new \in Items /\ new.val = v /\ new.prev = it[k].prev /\ new.next = it[k].next
        <4> HIDE DEF it
        <4>1. QED
          BY <3>1 DEF Items
      <3>3. d = [c EXCEPT !.item = f]
        BY <1>1, <1>2 DEF Caches
      <3> HIDE DEF it, new, f, d
      <3>4. f \in [Entries -> Items] /\ f[k] = new /\ \A x \in Entries \ {k} : f[x] = it[x]
        BY <1>2, <3>1, <3>2 DEF f
      <3>5. d \in Caches /\ d.map = c.map /\ d.head = c.head /\ d.tail = c.tail /\ d.item = f
        BY <1>1, <3>1, <3>3, <3>4 DEF Caches
      <3>6. QED
        BY <3>2, <3>4, <3>5 DEF it
    <2> HIDE DEF d
    <2>5. \A j \in 1..Len(s) : s[j] \in Entries
      BY DEF Linked
    <2>6. Linked(d, s)
      BY <1>1, <2>4, <2>5 DEF Linked, Lists
    <2> DEFINE m == MoveToHead(d, s[i])
               t == Touched(s, i)
    <2>7. /\ Linked(m, t) /\ Len(t) = Len(s) /\ m.map = d.map
          /\ \A x \in Entries : m.item[x].val = d.item[x].val
      BY <2>1, <2>6, MoveLinked
    <2> HIDE DEF m, t
    <2>8. Keyed(m)
      BY <1>2, <2>4, <2>7 DEF Keyed
    <2>9. QED
      BY <2>2, <2>3, <2>7, <2>8 DEF m, t
  <1>4. CASE ~(\E i \in DOMAIN s : s[i] = k)
    <2> DEFINE d == PutToHead(c, k, v)
               t == <<k>> \o s
    <2>1. k \notin c.map /\ \A i \in 1..Len(s) : s[i] # k
      BY <1>1, <1>4
    <2>2. SetItem(c, k, v) = IF Cardinality(d.map) > Size THEN RemoveTail(d) ELSE d
      BY <2>1 DEF SetItem
    <2>3. UsedBySet(s, k) = IF Len(t) > Size THEN SubSeq(t, 1, Len(t) - 1) ELSE t
      BY <1>4 DEF UsedBySet
    <2>0. Grown(c, s, k, v, d, t)
      BY <1>2, <2>1, PutLinked
    <2> HIDE DEF d, t
    <2>4. /\ Linked(d, t) /\ Len(t) = Len(s) + 1 /\ d.item[k].val = v
          /\ d.map = c.map \cup {k}
          /\ \A x \in Entries \ {k} : d.item[x].val = c.item[x].val
      BY <2>0 DEF Grown
    <2>5. Cardinality(d.map) = Len(t)
      BY <2>4, MapSize
    <2>6. Keyed(d)
      BY <1>2, <2>4 DEF Keyed
    <2>7. Len(s) \in Nat /\ Len(s) >= 2 /\ Size \in Nat
      BY LruAssumption DEF Linked
    <2>8. CASE Len(t) > Size
      <3> DEFINE r == RemoveTail(d)
                 u == SubSeq(t, 1, Len(t) - 1)
      <3>0. Len(t) > 2
        BY <2>4, <2>7
      <3>2. SetItem(c, k, v) = r /\ UsedBySet(s, k) = u
        BY <2>2, <2>3, <2>5, <2>8
      <3>5. Shrunk(d, t, r, u)
        BY <2>4, <3>0, RemoveLinked
      <3> HIDE DEF r, u
      <3>1. /\ Linked(r, u) /\ Len(u) = Len(t) - 1 /\ r.map = d.map \ {d.tail}
            /\ \A x \in r.map : r.item[x].val = d.item[x].val
        BY <3>5 DEF Shrunk
      <3>3. Keyed(r)
        BY <2>6, <3>1 DEF Keyed
      <3>4. Len(u) <= Size \/ Len(u) = 2
        BY <2>4, <2>7, <3>1
      <3>6. QED
        BY <3>1, <3>2, <3>3, <3>4
    <2>9. CASE ~(Len(t) > Size)
      <3>1. Len(t) <= Size
        BY <2>4, <2>7, <2>9
      <3>2. SetItem(c, k, v) = d /\ UsedBySet(s, k) = t
        BY <2>2, <2>3, <2>5, <2>9
      <3>3. QED
        BY <2>4, <2>6, <3>1, <3>2
    <2>10. QED
      BY <2>8, <2>9
  <1>5. QED
    BY <1>3, <1>4

-----------------------------------------------------------------------------
(* dns: the invariant is inductive.                                        *)

LEMMA DnsFacts ==
    /\ Servers \in Nat \ {0} /\ Keys \subseteq Names \X Types
    /\ \A w \in Workers, k \in Names \X Types :
          /\ Message(w, k) \in Messages /\ Message(w, k).key = k
          /\ <<"query", w>> \in Procs /\ <<"refresh", w>> \in Procs
          /\ <<"query", w>>[2] = w /\ <<"query", w>>[1] = "query" /\ <<"refresh", w>>[2] = w
          /\ <<"query", w>> # <<"refresh", w>>
    /\ \A p \in Procs : p[2] \in Workers
  BY DnsAssumption DEF Types, Message, Messages, Procs

LEMMA IdleJob ==
    /\ Idle \in Jobs /\ Row(Idle) /\ \A p : Pending(p, Idle)
  <1>1. 0 \in 0..(Servers - 1) /\ 0 \in 0..Servers
    BY DnsFacts
  <1>2. Idle \in Jobs
    BY <1>1 DEF Idle, Jobs
  <1>3. QED
    BY <1>2 DEF Idle, Row, Pending

\* A goroutine goes on from job[p] to j.
LEMMA OneJob ==
    ASSUME JobsInv, NEW p \in Procs, NEW j \in Jobs, job' = [job EXCEPT ![p] = j],
           index' = index, Row(j), Pending(p, j)
    PROVE  JobsInv'
  <1>1. /\ job' \in [Procs -> Jobs] /\ job'[p] = j
        /\ \A q \in Procs \ {p} : job'[q] = job[q]
    BY DEF JobsInv
  <1>2. \A q \in Procs : Row(job'[q]) /\ Pending(q, job'[q])
    BY <1>1 DEF JobsInv
  <1>3. QED
    BY <1>1, <1>2 DEF JobsInv, Row, Pending

\* The next server in the row.
LEMMA NextInRow ==
    ASSUME NEW s \in 0..(Servers - 1), NEW n \in 1..Servers, NEW t, t = (s + 1) % Servers
    PROVE  /\ t \in 0..(Servers - 1)
           /\ LastTried(n, t) = LastTried(n - 1, s) \cup {s}
           /\ n = Servers => LastTried(n - 1, s) \cup {s} = 0..(Servers - 1)
  <1>1. Servers \in Nat \ {0}
    BY DnsFacts
  <1>2. t = IF s + 1 = Servers THEN 0 ELSE s + 1
    BY <1>1
  <1>3. t \in 0..(Servers - 1)
    BY <1>1, <1>2
  <1>4. ASSUME NEW x \in 0..(Servers - 1)
        PROVE  (Back(x, t) <= n) <=> (Back(x, s) <= n - 1 \/ x = s)
    BY <1>1, <1>2, <1>3 DEF Back
  <1>5. LastTried(n, t) = LastTried(n - 1, s) \cup {s}
    BY <1>4 DEF LastTried
  <1>6. n = Servers => \A x \in 0..(Servers - 1) : Back(x, t) <= n
    BY <1>1, <1>3 DEF Back
  <1>7. n = Servers => LastTried(n, t) = 0..(Servers - 1)
    BY <1>6 DEF LastTried
  <1>8. QED
    BY <1>3, <1>5, <1>7

LEMMA QueryJobs ==
    ASSUME JobsInv, NEW w \in Workers, NEW k \in Names \X Types, Query(w, k)
    PROVE  JobsInv'
  <1> DEFINE p == <<"query", w>>
             j == IF noAAAA /\ k[2] = "AAAA"
                  THEN [Idle EXCEPT !.pc = "reply", !.key = k, !.resp = Message(w, k)]
                  ELSE [Idle EXCEPT !.pc = IF k \in Keys THEN "cache" ELSE "exchange", !.key = k]
  <1>1. /\ p \in Procs /\ p[2] = w /\ Message(w, k) \in Messages
    BY DnsFacts
  <1>2. job' = [job EXCEPT ![p] = j] /\ index' = index
    BY DEF Query
  <1>3. Idle \in Jobs
    BY IdleJob
  <1>4. j \in Jobs
    BY <1>1, <1>3 DEF Jobs
  <1>5. Row(j)
    BY DEF Idle, Row
  <1>6. Pending(p, j)
    BY <1>1 DEF Idle, Pending
  <1> HIDE DEF p, j
  <1>7. QED
    BY <1>1, <1>2, <1>4, <1>5, <1>6, OneJob

\* What the cache holds for a key answers it.
LEMMA HitAnswer ==
    ASSUME StoreKeyed, Keyed(lru), NEW w \in Workers, NEW k \in Keys, Cached(k)
    PROVE  AnswerFor(Value(k), w) = Message(w, k)
  <1>1. Value(k) \in Messages /\ Value(k).key = k
    BY DEF StoreKeyed, Keyed, Cached, Value
  <1>2. QED
    BY <1>1 DEF AnswerFor, Message, Messages

LEMMA HitJobs ==
    ASSUME JobsInv, StoreKeyed, Keyed(lru), NEW w \in Workers, Hit(w)
    PROVE  JobsInv'
  <1> DEFINE p == <<"query", w>>
             r == <<"refresh", w>>
             k == job[p].key
             a == [job[p] EXCEPT !.pc = "reply", !.resp = AnswerFor(Value(k), w)]
             b == [Idle EXCEPT !.pc = "exchange", !.key = k]
  <1>1. p \in Procs /\ r \in Procs /\ p # r /\ p[2] = w
    <2>1. PICK x \in Names \X Types : TRUE
      BY DEF Hit, JobsInv, Pending, Procs
    <2>2. QED
      BY <2>1, DnsFacts
  <1>2. job[p].pc = "cache" /\ Cached(k) /\ k \in Keys /\ k \in Names \X Types /\ job[p] \in Jobs
    BY <1>1 DEF Hit, JobsInv, Pending
  <1>3. AnswerFor(Value(k), w) = Message(w, k) /\ Message(w, k) \in Messages
    BY <1>2, HitAnswer, DnsFacts
  <1>4. a \in Jobs /\ a.pc = "reply" /\ a.key = k /\ a.resp = Message(w, k)
    BY <1>2, <1>3 DEF Jobs
  <1>5. Row(a) /\ Pending(p, a)
    BY <1>1, <1>2, <1>4 DEF Row, Pending
  <1>6. b \in Jobs /\ Row(b) /\ Pending(r, b)
    <2>1. Idle \in Jobs
      BY IdleJob
    <2>2. b \in Jobs
      BY <1>2, <2>1 DEF Jobs
    <2>3. QED
      BY <1>2, <2>2 DEF Idle, Row, Pending
  <1>7. index' = index /\ \/ job' = [job EXCEPT ![p] = a]
                          \/ job' = [job EXCEPT ![p] = a, ![r] = b]
    BY DEF Hit
  <1> HIDE DEF p, r, a, b
  <1>8. CASE job' = [job EXCEPT ![p] = a]
    BY <1>1, <1>4, <1>5, <1>7, <1>8, OneJob
  <1>9. CASE job' = [job EXCEPT ![p] = a, ![r] = b]
    <2>1. /\ job' \in [Procs -> Jobs] /\ job'[p] = a /\ job'[r] = b
          /\ \A q \in Procs \ {p, r} : job'[q] = job[q]
      BY <1>1, <1>4, <1>6, <1>9 DEF JobsInv
    <2>2. \A q \in Procs : Row(job'[q]) /\ Pending(q, job'[q])
      BY <1>5, <1>6, <2>1 DEF JobsInv
    <2>3. QED
      BY <1>7, <2>1, <2>2 DEF JobsInv, Row, Pending
  <1>10. QED
    BY <1>7, <1>8, <1>9

\* A step of the exchange, from j to i, that leaves the index alone.
LEMMA ExchangeJobs ==
    ASSUME JobsInv, NEW p \in Procs,
           ExchangeStart(p) \/ TryFails(p) \/ SwitchTest(p) \/ TryOk(p) \/ Garbled(p) \/ Failed(p)
    PROVE  JobsInv'
  <1> DEFINE j == job[p]
  <1>1. j \in Jobs /\ Row(j) /\ Pending(p, j) /\ index \in 0..(Servers - 1) /\ index' = index
    BY DEF JobsInv, ExchangeStart, TryFails, SwitchTest, TryOk, Garbled, Failed
  <1>2. job \in [Procs -> Jobs] /\ Servers \in Nat \ {0}
    BY DnsFacts DEF JobsInv
  <1>3. CASE ExchangeStart(p)
    <2> DEFINE i == [j EXCEPT !.pc = "try", !.server = index]
    <2>1. job' = [job EXCEPT ![p] = i] /\ j.pc = "exchange"
      BY <1>3 DEF ExchangeStart
    <2> HIDE DEF j
    <2>2. i \in Jobs
      BY <1>1 DEF Jobs
    <2>3. /\ i.pc = "try" /\ i.server = index /\ i.key = j.key /\ i.tries = 0 /\ i.tried = {}
          /\ i.raced = FALSE
      BY <1>1, <2>1 DEF Jobs, Row
    <2>4. LastTried(0, index) = {}
      BY <1>1, <1>2 DEF LastTried, Back
    <2> HIDE DEF i
    <2>5. Row(i) /\ Pending(p, i)
      BY <1>1, <1>2, <2>1, <2>3, <2>4 DEF Row, Pending
    <2>6. QED
      BY <1>1, <2>1, <2>2, <2>5, OneJob
  <1>4. CASE TryFails(p)
    <2> DEFINE i == [j EXCEPT !.pc = "switchif", !.tries = j.tries + 1,
                              !.tried = j.tried \cup {j.server}]
    <2>1. job' = [job EXCEPT ![p] = i] /\ j.pc = "try"
      BY <1>4 DEF TryFails
    <2> HIDE DEF j
    <2>2. /\ j.tries \in 0..Servers /\ j.tries < Servers
          /\ j.tried \cup {j.server} \in SUBSET (0..(Servers - 1))
      BY <1>1, <2>1 DEF Jobs, Row
    <2>3. j.tries + 1 \in 0..Servers /\ (j.tries + 1) - 1 = j.tries /\ j.tries + 1 > 0
      BY <1>2, <2>2
    <2>4. i \in Jobs
      BY <1>1, <2>2, <2>3 DEF Jobs
    <2>5. /\ i.pc = "switchif" /\ i.server = j.server /\ i.key = j.key /\ i.tries = j.tries + 1
          /\ i.tried = j.tried \cup {j.server} /\ i.raced = j.raced
      BY <1>1 DEF Jobs
    <2> HIDE DEF i
    <2>6. Row(i) /\ Pending(p, i)
      BY <1>1, <2>1, <2>3, <2>5 DEF Row, Pending
    <2>7. QED
      BY <1>1, <2>1, <2>4, <2>6, OneJob
  <1>5. CASE SwitchTest(p)
    <2> DEFINE i == IF index = j.server THEN [j EXCEPT !.pc = "switch"] ELSE TryNext(p, index)
    <2>1. job' = [job EXCEPT ![p] = i] /\ j.pc = "switchif"
      BY <1>5 DEF SwitchTest
    <2>2. TryNext(p, index) =
             [j EXCEPT !.pc = IF j.tries < Servers THEN "try" ELSE "failed", !.server = index]
      BY DEF TryNext
    <2> HIDE DEF j
    <2>3. i \in Jobs
      BY <1>1, <2>2 DEF Jobs
    <2>4. CASE index = j.server
      <3>1. /\ i.pc = "switch" /\ i.server = j.server /\ i.key = j.key /\ i.tries = j.tries
            /\ i.tried = j.tried /\ i.raced = j.raced
        BY <1>1, <2>4 DEF Jobs
      <3> HIDE DEF i
      <3>2. Row(i) /\ Pending(p, i)
        BY <1>1, <2>1, <3>1 DEF Row, Pending
      <3>3. QED
        BY <1>1, <2>1, <2>3, <3>2, OneJob
    <2>5. CASE index # j.server
      <3>1. /\ i.pc \in {"try", "failed"} /\ i.key = j.key /\ i.tries = j.tries
            /\ i.pc = "try" => j.tries < Servers
            /\ i.raced = j.raced
        BY <1>1, <2>2, <2>5 DEF Jobs
      <3>2. j.raced
        BY <1>1, <2>1, <2>5 DEF Row
      <3> HIDE DEF i
      <3>3. Row(i) /\ Pending(p, i)
        BY <1>1, <2>1, <3>1, <3>2 DEF Row, Pending
      <3>4. QED
        BY <1>1, <2>1, <2>3, <3>3, OneJob
    <2>6. QED
      BY <2>4, <2>5
  <1>6. CASE TryOk(p)
    <2>1. PICK t \in TTLs :
             job' = [job EXCEPT ![p].pc = IF j.key \in Keys THEN "answer" ELSE "reply",
                                ![p].ttl = t, ![p].resp = Message(p[2], j.key)]
      BY <1>6 DEF TryOk
    <2> DEFINE i == [j EXCEPT !.pc = IF j.key \in Keys THEN "answer" ELSE "reply",
                              !.ttl = t, !.resp = Message(p[2], j.key)]
    <2>2. job' = [job EXCEPT ![p] = i] /\ j.pc = "try"
      BY <1>2, <1>6, <2>1 DEF TryOk
    <2> HIDE DEF j
    <2>3. j.key \in Names \X Types /\ Message(p[2], j.key) \in Messages
      BY <1>1, <2>2, DnsFacts DEF Pending
    <2>4. i \in Jobs
      BY <1>1, <2>3 DEF Jobs
    <2>5. /\ i.pc = IF j.key \in Keys THEN "answer" ELSE "reply"
          /\ i.key = j.key /\ i.resp = Message(p[2], j.key)
      BY <1>1 DEF Jobs
    <2> HIDE DEF i
    <2>6. Row(i) /\ Pending(p, i)
      BY <2>3, <2>5 DEF Row, Pending
    <2>7. QED
      BY <1>1, <2>2, <2>4, <2>6, OneJob
  <1>7. CASE Garbled(p) \/ Failed(p)
    BY <1>1, <1>7, IdleJob, OneJob DEF Garbled, Failed
  <1>8. QED
    BY <1>3, <1>4, <1>5, <1>6, <1>7

LEMMA SwitchJobs ==
    ASSUME JobsInv, NEW p \in Procs, Switch(p)
    PROVE  JobsInv'
  <1> DEFINE j == job[p]
             t == (index + 1) % Servers
             i == [j EXCEPT !.pc = IF j.tries < Servers THEN "try" ELSE "failed", !.server = t]
  <1>1. /\ j \in Jobs /\ Row(j) /\ Pending(p, j) /\ index \in 0..(Servers - 1)
        /\ j.pc = "switch" /\ index' = t /\ job \in [Procs -> Jobs]
    BY DEF JobsInv, Switch
  <1>2. job' = [q \in Procs |-> IF q = p THEN i ELSE [job[q] EXCEPT !.raced = job[q].raced \/ Racing(p, q)]]
    BY DEF Switch, TryNext
  <1>3. Servers \in Nat \ {0} /\ t \in 0..(Servers - 1)
    BY <1>1, DnsFacts
  <1>5. job'[p] = i
    BY <1>2
  <1>4. i \in Jobs /\ Row(job[p])' /\ Pending(p, i)
    <2> HIDE DEF j
    <2>1. j.tries \in 1..Servers /\ j.server \in 0..(Servers - 1)
      BY <1>1, <1>3 DEF Jobs, Row
    <2>2. /\ i.pc = IF j.tries < Servers THEN "try" ELSE "failed"
          /\ i.key = j.key /\ i.tries = j.tries /\ i.tried = j.tried /\ i.server = t
          /\ i.raced = j.raced
      BY <1>1 DEF Jobs
    <2>3. i \in Jobs
      BY <1>1, <1>3 DEF Jobs
    <2>4. Pending(p, i)
      BY <1>1, <2>2 DEF Pending
    <2>5. ~j.raced => /\ j.tried = LastTried(j.tries, t)
                      /\ j.tries = Servers => j.tried = 0..(Servers - 1)
      <3>1. ~j.raced => index = j.server /\ j.tried = LastTried(j.tries - 1, index) \cup {index}
        BY <1>1 DEF Row
      <3> DEFINE n == j.tries
      <3>2. n \in 1..Servers /\ index \in 0..(Servers - 1)
        BY <1>1, <2>1
      <3> HIDE DEF n
      <3>3. /\ LastTried(n, t) = LastTried(n - 1, index) \cup {index}
            /\ n = Servers => LastTried(n - 1, index) \cup {index} = 0..(Servers - 1)
        BY <3>2, NextInRow
      <3>4. QED
        BY <3>1, <3>3 DEF n
    <2>6. j.tries < Servers \/ j.tries = Servers
      BY <1>3, <2>1
    <2> HIDE DEF i, t
    <2>7. Row(job[p])'
      BY <1>1, <1>5, <2>2, <2>5, <2>6 DEF Row
    <2>8. QED
      BY <2>3, <2>4, <2>7
  <1>6. ASSUME NEW q \in Procs \ {p}
        PROVE  job'[q] \in Jobs /\ Row(job[q])' /\ Pending(q, job'[q])
    <2> DEFINE o == job[q]
               i2 == [o EXCEPT !.raced = o.raced \/ Racing(p, q)]
    <2>1. /\ job'[q] = i2 /\ o \in Jobs /\ Row(o) /\ Pending(q, o)
          /\ Racing(p, q) <=> o.pc \in {"try", "switchif", "switch"}
      BY <1>2 DEF JobsInv, Racing
    <2> HIDE DEF o
    <2>2. i2 \in Jobs
      BY <2>1 DEF Jobs
    <2>3. /\ i2.pc = o.pc /\ i2.key = o.key /\ i2.tries = o.tries /\ i2.tried = o.tried
          /\ i2.resp = o.resp /\ i2.server = o.server
          /\ i2.raced <=> (o.raced \/ Racing(p, q))
      BY <2>1 DEF Jobs
    <2> HIDE DEF i2
    <2>4. Row(job[q])'
      BY <2>1, <2>3 DEF Row
    <2>5. Pending(q, i2)
      BY <2>1, <2>3 DEF Pending
    <2>6. QED
      BY <2>1, <2>2, <2>4, <2>5
  <1>7. job' \in [Procs -> Jobs]
    <2>1. \A q \in Procs : job'[q] \in Jobs
      BY <1>4, <1>5, <1>6
    <2>2. job' = [q \in Procs |-> job'[q]]
      BY <1>2
    <2>3. QED
      BY <2>1, <2>2
  <1>8. \A q \in Procs : Row(job[q])' /\ Pending(q, job[q])'
    <2>1. Row(job[p])' /\ Pending(p, job[p])'
      BY <1>4, <1>5 DEF Pending
    <2>2. ASSUME NEW q \in Procs \ {p} PROVE Row(job[q])' /\ Pending(q, job[q])'
      BY <1>6 DEF Pending
    <2>3. QED
      BY <2>1, <2>2
  <1>9. QED
    BY <1>1, <1>3, <1>7, <1>8 DEF JobsInv

LEMMA AnswerJobs ==
    ASSUME JobsInv, NEW p \in Procs, HandleAnswer(p)
    PROVE  JobsInv'
  <1> DEFINE j == job[p]
             i == [j EXCEPT !.pc = "reply"]
  <1>1. j \in Jobs /\ Pending(p, j) /\ j.pc = "answer" /\ index' = index
    BY DEF JobsInv, HandleAnswer
  <1>2. job' = [job EXCEPT ![p] = i] \/ job' = [job EXCEPT ![p] = Idle]
    BY DEF HandleAnswer, Goto
  <1> HIDE DEF j
  <1>3. /\ i \in Jobs /\ i.pc = "reply" /\ i.key = j.key /\ i.resp = j.resp
    BY <1>1 DEF Jobs
  <1> HIDE DEF i
  <1>4. Row(i) /\ Pending(p, i)
    BY <1>1, <1>3 DEF Row, Pending
  <1>5. CASE job' = [job EXCEPT ![p] = i]
    BY <1>1, <1>3, <1>4, <1>5, OneJob
  <1>6. CASE job' = [job EXCEPT ![p] = Idle]
    BY <1>1, <1>6, IdleJob, OneJob
  <1>7. QED
    BY <1>2, <1>5, <1>6

LEMMA QueryProc ==
    ASSUME NEW w \in Workers
    PROVE  <<"query", w>> \in Procs /\ <<"query", w>>[2] = w
  BY DEF Procs

LEMMA MissJobs ==
    ASSUME JobsInv, NEW w \in Workers, Miss(w)
    PROVE  JobsInv'
  <1> DEFINE p == <<"query", w>>
             j == job[p]
             i == [j EXCEPT !.pc = "exchange"]
  <1>1. p \in Procs
    BY QueryProc
  <1>2. /\ j \in Jobs /\ Row(j) /\ Pending(p, j) /\ j.pc = "cache" /\ index' = index
        /\ job' = [job EXCEPT ![p] = i]
    BY <1>1 DEF JobsInv, Miss, Goto
  <1> HIDE DEF j, p
  <1>3. /\ i \in Jobs /\ i.pc = "exchange" /\ i.key = j.key
        /\ i.tries = j.tries /\ i.tried = j.tried /\ i.raced = j.raced
    BY <1>2 DEF Jobs
  <1> HIDE DEF i
  <1>4. Row(i) /\ Pending(p, i)
    BY <1>2, <1>3 DEF Row, Pending
  <1>5. QED
    BY <1>1, <1>2, <1>3, <1>4, OneJob

LEMMA ReplyJobs ==
    ASSUME JobsInv, NEW w \in Workers, Reply(w)
    PROVE  JobsInv'
  <1> DEFINE p == <<"query", w>>
  <1>1. p \in Procs
    BY QueryProc
  <1>2. job' = [job EXCEPT ![p] = Idle] /\ index' = index
    BY DEF Reply
  <1> HIDE DEF p
  <1>3. QED
    BY <1>1, <1>2, IdleJob, OneJob

LEMMA SameJobs ==
    ASSUME JobsInv, UNCHANGED <<job, index>>
    PROVE  JobsInv'
  BY DEF JobsInv, Row, Pending

CacheInv ==
    /\ Linked(lru, used) /\ (Len(used) <= Size \/ Len(used) = 2)
    /\ Keyed(lru) /\ StoreKeyed

LEMMA SameCache ==
    ASSUME CacheInv, UNCHANGED cacheVars
    PROVE  CacheInv'
  BY DEF cacheVars, CacheInv, Linked, Lists, Keyed, StoreKeyed

LEMMA GotCache ==
    ASSUME CacheInv, NEW k \in Keys, Got(k)
    PROVE  CacheInv'
  <1>1. CASE k \in DOMAIN store
    BY <1>1, SameCache DEF Got
  <1>2. CASE k \notin DOMAIN store
    <2>1. lru' = GetItem(lru, k) /\ used' = UsedByGet(used, k) /\ store' = store
      BY <1>2 DEF Got
    <2>2. /\ Linked(lru', used') /\ Len(used') = Len(used)
          /\ lru'.map = lru.map /\ \A x \in Entries : lru'.item[x].val = lru.item[x].val
      BY <2>1, GetLinked, EntriesFacts DEF CacheInv
    <2>3. Keyed(lru')
      BY <2>2, EntriesFacts DEF CacheInv, Keyed
    <2>4. StoreKeyed'
      BY <2>1 DEF CacheInv, StoreKeyed
    <2>5. QED
      BY <2>2, <2>3, <2>4 DEF CacheInv, Linked, Lists, Keyed
  <1>3. QED
    BY <1>1, <1>2

LEMMA SetCache ==
    ASSUME CacheInv, NEW k \in Keys, NEW v \in Messages, v.key = k, NEW ttl, CacheSet(k, v, ttl)
    PROVE  CacheInv'
  <1>1. CASE ttl = 0
    <2>1. /\ store' = [x \in DOMAIN store \cup {k} |-> IF x = k THEN v ELSE store[x]]
          /\ UNCHANGED <<lru, used>>
      BY <1>1 DEF CacheSet
    <2>2. StoreKeyed'
      BY <2>1 DEF CacheInv, StoreKeyed
    <2>3. QED
      BY <2>1, <2>2 DEF CacheInv, Linked, Lists, Keyed
  <1>2. CASE ttl # 0
    <2>1. lru' = SetItem(lru, k, v) /\ used' = UsedBySet(used, k) /\ store' = store
      BY <1>2 DEF CacheSet
    <2>2. Linked(lru', used') /\ Keyed(lru') /\ (Len(used') <= Size \/ Len(used') = 2)
      BY <2>1, SetLinked DEF CacheInv
    <2>3. StoreKeyed'
      BY <2>1 DEF CacheInv, StoreKeyed
    <2>4. QED
      BY <2>2, <2>3 DEF CacheInv, Linked, Lists, Keyed
  <1>3. QED
    BY <1>1, <1>2

LEMMA ExpireCache ==
    ASSUME CacheInv, NEW k \in Keys, Expire(k)
    PROVE  CacheInv'
  <1> DEFINE it == lru.item
             new == [it[k] EXCEPT !.expired = TRUE]
             f == [it EXCEPT ![k] = new]
  <1>1. /\ it \in [Entries -> Items] /\ it[k] \in Items /\ lru \in Caches /\ k \in Entries
        /\ lru.head \in Entries /\ lru.tail \in Entries /\ lru.map \in SUBSET Entries
    BY EntriesFacts DEF CacheInv, Linked, Caches
  <1>2. lru' = [lru EXCEPT !.item = f] /\ UNCHANGED <<used, store>>
    BY <1>1 DEF Expire, Caches
  <1>3. new \in Items /\ new.val = it[k].val /\ new.prev = it[k].prev /\ new.next = it[k].next
    <2> HIDE DEF it
    <2>1. QED
      BY <1>1 DEF Items
  <1> HIDE DEF it, new, f
  <1>4. f \in [Entries -> Items] /\ f[k] = new /\ \A x \in Entries \ {k} : f[x] = it[x]
    BY <1>1, <1>3 DEF f
  <1>5. \A x \in Entries : f[x].val = it[x].val /\ f[x].prev = it[x].prev /\ f[x].next = it[x].next
    BY <1>3, <1>4
  <1>6. lru' \in Caches /\ lru'.map = lru.map /\ lru'.head = lru.head /\ lru'.tail = lru.tail
        /\ lru'.item = f
    BY <1>1, <1>2, <1>4 DEF Caches
  <1>7. \A x \in Entries : /\ lru'.item[x].val = lru.item[x].val
                           /\ lru'.item[x].prev = lru.item[x].prev
                           /\ lru'.item[x].next = lru.item[x].next
    BY <1>5, <1>6 DEF it
  <1>8. \A j \in DOMAIN used : used[j] \in Entries
    BY DEF CacheInv, Linked
  <1>9. Linked(lru', used')
    BY <1>2, <1>6, <1>7, <1>8 DEF CacheInv, Linked, Lists
  <1>10. Keyed(lru')
    BY <1>6, <1>7, EntriesFacts DEF CacheInv, Keyed
  <1>11. StoreKeyed'
    BY <1>2 DEF CacheInv, StoreKeyed
  <1>12. QED
    BY <1>2, <1>9, <1>10, <1>11 DEF CacheInv, Linked, Lists, Keyed

LEMMA DnsInitInv == DnsInit => DnsInv
  <1> SUFFICES ASSUME DnsInit PROVE DnsInv
    OBVIOUS
  <1>1. JobsInv
    <2>1. index = 0 /\ job = [p \in Procs |-> Idle]
      BY DEF DnsInit
    <2>2. 0 \in 0..(Servers - 1)
      BY DnsFacts
    <2>3. QED
      BY <2>1, <2>2, IdleJob DEF JobsInv
  <1>2. StoreKeyed
    <2>1. store = [k \in Records |-> Message(0, k)] /\ Records \subseteq Keys
      BY DnsAssumption DEF DnsInit
    <2>2. \A k \in Keys : Message(0, k) \in Messages /\ Message(0, k).key = k
      BY DnsFacts DEF Message, Messages
    <2>3. QED
      BY <2>1, <2>2 DEF StoreKeyed
  <1>3. lru = NewLruCache /\ used = <<HeadKey, TailKey>>
    BY DEF DnsInit
  <1>4. /\ lru.head = HeadKey /\ lru.tail = TailKey /\ lru.map = Dummies
        /\ lru.item = [k \in Keys \cup Dummies |->
                         CASE k = HeadKey -> [NoItem EXCEPT !.next = TailKey]
                           [] k = TailKey -> [NoItem EXCEPT !.prev = HeadKey]
                           [] OTHER -> NoItem]
    BY <1>3 DEF NewLruCache
  <1>5. /\ HeadKey \in Entries /\ TailKey \in Entries /\ HeadKey # TailKey
        /\ Dummies = {HeadKey, TailKey} /\ Keys \cup Dummies = Entries
    BY EntriesFacts DEF Dummies, Entries
  <1>6. /\ lru.item[HeadKey] = [NoItem EXCEPT !.next = TailKey]
        /\ lru.item[TailKey] = [NoItem EXCEPT !.prev = HeadKey]
    BY <1>4, <1>5
  <1>7. /\ lru.item[HeadKey].next = TailKey /\ lru.item[HeadKey].prev = Nil
        /\ lru.item[TailKey].prev = HeadKey /\ lru.item[TailKey].next = Nil
    BY <1>6 DEF NoItem
  <1>8. /\ NoItem \in Items /\ [NoItem EXCEPT !.next = TailKey] \in Items
        /\ [NoItem EXCEPT !.prev = HeadKey] \in Items
    BY <1>5 DEF NoItem, Items
  <1>9. lru \in Caches
    <2>1. lru.item \in [Entries -> Items]
      BY <1>4, <1>5, <1>8
    <2>2. lru = [head |-> lru.head, tail |-> lru.tail, map |-> lru.map, item |-> lru.item]
      BY <1>3 DEF NewLruCache
    <2>3. lru.map \in SUBSET Entries /\ lru.head \in Entries /\ lru.tail \in Entries
      BY <1>4, <1>5
    <2> DEFINE h == lru.head
               l == lru.tail
               mp == lru.map
               it == lru.item
    <2> HIDE DEF h, l, mp, it
    <2>4. [head |-> h, tail |-> l, map |-> mp, item |-> it] \in Caches
      BY <2>1, <2>3 DEF Caches, h, l, mp, it
    <2>5. QED
      BY <2>2, <2>4 DEF h, l, mp, it
  <1>10. /\ used \in Seq(Entries) /\ Len(used) = 2 /\ used[1] = HeadKey /\ used[2] = TailKey
         /\ DOMAIN used = {1, 2}
    BY <1>3, <1>5
  <1>11. Lists(lru, used)
    <2>1. lru.map = {used[i] : i \in DOMAIN used}
      BY <1>4, <1>5, <1>10
    <2>2. QED
      BY <1>4, <1>7, <1>10, <2>1 DEF Lists
  <1>12. Linked(lru, used)
    BY <1>5, <1>9, <1>10, <1>11 DEF Linked
  <1>13. Keyed(lru)
    BY <1>4, EntriesFacts DEF Keyed
  <1>14. AnswerMatches
    BY DEF DnsInit, AnswerMatches
  <1>15. QED
    BY <1>1, <1>2, <1>10, <1>12, <1>13, <1>14 DEF DnsInv

\* The steps, each for what it changes.
LEMMA DnsStepInv == DnsInv /\ [DnsNext]_dnsVars => DnsInv'
  <1> SUFFICES ASSUME DnsInv, [DnsNext]_dnsVars PROVE DnsInv'
    OBVIOUS
  <1>1. JobsInv /\ CacheInv /\ AnswerMatches
    BY DEF DnsInv, CacheInv
  <1>2. ASSUME JobsInv', CacheInv', AnswerMatches' PROVE DnsInv'
    BY <1>2 DEF DnsInv, CacheInv
  <1>3. ASSUME UNCHANGED replies PROVE AnswerMatches'
    BY <1>1, <1>3 DEF AnswerMatches
  <1>4. ASSUME NEW w \in Workers, NEW n \in Names, NEW t \in Types, Query(w, <<n, t>>) PROVE DnsInv'
    <2>1. <<n, t>> \in Names \X Types
      OBVIOUS
    <2>2. JobsInv'
      BY <1>1, <1>4, <2>1, QueryJobs
    <2>3. QED
      BY <1>1, <1>2, <1>3, <1>4, <2>2, SameCache DEF Query
  <1>5. ASSUME NEW w \in Workers, Hit(w) PROVE DnsInv'
    <2>1. JobsInv'
      BY <1>1, <1>5, HitJobs DEF CacheInv
    <2>2. CacheInv'
      <3> DEFINE k == job[<<"query", w>>].key
      <3>1. k \in Keys /\ Got(k)
        BY <1>1, <1>5, QueryProc DEF Hit, JobsInv, Pending
      <3> HIDE DEF k
      <3>2. QED
        BY <1>1, <3>1, GotCache
    <2>3. QED
      BY <1>2, <1>3, <1>5, <2>1, <2>2 DEF Hit
  <1>6. ASSUME NEW w \in Workers, Miss(w) PROVE DnsInv'
    BY <1>1, <1>2, <1>3, <1>6, MissJobs, SameCache DEF Miss
  <1>7. ASSUME NEW w \in Workers, Reply(w) PROVE DnsInv'
    <2> DEFINE p == <<"query", w>>
    <2>1. p \in Procs /\ p[2] = w
      BY QueryProc
    <2>2. job[p].pc = "reply" /\ replies' = replies \cup {[to |-> w, asked |-> job[p].key, answer |-> job[p].resp]}
      BY <1>7 DEF Reply
    <2>3. job[p].resp = Message(w, job[p].key)
      BY <1>1, <2>1, <2>2 DEF JobsInv, Pending
    <2>4. AnswerMatches'
      BY <1>1, <2>2, <2>3 DEF AnswerMatches, Message
    <2>5. QED
      BY <1>1, <1>2, <1>7, <2>4, ReplyJobs, SameCache DEF Reply
  <1>8. ASSUME NEW k \in Keys, Expire(k) PROVE DnsInv'
    BY <1>1, <1>2, <1>3, <1>8, ExpireCache, SameJobs DEF Expire
  <1>9. ASSUME NEW p \in Procs,
               ExchangeStart(p) \/ TryFails(p) \/ SwitchTest(p) \/ TryOk(p) \/ Garbled(p) \/ Failed(p)
        PROVE  DnsInv'
    <2>1. UNCHANGED cacheVars /\ UNCHANGED replies
      BY <1>9 DEF ExchangeStart, TryFails, SwitchTest, TryOk, Garbled, Failed, exchangeRest
    <2>2. QED
      BY <1>1, <1>2, <1>3, <1>9, <2>1, ExchangeJobs, SameCache
  <1>10. ASSUME NEW p \in Procs, Switch(p) PROVE DnsInv'
    BY <1>1, <1>2, <1>3, <1>10, SwitchJobs, SameCache DEF Switch, exchangeRest
  <1>11. ASSUME NEW p \in Procs, HandleAnswer(p) PROVE DnsInv'
    <2> DEFINE k == job[p].key
               v == job[p].resp
               ttl == EffectiveTTL(job[p].ttl)
    <2>1. k \in Keys /\ v = Message(p[2], k) /\ CacheSet(k, v, ttl) /\ UNCHANGED replies
      BY <1>1, <1>11 DEF HandleAnswer, JobsInv, Pending
    <2> HIDE DEF k, v, ttl
    <2>2. v \in Messages /\ v.key = k
      <3>1. p[2] \in Workers /\ k \in Names \X Types
        BY <2>1, DnsFacts
      <3>2. QED
        BY <2>1, <3>1, DnsFacts
    <2>3. CacheInv'
      BY <1>1, <2>1, <2>2, SetCache
    <2>4. QED
      BY <1>1, <1>2, <1>3, <1>11, <2>1, <2>3, AnswerJobs
  <1>12. CASE UNCHANGED dnsVars
    BY <1>1, <1>2, <1>3, <1>12, SameJobs, SameCache DEF dnsVars
  <1>13. QED
    BY <1>4, <1>5, <1>6, <1>7, <1>8, <1>9, <1>10, <1>11, <1>12 DEF DnsNext

\* DnsInv holds of every behaviour of the dns forwarder.
THEOREM DnsInvariant == DnsSpec => []DnsInv
  BY DnsInitInv, DnsStepInv, PTL DEF DnsSpec

\* The cache's linked list is the order of last use, both ways, and within its
\* size, after any sequence of lookups, answers and evictions (dns/cache.go).
THEOREM ListIsRecencyHolds == DnsSpec => []ListIsRecency
  <1>1. DnsInv => ListIsRecency
    BY DEF DnsInv, Linked, ListIsRecency
  <1>2. QED
    BY <1>1, DnsInvariant, PTL

\* Every reply has the id and the question of its request, whoever has fetched
\* the cached message (dns/client.go, Exchange).
THEOREM AnswerMatchesHolds == DnsSpec => []AnswerMatches
  <1>1. DnsInv => AnswerMatches
    BY DEF DnsInv
  <1>2. QED
    BY <1>1, DnsInvariant, PTL

\* An exchange that nobody else's Switch has met gives up only after a try of
\* every server, for any number of them (dns/client.go, exchange).
THEOREM AllTriedUnlessRacedHolds == DnsSpec => []AllTriedUnlessRaced
  <1>1. DnsInv => AllTriedUnlessRaced
    BY DEF DnsInv, JobsInv, Row, AllTriedUnlessRaced
  <1>2. QED
    BY <1>1, DnsInvariant, PTL

-----------------------------------------------------------------------------
(***************************************************************************)
(* dhcp: any number of clients, any pool with any static addresses, any    *)
(* time of a lease and a clock of any range.                               *)
(***************************************************************************)
USE DhcpAssumption

Owners == Macs \cup {NoMac} \cup {Hosts[a] : a \in DOMAIN Hosts}

(* The types of the variables.                                             *)
DhcpTypeOK ==
    /\ items \in [Addrs -> [mac : Owners, expire : Nat]]
    /\ now \in Nat \ {0}
    /\ handler \in [Macs -> [type : {"none", "discover", "request"},
                             ip : Addrs \cup {NoAddr}, sent : Nat]]
    /\ held \in [Macs -> [ip : Addrs \cup {NoAddr}, until : Nat]]
    /\ freed \subseteq Macs

(* No packet comes from the future, nor does a lease that a client has.    *)
SentBefore ==
    \A c \in Macs : handler[c].sent <= now /\ held[c].until <= now + LeaseTime

(* What a client uses is leased to it, for ever or for at least as long as *)
(* the client takes it to be, and the lease has not run out.               *)
Backed(c) ==
    LET a == held[c].ip IN
    a # NoAddr => /\ items[a].mac = c
                  /\ \/ items[a].expire = NoTime
                     \/ items[a].expire >= held[c].until /\ items[a].expire >= now

(* The inductive invariant.                                                *)
DhcpInv == DhcpTypeOK /\ SentBefore /\ \A c \in Macs \ freed : Backed(c)

-----------------------------------------------------------------------------
(* A set of addresses that is not empty has a least one, so LeaseIP finds  *)
(* an address of the client when there is one.                             *)
LEMMA LeastOne ==
    ASSUME NEW T \in SUBSET Addrs, T # {}
    PROVE  (CHOOSE a \in T : \A b \in T : a <= b) \in T
  <1>1. T \subseteq Nat
    BY DEF Addrs
  <1>2. \E a \in T : \A b \in T : ~ (<<b, a>> \in OpToRel(<, Nat))
    BY <1>1, NatLessThanWellFounded, WFMin, Zenon
  <1>3. PICK a \in T : \A b \in T : ~ (<<b, a>> \in OpToRel(<, Nat))
    BY <1>2
  <1>4. \A b \in T : ~(b < a)
    BY <1>1, <1>3 DEF OpToRel
  <1>5. \A b \in T : a <= b
    BY <1>1, <1>4
  <1>6. QED
    BY <1>5

(* LeaseIP gives a client an address that is its own or nobody's.          *)
LEMMA ChoicesFree ==
    ASSUME NEW c \in Macs, NEW ip, NEW a \in Choices(c, ip)
    PROVE  a \in Addrs /\ items[a].mac \in {c, NoMac}
  <1>1. CASE Of(c) # {}
    <2>1. Of(c) \in SUBSET Addrs
      BY DEF Of
    <2>2. a = CHOOSE x \in Of(c) : \A b \in Of(c) : x <= b
      BY <1>1 DEF Choices
    <2>3. a \in Of(c)
      BY <1>1, <2>1, <2>2, LeastOne
    <2>4. QED
      BY <2>3 DEF Of
  <1>2. CASE Of(c) = {}
    BY <1>2 DEF Choices, MayLease, Unused
  <1>3. QED
    BY <1>1, <1>2

(* The first state.                                                        *)
LEMMA DhcpInitInv ==
    ASSUME DhcpInit
    PROVE  DhcpInv
  <1> USE DEF DhcpInit
  <1>1. items \in [Addrs -> [mac : Owners, expire : Nat]]
    BY DEF Free, NoTime, Owners
  <1>2. DhcpTypeOK
    BY <1>1 DEF DhcpTypeOK, Quiet, NoLease, NoAddr, NoTime
  <1>3. SentBefore
    BY DEF SentBefore, Quiet, NoLease, NoTime
  <1>4. \A c \in Macs : Backed(c)
    BY DEF Backed, NoLease
  <1>5. QED
    BY <1>2, <1>3, <1>4 DEF DhcpInv

(* Every step keeps the types.                                             *)
LEMMA DhcpTypeStep ==
    ASSUME DhcpInv, [DhcpNext]_dhcpVars
    PROVE  DhcpTypeOK'
  <1> USE DEF DhcpTypeOK, NoAddr, NoTime
  <1>0. DhcpTypeOK
    BY DEF DhcpInv
  <1>a. Quiet \in [type : {"none", "discover", "request"}, ip : Addrs \cup {NoAddr}, sent : Nat]
    BY DEF Quiet
  <1>b. NoLease \in [ip : Addrs \cup {NoAddr}, until : Nat]
    BY DEF NoLease
  <1>c. Free \in [mac : Owners, expire : Nat]
    BY DEF Free, Owners
  <1>1. ASSUME NEW c \in Macs, Packet(c, "discover", NoAddr)
        PROVE  DhcpTypeOK'
    BY <1>0, <1>1 DEF Packet
  <1>2. ASSUME NEW c \in Macs, NEW ip \in Addrs \cup {NoAddr}, Packet(c, "request", ip)
        PROVE  DhcpTypeOK'
    BY <1>0, <1>2 DEF Packet
  <1>3. ASSUME NEW c \in Macs, GiveUp(c)
        PROVE  DhcpTypeOK'
    BY <1>0, <1>b, <1>3 DEF GiveUp
  <1>4. ASSUME NEW c \in Macs, ReleaseIP(c)
        PROVE  DhcpTypeOK'
    BY <1>0, <1>c, <1>4 DEF ReleaseIP, Released
  <1>5. ASSUME NEW c \in Macs, Lease(c)
        PROVE  DhcpTypeOK'
    <2>1. handler' \in [Macs -> [type : {"none", "discover", "request"},
                                 ip : Addrs \cup {NoAddr}, sent : Nat]]
      BY <1>0, <1>a, <1>5 DEF Lease
    <2>2. ASSUME NEW a \in Choices(c, handler[c].ip), items' = [items EXCEPT ![a] = Leased(c, a)]
          PROVE  items' \in [Addrs -> [mac : Owners, expire : Nat]]
      <3>1. a \in Addrs
        BY ChoicesFree
      <3>2. Leased(c, a) \in [mac : Owners, expire : Nat]
        BY <1>0, <3>1 DEF Leased, Owners
      <3>3. QED
        BY <1>0, <2>2, <3>1, <3>2
    <2>3. ASSUME NEW a \in Choices(c, handler[c].ip), DhcpReply(c, a)
          PROVE  held' \in [Macs -> [ip : Addrs \cup {NoAddr}, until : Nat]]
      <3>1. a \in Addrs
        BY ChoicesFree
      <3>2. [ip |-> a, until |-> handler[c].sent + LeaseTime]
                \in [ip : Addrs \cup {NoAddr}, until : Nat]
        BY <1>0, <3>1
      <3>3. QED
        BY <1>0, <1>b, <2>3, <3>2 DEF DhcpReply
    <2>4. QED
      BY <1>0, <1>5, <2>1, <2>2, <2>3 DEF Lease
  <1>6. CASE Sweep
    BY <1>0, <1>c, <1>6 DEF Sweep
  <1>7. CASE SetFailover
    BY <1>0, <1>7 DEF SetFailover
  <1>8. CASE Tick
    BY <1>0, <1>b, <1>8 DEF Tick
  <1>9. CASE UNCHANGED dhcpVars
    BY <1>0, <1>9 DEF dhcpVars
  <1>10. QED
    BY <1>1, <1>2, <1>3, <1>4, <1>5, <1>6, <1>7, <1>8, <1>9 DEF DhcpNext

(* Time does not go back under a handler.                                  *)
LEMMA SentStep ==
    ASSUME DhcpInv, [DhcpNext]_dhcpVars
    PROVE  SentBefore'
  <1> USE DEF DhcpTypeOK, SentBefore
  <1>0. DhcpTypeOK /\ SentBefore
    BY DEF DhcpInv
  <1>1. ASSUME NEW c \in Macs, NEW type, NEW ip, Packet(c, type, ip)
        PROVE  SentBefore'
    BY <1>0, <1>1 DEF Packet
  <1>2. ASSUME NEW c \in Macs, Lease(c)
        PROVE  SentBefore'
    <2>1. \A d \in Macs : handler'[d].sent <= now
      BY <1>0, <1>2 DEF Lease, Quiet, NoTime
    <2>2. ASSUME NEW a, DhcpReply(c, a), NEW d \in Macs
          PROVE  held'[d].until <= now + LeaseTime
      BY <1>0, <2>2 DEF DhcpReply, NoLease, NoTime
    <2>3. CASE UNCHANGED held
      BY <1>0, <1>2, <2>1, <2>3 DEF Lease
    <2>4. CASE \E a : DhcpReply(c, a)
      BY <1>2, <2>1, <2>2, <2>4 DEF Lease
    <2>5. QED
      BY <1>2, <2>3, <2>4 DEF Lease
  <1>3. CASE Tick
    BY <1>0, <1>3 DEF Tick, NoLease, NoTime
  <1>4. ASSUME NEW c \in Macs, GiveUp(c) \/ ReleaseIP(c)
        PROVE  SentBefore'
    BY <1>0, <1>4 DEF GiveUp, ReleaseIP, NoLease, NoTime
  <1>5. CASE Sweep \/ SetFailover \/ UNCHANGED dhcpVars
    BY <1>0, <1>5 DEF Sweep, SetFailover, dhcpVars
  <1>6. QED
    BY <1>1, <1>2, <1>3, <1>4, <1>5 DEF DhcpNext

(* Every step keeps what a client uses leased to it.                       *)
LEMMA BackedStep ==
    ASSUME DhcpInv, [DhcpNext]_dhcpVars, NEW d \in Macs \ freed'
    PROVE  Backed(d)'
  <1> USE DEF NoAddr, NoTime
  <1>0. DhcpTypeOK /\ SentBefore /\ \A c \in Macs \ freed : Backed(c)
    BY DEF DhcpInv
  <1>a. held[d].ip \in Addrs \cup {NoAddr} /\ held[d].until \in Nat /\ now \in Nat \ {0}
    BY <1>0 DEF DhcpTypeOK
  <1>b. freed \subseteq freed'
    <2>1. CASE UNCHANGED freed
      BY <2>1
    <2>2. ASSUME NEW c \in Macs, ReleaseIP(c)
          PROVE  freed \subseteq freed'
      BY <2>2 DEF ReleaseIP
    <2>3. QED
      BY <2>1, <2>2
         DEF DhcpNext, dhcpVars, Packet, GiveUp, Lease, Sweep, SetFailover, Tick
  <1>c. Backed(d)
    BY <1>0, <1>b
  <1>1. ASSUME NEW c \in Macs, NEW type, NEW ip, Packet(c, type, ip)
        PROVE  Backed(d)'
    BY <1>c, <1>1 DEF Packet, Backed
  <1>2. ASSUME NEW c \in Macs, GiveUp(c)
        PROVE  Backed(d)'
    BY <1>0, <1>c, <1>2 DEF GiveUp, Backed, NoLease, DhcpTypeOK
  <1>3. ASSUME NEW c \in Macs, ReleaseIP(c)
        PROVE  Backed(d)'
    <2>1. CASE d = c
      <3>1. held[d] = NoLease
        BY <1>3, <2>1 DEF ReleaseIP
      <3>2. QED
        BY <1>3, <3>1 DEF ReleaseIP, Backed, NoLease
    <2>2. CASE d # c
      <3>1. held[d].ip # NoAddr => items'[held[d].ip] = items[held[d].ip]
        BY <1>a, <1>c, <1>3, <2>2 DEF ReleaseIP, Released, Backed
      <3>2. QED
        BY <1>c, <1>3, <3>1 DEF ReleaseIP, Backed
    <2>3. QED
      BY <2>1, <2>2
  <1>4. ASSUME NEW c \in Macs, Lease(c)
        PROVE  Backed(d)'
    <2>1. CASE Choices(c, handler[c].ip) = {}
      BY <1>c, <1>4, <2>1 DEF Lease, Backed
    <2>2. CASE Choices(c, handler[c].ip) # {}
      <3>1. PICK a \in Choices(c, handler[c].ip) :
                /\ items' = [items EXCEPT ![a] = Leased(c, a)]
                /\ DhcpReply(c, a) \/ UNCHANGED held
        BY <1>4, <2>2 DEF Lease
      <3>2. a \in Addrs /\ items[a].mac \in {c, NoMac}
        BY ChoicesFree
      <3>3. now' = now
        BY <1>4 DEF Lease
      <3>4. items[a].expire \in Nat /\ handler[c].sent \in Nat /\ handler[c].sent <= now
        BY <1>0, <3>2 DEF DhcpTypeOK, SentBefore
      <3>5. /\ items'[a].mac = c
            /\ \/ items'[a].expire = NoTime
               \/ items'[a].expire = now + LeaseTime
        BY <1>0, <3>1, <3>2 DEF Leased, DhcpTypeOK
      <3>6. ASSUME NEW b \in Addrs, b # a
            PROVE  items'[b] = items[b]
        BY <1>0, <3>1, <3>6 DEF DhcpTypeOK
      <3>7. CASE held'[d] = held[d]
        <4>1. CASE held[d].ip = a
          <5>1. d = c /\ (items[a].expire = NoTime => items' = items)
            BY <1>0, <1>c, <3>1, <3>2, <4>1 DEF Backed, Leased, DhcpTypeOK, Addrs
          <5>2. CASE items[a].expire = NoTime
            BY <1>c, <3>3, <3>7, <5>1, <5>2 DEF Backed
          <5>3. CASE items[a].expire # NoTime
            <6>1. items'[a].expire = now + LeaseTime \/ items'[a].expire = NoTime
              BY <3>5
            <6>2. held[d].until <= now + LeaseTime
              BY <1>0 DEF SentBefore
            <6>3. QED
              BY <1>a, <3>3, <3>5, <3>7, <4>1, <5>1, <6>1, <6>2 DEF Backed
          <5>4. QED
            BY <5>2, <5>3
        <4>2. CASE held[d].ip # a
          BY <1>a, <1>c, <3>3, <3>6, <3>7, <4>2 DEF Backed
        <4>3. QED
          BY <4>1, <4>2
      <3>8. CASE held'[d] # held[d]
        <4>1. d = c /\ held'[d] \in {NoLease, [ip |-> a, until |-> handler[c].sent + LeaseTime]}
          BY <1>0, <3>1, <3>8 DEF DhcpReply, DhcpTypeOK
        <4>2. CASE held'[d] = NoLease
          BY <4>2 DEF Backed, NoLease
        <4>3. CASE held'[d] = [ip |-> a, until |-> handler[c].sent + LeaseTime]
          <5>1. held'[d].ip = a /\ held'[d].until = handler[c].sent + LeaseTime
            BY <4>3
          <5>2. now + LeaseTime >= handler[c].sent + LeaseTime /\ now + LeaseTime >= now
            BY <1>a, <3>4
          <5>3. QED
            BY <3>3, <3>5, <4>1, <5>1, <5>2 DEF Backed
        <4>4. QED
          BY <4>1, <4>2, <4>3
      <3>9. QED
        BY <3>7, <3>8
    <2>3. QED
      BY <2>1, <2>2
  <1>5. CASE Sweep
    <2>1. PICK t \in 1..now :
              items' = [a \in Addrs |-> IF items[a].expire # NoTime /\ t > items[a].expire
                                        THEN Free ELSE items[a]]
      BY <1>5 DEF Sweep
    <2>2. held[d].ip # NoAddr => items'[held[d].ip] = items[held[d].ip]
      <3>1. SUFFICES ASSUME held[d].ip # NoAddr
                     PROVE  items'[held[d].ip] = items[held[d].ip]
        OBVIOUS
      <3>2. held[d].ip \in Addrs
        BY <1>a, <3>1
      <3>3. items[held[d].ip].expire \in Nat
        BY <1>0, <3>2 DEF DhcpTypeOK
      <3>4. ~(items[held[d].ip].expire # NoTime /\ t > items[held[d].ip].expire)
        BY <1>a, <1>c, <2>1, <3>1, <3>3 DEF Backed
      <3>5. QED
        BY <2>1, <3>2, <3>4
    <2>3. QED
      BY <1>c, <1>5, <2>2 DEF Sweep, Backed
  <1>6. CASE SetFailover
    BY <1>c, <1>6 DEF SetFailover, Backed
  <1>7. CASE Tick
    <2>1. now' = now + 1 /\ items' = items
      BY <1>7 DEF Tick
    <2>2. held'[d] = IF held[d].until < now' THEN NoLease ELSE held[d]
      BY <1>7 DEF Tick
    <2>3. CASE held[d].until < now'
      BY <2>2, <2>3 DEF Backed, NoLease
    <2>4. CASE ~(held[d].until < now')
      <3>1. held'[d] = held[d] /\ held[d].until >= now'
        BY <1>a, <2>1, <2>2, <2>4
      <3>2. held[d].ip # NoAddr => items[held[d].ip].expire \in Nat
        BY <1>0, <1>a DEF DhcpTypeOK
      <3>3. QED
        BY <1>a, <1>c, <2>1, <3>1, <3>2 DEF Backed
    <2>5. QED
      BY <2>3, <2>4
  <1>8. CASE UNCHANGED dhcpVars
    BY <1>c, <1>8 DEF dhcpVars, Backed
  <1>9. QED
    BY <1>1, <1>2, <1>3, <1>4, <1>5, <1>6, <1>7, <1>8 DEF DhcpNext

-----------------------------------------------------------------------------
(* The types, and that what a client uses is leased to it, in every state. *)
THEOREM DhcpInvariant == DhcpSpec => []DhcpInv
  <1>1. DhcpInit => DhcpInv
    BY DhcpInitInv
  <1>2. DhcpInv /\ [DhcpNext]_dhcpVars => DhcpInv'
    BY DhcpTypeStep, SentStep, BackedStep DEF DhcpInv
  <1>3. QED
    BY <1>1, <1>2, PTL DEF DhcpSpec

(* Two clients never use one address at a time, whatever handlers, sweeps, *)
(* renewals and failovers come together, but for a client whose release    *)
(* was overtaken by its own next request: an address in use is leased to   *)
(* its user, and an address has one lease (pool.go:62-131).                *)
THEOREM NoSharedAddressHolds == DhcpSpec => []NoSharedAddress
  <1>1. DhcpInv => NoSharedAddress
    BY DEF DhcpInv, Backed, NoSharedAddress
  <1>2. QED
    BY <1>1, DhcpInvariant, PTL

-----------------------------------------------------------------------------
(* The listeners together.                                                 *)

\* Every behaviour of the listeners is one of each kind of them, so that what is
\* proved of each holds of all side by side.
LEMMA ListenersImplement == Spec => UdpSpec /\ ServeSpec /\ DnsSpec /\ DhcpSpec
  <1>1. Init => UdpInit /\ ServeInit /\ DnsInit /\ DhcpInit
    BY DEF Init
  <1>2. [Next]_vars =>
           /\ [UdpNext]_udpVars /\ [ServeNext]_serveVars
           /\ [DnsNext]_dnsVars /\ [DhcpNext]_dhcpVars
    BY DEF Next, vars, OnPackets, OnConnections, OnQueries, OnLeases
  <1>3. QED
    BY <1>1, <1>2, PTL DEF Spec, UdpSpec, ServeSpec, DnsSpec, DhcpSpec
=============================================================================
