----------------------------- MODULE Listeners -----------------------------
(***************************************************************************)
(* What listens to clients: UDP packets that are sorted into sessions,     *)
(* accepted connections that are served and relayed, dns queries and dhcp  *)
(* requests.  They run in goroutines of their own and have no state in     *)
(* common, so that nothing can come of their interleaving: a behaviour is  *)
(* about one side.                                                         *)
(***************************************************************************)
EXTENDS UdpSessions, TcpServe, Dns, Dhcp

VARIABLE side   \* the side this behaviour is about

vars == <<side, udpVars, serveVars, dnsVars, dhcpVars>>

Init ==
    /\ side \in {"udp", "tcp", "dns", "dhcp"}
    /\ UdpInit
    /\ ServeInit
    /\ DnsInit
    /\ DhcpInit
    /\ side # "udp" => package = "udp"
    /\ side # "tcp" => lp = "tcp" /\ ~mux
    /\ side # "dns" => ~noAAAA /\ dead = {0}
    /\ side # "dhcp" => ~failover.looks

OnPackets(A) == side = "udp" /\ A /\ UNCHANGED <<side, serveVars, dnsVars, dhcpVars>>
OnConnections(A) == side = "tcp" /\ A /\ UNCHANGED <<side, udpVars, dnsVars, dhcpVars>>
OnQueries(A) == side = "dns" /\ A /\ UNCHANGED <<side, udpVars, serveVars, dhcpVars>>
OnLeases(A) == side = "dhcp" /\ A /\ UNCHANGED <<side, udpVars, serveVars, dnsVars>>

Next ==
    \/ OnPackets(UdpNext) \/ OnConnections(ServeNext)
    \/ OnQueries(DnsNext) \/ OnLeases(DhcpNext)

Spec == Init /\ [][Next]_vars

(* Goroutines run, dials return and deadlines expire.  The steps of Serve  *)
(* are finitely many in a behaviour; strong fairness of them says that a   *)
(* peer that reads now and then cannot keep a copy going after its         *)
(* deadline, nor after the data of an end that has finished.               *)
FairSpec ==
    /\ Spec
    /\ WF_vars(OnPackets(UdpSteps))
    /\ SF_vars(OnConnections(ServeSteps))
=============================================================================
