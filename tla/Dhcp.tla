-------------------------------- MODULE Dhcp --------------------------------
(***************************************************************************)
(* The dhcp service (service/dhcpd): a pool of addresses with leases, a    *)
(* handler that runs in a goroutine of its own for every packet, the       *)
(* goroutine that frees addresses once a second, and the failover mode in  *)
(* which another server answers.  A client is its hardware address; it     *)
(* uses an address for the time of the lease from its request on.          *)
(***************************************************************************)
EXTENDS Naturals, FiniteSets

CONSTANTS
    Macs,       \* the clients
    PoolSize,   \* the addresses are 1..PoolSize
    Hosts,      \* the static addresses: a function from addresses to clients
    LeaseTime,
    MaxTime     \* bound on the clock

VARIABLES
    items,      \* Pool.items: the client and the end of the lease of each address
    now,        \* the clock
    failover,   \* dhcpd.failover, and whether the service looks for other servers
    handler,    \* the handler of each client's last packet
    releasing,  \* the clients with a handler for a release under way
    held,       \* the address each client uses, and until when
    freed       \* history: clients whose release took effect after a later lease

dhcpVars == <<items, now, failover, handler, releasing, held, freed>>

Addrs == 1..PoolSize

NoMac == "no mac"
NoAddr == 0    \* also 0.0.0.0, the unspecified address
NoTime == 0    \* time.Time{}: not leased, or leased for ever

ASSUME DhcpAssumption ==
    /\ NoMac \notin Macs
    /\ PoolSize \in Nat /\ LeaseTime \in Nat /\ MaxTime \in Nat

Free == [mac |-> NoMac, expire |-> NoTime]
NoLease == [ip |-> NoAddr, until |-> NoTime]
Quiet == [type |-> "none", ip |-> NoAddr, sent |-> NoTime]

\* NewPool and LeaseStaticIP for every host of the configuration.
DhcpInit ==
    /\ items = [a \in Addrs |-> IF a \in DOMAIN Hosts THEN [Free EXCEPT !.mac = Hosts[a]]
                                                       ELSE Free]
    /\ now = 1
    /\ failover \in [on : BOOLEAN, looks : BOOLEAN] /\ (failover.on => failover.looks)
    /\ handler = [c \in Macs |-> Quiet]
    /\ releasing = {}
    /\ held = [c \in Macs |-> NoLease]
    /\ freed = {}

-----------------------------------------------------------------------------
(* The pool                                                                *)

Of(c) == {a \in Addrs : items[a].mac = c}
Unused == {a \in Addrs : items[a].mac = NoMac}

\* A slip: the requested address is given away although it is leased.
MayLeaseAny(ip) == {a \in Addrs : a = ip}

\* The requested address, if nobody has it.
MayLease(ip) == {a \in Unused : a = ip}

\* LeaseIP: the client's own address, else the one it asks for, else any that
\* is free; the first own one in the order of the pool.
Choices(c, ip) ==
    IF Of(c) # {} THEN {CHOOSE a \in Of(c) : \A b \in Of(c) : a <= b}
    ELSE IF MayLease(ip) # {} THEN MayLease(ip)
    ELSE Unused

\* The entry of address a once it is leased to c; a static one has no end.
Leased(c, a) ==
    IF items[a].mac = c /\ items[a].expire = NoTime THEN items[a]
    ELSE [mac |-> c, expire |-> now + LeaseTime]

\* ReleaseIP: what is not static.
Released(c) ==
    [a \in Addrs |-> IF items[a].mac = c /\ items[a].expire # NoTime THEN Free ELSE items[a]]

\* The goroutine of NewPool; the time of its tick may be old when it has the
\* mutex.
Sweep ==
    /\ \E t \in 1..now :
          items' = [a \in Addrs |-> IF items[a].expire # NoTime /\ t > items[a].expire
                                    THEN Free ELSE items[a]]
    /\ items' # items
    /\ UNCHANGED <<now, failover, handler, releasing, held, freed>>

-----------------------------------------------------------------------------
(* The handlers                                                            *)

\* A packet comes in and handleDHCP looks at the failover mode.  "discover"
\* is DISCOVER or INFORM.
Packet(c, type, ip) ==
    /\ handler[c] = Quiet
    /\ ~failover.on
    /\ handler' = [handler EXCEPT ![c] = [type |-> type, ip |-> ip, sent |-> now]]
    /\ UNCHANGED <<items, now, failover, releasing, held, freed>>

\* The client gives its address up: RELEASE and DECLINE.
GiveUp(c) ==
    /\ ~failover.on
    /\ c \notin releasing
    /\ releasing' = releasing \cup {c}
    /\ held' = [held EXCEPT ![c] = NoLease]
    /\ UNCHANGED <<items, now, failover, handler, freed>>

ReleaseIP(c) ==
    /\ c \in releasing
    /\ releasing' = releasing \ {c}
    /\ items' = Released(c)
    /\ freed' = IF held[c] # NoLease THEN freed \cup {c} ELSE freed
    /\ UNCHANGED <<now, failover, handler, held>>

\* What the client has after the reply: an OFFER and the answer to an INFORM
\* change nothing, an ACK gives it the address, a NAK takes its own away.
DhcpReply(c, a) ==
    LET h == handler[c] IN
    held' = IF h.type # "request" THEN held
            ELSE IF h.ip # NoAddr /\ h.ip # a THEN [held EXCEPT ![c] = NoLease]
            ELSE [held EXCEPT ![c] = [ip |-> a, until |-> h.sent + LeaseTime]]

\* LeaseIP and the reply, which may be lost; no reply when the pool is used up.
Lease(c) ==
    LET h == handler[c] IN
    /\ h # Quiet
    /\ IF Choices(c, h.ip) = {} THEN UNCHANGED <<items, held>>
       ELSE \E a \in Choices(c, h.ip) :
               /\ items' = [items EXCEPT ![a] = Leased(c, a)]
               /\ DhcpReply(c, a) \/ UNCHANGED held
    /\ handler' = [handler EXCEPT ![c] = Quiet]
    /\ UNCHANGED <<now, failover, releasing, freed>>

\* The goroutine of Run has looked for another server.
SetFailover ==
    /\ failover.looks
    /\ failover' = [failover EXCEPT !.on = ~@]
    /\ UNCHANGED <<items, now, handler, releasing, held, freed>>

\* Time passes, and clients stop using what they have not renewed.
Tick ==
    /\ now < MaxTime
    /\ now' = now + 1
    /\ held' = [c \in Macs |-> IF held[c].until < now' THEN NoLease ELSE held[c]]
    /\ UNCHANGED <<items, failover, handler, releasing, freed>>

DhcpNext ==
    \/ \E c \in Macs :
          \/ Packet(c, "discover", NoAddr)
          \/ \E ip \in Addrs \cup {NoAddr} : Packet(c, "request", ip)
          \/ GiveUp(c) \/ ReleaseIP(c) \/ Lease(c)
    \/ Sweep \/ SetFailover \/ Tick

DhcpSpec == DhcpInit /\ [][DhcpNext]_dhcpVars

-----------------------------------------------------------------------------
(* Properties                                                              *)

\* Two clients never use one address at a time: leases end at the server no
\* sooner than at the client, whatever handlers, sweeps with an old tick,
\* renewals and failovers come together.  The exception is a client whose
\* release was overtaken by its next request: handlers run in goroutines of
\* their own, and ReleaseIP then frees the new lease (pool.go:62-131).
NoSharedAddress ==
    \A c, d \in Macs \ freed :
        c # d /\ held[c].ip # NoAddr => held[c].ip # held[d].ip
=============================================================================
