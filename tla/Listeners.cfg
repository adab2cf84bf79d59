SPECIFICATION FairSpec
CONSTANTS
    Packages = {"socks5", "ss", "tproxy", "udp", "unix"}
    Listeners = {1, 2}
    Sources = {"k1", "k2"}
    ChanSize = 1
    MaxPackets = 3
    Protocols = {"tcp", "unix", "tls", "ws", "vsock", "kcp", "smux", "pxyproto", "mixed", "redir", "socks5", "ss", "trojan", "vless", "http"}
    Inner = {"socks5", "http", "ss", "vless"}
    Muxed = {TRUE, FALSE}
    HasUser = {TRUE, FALSE}
    HasFallback = {TRUE, FALSE}
    Nil = Nil
    Keys <- MCKeys
    Names <- MCNames
    Domains <- MCDomains
    DomainMap <- MCDomainMap
    Size = 3
    Workers = {1, 2}
    Servers = 2
    Dead <- MCDead
    MinTTL = 0
    MaxTTL = 2
    TTLs = {0, 3}
    Records <- MCRecords
    MaxQueries = 3
    Macs = {"m1", "m2"}
    PoolSize = 2
    Hosts <- MCHosts
    LeaseTime = 1
    MaxTime = 3
INVARIANTS
    ListIsRecency
    AnswerMatches
    AllTriedUnlessRaced
    RegisteredIsServed
    
    NoSharedAddress
PROPERTIES
    UdpGoesOn
    
CHECK_DEADLOCK FALSE
