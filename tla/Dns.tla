-------------------------------- MODULE Dns --------------------------------
(***************************************************************************)
(* The dns forwarder (dns/client.go, dns/server.go): queries that come in, *)
(* the cache, the exchange with upstream servers, the refresh of answers   *)
(* that have expired, and what an answer adds to the rules                 *)
(* (rule/proxy.go).  A name is known by its domains, from the top level    *)
(* domain on; the address in an answer is the address of the name.         *)
(***************************************************************************)
EXTENDS LruCache

CONSTANTS
    Workers,      \* queries served at a time; the id of a request is its worker
    Names,
    Domains,      \* for each name its domains, the shortest first
    DomainMap,    \* the rules: a function from some domains to groups
    Servers,      \* the number of upstream servers
    Dead,         \* sets of servers that do not answer
    MinTTL, MaxTTL,
    TTLs,         \* what extractAnswer may find in an answer (0: no address)
    Records,      \* the keys with a record in the configuration
    MaxQueries    \* bound on the queries

ASSUME DnsAssumption ==
    /\ Keys = Names \X {"A", "AAAA"}
    /\ Servers \in Nat \ {0} /\ Records \subseteq Keys
    /\ TTLs \subseteq Nat /\ MinTTL \in Nat /\ MaxTTL \in Nat

VARIABLES
    lru,       \* the cache: the list and its map
    store,     \* the entries that never expire
    used,      \* the keys of the list in the order of their last use
    index,     \* UPStream.index, modulo the number of servers
    dead,      \* the servers that do not answer
    noAAAA,    \* config.NoAAAA
    job,       \* the goroutines: of each worker its query and its refresh
    ipMap,     \* the group of the address of a name
    failures,  \* the groups for whose dialer Record(dialer, false) was called
    queries, replies

cacheVars == <<lru, store, used>>
dnsVars == <<cacheVars, index, dead, noAAAA, job, ipMap, failures, queries, replies>>

Procs == {"query", "refresh"} \X Workers

Idle == [pc |-> "idle", key |-> Nil, server |-> 0, tries |-> 0, tried |-> {}, raced |-> FALSE,
         ttl |-> 0, resp |-> Nil]

\* A message: its id and the key of its question.
Message(id, key) == [id |-> id, key |-> key]

DnsInit ==
    /\ lru = NewLruCache
    /\ store = [k \in Records |-> Message(0, k)]    \* AddRecord, MakeResponse
    /\ used = <<HeadKey, TailKey>>
    /\ index = 0 /\ dead \in Dead /\ noAAAA \in BOOLEAN
    /\ job = [p \in Procs |-> Idle]
    /\ ipMap = [n \in Names |-> Nil]
    /\ failures = {} /\ queries = 0 /\ replies = {}

Goto(p, pc) == job' = [job EXCEPT ![p].pc = pc]
-----------------------------------------------------------------------------
(***************************************************************************)
(* The rules.                                                              *)
(***************************************************************************)
\* The suffixes of n that have a rule, in the order in which the code finds them.
Matches(n) == SelectSeq(Domains[n], LAMBDA d : d \in DOMAIN DomainMap)

\* findDialer: the first one decides.
FindDialer(n) == IF Matches(n) = <<>> THEN "main" ELSE DomainMap[Head(Matches(n))]

\* exchange resolves directly what is not to be connected to.
Dialer(n) == IF FindDialer(n) = "REJECT" THEN "direct" ELSE FindDialer(n)

\* AddDomainIP: every one is stored, so that the last one stays.
AddDomainIP(n) ==
    LET m == Matches(n) IN
    ipMap' = IF m = <<>> THEN ipMap ELSE [ipMap EXCEPT ![n] = DomainMap[m[Len(m)]]]
-----------------------------------------------------------------------------
(***************************************************************************)
(* Exchange, up to the cache.                                              *)
(***************************************************************************)
\* A slip: the answer keeps the id of the request that fetched it.
AnswerForAnyone(v, id) == v

\* valCopy, with the id of the request put into the copy.
AnswerFor(v, id) == [v EXCEPT !.id = id]

Cached(k) == k \in DOMAIN store \/ k \in lru.map
Value(k) == IF k \in DOMAIN store THEN store[k] ELSE lru.item[k].val
Expired(k) == k \notin DOMAIN store /\ lru.item[k].expired

\* The list after Get.
Got(k) == IF k \in DOMAIN store THEN UNCHANGED cacheVars
          ELSE /\ lru' = GetItem(lru, k)
               /\ used' = UsedByGet(used, k)
               /\ UNCHANGED store

\* Types other than A and AAAA are never cached.
Types == {"A", "AAAA", "TXT"}

\* ServePacket, ServeTCP: a request for k.  NoAAAA answers with the request.
Query(w, k) ==
    LET p == <<"query", w>> IN
    /\ queries < MaxQueries /\ job[p].pc = "idle"
    /\ queries' = queries + 1
    /\ job' = [job EXCEPT ![p] =
                 IF noAAAA /\ k[2] = "AAAA"
                 THEN [Idle EXCEPT !.pc = "reply", !.key = k, !.resp = Message(w, k)]
                 ELSE [Idle EXCEPT !.pc = IF k \in Keys THEN "cache" ELSE "exchange", !.key = k]]
    /\ UNCHANGED <<cacheVars, index, dead, noAAAA, ipMap, failures, replies>>

\* An answer from the cache; when it has expired, it is fetched anew behind the
\* answer (one refresh of a worker at a time in the model).
Hit(w) ==
    LET p == <<"query", w>>
        r == <<"refresh", w>>
        k == job[p].key
        answer == [job[p] EXCEPT !.pc = "reply", !.resp = AnswerFor(Value(k), w)]
    IN
    /\ job[p].pc = "cache" /\ Cached(k)
    /\ Got(k)
    /\ \/ /\ ~Expired(k)
          /\ job' = [job EXCEPT ![p] = answer]
       \/ /\ Expired(k) /\ job[r].pc = "idle"
          /\ job' = [job EXCEPT ![p] = answer, ![r] = [Idle EXCEPT !.pc = "exchange", !.key = k]]
    /\ UNCHANGED <<index, dead, noAAAA, ipMap, failures, queries, replies>>

Miss(w) ==
    LET p == <<"query", w>> IN
    /\ job[p].pc = "cache" /\ ~Cached(job[p].key)
    /\ Goto(p, "exchange")
    /\ UNCHANGED <<cacheVars, index, dead, noAAAA, ipMap, failures, queries, replies>>

\* Time passes: an item of the list has outlived its ttl.
Expire(k) ==
    /\ k \in lru.map /\ ~lru.item[k].expired
    /\ lru' = [lru EXCEPT !.item[k].expired = TRUE]
    /\ UNCHANGED <<store, used, index, dead, noAAAA, job, ipMap, failures, queries, replies>>
-----------------------------------------------------------------------------
(***************************************************************************)
(* exchange: as many tries as there are servers.                           *)
(***************************************************************************)
exchangeRest == <<cacheVars, dead, noAAAA, ipMap, queries, replies>>

ExchangeStart(p) ==
    /\ job[p].pc = "exchange"
    /\ job' = [job EXCEPT ![p].pc = "try", ![p].server = index]
    /\ UNCHANGED <<exchangeRest, index, failures>>

\* Dial or the exchange fails.
TryFails(p) ==
    /\ job[p].pc = "try" /\ job[p].server \in dead
    /\ job' = [job EXCEPT ![p].pc = "switchif", ![p].tries = @ + 1,
                          ![p].tried = @ \cup {job[p].server}]
    /\ UNCHANGED <<exchangeRest, index, failures>>

\* The job that goes on with server s, or is through.
TryNext(p, s) ==
    [job[p] EXCEPT !.pc = IF job[p].tries < Servers THEN "try" ELSE "failed", !.server = s]

\* SwitchIf looks at the index; somebody else may have switched.
SwitchTest(p) ==
    /\ job[p].pc = "switchif"
    /\ job' = [job EXCEPT ![p] = IF index = job[p].server THEN [job[p] EXCEPT !.pc = "switch"]
                                                          ELSE TryNext(p, index)]
    /\ UNCHANGED <<exchangeRest, index, failures>>

\* Those who are in their exchange while p switches.
Racing(p, q) == q # p /\ job[q].pc \in {"try", "switchif", "switch"}

\* A slip: the server goes on with the one that has failed.
SwitchStays(p) ==
    /\ job[p].pc = "switch"
    /\ job' = [job EXCEPT ![p] = TryNext(p, index)]
    /\ UNCHANGED <<exchangeRest, index, failures>>

\* Switch adds one, whatever the index is by now.
Switch(p) ==
    /\ job[p].pc = "switch"
    /\ index' = (index + 1) % Servers
    /\ job' = [q \in Procs |-> IF q = p THEN TryNext(p, index')
                               ELSE [job[q] EXCEPT !.raced = @ \/ Racing(p, q)]]
    /\ UNCHANGED <<exchangeRest, failures>>

\* The server answers; extractAnswer will find a ttl, or nothing.
TryOk(p) ==
    /\ job[p].pc = "try" /\ job[p].server \notin dead
    /\ \E t \in TTLs :
          job' = [job EXCEPT ![p].pc = IF job[p].key \in Keys THEN "answer" ELSE "reply",
                             ![p].ttl = t,
                             ![p].resp = Message(p[2], job[p].key)]
    /\ UNCHANGED <<exchangeRest, index, failures>>

\* The answer cannot be parsed: handleAnswer fails, and nobody is answered.
Garbled(p) ==
    /\ job[p].pc = "answer"
    /\ job' = [job EXCEPT ![p] = Idle]
    /\ UNCHANGED <<exchangeRest, index, failures>>

\* extractAnswer begins with MinTTL and takes the last ttl that is not 0.
EffectiveTTL(t) ==
    LET found == IF t = 0 THEN MinTTL ELSE t
        ttl   == IF found > MaxTTL THEN MaxTTL ELSE IF found < MinTTL THEN MinTTL ELSE found
    IN IF ttl <= 0 THEN 1800 ELSE ttl

\* Set: without a ttl the entry stays for ever.
CacheSet(k, v, ttl) ==
    IF ttl = 0
    THEN /\ store' = [x \in DOMAIN store \cup {k} |-> IF x = k THEN v ELSE store[x]]
         /\ UNCHANGED <<lru, used>>
    ELSE /\ lru' = SetItem(lru, k, v)
         /\ used' = UsedBySet(used, k)
         /\ UNCHANGED store

\* handleAnswer: the rules if there is an address, whatever its ttl, the cache,
\* then the reply to who asked.
HandleAnswer(p) ==
    /\ job[p].pc = "answer"
    /\ AddDomainIP(job[p].key[1]) \/ UNCHANGED ipMap
    /\ CacheSet(job[p].key, job[p].resp, EffectiveTTL(job[p].ttl))
    /\ IF p[1] = "query" THEN Goto(p, "reply") ELSE job' = [job EXCEPT ![p] = Idle]
    /\ UNCHANGED <<index, dead, noAAAA, failures, queries, replies>>

\* No try has succeeded: Record(dialer, false).
Failed(p) ==
    /\ job[p].pc = "failed"
    /\ job' = [job EXCEPT ![p] = Idle]
    /\ failures' = failures \cup {Dialer(job[p].key[1])}
    /\ UNCHANGED <<exchangeRest, index>>

Reply(w) ==
    LET p == <<"query", w>> IN
    /\ job[p].pc = "reply"
    /\ replies' = replies \cup {[to |-> w, asked |-> job[p].key, answer |-> job[p].resp]}
    /\ job' = [job EXCEPT ![p] = Idle]
    /\ UNCHANGED <<cacheVars, index, dead, noAAAA, ipMap, failures, queries>>
-----------------------------------------------------------------------------
DnsNext ==
    \/ \E w \in Workers : \/ \E n \in Names, t \in Types : Query(w, <<n, t>>)
                          \/ Hit(w) \/ Miss(w) \/ Reply(w)
    \/ \E k \in Keys : Expire(k)
    \/ \E p \in Procs : \/ ExchangeStart(p) \/ TryFails(p) \/ SwitchTest(p) \/ Switch(p)
                        \/ TryOk(p) \/ Garbled(p) \/ HandleAnswer(p) \/ Failed(p)

DnsSpec == DnsInit /\ [][DnsNext]_dnsVars

-----------------------------------------------------------------------------
\* The linked list of the cache (putToHead, moveToHead, removeTail) holds the keys
\* of its map in the order of their last use, from head along next and from tail
\* along prev, whatever queries, refreshes and evictions come together; and it
\* holds no more than CacheSize of them, or the two that it never gives up.
ListIsRecency == Lists(lru, used) /\ (Len(used) <= Size \/ Len(used) = 2)

\* Every reply carries the id of its request and answers its question, also when
\* another worker's query or a refresh has fetched the cached message.
AnswerMatches == \A r \in replies : r.answer.id = r.to /\ r.answer.key = r.asked

\* A query is given up, and its forwarder blamed, only when every upstream server
\* has failed it; unless another query switched servers meanwhile: SwitchIf tests
\* the index and then adds one, so that two who fail at once switch twice and may
\* ask the same server again instead of the next (dns/upstream.go:31-41).
AllTriedUnlessRaced ==
    \A p \in Procs :
        job[p].pc = "failed" /\ ~job[p].raced => job[p].tried = 0 .. Servers - 1
=============================================================================
