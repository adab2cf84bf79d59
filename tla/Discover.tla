------------------------------ MODULE Discover ------------------------------
(***************************************************************************)
(* handleDiscover (gui.go) with the searches of FOFA and Hunter            *)
(* (internal/discovery): one goroutine per configured provider, FOFA with  *)
(* one request and Hunter page by page, their results received in the      *)
(* order they come, merged by URL, saved to discovery-targets.json and     *)
(* then put into the memory.  The GUI may die at any point and is started  *)
(* again from the file.                                                    *)
(*                                                                         *)
(* A row of an answer is a record: the URL it gives (scheme "" for none),  *)
(* an address, a port (0 for none), a protocol, and for Hunter a base      *)
(* protocol and a domain.  A host is a record of the name it stands for,   *)
(* its spelling, whether it is an address and whether it is valid.         *)
(* Targets are their URLs with the providers that returned them; the other *)
(* fields follow from the row.  What a provider holds does not change      *)
(* during one search.                                                      *)
(***************************************************************************)
EXTENDS Integers, Sequences, FiniteSets, FiniteSetsExt

CONSTANTS
    Rows,        \* rows of the providers' answers
    FofaHits,    \* what FOFA may hold: sequences of rows
    HunterHits,  \* what Hunter may hold
    Limits,      \* HunterResultLimit
    PageSize,    \* hunterPageSize
    NoUrl        \* what stands for a row without a usable target

ASSUME DiscoverAssumption ==
    /\ FofaHits \subseteq Seq(Rows) /\ HunterHits \subseteq Seq(Rows)
    /\ Limits \subseteq Nat \ {0}
    /\ PageSize \in Nat \ {0}

Providers == {"fofa", "hunter"}

VARIABLES
    up,       \* the GUI process runs
    targets,  \* guiApp.targets: the providers of each URL, {} when it is no target
    saved,    \* discovery-targets.json
    step,     \* the step of handleDiscover, "none" when it is not called
    hits,     \* what each provider holds for this query
    search,   \* the goroutine of each provider
    found,    \* the URLs each search has found
    page,     \* locals of SearchHunter
    total,
    limit,
    merged    \* the results received so far: pairs of URL and provider

discoverVars ==
    <<up, targets, saved, step, hits, search, found, page, total, limit, merged>>

locals == <<hits, search, found, page, total, limit, merged>>

-----------------------------------------------------------------------------
(* The target of a row: its normalised URL <<protocol, host, port>>, in    *)
(* which the default port is the same as none.                             *)

Web == {"http", "https"}

DefaultPort(protocol) == IF protocol = "https" THEN 443 ELSE 80

\* targetFromURL; the row's port stands in for one that the URL lacks.
TargetFromURL(url, port) ==
    LET p == IF url.port # 0 THEN url.port
             ELSE IF port # 0 THEN port ELSE DefaultPort(url.scheme)
    IN  IF url.scheme \in Web /\ url.host.valid /\ p \in 1..65535
        THEN <<url.scheme, url.host.name, p>> ELSE NoUrl

\* targetFromAddress.
TargetFromAddress(ip, port, protocol) ==
    IF protocol \in Web /\ ip.valid /\ ip.address /\ port \in 1..65535
    THEN <<protocol, ip.name, port>> ELSE NoUrl

\* targetFromRow.
FofaTarget(row) ==
    LET byUrl == TargetFromURL(row.url, row.port)
    IN  IF byUrl # NoUrl THEN byUrl
        ELSE TargetFromAddress(row.ip, row.port, row.protocol)

\* hunterAsset.target.
HunterTarget(row) ==
    LET protocol  == IF row.protocol # "" THEN row.protocol ELSE row.base
        byUrl     == TargetFromURL(row.url, row.port)
        byAddress == TargetFromAddress(row.ip, row.port, protocol)
    IN  CASE byUrl # NoUrl -> byUrl
          [] byUrl = NoUrl /\ byAddress # NoUrl -> byAddress
          [] OTHER -> IF protocol \in Web /\ row.domain.valid /\ row.port \in 1..65535
                      THEN <<protocol, row.domain.name, row.port>> ELSE NoUrl

TargetOf == [fofa   |-> [r \in Rows |-> FofaTarget(r)],
             hunter |-> [r \in Rows |-> HunterTarget(r)]]

Urls == {TargetOf[p][r] : p \in Providers, r \in Rows} \ {NoUrl}

NoTargets == [u \in Urls |-> {}]

\* The targets of the rows p answered with.
UrlsOf(p, rows) == {TargetOf[p][rows[i]] : i \in 1..Len(rows)} \ {NoUrl}

\* The place where u comes first among Hunter's rows.
First(rows, u) == Min({i \in 1..Len(rows) : TargetOf["hunter"][rows[i]] = u})

\* The first n targets of Hunter's rows that are not among "seen".
NextUrls(rows, seen, n) ==
    LET new == UrlsOf("hunter", rows) \ seen
    IN  {u \in new : Cardinality({v \in new : First(rows, v) < First(rows, u)}) < n}

-----------------------------------------------------------------------------

\* The handler has loaded the providers' files and searches with those that
\* have a key; one whose file does not load is reported and left out.
DiscoverBegin(configured) ==
    /\ up
    /\ step = "none"
    /\ configured # {}
    /\ step' = "search"
    /\ \E f \in FofaHits, h \in HunterHits : hits' = [fofa |-> f, hunter |-> h]
    /\ limit' \in Limits
    /\ search' = [p \in Providers |-> IF p \in configured THEN "run" ELSE "off"]
    /\ found' = [p \in Providers |-> {}]
    /\ page' = 1
    /\ total' = 0
    /\ merged' = {}
    /\ UNCHANGED <<up, targets, saved>>

\* discovery.Search: one request; the service answers with "size" rows.
FofaAnswers ==
    /\ search["fofa"] = "run"
    /\ search' = [search EXCEPT !["fofa"] = "ok"]
    /\ found' = [found EXCEPT !["fofa"] = UrlsOf("fofa", hits["fofa"])]
    /\ UNCHANGED <<up, targets, saved, step, hits, page, total, limit, merged>>

\* How many rows the next page is asked for: the missing targets.
AskedFor == Min({PageSize, limit - Cardinality(found["hunter"])})

\* A slip: the pages are taken to have the full size.
LastPageFull(rows, sum) ==
    \/ Len(rows) < AskedFor
    \/ sum > 0 /\ page * PageSize >= sum

\* No further page: the last was not full, or reaches the reported total.
LastPage(rows, sum) ==
    \/ Len(rows) < AskedFor
    \/ sum > 0 /\ page * AskedFor >= sum

\* One turn of SearchHunter's loop.  The service counts pages of the size it
\* is asked for, and may not report a total.
HunterPage ==
    /\ search["hunter"] = "run"
    /\ \E reported \in {0, Len(hits["hunter"])} :
         LET from == (page - 1) * AskedFor
             to   == Min({page * AskedFor, Len(hits["hunter"])})
             rows == SubSeq(hits["hunter"], from + 1, to)
             sum  == Max({total, reported})
             urls == found["hunter"]
                       \cup NextUrls(rows, found["hunter"], limit - Cardinality(found["hunter"]))
         IN  /\ found' = [found EXCEPT !["hunter"] = urls]
             /\ total' = sum
             /\ IF LastPage(rows, sum) \/ Cardinality(urls) >= limit
                THEN /\ search' = [search EXCEPT !["hunter"] = "ok"]
                     /\ UNCHANGED page
                ELSE /\ page' = page + 1
                     /\ UNCHANGED search
    /\ UNCHANGED <<up, targets, saved, step, hits, limit, merged>>

\* A request fails, times out or is refused by the service.
SearchFails(p) ==
    /\ search[p] = "run"
    /\ search' = [search EXCEPT ![p] = "error"]
    /\ found' = [found EXCEPT ![p] = {}]
    /\ UNCHANGED <<up, targets, saved, step, hits, page, total, limit, merged>>

\* The handler receives the result of p from the channel.
Receive(p) ==
    /\ step = "search"
    /\ search[p] \in {"ok", "error"}
    /\ merged' = merged \cup (found[p] \X {p})
    /\ search' = [search EXCEPT ![p] = IF search[p] = "ok" THEN "received" ELSE "failed"]
    /\ UNCHANGED <<up, targets, saved, step, hits, found, page, total, limit>>

\* uniqueTargets and mergeProviders.
UniqueTargets(pairs) == [u \in Urls |-> {p \in Providers : <<u, p>> \in pairs}]

\* A slip: a result is awaited from providers that are not configured too.
AllReceivedBoth == \A p \in Providers : search[p] \in {"received", "failed"}

\* One result per configured provider.
AllReceived == \A p \in Providers : search[p] \in {"off", "received", "failed"}

\* "the saved targets were not replaced"
KeepsOld == merged = {}

\* The handler ends and its locals are gone.
DiscoverForget ==
    /\ step' = "none"
    /\ hits' = [p \in Providers |-> << >>]
    /\ search' = [p \in Providers |-> "off"]
    /\ found' = [p \in Providers |-> {}]
    /\ page' = 1 /\ total' = 0 /\ limit' = 1 /\ merged' = {}

NothingFound ==
    /\ step = "search"
    /\ AllReceived
    /\ KeepsOld
    /\ DiscoverForget
    /\ UNCHANGED <<up, targets, saved>>

SaveTargets ==
    /\ step = "search"
    /\ AllReceived
    /\ ~KeepsOld
    /\ saved' = UniqueTargets(merged)
    /\ step' = "commit"
    /\ UNCHANGED <<up, targets, locals>>

SaveFails ==
    /\ step = "search"
    /\ AllReceived
    /\ ~KeepsOld
    /\ DiscoverForget
    /\ UNCHANGED <<up, targets, saved>>

NewTargets == UniqueTargets(merged)

CommitTargets ==
    /\ step = "commit"
    /\ targets' = NewTargets
    /\ DiscoverForget
    /\ UNCHANGED <<up, saved>>

Die ==
    /\ up
    /\ up' = FALSE
    /\ targets' = NoTargets
    /\ DiscoverForget
    /\ UNCHANGED saved

\* loadTargets.
LoadTargets ==
    /\ ~up
    /\ up' = TRUE
    /\ targets' = saved
    /\ UNCHANGED <<saved, step, locals>>

DiscoverInit ==
    /\ up = TRUE
    /\ targets = NoTargets /\ saved = NoTargets
    /\ step = "none"
    /\ hits = [p \in Providers |-> << >>]
    /\ search = [p \in Providers |-> "off"]
    /\ found = [p \in Providers |-> {}]
    /\ page = 1 /\ total = 0 /\ limit = 1 /\ merged = {}

DiscoverStep ==
    \/ FofaAnswers
    \/ HunterPage
    \/ \E p \in Providers : SearchFails(p) \/ Receive(p)
    \/ NothingFound
    \/ SaveTargets \/ SaveFails
    \/ CommitTargets

-----------------------------------------------------------------------------
(* Properties.                                                             *)

\* What a successful search must return: FOFA's rows, Hunter's first "limit".
Wanted(p) ==
    IF p = "fofa" THEN UrlsOf("fofa", hits["fofa"])
    ELSE NextUrls(hits["hunter"], {}, limit)

\* SearchHunter asks for ever smaller pages while rows without a new target
\* and repeated rows leave targets missing.  Pages of different sizes overlap;
\* still no row is passed over: a search that ends without an error has the
\* first "limit" targets of all that Hunter holds.
HunterComplete ==
    search["hunter"] \in {"ok", "received"} => found["hunter"] = Wanted("hunter")
=============================================================================
