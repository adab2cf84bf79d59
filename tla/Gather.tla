------------------------------- MODULE Gather -------------------------------
(***************************************************************************)
(* Discovery and fetching together, as the handlers of the GUI run them:   *)
(* operationMu lets one of handleDiscover and handleFetch work at a time,  *)
(* and a fetch asks the sources of the settings and every target that      *)
(* discovery has left in the memory.  What handleFetch does with the       *)
(* proxies it gets is GuiApp.                                              *)
(***************************************************************************)
EXTENDS Discover, SourceFetch, SequencesExt

CONSTANTS
    Manual,    \* lists of sources a client may ask for (request.Sources)
    Comment    \* an entry that starts with "#"

ASSUME GatherAssumption ==
    /\ IsFiniteSet(Rows)
    /\ Manual \subseteq Seq(Sources \cup {Comment})
    /\ Urls \subseteq Sources
    /\ Comment \notin Sources

VARIABLE manual   \* settings.Sources of the fetch at work

vars == <<up, targets, saved, step, hits, search, found, page, total, limit, merged,
          phase, list, job, work, slot, at, pool, status, manual>>

\* The entries of s at the places in I, in their order.
Picked(s, I) ==
    [k \in 1..Cardinality(I) |-> s[CHOOSE i \in I : Cardinality({j \in I : j < i}) = k - 1]]

\* The places of s where an entry comes first.
Firsts(s) == {i \in 1..Len(s) : \A j \in 1..(i - 1) : s[j] # s[i]}

TargetUrls == {u \in Urls : targets[u] # {}}

\* mergeProxySources: the settings' sources, then the targets.
\* SetToSeq stands for the order of their URLs.
MergeProxySources(sources) ==
    LET all == sources \o SetToSeq(TargetUrls) IN Picked(all, Firsts(all))

\* uniqueSources: comments are left out.
UniqueSources(sources) == Picked(sources, {i \in Firsts(sources) : sources[i] # Comment})

\* A slip: discovery does not take operationMu.
MutexFreeForDiscovery == TRUE

\* operationMu as handleDiscover finds it.
MutexFree == phase = "idle"

HandleDiscover ==
    /\ MutexFree
    /\ \E c \in SUBSET Providers : DiscoverBegin(c)
    /\ UNCHANGED <<fetchVars, manual>>

HandleFetch ==
    /\ up
    /\ step = "none"
    /\ \E m \in Manual :
          /\ manual' = m
          /\ FetchBegin(UniqueSources(MergeProxySources(m)))
    /\ UNCHANGED discoverVars

Death ==
    /\ Die
    /\ FetchForget
    /\ manual' = << >>

Init ==
    /\ DiscoverInit
    /\ FetchInit
    /\ manual = << >>

Next ==
    \/ HandleDiscover
    \/ HandleFetch
    \/ DiscoverStep /\ UNCHANGED <<fetchVars, manual>>
    \/ FetchStep /\ UNCHANGED <<discoverVars, manual>>
    \/ Death
    \/ LoadTargets /\ UNCHANGED <<fetchVars, manual>>

Spec == Init /\ [][Next]_vars

\* Handlers, searches and workers go on: every request has a timeout.
FairSpec ==
    /\ Spec
    /\ WF_vars(DiscoverStep /\ UNCHANGED <<fetchVars, manual>>)
    /\ WF_vars(FetchStep /\ UNCHANGED <<discoverVars, manual>>)

-----------------------------------------------------------------------------
(* Properties.                                                             *)

\* While a fetch is at work its list is the sources it was asked for and all
\* targets there are, each once: no search replaces the targets meanwhile.
AsksAllTargets ==
    phase # "idle" =>
        /\ ToSet(list) = (ToSet(manual) \ {Comment}) \cup TargetUrls
        /\ Len(list) = Cardinality(ToSet(list))

\* Every discovery and every fetch ends, so that operationMu is free again.
GatheringEnds ==
    (step # "none" \/ phase # "idle") ~> (step = "none" /\ phase = "idle")
=============================================================================
