---------------------------- MODULE SourceFetch ----------------------------
(***************************************************************************)
(* FetchWithOptions (internal/proxysource): a pool of workers takes the    *)
(* indices of the sources from a closed channel, asks each source for its  *)
(* proxies under a timeout of its own, and writes the answer into the slot *)
(* of the index.  When all workers are done the answers are merged in the  *)
(* order of the sources: a proxy that several sources offer, or one source *)
(* offers in several spellings, is taken once and counted for the first.   *)
(*                                                                         *)
(* A source is what is left of its URL after trimming.  A protocol or host *)
(* that a source writes is a record of the name it stands for, the way it  *)
(* is spelled (capitals, blanks, a final dot, an IPv4 address in IPv6      *)
(* form), and whether it is one at all.  The time limit and the number of  *)
(* bytes of an answer only decide whether it fails.                        *)
(***************************************************************************)
EXTENDS Integers, Sequences, FiniteSets

CONSTANTS
    Sources,      \* URLs of sources
    Offers,       \* proxies as sources write them
    Payloads,     \* sets of offers that a source may answer with
    Protocol,     \* the wanted protocol
    NoKey,        \* what stands for an offer that is not taken
    Concurrency   \* FetchOptions.Concurrency

ASSUME FetchAssumption ==
    /\ Concurrency \in Nat \ {0}
    /\ Payloads \subseteq SUBSET Offers

VARIABLES
    phase,    \* where FetchWithOptions is; "idle" when it is not called
    list,     \* normalizedSources
    job,      \* the next index in the channel "jobs"
    work,     \* per worker: the index it works on, 0 between two, -1 when it is done
    slot,     \* results: the answers by index
    at,       \* the index that is merged next
    pool,     \* result.Proxies: the index of the source a key is taken from, or 0
    status    \* result.Sources

\* normalizeHost: one form for all spellings of a name or an address.
NormalHost(h) == IF h.valid THEN h.name ELSE NoKey

\* Under which protocol://host:port an offer is known, if it is taken.
Key(o) ==
    IF o.validated /\ o.protocol.name = Protocol /\ NormalHost(o.host) # NoKey
         /\ o.port \in 1..65535
    THEN <<NormalHost(o.host), o.port>> ELSE NoKey

KeyOf == [o \in Offers |-> Key(o)]

Keys == {KeyOf[o] : o \in Offers} \ {NoKey}

fetchVars == <<phase, list, job, work, slot, at, pool, status>>

Workers == 1..Concurrency
Empty   == [k \in Keys |-> 0]

NotAsked   == [state |-> "none", offers |-> {}]
Answers(o) == [state |-> "ok", offers |-> o]
Failed     == [state |-> "error", offers |-> {}]

\* The indices that were put into the channel before it was closed.
Jobs == 1..Len(list)

Accepted(offers) == {KeyOf[o] : o \in offers} \ {NoKey}

-----------------------------------------------------------------------------

\* FetchWithOptions with sources s; without any it returns an empty result.
\* min(Concurrency, len) workers are started.
FetchBegin(s) ==
    /\ phase = "idle"
    /\ s # << >>
    /\ phase' = "fetch"
    /\ list' = s
    /\ job' = 1
    /\ work' = [w \in Workers |-> IF w <= Len(s) THEN 0 ELSE -1]
    /\ slot' = [i \in 1..Len(s) |-> NotAsked]
    /\ UNCHANGED <<at, pool, status>>

NextJob == job + 1

\* A worker receives an index.
Take(w) ==
    /\ phase = "fetch"
    /\ work[w] = 0
    /\ job \in Jobs
    /\ work' = [work EXCEPT ![w] = job]
    /\ job' = NextJob
    /\ UNCHANGED <<phase, list, slot, at, pool, status>>

\* fetchSource returned.
Store(w, answer) ==
    /\ phase = "fetch"
    /\ work[w] > 0
    /\ slot' = [slot EXCEPT ![work[w]] = answer]
    /\ work' = [work EXCEPT ![w] = 0]
    /\ UNCHANGED <<phase, list, job, at, pool, status>>

\* The source answered with its proxies.
Answer(w) == \E o \in Payloads : Store(w, Answers(o))

\* An invalid URL, a refused request, a status, a body that is too long or no
\* JSON, the source's timeout, or the end of the client's request.
SourceFails(w) == Store(w, Failed)

\* The channel is closed and empty: wait.Done().
WorkerDone(w) ==
    /\ phase = "fetch"
    /\ work[w] = 0
    /\ job \notin Jobs
    /\ work' = [work EXCEPT ![w] = -1]
    /\ UNCHANGED <<phase, list, job, slot, at, pool, status>>

AllDone == \A w \in Workers : work[w] = -1

\* wait.Wait() returns.
Wait ==
    /\ phase = "fetch"
    /\ AllDone
    /\ phase' = "merge"
    /\ at' = 1
    /\ pool' = Empty
    /\ status' = << >>
    /\ UNCHANGED <<list, job, work, slot>>

\* A slip: a proxy is counted for every source that offers it.
FreshKeysAll == Accepted(slot[at].offers)

\* Keys not seen in an earlier answer.
FreshKeys == {k \in Accepted(slot[at].offers) : pool[k] = 0}

\* One turn of the loop over the answers.
MergeOne ==
    /\ phase = "merge"
    /\ at <= Len(list)
    /\ pool' = [k \in Keys |-> IF k \in FreshKeys THEN at ELSE pool[k]]
    /\ status' = Append(status, [source  |-> list[at],
                                 success |-> slot[at].state = "ok",
                                 count   |-> Cardinality(FreshKeys)])
    /\ at' = at + 1
    /\ UNCHANGED <<phase, list, job, work, slot>>

\* FetchWithOptions returns the sorted proxies.
Return ==
    /\ phase = "merge"
    /\ at > Len(list)
    /\ phase' = "done"
    /\ UNCHANGED <<list, job, work, slot, at, pool, status>>

\* The caller has used the result.
FetchForget ==
    /\ phase' = "idle"
    /\ list' = << >> /\ job' = 1
    /\ work' = [w \in Workers |-> -1]
    /\ slot' = << >>
    /\ at' = 1 /\ pool' = Empty /\ status' = << >>

FetchEnd == phase = "done" /\ FetchForget

FetchInit ==
    /\ phase = "idle"
    /\ list = << >> /\ job = 1
    /\ work = [w \in Workers |-> -1]
    /\ slot = << >>
    /\ at = 1 /\ pool = Empty /\ status = << >>

WorkerStep(w) == Take(w) \/ Answer(w) \/ SourceFails(w) \/ WorkerDone(w)

FetchStep ==
    \/ \E w \in Workers : WorkerStep(w)
    \/ Wait
    \/ MergeOne
    \/ Return
    \/ FetchEnd

\* Besides: the next call, and the death of the GUI at any time.
FetchNext == FetchStep \/ FetchForget \/ \E s \in Seq(Sources) : FetchBegin(s)

FetchSpec == FetchInit /\ [][FetchNext]_fetchVars

-----------------------------------------------------------------------------
(* Properties.                                                             *)

FetchTypeOK ==
    /\ phase \in {"idle", "fetch", "merge", "done"}
    /\ list \in Seq(Sources)
    /\ job \in 1..(Len(list) + 1)
    /\ work \in [Workers -> -1..Len(list)]
    /\ slot \in [1..Len(list) -> [state : {"none", "ok", "error"}, offers : SUBSET Offers]]
    /\ at \in 1..(Len(list) + 1)
    /\ pool \in [Keys -> 0..Len(list)]

\* No answer is merged before it is there: when the merge begins every source
\* has been asked and has answered or failed, whichever workers took them and
\* in whatever order they ended.
AllAsked ==
    phase \in {"merge", "done"} => \A i \in 1..Len(list) : slot[i].state # "none"

\* The result does not depend on the order of the answers: a key is in it
\* exactly when some source that did not fail offered it, once, and it is
\* taken from the first such source.
FirstSourceWins ==
    phase = "done" =>
        \A k \in Keys :
            LET from == {i \in 1..Len(list) : k \in Accepted(slot[i].offers)}
            IN  IF from = {} THEN pool[k] = 0
                ELSE pool[k] \in from /\ \A i \in from : pool[k] <= i

\* Two workers never ask the same source, and no answer is overwritten.
AskedOnce ==
    [][\A i \in 1..Len(list) :
          phase = "fetch" /\ slot[i].state # "none" /\ phase' # "idle"
              => slot'[i] = slot[i]]_fetchVars
=============================================================================
