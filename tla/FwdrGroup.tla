------------------------------ MODULE FwdrGroup ------------------------------
(***************************************************************************)
(* The forwarder group of package rule (rule/group.go, rule/forward.go):   *)
(* which upstream proxies are enabled, and the list NextDialer picks from. *)
(*                                                                         *)
(* Two kinds of goroutine work on a group at the same time.  A client is   *)
(* one served connection: it asks the group for a forwarder, dials through *)
(* it, relays, and reports what happened (Dial, Record).  A checker is the *)
(* health-check goroutine of one forwarder (FwdrGroup.check).  Both end up *)
(* in Enable, Disable and IncFailures of a forwarder, whose fields are     *)
(* atomics, and from there in onStatusChanged, which runs under the        *)
(* group's mutex but re-reads the atomics that other goroutines change.    *)
(* One action is one atomic access to shared state.                        *)
(*                                                                         *)
(* A forwarder is its position in p.fwdrs, the slice newFwdrGroup sorted   *)
(* by descending priority.                                                 *)
(***************************************************************************)
EXTENDS Integers, Sequences

CONSTANTS
    N,                  \* number of forwarders of the group
    Pri,                \* the priority of each forwarder
    MaxFailures,        \* Strategy.MaxFailures ("maxfailures", 0: never disable)
    Strategy,           \* "rr", "ha", "lha" or "dh"
    HealthCheck,        \* FALSE for "check=disable"
    CheckDisabledOnly,  \* Strategy.CheckDisabledOnly
    Unsupported,        \* forwarders whose Dial answers ErrNotSupported
    Clients,            \* served connections
    MaxWait,            \* cap of the check back-off (16 in the code)
    AvailBound,         \* bound of the model: length of avail from which on no check and no dial succeeds
    U32                 \* number of values of a uint32 counter (2^32 in the code)

Fwdrs == 1..N

Procs == Clients \cup Fwdrs

ASSUME FwdrGroupAssumption ==
    /\ N \in Nat \ {0}
    /\ Pri \in [Fwdrs -> Nat]
    /\ \A f, g \in Fwdrs : f < g => Pri[f] >= Pri[g]
    /\ MaxFailures \in Nat
    /\ Strategy \in {"rr", "ha", "lha", "dh"}
    /\ HealthCheck \in BOOLEAN
    /\ CheckDisabledOnly \in BOOLEAN
    /\ Unsupported \subseteq Fwdrs
    /\ Clients \cap Fwdrs = {}
    /\ MaxWait \in Nat \ {0}
    /\ AvailBound \in Nat \ {0}
    /\ U32 \in Nat
    /\ U32 > MaxFailures + 1

VARIABLES
    disabled,     \* Forwarder.disabled
    failures,     \* Forwarder.failures
    maxFailures,  \* Forwarder.maxFailures
    avail,        \* FwdrGroup.avail
    priority,     \* FwdrGroup.priority
    index,        \* FwdrGroup.index
    wait,         \* the local "wait" of each check goroutine
    pc,           \* what each goroutine does next
    ret,          \* where it goes on when Enable, Disable or IncFailures return
    op,           \* which compare-and-swap made it call the status handler
    cur,          \* the forwarder it works on
    cnt,          \* the count its AddUint32 returned
    scan          \* position of the running loop of init

shared == <<disabled, failures, maxFailures>>
group  == <<avail, priority, index, scan>>
locals == <<pc, ret, op, cur, cnt>>
vars   == <<disabled, failures, maxFailures, avail, priority, index, wait,
            pc, ret, op, cur, cnt, scan>>

-----------------------------------------------------------------------------
(* Control points.                                                         *)

\* init runs inside the handler, so these goroutines hold the group's mutex.
\* The first init is the one of a higher priority, the second the one of an
\* empty list; each is a loop for the priority and a loop that fills avail.
InInit == {"pri1", "fill1", "pri2", "fill2"}

\* The flag is swapped, the handler has not returned.
InHandler == {"lock"} \cup InInit

\* Inside Enable, Disable or IncFailures.
InCall == {"inc", "incTest", "enable", "disable", "store"} \cup InHandler

ClientPC == {"idle", "dial", "record", "relay"}

CheckerPC == {"sleep", "check", "failed", "notSupported", "done"}

PCs == InCall \cup ClientPC \cup CheckerPC

Enabled(f) == ~disabled[f]

\* p.mu is held for writing.
Locked == \E p \in Procs : pc[p] \in InInit

\* Every compare-and-swap of a flag has been handled.
Settled == \A p \in Procs : pc[p] \notin InHandler

\* Goroutine p makes a call on forwarder f and will go on at r.
Call(p, entry, f, r) ==
    /\ pc'  = [pc  EXCEPT ![p] = entry]
    /\ ret' = [ret EXCEPT ![p] = r]
    /\ cur' = [cur EXCEPT ![p] = f]
    /\ UNCHANGED <<op, cnt>>

Goto(p, l) ==
    /\ pc' = [pc EXCEPT ![p] = l]
    /\ UNCHANGED <<ret, op, cur, cnt>>

\* The call returns.  Locals of the call are dead then and get their initial
\* values, as does the forwarder of a client that is done with it.
Return(p) ==
    /\ pc'  = [pc  EXCEPT ![p] = ret[p]]
    /\ ret' = [ret EXCEPT ![p] = "idle"]
    /\ op'  = [op  EXCEPT ![p] = "enable"]
    /\ cnt' = [cnt EXCEPT ![p] = 0]
    /\ cur' = [cur EXCEPT ![p] = IF ret[p] = "idle" THEN 1 ELSE @]

-----------------------------------------------------------------------------
(* The forwarder's calls.                                                  *)

\* IncFailures: atomic.AddUint32(&f.failures, 1).
IncAdd(p) ==
    /\ pc[p] = "inc"
    /\ LET n == (failures[cur[p]] + 1) % U32
       IN  /\ failures' = [failures EXCEPT ![cur[p]] = n]
           /\ cnt' = [cnt EXCEPT ![p] = n]
    /\ pc' = [pc EXCEPT ![p] = "incTest"]
    /\ UNCHANGED <<disabled, maxFailures, group, wait, ret, op, cur>>

\* A slip: the counter is read again, another goroutine may have moved it.
LimitReachedReread(p) == failures[cur[p]] = maxFailures[cur[p]]

\* The count this call's AddUint32 returned is the limit.
LimitReached(p) == cnt[p] = maxFailures[cur[p]]

\* IncFailures: the test that follows the increment.
IncTest(p) ==
    /\ pc[p] = "incTest"
    /\ IF maxFailures[cur[p]] # 0 /\ LimitReached(p) /\ Enabled(cur[p])
       THEN Goto(p, "disable")
       ELSE Return(p)
    /\ UNCHANGED <<shared, group, wait>>

\* Enable and Disable: a compare-and-swap of the flag.  Only the goroutine
\* whose swap succeeds calls the handler.
Handle(p, entry) ==
    /\ pc' = [pc EXCEPT ![p] = "lock"]
    /\ op' = [op EXCEPT ![p] = entry]
    /\ UNCHANGED <<ret, cur, cnt>>

EnableSwap(p) ==
    /\ pc[p] = "enable"
    /\ disabled' = [disabled EXCEPT ![cur[p]] = FALSE]
    /\ IF disabled[cur[p]] THEN Handle(p, "enable") ELSE Goto(p, "store")
    /\ UNCHANGED <<failures, maxFailures, group, wait>>

DisableSwap(p) ==
    /\ pc[p] = "disable"
    /\ disabled' = [disabled EXCEPT ![cur[p]] = TRUE]
    /\ IF disabled[cur[p]] THEN Return(p) ELSE Handle(p, "disable")
    /\ UNCHANGED <<failures, maxFailures, group, wait>>

\* Enable: atomic.StoreUint32(&f.failures, 0).
EnableStore(p) ==
    /\ pc[p] = "store"
    /\ failures' = [failures EXCEPT ![cur[p]] = 0]
    /\ Return(p)
    /\ UNCHANGED <<disabled, maxFailures, group, wait>>

-----------------------------------------------------------------------------
(* The group's status handler.                                             *)

\* A slip: the slice is cut without moving its last element.
RemoveFirstCut(s, f) ==
    IF \E i \in DOMAIN s : s[i] = f THEN SubSeq(s, 1, Len(s) - 1) ELSE s

\* The first occurrence of f gives its place to the last element.
RemoveFirst(s, f) ==
    IF \E i \in DOMAIN s : s[i] = f
    THEN LET i == CHOOSE i \in DOMAIN s :
                      s[i] = f /\ \A j \in 1..(i - 1) : s[j] # f
         IN  [k \in 1..(Len(s) - 1) |-> IF k = i THEN s[Len(s)] ELSE s[k]]
    ELSE s

\* The handler returns to Enable, which still resets the count, or to Disable.
HandlerReturn(p) == IF op[p] = "enable" THEN Goto(p, "store") ELSE Return(p)

Outranks(f) == Pri[f] > priority

\* onStatusChanged up to the init it calls, if it calls one.  Nothing but
\* the flag of its own forwarder is read that others may change, so taking
\* the mutex, that read and (when no init is called) the release are one step.
OnStatusChanged(p) ==
    /\ pc[p] = "lock"
    /\ ~Locked
    /\ LET f      == cur[p]
           higher == Enabled(f) /\ Outranks(f)
       IN  /\ avail' = IF ~Enabled(f) THEN RemoveFirst(avail, f)
                       ELSE IF Pri[f] = priority THEN Append(avail, f)
                       ELSE avail
           /\ IF higher THEN Goto(p, "pri1")
              ELSE IF avail' = <<>> THEN Goto(p, "pri2")
              ELSE HandlerReturn(p)
    /\ scan' = 1
    /\ UNCHANGED <<shared, priority, index, wait>>

\* init, first loop: the priority of the first forwarder that is enabled.
InitPri(p) ==
    /\ pc[p] \in {"pri1", "pri2"}
    /\ LET fill == IF pc[p] = "pri1" THEN "fill1" ELSE "fill2"
           stop == Enabled(scan) \/ scan = N
       IN  /\ priority' = IF Enabled(scan) THEN Pri[scan] ELSE priority
           /\ scan' = IF stop THEN 1 ELSE scan + 1
           /\ avail' = IF stop THEN <<>> ELSE avail
           /\ Goto(p, IF stop THEN fill ELSE pc[p])
    /\ UNCHANGED <<shared, index, wait>>

\* A slip: the priority of the forwarders that just failed is kept.
PriorityWhenEmptyKept == priority

\* "set priority to 0 to check all forwarders in check func".
PriorityWhenEmpty == 0

\* init, second loop, and what follows its last round: priority 0 when the
\* list is empty, and in onStatusChanged one more init in that case.
InitFill(p) ==
    /\ pc[p] \in {"fill1", "fill2"}
    /\ LET last == scan = N
           none == avail' = <<>>
       IN  /\ avail' = IF Enabled(scan) /\ Pri[scan] >= priority
                       THEN Append(avail, scan) ELSE avail
           /\ priority' = IF last /\ none THEN PriorityWhenEmpty ELSE priority
           /\ scan' = IF last THEN 1 ELSE scan + 1
           /\ IF ~last THEN Goto(p, pc[p])
              ELSE IF none /\ pc[p] = "fill1" THEN Goto(p, "pri2")
              ELSE HandlerReturn(p)
    /\ UNCHANGED <<shared, index, wait>>

-----------------------------------------------------------------------------
(* A client.                                                               *)

\* The connection is over; the next one asks for a forwarder again.
Hangup(c) ==
    /\ pc'  = [pc  EXCEPT ![c] = "idle"]
    /\ cur' = [cur EXCEPT ![c] = 1]
    /\ UNCHANGED <<ret, op, cnt>>

\* newFwdrGroup: the strategy matters when there is more than one forwarder.
Scheduler == IF N > 1 THEN Strategy ELSE "rr"

\* p.next: the forwarders of the list the scheduler may pick when the index
\* is i.  "dh" hashes the destination and "lha" reads latencies that checkers
\* store meanwhile: each may pick any element.
Scheduled(i) ==
    CASE Scheduler = "rr" -> {avail[(i % Len(avail)) + 1]}
      [] Scheduler = "ha" -> {avail[1]}
      [] OTHER            -> {avail[k] : k \in DOMAIN avail}

\* NextDialer under p.mu.RLock.  Only scheduleRR and the fallback, which cycles
\* through all forwarders, advance the index.
NextDialer(c) ==
    /\ pc[c] = "idle"
    /\ ~Locked
    /\ index' = IF avail = <<>> \/ Scheduler = "rr" THEN (index + 1) % U32 ELSE index
    /\ \E f \in IF avail = <<>> THEN {(index' % N) + 1} ELSE Scheduled(index') :
          cur' = [cur EXCEPT ![c] = f]
    /\ pc' = [pc EXCEPT ![c] = "dial"]
    /\ UNCHANGED <<shared, avail, priority, scan, wait, ret, op, cnt>>

\* Forwarder.Dial fails: IncFailures.  Some servers then return, others (tcp,
\* tls, ws, unix, kcp, smux, vsock) also Record the failure.
DialErr(c) ==
    /\ pc[c] = "dial"
    /\ \E r \in {"idle", "record"} : Call(c, "inc", cur[c], r)
    /\ UNCHANGED <<shared, group, wait>>

\* Forwarder.Dial succeeds.  The socks5 and http servers Record the success
\* before they relay (markSelected, Enable), the others relay at once.
DialOk(c) ==
    /\ pc[c] = "dial"
    /\ cur[c] \notin Unsupported
    /\ \/ Len(avail) < AvailBound /\ Call(c, "enable", cur[c], "relay")
       \/ Goto(c, "relay")
    /\ UNCHANGED <<shared, group, wait>>

\* FwdrGroup.DialUDP is the embedded Dialer's: its error counts for nothing.
DialUDP(c) ==
    /\ pc[c] = "dial"
    /\ \/ Goto(c, "relay")
       \/ Hangup(c)
    /\ UNCHANGED <<shared, group, wait>>

\* Proxy.Record(dialer, false), after a failed dial or a failed relay.
RecordFailure(c) ==
    /\ pc[c] \in {"record", "relay"}
    /\ Call(c, "inc", cur[c], "idle")
    /\ UNCHANGED <<shared, group, wait>>

\* The relay ends without an error to record.
RelayEnd(c) ==
    /\ pc[c] = "relay"
    /\ Hangup(c)
    /\ UNCHANGED <<shared, group, wait>>

-----------------------------------------------------------------------------
(* The check goroutine of forwarder f.                                     *)

\* A slip: only forwarders of the group's own priority are checked.
PassedOverOthers(f) == wait[f] > 0 /\ priority > 0 /\ Pri[f] # priority

\* "check all forwarders at least one time", later only the ones that are not
\* below the group's priority.
PassedOver(f) == wait[f] > 0 /\ Pri[f] < priority

\* An iteration of the loop that gets as far as the check.  The iterations
\* that "continue" before it change nothing.
CheckStart(f) ==
    /\ pc[f] = "sleep"
    /\ ~PassedOver(f)
    /\ ~(Enabled(f) /\ CheckDisabledOnly)
    /\ Goto(f, "check")
    /\ UNCHANGED <<shared, group, wait>>

\* The dial of a tcp or http check fails: Forwarder.Dial counts the failure
\* before check sees the error.
CheckDialErr(f) ==
    /\ pc[f] = "check"
    /\ Call(f, "inc", f, IF f \in Unsupported THEN "notSupported" ELSE "failed")
    /\ UNCHANGED <<shared, group, wait>>

\* The check fails after the dial, or is a script that fails.
CheckErr(f) ==
    /\ pc[f] = "check"
    /\ f \notin Unsupported
    /\ Goto(f, "failed")
    /\ UNCHANGED <<shared, group, wait>>

Backoff(w) == IF w + 1 > MaxWait THEN MaxWait ELSE w + 1

CheckFailed(f) ==
    /\ pc[f] = "failed"
    /\ wait' = [wait EXCEPT ![f] = Backoff(@)]
    /\ Call(f, "disable", f, "sleep")
    /\ UNCHANGED <<shared, group>>

\* ErrNotSupported: SetMaxFailures(0), Enable, and the goroutine ends.
CheckNotSupported(f) ==
    /\ pc[f] = "notSupported"
    /\ maxFailures' = [maxFailures EXCEPT ![f] = 0]
    /\ Call(f, "enable", f, "done")
    /\ UNCHANGED <<disabled, failures, group, wait>>

CheckOk(f) ==
    /\ pc[f] = "check"
    /\ f \notin Unsupported
    /\ Len(avail) < AvailBound
    /\ wait' = [wait EXCEPT ![f] = 1]
    /\ Call(f, "enable", f, "sleep")
    /\ UNCHANGED <<shared, group>>

-----------------------------------------------------------------------------

\* ForwarderFromURL: "set forwarder to disabled by default".
DisabledByDefault == [f \in Fwdrs |-> TRUE]

\* Check starts one goroutine per forwarder, none for a single forwarder.
Checked == HealthCheck /\ N > 1

\* NewFwdrGroup with at least one "forward=": init found none enabled.
Init ==
    /\ disabled = DisabledByDefault
    /\ failures = [f \in Fwdrs |-> 0]
    /\ maxFailures = [f \in Fwdrs |-> MaxFailures]
    /\ avail = <<>>
    /\ priority = 0
    /\ index = 0
    /\ wait = [f \in Fwdrs |-> 0]
    /\ pc = [p \in Procs |-> IF p \in Clients THEN "idle"
                             ELSE IF Checked THEN "sleep"
                             ELSE "done"]
    /\ ret = [p \in Procs |-> "idle"]
    /\ op = [p \in Procs |-> "enable"]
    /\ cur = [p \in Procs |-> IF p \in Fwdrs THEN p ELSE 1]
    /\ cnt = [p \in Procs |-> 0]
    /\ scan = 1

\* The steps inside Enable, Disable and IncFailures.
CallStep(p) ==
    \/ IncAdd(p) \/ IncTest(p)
    \/ EnableSwap(p) \/ EnableStore(p) \/ DisableSwap(p)
    \/ OnStatusChanged(p) \/ InitPri(p) \/ InitFill(p)

ClientStep(c) ==
    \/ NextDialer(c)
    \/ DialErr(c) \/ DialOk(c) \/ DialUDP(c)
    \/ RecordFailure(c) \/ RelayEnd(c)

CheckerStep(f) ==
    \/ CheckStart(f)
    \/ CheckDialErr(f) \/ CheckErr(f) \/ CheckFailed(f)
    \/ CheckNotSupported(f) \/ CheckOk(f)

Next ==
    \/ \E p \in Procs : CallStep(p)
    \/ \E c \in Clients : ClientStep(c)
    \/ \E f \in Fwdrs : CheckerStep(f)

Spec == Init /\ [][Next]_vars

\* Goroutines run, and Go's mutex does not starve a waiter.  Nothing obliges
\* a client to come or a dial, a relay or a check to succeed.
Fairness ==
    /\ \A p \in Procs : WF_vars(CallStep(p)) /\ SF_vars(OnStatusChanged(p))
    /\ \A f \in Fwdrs : WF_vars(CheckerStep(f))

FairSpec == Spec /\ Fairness

-----------------------------------------------------------------------------
(* Properties.                                                             *)

\* The goroutines' own variables hold values of their types.
LocalsOK ==
    /\ pc \in [Procs -> PCs]
    /\ ret \in [Procs -> ClientPC \cup CheckerPC]
    /\ op \in [Procs -> {"enable", "disable"}]
    /\ cur \in [Procs -> Fwdrs]
    /\ cnt \in [Procs -> 0..(U32 - 1)]

\* So do the forwarders', the group's and the checkers'.
SharedOK ==
    /\ disabled \in [Fwdrs -> BOOLEAN]
    /\ failures \in [Fwdrs -> 0..(U32 - 1)]
    /\ maxFailures \in [Fwdrs -> {0, MaxFailures}]
    /\ avail \in Seq(Fwdrs)
    /\ priority \in Nat
    /\ index \in 0..(U32 - 1)
    /\ wait \in [Fwdrs -> 0..MaxWait]
    /\ scan \in Fwdrs

\* Every variable holds a value of its Go type; in particular the back-off of
\* a check goroutine never exceeds its cap.
TypeOK == SharedOK /\ LocalsOK

\* Goroutine p is about to reset f's count, or to disable f.
WillSettle(p, f) ==
    /\ cur[p] = f
    /\ \/ pc[p] \in {"store", "disable"}
       \/ pc[p] \in InHandler /\ op[p] = "enable"
       \/ pc[p] = "incTest" /\ cnt[p] = maxFailures[f]

\* The failure limit works although counting, testing and disabling are
\* separate atomics (IncFailures) and Enable resets the count last: a
\* forwarder stays enabled with maxFailures failures or more only while some
\* goroutine is on its way to reset the count or to disable it.
FailureLimit ==
    \A f \in Fwdrs :
        Enabled(f) /\ maxFailures[f] > 0 /\ failures[f] >= maxFailures[f]
            => \E p \in Procs : WillSettle(p, f)

\* Once the handlers have run, no enabled forwarder of the group's priority
\* or above is missing from the list NextDialer picks from, although init
\* reads the flags one by one while goroutines swap them.
NoneForgotten ==
    Settled => \A f \in Fwdrs :
                   Enabled(f) /\ Pri[f] >= priority
                       => \E i \in DOMAIN avail : avail[i] = f

\* "serverA will only be used when serverB and serverC are not available":
\* once the handlers have run, whatever NextDialer can pick has no enabled
\* forwarder of a higher priority above it.  It falls back to cycling through
\* all forwarders only when none is enabled, and then the group's priority is
\* 0, so that every checker checks.
\* It needs priorities in which no forwarder of priority 0 stands below several
\* other priorities; with 2, 1 and 0 it fails (MCFwdrGroup, LadderSpec).
PriorityRespected ==
    Settled => /\ \A i \in DOMAIN avail : \A f \in Fwdrs :
                      Enabled(f) => Pri[f] <= Pri[avail[i]]
               /\ avail = <<>> => priority = 0 /\ \A f \in Fwdrs : disabled[f]

\* No check of f fails any more, and the list stays under the bound of the
\* model.
ChecksSucceed(f) ==
    /\ <>[][~CheckErr(f) /\ ~CheckDialErr(f)]_vars
    /\ <>[](Len(avail) < AvailBound)

\* A forwarder of the highest priority whose checks succeed comes back each
\* time it is disabled, whatever the clients and the other checkers do.
TopRecovers ==
    \A f \in Fwdrs :
        Checked /\ Pri[f] = Pri[1] /\ f \notin Unsupported /\ ChecksSucceed(f)
            => (disabled[f] ~> Enabled(f))

\* A group that is down comes back through any forwarder whose checks
\* succeed, also one of a low priority that is not checked while a better
\* one is up.
GroupRecovers ==
    \A f \in Fwdrs :
        Checked /\ f \notin Unsupported /\ ChecksSucceed(f)
            => ((\A g \in Fwdrs : disabled[g]) ~> (\E g \in Fwdrs : Enabled(g)))
=============================================================================
