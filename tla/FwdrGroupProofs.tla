-------------------------- MODULE FwdrGroupProofs --------------------------
(***************************************************************************)
(* What holds of FwdrGroup for every number of forwarders and clients,     *)
(* every assignment of priorities and every limit: type correctness, and   *)
(* that the failure limit survives the races between the three atomics of  *)
(* IncFailures and the two of Enable.                                      *)
(***************************************************************************)
EXTENDS FwdrGroup, WellFoundedInduction, TLAPS

USE FwdrGroupAssumption

\* A uint32 counter after AddUint32: one more, or 0 after the largest value.
LEMMA CounterStep ==
    ASSUME NEW a \in 0..(U32 - 1)
    PROVE  /\ (a + 1) % U32 \in 0..(U32 - 1)
           /\ (a + 1) % U32 = a + 1 \/ (a + 1) % U32 = 0
  OBVIOUS

\* A position in a list of n elements.
LEMMA Position ==
    ASSUME NEW a \in Nat, NEW n \in Nat \ {0}
    PROVE  (a % n) + 1 \in 1..n
  <1>1. a % n \in 0..(n - 1)
    OBVIOUS
  <1>2. QED
    BY <1>1

\* NextDialer returns a forwarder of the group, through the scheduler or past it.
LEMMA NextDialerType ==
    ASSUME TypeOK, NEW c, NextDialer(c)
    PROVE  \E f \in Fwdrs : cur' = [cur EXCEPT ![c] = f]
  <1> USE FwdrGroupAssumption DEF TypeOK, SharedOK
  <1>1. index' \in Nat
    BY CounterStep DEF NextDialer
  <1>2. CASE avail = <<>>
    <2>1. (index' % N) + 1 \in Fwdrs
      BY <1>1, Position DEF Fwdrs
    <2>2. QED
      BY <1>2, <2>1 DEF NextDialer
  <1>3. CASE avail # <<>>
    <2>1. Len(avail) \in Nat \ {0} /\ \A k \in 1..Len(avail) : avail[k] \in Fwdrs
      BY <1>3
    <2>2. (index' % Len(avail)) + 1 \in 1..Len(avail)
      BY <1>1, <2>1, Position
    <2>3. 1 \in 1..Len(avail) /\ DOMAIN avail = 1..Len(avail)
      BY <2>1
    <2>4. ASSUME Scheduler = "rr" PROVE Scheduled(index') \subseteq Fwdrs
      BY <2>1, <2>2, <2>4 DEF Scheduled
    <2>5. ASSUME Scheduler = "ha" PROVE Scheduled(index') \subseteq Fwdrs
      BY <2>1, <2>3, <2>5 DEF Scheduled
    <2>6. ASSUME Scheduler \notin {"rr", "ha"} PROVE Scheduled(index') \subseteq Fwdrs
      BY <2>1, <2>3, <2>6 DEF Scheduled
    <2>7. Scheduled(index') \subseteq Fwdrs
      BY <2>4, <2>5, <2>6
    <2>8. PICK f \in Scheduled(index') : cur' = [cur EXCEPT ![c] = f]
      BY <1>3, Zenon DEF NextDialer
    <2>9. QED
      BY <2>7, <2>8
  <1>4. QED
    BY <1>2, <1>3

-----------------------------------------------------------------------------
(* Type correctness.                                                       *)

\* Return keeps the goroutine's variables of the right types.
LEMMA ReturnType ==
    ASSUME LocalsOK, NEW p \in Procs, Return(p)
    PROVE  LocalsOK'
  <1>1. pc' \in [Procs -> PCs]
    BY DEF LocalsOK, Return, PCs
  <1>2. ret' \in [Procs -> ClientPC \cup CheckerPC]
    BY DEF LocalsOK, Return, ClientPC
  <1>3. op' \in [Procs -> {"enable", "disable"}]
    BY DEF LocalsOK, Return
  <1>4. cur' \in [Procs -> Fwdrs]
    BY DEF LocalsOK, Return, Fwdrs
  <1>5. cnt' \in [Procs -> 0..(U32 - 1)]
    BY DEF LocalsOK, Return
  <1>6. QED
    BY <1>1, <1>2, <1>3, <1>4, <1>5 DEF LocalsOK

\* So does a jump to a control point.
LEMMA GotoType ==
    ASSUME LocalsOK, NEW p \in Procs, NEW l \in PCs, Goto(p, l)
    PROVE  LocalsOK'
  BY DEF LocalsOK, Goto

\* So does a call.
LEMMA CallType ==
    ASSUME LocalsOK, NEW p \in Procs, NEW e \in InCall, NEW f \in Fwdrs,
           NEW r \in ClientPC \cup CheckerPC, Call(p, e, f, r)
    PROVE  LocalsOK'
  BY DEF LocalsOK, Call, PCs

\* So do the call of the handler and its return.
LEMMA HandlerType ==
    ASSUME LocalsOK, NEW p \in Procs,
           \/ HandlerReturn(p)
           \/ \E e \in {"enable", "disable"} : Handle(p, e)
    PROVE  LocalsOK'
  <1>1. CASE HandlerReturn(p)
    BY <1>1, ReturnType, GotoType DEF HandlerReturn, PCs, InCall
  <1>2. ASSUME NEW e \in {"enable", "disable"}, Handle(p, e)
        PROVE  LocalsOK'
    BY <1>2 DEF LocalsOK, Handle, PCs, InCall, InHandler
  <1>3. QED
    BY <1>1, <1>2

\* The list stays a list of forwarders when one is removed.
LEMMA RemoveFirstType ==
    ASSUME NEW s \in Seq(Fwdrs), NEW f
    PROVE  RemoveFirst(s, f) \in Seq(Fwdrs)
  <1>1. CASE \E i \in DOMAIN s : s[i] = f
    <2> DEFINE i == CHOOSE i \in DOMAIN s :
                        s[i] = f /\ \A j \in 1..(i - 1) : s[j] # f
               r == [k \in 1..(Len(s) - 1) |-> IF k = i THEN s[Len(s)] ELSE s[k]]
    <2>1. Len(s) \in Nat \ {0}
      BY <1>1
    <2>2. \A k \in 1..Len(s) : s[k] \in Fwdrs
      OBVIOUS
    <2> HIDE DEF i
    <2>3. r \in [1..(Len(s) - 1) -> Fwdrs]
      BY <2>1, <2>2
    <2>4. r \in Seq(Fwdrs)
      BY <2>1, <2>3
    <2>5. QED
      BY <1>1, <2>4 DEF RemoveFirst, i
  <1>2. CASE ~\E i \in DOMAIN s : s[i] = f
    BY <1>2 DEF RemoveFirst
  <1>3. QED
    BY <1>1, <1>2

\* The flag, the count and the limit keep their types in every step.
LEMMA SharedStep ==
    ASSUME TypeOK, [Next]_vars
    PROVE  /\ disabled' \in [Fwdrs -> BOOLEAN]
           /\ failures' \in [Fwdrs -> 0..(U32 - 1)]
           /\ maxFailures' \in [Fwdrs -> {0, MaxFailures}]
           /\ wait' \in [Fwdrs -> 0..MaxWait]
           /\ index' \in 0..(U32 - 1)
  <1> USE DEF TypeOK, SharedOK, LocalsOK, shared, group
  <1>1. ASSUME NEW p \in Procs, CallStep(p)
        PROVE  /\ disabled' \in [Fwdrs -> BOOLEAN]
               /\ failures' \in [Fwdrs -> 0..(U32 - 1)]
               /\ UNCHANGED <<maxFailures, wait, index>>
    <2>1. CASE IncAdd(p)
      BY <2>1, CounterStep DEF IncAdd
    <2>2. CASE EnableStore(p)
      BY <2>2 DEF EnableStore
    <2>3. CASE EnableSwap(p) \/ DisableSwap(p)
      BY <2>3 DEF EnableSwap, DisableSwap
    <2>4. CASE IncTest(p) \/ OnStatusChanged(p) \/ InitPri(p) \/ InitFill(p)
      BY <2>4 DEF IncTest, OnStatusChanged, InitPri, InitFill
    <2>5. QED
      BY <1>1, <2>1, <2>2, <2>3, <2>4 DEF CallStep
  <1>2. ASSUME NEW c \in Clients, ClientStep(c)
        PROVE  UNCHANGED <<shared, wait>> /\ index' \in 0..(U32 - 1)
    BY <1>2, CounterStep
       DEF ClientStep, NextDialer, Scheduled, DialErr, DialOk, DialUDP, RecordFailure, RelayEnd
  <1>3. ASSUME NEW f \in Fwdrs, CheckerStep(f)
        PROVE  /\ UNCHANGED <<disabled, failures, index>>
               /\ maxFailures' \in [Fwdrs -> {0, MaxFailures}]
               /\ wait' \in [Fwdrs -> 0..MaxWait]
    <2>1. CASE CheckNotSupported(f)
      BY <2>1 DEF CheckNotSupported
    <2>2. CASE CheckFailed(f)
      BY <2>2 DEF CheckFailed, Backoff
    <2>3. CASE CheckOk(f)
      BY <2>3 DEF CheckOk
    <2>4. CASE CheckStart(f) \/ CheckDialErr(f) \/ CheckErr(f)
      BY <2>4 DEF CheckStart, CheckDialErr, CheckErr
    <2>5. QED
      BY <1>3, <2>1, <2>2, <2>3, <2>4 DEF CheckerStep
  <1>4. CASE UNCHANGED vars
    BY <1>4 DEF vars
  <1>5. QED
    BY <1>1, <1>2, <1>3, <1>4 DEF Next

\* The list, the group's priority and the position of init keep theirs.
LEMMA GroupStep ==
    ASSUME TypeOK, [Next]_vars
    PROVE  avail' \in Seq(Fwdrs) /\ priority' \in Nat /\ scan' \in Fwdrs
  <1> USE DEF TypeOK, SharedOK, LocalsOK, shared, group
  <1>0. 1 \in Fwdrs /\ (scan # N => scan + 1 \in Fwdrs)
    BY DEF Fwdrs
  <1>1. ASSUME NEW p \in Procs, OnStatusChanged(p)
        PROVE  avail' \in Seq(Fwdrs) /\ priority' = priority /\ scan' = 1
    BY <1>1, RemoveFirstType DEF OnStatusChanged
  <1>2. ASSUME NEW p \in Procs, InitPri(p)
        PROVE  avail' \in Seq(Fwdrs) /\ priority' \in Nat /\ scan' \in Fwdrs
    <2>1. scan' \in Fwdrs
      BY <1>0, <1>2 DEF InitPri
    <2>2. priority' \in Nat
      BY <1>2 DEF InitPri
    <2>3. avail' \in Seq(Fwdrs)
      BY <1>2 DEF InitPri
    <2>4. QED
      BY <2>1, <2>2, <2>3
  <1>3. ASSUME NEW p \in Procs, InitFill(p)
        PROVE  avail' \in Seq(Fwdrs) /\ priority' \in Nat /\ scan' \in Fwdrs
    <2>1. scan' \in Fwdrs
      BY <1>0, <1>3 DEF InitFill
    <2>2. priority' \in Nat
      BY <1>3 DEF InitFill, PriorityWhenEmpty
    <2>3. avail' \in Seq(Fwdrs)
      BY <1>3 DEF InitFill
    <2>4. QED
      BY <2>1, <2>2, <2>3
  <1>4. ASSUME NEW p \in Procs,
               \/ IncAdd(p) \/ IncTest(p)
               \/ EnableSwap(p) \/ EnableStore(p) \/ DisableSwap(p)
        PROVE  UNCHANGED <<avail, priority, scan>>
    BY <1>4 DEF IncAdd, IncTest, EnableSwap, EnableStore, DisableSwap
  <1>5. ASSUME NEW c \in Clients, ClientStep(c)
        PROVE  UNCHANGED <<avail, priority, scan>>
    BY <1>5
       DEF ClientStep, NextDialer, DialErr, DialOk, DialUDP, RecordFailure, RelayEnd
  <1>6. ASSUME NEW f \in Fwdrs, CheckerStep(f)
        PROVE  UNCHANGED <<avail, priority, scan>>
    BY <1>6
       DEF CheckerStep, CheckStart, CheckDialErr, CheckErr, CheckFailed,
           CheckNotSupported, CheckOk
  <1>7. CASE UNCHANGED vars
    BY <1>7 DEF vars
  <1>8. QED
    BY <1>0, <1>1, <1>2, <1>3, <1>4, <1>5, <1>6, <1>7 DEF Next, CallStep

\* The goroutines' variables keep theirs.
LEMMA LocalsStep ==
    ASSUME TypeOK, [Next]_vars
    PROVE  LocalsOK'
  <1> USE DEF TypeOK
  <1>1. ASSUME NEW p \in Procs, CallStep(p)
        PROVE  LocalsOK'
    <2> USE DEF PCs, InCall, InHandler, InInit
    <2>1. CASE IncAdd(p)
      BY <2>1, CounterStep DEF IncAdd, LocalsOK, SharedOK
    <2>2. CASE IncTest(p)
      BY <2>2, ReturnType, GotoType DEF IncTest
    <2>3. CASE EnableSwap(p)
      BY <2>3, HandlerType, GotoType DEF EnableSwap
    <2>4. CASE DisableSwap(p)
      BY <2>4, HandlerType, ReturnType DEF DisableSwap
    <2>5. CASE EnableStore(p)
      BY <2>5, ReturnType DEF EnableStore
    <2>6. CASE OnStatusChanged(p)
      BY <2>6, HandlerType, GotoType DEF OnStatusChanged
    <2>7. CASE InitPri(p)
      BY <2>7, GotoType DEF InitPri
    <2>8. CASE InitFill(p)
      BY <2>8, HandlerType, GotoType DEF InitFill
    <2>9. QED
      BY <1>1, <2>1, <2>2, <2>3, <2>4, <2>5, <2>6, <2>7, <2>8 DEF CallStep
  <1>2. ASSUME NEW c \in Clients, ClientStep(c)
        PROVE  LocalsOK'
    <2> USE DEF LocalsOK, PCs, InCall, ClientPC
    <2>1. c \in Procs /\ cur[c] \in Fwdrs
      BY DEF Procs
    <2>2. CASE NextDialer(c)
      <3>1. PICK f \in Fwdrs : cur' = [cur EXCEPT ![c] = f]
        BY <2>2, NextDialerType
      <3>2. QED
        BY <2>1, <2>2, <3>1 DEF NextDialer
    <2>3. CASE DialErr(c) \/ RecordFailure(c)
      BY <2>1, <2>3, CallType DEF DialErr, RecordFailure
    <2>4. CASE DialOk(c)
      BY <2>1, <2>4, CallType, GotoType DEF DialOk
    <2>5. CASE DialUDP(c) \/ RelayEnd(c)
      <3>1. CASE Hangup(c)
        BY <2>1, <3>1 DEF Hangup, Fwdrs
      <3>2. CASE Goto(c, "relay")
        BY <2>1, <3>2, GotoType
      <3>3. QED
        BY <2>5, <3>1, <3>2 DEF DialUDP, RelayEnd
    <2>6. QED
      BY <1>2, <2>2, <2>3, <2>4, <2>5 DEF ClientStep
  <1>3. ASSUME NEW f \in Fwdrs, CheckerStep(f)
        PROVE  LocalsOK'
    BY <1>3, CallType, GotoType
       DEF CheckerStep, CheckStart, CheckDialErr, CheckErr, CheckFailed,
           CheckNotSupported, CheckOk, Procs, PCs, InCall, CheckerPC
  <1>4. CASE UNCHANGED vars
    BY <1>4 DEF vars, LocalsOK
  <1>5. QED
    BY <1>1, <1>2, <1>3, <1>4 DEF Next

\* Initially every variable has its type.
LEMMA InitType == Init => TypeOK
  <1> SUFFICES ASSUME Init PROVE TypeOK
    OBVIOUS
  <1>1. SharedOK
    BY DEF Init, DisabledByDefault, SharedOK, Fwdrs
  <1>2. LocalsOK
    BY DEF Init, LocalsOK, PCs, ClientPC, CheckerPC, Procs, Fwdrs
  <1>3. QED
    BY <1>1, <1>2 DEF TypeOK

\* Type correctness of every group: the counters stay uint32 values, the list
\* holds forwarders of the group, the back-off never exceeds its cap, and a
\* goroutine that returns from Enable, Disable or IncFailures goes on where
\* it called.
THEOREM TypeCorrect == Spec => []TypeOK
  <1>1. TypeOK /\ [Next]_vars => TypeOK'
    BY SharedStep, GroupStep, LocalsStep DEF TypeOK, SharedOK
  <1>2. QED
    BY InitType, <1>1, PTL DEF Spec

-----------------------------------------------------------------------------
(* The failure limit.                                                      *)

\* f is over its limit and still enabled.
OverLimit(f) ==
    Enabled(f) /\ maxFailures[f] > 0 /\ failures[f] >= maxFailures[f]

\* Only the goroutine that takes the step changes its own variables.
Frame(p) ==
    \A q \in Procs \ {p} : /\ pc'[q] = pc[q]
                           /\ op'[q] = op[q]
                           /\ cur'[q] = cur[q]
                           /\ cnt'[q] = cnt[q]

\* A step of goroutine p that leaves f's count, flag and limit alone leaves
\* the goroutines that will settle f alone as well, p itself excepted.
LEMMA OthersSettle ==
    ASSUME TypeOK, FailureLimit, NEW f \in Fwdrs, NEW p \in Procs,
           OverLimit(f),
           ~WillSettle(p, f) \/ WillSettle(p, f)',
           maxFailures'[f] = maxFailures[f],
           Frame(p)
    PROVE  \E q \in Procs : WillSettle(q, f)'
  <1>1. PICK q \in Procs : WillSettle(q, f)
    BY DEF FailureLimit, OverLimit
  <1>2. CASE q = p
    BY <1>1, <1>2
  <1>3. CASE q # p
    BY <1>1, <1>3 DEF WillSettle, Frame
  <1>4. QED
    BY <1>2, <1>3

\* Every step of a goroutine is framed that way.
LEMMA StepFrame ==
    ASSUME TypeOK, NEW p \in Procs,
           \/ CallStep(p)
           \/ p \in Clients /\ ClientStep(p)
           \/ p \in Fwdrs /\ CheckerStep(p)
    PROVE  Frame(p)
  <1> USE DEF TypeOK, LocalsOK, Frame, Goto, Call, Return, Handle
  <1>1. CASE CallStep(p)
    <2>1. CASE IncAdd(p) \/ IncTest(p) \/ EnableStore(p)
      BY <2>1 DEF IncAdd, IncTest, EnableStore
    <2>2. CASE EnableSwap(p) \/ DisableSwap(p)
      BY <2>2 DEF EnableSwap, DisableSwap
    <2>3. CASE OnStatusChanged(p)
      BY <2>3 DEF OnStatusChanged, HandlerReturn
    <2>4. CASE InitPri(p) \/ InitFill(p)
      BY <2>4 DEF InitPri, InitFill, HandlerReturn
    <2>5. QED
      BY <1>1, <2>1, <2>2, <2>3, <2>4 DEF CallStep
  <1>2. CASE p \in Clients /\ ClientStep(p)
    BY <1>2 DEF ClientStep, NextDialer, DialErr, DialOk, DialUDP,
                RecordFailure, RelayEnd, Hangup
  <1>3. CASE p \in Fwdrs /\ CheckerStep(p)
    BY <1>3 DEF CheckerStep, CheckStart, CheckDialErr, CheckErr, CheckFailed,
                CheckNotSupported, CheckOk
  <1>4. QED
    BY <1>1, <1>2, <1>3

\* A step inside Enable, Disable or IncFailures keeps the limit.
LEMMA LimitCallStep ==
    ASSUME TypeOK, FailureLimit, NEW p \in Procs, CallStep(p),
           NEW f \in Fwdrs, OverLimit(f)'
    PROVE  \E q \in Procs : WillSettle(q, f)'
  <1> USE DEF TypeOK, SharedOK, LocalsOK, OverLimit, Enabled, shared, group
  <1>0. Frame(p) /\ maxFailures' = maxFailures
    BY StepFrame DEF CallStep, IncAdd, IncTest, EnableSwap, EnableStore,
       DisableSwap, OnStatusChanged, InitPri, InitFill
  <1>a. failures[f] \in 0..(U32 - 1) /\ maxFailures[f] \in Nat
    <2>1. failures[f] \in 0..(U32 - 1)
      OBVIOUS
    <2>2. maxFailures[f] \in {0, MaxFailures}
      OBVIOUS
    <2>3. QED
      BY <2>1, <2>2
  <1> USE DEF InHandler, InInit
  <1>1. CASE IncAdd(p)
    <2>1. CASE OverLimit(f)
      <3>1. ~WillSettle(p, f)
        BY <1>1 DEF IncAdd, WillSettle
      <3>2. QED
        BY <1>0, <2>1, <3>1, OthersSettle
    <2>2. CASE ~OverLimit(f)
      <3>1. disabled' = disabled /\ failures[f] < maxFailures[f]
        BY <1>0, <1>1, <2>2, <1>a DEF IncAdd
      <3>2. cur[p] = f
        BY <1>0, <1>1, <1>a, <3>1 DEF IncAdd
      <3>3. failures'[f] = (failures[f] + 1) % U32
        BY <1>1, <3>2 DEF IncAdd
      <3>4. failures'[f] = failures[f] + 1
        <4>1. failures'[f] # 0
          BY <1>0, <1>a
        <4>2. (failures[f] + 1) % U32 = failures[f] + 1 \/ (failures[f] + 1) % U32 = 0
          BY <1>a, CounterStep
        <4>3. QED
          BY <3>3, <4>1, <4>2
      <3>5. failures'[f] = maxFailures[f]
        BY <1>0, <1>a, <3>1, <3>4
      <3>6. WillSettle(p, f)'
        BY <1>0, <1>1, <3>2, <3>5 DEF IncAdd, WillSettle
      <3>7. QED
        BY <3>6
    <2>3. QED
      BY <2>1, <2>2
  <1>2. CASE IncTest(p)
    <2>1. OverLimit(f)
      BY <1>2 DEF IncTest
    <2>2. WillSettle(p, f) => WillSettle(p, f)'
      BY <1>2, <2>1 DEF IncTest, WillSettle, LimitReached, Goto
    <2>3. QED
      BY <1>0, <2>1, <2>2, OthersSettle
  <1>3. CASE EnableSwap(p)
    <2>1. CASE cur[p] = f
      <3>1. WillSettle(p, f)'
        BY <1>3, <2>1 DEF EnableSwap, WillSettle, Handle, Goto
      <3>2. QED
        BY <3>1
    <2>2. CASE cur[p] # f
      <3>1. OverLimit(f) /\ ~WillSettle(p, f)
        BY <1>3, <2>2 DEF EnableSwap, WillSettle
      <3>2. QED
        BY <1>0, <3>1, OthersSettle
    <2>3. QED
      BY <2>1, <2>2
  <1>4. CASE DisableSwap(p)
    <2>1. OverLimit(f) /\ ~WillSettle(p, f)
      BY <1>4 DEF DisableSwap, WillSettle
    <2>2. QED
      BY <1>0, <2>1, OthersSettle
  <1>5. CASE EnableStore(p)
    <2>1. cur[p] # f
      BY <1>0, <1>a, <1>5 DEF EnableStore
    <2>2. OverLimit(f) /\ ~WillSettle(p, f)
      BY <1>0, <1>5, <2>1 DEF EnableStore, WillSettle
    <2>3. QED
      BY <1>0, <2>2, OthersSettle
  <1>6. CASE OnStatusChanged(p)
    <2>1. OverLimit(f)
      BY <1>6 DEF OnStatusChanged
    <2>2. WillSettle(p, f) => WillSettle(p, f)'
      BY <1>6 DEF OnStatusChanged, WillSettle, HandlerReturn, Goto
    <2>3. QED
      BY <1>0, <2>1, <2>2, OthersSettle
  <1>7. CASE InitPri(p)
    <2>1. OverLimit(f)
      BY <1>7 DEF InitPri
    <2>2. WillSettle(p, f) => WillSettle(p, f)'
      BY <1>7 DEF InitPri, WillSettle, Goto
    <2>3. QED
      BY <1>0, <2>1, <2>2, OthersSettle
  <1>8. CASE InitFill(p)
    <2>1. OverLimit(f)
      BY <1>8 DEF InitFill
    <2>2. WillSettle(p, f) => WillSettle(p, f)'
      BY <1>8 DEF InitFill, WillSettle, HandlerReturn, Goto
    <2>3. QED
      BY <1>0, <2>1, <2>2, OthersSettle
  <1>9. QED
    BY <1>1, <1>2, <1>3, <1>4, <1>5, <1>6, <1>7, <1>8 DEF CallStep

\* So does a step of a client or of a checker outside these calls: it settles
\* nothing, and it changes no count and no flag.
LEMMA LimitOtherStep ==
    ASSUME TypeOK, FailureLimit, NEW p \in Procs,
           \/ p \in Clients /\ ClientStep(p)
           \/ p \in Fwdrs /\ CheckerStep(p),
           NEW f \in Fwdrs, OverLimit(f)'
    PROVE  \E q \in Procs : WillSettle(q, f)'
  <1> USE DEF TypeOK, SharedOK, OverLimit, Enabled, shared
  <1>1. ~WillSettle(p, f)
    BY DEF ClientStep, NextDialer, DialErr, DialOk, DialUDP, RecordFailure,
           RelayEnd, CheckerStep, CheckStart, CheckDialErr, CheckErr,
           CheckFailed, CheckNotSupported, CheckOk, WillSettle, InHandler, InInit
  <1>2. failures' = failures /\ disabled' = disabled
    BY DEF ClientStep, NextDialer, DialErr, DialOk, DialUDP, RecordFailure,
           RelayEnd, CheckerStep, CheckStart, CheckDialErr, CheckErr,
           CheckFailed, CheckNotSupported, CheckOk
  <1>3. maxFailures'[f] = maxFailures[f]
    <2>1. CASE p \in Fwdrs /\ CheckNotSupported(p)
      BY <2>1 DEF CheckNotSupported
    <2>2. CASE ~(p \in Fwdrs /\ CheckNotSupported(p))
      BY <2>2 DEF ClientStep, NextDialer, DialErr, DialOk, DialUDP,
           RecordFailure, RelayEnd, CheckerStep, CheckStart, CheckDialErr,
           CheckErr, CheckFailed, CheckOk
    <2>3. QED
      BY <2>1, <2>2
  <1>4. QED
    BY <1>1, <1>2, <1>3, StepFrame, OthersSettle

\* The failure limit of IncFailures, for every group: a forwarder is enabled
\* with maxFailures failures or more only while a goroutine is on its way to
\* reset the count or to disable it.
THEOREM FailureLimitHolds == Spec => []FailureLimit
  <1>1. Init => FailureLimit
    BY DEF Init, DisabledByDefault, FailureLimit, Enabled
  <1>2. TypeOK /\ FailureLimit /\ [Next]_vars => FailureLimit'
    <2> SUFFICES ASSUME TypeOK, FailureLimit, [Next]_vars,
                        NEW f \in Fwdrs, OverLimit(f)'
                 PROVE  \E q \in Procs : WillSettle(q, f)'
      BY DEF FailureLimit, OverLimit, Enabled
    <2>1. CASE \E p \in Procs : CallStep(p)
      BY <2>1, LimitCallStep
    <2>2. CASE \E c \in Clients : ClientStep(c)
      BY <2>2, LimitOtherStep DEF Procs
    <2>3. CASE \E g \in Fwdrs : CheckerStep(g)
      BY <2>3, LimitOtherStep DEF Procs
    <2>4. CASE UNCHANGED vars
      BY <2>4 DEF vars, FailureLimit, OverLimit, WillSettle, Enabled
    <2>5. QED
      BY <2>1, <2>2, <2>3, <2>4 DEF Next
  <1>3. QED
    BY <1>1, <1>2, TypeCorrect, PTL DEF Spec

-----------------------------------------------------------------------------
(* The list.  What init reads may be out of date when it returns; then a   *)
(* handler is waiting for the mutex that will put it right.                *)

\* A forwarder of priority 0 shares its group with forwarders of the highest
\* priority only: no priority is 0, or all are equal, or one forwarder of
\* priority 0 stands below forwarders of one priority.
ZeroOnlyBelowTop ==
    \A z, f \in Fwdrs : Pri[z] = 0 /\ f # z => Pri[f] = Pri[1]

\* A handler for f waits for the mutex: it will read f's flag.
Pending(f) == \E p \in Procs : pc[p] = "lock" /\ cur[p] = f

\* f is enabled, and no handler will tell the group so any more.
Loose(f) == Enabled(f) /\ ~Pending(f)

Listed(f) == \E i \in DOMAIN avail : avail[i] = f

\* One goroutine at a time is in init.
Mutex ==
    \A p, q \in Procs : pc[p] \in InInit /\ pc[q] \in InInit => p = q

\* What the list holds is of the group's priority or above it.
NoneLower == \A i \in DOMAIN avail : Pri[avail[i]] >= priority

\* f is below the group's priority, or listed.
Placed(f) == Pri[f] <= priority /\ (Pri[f] = priority => Listed(f))

\* While no init runs: forwarders without a handler are placed.  An empty
\* list may miss some, below the top, as long as another handler is to come.
Quiet ==
    ~Locked =>
        /\ NoneLower
        /\ avail = <<>> => priority = 0
        /\ \A f \in Fwdrs : Loose(f) =>
              IF avail = <<>>
              THEN Pri[f] < Pri[1] /\ \E g \in Fwdrs : Pending(g)
              ELSE Placed(f)

\* In the first loop of init: what it passed is disabled or has a handler.
Choosing ==
    \A p \in Procs : pc[p] \in {"pri1", "pri2"} =>
        \A f \in Fwdrs : f < scan => ~Loose(f)

\* In the second loop: nothing loose is above the priority chosen, what it
\* passed is listed, and the priority is one of a forwarder that is enabled
\* or has a handler, unless nothing is loose at all.
Filling ==
    \A p \in Procs : pc[p] \in {"fill1", "fill2"} =>
        /\ NoneLower
        /\ \A f \in Fwdrs : Loose(f) =>
              Pri[f] <= priority /\ (Pri[f] = priority /\ f < scan => Listed(f))
        /\ \/ \A f \in Fwdrs : ~Loose(f)
           \/ \E f \in Fwdrs : Pri[f] = priority /\ (Enabled(f) \/ Pending(f))

\* The inductive invariant of the list.
ListInv == Mutex /\ priority <= Pri[1] /\ Quiet /\ Choosing /\ Filling

\* The list is not looked at, and the handlers that wait stay.
LEMMA CallsAside ==
    ASSUME TypeOK, ListInv, NEW p \in Procs, Frame(p),
           UNCHANGED <<disabled, avail, priority, scan>>,
           pc[p] \notin InHandler, pc'[p] \notin InHandler
    PROVE  ListInv'
  <1> USE DEF InHandler, InInit, Frame
  <1>1. \A f \in Fwdrs : Pending(f)' <=> Pending(f)
    BY DEF Pending
  <1>2. \A f \in Fwdrs : (Loose(f)' <=> Loose(f)) /\ (Enabled(f)' <=> Enabled(f))
    BY <1>1 DEF Loose, Enabled
  <1>3. \A f \in Fwdrs : (Listed(f)' <=> Listed(f)) /\ (Placed(f)' <=> Placed(f))
    BY DEF Listed, Placed
  <1>4. (Locked' <=> Locked) /\ (NoneLower' <=> NoneLower)
    BY DEF Locked, NoneLower
  <1>5. Mutex' /\ priority' <= Pri[1]
    BY DEF ListInv, Mutex
  <1>6. Quiet'
    BY <1>1, <1>2, <1>3, <1>4 DEF ListInv, Quiet
  <1>7. Choosing'
    BY <1>2 DEF ListInv, Choosing
  <1>8. Filling'
    BY <1>1, <1>2, <1>3, <1>4 DEF ListInv, Filling
  <1>9. QED
    BY <1>5, <1>6, <1>7, <1>8 DEF ListInv

\* A swap that changes a flag leaves a handler for its forwarder.
LEMMA SwapAside ==
    ASSUME TypeOK, ListInv, NEW p \in Procs, Frame(p),
           UNCHANGED <<avail, priority, scan>>,
           \A f \in Fwdrs \ {cur[p]} : disabled'[f] = disabled[f],
           pc[p] \notin InHandler, pc'[p] = "lock", cur'[p] = cur[p]
    PROVE  ListInv'
  <1> USE DEF InHandler, InInit, Frame
  <1>0. cur[p] \in Fwdrs
    BY DEF TypeOK, LocalsOK
  <1>1. Pending(cur[p])' /\ \A f \in Fwdrs : Pending(f) => Pending(f)'
    BY DEF Pending
  <1>2. \A f \in Fwdrs : Loose(f)' => Loose(f)
    BY <1>1 DEF Loose, Enabled
  <1>3. \A f \in Fwdrs : Enabled(f) \/ Pending(f) => Enabled(f)' \/ Pending(f)'
    BY <1>1 DEF Enabled
  <1>4. \A f \in Fwdrs : (Listed(f)' <=> Listed(f)) /\ (Placed(f)' <=> Placed(f))
    BY DEF Listed, Placed
  <1>5. (Locked' <=> Locked) /\ (NoneLower' <=> NoneLower)
    BY DEF Locked, NoneLower
  <1>6. Mutex' /\ priority' <= Pri[1]
    BY DEF ListInv, Mutex
  <1>7. Quiet'
    BY <1>0, <1>1, <1>2, <1>4, <1>5 DEF ListInv, Quiet
  <1>8. Choosing'
    BY <1>2 DEF ListInv, Choosing
  <1>9. Filling'
    BY <1>2, <1>3, <1>4, <1>5 DEF ListInv, Filling
  <1>10. QED
    BY <1>6, <1>7, <1>8, <1>9 DEF ListInv

\* Removing an entry of f keeps the entries of the others, and adds none.
LEMMA RemoveFirstKeeps ==
    ASSUME NEW s \in Seq(Fwdrs), NEW f
    PROVE  /\ \A g \in Fwdrs \ {f} :
                 (\E i \in DOMAIN s : s[i] = g)
                     => \E j \in DOMAIN RemoveFirst(s, f) : RemoveFirst(s, f)[j] = g
           /\ \A j \in DOMAIN RemoveFirst(s, f) :
                 \E i \in DOMAIN s : RemoveFirst(s, f)[j] = s[i]
  <1>1. CASE \E i \in DOMAIN s : s[i] = f
    <2> DEFINE i == CHOOSE i \in DOMAIN s :
                        s[i] = f /\ \A j \in 1..(i - 1) : s[j] # f
               r == [k \in 1..(Len(s) - 1) |-> IF k = i THEN s[Len(s)] ELSE s[k]]
    <2>1. Len(s) \in Nat /\ DOMAIN s = 1..Len(s)
      OBVIOUS
    <2>2. i \in DOMAIN s /\ s[i] = f
      <3> DEFINE T == {n \in 1..Len(s) : s[n] = f}
      <3>1. T \subseteq Nat /\ T # {}
        BY <1>1, <2>1
      <3>2. \E m \in T : \A n \in T : ~(<<n, m>> \in OpToRel(<, Nat))
        <4> HIDE DEF T
        <4>1. QED
          BY <3>1, NatLessThanWellFounded, WFMin, Zenon
      <3>3. PICK m \in T : \A n \in T : ~(n < m)
        BY <3>1, <3>2 DEF OpToRel
      <3>4. m \in DOMAIN s /\ s[m] = f /\ \A j \in 1..(m - 1) : s[j] # f
        BY <2>1, <3>3
      <3>5. QED
        BY <3>4
    <2>3. RemoveFirst(s, f) = r
      BY <1>1 DEF RemoveFirst
    <2> HIDE DEF i
    <2>4. ASSUME NEW g \in Fwdrs \ {f}, NEW n \in DOMAIN s, s[n] = g
          PROVE  \E j \in DOMAIN r : r[j] = g
      <3>1. n # i
        BY <2>2, <2>4
      <3>2. CASE n = Len(s)
        <4>1. i \in 1..(Len(s) - 1)
          BY <2>1, <2>2, <3>1, <3>2
        <4>2. QED
          BY <2>4, <3>2, <4>1
      <3>3. CASE n # Len(s)
        <4>1. n \in 1..(Len(s) - 1)
          BY <2>1, <3>3
        <4>2. QED
          BY <2>4, <3>1, <4>1
      <3>4. QED
        BY <3>2, <3>3
    <2>5. ASSUME NEW j \in DOMAIN r
          PROVE  \E n \in DOMAIN s : r[j] = s[n]
      <3>1. j \in 1..(Len(s) - 1) /\ j \in DOMAIN s /\ Len(s) \in DOMAIN s
        BY <2>1
      <3>2. r[j] = s[Len(s)] \/ r[j] = s[j]
        BY <3>1
      <3>3. QED
        BY <3>1, <3>2
    <2> HIDE DEF r
    <2>6. QED
      BY <2>3, <2>4, <2>5
  <1>2. CASE ~\E i \in DOMAIN s : s[i] = f
    BY <1>2 DEF RemoveFirst
  <1>3. QED
    BY <1>1, <1>2

\* A handler's return leaves the lock and init, and changes only its caller.
LEMMA ReturnAside ==
    ASSUME TypeOK, NEW p \in Procs, HandlerReturn(p)
    PROVE  pc'[p] \notin InHandler
  <1>1. CASE op[p] = "enable"
    BY <1>1 DEF HandlerReturn, Goto, TypeOK, LocalsOK, InHandler, InInit
  <1>2. CASE op[p] # "enable"
    <2>1. pc'[p] = ret[p] /\ ret[p] \in ClientPC \cup CheckerPC
      BY <1>2 DEF HandlerReturn, Return, TypeOK, LocalsOK
    <2>2. QED
      BY <2>1 DEF ClientPC, CheckerPC, InHandler, InInit
  <1>3. QED
    BY <1>1, <1>2

\* The handler of a goroutine that takes the mutex.
LEMMA HandlerKeepsList ==
    ASSUME TypeOK, ListInv, ZeroOnlyBelowTop, NEW p \in Procs, OnStatusChanged(p)
    PROVE  ListInv'
  <1>f. PICK f \in Fwdrs : f = cur[p]
    BY DEF TypeOK, LocalsOK
  <1> DEFINE higher == Enabled(f) /\ Outranks(f)
  <1>0. Frame(p) /\ f \in Fwdrs
    BY StepFrame DEF CallStep
  <1>1. /\ pc[p] = "lock" /\ ~Locked /\ scan' = 1
        /\ UNCHANGED <<disabled, priority>>
        /\ avail' = IF ~Enabled(f) THEN RemoveFirst(avail, f)
                    ELSE IF Pri[f] = priority THEN Append(avail, f)
                    ELSE avail
        /\ IF higher THEN Goto(p, "pri1")
           ELSE IF avail' = <<>> THEN Goto(p, "pri2")
           ELSE HandlerReturn(p)
    BY <1>f DEF OnStatusChanged, shared
  <1> HIDE DEF higher
  <1>2. \A q \in Procs : pc[q] \notin InInit
    BY <1>1 DEF Locked
  <1>3. \A g \in Fwdrs \ {f} : Loose(g)' => Loose(g)
    BY <1>f, <1>0, <1>1 DEF Loose, Enabled, Pending, Frame
  <1>4. \A g \in Fwdrs : Enabled(g)' <=> Enabled(g)
    BY <1>1 DEF Enabled
  <1>5. priority' <= Pri[1] /\ NoneLower /\ (avail = <<>> => priority = 0)
    BY <1>1 DEF ListInv, Quiet
  <1>6. CASE higher \/ avail' = <<>>
    <2>1. pc'[p] \in {"pri1", "pri2"}
      BY <1>1, <1>6 DEF Goto, TypeOK, LocalsOK
    <2>2. \A q \in Procs : q # p => pc'[q] \notin InInit
      BY <1>0, <1>2 DEF Frame
    <2>3. Mutex' /\ Locked'
      BY <2>1, <2>2 DEF Mutex, Locked, InInit
    <2>4. Choosing' /\ Filling'
      BY <1>1, <2>1, <2>2 DEF Choosing, Filling, InInit, Fwdrs
    <2>5. QED
      BY <1>5, <2>3, <2>4 DEF ListInv, Quiet
  <1>7. CASE ~higher /\ avail' # <<>>
    <2>1. pc'[p] \notin InInit
      BY <1>1, <1>7, ReturnAside DEF InHandler
    <2>2. \A q \in Procs : pc'[q] \notin InInit
      BY <1>0, <1>2, <2>1 DEF Frame
    <2>3. Mutex' /\ Choosing' /\ Filling'
      BY <2>2 DEF Mutex, Choosing, Filling, InInit
    <2>4. avail \in Seq(Fwdrs) /\ Pri[f] \in Nat /\ priority \in Nat
      BY <1>0 DEF TypeOK, SharedOK
    <2>5. ASSUME NEW g \in Fwdrs \ {f}, Listed(g) PROVE Listed(g)'
      <3>1. PICK i \in DOMAIN avail : avail[i] = g
        BY <2>5 DEF Listed
      <3>2. CASE avail' = RemoveFirst(avail, f)
        BY <2>4, <3>1, <3>2, RemoveFirstKeeps DEF Listed
      <3>3. CASE avail' = Append(avail, f) \/ avail' = avail
        <4>1. i \in DOMAIN avail' /\ avail'[i] = g
          BY <2>4, <3>1, <3>3
        <4>2. QED
          BY <4>1 DEF Listed
      <3>4. QED
        BY <1>1, <3>2, <3>3
    <2>6. Enabled(f) => Placed(f)'
      <3>1. Enabled(f) => Pri[f] <= priority
        BY <1>7, <2>4 DEF higher, Outranks
      <3>2. ASSUME Enabled(f), Pri[f] = priority
            PROVE  Listed(f)'
        <4>1. avail' = Append(avail, f)
          BY <1>1, <3>2
        <4>2. Len(avail) + 1 \in DOMAIN avail' /\ avail'[Len(avail) + 1] = f
          BY <2>4, <4>1
        <4>3. QED
          BY <4>2 DEF Listed
      <3>3. QED
        BY <1>1, <3>1, <3>2 DEF Placed
    <2>7. NoneLower'
      <3>1. CASE ~Enabled(f)
        BY <1>1, <1>5, <2>4, <3>1, RemoveFirstKeeps DEF NoneLower
      <3>2. CASE Enabled(f) /\ Pri[f] = priority
        <4>1. avail' = Append(avail, f)
          BY <1>1, <3>2
        <4>2. ASSUME NEW i \in DOMAIN avail' PROVE Pri[avail'[i]] >= priority
          <5>1. CASE i = Len(avail) + 1
            BY <2>4, <3>2, <4>1, <5>1
          <5>2. CASE i # Len(avail) + 1
            <6>1. i \in DOMAIN avail /\ avail'[i] = avail[i]
              BY <2>4, <4>1, <5>2
            <6>2. QED
              BY <1>5, <6>1 DEF NoneLower
          <5>3. QED
            BY <5>1, <5>2
        <4>3. QED
          BY <1>1, <4>2 DEF NoneLower
      <3>3. CASE Enabled(f) /\ Pri[f] # priority
        BY <1>1, <1>5, <3>3 DEF NoneLower
      <3>4. QED
        BY <3>1, <3>2, <3>3
    <2>8. ASSUME NEW g \in Fwdrs, Loose(g)' PROVE Placed(g)'
      <3>1. CASE g = f
        BY <1>4, <2>6, <2>8, <3>1 DEF Loose
      <3>2. CASE g # f /\ avail # <<>>
        <4>1. Placed(g)
          BY <1>1, <1>3, <2>8, <3>2 DEF ListInv, Quiet
        <4>2. QED
          BY <1>1, <2>5, <3>2, <4>1 DEF Placed
      <3>3. CASE g # f /\ avail = <<>>
        <4>1. Pri[g] < Pri[1]
          BY <1>1, <1>3, <2>8, <3>3 DEF ListInv, Quiet
        <4>2. Enabled(f) /\ Pri[f] = 0
          <5>1. RemoveFirst(<<>>, f) = <<>>
            BY DEF RemoveFirst
          <5>2. QED
            BY <1>1, <1>5, <1>7, <3>3, <5>1
        <4>3. Pri[g] = Pri[1]
          BY <1>0, <3>3, <4>2 DEF ZeroOnlyBelowTop
        <4>4. QED
          BY <4>1, <4>3 DEF Fwdrs
      <3>4. QED
        BY <3>1, <3>2, <3>3
    <2>9. Quiet'
      BY <1>7, <2>7, <2>8 DEF Quiet
    <2>10. QED
      BY <1>5, <2>3, <2>9 DEF ListInv
  <1>8. QED
    BY <1>6, <1>7

\* A step of the first loop of init.
LEMMA ChoosingKeepsList ==
    ASSUME TypeOK, ListInv, NEW p \in Procs, InitPri(p)
    PROVE  ListInv'
  <1> DEFINE stop == Enabled(scan) \/ scan = N
  <1>0. Frame(p) /\ scan \in Fwdrs /\ N \in Fwdrs
    BY StepFrame DEF CallStep, TypeOK, SharedOK, Fwdrs
  <1>1. /\ pc[p] \in {"pri1", "pri2"} /\ cur'[p] = cur[p] /\ disabled' = disabled
        /\ priority' = IF Enabled(scan) THEN Pri[scan] ELSE priority
        /\ scan' = IF stop THEN 1 ELSE scan + 1
        /\ avail' = IF stop THEN <<>> ELSE avail
        /\ pc'[p] = IF stop THEN IF pc[p] = "pri1" THEN "fill1" ELSE "fill2" ELSE pc[p]
    BY DEF InitPri, Goto, shared, TypeOK, LocalsOK
  <1>2. \A q \in Procs : q # p => pc[q] \notin InInit /\ pc'[q] \notin InInit
    BY <1>0, <1>1 DEF ListInv, Mutex, InInit, Frame
  <1>3. pc'[p] \in InInit
    BY <1>1 DEF InInit
  <1>4. Mutex' /\ Quiet'
    BY <1>2, <1>3 DEF Mutex, Quiet, Locked
  <1>5. \A g \in Fwdrs : (Loose(g)' <=> Loose(g)) /\ (Enabled(g)' <=> Enabled(g))
    BY <1>0, <1>1, <1>2, <1>3 DEF Loose, Enabled, Pending, Frame, InInit
  <1>6. \A g \in Fwdrs : g < scan => ~Loose(g)
    BY <1>1 DEF ListInv, Choosing
  <1>7. \A g \in Fwdrs : Pri[g] \in Nat /\ Pri[g] <= Pri[1]
    BY DEF Fwdrs
  <1>8. priority' <= Pri[1]
    BY <1>0, <1>1, <1>7 DEF ListInv
  <1>9. CASE ~stop
    <2>1. \A g \in Fwdrs : g < scan + 1 => ~Loose(g)
      BY <1>0, <1>6, <1>9 DEF Loose, Fwdrs
    <2>2. Choosing'
      BY <1>1, <1>5, <1>9, <2>1 DEF Choosing
    <2>3. Filling'
      BY <1>1, <1>2, <1>9 DEF Filling, InInit
    <2>4. QED
      BY <1>4, <1>8, <2>2, <2>3 DEF ListInv
  <1>10. CASE stop
    <2>1. Choosing'
      BY <1>1, <1>2, <1>10 DEF Choosing, InInit
    <2>2. NoneLower'
      BY <1>1, <1>10 DEF NoneLower
    <2>3. scan' = 1 /\ \A g \in Fwdrs : ~(g < 1)
      BY <1>1, <1>10 DEF Fwdrs
    <2>4. CASE Enabled(scan)
      <3>1. \A g \in Fwdrs : Loose(g) => Pri[g] <= Pri[scan]
        <4>1. \A g \in Fwdrs : Loose(g) => g >= scan
          BY <1>0, <1>6 DEF Fwdrs
        <4>2. QED
          BY <1>0, <1>7, <4>1 DEF Fwdrs
      <3>2. PICK f \in Fwdrs : f = scan
        BY <1>0
      <3>3. Pri[f] = priority' /\ Enabled(f)'
        BY <1>1, <1>5, <2>4, <3>2
      <3>4. Filling'
        BY <1>5, <2>2, <2>3, <3>1, <3>2, <3>3 DEF Filling
      <3>5. QED
        BY <1>4, <1>8, <2>1, <3>4 DEF ListInv
    <2>5. CASE ~Enabled(scan)
      <3>1. \A g \in Fwdrs : ~Loose(g)
        BY <1>0, <1>6, <1>10, <2>5 DEF Loose, Fwdrs
      <3>2. Filling'
        BY <1>5, <2>2, <3>1 DEF Filling
      <3>3. QED
        BY <1>4, <1>8, <2>1, <3>2 DEF ListInv
    <2>6. QED
      BY <2>4, <2>5
  <1>11. QED
    BY <1>9, <1>10

\* A step of the second loop of init, and the end of the handler after it.
LEMMA FillingKeepsList ==
    ASSUME TypeOK, ListInv, NEW p \in Procs, InitFill(p)
    PROVE  ListInv'
  <1>f. PICK f \in Fwdrs : f = scan
    BY DEF TypeOK, SharedOK
  <1> DEFINE last == f = N
             none == avail' = <<>>
             take == Enabled(f) /\ Pri[f] >= priority
  <1>0. Frame(p) /\ avail \in Seq(Fwdrs) /\ priority \in Nat
    BY StepFrame DEF CallStep, TypeOK, SharedOK
  <1>1. /\ pc[p] \in {"fill1", "fill2"} /\ disabled' = disabled
        /\ avail' = IF take THEN Append(avail, f) ELSE avail
        /\ priority' = IF last /\ none THEN 0 ELSE priority
        /\ scan' = IF last THEN 1 ELSE f + 1
        /\ IF ~last THEN Goto(p, pc[p])
           ELSE IF none /\ pc[p] = "fill1" THEN Goto(p, "pri2")
           ELSE HandlerReturn(p)
    BY <1>f DEF InitFill, PriorityWhenEmpty, shared
  <1>2. \A q \in Procs : q # p => pc[q] \notin InInit /\ pc'[q] \notin InInit
    BY <1>0, <1>1 DEF ListInv, Mutex, InInit, Frame
  <1>3. pc'[p] # "lock"
    <2>1. CASE HandlerReturn(p)
      BY <2>1, ReturnAside DEF InHandler
    <2>2. CASE Goto(p, pc[p]) \/ Goto(p, "pri2")
      BY <1>1, <2>2 DEF Goto, TypeOK, LocalsOK
    <2>3. QED
      BY <1>1, <2>1, <2>2
  <1> HIDE DEF last, none, take
  <1>4. \A g \in Fwdrs : Pending(g)' <=> Pending(g)
    BY <1>0, <1>1, <1>3 DEF Pending, Frame
  <1>5. \A g \in Fwdrs : (Loose(g)' <=> Loose(g)) /\ (Enabled(g)' <=> Enabled(g))
    BY <1>1, <1>4 DEF Loose, Enabled
  <1>6. /\ NoneLower
        /\ \A g \in Fwdrs : Loose(g) =>
              Pri[g] <= priority /\ (Pri[g] = priority /\ g < f => Listed(g))
        /\ \/ \A g \in Fwdrs : ~Loose(g)
           \/ \E g \in Fwdrs : Pri[g] = priority /\ (Enabled(g) \/ Pending(g))
    BY <1>f, <1>1 DEF ListInv, Filling
  <1>7. \A g \in Fwdrs : Pri[g] \in Nat
    OBVIOUS
  <1>8. priority' <= Pri[1]
    BY <1>1 DEF ListInv, Fwdrs
  <1>9. \A i \in DOMAIN avail' : Pri[avail'[i]] >= priority
    <2>1. SUFFICES ASSUME NEW i \in DOMAIN avail' PROVE Pri[avail'[i]] >= priority
      OBVIOUS
    <2>2. CASE i \in DOMAIN avail /\ avail'[i] = avail[i]
      BY <1>6, <2>2 DEF NoneLower
    <2>3. CASE take /\ i = Len(avail) + 1
      BY <1>0, <1>1, <2>3 DEF take
    <2>4. QED
      BY <1>0, <1>1, <2>2, <2>3
  <1>10. ASSUME NEW g \in Fwdrs, Loose(g), Pri[g] = priority, g <= f
         PROVE  Listed(g)'
    <2>1. CASE g < f
      <3>1. PICK i \in DOMAIN avail : avail[i] = g
        BY <1>6, <1>10, <2>1 DEF Listed
      <3>2. i \in DOMAIN avail' /\ avail'[i] = g
        BY <1>0, <1>1, <3>1
      <3>3. QED
        BY <3>2 DEF Listed
    <2>2. CASE g = f
      <3>1. avail' = Append(avail, g)
        BY <1>0, <1>1, <1>10, <2>2 DEF take, Loose
      <3>2. Len(avail) + 1 \in DOMAIN avail' /\ avail'[Len(avail) + 1] = g
        BY <1>0, <3>1
      <3>3. QED
        BY <3>2 DEF Listed
    <2>3. QED
      BY <1>10, <2>1, <2>2 DEF Fwdrs
  <1>11. CASE ~last
    <2>1. pc'[p] = pc[p] /\ scan' = f + 1 /\ priority' = priority
      BY <1>1, <1>11 DEF Goto, TypeOK, LocalsOK
    <2>2. Mutex' /\ Quiet' /\ Choosing'
      BY <1>1, <1>2, <2>1 DEF Mutex, Quiet, Locked, Choosing, InInit
    <2>3. \A g \in Fwdrs : g < f + 1 => g <= f
      BY DEF Fwdrs
    <2>4. Filling'
      BY <1>4, <1>5, <1>6, <1>9, <1>10, <2>1, <2>3 DEF Filling, NoneLower
    <2>5. QED
      BY <1>8, <2>2, <2>4 DEF ListInv
  <1>12. CASE last /\ none /\ pc[p] = "fill1"
    <2>1. pc'[p] = "pri2" /\ scan' = 1
      BY <1>1, <1>12 DEF Goto, TypeOK, LocalsOK
    <2>2. Mutex' /\ Quiet' /\ Filling'
      BY <1>2, <2>1 DEF Mutex, Quiet, Locked, Filling, InInit
    <2>3. Choosing'
      BY <2>1 DEF Choosing, Fwdrs
    <2>4. QED
      BY <1>8, <2>2, <2>3 DEF ListInv
  <1>13. CASE last /\ ~(none /\ pc[p] = "fill1")
    <2>1. \A q \in Procs : pc'[q] \notin InInit
      BY <1>1, <1>2, <1>13, ReturnAside DEF InHandler
    <2>2. Mutex' /\ Choosing' /\ Filling'
      BY <2>1 DEF Mutex, Choosing, Filling, InInit
    <2>3. \A g \in Fwdrs : g <= f
      BY <1>13 DEF Fwdrs, last
    <2>4. CASE none
      <3>1. priority' = 0 /\ avail' = <<>> /\ NoneLower'
        BY <1>1, <1>13, <2>4 DEF NoneLower, none
      <3>2. \A g \in Fwdrs : ~Listed(g)'
        BY <3>1 DEF Listed
      <3>3. ASSUME NEW g \in Fwdrs, Loose(g)
            PROVE  Pri[g] < Pri[1] /\ \E k \in Fwdrs : Pending(k)
        <4>1. Pri[g] < priority
          BY <1>0, <1>6, <1>7, <1>10, <2>3, <3>2, <3>3
        <4>2. Pri[g] < Pri[1]
          BY <1>0, <1>7, <4>1 DEF ListInv, Fwdrs
        <4>3. PICK h \in Fwdrs : Pri[h] = priority /\ (Enabled(h) \/ Pending(h))
          BY <1>6, <3>3
        <4>4. ~Loose(h)
          BY <1>10, <2>3, <3>2, <4>3
        <4>5. QED
          BY <4>2, <4>3, <4>4 DEF Loose
      <3>4. Quiet'
        BY <1>4, <1>5, <3>1, <3>3 DEF Quiet
      <3>5. QED
        BY <1>8, <2>2, <3>4 DEF ListInv
    <2>5. CASE ~none
      <3>1. priority' = priority /\ avail' # <<>>
        BY <1>1, <2>5 DEF none
      <3>2. ASSUME NEW g \in Fwdrs, Loose(g)' PROVE Placed(g)'
        BY <1>5, <1>6, <1>10, <2>3, <3>1, <3>2 DEF Placed
      <3>3. Quiet'
        BY <1>9, <3>1, <3>2 DEF Quiet, NoneLower
      <3>4. QED
        BY <1>8, <2>2, <3>3 DEF ListInv
    <2>6. QED
      BY <2>4, <2>5
  <1>14. QED
    BY <1>11, <1>12, <1>13

\* The steps that never touch the list.
LEMMA OtherStepsKeepList ==
    ASSUME TypeOK, ListInv, NEW p \in Procs,
           \/ CallStep(p) /\ ~OnStatusChanged(p) /\ ~InitPri(p) /\ ~InitFill(p)
           \/ p \in Clients /\ ClientStep(p)
           \/ p \in Fwdrs /\ CheckerStep(p)
    PROVE  ListInv'
  <1>0. Frame(p) /\ ret[p] \in ClientPC \cup CheckerPC
    BY StepFrame DEF TypeOK, LocalsOK
  <1>a. ret[p] \notin InHandler
    BY <1>0 DEF ClientPC, CheckerPC, InHandler, InInit
  <1> USE DEF TypeOK, LocalsOK, shared, group
  <1>1. CASE IncAdd(p) \/ IncTest(p) \/ EnableStore(p)
    <2>1. UNCHANGED <<disabled, avail, priority, scan>> /\ pc[p] \notin InHandler
      BY <1>1 DEF IncAdd, IncTest, EnableStore, InHandler, InInit
    <2>2. pc'[p] \in {"incTest", "disable", ret[p]}
      BY <1>1 DEF IncAdd, IncTest, EnableStore, Goto, Return
    <2>3. pc'[p] \notin InHandler
      BY <1>a, <2>2 DEF InHandler, InInit
    <2>4. QED
      BY <1>0, <2>1, <2>3, CallsAside
  <1>2. CASE EnableSwap(p) \/ DisableSwap(p)
    <2>1. UNCHANGED <<avail, priority, scan>> /\ pc[p] \notin InHandler
      BY <1>2 DEF EnableSwap, DisableSwap, InHandler, InInit
    <2>2. CASE disabled' = disabled /\ pc'[p] \in {"store", ret[p]}
      <3>1. pc'[p] \notin InHandler
        BY <1>a, <2>2 DEF InHandler, InInit
      <3>2. QED
        BY <1>0, <2>1, <2>2, <3>1, CallsAside
    <2>3. CASE /\ pc'[p] = "lock" /\ cur'[p] = cur[p]
               /\ \A f \in Fwdrs \ {cur[p]} : disabled'[f] = disabled[f]
      BY <1>0, <2>1, <2>3, SwapAside
    <2>4. (disabled' = disabled /\ pc'[p] \in {"store", ret[p]})
          \/ (/\ pc'[p] = "lock" /\ cur'[p] = cur[p]
              /\ \A f \in Fwdrs \ {cur[p]} : disabled'[f] = disabled[f])
      <3>1. disabled \in [Fwdrs -> BOOLEAN]
        BY DEF SharedOK
      <3>2. CASE EnableSwap(p)
        BY <3>1, <3>2 DEF EnableSwap, Handle, Goto
      <3>3. CASE DisableSwap(p)
        BY <3>1, <3>3 DEF DisableSwap, Handle, Return
      <3>4. QED
        BY <1>2, <3>2, <3>3
    <2>5. QED
      BY <2>2, <2>3, <2>4
  <1>3. CASE p \in Clients /\ ClientStep(p)
    <2>1. /\ UNCHANGED <<disabled, avail, priority, scan>>
          /\ pc[p] \in ClientPC
          /\ pc'[p] \in {"idle", "dial", "relay", "inc", "enable"}
      BY <1>3 DEF ClientStep, NextDialer, DialErr, DialOk, DialUDP, RecordFailure,
                  RelayEnd, Hangup, Goto, Call, ClientPC
    <2>2. QED
      BY <1>0, <2>1, CallsAside DEF ClientPC, InHandler, InInit
  <1>4. CASE p \in Fwdrs /\ CheckerStep(p)
    <2>1. /\ UNCHANGED <<disabled, avail, priority, scan>>
          /\ pc[p] \in CheckerPC
          /\ pc'[p] \in {"check", "failed", "inc", "enable", "disable"}
      BY <1>4 DEF CheckerStep, CheckStart, CheckDialErr, CheckErr, CheckFailed,
                  CheckNotSupported, CheckOk, Goto, Call, CheckerPC
    <2>2. QED
      BY <1>0, <2>1, CallsAside DEF CheckerPC, InHandler, InInit
  <1>5. QED
    BY <1>1, <1>2, <1>3, <1>4 DEF CallStep

\* Initially nothing is enabled.
LEMMA InitList == Init => ListInv
  <1> SUFFICES ASSUME Init PROVE ListInv
    OBVIOUS
  <1>1. \A p \in Procs : pc[p] \in {"idle", "sleep", "done"}
    BY DEF Init
  <1>2. Mutex /\ Choosing /\ Filling
    BY <1>1 DEF Mutex, Choosing, Filling, InInit
  <1>3. \A f \in Fwdrs : ~Loose(f)
    BY DEF Init, DisabledByDefault, Loose, Enabled
  <1>4. Quiet
    BY <1>3 DEF Init, Quiet, NoneLower
  <1>5. priority <= Pri[1]
    BY DEF Init, Fwdrs
  <1>6. QED
    BY <1>2, <1>4, <1>5 DEF ListInv

\* Every step keeps the invariant of the list.
LEMMA NextList ==
    ASSUME TypeOK, ListInv, ZeroOnlyBelowTop, [Next]_vars
    PROVE  ListInv'
  <1>1. CASE \E p \in Procs : CallStep(p)
    BY <1>1, HandlerKeepsList, ChoosingKeepsList, FillingKeepsList, OtherStepsKeepList
  <1>2. CASE \E c \in Clients : ClientStep(c)
    BY <1>2, OtherStepsKeepList DEF Procs
  <1>3. CASE \E f \in Fwdrs : CheckerStep(f)
    BY <1>3, OtherStepsKeepList DEF Procs
  <1>4. CASE UNCHANGED vars
    BY <1>4 DEF vars, ListInv, Mutex, Quiet, Choosing, Filling, NoneLower, Locked,
                Loose, Pending, Listed, Placed, Enabled
  <1>5. QED
    BY <1>1, <1>2, <1>3, <1>4 DEF Next

\* Once the handlers have run the invariant says what clients rely on.
LEMMA SettledList ==
    ASSUME TypeOK, ListInv
    PROVE  NoneForgotten /\ PriorityRespected
  <1> SUFFICES ASSUME Settled PROVE NoneForgotten /\ PriorityRespected
    BY DEF NoneForgotten, PriorityRespected
  <1>1. ~Locked /\ \A f \in Fwdrs : ~Pending(f)
    BY DEF Settled, Locked, Pending, InHandler
  <1>2. \A f \in Fwdrs : Enabled(f) => avail # <<>> /\ Placed(f)
    BY <1>1 DEF ListInv, Quiet, Loose
  <1>3. priority \in Nat /\ \A f \in Fwdrs : Pri[f] \in Nat
    BY DEF TypeOK, SharedOK
  <1>4. \A i \in DOMAIN avail : avail[i] \in Fwdrs
    BY DEF TypeOK, SharedOK
  <1>5. NoneForgotten
    BY <1>2, <1>3 DEF NoneForgotten, Placed, Listed
  <1>6. \A i \in DOMAIN avail : \A f \in Fwdrs : Enabled(f) => Pri[f] <= Pri[avail[i]]
    BY <1>1, <1>2, <1>3, <1>4 DEF ListInv, Quiet, NoneLower, Placed
  <1>7. avail = <<>> => priority = 0 /\ \A f \in Fwdrs : disabled[f]
    BY <1>1, <1>2 DEF ListInv, Quiet, Enabled
  <1>8. QED
    BY <1>5, <1>6, <1>7 DEF PriorityRespected

\* In a group where a forwarder of priority 0 has no others below the highest
\* priority beside it, the list is complete and of the highest priority once
\* the handlers have run, whatever init read while goroutines swapped flags.
THEOREM ListHolds ==
    ASSUME ZeroOnlyBelowTop
    PROVE  Spec => [](NoneForgotten /\ PriorityRespected)
  <1>1. TypeOK /\ ListInv /\ [Next]_vars => ListInv'
    BY NextList
  <1>2. TypeOK /\ ListInv => NoneForgotten /\ PriorityRespected
    BY SettledList
  <1>3. QED
    BY InitList, TypeCorrect, <1>1, <1>2, PTL DEF Spec

\* NextDialer's list misses no enabled forwarder of the group's priority or
\* above once the handlers have run.
THEOREM NoneForgottenHolds ==
    ASSUME ZeroOnlyBelowTop
    PROVE  Spec => []NoneForgotten
  BY ListHolds, PTL

\* Whatever NextDialer picks has no enabled forwarder of a higher priority
\* above it, and an empty list means that none is enabled.
THEOREM PriorityRespectedHolds ==
    ASSUME ZeroOnlyBelowTop
    PROVE  Spec => []PriorityRespected
  BY ListHolds, PTL

=============================================================================
