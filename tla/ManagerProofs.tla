--------------------------- MODULE ManagerProofs ---------------------------
(***************************************************************************)
(* The process manager implements OneProcess for any number of callers and *)
(* of processes, and what its Status and a Stop that returns nil say holds. *)
(***************************************************************************)
EXTENDS Guicore, TLAPS

USE ManagerAssumption

\* The process of the manager, its waiting goroutine and its mutex-protected
\* fields agree: only the last process is waited for, and only while the
\* manager holds it; its goroutine leaves "wait" after its end.
Agree ==
    /\ ~running <=> cmd = 0
    /\ running => cmd = launched
    /\ \A i \in Runs : i > launched => waiter[i] = "none"
    /\ \A i \in Runs : waiter[i] \in {"wait", "close", "lock"} => i = cmd
    /\ \A i \in Runs : i = cmd => waiter[i] \in {"wait", "close", "lock"}
    /\ \A i \in alive : waiter[i] = "wait"
    /\ \A i \in done : waiter[i] = "over"

\* Every variable keeps its type.
LEMMA TypeStep ==
    ASSUME TypeOK, [ManagerNext]_managerVars
    PROVE  TypeOK'
  <1> USE DEF TypeOK, status, world, calls
  <1>a. Runs \subseteq 0..MaxRuns /\ 0 \in 0..MaxRuns
    BY DEF Runs
  <1>1. ASSUME NEW c \in Callers, Start(c)
        PROVE  TypeOK'
    <2>1. launched + 1 \in Runs
      BY <1>1 DEF Start, Runs
    <2>2. launched' \in 0..MaxRuns /\ cmd' \in 0..MaxRuns
      BY <1>1, <2>1, <1>a DEF Start
    <2>3. waiter' \in [Runs -> WaiterPC]
      BY <1>1, <2>1 DEF Start, WaiterPC
    <2>4. QED
      BY <1>1, <2>1, <2>2, <2>3 DEF Start
  <1>2. ASSUME NEW c \in Callers, StopBegin(c)
        PROVE  TypeOK'
    <2>1. cmd \in Runs
      BY <1>2 DEF StopBegin, Runs
    <2>2. pc' \in [Callers -> CallerPC] /\ tgt' \in [Callers -> 0..MaxRuns]
      BY <1>2 DEF StopBegin, CallerPC
    <2>3. QED
      BY <1>2, <2>1, <2>2 DEF StopBegin
  <1>3. ASSUME NEW c \in Callers, StopStep(c)
        PROVE  TypeOK'
    <2>1. pc' \in [Callers -> CallerPC]
      BY <1>3 DEF StopStep, Interrupt, StopReturn, StopTimeout, Kill, KillErr,
                  CallerGoto, CallerPC
    <2>2. tgt' \in [Callers -> 0..MaxRuns]
      BY <1>3, <1>a DEF StopStep, Interrupt, StopReturn, StopTimeout, Kill,
                        KillErr, CallerGoto
    <2>3. doomed' \subseteq Runs
      BY <1>3 DEF StopStep, Interrupt, StopReturn, StopTimeout, Kill, KillErr,
                  CallerGoto, Killed
    <2>4. UNCHANGED <<launched, alive, crashed, status, done, log, waiter, asked>>
      BY <1>3 DEF StopStep, Interrupt, StopReturn, StopTimeout, Kill, KillErr,
                  CallerGoto
    <2>5. QED
      BY <2>1, <2>2, <2>3, <2>4
  <1>4. ASSUME NEW i \in Runs, Exit(i)
        PROVE  TypeOK'
    BY <1>4 DEF Exit
  <1>5. ASSUME NEW i \in Runs, WaitReturn(i) \/ WaitClose(i)
        PROVE  TypeOK'
    BY <1>5 DEF WaitReturn, WaitClose, WaiterPC
  <1>6. ASSUME NEW i \in Runs, WaitClear(i)
        PROVE  TypeOK'
    <2>1. waiter' \in [Runs -> WaiterPC] /\ done' \subseteq Runs
      BY <1>6 DEF WaitClear, WaiterPC
    <2>2. cmd' \in 0..MaxRuns
      BY <1>6, <1>a DEF WaitClear
    <2>3. running' \in BOOLEAN /\ exitError' \in BOOLEAN /\ stopping' \in BOOLEAN
      BY <1>6 DEF WaitClear, IsError
    <2>4. QED
      BY <1>6, <2>1, <2>2, <2>3 DEF WaitClear
  <1>7. CASE RotateErr
    BY <1>7 DEF RotateErr
  <1>8. CASE UNCHANGED managerVars
    BY <1>8 DEF managerVars
  <1>9. QED
    BY <1>1, <1>2, <1>3, <1>4, <1>5, <1>6, <1>7, <1>8
       DEF ManagerNext, CallerStep, ProcessStep, WaitStep

\* Type correctness.
THEOREM TypeCorrect == ManagerSpec => []TypeOK
  <1>1. ManagerInit => TypeOK
    <2>1. 0 \in 0..MaxRuns
      OBVIOUS
    <2>2. ManagerInit => waiter \in [Runs -> WaiterPC]
      BY DEF ManagerInit, WaiterPC
    <2>3. ManagerInit => pc \in [Callers -> CallerPC] /\ tgt \in [Callers -> 0..MaxRuns]
      BY <2>1 DEF ManagerInit, CallerPC
    <2>4. ManagerInit => running \in BOOLEAN /\ exitError \in BOOLEAN /\ stopping \in BOOLEAN
      BY Zenon DEF ManagerInit
    <2>5. QED
      BY <2>1, <2>2, <2>3, <2>4 DEF ManagerInit, TypeOK
  <1>2. QED
    BY <1>1, TypeStep, PTL DEF ManagerSpec

\* Every step keeps the manager and the goroutines in agreement.
LEMMA AgreeStep ==
    ASSUME TypeOK, Agree, [ManagerNext]_managerVars
    PROVE  Agree'
  <1> USE DEF TypeOK, Agree, status, world, calls
  <1>1. ASSUME NEW c \in Callers, Start(c)
        PROVE  Agree'
    <2>1. /\ launched \in Nat /\ launched + 1 \in Runs
          /\ launched' = launched + 1 /\ cmd' = launched + 1 /\ running'
          /\ alive' = alive \cup {launched + 1}
          /\ waiter' = [waiter EXCEPT ![launched + 1] = "wait"]
          /\ done' = done
          /\ cmd = 0
      BY <1>1 DEF Start, CanStart, Runs
    <2>2. waiter[launched + 1] = "none"
      BY <2>1
    <2>3. \A i \in Runs : waiter'[i] = IF i = launched + 1 THEN "wait" ELSE waiter[i]
      BY <2>1
    <2>4. \A i \in Runs : i \in Nat /\ i # 0
      BY DEF Runs
    <2>5. (~running <=> cmd = 0)' /\ (running => cmd = launched)'
      BY <2>1
    <2>6. \A i \in Runs : i > launched' => waiter'[i] = "none"
      BY <2>1, <2>3, <2>4
    <2>7. \A i \in Runs : waiter'[i] \in {"wait", "close", "lock"} <=> i = cmd'
      BY <2>1, <2>3, <2>4
    <2>8. \A i \in alive' : waiter'[i] = "wait"
      BY <2>1, <2>3
    <2>9. \A i \in done' : waiter'[i] = "over"
      BY <2>1, <2>2, <2>3
    <2>10. QED
      BY <2>5, <2>6, <2>7, <2>8, <2>9
  <1>2. ASSUME NEW c \in Callers, StopBegin(c) \/ StopStep(c)
        PROVE  Agree'
    <2>1. UNCHANGED <<launched, alive, running, cmd, done, waiter>>
      BY <1>2 DEF StopBegin, StopStep, Interrupt, StopReturn, StopTimeout,
                  Kill, KillErr, CallerGoto
    <2>2. QED
      BY <2>1
  <1>3. ASSUME NEW i \in Runs, Exit(i)
        PROVE  Agree'
    BY <1>3 DEF Exit
  <1>4. ASSUME NEW i \in Runs, WaitReturn(i) \/ WaitClose(i)
        PROVE  Agree'
    BY <1>4 DEF WaitReturn, WaitClose
  <1>5. ASSUME NEW i \in Runs, WaitClear(i)
        PROVE  Agree'
    <2>1. cmd = i /\ i # 0 /\ i \notin alive
      BY <1>5 DEF WaitClear, Runs
    <2>2. /\ cmd' = 0 /\ ~running' /\ done' = done \cup {i}
          /\ waiter' = [waiter EXCEPT ![i] = "over"]
          /\ UNCHANGED <<launched, alive>>
      BY <1>5, <2>1 DEF WaitClear
    <2>3. \A j \in Runs : waiter'[j] = IF j = i THEN "over" ELSE waiter[j]
      BY <2>2
    <2>4. \A j \in Runs : j # 0
      BY DEF Runs
    <2>5. QED
      BY <2>1, <2>2, <2>3, <2>4
  <1>6. CASE RotateErr
    BY <1>6 DEF RotateErr
  <1>7. CASE UNCHANGED managerVars
    BY <1>7 DEF managerVars
  <1>8. QED
    BY <1>1, <1>2, <1>3, <1>4, <1>5, <1>6, <1>7
       DEF ManagerNext, CallerStep, ProcessStep, WaitStep

\* The agreement holds throughout.
LEMMA AgreeHolds == ManagerSpec => []Agree
  <1>1. ManagerInit => Agree
    BY DEF ManagerInit, Agree, Runs
  <1>2. QED
    BY <1>1, AgreeStep, TypeCorrect, PTL DEF ManagerSpec

\* There are never two live processes.
THEOREM OneAliveHolds == ManagerSpec => []OneAlive
  <1>1. TypeOK /\ Agree => OneAlive
    BY DEF TypeOK, Agree, OneAlive
  <1>2. QED
    BY <1>1, TypeCorrect, AgreeHolds, PTL

\* The one process that can be alive, as OneProcess sees it.
LEMMA LiveIs ==
    TypeOK /\ Agree => /\ alive \subseteq {cmd}
                       /\ Live = IF alive = {} THEN 0 ELSE cmd
                       /\ 0 \notin alive
  <1> SUFFICES ASSUME TypeOK, Agree
               PROVE  /\ alive \subseteq {cmd}
                      /\ Live = IF alive = {} THEN 0 ELSE cmd
                      /\ 0 \notin alive
    OBVIOUS
  <1>1. alive \subseteq {cmd}
    BY DEF TypeOK, Agree
  <1>2. 0 \notin alive
    BY DEF TypeOK, Runs
  <1>3. CASE alive = {}
    BY <1>2, <1>3 DEF Live
  <1>4. CASE alive # {}
    <2>1. alive = {cmd}
      BY <1>1, <1>4
    <2>2. (CHOOSE i \in alive : TRUE) \in alive
      BY <1>4
    <2>3. Live = cmd
      BY <1>4, <2>1, <2>2 DEF Live
    <2>4. QED
      BY <1>2, <1>4, <2>1, <2>3
  <1>5. QED
    BY <1>1, <1>3, <1>4

\* Each step of the manager is a step of OneProcess or none at all.
LEMMA SlotStep ==
    ASSUME TypeOK, Agree, [ManagerNext]_managerVars, TypeOK', Agree'
    PROVE  [Slot!Next]_<<Live, Shown>>
  <1> USE DEF status, world, calls
  <1>l. /\ alive \subseteq {cmd}
        /\ Live = IF alive = {} THEN 0 ELSE cmd
        /\ 0 \notin alive
    BY LiveIs
  <1>m. /\ alive' \subseteq {cmd'}
        /\ Live' = IF alive' = {} THEN 0 ELSE cmd'
        /\ 0 \notin alive'
    <2>1. alive' \subseteq {cmd'}
      BY DEF TypeOK, Agree
    <2>2. 0 \notin alive'
      BY DEF TypeOK, Runs
    <2>3. alive' # {} => alive' = {cmd'}
      BY <2>1
    <2>4. alive' # {} => (CHOOSE i \in alive' : TRUE) \in alive'
      OBVIOUS
    <2>5. Live' = IF alive' = {} THEN 0 ELSE CHOOSE i \in alive' : TRUE
      BY DEF Live
    <2>6. QED
      BY <2>1, <2>2, <2>3, <2>4, <2>5
  <1>1. ASSUME NEW c \in Callers, Start(c)
        PROVE  Slot!Launch
    <2>1. ~running /\ cmd = 0 /\ running' /\ cmd' = launched + 1
      BY <1>1 DEF Start, CanStart, Agree
    <2>2. alive = {} /\ alive' # {}
      BY <1>1, <1>l, <2>1 DEF Start
    <2>3. launched + 1 \in Nat \ {0}
      BY DEF TypeOK
    <2>4. Live = 0 /\ Shown = 0 /\ Live' = cmd' /\ Shown' = cmd'
      BY <1>l, <1>m, <2>1, <2>2 DEF Shown
    <2>5. QED
      BY <2>1, <2>3, <2>4 DEF Slot!Launch
  <1>2. ASSUME NEW i \in Runs, Exit(i)
        PROVE  Slot!Exit
    <2>1. alive = {cmd} /\ alive' = {} /\ UNCHANGED <<running, cmd>>
      BY <1>2, <1>l DEF Exit
    <2>2. cmd # 0
      BY <2>1, <1>l
    <2>3. Live = cmd /\ Live' = 0 /\ Shown' = Shown
      BY <1>l, <1>m, <2>1 DEF Shown
    <2>4. QED
      BY <2>2, <2>3 DEF Slot!Exit
  <1>3. ASSUME NEW i \in Runs, WaitClear(i)
        PROVE  Slot!Notice
    <2>1. cmd = i /\ i # 0 /\ running /\ ~running' /\ alive' = alive
      BY <1>3 DEF WaitClear, Agree, Runs
    <2>2. alive = {}
      BY <1>3, <1>l, <2>1 DEF WaitClear, Agree
    <2>3. Live = 0 /\ Live' = 0 /\ Shown = i /\ Shown' = 0
      BY <1>l, <1>m, <2>1, <2>2 DEF Shown
    <2>4. QED
      BY <2>1, <2>3 DEF Slot!Notice
  <1>4. ASSUME UNCHANGED <<alive, running, cmd>>
        PROVE  UNCHANGED <<Live, Shown>>
    BY <1>4, <1>l, <1>m DEF Shown
  <1>5. ASSUME NEW c \in Callers, StopBegin(c) \/ StopStep(c)
        PROVE  UNCHANGED <<alive, running, cmd>>
    BY <1>5 DEF StopBegin, StopStep, Interrupt, StopReturn, StopTimeout, Kill,
                KillErr, CallerGoto
  <1>6. ASSUME NEW i \in Runs, WaitReturn(i) \/ WaitClose(i)
        PROVE  UNCHANGED <<alive, running, cmd>>
    BY <1>6 DEF WaitReturn, WaitClose
  <1>7. CASE RotateErr
    BY <1>4, <1>7 DEF RotateErr
  <1>8. CASE UNCHANGED managerVars
    BY <1>4, <1>8 DEF managerVars
  <1>9. QED
    BY <1>1, <1>2, <1>3, <1>4, <1>5, <1>6, <1>7, <1>8
       DEF ManagerNext, CallerStep, ProcessStep, WaitStep, Slot!Next

\* The manager implements OneProcess: a process is launched only when none is
\* alive, and Status reports it from its launch until after its end.
THEOREM ManagerImplements == ManagerSpec => RunsOneProcess
  <1>1. ManagerInit => Slot!Init
    BY DEF ManagerInit, Slot!Init, Live, Shown
  <1>2. TypeOK /\ Agree /\ [ManagerNext]_managerVars /\ TypeOK' /\ Agree'
          => [Slot!Next]_<<Live, Shown>>
    BY SlotStep
  <1>3. QED
    BY <1>1, <1>2, TypeCorrect, AgreeHolds, PTL DEF ManagerSpec, RunsOneProcess, Slot!Spec

\* A Stop that returns nil has seen its process end, and Status too.
THEOREM StopMeansStoppedHolds == ManagerSpec => StopMeansStopped
  <1>1. TypeOK /\ Agree /\ [ManagerNext]_managerVars
          => [\A c \in Callers :
                 pc[c] \in {"select", "await"} /\ pc'[c] = "idle"
                     => tgt[c] \notin alive' /\ (running' => cmd' # tgt[c])]_managerVars
    <2> SUFFICES ASSUME TypeOK, Agree, ManagerNext, NEW c \in Callers,
                        pc[c] \in {"select", "await"}, pc'[c] = "idle"
                 PROVE  tgt[c] \notin alive' /\ (running' => cmd' # tgt[c])
      BY DEF managerVars
    <2> USE DEF status, world, calls
    <2>1. pc' # pc
      OBVIOUS
    <2>2. PICK d \in Callers : CallerStep(d)
      BY <2>1 DEF ManagerNext, ProcessStep, Exit, WaitStep, WaitReturn, WaitClose,
                  WaitClear, RotateErr
    <2>3. StopReturn(c)
      BY <2>2 DEF CallerStep, Start, StopBegin, StopStep, Interrupt, StopReturn,
                  StopTimeout, Kill, KillErr, CallerGoto, TypeOK
    <2>4. tgt[c] \in done /\ UNCHANGED <<alive, running, cmd>>
      BY <2>3 DEF StopReturn
    <2>5. tgt[c] \in Runs /\ waiter[tgt[c]] = "over"
      BY <2>4 DEF Agree, TypeOK
    <2>6. QED
      BY <2>4, <2>5 DEF Agree
  <1>2. QED
    BY <1>1, TypeCorrect, AgreeHolds, PTL DEF ManagerSpec, StopMeansStopped

\* What the status and the log depend on: "stopping" stands for a Stop of the
\* present process, the log is open until its goroutine closes it, and the
\* status of a process that has ended is final.
Account ==
    /\ \A i \in alive : i \notin crashed
    /\ \A i \in crashed \cup asked : i <= launched
    /\ running => (stopping <=> cmd \in asked)
    /\ LogStaysOpen
    /\ ErrorReported

\* Every step keeps the account.
LEMMA AccountStep ==
    ASSUME TypeOK, Agree, Account, [ManagerNext]_managerVars
    PROVE  Account'
  <1> USE DEF TypeOK, Agree, Account, LogStaysOpen, ErrorReported, status, world, calls
  <1>r. \A i \in Runs : i \in Nat /\ i # 0
    BY DEF Runs
  <1>1. ASSUME NEW c \in Callers, Start(c)
        PROVE  Account'
    <2>1. /\ launched \in Nat /\ running' /\ ~stopping' /\ log' = "open"
          /\ launched' = launched + 1 /\ cmd' = launched + 1
          /\ alive' = alive \cup {launched + 1}
          /\ UNCHANGED <<crashed, asked>>
      BY <1>1 DEF Start
    <2>2. launched + 1 \notin crashed \cup asked
      BY <2>1, <1>r
    <2>3. QED
      BY <2>1, <2>2, <1>r
  <1>2. ASSUME NEW c \in Callers, StopBegin(c)
        PROVE  Account'
    BY <1>2 DEF StopBegin
  <1>3. ASSUME NEW c \in Callers, StopStep(c)
        PROVE  Account'
    <2>1. UNCHANGED <<launched, alive, crashed, status, log, waiter, asked>>
      BY <1>3 DEF StopStep, Interrupt, StopReturn, StopTimeout, Kill, KillErr,
                  CallerGoto
    <2>2. QED
      BY <2>1
  <1>4. ASSUME NEW i \in Runs, Exit(i)
        PROVE  Account'
    <2>1. i = cmd /\ running
      BY <1>4, <1>r DEF Exit
    <2>2. UNCHANGED <<launched, status, log, waiter, asked>>
      BY <1>4 DEF Exit
    <2>3. /\ alive' = alive \ {i} /\ crashed \subseteq crashed'
          /\ crashed' \subseteq crashed \cup {i}
      BY <1>4 DEF Exit
    <2>4. \A j \in alive' : j \notin crashed'
      BY <2>3
    <2>5. \A j \in crashed' \cup asked' : j <= launched'
      BY <2>1, <2>2, <2>3, <1>r
    <2>6. LogStaysOpen' /\ ErrorReported'
      BY <2>1, <2>2
    <2>7. QED
      BY <2>1, <2>2, <2>4, <2>5, <2>6
  <1>5. ASSUME NEW i \in Runs, WaitReturn(i)
        PROVE  Account'
    BY <1>5 DEF WaitReturn
  <1>6. ASSUME NEW i \in Runs, WaitClose(i)
        PROVE  Account'
    BY <1>6 DEF WaitClose
  <1>7. ASSUME NEW i \in Runs, WaitClear(i)
        PROVE  Account'
    <2>1. cmd = i /\ running /\ i = launched
      BY <1>7, <1>r DEF WaitClear
    <2>2. ~running' /\ exitError' = IsError(i)
      BY <1>7, <2>1 DEF WaitClear
    <2>3. UNCHANGED <<launched, alive, crashed, asked>>
      BY <1>7 DEF WaitClear
    <2>4. QED
      BY <2>1, <2>2, <2>3 DEF IsError
  <1>8. CASE RotateErr
    BY <1>8 DEF RotateErr
  <1>9. CASE UNCHANGED managerVars
    BY <1>9 DEF managerVars
  <1>10. QED
    BY <1>1, <1>2, <1>3, <1>4, <1>5, <1>6, <1>7, <1>8, <1>9
       DEF ManagerNext, CallerStep, ProcessStep, WaitStep

\* The account holds throughout.
LEMMA AccountHolds == ManagerSpec => []Account
  <1>1. ManagerInit => Account
    BY DEF ManagerInit, Account, LogStaysOpen, ErrorReported, Runs
  <1>2. QED
    BY <1>1, AccountStep, TypeCorrect, AgreeHolds, PTL DEF ManagerSpec

\* Status reports an error exactly when the last process ended with one and
\* nobody had asked it to stop.
THEOREM ErrorReportedHolds == ManagerSpec => []ErrorReported
  <1>1. Account => ErrorReported
    BY DEF Account
  <1>2. QED
    BY <1>1, AccountHolds, PTL

\* No goroutine of an earlier process closes the log of the one that runs.
THEOREM LogStaysOpenHolds == ManagerSpec => []LogStaysOpen
  <1>1. Account => LogStaysOpen
    BY DEF Account
  <1>2. QED
    BY <1>1, AccountHolds, PTL

\* The manager and the status file together are the two side by side: what is
\* proved of either specification holds of every behaviour of Guicore.
LEMMA GuicoreImplements == Spec => ManagerSpec /\ StatusSpec
  <1>1. Init => ManagerInit /\ StatusInit
    BY DEF Init
  <1>2. [Next]_vars => [ManagerNext]_managerVars /\ [StatusNext]_statusVars
    <2>1. CASE OnProcess(ManagerNext)
      BY <2>1, Zenon DEF OnProcess
    <2>2. CASE OnStatus(StatusNext)
      BY <2>2, Zenon DEF OnStatus
    <2>3. CASE UNCHANGED vars
      BY <2>3, Zenon DEF vars
    <2>4. QED
      BY <2>1, <2>2, <2>3, Zenon DEF Next
  <1>3. QED
    BY <1>1, <1>2, PTL DEF Spec, ManagerSpec, StatusSpec

=============================================================================
