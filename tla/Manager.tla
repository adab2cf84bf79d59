------------------------------ MODULE Manager ------------------------------
(***************************************************************************)
(* The GUI's process manager (internal/guicore/manager.go): Start launches *)
(* a glider process and a goroutine that waits for its end; Stop           *)
(* interrupts the process, kills it after a timeout and waits until the    *)
(* waiting goroutine has seen the end.  Any number of goroutines call      *)
(* Start and Stop; the mutex is not held while Stop waits.                 *)
(*                                                                         *)
(* A process is the number of its launch.  Start holds the mutex from end  *)
(* to end and is one step.  A Start that fails (the log cannot be opened,  *)
(* the process cannot be created, one is running) closes the log again and *)
(* leaves every variable as it was.                                        *)
(***************************************************************************)
EXTENDS Naturals

CONSTANTS
    Callers,   \* goroutines that call Start and Stop
    MaxRuns    \* bound of the model: processes launched

Runs == 1..MaxRuns

ASSUME ManagerAssumption == MaxRuns \in Nat

VARIABLES
    launched,  \* processes launched so far
    alive,     \* processes that have not ended
    doomed,    \* processes that were killed
    crashed,   \* processes whose Wait returns an error
    running,   \* status.Running
    exitError, \* status.ExitError is not empty
    cmd,       \* Manager.cmd, 0 for nil
    stopping,  \* Manager.stopping
    done,      \* processes whose done channel is closed
    log,       \* the log file: "closed", "open", or "broken" by a failed rotation
    waiter,    \* the goroutine "wait" of each process
    pc,        \* what each caller does next
    tgt,       \* the process its Stop captured
    asked      \* history: processes some Stop was about

status == <<running, exitError, cmd, stopping>>
world  == <<launched, alive, doomed, crashed>>
calls  == <<pc, tgt, asked>>
managerVars   == <<world, status, done, log, waiter, calls>>

WaiterPC == {"none", "wait", "close", "lock", "over"}

CallerPC == {"idle", "signal", "select", "kill", "await"}

-----------------------------------------------------------------------------
(* Start.                                                                  *)

\* A slip: a manager that is stopping its process takes a new one.
CanStartStopping == ~running \/ stopping

CanStart == ~running

Start(c) ==
    /\ pc[c] = "idle"
    /\ CanStart
    /\ launched < MaxRuns
    /\ LET i == launched + 1
       IN  /\ launched' = i
           /\ alive' = alive \cup {i}
           /\ cmd' = i
           /\ waiter' = [waiter EXCEPT ![i] = "wait"]
    /\ running' = TRUE
    /\ exitError' = FALSE
    /\ stopping' = FALSE
    /\ log' = "open"
    /\ UNCHANGED <<doomed, crashed, done, calls>>

-----------------------------------------------------------------------------
(* The process, and its output.                                            *)

\* The process ends by itself, on the interrupt, or because it was killed.
Exit(i) ==
    /\ i \in alive
    /\ alive' = alive \ {i}
    /\ \/ crashed' = crashed
       \/ crashed' = crashed \cup {i}
    /\ UNCHANGED <<launched, doomed, status, done, log, waiter, calls>>

\* Output makes the log rotate, and the rotation fails: the file is closed.
RotateErr ==
    /\ log = "open"
    /\ log' = "broken"
    /\ UNCHANGED <<world, status, done, waiter, calls>>

-----------------------------------------------------------------------------
(* The goroutine that waits for process i.                                 *)

\* cmd.Wait returns.
WaitReturn(i) ==
    /\ waiter[i] = "wait"
    /\ i \notin alive
    /\ waiter' = [waiter EXCEPT ![i] = "close"]
    /\ UNCHANGED <<world, status, done, log, calls>>

\* A slip: done is closed before the status is brought up to date.
WaitCloseDone(i) ==
    /\ waiter[i] = "close"
    /\ log' = "closed"
    /\ done' = done \cup {i}
    /\ waiter' = [waiter EXCEPT ![i] = "lock"]
    /\ UNCHANGED <<world, status, calls>>

\* logs.Close, before the mutex is taken.
WaitClose(i) ==
    /\ waiter[i] = "close"
    /\ log' = "closed"
    /\ waiter' = [waiter EXCEPT ![i] = "lock"]
    /\ UNCHANGED <<world, status, done, calls>>

\* A slip: the end of a process that was told to stop is an error too.
IsErrorAnyway(i) == i \in crashed

IsError(i) == i \in crashed /\ ~stopping

\* Under the mutex: the status, then close(done).
WaitClear(i) ==
    /\ waiter[i] = "lock"
    /\ IF cmd = i
       THEN /\ running' = FALSE
            /\ exitError' = IsError(i)
            /\ cmd' = 0
            /\ stopping' = FALSE
       ELSE UNCHANGED status
    /\ done' = done \cup {i}
    /\ waiter' = [waiter EXCEPT ![i] = "over"]
    /\ UNCHANGED <<world, log, calls>>

\* A slip: the log is closed last, when a new process may write to it.
WaitStepLogLast(i) ==
    \/ WaitReturn(i)
    \/ /\ waiter[i] = "close"
       /\ running' = FALSE
       /\ exitError' = IsError(i)
       /\ cmd' = 0
       /\ stopping' = FALSE
       /\ done' = done \cup {i}
       /\ waiter' = [waiter EXCEPT ![i] = "lock"]
       /\ UNCHANGED <<world, log, calls>>
    \/ /\ waiter[i] = "lock"
       /\ log' = "closed"
       /\ waiter' = [waiter EXCEPT ![i] = "over"]
       /\ UNCHANGED <<world, status, done, calls>>

WaitStep(i) == WaitReturn(i) \/ WaitClose(i) \/ WaitClear(i)

-----------------------------------------------------------------------------
(* Stop.  When nothing runs it returns nil at once and changes nothing.    *)

StopBegin(c) ==
    /\ pc[c] = "idle"
    /\ running
    /\ cmd # 0
    /\ stopping' = TRUE
    /\ tgt' = [tgt EXCEPT ![c] = cmd]
    /\ asked' = asked \cup {cmd}
    /\ pc' = [pc EXCEPT ![c] = "signal"]
    /\ UNCHANGED <<world, running, exitError, cmd, done, log, waiter>>

CallerGoto(c, l) ==
    /\ pc' = [pc EXCEPT ![c] = l]
    /\ UNCHANGED <<world, status, done, log, waiter, tgt, asked>>

\* interruptProcess, whose error is dropped: the process may end or not.
Interrupt(c) == pc[c] = "signal" /\ CallerGoto(c, "select")

\* Stop returns nil.
StopReturn(c) ==
    /\ pc[c] \in {"select", "await"}
    /\ tgt[c] \in done
    /\ pc' = [pc EXCEPT ![c] = "idle"]
    /\ tgt' = [tgt EXCEPT ![c] = 0]
    /\ UNCHANGED <<world, status, done, log, waiter, asked>>

\* The timer fires first.
StopTimeout(c) == pc[c] = "select" /\ CallerGoto(c, "kill")

\* A slip: nothing is killed after the timeout.
KilledNone(c) == doomed

Killed(c) == doomed \cup ({tgt[c]} \cap alive)

\* Process.Kill, or os.ErrProcessDone.
Kill(c) ==
    /\ pc[c] = "kill"
    /\ doomed' = Killed(c)
    /\ pc' = [pc EXCEPT ![c] = "await"]
    /\ UNCHANGED <<launched, alive, crashed, status, done, log, waiter, tgt, asked>>

\* Kill fails and Stop returns the error; "stopping" stays set.
KillErr(c) ==
    /\ pc[c] = "kill"
    /\ pc' = [pc EXCEPT ![c] = "idle"]
    /\ tgt' = [tgt EXCEPT ![c] = 0]
    /\ UNCHANGED <<world, status, done, log, waiter, asked>>

-----------------------------------------------------------------------------

ManagerInit ==
    /\ launched = 0
    /\ alive = {}
    /\ doomed = {}
    /\ crashed = {}
    /\ running = FALSE
    /\ exitError = FALSE
    /\ cmd = 0
    /\ stopping = FALSE
    /\ done = {}
    /\ log = "closed"
    /\ waiter = [i \in Runs |-> "none"]
    /\ pc = [c \in Callers |-> "idle"]
    /\ tgt = [c \in Callers |-> 0]
    /\ asked = {}

StopStep(c) ==
    Interrupt(c) \/ StopReturn(c) \/ StopTimeout(c) \/ Kill(c) \/ KillErr(c)

CallerStep(c) == Start(c) \/ StopBegin(c) \/ StopStep(c)

ProcessStep(i) == Exit(i) \/ WaitStep(i)

ManagerNext ==
    \/ \E c \in Callers : CallerStep(c)
    \/ \E i \in Runs : ProcessStep(i)
    \/ RotateErr

ManagerSpec == ManagerInit /\ [][ManagerNext]_managerVars

-----------------------------------------------------------------------------
(* Properties.                                                             *)

\* Every variable holds a value of its type.
TypeOK ==
    /\ launched \in 0..MaxRuns
    /\ alive \subseteq Runs /\ doomed \subseteq Runs /\ crashed \subseteq Runs
    /\ running \in BOOLEAN /\ exitError \in BOOLEAN /\ stopping \in BOOLEAN
    /\ cmd \in 0..MaxRuns
    /\ done \subseteq Runs
    /\ log \in {"closed", "open", "broken"}
    /\ waiter \in [Runs -> WaiterPC]
    /\ pc \in [Callers -> CallerPC]
    /\ tgt \in [Callers -> 0..MaxRuns]
    /\ asked \subseteq Runs

\* The output of the process that runs has a log to go to until its end is
\* seen, unless a rotation failed: no late goroutine of an earlier process
\* closes the log under it.
LogStaysOpen ==
    running /\ cmd \in Runs /\ waiter[cmd] = "wait" => log \in {"open", "broken"}

\* Status shows an error exactly when the last process ended with one although
\* no Stop, not even one that timed out or failed, had been called for it.
ErrorReported ==
    ~running /\ launched # 0
        => (exitError <=> launched \in crashed /\ launched \notin asked)

\* A Stop that returns nil has seen the end of the process it captured, and
\* Status does not report that process any more.
StopMeansStopped ==
    [][\A c \in Callers :
          pc[c] \in {"select", "await"} /\ pc'[c] = "idle"
              => tgt[c] \notin alive' /\ (running' => cmd' # tgt[c])]_managerVars

\* The promise of OneProcess: the process that is alive, and the one that
\* Status reports.
Live == IF alive = {} THEN 0 ELSE CHOOSE i \in alive : TRUE

Shown == IF running THEN cmd ELSE 0

Slot == INSTANCE OneProcess WITH live <- Live, shown <- Shown

\* The manager, called by any number of goroutines, implements OneProcess.
RunsOneProcess == Slot!Spec

\* Live is not by itself an account of all live processes: there is only one.
OneAlive == \A i, j \in alive : i = j

\* Every Stop returns: the process ends or is killed after the timeout, and
\* the waiting goroutine tells.
StopReturns == \A c \in Callers : (pc[c] # "idle") ~> (pc[c] = "idle")
=============================================================================
