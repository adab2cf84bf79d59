--------------------------- MODULE RuntimeStatus ---------------------------
(***************************************************************************)
(* The status file through which a glider process tells the GUI which      *)
(* forwarders are enabled, how often they failed and which one was used    *)
(* last (rule/runtime_status.go).  Goroutines that change a forwarder set  *)
(* a dirty flag afterwards; one goroutine wakes every two seconds, clears  *)
(* the flag, reads the forwarders one after another and replaces the file. *)
(* The GUI's manager tries to remove the file before it launches a process *)
(* (internal/guicore/manager.go), and may kill the process at any moment.  *)
(*                                                                         *)
(* What a forwarder reports is abstracted to a version number.  Its fields *)
(* are read one after another; each could stand for a forwarder here.      *)
(***************************************************************************)
EXTENDS Integers

CONSTANTS
    N,         \* number of forwarders of all registered groups
    Mutators,  \* goroutines that change forwarders
    MaxVer,    \* bound of the model: changes per forwarder and run
    MaxProcesses    \* bound of the model: processes launched

Fwdrs == 1..N

ASSUME RuntimeStatusAssumption ==
    /\ N \in Nat \ {0}
    /\ MaxVer \in Nat
    /\ MaxProcesses \in Nat

VARIABLES
    run,      \* how many processes the manager has launched
    up,       \* the last one is alive
    ver,      \* version of what each forwarder would report
    dirty,    \* runtimeGroups.dirty
    pending,  \* per mutator: the forwarder it changed and has not marked yet, or 0
    wpc,      \* the writer's next step
    at,       \* the writer's position in the forwarders
    snap,     \* the versions the writer has read
    file      \* the status file: the run and the versions, or run 0 when absent

statusVars == <<run, up, ver, dirty, pending, wpc, at, snap, file>>

proc == <<run, up>>

None == [f \in Fwdrs |-> 0]

Absent == [run |-> 0, ver |-> None]

WriterPC == {"swap", "tick", "snap", "write", "remove", "rename", "redirty"}

-----------------------------------------------------------------------------
(* The goroutines that change forwarders.                                  *)

\* A field changes: a count, the flag, the latency, the last check or the last
\* selection.  markRuntimeDirty is a call of its own that follows.
Change(m, f) ==
    /\ up
    /\ pending[m] = 0
    /\ ver[f] < MaxVer
    /\ ver' = [ver EXCEPT ![f] = @ + 1]
    /\ pending' = [pending EXCEPT ![m] = f]
    /\ UNCHANGED <<proc, dirty, wpc, at, snap, file>>

MarkDirty(m) ==
    /\ up
    /\ pending[m] # 0
    /\ dirty' = TRUE
    /\ pending' = [pending EXCEPT ![m] = 0]
    /\ UNCHANGED <<proc, ver, wpc, at, snap, file>>

-----------------------------------------------------------------------------
(* writeRuntimeStatusLoop.                                                 *)

WriterGoto(l) == wpc' = l

\* dirty.Swap(false).
SwapDirty ==
    /\ up
    /\ wpc = "swap"
    /\ dirty' = FALSE
    /\ at' = 1
    /\ WriterGoto(IF dirty THEN "snap" ELSE "tick")
    /\ UNCHANGED <<proc, ver, pending, snap, file>>

NextAt == IF at = N THEN 1 ELSE at + 1

\* A slip: a forwarder that is being changed is passed over.
ReadUnlessBusy(f) == IF \E m \in Mutators : pending[m] = f THEN 0 ELSE ver[f]

Read(f) == ver[f]

\* snapshotGroups reads one forwarder.
Snapshot ==
    /\ up
    /\ wpc = "snap"
    /\ snap' = [snap EXCEPT ![at] = Read(at)]
    /\ at' = NextAt
    /\ WriterGoto(IF at = N THEN "write" ELSE "snap")
    /\ UNCHANGED <<proc, ver, dirty, pending, file>>

\* writeRuntimeStatus: the temporary file is renamed over the status file.
WriteOk ==
    /\ up
    /\ wpc \in {"write", "rename"}
    /\ file' = [run |-> run, ver |-> snap]
    /\ WriterGoto("tick")
    /\ UNCHANGED <<proc, ver, dirty, pending, at, snap>>

\* The rename fails, so the status file is removed before a second attempt.
RenameErr ==
    /\ up
    /\ wpc = "write"
    /\ WriterGoto("remove")
    /\ UNCHANGED <<proc, ver, dirty, pending, at, snap, file>>

RemoveOk ==
    /\ up
    /\ wpc = "remove"
    /\ file' = Absent
    /\ WriterGoto("rename")
    /\ UNCHANGED <<proc, ver, dirty, pending, at, snap>>

\* The temporary file cannot be written, or the file can neither be replaced
\* nor removed.
WriteErr ==
    /\ up
    /\ wpc \in {"write", "remove", "rename"}
    /\ WriterGoto("redirty")
    /\ UNCHANGED <<proc, ver, dirty, pending, at, snap, file>>

\* A slip: a failed write is only logged.
AfterErrorLogged == FALSE

\* A failed write is tried again at the next tick.
AfterError == TRUE

Redirty ==
    /\ up
    /\ wpc = "redirty"
    /\ dirty' = (dirty \/ AfterError)
    /\ WriterGoto("tick")
    /\ UNCHANGED <<proc, ver, pending, at, snap, file>>

Tick ==
    /\ up
    /\ wpc = "tick"
    /\ WriterGoto("swap")
    /\ UNCHANGED <<proc, ver, dirty, pending, at, snap, file>>

-----------------------------------------------------------------------------
(* The manager.                                                            *)

\* The process ends, at any point of the writer; the file stays behind.
Die ==
    /\ up
    /\ up' = FALSE
    /\ UNCHANGED <<run, ver, dirty, pending, wpc, at, snap, file>>

\* Manager.Start removes the status file first and drops the error of os.Remove:
\* the file of an earlier process may stay.
FilesAtLaunch == {Absent, file}

\* Manager.Start and, in the new process, registerRuntimeGroup.
Launch ==
    /\ ~up
    /\ run < MaxProcesses
    /\ run' = run + 1
    /\ up' = TRUE
    /\ ver' = None
    /\ dirty' = TRUE
    /\ pending' = [m \in Mutators |-> 0]
    /\ wpc' = "swap"
    /\ at' = 1
    /\ snap' = None
    /\ file' \in FilesAtLaunch

-----------------------------------------------------------------------------

StatusInit ==
    /\ run = 0
    /\ up = FALSE
    /\ ver = None
    /\ dirty = FALSE
    /\ pending = [m \in Mutators |-> 0]
    /\ wpc = "swap"
    /\ at = 1
    /\ snap = None
    /\ file = Absent

MutatorStep(m) == MarkDirty(m) \/ \E f \in Fwdrs : Change(m, f)

WriterStep ==
    \/ SwapDirty \/ Snapshot
    \/ WriteOk \/ RenameErr \/ RemoveOk \/ WriteErr
    \/ Redirty \/ Tick

StatusNext ==
    \/ \E m \in Mutators : MutatorStep(m)
    \/ WriterStep
    \/ Die
    \/ Launch

StatusSpec == StatusInit /\ [][StatusNext]_statusVars

-----------------------------------------------------------------------------
(* Properties.                                                             *)

\* Every variable holds a value of its type.
StatusTypeOK ==
    /\ run \in Nat
    /\ up \in BOOLEAN
    /\ ver \in [Fwdrs -> Nat]
    /\ dirty \in BOOLEAN
    /\ pending \in [Mutators -> 0..N]
    /\ wpc \in WriterPC
    /\ at \in Fwdrs
    /\ snap \in [Fwdrs -> Nat]
    /\ file \in [run : Nat, ver : [Fwdrs -> Nat]]

\* What the running process would report of f is in the file.
InFile(f) == file.run = run /\ file.ver[f] = ver[f]

\* The writer holds f's present version, or will read f before it writes.
Underway(f) ==
    \/ wpc = "snap" /\ at <= f
    \/ wpc = "snap" /\ at > f /\ snap[f] = ver[f]
    \/ wpc \in {"write", "remove", "rename"} /\ snap[f] = ver[f]

\* No change is lost between the flag, the snapshot and the file, whatever
\* the order of marking and clearing and whichever write fails: a forwarder
\* whose state is not in the file is marked, being marked, or underway.
NothingLost ==
    up => \A f \in Fwdrs :
              \/ InFile(f)
              \/ dirty
              \/ \E m \in Mutators : pending[m] = f
              \/ Underway(f)
              \/ wpc = "redirty"

\* The inductive invariant behind it: the file is absent or some process's, and
\* when it is the running process's it is never newer than the snapshot, nor
\* the snapshot than the forwarders.
InOrder ==
    /\ file.run <= run
    /\ file.run = 0 => file = Absent
    /\ \A f \in Fwdrs :
          /\ snap[f] <= ver[f]
          /\ file.run = run => file.ver[f] <= snap[f]
    /\ up => run # 0

\* The file never goes back to an older state of the same process, although a
\* snapshot is taken forwarder by forwarder and a write may come late.
NeverBackwards ==
    [][file.run = file'.run => \A f \in Fwdrs : file'.ver[f] >= file.ver[f]]_statusVars

\* A process that stays up is shown as it is, again and again or for good:
\* every change reaches the file or is overtaken by a newer one, and a file
\* that an earlier process left behind is replaced.
EventuallyShown ==
    \A f \in Fwdrs :
        \A v \in 0..MaxVer :
            (up /\ ver[f] = v) ~> (InFile(f) \/ ver[f] # v \/ ~up)
=============================================================================
