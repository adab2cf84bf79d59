------------------------------ MODULE Guicore ------------------------------
(***************************************************************************)
(* The managed glider process as the GUI sees it (internal/guicore): the   *)
(* manager that starts and stops it, and the status file through which it  *)
(* reports.  They meet at a launch, where Manager.Start tries to remove    *)
(* the file, and at the end of the process; RuntimeStatus leaves both to   *)
(* chance, so that the manager can add nothing.  A behaviour is about one  *)
(* of the two.                                                             *)
(***************************************************************************)
EXTENDS Manager, RuntimeStatus

VARIABLE view   \* what this behaviour is about

vars == <<view, managerVars, statusVars>>

Init == view \in {"process", "status"} /\ ManagerInit /\ StatusInit

OnProcess(A) == view = "process" /\ A /\ UNCHANGED <<view, statusVars>>
OnStatus(A) == view = "status" /\ A /\ UNCHANGED <<view, managerVars>>

Next == OnProcess(ManagerNext) \/ OnStatus(StatusNext)

Spec == Init /\ [][Next]_vars

\* The manager: a call that has begun goes on, the waiting goroutine runs, and
\* the operating system ends a process that was killed.  Nothing obliges a
\* process to end on an interrupt.  The status file: goroutines run, and a
\* write that is tried again and again succeeds at last.
FairSpec ==
    /\ Spec
    /\ \A c \in Callers : WF_vars(OnProcess(StopStep(c)))
    /\ \A i \in Runs :
          /\ WF_vars(OnProcess(WaitStep(i)))
          /\ WF_vars(OnProcess(i \in doomed /\ Exit(i)))
    /\ \A m \in Mutators : WF_vars(OnStatus(MarkDirty(m)))
    /\ WF_vars(OnStatus(WriterStep))
    /\ SF_vars(OnStatus(WriteOk))
=============================================================================
