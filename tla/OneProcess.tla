----------------------------- MODULE OneProcess -----------------------------
(***************************************************************************)
(* What the GUI's process manager promises its callers ("Manager starts    *)
(* and stops one glider process", internal/guicore/manager.go): a process  *)
(* is launched only when none is alive, a live process is the one that     *)
(* Status reports, and Status stops reporting it only after its end.       *)
(***************************************************************************)
EXTENDS Naturals

VARIABLES
    live,   \* the process that is alive, or 0
    shown   \* the process Status reports as running, or 0

Launch ==
    /\ live = 0
    /\ shown = 0
    /\ live' \in Nat \ {0}
    /\ shown' = live'

Exit ==
    /\ live # 0
    /\ live' = 0
    /\ UNCHANGED shown

Notice ==
    /\ live = 0
    /\ shown # 0
    /\ shown' = 0
    /\ UNCHANGED live

Init == live = 0 /\ shown = 0

Next == Launch \/ Exit \/ Notice

Spec == Init /\ [][Next]_<<live, shown>>
=============================================================================
