---------------------------- MODULE MCFwdrGroup ----------------------------
(***************************************************************************)
(* Small groups for TLC.                                                   *)
(***************************************************************************)
EXTENDS FwdrGroup

\* One forwarder above another.
PriOneOverOne == <<2, 1>>

\* A third one that can only carry UDP: its check answers ErrNotSupported.
PriOneOverTwo == <<2, 1, 1>>

\* One above another, and a third of the default priority below both.
PriLadder == <<2, 1, 0>>

\* A state of that group 16 steps after Init: the checks of forwarders 1 and 2
\* have succeeded, the third has not been checked, and every client has just
\* been given the first.  What follows it is too far from Init for TLC.
LadderInit ==
    /\ disabled = <<FALSE, FALSE, TRUE>>
    /\ failures = [f \in Fwdrs |-> 0]
    /\ maxFailures = [f \in Fwdrs |-> MaxFailures]
    /\ avail = <<1>>
    /\ priority = Pri[1]
    /\ index = 0
    /\ wait = <<1, 1, 0>>
    /\ pc = [p \in Procs |-> IF p \in Clients THEN "dial" ELSE "sleep"]
    /\ ret = [p \in Procs |-> "idle"]
    /\ op = [p \in Procs |-> "enable"]
    /\ cur = [p \in Procs |-> IF p \in Fwdrs THEN p ELSE 1]
    /\ cnt = [p \in Procs |-> 0]
    /\ scan = 1

LadderSpec == LadderInit /\ [][Next]_vars
=============================================================================
