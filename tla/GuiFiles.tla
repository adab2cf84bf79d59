------------------------------ MODULE GuiFiles ------------------------------
(***************************************************************************)
(* What the GUI keeps in memory and in files: the pool of proxies with its *)
(* blacklist and the process that uses it, the rolling log that the        *)
(* manager writes, and the settings and the providers' configurations.     *)
(* The three have no variable in common: what the first and the last       *)
(* share, operationMu, can only make one wait for the other.  So a         *)
(* behaviour is about one of them.                                         *)
(***************************************************************************)
EXTENDS GuiApp, RollingLog, GuiSettings

VARIABLE about   \* what this behaviour is about

vars == <<about, appVars, logVars, settingsVars>>

Init == about \in {"pool", "log", "settings"} /\ AppInit /\ LogInit /\ SettingsInit

OnPool(A) == about = "pool" /\ A /\ UNCHANGED <<about, logVars, settingsVars>>
OnLog(A) == about = "log" /\ A /\ UNCHANGED <<about, appVars, settingsVars>>
OnSettings(A) == about = "settings" /\ A /\ UNCHANGED <<about, appVars, logVars>>

Next == OnPool(AppNext) \/ OnLog(LogNext) \/ OnSettings(SettingsNext)

Spec == Init /\ [][Next]_vars
=============================================================================
