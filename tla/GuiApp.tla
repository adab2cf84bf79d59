------------------------------- MODULE GuiApp -------------------------------
(***************************************************************************)
(* The GUI server's pool of proxies (gui.go): the handlers that fetch a    *)
(* new pool, put a proxy on the blacklist or take it off, and start and    *)
(* stop the managed glider process.  operationMu serialises the handlers,  *)
(* so one operation is at work at a time; each writes up to three files,   *)
(* restarts the process and updates the memory, and returns at the first   *)
(* step that fails.  The GUI process may die between any two steps and is  *)
(* started again from the files.  A shutdown, which stops the process      *)
(* without operationMu and then ends, is a death after the process's end.  *)
(*                                                                         *)
(* A file is replaced by writeAtomic: a temporary file is renamed over it. *)
(* On Windows, when that fails, the file is removed and the rename is      *)
(* tried again, and may fail again.  A file that is not there reads as an  *)
(* empty one.                                                              *)
(*                                                                         *)
(* The process manager is the one OneProcess promises; Manager implements  *)
(* it.  The process reads the configuration some time after its launch.    *)
(* A fetch stands for what it returned: any set of proxies.  Settings and  *)
(* discovery targets are left out.                                         *)
(***************************************************************************)
EXTENDS Naturals

CONSTANT Proxies   \* URLs of proxies that sources offer

VARIABLES
    up,      \* the GUI process runs
    pool,    \* guiApp.proxies
    black,   \* guiApp.blacklist
    disk,    \* proxies.json, blacklist.json and the forwards of managed.conf
    op,      \* the operation that holds operationMu, and its locals
    live,    \* the managed process: alive or 0
    shown,   \* the managed process: what Manager.Status reports
    fwds,    \* the forwards the live process has read, {} before it has
    removed, \* history: files that a replacement removed and has not put back
    held,    \* history: proxies put on the blacklist and not taken off, dropped by a
             \* fetch, or lost with the file
    banned,  \* history: proxies put on the blacklist that nobody asked to take off and
             \* that were not lost with the file
    failed,  \* history: an operation failed after it wrote managed.conf, and no launch since
    torn     \* history: a fetch failed after it wrote proxies.json, and none has succeeded since

process == <<live, shown, fwds>>
memory  == <<up, pool, black>>
history == <<removed, held, banned, failed, torn>>
appVars == <<up, pool, black, disk, op, live, shown, fwds,
            removed, held, banned, failed, torn>>

\* What the operations replace: managed.conf, proxies.json and blacklist.json.
Files == {"config", "proxies", "blacklist"}

\* Nobody holds operationMu.
Idle == [kind |-> "none", step |-> "none", pool |-> {}, black |-> {},
         ban |-> {}, lift |-> {}]

Ops == [kind : {"fetch", "blacklist", "start", "stop"},
        step : {"config", "proxies", "blacklist", "stop", "launch", "commit"},
        pool : SUBSET Proxies, black : SUBSET Proxies,
        ban : SUBSET Proxies, lift : SUBSET Proxies]

M == INSTANCE OneProcess

\* availableProxyURLs.
Available(proxies, blacklist) == proxies \ blacklist

\* pruneBlacklist: entries that the new pool does not have are dropped.
PruneBlacklist(proxies, blacklist) == blacklist \cap proxies

-----------------------------------------------------------------------------
(* Handlers up to their first write.  One that answers an error before it  *)
(* changes nothing.                                                        *)

\* The first step is the one that writes managed.conf.
Begin(kind, newPool, newBlack, ban, lift) ==
    /\ up
    /\ op = Idle
    /\ op' = [kind |-> kind, step |-> "config", pool |-> newPool,
              black |-> newBlack, ban |-> ban, lift |-> lift]
    /\ banned' = banned \ lift
    /\ UNCHANGED <<memory, disk, process, removed, held, failed, torn>>

\* handleFetch got "fetched"; without a usable proxy the pool is not replaced.
FetchBegin(fetched) ==
    LET pruned == PruneBlacklist(fetched, black)
    IN  /\ Available(fetched, pruned) # {}
        /\ Begin("fetch", fetched, pruned, {}, {})

\* A slip: the last usable proxy may be blacklisted.
LeavesOneAlways(blacklist) == TRUE

\* "at least one proxy that is not blacklisted must be kept"
LeavesOne(blacklist) == Available(pool, blacklist) # {}

\* handleProxies, PUT.
BanBegin(p) ==
    /\ p \in pool
    /\ LeavesOne(black \cup {p})
    /\ Begin("blacklist", pool, black \cup {p}, {p}, {})

LiftBegin(p) ==
    /\ p \in pool
    /\ LeavesOne(black \ {p})
    /\ Begin("blacklist", pool, black \ {p}, {}, {p})

\* handleStart.
StartBegin ==
    /\ Available(pool, black) # {}
    /\ Begin("start", pool, black, {}, {})

\* handleStop.
StopBegin ==
    /\ up
    /\ op = Idle
    /\ op' = [Idle EXCEPT !.kind = "stop", !.step = "stop"]
    /\ UNCHANGED <<memory, disk, process, history>>

-----------------------------------------------------------------------------
(* The steps of the operation at work.                                     *)

Goto(s) == op' = [op EXCEPT !.step = s]

Finish == op' = Idle

\* The step after the one that wrote managed.conf.
AfterConfig ==
    CASE op.kind = "fetch"     -> "proxies"
      [] op.kind = "blacklist" -> "blacklist"
      [] op.kind = "start"     -> "launch"

\* writeAtomic puts the new content in place, at its first or second rename.
Replace(file, content) ==
    /\ disk' = [disk EXCEPT ![file] = content]
    /\ removed' = removed \ {file}

\* writeAtomic on Windows: the first rename has failed, the file is removed.
RemoveOld ==
    /\ op.step \in Files
    /\ disk' = [disk EXCEPT ![op.step] = {}]
    /\ removed' = removed \cup {op.step}
    /\ UNCHANGED <<memory, op, process, held, banned, failed, torn>>

WriteConfig ==
    /\ op.step = "config"
    /\ Replace("config", Available(op.pool, op.black))
    /\ Goto(AfterConfig)
    /\ UNCHANGED <<memory, process, held, banned, failed, torn>>

SaveProxies ==
    /\ op.step = "proxies"
    /\ Replace("proxies", op.pool)
    /\ Goto("blacklist")
    /\ UNCHANGED <<memory, process, held, banned, failed, torn>>

\* A slip: the blacklist is kept in memory only.
SavedBlacklistNot == disk.blacklist

SavedBlacklist == op.black

\* A slip: a process that runs keeps running when a proxy is blacklisted.
RestartsFetchOnly == shown # 0 /\ op.kind = "fetch"

\* Status().Running: there is a process to stop first.
Restarts == shown # 0

\* saveStringSet; handleProxies then updates the memory.  handleFetch
\* starts a process in any case, handleProxies only instead of the present one.
SaveBlacklist ==
    /\ op.step = "blacklist"
    /\ Replace("blacklist", SavedBlacklist)
    /\ banned' = banned \cup op.ban
    /\ IF op.kind = "blacklist"
       THEN /\ black' = op.black
            /\ held' = (held \cup op.ban) \ op.lift
       ELSE /\ held' = held \cap op.black
            /\ UNCHANGED black
    /\ IF Restarts THEN Goto("stop")
       ELSE IF op.kind = "fetch" THEN Goto("launch")
       ELSE Finish
    /\ UNCHANGED <<up, pool, process, failed, torn>>

\* manager.Stop returns nil: there is no process, or its end has been seen.
\* All but handleStop start a process next.
StopOk ==
    /\ op.step = "stop"
    /\ shown = 0
    /\ IF op.kind = "stop" THEN Finish ELSE Goto("launch")
    /\ UNCHANGED <<memory, disk, process, history>>

\* manager.Start.
Launch ==
    /\ op.step = "launch"
    /\ live' = 1
    /\ M!Launch
    /\ fwds' = {}
    /\ failed' = FALSE
    /\ IF op.kind = "fetch" THEN Goto("commit") ELSE Finish
    /\ UNCHANGED <<memory, disk, removed, held, banned, torn>>

CommittedBlack == op.black

\* handleFetch at last updates the memory.
CommitOp ==
    /\ op.step = "commit"
    /\ pool' = op.pool
    /\ black' = CommittedBlack
    /\ torn' = FALSE
    /\ Finish
    /\ UNCHANGED <<up, disk, process, removed, held, banned, failed>>

\* A write fails, Stop cannot kill the process, or Start fails, in particular
\* because a process is running: the handler answers the error and returns.
Abort ==
    /\ op.step \in {"config", "proxies", "blacklist", "stop", "launch"}
    /\ op.step = "stop" => shown # 0
    /\ failed' = \/ failed
                 \/ op.kind # "stop" /\ op.step # "config"
    /\ torn' = \/ torn
               \/ op.kind = "fetch" /\ op.step \in {"blacklist", "stop", "launch"}
    /\ Finish
    /\ UNCHANGED <<memory, disk, process, removed, held, banned>>

-----------------------------------------------------------------------------
(* The managed process.                                                    *)

\* Its main reads managed.conf once.  Without one it exits.
ReadConfig ==
    /\ live # 0
    /\ fwds = {}
    /\ disk.config # {}
    /\ fwds' = disk.config
    /\ UNCHANGED <<memory, disk, op, live, shown, history>>

\* It ends by itself or because it is stopped.
ProcessExit ==
    /\ M!Exit
    /\ fwds' = {}
    /\ UNCHANGED <<memory, disk, op, history>>

ManagerNotices ==
    /\ M!Notice
    /\ UNCHANGED <<memory, disk, op, fwds, history>>

-----------------------------------------------------------------------------
(* The GUI process.                                                        *)

\* It dies.  A process it managed lives on, but nobody manages it.
Die ==
    /\ up
    /\ up' = FALSE
    /\ pool' = {} /\ black' = {}
    /\ op' = Idle
    /\ live' = 0 /\ shown' = 0 /\ fwds' = {}
    /\ UNCHANGED <<disk, history>>

\* runGUI: loadProxies and loadBlacklist.  What was in a removed file is lost
\* for good.
Load ==
    /\ ~up
    /\ up' = TRUE
    /\ pool' = disk.proxies
    /\ black' = disk.blacklist
    /\ removed' = {}
    /\ IF "blacklist" \in removed
       THEN held' = {} /\ banned' = {}
       ELSE UNCHANGED <<held, banned>>
    /\ UNCHANGED <<disk, op, process, failed, torn>>

AppInit ==
    /\ up = TRUE
    /\ pool = {} /\ black = {}
    /\ disk = [f \in Files |-> {}]
    /\ op = Idle
    /\ live = 0 /\ shown = 0 /\ fwds = {}
    /\ removed = {} /\ held = {} /\ banned = {}
    /\ failed = FALSE /\ torn = FALSE

Handlers ==
    \/ \E fetched \in SUBSET Proxies : FetchBegin(fetched)
    \/ \E p \in Proxies : BanBegin(p) \/ LiftBegin(p)
    \/ StartBegin
    \/ StopBegin

OpStep ==
    \/ RemoveOld \/ WriteConfig \/ SaveProxies \/ SaveBlacklist
    \/ StopOk \/ Launch \/ CommitOp \/ Abort

AppNext ==
    \/ Handlers
    \/ OpStep
    \/ ReadConfig \/ ProcessExit \/ ManagerNotices
    \/ Die
    \/ Load

AppSpec == AppInit /\ [][AppNext]_appVars

-----------------------------------------------------------------------------
(* Properties.                                                             *)

\* Every variable holds a value of its type; in particular an operation that
\* holds operationMu has a step to take.
TypeOK ==
    /\ up \in BOOLEAN /\ failed \in BOOLEAN /\ torn \in BOOLEAN
    /\ pool \subseteq Proxies /\ black \subseteq Proxies
    /\ disk \in [Files -> SUBSET Proxies]
    /\ op = Idle \/ op \in Ops
    /\ live \in Nat /\ shown \in Nat
    /\ fwds \subseteq Proxies
    /\ removed \subseteq Files
    /\ held \subseteq Proxies /\ banned \subseteq Proxies

\* Between operations the running process forwards to no proxy that the GUI
\* shows as blacklisted, unless an operation failed half way since its launch:
\* the files, the restart and the memory are brought along in an order that
\* leaves no successful operation with a stale process.
RunningAvoidsBlacklist ==
    op = Idle /\ ~failed => fwds \cap black = {}

\* A blacklisting that was carried out survives the death of the GUI and any
\* failed operation, until it is taken back or a fetch drops it.  When a
\* replacement has removed blacklist.json and failed, the GUI that runs still
\* has it in its memory; only then does a death lose it.
BlacklistSurvives ==
    IF "blacklist" \in removed THEN up => held \subseteq black
                               ELSE held \subseteq disk.blacklist

\* The promise of the README, "a blacklisted proxy is not applied to glider's
\* configuration again": no managed.conf has a proxy that was put on the
\* blacklist and that nobody has asked to take off.
NeverApplied == banned \cap disk.config = {}

\* The memory and the files agree between operations, unless a fetch failed
\* after it had replaced proxies.json, but for a file that a failed
\* replacement removed.
DiskIsMemory ==
    up /\ op = Idle /\ ~torn
        => /\ "proxies" \in removed \/ pool = disk.proxies
           /\ "blacklist" \in removed \/ black = disk.blacklist

\* Unless a fetch failed half way, a pool has a usable proxy whenever it has
\* one at all, also after a death between the writes of a fetch.
UsableUnlessTorn ==
    up /\ ~torn /\ pool # {} => Available(pool, black) # {}
=============================================================================
