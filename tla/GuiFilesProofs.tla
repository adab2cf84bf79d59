--------------------------- MODULE GuiFilesProofs ---------------------------
(***************************************************************************)
(* What the GUI's operations keep true for any set of proxies, whichever   *)
(* of their steps fails and whenever the GUI dies; and what holds of its   *)
(* files for every number of requests at work and all their contents: no   *)
(* change of the settings is undone, a provider's configuration stays as   *)
(* it was stored, and the rolling log keeps its limit and its order.       *)
(***************************************************************************)
EXTENDS GuiFiles, TLAPS

-----------------------------------------------------------------------------
(* The proxies, the blacklist and the process.                             *)

\* What an operation has worked out stays right until it is used: the memory
\* changes only when the operation itself changes it.
Locals ==
    /\ op # Idle => up
    /\ op.kind = "none" => op = Idle
    /\ op.kind = "stop" => op.step = "stop"
    /\ op.kind = "start" =>
          /\ op.step \in {"config", "launch"}
          /\ op.pool = pool
          /\ op.black = black
    /\ op.kind = "blacklist" =>
          /\ op.step \in {"config", "blacklist", "stop", "launch"}
          /\ op.pool = pool
          /\ op.step \in {"config", "blacklist"} => op.black = (black \cup op.ban) \ op.lift
          /\ op.step \in {"stop", "launch"} => op.black = black
          /\ Available(op.pool, op.black) # {}
    /\ op.kind = "fetch" =>
          /\ op.black = PruneBlacklist(op.pool, black)
          /\ Available(op.pool, op.black) # {}

\* A live process is one that Status reports, and only a live one forwards.
OneManaged ==
    /\ live # 0 => shown # 0
    /\ live = 0 => fwds = {}
    /\ ~up => live = 0

\* A fetch has replaced proxies.json, or blacklist.json too.
FetchSavedProxies == op.kind = "fetch" /\ op.step \in {"blacklist", "stop", "launch", "commit"}

FetchSavedBlack == op.kind = "fetch" /\ op.step \in {"stop", "launch", "commit"}

\* What was blacklisted and not dropped is on the blacklist, wherever the
\* next operation or the next start of the GUI takes the blacklist from.
Kept ==
    /\ "blacklist" \notin removed => held \subseteq disk.blacklist
    /\ up => held \subseteq black
    /\ FetchSavedBlack => held \subseteq op.black

\* Each file is the one of the memory or of the fetch at work, or a failed
\* replacement has removed it.
Agreeing ==
    /\ \A f \in removed : disk[f] = {}
    /\ FetchSavedProxies => disk.proxies = op.pool /\ "proxies" \notin removed
    /\ FetchSavedBlack => disk.blacklist = op.black /\ "blacklist" \notin removed
    /\ up /\ ~torn /\ ~FetchSavedProxies => disk.proxies = pool \/ "proxies" \in removed
    /\ up /\ ~torn /\ ~FetchSavedBlack => disk.blacklist = black \/ "blacklist" \in removed

\* Neither the memory nor the files hold a pool without a usable proxy.
Usable ==
    ~torn => /\ disk.proxies # {} => Available(disk.proxies, disk.blacklist) # {}
             /\ up /\ pool # {} => Available(pool, black) # {}

\* No operation has written a configuration that the memory does not follow.
Quiet == op.kind \in {"none", "stop", "start"} \/ op.step = "config"

\* The live process and the configuration it may still have to read avoid the
\* blacklist in memory, except while an operation is at work that will launch
\* another process or fail.
Config ==
    /\ op.kind \in {"fetch", "blacklist", "start"} /\ op.step # "config"
          => disk.config = Available(op.pool, op.black)
    /\ ~failed /\ live # 0 /\ Quiet => (disk.config \cup fwds) \cap black = {}
    /\ op.step = "commit" => op.kind = "fetch" /\ fwds \cap op.black = {}

\* The inductive invariant is TypeOK and these.
Others == Locals /\ OneManaged /\ Kept /\ Agreeing /\ Usable /\ Config

-----------------------------------------------------------------------------
(* Field by field, what the steps do to the operation and to the files.    *)

\* An operation at work is a record of the handlers' locals.
LEMMA AtWork ==
    ASSUME TypeOK, op.step # "none"
    PROVE  op \in Ops
  BY DEF TypeOK, Idle

\* Goto changes the step and none of the operation's other locals.
LEMMA GotoFields ==
    ASSUME op \in Ops, NEW s, Goto(s)
    PROVE  /\ op'.step = s
           /\ op'.kind = op.kind
           /\ op'.pool = op.pool /\ op'.black = op.black
           /\ op'.ban = op.ban /\ op'.lift = op.lift
  BY DEF Ops, Goto

\* Nobody holds operationMu: the locals are empty.
LEMMA IdleFields ==
    /\ Idle.kind = "none" /\ Idle.step = "none"
    /\ Idle.pool = {} /\ Idle.black = {} /\ Idle.ban = {} /\ Idle.lift = {}
  BY DEF Idle

\* What Begin leaves in the operation's locals.
LEMMA BeginFields ==
    ASSUME NEW k, NEW a, NEW b, NEW x, NEW y, Begin(k, a, b, x, y)
    PROVE  /\ up /\ op = Idle
           /\ op'.kind = k /\ op'.step = "config"
           /\ op'.pool = a /\ op'.black = b /\ op'.ban = x /\ op'.lift = y
           /\ UNCHANGED <<memory, disk, process, removed, held, failed, torn>>
  BY DEF Begin

\* Only a GUI that is up works on an operation.
LEMMA UpAtWork ==
    ASSUME Locals, op.step # "none"
    PROVE  up
  BY IdleFields DEF Locals

-----------------------------------------------------------------------------
(* Each action keeps the invariant.                                        *)

\* Writing managed.conf keeps the invariant.
LEMMA WriteConfigInv ==
    ASSUME TypeOK, Others, WriteConfig
    PROVE  Others'
  <1> USE DEF Others
  <1>1. op \in Ops /\ op.step = "config" /\ up
    BY AtWork, UpAtWork DEF WriteConfig
  <1>2. /\ disk'.config = Available(op.pool, op.black)
        /\ disk'.proxies = disk.proxies /\ disk'.blacklist = disk.blacklist
        /\ removed' = removed \ {"config"}
        /\ \A f \in removed' : disk'[f] = disk[f]
    BY DEF WriteConfig, Replace, TypeOK, Files
  <1>3. /\ op'.step = AfterConfig /\ op'.kind = op.kind
        /\ op'.pool = op.pool /\ op'.black = op.black
        /\ op'.ban = op.ban /\ op'.lift = op.lift
    BY <1>1, GotoFields DEF WriteConfig
  <1>4. op.kind \in {"fetch", "blacklist", "start"}
    BY <1>1 DEF Locals, Ops
  <1>5. /\ op.kind = "fetch" => op'.step = "proxies"
        /\ op.kind = "blacklist" => op'.step = "blacklist"
        /\ op.kind = "start" => op'.step = "launch"
    BY <1>3 DEF AfterConfig
  <1>6. UNCHANGED <<up, pool, black, live, shown, fwds, held, failed, torn>>
    BY DEF WriteConfig, memory, process, history
  <1>7. Locals'
    BY <1>1, <1>3, <1>4, <1>5, <1>6 DEF Locals, Available, PruneBlacklist
  <1>8. OneManaged' /\ Kept'
    BY <1>1, <1>2, <1>3, <1>4, <1>5, <1>6 DEF OneManaged, Kept, FetchSavedBlack
  <1>9. Agreeing' /\ Usable'
    BY <1>1, <1>2, <1>3, <1>4, <1>5, <1>6
       DEF Agreeing, Usable, FetchSavedProxies, FetchSavedBlack, Available
  <1>10. Config'
    BY <1>1, <1>2, <1>3, <1>4, <1>5, <1>6 DEF Config, Quiet, Locals, Available
  <1>11. QED
    BY <1>7, <1>8, <1>9, <1>10

\* Taking operationMu and computing pool and blacklist keeps the invariant.
LEMMA BeginInv ==
    ASSUME TypeOK, Others, Handlers
    PROVE  Others'
  <1> USE DEF Others
  <1>1. up /\ op = Idle /\ UNCHANGED <<memory, disk, process, removed, held, failed, torn>>
    BY DEF Handlers, FetchBegin, BanBegin, LiftBegin, StartBegin, StopBegin, Begin, history
  <1>2. UNCHANGED <<up, pool, black, disk, live, shown, fwds, removed, held, failed, torn>>
    BY <1>1 DEF memory, process
  <1>3. /\ op'.kind \in {"fetch", "blacklist", "start", "stop"}
        /\ op'.step = IF op'.kind = "stop" THEN "stop" ELSE "config"
        /\ Locals'
    <2>1. CASE \E fetched \in SUBSET Proxies : FetchBegin(fetched)
      BY <1>1, <1>2, <2>1, BeginFields DEF FetchBegin, Locals
    <2>2. CASE \E p \in Proxies : BanBegin(p)
      BY <1>1, <1>2, <2>2, BeginFields DEF BanBegin, LeavesOne, Locals
    <2>3. CASE \E p \in Proxies : LiftBegin(p)
      BY <1>1, <1>2, <2>3, BeginFields DEF LiftBegin, LeavesOne, Locals
    <2>4. CASE StartBegin
      BY <1>1, <1>2, <2>4, BeginFields DEF StartBegin, Locals
    <2>5. CASE StopBegin
      <3>1. op'.kind = "stop" /\ op'.step = "stop"
        BY <2>5 DEF StopBegin, Idle
      <3>2. QED
        BY <1>1, <1>2, <3>1 DEF Locals
    <2>6. QED
      BY <2>1, <2>2, <2>3, <2>4, <2>5 DEF Handlers
  <1>4. OneManaged' /\ Kept' /\ Agreeing' /\ Usable'
    BY <1>1, <1>2, <1>3, IdleFields
       DEF OneManaged, Kept, Agreeing, Usable, FetchSavedProxies, FetchSavedBlack
  <1>5. Config'
    BY <1>1, <1>2, <1>3, IdleFields DEF Config, Quiet
  <1>6. QED
    BY <1>3, <1>4, <1>5

\* Replacing proxies.json keeps the invariant.
LEMMA SaveProxiesInv ==
    ASSUME TypeOK, Others, SaveProxies
    PROVE  Others'
  <1> USE DEF Others
  <1>1. op \in Ops /\ op.step = "proxies" /\ up /\ op.kind = "fetch"
    BY AtWork, UpAtWork DEF SaveProxies, Locals, Ops
  <1>2. /\ disk'.proxies = op.pool
        /\ disk'.config = disk.config /\ disk'.blacklist = disk.blacklist
        /\ removed' = removed \ {"proxies"}
        /\ \A f \in removed' : disk'[f] = disk[f]
    BY DEF SaveProxies, Replace, TypeOK, Files
  <1>3. /\ op'.step = "blacklist" /\ op'.kind = op.kind
        /\ op'.pool = op.pool /\ op'.black = op.black
    BY <1>1, GotoFields DEF SaveProxies
  <1>4. UNCHANGED <<up, pool, black, live, shown, fwds, held, failed, torn>>
    BY DEF SaveProxies, memory, process, history
  <1>5. Locals' /\ OneManaged' /\ Kept'
    BY <1>1, <1>2, <1>3, <1>4 DEF Locals, OneManaged, Kept, FetchSavedBlack
  <1>6. Agreeing'
    BY <1>1, <1>2, <1>3, <1>4 DEF Agreeing, FetchSavedProxies, FetchSavedBlack
  <1>7. Usable'
    BY <1>1, <1>2, <1>3, <1>4
       DEF Usable, Agreeing, FetchSavedBlack, Locals, Available, PruneBlacklist
  <1>8. Config'
    BY <1>1, <1>2, <1>3, <1>4 DEF Config, Quiet
  <1>9. QED
    BY <1>5, <1>6, <1>7, <1>8

\* Replacing blacklist.json keeps the invariant.
LEMMA SaveBlacklistInv ==
    ASSUME TypeOK, Others, SaveBlacklist
    PROVE  Others'
  <1> USE DEF Others
  <1>1. op \in Ops /\ op.step = "blacklist" /\ up /\ op.kind \in {"fetch", "blacklist"}
    BY AtWork, UpAtWork DEF SaveBlacklist, Locals, Ops
  <1>2. /\ disk'.blacklist = op.black
        /\ disk'.config = disk.config /\ disk'.proxies = disk.proxies
        /\ removed' = removed \ {"blacklist"}
        /\ \A f \in removed' : disk'[f] = disk[f]
    BY DEF SaveBlacklist, SavedBlacklist, Replace, TypeOK, Files
  <1>3. UNCHANGED <<up, pool, live, shown, fwds, failed, torn>>
    BY DEF SaveBlacklist, process
  <1>4. CASE op.kind = "fetch"
    <2>1. /\ op'.step \in {"stop", "launch"} /\ op'.kind = op.kind
          /\ op'.pool = op.pool /\ op'.black = op.black
          /\ held' = held \cap op.black /\ black' = black
      BY <1>1, <1>4, GotoFields DEF SaveBlacklist
    <2>2. Locals' /\ OneManaged' /\ Kept'
      BY <1>1, <1>2, <1>3, <1>4, <2>1 DEF Locals, OneManaged, Kept
    <2>3. Agreeing'
      BY <1>1, <1>2, <1>3, <1>4, <2>1 DEF Agreeing, FetchSavedProxies, FetchSavedBlack
    <2>4. Usable'
      BY <1>1, <1>2, <1>3, <1>4, <2>1 DEF Usable, Agreeing, FetchSavedProxies, Locals
    <2>5. Config'
      BY <1>1, <1>2, <1>3, <1>4, <2>1 DEF Config, Quiet
    <2>6. QED
      BY <2>2, <2>3, <2>4, <2>5
  <1>5. CASE op.kind = "blacklist"
    <2>1. black' = op.black /\ held' = (held \cup op.ban) \ op.lift
      BY <1>1, <1>5 DEF SaveBlacklist
    <2>2. \/ /\ op' = Idle /\ shown = 0
          \/ /\ op'.step = "stop" /\ op'.kind = op.kind
             /\ op'.pool = op.pool /\ op'.black = op.black
      BY <1>1, <1>5, GotoFields DEF SaveBlacklist, Restarts, Finish
    <2>3. op.black = (black \cup op.ban) \ op.lift /\ op.pool = pool
      BY <1>1, <1>5 DEF Locals
    <2>4. Locals'
      BY <1>1, <1>3, <1>5, <2>1, <2>2, IdleFields DEF Locals
    <2>5. OneManaged' /\ Kept'
      BY <1>1, <1>2, <1>3, <1>5, <2>1, <2>2, <2>3, IdleFields
         DEF OneManaged, Kept, FetchSavedBlack
    <2>6. Agreeing'
      BY <1>1, <1>2, <1>3, <1>5, <2>1, <2>2, <2>3, IdleFields
         DEF Agreeing, FetchSavedProxies, FetchSavedBlack
    <2>7. Usable'
      BY <1>1, <1>2, <1>3, <1>5, <2>1, <2>3
         DEF Usable, Agreeing, FetchSavedProxies, Locals
    <2>8. Config'
      BY <1>1, <1>2, <1>3, <1>5, <2>1, <2>2, IdleFields DEF Config, Quiet, OneManaged
    <2>9. QED
      BY <2>4, <2>5, <2>6, <2>7, <2>8
  <1>6. QED
    BY <1>1, <1>4, <1>5

\* Removing a file that cannot be renamed over keeps the invariant.
LEMMA RemoveOldInv ==
    ASSUME TypeOK, Others, RemoveOld
    PROVE  Others'
  <1> USE DEF Others
  <1>1. op \in Ops /\ op.step \in Files /\ up
    BY AtWork, UpAtWork DEF RemoveOld, Files
  <1>2. /\ disk'[op.step] = {}
        /\ \A f \in Files \ {op.step} : disk'[f] = disk[f]
        /\ removed' = removed \cup {op.step}
    BY <1>1 DEF RemoveOld, TypeOK
  <1>3. UNCHANGED <<up, pool, black, op, live, shown, fwds, held, failed, torn>>
    BY DEF RemoveOld, memory, process
  <1>4. Locals' /\ OneManaged'
    BY <1>3 DEF Locals, OneManaged
  <1>5. Kept'
    BY <1>1, <1>2, <1>3 DEF Kept, FetchSavedBlack, Files
  <1>6. Agreeing'
    <2>1. \A f \in removed' : disk'[f] = {}
      BY <1>1, <1>2 DEF Agreeing, TypeOK
    <2>2. QED
      BY <1>1, <1>2, <1>3, <2>1 DEF Agreeing, FetchSavedProxies, FetchSavedBlack, Files
  <1>7. Usable'
    BY <1>1, <1>2, <1>3 DEF Usable, Available, Files
  <1>8. Config'
    BY <1>1, <1>2, <1>3 DEF Config, Quiet, Files, Available, Ops
  <1>9. QED
    BY <1>4, <1>5, <1>6, <1>7, <1>8

\* Stopping the running process keeps the invariant.
LEMMA StopOkInv ==
    ASSUME TypeOK, Others, StopOk
    PROVE  Others'
  <1> USE DEF Others
  <1>1. op \in Ops /\ op.step = "stop" /\ up /\ op.kind \in {"fetch", "blacklist", "stop"}
    BY AtWork, UpAtWork DEF StopOk, Locals, Ops
  <1>2. /\ shown = 0
        /\ UNCHANGED <<up, pool, black, disk, live, shown, fwds, removed, held, failed, torn>>
    BY DEF StopOk, memory, process, history
  <1>3. \/ op.kind = "stop" /\ op' = Idle
        \/ /\ op.kind # "stop"
           /\ op'.step = "launch" /\ op'.kind = op.kind
           /\ op'.pool = op.pool /\ op'.black = op.black
    BY <1>1, GotoFields DEF StopOk, Finish
  <1>4. Locals'
    BY <1>1, <1>2, <1>3, IdleFields DEF Locals
  <1>5. OneManaged' /\ Kept'
    BY <1>1, <1>2, <1>3, IdleFields DEF OneManaged, Kept, FetchSavedBlack
  <1>6. Agreeing' /\ Usable'
    BY <1>1, <1>2, <1>3, IdleFields DEF Agreeing, Usable, FetchSavedProxies, FetchSavedBlack
  <1>7. Config'
    BY <1>1, <1>2, <1>3, IdleFields DEF Config, Quiet, OneManaged
  <1>8. QED
    BY <1>4, <1>5, <1>6, <1>7

\* Launching a process keeps the invariant.
LEMMA LaunchInv ==
    ASSUME TypeOK, Others, Launch
    PROVE  Others'
  <1> USE DEF Others
  <1>1. op \in Ops /\ op.step = "launch" /\ up /\ op.kind \in {"fetch", "blacklist", "start"}
    BY AtWork, UpAtWork DEF Launch, Locals, Ops
  <1>2. /\ live' = 1 /\ shown' = 1 /\ fwds' = {}
        /\ UNCHANGED <<up, pool, black, disk, removed, held, torn>>
    BY DEF Launch, M!Launch, memory
  <1>3. \/ op.kind # "fetch" /\ op' = Idle
        \/ /\ op.kind = "fetch"
           /\ op'.step = "commit" /\ op'.kind = op.kind
           /\ op'.pool = op.pool /\ op'.black = op.black
    BY <1>1, GotoFields DEF Launch, Finish
  <1>4. Locals'
    BY <1>1, <1>2, <1>3, IdleFields DEF Locals
  <1>5. OneManaged' /\ Kept'
    BY <1>1, <1>2, <1>3, IdleFields DEF OneManaged, Kept, FetchSavedBlack
  <1>6. Agreeing' /\ Usable'
    BY <1>1, <1>2, <1>3, IdleFields DEF Agreeing, Usable, FetchSavedProxies, FetchSavedBlack
  <1>7. op.kind # "fetch" => op.black = black
    BY <1>1 DEF Locals
  <1>8. Config'
    BY <1>1, <1>2, <1>3, <1>7, IdleFields DEF Config, Quiet, Available
  <1>9. QED
    BY <1>4, <1>5, <1>6, <1>8

\* Updating the memory at the end of an operation keeps the invariant.
LEMMA CommitInv ==
    ASSUME TypeOK, Others, CommitOp
    PROVE  Others'
  <1> USE DEF Others
  <1>1. op \in Ops /\ op.step = "commit" /\ up /\ op.kind = "fetch"
    BY AtWork, UpAtWork DEF CommitOp, Config
  <1>2. /\ op' = Idle /\ pool' = op.pool /\ black' = op.black
        /\ UNCHANGED <<up, disk, live, shown, fwds, removed, held, failed>>
    BY DEF CommitOp, CommittedBlack, Finish, process
  <1>3. Locals' /\ OneManaged'
    BY <1>1, <1>2, IdleFields DEF Locals, OneManaged
  <1>4. Kept' /\ Agreeing'
    BY <1>1, <1>2, IdleFields DEF Kept, Agreeing, FetchSavedProxies, FetchSavedBlack
  <1>5. Usable'
    BY <1>1, <1>2 DEF Usable, Agreeing, FetchSavedProxies, FetchSavedBlack, Locals
  <1>6. Config'
    BY <1>1, <1>2, IdleFields DEF Config, Quiet, Available
  <1>7. QED
    BY <1>3, <1>4, <1>5, <1>6

\* Returning at an error keeps the invariant.
LEMMA AbortInv ==
    ASSUME TypeOK, Others, Abort
    PROVE  Others'
  <1> USE DEF Others
  <1>1. op \in Ops /\ up
    BY AtWork, UpAtWork DEF Abort
  <1>2. /\ op' = Idle
        /\ UNCHANGED <<up, pool, black, disk, live, shown, fwds, removed, held>>
    BY DEF Abort, Finish, memory, process
  <1>3. /\ torn \/ FetchSavedProxies => torn'
        /\ failed => failed'
        /\ op.kind # "stop" /\ op.step # "config" => failed'
    BY DEF Abort, FetchSavedProxies
  <1>4. Locals' /\ OneManaged' /\ Kept'
    BY <1>1, <1>2, IdleFields DEF Locals, OneManaged, Kept, FetchSavedBlack
  <1>5. Agreeing' /\ Usable'
    BY <1>1, <1>2, <1>3, IdleFields DEF Agreeing, Usable, FetchSavedProxies, FetchSavedBlack
  <1>6. Config'
    BY <1>1, <1>2, <1>3, IdleFields DEF Config, Quiet
  <1>7. QED
    BY <1>4, <1>5, <1>6

\* The managed process: the handlers' state is left alone.
LEMMA ProcessInv ==
    ASSUME TypeOK, Others, ReadConfig \/ ProcessExit \/ ManagerNotices
    PROVE  Others'
  <1> USE DEF Others
  <1>1. UNCHANGED <<up, pool, black, disk, op, removed, held, failed, torn>>
    BY DEF ReadConfig, ProcessExit, ManagerNotices, memory, history
  <1>2. Locals' /\ Kept' /\ Agreeing' /\ Usable'
    BY <1>1 DEF Locals, Kept, Agreeing, Usable, FetchSavedProxies, FetchSavedBlack
  <1>3. CASE ReadConfig
    <2>1. live # 0 /\ fwds' = disk.config /\ UNCHANGED <<live, shown>>
      BY <1>3 DEF ReadConfig
    <2>2. OneManaged'
      BY <1>1, <2>1 DEF OneManaged
    <2>3. Config'
      BY <1>1, <2>1 DEF Config, Quiet, Available
    <2>4. QED
      BY <1>2, <2>2, <2>3
  <1>4. CASE ProcessExit
    <2>1. live' = 0 /\ fwds' = {}
      BY <1>4 DEF ProcessExit, M!Exit
    <2>2. QED
      BY <1>1, <1>2, <2>1 DEF OneManaged, Config, Quiet
  <1>5. CASE ManagerNotices
    <2>1. live = 0 /\ live' = 0 /\ fwds' = fwds
      BY <1>5 DEF ManagerNotices, M!Notice
    <2>2. QED
      BY <1>1, <1>2, <2>1 DEF OneManaged, Config, Quiet
  <1>6. QED
    BY <1>3, <1>4, <1>5

\* Death of the GUI and loading from the files keep the invariant.
LEMMA RestartInv ==
    ASSUME TypeOK, Others, Die \/ Load
    PROVE  Others'
  <1> USE DEF Others
  <1>1. CASE Die
    <2>1. /\ ~up' /\ op' = Idle /\ live' = 0 /\ fwds' = {}
          /\ UNCHANGED <<disk, removed, held, failed, torn>>
      BY <1>1 DEF Die, history
    <2>2. QED
      BY <2>1, IdleFields DEF Locals, OneManaged, Kept, Agreeing, Usable, Config,
                              FetchSavedProxies, FetchSavedBlack
  <1>2. CASE Load
    <2>1. /\ ~up /\ up' /\ pool' = disk.proxies /\ black' = disk.blacklist
          /\ UNCHANGED <<disk, op, live, shown, fwds, failed, torn>>
          /\ removed' = {}
          /\ held' = IF "blacklist" \in removed THEN {} ELSE held
      BY <1>2 DEF Load, process
    <2>2. op = Idle /\ op' = Idle
      BY <2>1 DEF Locals
    <2>3. live = 0
      BY <2>1 DEF OneManaged
    <2>4. QED
      BY <2>1, <2>2, <2>3, IdleFields
         DEF Locals, OneManaged, Kept, Agreeing, Usable, Config,
             FetchSavedProxies, FetchSavedBlack
  <1>3. QED
    BY <1>1, <1>2

-----------------------------------------------------------------------------
(* Type correctness.                                                       *)

\* Goto to a step of the handlers keeps the operation's type.
LEMMA GotoType ==
    ASSUME op \in Ops, NEW s, Goto(s),
           s \in {"config", "proxies", "blacklist", "stop", "launch", "commit"}
    PROVE  op' \in Ops
  BY DEF Goto, Ops

\* A file replaced by one of its type keeps the disk's type.
LEMMA DiskType ==
    ASSUME TypeOK
    PROVE  /\ disk.proxies \subseteq Proxies /\ disk.blacklist \subseteq Proxies
           /\ disk.config \subseteq Proxies
  BY DEF TypeOK, Files

\* Every variable keeps its type.
LEMMA TypeStep ==
    ASSUME TypeOK, Others, [AppNext]_appVars
    PROVE  TypeOK'
  <1> USE DEF TypeOK
  <1>1. CASE Handlers
    <2>1. UNCHANGED <<up, pool, black, disk, live, shown, fwds, removed, held, failed, torn>>
      BY <1>1 DEF Handlers, FetchBegin, BanBegin, LiftBegin, StartBegin, StopBegin, Begin,
                  memory, process, history
    <2>2. op' \in Ops
      <3>1. CASE \E fetched \in SUBSET Proxies : FetchBegin(fetched)
        BY <3>1 DEF FetchBegin, Begin, PruneBlacklist, Ops
      <3>2. CASE \E p \in Proxies : BanBegin(p)
        BY <3>2 DEF BanBegin, Begin, Ops
      <3>3. CASE \E p \in Proxies : LiftBegin(p)
        BY <3>3 DEF LiftBegin, Begin, Ops
      <3>4. CASE StartBegin
        BY <3>4 DEF StartBegin, Begin, Ops
      <3>5. CASE StopBegin
        BY <3>5 DEF StopBegin, Idle, Ops
      <3>6. QED
        BY <1>1, <3>1, <3>2, <3>3, <3>4, <3>5 DEF Handlers
    <2>3. banned' \subseteq Proxies
      BY <1>1 DEF Handlers, FetchBegin, BanBegin, LiftBegin, StartBegin, StopBegin, Begin,
                  history
    <2>4. QED
      BY <2>1, <2>2, <2>3
  <1>2. CASE WriteConfig
    <2>1. op \in Ops /\ op.step = "config"
      BY <1>2, AtWork DEF WriteConfig
    <2>2. op.kind \in {"fetch", "blacklist", "start"}
      BY <2>1 DEF Others, Locals, Ops
    <2>3. AfterConfig \in {"proxies", "blacklist", "launch"}
      BY <2>2 DEF AfterConfig
    <2>4. op' \in Ops
      BY <1>2, <2>1, <2>3, GotoType DEF WriteConfig
    <2>5. Available(op.pool, op.black) \subseteq Proxies
      BY <2>1 DEF Ops, Available
    <2>6. QED
      BY <1>2, <2>4, <2>5 DEF WriteConfig, Replace, Files, memory, process
  <1>3. CASE SaveProxies
    <2>1. op \in Ops /\ op.pool \subseteq Proxies
      BY <1>3, AtWork DEF SaveProxies, Ops
    <2>2. op' \in Ops
      BY <1>3, <2>1, GotoType DEF SaveProxies
    <2>3. QED
      BY <1>3, <2>1, <2>2 DEF SaveProxies, Replace, Files, memory, process
  <1>4. CASE SaveBlacklist
    <2>1. /\ op \in Ops /\ op.black \subseteq Proxies
          /\ op.ban \subseteq Proxies /\ op.lift \subseteq Proxies
      BY <1>4, AtWork DEF SaveBlacklist, Ops
    <2>2. op' = Idle \/ op' \in Ops
      BY <1>4, <2>1, GotoType DEF SaveBlacklist, Finish
    <2>3. disk' \in [Files -> SUBSET Proxies]
      BY <1>4, <2>1 DEF SaveBlacklist, SavedBlacklist, Replace, Files
    <2>4. /\ black' \subseteq Proxies /\ held' \subseteq Proxies
          /\ banned' \subseteq Proxies
      BY <1>4, <2>1 DEF SaveBlacklist
    <2>5. QED
      BY <1>4, <2>2, <2>3, <2>4 DEF SaveBlacklist, Replace, process
  <1>5. CASE StopOk
    <2>1. op' = Idle \/ op' \in Ops
      BY <1>5, AtWork, GotoType DEF StopOk, Finish
    <2>2. QED
      BY <1>5, <2>1 DEF StopOk, memory, process, history
  <1>6. CASE Launch
    <2>1. op' = Idle \/ op' \in Ops
      BY <1>6, AtWork, GotoType DEF Launch, Finish
    <2>2. QED
      BY <1>6, <2>1 DEF Launch, M!Launch, memory
  <1>7. CASE CommitOp
    <2>1. op \in Ops /\ op.pool \subseteq Proxies /\ op.black \subseteq Proxies
      BY <1>7, AtWork DEF CommitOp, Ops
    <2>2. QED
      BY <1>7, <2>1 DEF CommitOp, CommittedBlack, Finish, process
  <1>8. CASE Abort
    <2>1. failed' \in BOOLEAN /\ torn' \in BOOLEAN
      BY <1>8, Zenon DEF Abort
    <2>2. QED
      BY <1>8, <2>1 DEF Abort, Finish, memory, process
  <1>9. CASE ReadConfig \/ ProcessExit \/ ManagerNotices
    BY <1>9, DiskType DEF ReadConfig, ProcessExit, ManagerNotices, M!Exit, M!Notice,
                          memory, history
  <1>10. CASE Die \/ Load
    <2>1. CASE Die
      <3>1. up' \in BOOLEAN /\ UNCHANGED <<disk, removed, held, banned, failed, torn>>
        BY <2>1, Zenon DEF Die, history
      <3>2. /\ op' = Idle /\ pool' = {} /\ black' = {}
            /\ live' = 0 /\ shown' = 0 /\ fwds' = {}
        BY <2>1 DEF Die
      <3>3. QED
        BY <3>1, <3>2
    <2>2. CASE Load
      <3>1. up' \in BOOLEAN /\ UNCHANGED <<disk, op, live, shown, fwds, failed, torn>>
        BY <2>2, Zenon DEF Load, process
      <3>2. /\ pool' \subseteq Proxies /\ black' \subseteq Proxies
            /\ removed' \subseteq Files
            /\ held' \subseteq Proxies /\ banned' \subseteq Proxies
        BY <2>2, DiskType DEF Load
      <3>3. QED
        BY <3>1, <3>2
    <2>3. QED
      BY <1>10, <2>1, <2>2
  <1>11. CASE RemoveOld
    BY <1>11 DEF RemoveOld, memory, process
  <1>12. CASE UNCHANGED appVars
    BY <1>12 DEF appVars
  <1>13. QED
    BY <1>1, <1>2, <1>3, <1>4, <1>5, <1>6, <1>7, <1>8, <1>9, <1>10, <1>11, <1>12
       DEF AppNext, OpStep

-----------------------------------------------------------------------------

\* The invariant holds before the first start.
LEMMA InitInv == AppInit => TypeOK /\ Others
  <1> SUFFICES ASSUME AppInit PROVE TypeOK /\ Others
    OBVIOUS
  <1>1. TypeOK
    BY DEF AppInit, TypeOK
  <1>2. Others
    BY IdleFields DEF AppInit, Files, Others, Locals, OneManaged, Kept, Agreeing, Usable, Config,
                      FetchSavedProxies, FetchSavedBlack
  <1>3. QED
    BY <1>1, <1>2

\* Every step keeps types and invariant.
LEMMA NextInv ==
    ASSUME TypeOK, Others, [AppNext]_appVars
    PROVE  TypeOK' /\ Others'
  <1>1. TypeOK'
    BY TypeStep
  <1>2. Others'
    <2>1. CASE UNCHANGED appVars
      BY <2>1 DEF appVars, Others, Locals, OneManaged, Kept, Agreeing, Usable, Config, Quiet,
                  FetchSavedProxies, FetchSavedBlack
    <2>2. CASE OpStep
      BY <2>2, RemoveOldInv, WriteConfigInv, SaveProxiesInv, SaveBlacklistInv, StopOkInv, LaunchInv,
         CommitInv, AbortInv DEF OpStep
    <2>3. QED
      BY <2>1, <2>2, BeginInv, ProcessInv, RestartInv DEF AppNext
  <1>3. QED
    BY <1>1, <1>2

\* The inductive invariant holds in every reachable state.
LEMMA Invariance == AppSpec => [](TypeOK /\ Others)
  BY InitInv, NextInv, PTL DEF AppSpec

\* Every variable of the GUI's operations keeps its type for any set of
\* proxies; an operation that holds operationMu always has a step to take.
THEOREM TypeCorrect == AppSpec => []TypeOK
  BY Invariance, PTL

\* A blacklisting that was carried out is on the disk until it is taken back
\* or a fetch drops it, for any set of proxies, failures and deaths; while a
\* failed replacement has left no blacklist.json it is in the GUI's memory.
THEOREM BlacklistSurvivesHolds == AppSpec => []BlacklistSurvives
  <1>1. Others => BlacklistSurvives
    BY DEF Others, Kept, BlacklistSurvives
  <1>2. QED
    BY Invariance, <1>1, PTL

\* Between operations the memory and the files agree, unless a fetch failed
\* after replacing proxies.json or a failed replacement removed the file.
THEOREM DiskIsMemoryHolds == AppSpec => []DiskIsMemory
  <1>1. Others => DiskIsMemory
    BY IdleFields DEF Others, Agreeing, FetchSavedProxies, FetchSavedBlack, DiskIsMemory
  <1>2. QED
    BY Invariance, <1>1, PTL

\* Unless a fetch failed half way, no pool is without a usable proxy.
THEOREM UsableUnlessTornHolds == AppSpec => []UsableUnlessTorn
  <1>1. Others => UsableUnlessTorn
    BY DEF Others, Usable, UsableUnlessTorn
  <1>2. QED
    BY Invariance, <1>1, PTL

\* Between operations the running process forwards to no blacklisted proxy,
\* unless an operation failed half way since its launch.
THEOREM RunningAvoidsBlacklistHolds == AppSpec => []RunningAvoidsBlacklist
  <1>1. Others => RunningAvoidsBlacklist
    BY IdleFields DEF Others, OneManaged, Config, Quiet, RunningAvoidsBlacklist
  <1>2. QED
    BY Invariance, <1>1, PTL

-----------------------------------------------------------------------------
(* The settings: types.                                                    *)

Vals    == Workers \cup Protocols \cup SourceLists \cup {8, "socks5", "none", "seed"}
Setting == [Fields -> Vals]

Lives == {"down", "settings", "fofa", "hunter", "fill fofa", "fill hunter", "up"}
Steps == {"none", "wait", "save", "commit", "rename", "again"}
Kinds == {"none", "settings"} \cup Providers

SettingsPatch == Patches \cup Fetches
ConfigPatch   == [config : Configs]

Req == [step : Steps, kind : Kinds, patch : {<< >>} \cup SettingsPatch \cup ConfigPatch,
        new : {<< >>} \cup Setting]

SettingsTypeOK ==
    /\ life \in Lives
    /\ settings \in Setting /\ done \in Setting
    /\ file \in SUBSET Setting
    /\ provider \in [Providers -> Configs \cup {Missing, Blank, NoKey}]
    /\ kept \in [Providers -> Configs \cup {NoKey}]
    /\ lost \subseteq Providers
    /\ mutex \in Clients \cup {None}
    /\ req \in [Clients -> Req]

\* A request has the patch of its kind and stands at a step of its kind.
ReqKind ==
    \A c \in Clients :
        /\ req[c].kind = "none" => req[c].step = "none"
        /\ req[c].kind = "settings" =>
              req[c].patch \in SettingsPatch /\ req[c].step \in {"wait", "save", "commit"}
        /\ req[c].kind \in Providers =>
              req[c].patch \in ConfigPatch /\ req[c].step \in {"wait", "rename", "again"}

\* Who is past its wait holds operationMu, and there are requests only while
\* the GUI is up.
Exclusive ==
    /\ \A c \in Clients : req[c].step \notin {"none", "wait"} => mutex = c
    /\ life # "up" => mutex = None /\ \A c \in Clients : req[c] = NoReq

Loaded == life \notin {"down", "settings"}

\* The file holds every change that was saved.  Once it is loaded, so does the
\* memory, but between the save and the commit of a request.
FileIsDone ==
    /\ file = {} \/ file = {done}
    /\ Loaded => file = {done}
    /\ Loaded => settings = done \/ \E c \in Clients : req[c].step = "commit"

\* What a request writes is its patch on top of every change before it.
NewIsPatched ==
    \A c \in Clients :
        /\ req[c].step = "save" => settings = done /\ req[c].new = ApplyPatch(done, req[c].patch)
        /\ req[c].step = "commit" => req[c].new = done

\* What the load validates again passed its validation when it was stored.
FilesValid ==
    /\ \A s \in file : Validate(s)
    /\ \A p \in Providers : provider[p] # BadEndpoint

\* What is stored was validated.
StoredValid ==
    /\ FilesValid
    /\ \A c \in Clients : req[c].step = "again" => req[c].patch.config # BadEndpoint
    /\ \A p \in Providers : life = Filling(p) => provider[p] = Blank

\* The inductive invariant.
SettingsInv ==
    /\ SettingsTypeOK /\ ReqKind /\ Exclusive /\ FileIsDone /\ NewIsPatched
    /\ StoredValid /\ ConfigKept

-----------------------------------------------------------------------------
(* The settings: the invariant is inductive.                               *)

\* A patch of settings gives settings.
LEMMA ApplyPatchType ==
    ASSUME NEW s \in Setting, NEW patch \in SettingsPatch
    PROVE  ApplyPatch(s, patch) \in Setting
  <1>1. ASSUME NEW f \in Fields, f \in DOMAIN patch PROVE patch[f] \in Vals
    <2>1. CASE patch \in Patches
      BY <1>1, <2>1 DEF Patches, Vals
    <2>2. CASE patch \in Fetches
      BY <1>1, <2>2 DEF Fetches, Vals
    <2>3. QED
      BY <2>1, <2>2 DEF SettingsPatch
  <1>2. QED
    BY <1>1 DEF ApplyPatch, Setting

\* The settings of a new installation are settings and pass their validation.
LEMMA DefaultType ==
    /\ Default \in Setting /\ Seeded \in Setting
    /\ Validate(Seeded)
  BY DEF Default, Seeded, Setting, Fields, Vals, Validate

\* A request that nobody makes.
LEMMA NoReqType == NoReq \in Req /\ NoReq.step = "none" /\ NoReq.kind = "none"
  BY DEF NoReq, Req, Steps, Kinds

LEMMA SettingsInitInv == SettingsInit => SettingsInv
  <1> SUFFICES ASSUME SettingsInit PROVE SettingsInv
    OBVIOUS
  <1>1. SettingsTypeOK
    BY DefaultType, NoReqType DEF SettingsInit, SettingsTypeOK, Lives
  <1>2. ReqKind /\ Exclusive /\ NewIsPatched
    BY NoReqType DEF SettingsInit, ReqKind, Exclusive, NewIsPatched, Providers
  <1>3. FileIsDone /\ StoredValid /\ ConfigKept
    BY NoReqType DEF SettingsInit, FileIsDone, Loaded, StoredValid, FilesValid, Filling,
       ConfigKept, Missing, BadEndpoint
  <1>4. QED
    BY <1>1, <1>2, <1>3 DEF SettingsInv

\* A request is made.
LEMMA ArriveInv ==
    ASSUME SettingsInv, NEW c \in Clients, Arrive(c)
    PROVE  SettingsInv'
  <1> USE DEF SettingsInv
  <1>1. PICK kind \in {"settings"} \cup Providers, patch \in SettingsPatch \cup ConfigPatch :
            /\ req' = [req EXCEPT ![c] = Request(kind, patch)]
            /\ kind = "settings" => patch \in SettingsPatch
            /\ kind \in Providers => patch \in ConfigPatch
    <2>1. CASE \E p \in SettingsPatch : req' = [req EXCEPT ![c] = Request("settings", p)]
      BY <2>1 DEF Providers
    <2>2. CASE \E p \in Providers, k \in Configs :
                   req' = [req EXCEPT ![c] = Request(p, [config |-> k])]
      <3>1. PICK p \in Providers, k \in Configs :
                req' = [req EXCEPT ![c] = Request(p, [config |-> k])]
        BY <2>2
      <3>2. [config |-> k] \in ConfigPatch
        BY DEF ConfigPatch
      <3>3. p # "settings"
        BY DEF Providers
      <3>4. QED
        BY <3>1, <3>2, <3>3
    <2>3. QED
      BY <2>1, <2>2 DEF Arrive, SettingsPatch
  <1>2. /\ life = "up" /\ req[c].step = "none"
        /\ UNCHANGED <<life, settings, file, provider, mutex, done, kept, lost>>
    BY NoReqType DEF Arrive
  <1>3. Request(kind, patch) \in Req
    BY DEF Request, Req, Steps, Kinds
  <1>4. SettingsTypeOK'
    BY <1>1, <1>2, <1>3 DEF SettingsTypeOK
  <1>5. \A d \in Clients \ {c} : req'[d] = req[d]
    BY <1>1 DEF SettingsTypeOK
  <1>6. req'[c] = Request(kind, patch)
    BY <1>1 DEF SettingsTypeOK
  <1>7. ReqKind'
    BY <1>1, <1>5, <1>6 DEF ReqKind, Request, Providers
  <1>8. Exclusive' /\ NewIsPatched' /\ FileIsDone'
    BY <1>2, <1>5, <1>6 DEF Exclusive, NewIsPatched, FileIsDone, Loaded, Request
  <1>9. StoredValid' /\ ConfigKept'
    BY <1>2, <1>5, <1>6 DEF StoredValid, FilesValid, ConfigKept, Request, Filling
  <1>10. QED
    BY <1>4, <1>7, <1>8, <1>9

\* A handler takes operationMu: nobody is between a save and its commit, so the
\* settings it reads hold every change.
LEMMA LockInv ==
    ASSUME SettingsInv, NEW c \in Clients, Lock(c)
    PROVE  SettingsInv'
  <1> USE DEF SettingsInv
  <1> DEFINE new == IF req[c].kind = "settings" THEN ApplyPatch(settings, req[c].patch) ELSE << >>
  <1>1. /\ req[c].step = "wait" /\ mutex = None /\ mutex' = c
        /\ req' = [req EXCEPT ![c].step = FirstStep(c), ![c].new = new]
        /\ UNCHANGED <<life, settings, file, provider, done, kept, lost>>
    BY DEF Lock, CanLock
  <1>2. \A d \in Clients : req[d].step \in {"none", "wait"}
    BY <1>1, GuiSettingsAssumption DEF Exclusive
  <1>3. life = "up" /\ settings = done
    BY <1>1, <1>2, NoReqType DEF Exclusive, FileIsDone, Loaded
  <1>4. new \in {<< >>} \cup Setting
    BY ApplyPatchType DEF ReqKind, SettingsTypeOK
  <1>5. /\ req'[c].step = FirstStep(c) /\ req'[c].new = new
        /\ req'[c].kind = req[c].kind /\ req'[c].patch = req[c].patch
        /\ req'[c] \in Req
    BY <1>1, <1>4 DEF SettingsTypeOK, Req, FirstStep, Steps
  <1>6. \A d \in Clients \ {c} : req'[d] = req[d]
    BY <1>1 DEF SettingsTypeOK
  <1>7. SettingsTypeOK'
    BY <1>1, <1>5, <1>6 DEF SettingsTypeOK
  <1>8. ReqKind'
    BY <1>1, <1>5, <1>6 DEF ReqKind, FirstStep, Providers
  <1>9. Exclusive'
    BY <1>1, <1>2, <1>3, <1>6 DEF Exclusive
  <1>a. UNCHANGED <<life, settings, file, done>>
    BY <1>1
  <1>10. FileIsDone'
    BY <1>3, <1>a DEF FileIsDone, Loaded
  <1>11. NewIsPatched'
    <2>1. ASSUME NEW d \in Clients, d # c PROVE req'[d].step \notin {"save", "commit"}
      BY <1>2, <1>6, <2>1
    <2>2. req'[c].step # "commit"
      BY <1>5 DEF FirstStep
    <2>3. req'[c].step = "save" => req'[c].new = ApplyPatch(done, req'[c].patch)
      BY <1>3, <1>5 DEF FirstStep
    <2>4. QED
      BY <1>3, <1>a, <2>1, <2>2, <2>3 DEF NewIsPatched, ApplyPatch
  <1>12. StoredValid' /\ ConfigKept'
    <2>1. \A d \in Clients : req'[d].step # "again"
      BY <1>2, <1>5, <1>6 DEF FirstStep
    <2>2. UNCHANGED <<life, file, provider, kept, lost>>
      BY <1>1
    <2>3. QED
      BY <2>1, <2>2 DEF StoredValid, FilesValid, ConfigKept, Filling
  <1>13. QED
    BY <1>7, <1>8, <1>9, <1>10, <1>11, <1>12

\* A handler answers an error: nothing is written.
LEMMA RefuseInv ==
    ASSUME SettingsInv, NEW c \in Clients, Refuse(c), req[c].step # "commit",
           req[c].step \notin {"none", "wait"},
           UNCHANGED <<life, settings, file, provider, done, kept, lost>>
    PROVE  SettingsInv'
  <1> USE DEF SettingsInv
  <1>1. /\ mutex = c /\ mutex' = None
        /\ req'[c] = NoReq /\ \A d \in Clients \ {c} : req'[d] = req[d]
        /\ req' \in [Clients -> Req]
    BY NoReqType DEF Refuse, FreeAfterError, SettingsTypeOK, Exclusive
  <1>2. \A d \in Clients \ {c} : req[d].step \in {"none", "wait"}
    BY <1>1 DEF Exclusive
  <1>3. \A d \in Clients : req'[d].step \in {"none", "wait"}
    BY <1>1, <1>2, NoReqType
  <1>4. SettingsTypeOK'
    BY <1>1 DEF SettingsTypeOK
  <1>5. ReqKind'
    BY <1>1, NoReqType DEF ReqKind, Providers
  <1>6. Exclusive'
    BY <1>1, <1>3 DEF Exclusive
  <1>7. FileIsDone'
    <2>1. Loaded => settings = done
      BY <1>2 DEF FileIsDone
    <2>2. QED
      BY <2>1 DEF FileIsDone, Loaded
  <1>8. NewIsPatched'
    BY <1>3 DEF NewIsPatched
  <1>9. StoredValid' /\ ConfigKept'
    BY <1>3 DEF StoredValid, FilesValid, ConfigKept, Filling
  <1>10. QED
    BY <1>4, <1>5, <1>6, <1>7, <1>8, <1>9

\* A save writes every change there was and its own.
LEMMA SaveInv ==
    ASSUME SettingsInv, NEW c \in Clients, Save(c)
    PROVE  SettingsInv'
  <1> USE DEF SettingsInv
  <1>1. /\ req[c].step = "save" /\ Valid(c) /\ mutex = c
        /\ file' = {req[c].new} /\ done' = ApplyPatch(done, req[c].patch)
        /\ UNCHANGED <<life, settings, provider, mutex, kept, lost>>
    BY DEF Save, Exclusive
  <1>2. req[c].kind = "settings" /\ req[c].patch \in SettingsPatch
    BY <1>1 DEF ReqKind, SettingsTypeOK, Req, Kinds
  <1>3. /\ req'[c].step = "commit" /\ req'[c].new = req[c].new
        /\ req'[c].kind = req[c].kind /\ req'[c].patch = req[c].patch
        /\ req'[c] \in Req
        /\ \A d \in Clients \ {c} : req'[d] = req[d]
        /\ req' \in [Clients -> Req]
    BY DEF Save, SettingsTypeOK, Req, Steps
  <1>4. done' = req[c].new /\ done' \in Setting
    BY <1>1, <1>2, ApplyPatchType DEF NewIsPatched, SettingsTypeOK
  <1>5. \A d \in Clients \ {c} : req'[d].step \in {"none", "wait"}
    BY <1>1, <1>3 DEF Exclusive
  <1>6. Validate(req[c].new)
    BY <1>1, <1>2 DEF Valid
  <1>7. life = "up"
    BY <1>1, NoReqType DEF Exclusive
  <1>8. SettingsTypeOK'
    BY <1>1, <1>3, <1>4 DEF SettingsTypeOK
  <1>9. ReqKind'
    BY <1>2, <1>3 DEF ReqKind, Providers
  <1>10. Exclusive'
    BY <1>1, <1>5, <1>7 DEF Exclusive
  <1>11. FileIsDone'
    BY <1>1, <1>3, <1>4 DEF FileIsDone
  <1>12. NewIsPatched'
    BY <1>3, <1>4, <1>5 DEF NewIsPatched
  <1>13. StoredValid'
    BY <1>1, <1>3, <1>5, <1>6, <1>7 DEF StoredValid, FilesValid, Filling
  <1>14. ConfigKept'
    BY <1>1 DEF ConfigKept
  <1>15. QED
    BY <1>8, <1>9, <1>10, <1>11, <1>12, <1>13, <1>14

\* A commit brings the memory up to the file.
LEMMA SettingsCommitInv ==
    ASSUME SettingsInv, NEW c \in Clients, Commit(c)
    PROVE  SettingsInv'
  <1> USE DEF SettingsInv
  <1>1. /\ req[c].step = "commit" /\ mutex = c /\ mutex' = None
        /\ settings' = req[c].new
        /\ UNCHANGED <<life, file, provider, done, kept, lost>>
    BY DEF Commit, Exclusive
  <1>2. /\ req'[c] = NoReq /\ \A d \in Clients \ {c} : req'[d] = req[d]
        /\ req' \in [Clients -> Req]
    BY NoReqType DEF Commit, SettingsTypeOK
  <1>3. \A d \in Clients : req'[d].step \in {"none", "wait"}
    BY <1>1, <1>2, NoReqType DEF Exclusive
  <1>4. settings' = done
    BY <1>1 DEF NewIsPatched
  <1>5. SettingsTypeOK'
    BY <1>1, <1>2, <1>4 DEF SettingsTypeOK
  <1>6. ReqKind'
    BY <1>2, NoReqType DEF ReqKind, Providers
  <1>7. Exclusive'
    BY <1>1, <1>2, <1>3 DEF Exclusive
  <1>8. FileIsDone' /\ NewIsPatched'
    BY <1>1, <1>3, <1>4 DEF FileIsDone, NewIsPatched, Loaded
  <1>9. StoredValid' /\ ConfigKept'
    BY <1>1, <1>3 DEF StoredValid, FilesValid, ConfigKept, Filling
  <1>10. QED
    BY <1>5, <1>6, <1>7, <1>8, <1>9

\* A provider's configuration is stored.
LEMMA StoredInv ==
    ASSUME SettingsInv, NEW c \in Clients, req[c].step \in {"rename", "again"},
           req[c].patch.config # BadEndpoint, Stored(c, req[c].kind),
           UNCHANGED <<life, settings, file, done>>
    PROVE  SettingsInv'
  <1> USE DEF SettingsInv
  <1> DEFINE p == req[c].kind
             config == req[c].patch.config
  <1>1. p \in Providers /\ config \in Configs
    BY DEF ReqKind, SettingsTypeOK, Req, Kinds, ConfigPatch
  <1> HIDE DEF p, config
  <1>2. /\ provider' = [provider EXCEPT ![p] = config]
        /\ kept' = [kept EXCEPT ![p] = config]
        /\ lost' = lost \ {p} /\ mutex' = None /\ mutex = c
    BY DEF Stored, Exclusive, p, config
  <1>3. /\ req'[c] = NoReq /\ \A d \in Clients \ {c} : req'[d] = req[d]
        /\ req' \in [Clients -> Req]
    BY NoReqType DEF Stored, SettingsTypeOK
  <1>4. \A d \in Clients : req'[d].step \in {"none", "wait"}
    BY <1>2, <1>3, NoReqType DEF Exclusive
  <1>5. life = "up" /\ settings = done
    BY <1>2, NoReqType DEF Exclusive, FileIsDone, Loaded
  <1>6. SettingsTypeOK'
    BY <1>1, <1>2, <1>3 DEF SettingsTypeOK
  <1>7. ReqKind'
    BY <1>3, NoReqType DEF ReqKind, Providers
  <1>8. Exclusive' /\ FileIsDone' /\ NewIsPatched'
    BY <1>2, <1>4, <1>5 DEF Exclusive, FileIsDone, NewIsPatched, Loaded
  <1>9. \A q \in Providers : q # p => provider'[q] = provider[q] /\ kept'[q] = kept[q]
    BY <1>1, <1>2 DEF SettingsTypeOK
  <1>10. provider'[p] = config /\ kept'[p] = config /\ config # BadEndpoint
    BY <1>1, <1>2 DEF SettingsTypeOK, config
  <1>11. StoredValid'
    BY <1>4, <1>5, <1>9, <1>10 DEF StoredValid, FilesValid, Filling
  <1>12. ConfigKept'
    BY <1>2, <1>9, <1>10 DEF ConfigKept
  <1>13. QED
    BY <1>6, <1>7, <1>8, <1>11, <1>12

\* The rename of a provider's file fails and the file is removed.
LEMMA ProviderRemoveInv ==
    ASSUME SettingsInv, NEW c \in Clients, ProviderRemove(c)
    PROVE  SettingsInv'
  <1> USE DEF SettingsInv
  <1> DEFINE p == req[c].kind
  <1>1. /\ req[c].step = "rename" /\ Valid(c) /\ mutex = c
        /\ p \in Providers /\ req[c].patch \in ConfigPatch
    BY DEF ProviderRemove, Exclusive, ReqKind, SettingsTypeOK, Req, Kinds
  <1>2. /\ provider' = [provider EXCEPT ![p] = Missing] /\ lost' = lost \cup {p}
        /\ UNCHANGED <<life, settings, file, mutex, done, kept>>
    BY DEF ProviderRemove
  <1>3. /\ req'[c].step = "again" /\ req'[c].kind = p /\ req'[c].patch = req[c].patch
        /\ \A d \in Clients \ {c} : req'[d] = req[d]
        /\ req' \in [Clients -> Req]
    BY DEF ProviderRemove, SettingsTypeOK, Req, Steps
  <1>4. req[c].patch.config # BadEndpoint
    BY <1>1 DEF Valid, Providers
  <1> HIDE DEF p
  <1>5. \A d \in Clients \ {c} : req'[d].step \in {"none", "wait"}
    BY <1>1, <1>3 DEF Exclusive
  <1>6. life = "up" /\ settings = done
    BY <1>1, NoReqType DEF Exclusive, FileIsDone, Loaded
  <1>7. SettingsTypeOK'
    BY <1>1, <1>2, <1>3 DEF SettingsTypeOK
  <1>8. ReqKind'
    BY <1>1, <1>3 DEF ReqKind, Providers
  <1>9. Exclusive' /\ FileIsDone' /\ NewIsPatched'
    BY <1>1, <1>2, <1>3, <1>5, <1>6 DEF Exclusive, FileIsDone, NewIsPatched, Loaded
  <1>10. \A q \in Providers : provider'[q] = IF q = p THEN Missing ELSE provider[q]
    BY <1>1, <1>2 DEF SettingsTypeOK
  <1>11. StoredValid'
    <2>1. \A d \in Clients : req'[d].step = "again" => req'[d].patch.config # BadEndpoint
      BY <1>3, <1>4, <1>5
    <2>2. \A q \in Providers : provider'[q] # BadEndpoint /\ life' # Filling(q)
      <3>1. life' = "up" /\ Missing # BadEndpoint
        BY <1>2, <1>6 DEF Missing, BadEndpoint
      <3>2. \A q \in Providers : provider'[q] # BadEndpoint
        BY <1>10, <3>1 DEF StoredValid, FilesValid
      <3>3. QED
        BY <3>1, <3>2 DEF Filling
    <2>3. QED
      BY <1>2, <2>1, <2>2 DEF StoredValid, FilesValid
  <1>12. ConfigKept'
    BY <1>2, <1>10 DEF ConfigKept
  <1>13. QED
    BY <1>7, <1>8, <1>9, <1>11, <1>12

\* A step of a handler that holds operationMu.
LEMMA HandlerInv ==
    ASSUME SettingsInv, NEW c \in Clients, Handler(c)
    PROVE  SettingsInv'
  <1>1. CASE Invalid(c)
    BY <1>1, RefuseInv DEF Invalid
  <1>2. CASE SaveErr(c)
    BY <1>2, RefuseInv DEF SaveErr
  <1>3. CASE ProviderErr(c)
    BY <1>3, RefuseInv DEF ProviderErr
  <1>4. CASE ProviderAgainErr(c)
    BY <1>4, RefuseInv DEF ProviderAgainErr
  <1>5. CASE ProviderRename(c)
    <2>1. req[c].kind \in Providers
      BY <1>5 DEF ProviderRename, SettingsInv, ReqKind, SettingsTypeOK, Req, Kinds
    <2>2. req[c].patch.config # BadEndpoint
      BY <1>5, <2>1 DEF ProviderRename, Valid, Providers
    <2>3. QED
      BY <1>5, <2>2, StoredInv DEF ProviderRename
  <1>6. CASE ProviderAgain(c)
    BY <1>6, StoredInv DEF ProviderAgain, SettingsInv, StoredValid
  <1>7. QED
    BY <1>1, <1>2, <1>3, <1>4, <1>5, <1>6, SaveInv, SettingsCommitInv, ProviderRemoveInv DEF Handler

\* The settings are loaded: the file is valid, or is made.
LEMMA LoadSettingsInv ==
    ASSUME SettingsInv, LoadSettings
    PROVE  SettingsInv'
  <1> USE DEF SettingsInv
  <1>1. /\ life = "settings" /\ UNCHANGED <<provider, mutex, req, kept, lost>>
        /\ mutex = None /\ \A c \in Clients : req[c] = NoReq
    BY DEF LoadSettings, Exclusive
  <1>2. /\ life' \in {"fofa", "down"} /\ settings' \in Setting /\ done' \in Setting
        /\ file' \in SUBSET Setting /\ (file' = {} \/ file' = {done'})
        /\ life' = "fofa" => file' = {done'} /\ settings' = done'
        /\ \A s \in file' : Validate(s)
    <2>1. CASE file = {}
      BY <1>1, <2>1, DefaultType DEF LoadSettings
    <2>2. CASE file # {}
      <3>1. file = {done} /\ Validate(done)
        BY <2>2 DEF FileIsDone, StoredValid, FilesValid
      <3>2. settings' = done /\ life' = "fofa" /\ UNCHANGED <<file, done>>
        BY <1>1, <2>2, <3>1 DEF LoadSettings
      <3>3. QED
        BY <3>1, <3>2 DEF SettingsTypeOK
    <2>3. QED
      BY <2>1, <2>2
  <1>3. SettingsTypeOK'
    BY <1>1, <1>2 DEF SettingsTypeOK, Lives
  <1>4. ReqKind' /\ Exclusive' /\ NewIsPatched' /\ FileIsDone'
    BY <1>1, <1>2, NoReqType DEF ReqKind, Exclusive, NewIsPatched, FileIsDone, Loaded, Providers
  <1>5. StoredValid' /\ ConfigKept'
    BY <1>1, <1>2, NoReqType DEF StoredValid, FilesValid, ConfigKept, Filling
  <1>6. QED
    BY <1>3, <1>4, <1>5

\* The providers' files are looked for, created and filled.
LEMMA ProvidersInv ==
    ASSUME SettingsInv,
           ProviderExists \/ CreateProvider \/ \E p \in Providers : FillProvider(p)
    PROVE  SettingsInv'
  <1> USE DEF SettingsInv
  <1>1. /\ life \in {"fofa", "hunter", "fill fofa", "fill hunter"}
        /\ life' \in {"fofa", "hunter", "fill fofa", "fill hunter", "up"}
        /\ UNCHANGED <<settings, file, mutex, req, done, kept, lost>>
    BY DEF ProviderExists, CreateProvider, FillProvider, Providers, AfterProvider, Filling
  <1>2. mutex = None /\ \A c \in Clients : req[c] = NoReq
    BY <1>1 DEF Exclusive
  <1> DEFINE FilesKept ==
               /\ provider' \in [Providers -> Configs \cup {Missing, Blank, NoKey}]
               /\ \A p \in Providers : provider'[p] # BadEndpoint
               /\ \A p \in Providers : life' = Filling(p) => provider'[p] = Blank
               /\ ConfigKept'
  <1>3. FilesKept
    <2>a. \A p \in Providers : provider[p] # BadEndpoint /\ kept[p] \notin {Missing, Blank}
      BY GuiSettingsAssumption DEF StoredValid, FilesValid, SettingsTypeOK, Missing, Blank, NoKey
    <2>1. CASE ProviderExists
      <3>1. provider' = provider /\ \A p \in Providers : life' # Filling(p)
        BY <2>1 DEF ProviderExists, AfterProvider, Filling
      <3>2. QED
        BY <1>1, <2>a, <3>1 DEF ConfigKept, SettingsTypeOK
    <2>2. CASE CreateProvider
      <3>1. /\ life \in Providers /\ provider[life] = Missing
            /\ provider' = [provider EXCEPT ![life] = Blank] /\ life' = Filling(life)
        BY <2>2 DEF CreateProvider, Exists
      <3>2. \A p \in Providers : provider'[p] = IF p = life THEN Blank ELSE provider[p]
        BY <3>1 DEF SettingsTypeOK
      <3>3. ConfigKept'
        BY <1>1, <2>a, <3>1, <3>2 DEF ConfigKept
      <3>4. \A p \in Providers : life' = Filling(p) => p = life
        <4>1. CASE life = "fofa"
          BY <3>1, <4>1 DEF Filling, Providers
        <4>2. CASE life = "hunter"
          BY <3>1, <4>2 DEF Filling, Providers
        <4>3. QED
          BY <3>1, <4>1, <4>2 DEF Providers
      <3>5. QED
        BY <2>a, <3>1, <3>2, <3>3, <3>4 DEF SettingsTypeOK, Blank, BadEndpoint
    <2>3. ASSUME NEW q \in Providers, FillProvider(q)
          PROVE  FilesKept
      <3>1. /\ life = Filling(q) /\ provider[q] = Blank
            /\ provider' = [provider EXCEPT ![q] = NoKey] /\ life' = AfterProvider(q)
        BY <2>3 DEF FillProvider, StoredValid
      <3>2. \A p \in Providers : provider'[p] = IF p = q THEN NoKey ELSE provider[p]
        BY <3>1 DEF SettingsTypeOK
      <3>3. ConfigKept'
        BY <1>1, <2>a, <3>1, <3>2 DEF ConfigKept
      <3>4. \A p \in Providers : life' # Filling(p)
        BY <3>1 DEF Filling, AfterProvider
      <3>5. QED
        BY <2>a, <3>1, <3>2, <3>3, <3>4 DEF SettingsTypeOK, NoKey, BadEndpoint
    <2>4. QED
      BY <2>1, <2>2, <2>3
  <1>4. SettingsTypeOK'
    BY <1>1, <1>3 DEF SettingsTypeOK, Lives
  <1>5. ReqKind' /\ Exclusive' /\ NewIsPatched' /\ FileIsDone'
    BY <1>1, <1>2, NoReqType DEF ReqKind, Exclusive, NewIsPatched, FileIsDone, Loaded, Providers
  <1>6. StoredValid'
    BY <1>1, <1>2, <1>3, NoReqType DEF StoredValid, FilesValid
  <1>7. QED
    BY <1>3, <1>4, <1>5, <1>6

\* The GUI is started, or dies.
LEMMA LifeInv ==
    ASSUME SettingsInv, Start \/ GuiDies
    PROVE  SettingsInv'
  <1> USE DEF SettingsInv
  <1>1. /\ life' \in {"down", "settings"} /\ UNCHANGED <<file, provider, done, kept, lost>>
        /\ settings' \in Setting /\ mutex' = None
        /\ req' = [c \in Clients |-> NoReq]
    <2>1. CASE GuiDies
      BY <2>1, DefaultType DEF GuiDies
    <2>2. CASE Start
      <3>1. mutex = None /\ \A c \in Clients : req[c] = NoReq
        BY <2>2 DEF Start, Exclusive
      <3>2. req = [c \in Clients |-> NoReq]
        BY <3>1 DEF SettingsTypeOK
      <3>3. QED
        BY <2>2, <3>1, <3>2 DEF Start, SettingsTypeOK
    <2>3. QED
      BY <2>1, <2>2
  <1>2. SettingsTypeOK'
    BY <1>1, NoReqType DEF SettingsTypeOK, Lives
  <1>3. ReqKind' /\ Exclusive' /\ NewIsPatched' /\ FileIsDone'
    BY <1>1, NoReqType DEF ReqKind, Exclusive, NewIsPatched, FileIsDone, Loaded, Providers
  <1>4. StoredValid' /\ ConfigKept'
    BY <1>1, NoReqType DEF StoredValid, FilesValid, ConfigKept, Filling
  <1>5. QED
    BY <1>2, <1>3, <1>4

\* Nothing happens to the settings.
LEMMA SettingsStutter ==
    ASSUME SettingsInv, UNCHANGED settingsVars
    PROVE  SettingsInv'
  <1>1. SettingsTypeOK' /\ ReqKind' /\ Exclusive' /\ FileIsDone'
    BY DEF SettingsInv, settingsVars, SettingsTypeOK, ReqKind, Exclusive, FileIsDone, Loaded
  <1>2. NewIsPatched' /\ StoredValid' /\ ConfigKept'
    BY DEF SettingsInv, settingsVars, NewIsPatched, StoredValid, FilesValid, ConfigKept
  <1>3. QED
    BY <1>1, <1>2 DEF SettingsInv

-----------------------------------------------------------------------------
(* The settings: what follows.                                             *)

\* The invariant holds in every state, whatever requests come together, whatever
\* write fails and whenever the GUI dies.
THEOREM SettingsInvariant == SettingsSpec => []SettingsInv
  <1>1. SettingsInit => SettingsInv
    BY SettingsInitInv
  <1>2. SettingsInv /\ [SettingsNext]_settingsVars => SettingsInv'
    BY ArriveInv, LockInv, HandlerInv, LoadSettingsInv, ProvidersInv, LifeInv, SettingsStutter
       DEF SettingsNext, Starting
  <1>3. QED
    BY <1>1, <1>2, PTL DEF SettingsSpec

\* No change of a setting is undone by another request that wrote back the fields
\* it had read earlier: handleSettings and handleFetch read under operationMu, and
\* the memory is behind the file only between the save and the commit of the one
\* that holds it.
THEOREM ChangesSurviveHolds == SettingsSpec => []ChangesSurvive
  <1>1. SettingsInv => ChangesSurvive
    <2> SUFFICES ASSUME SettingsInv PROVE ChangesSurvive
      OBVIOUS
    <2>1. life = "up" /\ mutex = None => \A c \in Clients : req[c].step # "commit"
      BY GuiSettingsAssumption DEF SettingsInv, Exclusive
    <2>2. QED
      BY <2>1 DEF SettingsInv, FileIsDone, Loaded, ChangesSurvive
  <1>2. QED
    BY <1>1, SettingsInvariant, PTL

\* A provider's configuration stays as it was stored last, through starts and
\* deaths at any point of ensureProviderConfig, unless a replacement removed it.
THEOREM ConfigKeptHolds == SettingsSpec => []ConfigKept
  <1>1. SettingsInv => ConfigKept
    BY DEF SettingsInv
  <1>2. QED
    BY <1>1, SettingsInvariant, PTL

-----------------------------------------------------------------------------
(* The rolling log: the invariant.                                         *)

LogTypeOK ==
    /\ files \in [Names -> Seq(Nat)]
    /\ isOpen \in BOOLEAN /\ size \in Nat
    /\ pc \in {"idle", "shift", "last", "create", "append"}
    /\ index \in 1..Backups
    /\ queued \in Seq(Nat) /\ out \in Nat /\ written \subseteq Nat

\* What waits to be written fits, and the file is closed while it is moved.
Room ==
    /\ Len(queued) <= MaxSize
    /\ pc = "append" => isOpen /\ size + Len(queued) <= MaxSize
    /\ pc \in {"shift", "last", "create"} => ~isOpen

\* The output up to now: what waits is in order and newer than what was written.
Newest ==
    /\ \A j \in 1..Len(queued) :
          /\ queued[j] <= out
          /\ \A i \in 1..Len(queued) : i < j => queued[i] < queued[j]
          /\ \A b \in written : b < queued[j]
    /\ \A b \in written : b <= out
    /\ \A k \in Names : Bytes(k) \subseteq written

\* A rotation goes from the oldest backup on, so the file it overwrites next has
\* been moved, but for the oldest one.
Gap ==
    /\ pc = "shift" /\ index < Backups => files[index + 1] = << >>
    /\ pc = "last" => files[1] = << >>
    /\ pc = "create" => files[0] = << >>

\* The inductive invariant.
LogInv == LogTypeOK /\ Room /\ Newest /\ Gap /\ WithinLimit /\ InOrder /\ LosesOldestOnly

-----------------------------------------------------------------------------
(* The rolling log: the invariant is inductive.                            *)

\* The files' part of the invariant, which only their contents and the history
\* decide.
FilesInv ==
    /\ files \in [Names -> Seq(Nat)]
    /\ \A k \in Names : Len(files[k]) <= MaxSize /\ Bytes(k) \subseteq written
    /\ InOrder /\ LosesOldestOnly

\* An empty file has no bytes.
LEMMA NoBytes ==
    ASSUME NEW k, files[k] = << >>
    PROVE  Bytes(k) = {}
  BY DEF Bytes

\* A rotation's step for file i, with what it moves or without: the next older
\* file is replaced, which was moved before or is the oldest of all.
LEMMA MoveFiles ==
    ASSUME FilesInv, files' \in [Names -> Seq(Nat)], UNCHANGED written,
           NEW i \in 0..Backups, i < Backups => files[i + 1] = << >>,
           \A k \in Names \ {i, i + 1} : files'[k] = files[k],
           \/ files'[i + 1] = files[i] /\ files'[i] = << >>
           \/ files'[i + 1] = << >> /\ files'[i] = files[i]
    PROVE  FilesInv'
  <1>1. i \in Names /\ i + 1 \in Names /\ i # i + 1 /\ Names \subseteq Nat
    BY RollingLogAssumption DEF Names
  <1>2. \A k \in Names \ {i, i + 1} : Bytes(k)' = Bytes(k)
    BY DEF Bytes
  <1>3. \/ Bytes(i + 1)' = Bytes(i) /\ Bytes(i)' = {}
        \/ Bytes(i + 1)' = {} /\ Bytes(i)' = Bytes(i)
    BY DEF Bytes
  <1> DEFINE Old(k) == IF k = i + 1 THEN i ELSE k
  <1>4. ASSUME NEW k \in Names
        PROVE  /\ Old(k) \in Names
               /\ files'[k] = files[Old(k)] \/ files'[k] = << >>
               /\ Bytes(k)' = Bytes(Old(k)) \/ Bytes(k)' = {}
    BY <1>1, <1>2, <1>3
  <1>5. \A k \in Names : Len(files'[k]) <= MaxSize /\ Bytes(k)' \subseteq written'
    <2> SUFFICES ASSUME NEW k \in Names
                 PROVE  Len(files'[k]) <= MaxSize /\ Bytes(k)' \subseteq written'
      OBVIOUS
    <2>1. PICK l \in Names : /\ files'[k] = files[l] \/ files'[k] = << >>
                             /\ Bytes(k)' = Bytes(l) \/ Bytes(k)' = {}
      BY <1>4
    <2>2. Len(files[l]) <= MaxSize /\ Len(<< >>) <= MaxSize /\ Bytes(l) \subseteq written
      BY RollingLogAssumption DEF FilesInv
    <2>3. QED
      BY <2>1, <2>2
  <1>6. InOrder'
    <2>1. ASSUME NEW k \in Names, NEW a \in DOMAIN files'[k], NEW b \in DOMAIN files'[k], a < b
          PROVE  files'[k][a] < files'[k][b]
      <3>1. PICK l \in Names : files'[k] = files[l] \/ files'[k] = << >>
        BY <1>4
      <3>2. files'[k] # << >>
        OBVIOUS
      <3>3. QED
        BY <2>1, <3>1, <3>2 DEF FilesInv, InOrder
    <2>2. ASSUME NEW k \in Names, NEW l \in Names, k < l,
                 NEW b \in Bytes(k)', NEW c \in Bytes(l)'
          PROVE  c < b
      <3>1. b \in Bytes(Old(k)) /\ c \in Bytes(Old(l))
        BY <1>4
      <3>2. ~(k = i /\ l = i + 1)
        BY <1>3
      <3>3. Old(k) < Old(l)
        BY <1>1, <2>2, <3>2
      <3>4. QED
        BY <1>4, <3>1, <3>3 DEF FilesInv, InOrder
    <2>3. QED
      BY <2>1, <2>2 DEF InOrder
  <1>7. LosesOldestOnly'
    <2> SUFFICES ASSUME NEW b \in written, b \notin UNION {Bytes(k)' : k \in Names},
                        NEW c \in UNION {Bytes(k)' : k \in Names}
                 PROVE  b < c
      BY DEF LosesOldestOnly
    <2>1. PICK l \in Names : c \in Bytes(l)'
      OBVIOUS
    <2>2. Old(l) \in Names /\ c \in Bytes(Old(l)) /\ Old(l) # i + 1
      BY <1>1, <1>4, <2>1
    <2>3. CASE b \notin UNION {Bytes(k) : k \in Names}
      BY <2>2, <2>3 DEF FilesInv, LosesOldestOnly
    <2>4. CASE b \in UNION {Bytes(k) : k \in Names}
      <3>1. PICK k \in Names : b \in Bytes(k)
        BY <2>4
      <3>2. \A m \in Names : b \notin Bytes(m)'
        OBVIOUS
      <3>3. k \in {i, i + 1}
        BY <1>2, <3>1, <3>2
      <3>4. k # i
        BY <1>1, <1>3, <3>1, <3>2
      <3>5. files[i + 1] # << >>
        BY <3>1, <3>3, <3>4, NoBytes
      <3>6. i = Backups
        BY <3>5, RollingLogAssumption
      <3>7. Old(l) < i + 1
        BY <1>1, <2>2, <3>6 DEF Names
      <3>8. QED
        BY <1>1, <2>2, <3>1, <3>3, <3>4, <3>7 DEF FilesInv, InOrder
    <2>5. QED
      BY <2>3, <2>4
  <1>8. QED
    BY <1>5, <1>6, <1>7 DEF FilesInv

\* The next bytes of the output are appended to the log: they are newer than all
\* that was written.
LEMMA AppendFiles ==
    ASSUME FilesInv, NEW p \in Seq(Nat), Len(files[0]) + Len(p) <= MaxSize, written \subseteq Nat,
           \A j \in 1..Len(p) : \A i \in 1..Len(p) : i < j => p[i] < p[j],
           \A j \in 1..Len(p) : \A b \in written : b < p[j],
           files' = [files EXCEPT ![0] = files[0] \o p],
           written' = written \cup {p[j] : j \in 1..Len(p)}
    PROVE  FilesInv'
  <1>1. 0 \in Names /\ Names \subseteq Nat
    BY RollingLogAssumption DEF Names
  <1>2. files[0] \in Seq(Nat) /\ files[0] \o p \in Seq(Nat)
    BY <1>1 DEF FilesInv
  <1>3. /\ files' \in [Names -> Seq(Nat)] /\ files'[0] = files[0] \o p
        /\ \A k \in Names \ {0} : files'[k] = files[k]
    BY <1>1, <1>2 DEF FilesInv
  <1>4. /\ Len(files'[0]) = Len(files[0]) + Len(p)
        /\ DOMAIN files'[0] = 1..(Len(files[0]) + Len(p))
        /\ \A j \in 1..Len(files[0]) : files'[0][j] = files[0][j]
        /\ \A j \in 1..Len(p) : files'[0][Len(files[0]) + j] = p[j]
        /\ DOMAIN files[0] = 1..Len(files[0])
    BY <1>2, <1>3
  <1>5. Len(files[0]) \in Nat /\ Len(p) \in Nat
    BY <1>2
  <1>6. Bytes(0)' = Bytes(0) \cup {p[j] : j \in 1..Len(p)}
    <2>1. ASSUME NEW b \in Bytes(0)' PROVE b \in Bytes(0) \cup {p[j] : j \in 1..Len(p)}
      <3>1. PICK j \in 1..(Len(files[0]) + Len(p)) : b = files'[0][j]
        BY <1>4 DEF Bytes
      <3>2. CASE j <= Len(files[0])
        BY <1>4, <1>5, <3>1, <3>2 DEF Bytes
      <3>3. CASE j > Len(files[0])
        <4>1. j - Len(files[0]) \in 1..Len(p) /\ j = Len(files[0]) + (j - Len(files[0]))
          BY <1>5, <3>3
        <4>2. QED
          BY <1>4, <3>1, <4>1
      <3>4. QED
        BY <1>5, <3>2, <3>3
    <2>2. ASSUME NEW b \in Bytes(0) PROVE b \in Bytes(0)'
      <3>1. PICK j \in 1..Len(files[0]) : b = files[0][j]
        BY <1>4 DEF Bytes
      <3>2. j \in DOMAIN files'[0] /\ b = files'[0][j]
        BY <1>4, <1>5, <3>1
      <3>3. QED
        BY <3>2 DEF Bytes
    <2>3. ASSUME NEW j \in 1..Len(p) PROVE p[j] \in Bytes(0)'
      <3>1. Len(files[0]) + j \in DOMAIN files'[0] /\ p[j] = files'[0][Len(files[0]) + j]
        BY <1>4, <1>5
      <3>2. QED
        BY <3>1 DEF Bytes
    <2>4. QED
      BY <2>1, <2>2, <2>3
  <1>7. \A k \in Names \ {0} : Bytes(k)' = Bytes(k)
    BY <1>3 DEF Bytes
  <1>8. \A k \in Names : Len(files'[k]) <= MaxSize /\ Bytes(k)' \subseteq written'
    BY <1>1, <1>3, <1>4, <1>6, <1>7 DEF FilesInv
  <1>9. InOrder'
    <2>1. ASSUME NEW a \in DOMAIN files'[0], NEW b \in DOMAIN files'[0], a < b
          PROVE  files'[0][a] < files'[0][b]
      <3>0. a \in 1..(Len(files[0]) + Len(p)) /\ b \in 1..(Len(files[0]) + Len(p))
        BY <1>4
      <3>1. CASE b <= Len(files[0])
        <4>1. a \in DOMAIN files[0] /\ b \in DOMAIN files[0]
          BY <1>4, <1>5, <2>1, <3>0, <3>1
        <4>2. QED
          BY <1>1, <1>4, <2>1, <4>1 DEF FilesInv, InOrder
      <3>2. CASE b > Len(files[0])
        <4>1. b - Len(files[0]) \in 1..Len(p) /\ b = Len(files[0]) + (b - Len(files[0]))
          BY <1>5, <3>0, <3>2
        <4>2. files'[0][b] = p[b - Len(files[0])]
          BY <1>4, <4>1
        <4>3. CASE a <= Len(files[0])
          <5>1. files'[0][a] \in Bytes(0)
            BY <1>4, <1>5, <3>0, <4>3 DEF Bytes
          <5>2. QED
            BY <1>1, <4>1, <4>2, <5>1 DEF FilesInv
        <4>4. CASE a > Len(files[0])
          <5>1. a - Len(files[0]) \in 1..Len(p) /\ a = Len(files[0]) + (a - Len(files[0]))
            BY <1>5, <3>0, <4>4
          <5>2. files'[0][a] = p[a - Len(files[0])] /\ a - Len(files[0]) < b - Len(files[0])
            BY <1>4, <1>5, <2>1, <3>0, <5>1
          <5>3. QED
            BY <4>1, <4>2, <5>1, <5>2
        <4>5. QED
          BY <1>5, <3>0, <4>3, <4>4
      <3>3. QED
        BY <1>5, <3>0, <3>1, <3>2
    <2>2. ASSUME NEW k \in Names, NEW l \in Names, k < l,
                 NEW b \in Bytes(k)', NEW c \in Bytes(l)'
          PROVE  c < b
      <3>0. l \in Names \ {0}
        BY <1>1, <2>2
      <3>1. c \in Bytes(l) /\ c \in written
        BY <1>7, <3>0 DEF FilesInv
      <3>2. CASE b \in Bytes(k)
        BY <2>2, <3>1, <3>2 DEF FilesInv, InOrder
      <3>3. CASE b \notin Bytes(k)
        BY <1>6, <1>7, <3>1, <3>3
      <3>4. QED
        BY <3>2, <3>3
    <2>3. ASSUME NEW k \in Names \ {0}
          PROVE  \A i, j \in DOMAIN files'[k] : i < j => files'[k][i] < files'[k][j]
      BY <1>3 DEF FilesInv, InOrder
    <2>4. QED
      BY <2>1, <2>2, <2>3 DEF InOrder
  <1>10. LosesOldestOnly'
    <2> SUFFICES ASSUME NEW b \in written', b \notin UNION {Bytes(k)' : k \in Names},
                        NEW c \in UNION {Bytes(k)' : k \in Names}
                 PROVE  b < c
      BY DEF LosesOldestOnly
    <2>1. b \in written
      BY <1>1, <1>6
    <2>2. b \notin UNION {Bytes(k) : k \in Names}
      BY <1>1, <1>6, <1>7
    <2>3. PICK l \in Names : c \in Bytes(l)'
      OBVIOUS
    <2>4. CASE c \in Bytes(l)
      BY <2>1, <2>2, <2>4 DEF FilesInv, LosesOldestOnly
    <2>5. CASE c \notin Bytes(l)
      BY <1>6, <1>7, <2>1, <2>3, <2>5
    <2>6. QED
      BY <2>4, <2>5
  <1>11. QED
    BY <1>3, <1>8, <1>9, <1>10 DEF FilesInv

\* Of what a Write is given the newest bytes are left, not more than fit a file.
LEMMA TrimmedBytes ==
    ASSUME NEW n \in 1..MaxBytes, out \in Nat,
           NEW p, p = Trimmed([k \in 1..n |-> out + k])
    PROVE  /\ p \in Seq(Nat) /\ Len(p) <= MaxSize
           /\ \A j \in 1..Len(p) : p[j] > out /\ p[j] <= out + n
           /\ \A j \in 1..Len(p) : \A i \in 1..Len(p) : i < j => p[i] < p[j]
  <1> DEFINE q == [k \in 1..n |-> out + k]
  <1>1. n \in Nat /\ MaxSize \in Nat \ {0}
    BY RollingLogAssumption
  <1>2. q \in Seq(Nat) /\ Len(q) = n /\ \A k \in 1..n : q[k] = out + k
    BY <1>1
  <1>p. p = Trimmed(q)
    OBVIOUS
  <1> HIDE DEF q
  <1>3. CASE n > MaxSize
    <2> DEFINE t == SubSeq(q, n - MaxSize + 1, n)
    <2>1. /\ t \in Seq(Nat) /\ Len(t) = MaxSize
          /\ \A j \in 1..MaxSize : t[j] = q[n - MaxSize + j]
      BY <1>1, <1>2, <1>3
    <2>2. \A j \in 1..MaxSize : t[j] = out + (n - MaxSize + j)
      BY <1>1, <1>2, <1>3, <2>1
    <2> HIDE DEF t
    <2>3. /\ \A j \in 1..Len(t) : t[j] > out /\ t[j] <= out + n
          /\ \A j \in 1..Len(t) : \A i \in 1..Len(t) : i < j => t[i] < t[j]
      BY <1>1, <1>3, <2>1, <2>2
    <2>4. Trimmed(q) = t
      BY <1>2, <1>3 DEF Trimmed, t
    <2>5. p = t /\ Len(t) <= MaxSize
      BY <1>1, <1>p, <2>1, <2>4
    <2>6. QED
      BY <2>1, <2>3, <2>5
  <1>4. CASE n <= MaxSize
    <2>1. Trimmed(q) = q
      BY <1>1, <1>2, <1>4 DEF Trimmed
    <2>2. /\ \A j \in 1..Len(q) : q[j] > out /\ q[j] <= out + n
          /\ \A j \in 1..Len(q) : \A i \in 1..Len(q) : i < j => q[i] < q[j]
      BY <1>1, <1>2
    <2>3. QED
      BY <1>2, <1>4, <1>p, <2>1, <2>2
  <1>5. n > MaxSize \/ n <= MaxSize
    BY <1>1
  <1>6. QED
    BY <1>3, <1>4, <1>5

\* The invariant's parts besides the files' own, and how they make up the whole.
LEMMA LogParts ==
    /\ LogInv => FilesInv
    /\ LogTypeOK /\ Room /\ Newest /\ Gap /\ FilesInv /\ (isOpen => size = Len(files[0])) => LogInv
  BY DEF LogInv, FilesInv, WithinLimit, Newest, LogTypeOK

LEMMA LogWhole ==
    ASSUME LogTypeOK', Room', Newest', Gap', FilesInv', isOpen' => size' = Len(files'[0])
    PROVE  LogInv'
  BY DEF LogInv, FilesInv, WithinLimit

LEMMA LogInitInv == LogInit => LogInv
  <1> SUFFICES ASSUME LogInit PROVE LogInv
    OBVIOUS
  <1>1. /\ files \in [Names -> Seq(Nat)]
        /\ 0 \in Names /\ \A k \in Names : files[k] = << >>
    BY RollingLogAssumption DEF LogInit, Names
  <1>2. \A k \in Names : Bytes(k) = {}
    BY <1>1, NoBytes
  <1>3. LogTypeOK
    BY <1>1, RollingLogAssumption DEF LogInit, LogTypeOK
  <1>4. Room /\ Newest /\ Gap /\ (isOpen => size = Len(files[0]))
    BY <1>2, RollingLogAssumption DEF LogInit, Room, Newest, Gap
  <1>5. FilesInv
    BY <1>1, <1>2, RollingLogAssumption DEF FilesInv, InOrder, LosesOldestOnly
  <1>6. QED
    BY <1>3, <1>4, <1>5, LogParts

\* A step that leaves the disk as it is.
LEMMA SameFiles ==
    ASSUME LogInv, UNCHANGED <<files, written>>
    PROVE  FilesInv'
  BY LogParts DEF FilesInv, Bytes, InOrder, LosesOldestOnly

\* A rotation's step on the disk.
LEMMA Moved ==
    ASSUME LogInv, pc \in {"shift", "last"}, UNCHANGED written,
           NEW i, i = IF pc = "last" THEN 0 ELSE index,
           \/ files' = [files EXCEPT ![i + 1] = files[i], ![i] = << >>]
           \/ files' = [files EXCEPT ![i + 1] = << >>]
    PROVE  /\ FilesInv' /\ i \in Names /\ i + 1 \in Names
           /\ files' = [files EXCEPT ![i + 1] = files[i], ![i] = << >>] => files'[i] = << >>
  <1>1. i \in 0..Backups /\ (i < Backups => files[i + 1] = << >>)
    BY RollingLogAssumption DEF LogInv, LogTypeOK, Gap
  <1>2. i \in Names /\ i + 1 \in Names /\ i # i + 1
    BY <1>1, RollingLogAssumption DEF Names
  <1>3. files \in [Names -> Seq(Nat)] /\ files[i] \in Seq(Nat) /\ << >> \in Seq(Nat)
    BY <1>2 DEF LogInv, LogTypeOK
  <1>4. /\ files' \in [Names -> Seq(Nat)]
        /\ \A k \in Names \ {i, i + 1} : files'[k] = files[k]
    BY <1>2, <1>3
  <1>5. \/ files'[i + 1] = files[i] /\ files'[i] = << >>
        \/ files'[i + 1] = << >> /\ files'[i] = files[i]
    BY <1>2, <1>3
  <1>6. FilesInv'
    BY <1>1, <1>4, <1>5, LogParts, MoveFiles
  <1>7. QED
    BY <1>2, <1>3, <1>6

LEMMA ShiftInv == LogInv /\ Shift => LogInv'
  <1> SUFFICES ASSUME LogInv, Shift PROVE LogInv'
    OBVIOUS
  <1>1. /\ FilesInv' /\ index \in Names /\ index + 1 \in Names /\ files'[index] = << >>
    BY Moved DEF Shift
  <1>2. index \in 1..Backups /\ index' \in 1..Backups
    BY RollingLogAssumption DEF Shift, LastRound, LogInv, LogTypeOK
  <1>3. LogTypeOK'
    BY <1>1, <1>2 DEF Shift, LogInv, LogTypeOK, FilesInv
  <1>4. Room' /\ ~isOpen'
    BY DEF Shift, LogInv, Room
  <1>5. Newest'
    BY <1>1 DEF Shift, LogInv, Newest, FilesInv
  <1>6. Gap'
    <2>1. CASE LastRound
      <3>1. pc' = "last" /\ files'[1] = << >>
        BY <1>1, <2>1 DEF Shift, LastRound
      <3>2. QED
        BY <3>1 DEF Gap
    <2>2. CASE ~LastRound
      <3>1. pc' = "shift" /\ index' + 1 = index
        BY <1>2, <2>2 DEF Shift, LastRound
      <3>2. files'[index' + 1] = << >>
        BY <1>1, <3>1
      <3>3. QED
        BY <3>1, <3>2 DEF Gap
    <2>3. QED
      BY <2>1, <2>2
  <1>7. QED
    BY <1>1, <1>3, <1>4, <1>5, <1>6, LogWhole

LEMMA ShiftLogInv == LogInv /\ ShiftLog => LogInv'
  <1> SUFFICES ASSUME LogInv, ShiftLog PROVE LogInv'
    OBVIOUS
  <1>1. FilesInv' /\ files'[0] = << >>
    <2>1. /\ files' = [files EXCEPT ![0 + 1] = files[0], ![0] = << >>]
          /\ 0 = IF pc = "last" THEN 0 ELSE index
          /\ pc \in {"shift", "last"} /\ UNCHANGED written
      BY DEF ShiftLog
    <2>2. QED
      BY <2>1, Moved
  <1>2. LogTypeOK'
    BY <1>1 DEF ShiftLog, LogInv, LogTypeOK, FilesInv
  <1>3. Room' /\ ~isOpen'
    BY DEF ShiftLog, LogInv, Room
  <1>4. Newest'
    BY <1>1 DEF ShiftLog, LogInv, Newest, FilesInv
  <1>5. Gap'
    BY <1>1 DEF ShiftLog, Gap
  <1>6. QED
    BY <1>1, <1>2, <1>3, <1>4, <1>5, LogWhole

LEMMA ShiftErrInv == LogInv /\ ShiftErr => LogInv'
  <1> SUFFICES ASSUME LogInv, ShiftErr PROVE LogInv'
    OBVIOUS
  <1>1. FilesInv'
    <2> DEFINE i == IF pc = "last" THEN 0 ELSE index
    <2>1. i + 1 = IF pc = "last" THEN 1 ELSE index + 1
      OBVIOUS
    <2>2. CASE files' = [files EXCEPT ![i + 1] = << >>]
      BY <2>2, Moved DEF ShiftErr
    <2>3. CASE files' = files
      BY <2>3, SameFiles DEF ShiftErr
    <2>4. QED
      BY <2>1, <2>2, <2>3 DEF ShiftErr
  <1>2. LogTypeOK'
    BY <1>1, RollingLogAssumption DEF ShiftErr, AfterShiftErr, LogInv, LogTypeOK, FilesInv
  <1>3. Room' /\ ~isOpen'
    BY RollingLogAssumption DEF ShiftErr, AfterShiftErr, LogInv, Room
  <1>4. Newest'
    BY <1>1 DEF ShiftErr, LogInv, Newest, FilesInv
  <1>5. Gap'
    BY DEF ShiftErr, AfterShiftErr, Gap
  <1>6. QED
    BY <1>1, <1>2, <1>3, <1>4, <1>5, LogWhole

LEMMA CreateInv == LogInv /\ (Create \/ CreateErr) => LogInv'
  <1> SUFFICES ASSUME LogInv, Create \/ CreateErr PROVE LogInv'
    OBVIOUS
  <1>1. files[0] = << >> /\ 0 \in Names /\ files \in [Names -> Seq(Nat)]
    BY RollingLogAssumption DEF Create, CreateErr, LogInv, Gap, LogTypeOK, Names
  <1>2. files' = files /\ written' = written
    BY <1>1 DEF Create, CreateErr
  <1>3. FilesInv'
    BY <1>2, SameFiles
  <1>4. LogTypeOK'
    <2>1. /\ files' \in [Names -> Seq(Nat)] /\ size' \in Nat /\ index' \in 1..Backups
          /\ queued' \in Seq(Nat) /\ out' \in Nat /\ written' \subseteq Nat
      <3>1. files' \in [Names -> Seq(Nat)] /\ written' \subseteq Nat
        BY <1>2 DEF LogInv, LogTypeOK
      <3>2. size' \in Nat
        BY DEF Create, CreateErr, LogInv, LogTypeOK
      <3>3. index' \in 1..Backups /\ out' \in Nat
        BY DEF Create, CreateErr, LogInv, LogTypeOK
      <3>4. queued' \in Seq(Nat)
        <4>1. queued' = queued \/ queued' = << >>
          BY DEF Create, CreateErr
        <4>2. queued \in Seq(Nat) /\ << >> \in Seq(Nat)
          BY DEF LogInv, LogTypeOK
        <4>3. QED
          BY <4>1, <4>2
      <3>5. QED
        BY <3>1, <3>2, <3>3, <3>4
    <2>2. pc' \in {"idle", "shift", "last", "create", "append"}
      BY DEF Create, CreateErr, LogInv, LogTypeOK
    <2>3. isOpen' \in BOOLEAN
      BY DEF Create, CreateErr, LogInv, LogTypeOK
    <2>4. QED
      BY <2>1, <2>2, <2>3 DEF LogTypeOK
  <1>5. Room' /\ (isOpen' => size' = Len(files'[0]))
    <2>1. CASE Create
      BY <1>1, <1>2, <2>1 DEF Create, LogInv, Room, LogTypeOK
    <2>2. CASE CreateErr
      BY <2>2, RollingLogAssumption DEF CreateErr, LogInv, Room
    <2>3. QED
      BY <2>1, <2>2
  <1>6. Newest'
    BY <1>2, <1>3 DEF Create, CreateErr, LogInv, Newest, FilesInv
  <1>7. Gap'
    BY DEF Create, CreateErr, Gap
  <1>8. QED
    BY <1>3, <1>4, <1>5, <1>6, <1>7, LogWhole

\* The calls that only open or close the file, and the death of the GUI.
LEMMA OpenInv == LogInv /\ (OpenRotates \/ Open \/ Close \/ LogDies) => LogInv'
  <1> SUFFICES ASSUME LogInv, OpenRotates \/ Open \/ Close \/ LogDies PROVE LogInv'
    OBVIOUS
  <1>1. UNCHANGED <<files, written, out>> /\ (queued' = queued \/ queued' = << >>)
    BY DEF OpenRotates, Open, Close, LogDies
  <1>2. FilesInv'
    BY <1>1, SameFiles
  <1>3. 0 \in Names /\ files[0] \in Seq(Nat) /\ Len(files[0]) \in Nat
    BY RollingLogAssumption DEF LogInv, LogTypeOK, Names
  <1>4. LogTypeOK'
    <2>1. /\ files' \in [Names -> Seq(Nat)] /\ size' \in Nat /\ index' \in 1..Backups
          /\ queued' \in Seq(Nat) /\ out' \in Nat /\ written' \subseteq Nat
      <3>1. files' \in [Names -> Seq(Nat)] /\ written' \subseteq Nat
        BY <1>1 DEF LogInv, LogTypeOK
      <3>2. size' \in Nat
        BY <1>3 DEF OpenRotates, Open, SizeAtOpen, Close, LogDies, LogInv, LogTypeOK
      <3>3. index' \in 1..Backups /\ out' \in Nat
        BY <1>1, RollingLogAssumption DEF OpenRotates, Rotate, Open, Close, LogDies, LogInv, LogTypeOK
      <3>4. queued' \in Seq(Nat)
        <4>1. queued' = queued \/ queued' = << >>
          BY <1>1
        <4>2. queued \in Seq(Nat) /\ << >> \in Seq(Nat)
          BY DEF LogInv, LogTypeOK
        <4>3. QED
          BY <4>1, <4>2
      <3>5. QED
        BY <3>1, <3>2, <3>3, <3>4
    <2>2. pc' \in {"idle", "shift", "last", "create", "append"}
      BY DEF OpenRotates, Rotate, Open, Close, LogDies, LogInv, LogTypeOK
    <2>3. isOpen' \in BOOLEAN
      BY DEF OpenRotates, Rotate, Open, Close, LogDies, LogInv, LogTypeOK
    <2>4. QED
      BY <2>1, <2>2, <2>3 DEF LogTypeOK
  <1>5. Room' /\ (isOpen' => size' = Len(files'[0]))
    BY <1>1, RollingLogAssumption
       DEF OpenRotates, Rotate, Open, SizeAtOpen, Close, LogDies, LogInv, Room
  <1>6. Newest'
    BY <1>1, <1>2 DEF LogInv, Newest, FilesInv
  <1>7. Gap'
    BY RollingLogAssumption DEF OpenRotates, Rotate, Open, Close, LogDies, LogInv, Gap, LogTypeOK
  <1>8. QED
    BY <1>2, <1>4, <1>5, <1>6, <1>7, LogWhole

LEMMA WriteInv == ASSUME NEW n \in 1..MaxBytes PROVE LogInv /\ Write(n) => LogInv'
  <1> SUFFICES ASSUME LogInv, Write(n) PROVE LogInv'
    OBVIOUS
  <1> DEFINE p == Trimmed([k \in 1..n |-> out + k])
  <1>1. UNCHANGED <<files, written, size>> /\ out' = out + n /\ out \in Nat /\ n \in Nat
    BY DEF Write, LogInv, LogTypeOK
  <1>2. FilesInv'
    BY <1>1, SameFiles
  <1>3. /\ p \in Seq(Nat) /\ Len(p) <= MaxSize
        /\ \A j \in 1..Len(p) : p[j] > out /\ p[j] <= out + n
        /\ \A j \in 1..Len(p) : \A i \in 1..Len(p) : i < j => p[i] < p[j]
    BY <1>1, TrimmedBytes
  <1>4. \/ ~isOpen /\ UNCHANGED <<isOpen, pc, index, queued>>
        \/ isOpen /\ queued' = p /\ size > 0 /\ size + Len(p) > MaxSize /\ Rotate
        \/ isOpen /\ queued' = p /\ ~(size > 0 /\ size + Len(p) > MaxSize)
                  /\ pc' = "append" /\ UNCHANGED <<isOpen, index>>
    BY DEF Write
  <1> HIDE DEF p
  <1>5. LogTypeOK'
    <2>1. /\ files' \in [Names -> Seq(Nat)] /\ size' \in Nat /\ index' \in 1..Backups
          /\ queued' \in Seq(Nat) /\ out' \in Nat /\ written' \subseteq Nat
      BY <1>1, <1>3, <1>4, RollingLogAssumption DEF Rotate, LogInv, LogTypeOK
    <2>2. pc' \in {"idle", "shift", "last", "create", "append"}
      BY <1>4 DEF Rotate, LogInv, LogTypeOK
    <2>3. isOpen' \in BOOLEAN
      BY <1>4 DEF Rotate, LogInv, LogTypeOK
    <2>4. QED
      BY <2>1, <2>2, <2>3 DEF LogTypeOK
  <1>6. Room' /\ (isOpen' => size' = Len(files'[0]))
    BY <1>1, <1>3, <1>4, RollingLogAssumption DEF Write, Rotate, LogInv, LogTypeOK, Room, WithinLimit
  <1>7. Newest'
    <2>1. \A b \in written : b <= out /\ b \in Nat
      BY DEF LogInv, Newest, LogTypeOK
    <2>2. CASE queued' = queued
      BY <1>1, <1>2, <2>1, <2>2 DEF LogInv, LogTypeOK, Newest, FilesInv
    <2>3. CASE queued' = p
      BY <1>1, <1>2, <1>3, <2>1, <2>3 DEF Newest, FilesInv
    <2>4. QED
      BY <1>4, <2>2, <2>3
  <1>8. Gap'
    BY <1>1, <1>4, RollingLogAssumption DEF Write, Rotate, Gap
  <1>9. QED
    BY <1>2, <1>5, <1>6, <1>7, <1>8, LogWhole

LEMMA FileWriteInv == ASSUME NEW k PROVE LogInv /\ FileWrite(k) => LogInv'
  <1> SUFFICES ASSUME LogInv, FileWrite(k) PROVE LogInv'
    OBVIOUS
  <1> DEFINE p == SubSeq(queued, 1, k)
  <1>1. /\ queued \in Seq(Nat) /\ k \in 0..Len(queued) /\ Len(queued) \in Nat
        /\ isOpen /\ size = Len(files[0]) /\ size \in Nat /\ size + Len(queued) <= MaxSize
        /\ written \subseteq Nat /\ out \in Nat
    BY DEF FileWrite, LogInv, LogTypeOK, Room, WithinLimit
  <1>2. p \in Seq(Nat) /\ Len(p) = k /\ \A j \in 1..k : p[j] = queued[j]
    BY <1>1
  <1>3. /\ files' = [files EXCEPT ![0] = files[0] \o p]
        /\ written' = written \cup {p[j] : j \in 1..k}
    BY DEF FileWrite, Appended
  <1> HIDE DEF p
  <1>4. \A j \in 1..k : j \in 1..Len(queued)
    BY <1>1
  <1>5. /\ \A j \in 1..k : \A i \in 1..k : i < j => p[i] < p[j]
        /\ \A j \in 1..k : p[j] <= out /\ p[j] \in Nat
        /\ \A j \in 1..k : \A b \in written : b < p[j]
    <2>1. \A j \in 1..Len(queued) : \A i \in 1..Len(queued) : i < j => queued[i] < queued[j]
      BY DEF LogInv, Newest
    <2>2. \A j \in 1..Len(queued) : queued[j] <= out /\ \A b \in written : b < queued[j]
      BY DEF LogInv, Newest
    <2>3. \A j \in 1..k : p[j] \in Nat
      BY <1>2
    <2>4. QED
      BY <1>2, <1>4, <2>1, <2>2, <2>3
  <1>6. Len(files[0]) + Len(p) <= MaxSize
    BY <1>1, <1>2, RollingLogAssumption
  <1>7. FilesInv'
    BY <1>1, <1>2, <1>3, <1>5, <1>6, LogParts, AppendFiles
  <1>8. 0 \in Names /\ files[0] \in Seq(Nat) /\ files'[0] = files[0] \o p
    BY <1>3, RollingLogAssumption DEF LogInv, LogTypeOK, Names
  <1>9. isOpen' /\ size' = Len(files'[0])
    BY <1>1, <1>2, <1>8 DEF FileWrite
  <1>10. LogTypeOK'
    <2>1. /\ files' \in [Names -> Seq(Nat)] /\ size' \in Nat /\ index' \in 1..Backups
          /\ queued' \in Seq(Nat) /\ out' \in Nat /\ written' \subseteq Nat
      <3>1. files' \in [Names -> Seq(Nat)] /\ written' \subseteq Nat
        BY <1>1, <1>3, <1>5, <1>7 DEF FilesInv
      <3>2. size' \in Nat
        BY <1>1 DEF FileWrite
      <3>3. index' \in 1..Backups /\ out' \in Nat
        BY DEF FileWrite, LogInv, LogTypeOK
      <3>4. queued' \in Seq(Nat)
        BY DEF FileWrite
      <3>5. QED
        BY <3>1, <3>2, <3>3, <3>4
    <2>2. pc' \in {"idle", "shift", "last", "create", "append"}
      BY DEF FileWrite, LogInv, LogTypeOK
    <2>3. isOpen' \in BOOLEAN
      BY DEF FileWrite, LogInv, LogTypeOK
    <2>4. QED
      BY <2>1, <2>2, <2>3 DEF LogTypeOK
  <1>11. Room' /\ Gap'
    BY RollingLogAssumption DEF FileWrite, Room, Gap
  <1>12. Newest'
    <2>1. queued' = << >> /\ out' = out
      BY DEF FileWrite
    <2>2. \A b \in written' : b <= out
      BY <1>3, <1>5 DEF LogInv, Newest
    <2>3. QED
      BY <1>7, <2>1, <2>2 DEF Newest, FilesInv
  <1>13. QED
    BY <1>7, <1>9, <1>10, <1>11, <1>12, LogWhole

LEMMA LogStutter == LogInv /\ UNCHANGED logVars => LogInv'
  <1> SUFFICES ASSUME LogInv, UNCHANGED logVars PROVE LogInv'
    OBVIOUS
  <1>1. FilesInv'
    BY SameFiles DEF logVars
  <1>2. LogTypeOK' /\ Room' /\ Gap' /\ (isOpen' => size' = Len(files'[0]))
    BY DEF logVars, LogInv, LogTypeOK, Room, Gap, WithinLimit
  <1>3. Newest'
    BY <1>1 DEF logVars, LogInv, Newest, FilesInv
  <1>4. QED
    BY <1>1, <1>2, <1>3, LogWhole

\* LogInv holds in every state of the rolling log, whatever the sizes, the number
\* of backups, and the renames, writes and processes that fail.
THEOREM LogInvariant == LogSpec => []LogInv
  <1>1. LogInv /\ [LogNext]_logVars => LogInv'
    BY ShiftInv, ShiftLogInv, ShiftErrInv, CreateInv, OpenInv, WriteInv, FileWriteInv, LogStutter
       DEF LogNext
  <1>2. QED
    BY <1>1, LogInitInv, PTL DEF LogSpec

\* No file of the log outgrows the limit, and the size rollingLog.Write counts
\* with is the file's own.
THEOREM WithinLimitHolds == LogSpec => []WithinLimit
  <1>1. LogInv => WithinLimit
    BY DEF LogInv
  <1>2. QED
    BY <1>1, LogInvariant, PTL

\* The backups and the log, oldest first, hold the output in its order, at every
\* step of rotateLocked.
THEOREM InOrderHolds == LogSpec => []InOrder
  <1>1. LogInv => InOrder
    BY DEF LogInv
  <1>2. QED
    BY <1>1, LogInvariant, PTL

\* What rotateLocked loses, when it ends and when it is cut short, is the oldest
\* output of all.
THEOREM LosesOldestOnlyHolds == LogSpec => []LosesOldestOnly
  <1>1. LogInv => LosesOldestOnly
    BY DEF LogInv
  <1>2. QED
    BY <1>1, LogInvariant, PTL

-----------------------------------------------------------------------------
(* The files together.                                                     *)

\* Every behaviour of what the GUI keeps is one of the pool, one of the rolling
\* log and one of the settings, so that what is proved of each holds of all of
\* them side by side.
LEMMA FilesImplement == Spec => AppSpec /\ LogSpec /\ SettingsSpec
  <1>1. Init => AppInit /\ LogInit /\ SettingsInit
    BY DEF Init
  <1>2. [Next]_vars =>
           [AppNext]_appVars /\ [LogNext]_logVars /\ [SettingsNext]_settingsVars
    BY DEF Next, vars, OnPool, OnLog, OnSettings
  <1>3. QED
    BY <1>1, <1>2, PTL DEF Spec, AppSpec, LogSpec, SettingsSpec
=============================================================================
