---------------------------- MODULE GuiSettings ----------------------------
(***************************************************************************)
(* The GUI's settings and the configuration files of the search providers  *)
(* (gui.go, internal/guicore/settings.go, internal/discovery): start-up,   *)
(* PUT /api/settings, the settings part of a fetch, and PUT /api/discovery.*)
(* Several clients' requests wait for operationMu.  The GUI may die at any *)
(* point, also while it starts, and any write may fail.                    *)
(*                                                                         *)
(* Of the settings three fields stand for all: the number of workers (only *)
(* clients set it), protocol and sources (a fetch sets them too).  A       *)
(* provider's configuration is its key; an endpoint is validated like a    *)
(* field.  settings.json is replaced by one rename (atomicWriteFile); the  *)
(* providers' files are created first and filled afterwards, and replaced  *)
(* by a rename that falls back to removing the file.                       *)
(***************************************************************************)
EXTENDS Integers

CONSTANTS
    Clients,     \* requests at work at the same time
    Workers,     \* values of sourceConcurrency that clients send
    Protocols,   \* values of protocol
    SourceLists, \* values of sources
    Configs      \* providers' configurations that clients send

Providers == {"fofa", "hunter"}
Fields    == {"workers", "protocol", "sources"}

VARIABLES
    life,      \* the GUI: "down", a step of its start, or "up"
    settings,  \* guiApp.settings
    file,      \* settings.json, as a set of at most one content
    provider,  \* fofa.json and hunter.json
    mutex,     \* the client that holds operationMu, or None
    req,       \* per client: its request and how far the handler is
    done,      \* history: the settings with every change that was carried out
    kept,      \* history: per provider, the configuration stored last
    lost       \* history: providers whose file a failed replacement removed

settingsVars == <<life, settings, file, provider, mutex, req, done, kept, lost>>

None   == "none"
NoReq  == [step |-> "none", kind |-> "none", patch |-> << >>, new |-> << >>]

Default == [workers |-> 8, protocol |-> "socks5", sources |-> "none"]
Seeded  == [Default EXCEPT !.sources = "seed"]

\* Contents of a provider's file besides those that clients send: none, an empty
\* file, and the example without a key.
Missing == "missing"
Blank   == "blank"
NoKey   == "no key"

\* A configuration whose endpoint is not one: validateProviderConfig.
BadEndpoint == "bad endpoint"

\* No client is taken for the free mutex, and what a client sends is a content.
ASSUME GuiSettingsAssumption ==
    /\ None \notin Clients
    /\ Configs \cap {Missing, Blank} = {}

-----------------------------------------------------------------------------
(* Settings.                                                               *)

\* Settings.Validate.
Validate(s) ==
    /\ s.workers \in 1..32
    /\ s.protocol \in {"socks5", "http"}
    /\ s.sources # "empty line"

\* applySettingsPatch: fields that are not in the patch keep their value.
ApplyPatch(s, patch) ==
    [f \in Fields |-> IF f \in DOMAIN patch THEN patch[f] ELSE s[f]]

\* Requests: a patch of any one field, a fetch, a provider's configuration.
Patches == [{"workers"} -> Workers] \cup [{"protocol"} -> Protocols]
               \cup [{"sources"} -> SourceLists]
Fetches == {[protocol |-> p, sources |-> s] : p \in Protocols, s \in SourceLists}

Request(kind, patch) == [step |-> "wait", kind |-> kind, patch |-> patch, new |-> << >>]

\* handleSettings, handleFetch or handleDiscovery is called.
Arrive(c) ==
    /\ life = "up"
    /\ req[c] = NoReq
    /\ \/ \E p \in Patches : req' = [req EXCEPT ![c] = Request("settings", p)]
       \/ \E p \in Fetches : req' = [req EXCEPT ![c] = Request("settings", p)]
       \/ \E p \in Providers, k \in Configs :
             req' = [req EXCEPT ![c] = Request(p, [config |-> k])]
    /\ UNCHANGED <<life, settings, file, provider, mutex, done, kept, lost>>

\* The step after operationMu is taken: a file to write.
FirstStep(c) == IF req[c].kind = "settings" THEN "save" ELSE "rename"

\* A slip: operationMu is not taken for settings.
CanLockSettings(c) == mutex = None \/ req[c].kind = "settings"

CanLock(c) == mutex = None

\* The handler has operationMu and reads the settings.
Lock(c) ==
    /\ req[c].step = "wait"
    /\ CanLock(c)
    /\ mutex' = c
    /\ req' = [req EXCEPT
         ![c].step = FirstStep(c),
         ![c].new = IF req[c].kind = "settings"
                    THEN ApplyPatch(settings, req[c].patch) ELSE << >>]
    /\ UNCHANGED <<life, settings, file, provider, done, kept, lost>>

FreeAfterError(c) == None

\* The handler answers an error.
Refuse(c) ==
    /\ req' = [req EXCEPT ![c] = NoReq]
    /\ mutex' = FreeAfterError(c)

\* What is about to be written passes its validation.
Valid(c) ==
    IF req[c].kind = "settings" THEN Validate(req[c].new)
    ELSE req[c].patch.config # BadEndpoint

\* Validation fails.
Invalid(c) ==
    /\ req[c].step \in {"save", "rename"}
    /\ ~Valid(c)
    /\ Refuse(c)
    /\ UNCHANGED <<life, settings, file, provider, done, kept, lost>>

\* The temporary file cannot be written or not be renamed.
SaveErr(c) ==
    /\ req[c].step = "save"
    /\ Valid(c)
    /\ Refuse(c)
    /\ UNCHANGED <<life, settings, file, provider, done, kept, lost>>

\* SaveSettings.
Save(c) ==
    /\ req[c].step = "save"
    /\ Valid(c)
    /\ file' = {req[c].new}
    /\ done' = ApplyPatch(done, req[c].patch)
    /\ req' = [req EXCEPT ![c].step = "commit"]
    /\ UNCHANGED <<life, settings, provider, mutex, kept, lost>>

\* The handler updates the memory and answers; a fetch goes on as in GuiApp.
Commit(c) ==
    /\ req[c].step = "commit"
    /\ settings' = req[c].new
    /\ req' = [req EXCEPT ![c] = NoReq]
    /\ mutex' = None
    /\ UNCHANGED <<life, file, provider, done, kept, lost>>

-----------------------------------------------------------------------------
(* SaveProviderConfig.                                                     *)

Stored(c, p) ==
    /\ provider' = [provider EXCEPT ![p] = req[c].patch.config]
    /\ kept' = [kept EXCEPT ![p] = req[c].patch.config]
    /\ lost' = lost \ {p}
    /\ req' = [req EXCEPT ![c] = NoReq]
    /\ mutex' = None

\* The temporary file cannot be written, or neither be renamed nor the present
\* file be removed.
ProviderErr(c) ==
    /\ req[c].step = "rename"
    /\ Valid(c)
    /\ Refuse(c)
    /\ UNCHANGED <<life, settings, file, provider, done, kept, lost>>

ProviderRename(c) ==
    /\ req[c].step = "rename"
    /\ Valid(c)
    /\ Stored(c, req[c].kind)
    /\ UNCHANGED <<life, settings, file, done>>

\* The rename fails, and the file is removed for a second attempt.
ProviderRemove(c) ==
    /\ req[c].step = "rename"
    /\ Valid(c)
    /\ provider' = [provider EXCEPT ![req[c].kind] = Missing]
    /\ lost' = lost \cup {req[c].kind}
    /\ req' = [req EXCEPT ![c].step = "again"]
    /\ UNCHANGED <<life, settings, file, mutex, done, kept>>

ProviderAgain(c) ==
    /\ req[c].step = "again"
    /\ Stored(c, req[c].kind)
    /\ UNCHANGED <<life, settings, file, done>>

ProviderAgainErr(c) ==
    /\ req[c].step = "again"
    /\ Refuse(c)
    /\ UNCHANGED <<life, settings, file, provider, done, kept, lost>>

-----------------------------------------------------------------------------
(* Start and death.                                                        *)

Start ==
    /\ life = "down"
    /\ life' = "settings"
    /\ UNCHANGED <<settings, file, provider, mutex, req, done, kept, lost>>

\* runGUI: LoadSettings, and the first settings with the embedded sources.
LoadSettings ==
    /\ life = "settings"
    /\ IF file = {}
       THEN /\ settings' = Seeded
            /\ file' = {Seeded}
            /\ done' = Seeded
            /\ life' = "fofa"
       ELSE /\ \E s \in file :
                 IF Validate(s)
                 THEN settings' = s /\ life' = "fofa"
                 ELSE settings' = Default /\ life' = "down"
            /\ UNCHANGED <<file, done>>
    /\ UNCHANGED <<provider, mutex, req, kept, lost>>

\* The step of the start that follows a provider's file, and the one that fills it.
AfterProvider(p) == IF p = "fofa" THEN "hunter" ELSE "up"
Filling(p)       == IF p = "fofa" THEN "fill fofa" ELSE "fill hunter"

\* A slip: an existing file is created anew.
ExistsNever == FALSE

\* O_EXCL.
Exists == provider[life] # Missing

\* ensureProviderConfig leaves a file alone that exists.
ProviderExists ==
    /\ life \in Providers
    /\ Exists
    /\ life' = AfterProvider(life)
    /\ UNCHANGED <<settings, file, provider, mutex, req, done, kept, lost>>

\* It creates the file first ...
CreateProvider ==
    /\ life \in Providers
    /\ ~Exists
    /\ provider' = [provider EXCEPT ![life] = Blank]
    /\ life' = Filling(life)
    /\ UNCHANGED <<settings, file, mutex, req, done, kept, lost>>

\* ... and then writes the default into it.
FillProvider(p) ==
    /\ life = Filling(p)
    /\ provider' = [provider EXCEPT ![p] = NoKey]
    /\ life' = AfterProvider(p)
    /\ UNCHANGED <<settings, file, mutex, req, done, kept, lost>>

\* The GUI dies, or its start fails at a write: runGUI returns the error.
GuiDies ==
    /\ life # "down"
    /\ life' = "down"
    /\ settings' = Default
    /\ mutex' = None
    /\ req' = [c \in Clients |-> NoReq]
    /\ UNCHANGED <<file, provider, done, kept, lost>>

SettingsInit ==
    /\ life = "down"
    /\ settings = Default
    /\ file = {}
    /\ provider = [p \in Providers |-> Missing]
    /\ mutex = None
    /\ req = [c \in Clients |-> NoReq]
    /\ done = Seeded
    /\ kept = [p \in Providers |-> NoKey]
    /\ lost = {}

Handler(c) ==
    \/ Invalid(c) \/ SaveErr(c) \/ Save(c) \/ Commit(c)
    \/ ProviderErr(c) \/ ProviderRename(c) \/ ProviderRemove(c)
    \/ ProviderAgain(c) \/ ProviderAgainErr(c)

Starting ==
    \/ LoadSettings
    \/ ProviderExists \/ CreateProvider
    \/ \E p \in Providers : FillProvider(p)

SettingsNext ==
    \/ \E c \in Clients : Arrive(c) \/ Lock(c) \/ Handler(c)
    \/ Start \/ Starting
    \/ GuiDies

SettingsSpec == SettingsInit /\ [][SettingsNext]_settingsVars

-----------------------------------------------------------------------------
(* Properties.                                                             *)

\* No change of a setting is undone by another one: handleSettings and handleFetch
\* write back the fields they do not change as they read them earlier.  The file
\* holds every change that was saved, in the order of the saves, across deaths
\* of the GUI, and between requests the memory agrees with it.
ChangesSurvive ==
    /\ file # {} => file = {done}
    /\ life = "up" /\ mutex = None => file = {settings}

\* A provider's configuration stays as it was stored last, whatever starts,
\* deaths and refused requests come after: a start only creates files that are
\* missing (ensureProviderConfig).  The exception is a replacement that removed
\* the file and did not get to its second rename, although SaveProviderConfig
\* "atomically stores" (provider_config.go:99): until the next configuration is
\* stored there is none, or the example of a later start, and never one that a
\* client had replaced or that was refused.
ConfigKept ==
    \A p \in Providers :
        \/ p \notin lost /\ provider[p] = kept[p]
        \/ p \notin lost /\ kept[p] = NoKey /\ provider[p] \in {Missing, Blank}
        \/ p \in lost /\ provider[p] \in {Missing, Blank, NoKey}
=============================================================================
