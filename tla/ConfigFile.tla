------------------------------ MODULE ConfigFile ------------------------------
(* The configuration file and what the engines of one service have of it.  A    *)
(* chat command changes the engine first and the file after it; a reload takes   *)
(* one engine back to the file; every save reads the whole file, edits it and    *)
(* replaces it under a mutex of its own process, which the commands of the       *)
(* command line do not share.                                                    *)
(* A file has the custom commands, whose order does not matter, the list of the  *)
(* providers of each project, and values (aliases, display, TTS mode, detected   *)
(* language, active providers).                                                  *)
EXTENDS Integers, Sequences, SequencesExt

CONSTANTS
    CfEngines,     \* one per project; also the keys of its providers and of its active one
    CfHandlers,    \* messages handled at one time
    CfCli,         \* a provider command of the command line
    CfCommandNames, CfProviders, CfAliases,
    CfMarks,       \* what a setting is given
    NoName,        \* no alias, no active provider, nothing set; no handler
    MaxCfCalls,    \* commands
    MaxCfTroubles  \* saves that fail and crashes

ASSUME ConfigFileAssumption ==
    /\ CfCli \notin CfHandlers
    /\ NoName \notin CfHandlers \cup CfProviders \cup CfMarks
    /\ {"display", "tts", "language"} \cap CfAliases = {}
    /\ CfEngines \cap ({"display", "tts", "language", "commands", "all"} \cup CfAliases) = {}
    /\ CfAliases \cap {"commands", "all"} = {}
    /\ {MaxCfCalls, MaxCfTroubles} \subseteq Nat

VARIABLES
    cfFile,    \* config.toml
    cfMu,      \* configMu of the service
    cfMem,     \* per engine: registry, aliases, display, TTS mode, the agent's providers
    cfOp,      \* per handler: what it does and how far it is
    cfWrites,  \* history: what the file holds if no save has lost another one
    cfLost,    \* history: a process renamed over what another one saved since it had read
    cfDrift,   \* history: the engine and the file were parted by something known
    cfBare,    \* history: the active provider was removed and none chosen since
    cfLeft

cfHistory == <<cfWrites, cfLost, cfDrift, cfBare>>
cfVars == <<cfFile, cfMu, cfMem, cfOp, cfHistory, cfLeft>>

CfActors == CfHandlers \cup {CfCli}
Settings == {"display", "tts", "language"} \cup CfAliases
\* What a reload takes over, besides the lists and the active provider.
Reloadable == {"display"} \cup CfAliases
CfIdle == [at |-> "idle"]

\* The index of a provider, 0 for none.
IndexIn(providers, name) ==
    IF name \in ToSet(providers)
    THEN CHOOSE i \in DOMAIN providers : providers[i] = name ELSE 0
\* GetActiveProvider
ActiveIn(mem) == IF mem.active \in DOMAIN mem.providers THEN mem.providers[mem.active] ELSE NoName

\* Mutant: main does not hand the display settings to the engine.
Built_NoDisplay(file, e) ==
    [commands |-> file.commands,
     value |-> [k \in Settings |-> IF k = "display" THEN NoName ELSE file.value[k]],
     detected |-> NoName,
     providers |-> file.list[e], active |-> IndexIn(file.list[e], file.value[e])]
\* An engine as main builds it from the file.
Built(file, e) ==
    [commands |-> file.commands, value |-> [k \in Settings |-> file.value[k]],
     detected |-> NoName,
     providers |-> file.list[e], active |-> IndexIn(file.list[e], file.value[e])]

CfInit ==
    /\ cfFile = [commands |-> {},
                 list |-> [e \in CfEngines |-> SetToSeq(CfProviders)],
                 value |-> [k \in Settings \cup CfEngines |-> NoName]]
    /\ cfMu = NoName
    /\ cfMem = [e \in CfEngines |-> Built(cfFile, e)]
    /\ cfOp = [h \in CfActors |-> CfIdle]
    /\ cfWrites = cfFile /\ cfLost = FALSE
    /\ cfDrift = [e \in CfEngines |-> FALSE] /\ cfBare = [e \in CfEngines |-> FALSE]
    /\ cfLeft = [calls |-> MaxCfCalls, troubles |-> MaxCfTroubles]

-----------------------------------------------------------------------------
CfAt(h, step) == cfOp[h].at = step
CfGoes(h, step) == cfOp' = [cfOp EXCEPT ![h].at = step]
CfEnds(h) == cfOp' = [cfOp EXCEPT ![h] = CfIdle]
CfCall == cfLeft.calls > 0 /\ cfLeft' = [cfLeft EXCEPT !.calls = @ - 1]
CfTrouble == cfLeft.troubles > 0 /\ cfLeft' = [cfLeft EXCEPT !.troubles = @ - 1]
CfBusy(e) == {h \in CfHandlers : ~CfAt(h, "idle") /\ cfOp[h].engine = e}

\* Two commands of an engine meet on one command, setting or list of providers, or in
\* a reload.
CfMeet(a, b) ==
    \/ "reload" \in {a.do, b.do}
    \/ a.key = b.key /\ (a.key = "commands" => a.name = b.name)
\* A handler takes up a command.
CfTakes(h, op) ==
    /\ CfAt(h, "idle") /\ CfCall
    /\ cfOp' = [cfOp EXCEPT ![h] = op]
    /\ cfDrift' = [cfDrift EXCEPT ![op.engine] =
                      @ \/ \E b \in CfBusy(op.engine) : CfMeet(op, cfOp[b])]

CfNew(e, do, key, name, step) ==
    [at |-> step, engine |-> e, do |-> do, key |-> key, name |-> name, list |-> <<>>, read |-> <<>>,
     crossed |-> FALSE]
MemSet(e, field, x) == cfMem' = [cfMem EXCEPT ![e][field] = x]

\* /commands add and addexec: the name must not resolve in the registry.
CommandsAdd(h, e, name) ==
    /\ name \notin cfMem[e].commands
    /\ CfTakes(h, CfNew(e, "add", "commands", name, "add"))
    /\ UNCHANGED <<cfFile, cfMu, cfMem, cfWrites, cfLost, cfBare>>
CommandsPut(h) ==
    /\ CfAt(h, "add")
    /\ LET op == cfOp[h] IN MemSet(op.engine, "commands", cfMem[op.engine].commands \cup {op.name})
    /\ CfGoes(h, "save")
    /\ UNCHANGED <<cfFile, cfMu, cfHistory, cfLeft>>
\* /commands del
CommandsDel(h, e, name) ==
    /\ name \in cfMem[e].commands
    /\ MemSet(e, "commands", cfMem[e].commands \ {name})
    /\ CfTakes(h, CfNew(e, "remove", "commands", name, "save"))
    /\ UNCHANGED <<cfFile, cfMu, cfWrites, cfLost, cfBare>>

\* /provider add and remove: the handler copies the agent's list, and hands back
\* another one.  (add looks at the list for the name first, and asks for it once more to change
\* it: one look here.  Handlers that overlap there may drift anyway, which cfDrift stands for.)
ProvidersAsk(h, e, do, name) ==
    /\ do = "add" <=> name \notin ToSet(cfMem[e].providers)
    /\ CfTakes(h, [CfNew(e, do, e, name, "list") EXCEPT !.list = cfMem[e].providers])
    /\ UNCHANGED <<cfFile, cfMu, cfMem, cfWrites, cfLost, cfBare>>
Edited(list, do, name) ==
    IF do = "add" THEN Append(list, name) ELSE SelectSeq(list, LAMBDA n : n # name)
ProvidersSet(h) ==
    /\ CfAt(h, "list")
    /\ LET op == cfOp[h] IN
         /\ MemSet(op.engine, "providers", Edited(op.list, op.do, op.name))
         /\ cfBare' = [cfBare EXCEPT ![op.engine] =
                          @ \/ (op.do = "remove" /\ ActiveIn(cfMem[op.engine]) = op.name)]
    /\ CfGoes(h, "save")
    /\ UNCHANGED <<cfFile, cfMu, cfWrites, cfLost, cfDrift, cfLeft>>

\* /provider switch and clear: SetActiveProvider of the agent.
ProviderSwitch(h, e, name) ==
    /\ name \in ToSet(cfMem[e].providers) \cup {NoName}
    /\ MemSet(e, "active", IndexIn(cfMem[e].providers, name))
    /\ CfTakes(h, CfNew(e, "put", e, name, "save"))
    /\ cfBare' = [cfBare EXCEPT ![e] = FALSE]
    /\ UNCHANGED <<cfFile, cfMu, cfWrites, cfLost>>

\* A message shows its language where the file named none at the start.  (/lang
\* changes the engine alone.)
LanguageDetected(h, e, v) ==
    /\ cfMem[e].value["language"] = NoName /\ cfMem[e].detected # v
    /\ MemSet(e, "detected", v)
    /\ CfTakes(h, [CfNew(e, "put", "language", "language", "save") EXCEPT !.name = v])
    /\ UNCHANGED <<cfFile, cfMu, cfWrites, cfLost, cfBare>>

\* /config set, /tts, /alias add and del (NoName).
SettingPut(h, e, key, v) ==
    /\ v = NoName => key \in CfAliases /\ cfMem[e].value[key] # NoName
    /\ cfMem' = [cfMem EXCEPT ![e].value[key] = v]
    /\ CfTakes(h, [CfNew(e, "put", key, key, "save") EXCEPT !.name = v])
    /\ UNCHANGED <<cfFile, cfMu, cfWrites, cfLost, cfBare>>

\* cc-connect provider add, remove and import
CliProvider(e, do, name) ==
    /\ CfAt(CfCli, "idle") /\ CfCall
    /\ cfOp' = [cfOp EXCEPT ![CfCli] = CfNew(e, do, e, name, "save")]
    /\ UNCHANGED <<cfFile, cfMu, cfMem, cfHistory>>

-----------------------------------------------------------------------------
\* What a writer of the configuration file does to its contents, and when it refuses.
Named(file, key) == IF key = "commands" THEN file.commands ELSE ToSet(file.list[key])
Refuses(file, op) ==
    \/ op.do = "add" /\ op.name \in Named(file, op.key)
    \/ op.do = "remove" /\ op.name \notin Named(file, op.key)
    \/ op.do = "put" /\ op.key \in CfAliases /\ op.name = NoName /\ file.value[op.key] = NoName
Edit(file, op) ==
    IF op.do = "put" THEN [file EXCEPT !.value[op.key] = op.name]
    ELSE IF op.key = "commands"
    THEN [file EXCEPT !.commands = IF op.do = "add" THEN @ \cup {op.name} ELSE @ \ {op.name}]
    ELSE [file EXCEPT !.list[op.key] = Edited(@, op.do, op.name)]

\* A save that fails is logged: the engine keeps what the file does not have.
Unsaved(h) == cfDrift' = IF h = CfCli THEN cfDrift ELSE [cfDrift EXCEPT ![cfOp[h].engine] = TRUE]
MuTaken(h) == cfMu' = IF h = CfCli THEN cfMu ELSE h
MuLeft(h) == cfMu' = IF h = CfCli THEN cfMu ELSE NoName

\* Mutant: a save without the mutex.
MuFree_Always(h) == TRUE

MuFree(h) == h = CfCli \/ cfMu = NoName
\* The mutex is taken and the file read.
SaveReads(h) ==
    /\ CfAt(h, "save") /\ MuFree(h)
    /\ MuTaken(h)
    /\ cfOp' = [cfOp EXCEPT ![h].at = "write", ![h].read = cfFile]
    /\ UNCHANGED <<cfFile, cfMem, cfHistory, cfLeft>>
SaveRefuses(h) ==
    /\ CfAt(h, "write") /\ Refuses(cfOp[h].read, cfOp[h])
    /\ Unsaved(h) /\ MuLeft(h) /\ CfEnds(h)
    /\ UNCHANGED <<cfFile, cfMem, cfWrites, cfLost, cfBare, cfLeft>>
SaveFails(h) ==
    /\ CfAt(h, "write") /\ CfTrouble
    /\ Unsaved(h) /\ MuLeft(h) /\ CfEnds(h)
    /\ UNCHANGED <<cfFile, cfMem, cfWrites, cfLost, cfBare>>
\* The engines that do not have what is saved: those of other projects if it is
\* shared, the one of its project if the command line saves it.
Strangers(h) ==
    LET op == cfOp[h] IN
    IF h = CfCli THEN {op.engine}
    ELSE {e \in CfEngines : e # op.engine /\ op.key \notin CfEngines}
\* The edited file is written beside it, synced and renamed over it.
SaveRenames(h) ==
    /\ CfAt(h, "write") /\ ~Refuses(cfOp[h].read, cfOp[h])
    /\ LET op == cfOp[h] IN
         /\ cfFile' = Edit(op.read, op)
         /\ cfWrites' = IF Refuses(cfWrites, op) THEN cfWrites ELSE Edit(cfWrites, op)
         /\ cfLost' = (cfLost \/ op.crossed)
         /\ cfDrift' = [e \in CfEngines |-> cfDrift[e] \/ op.crossed \/ e \in Strangers(h)]
         /\ cfOp' = [b \in CfActors |->
                       IF b = h THEN CfIdle
                       ELSE IF CfCli \in {b, h} /\ CfAt(b, "write") THEN [cfOp[b] EXCEPT !.crossed = TRUE]
                       ELSE cfOp[b]]
    /\ MuLeft(h)
    /\ UNCHANGED <<cfMem, cfBare, cfLeft>>

-----------------------------------------------------------------------------
\* /config reload.  The file is read without the mutex.
ReloadLoads(h, e) ==
    /\ CfAt(h, "idle") /\ CfCall
    /\ cfOp' = [cfOp EXCEPT ![h] = [CfNew(e, "reload", "all", NoName, "providers") EXCEPT !.read = cfFile]]
    \* It brings the two together, unless another command of the engine is under way.
    /\ cfDrift' = [cfDrift EXCEPT ![e] = CfBusy(e) # {}]
    /\ UNCHANGED <<cfFile, cfMu, cfMem, cfWrites, cfLost, cfBare>>
ReloadProviders(h) ==
    /\ CfAt(h, "providers")
    /\ LET op == cfOp[h] IN
         cfMem' = [cfMem EXCEPT ![op.engine].value["display"] = op.read.value["display"],
                                ![op.engine].providers = op.read.list[op.engine]]
    /\ CfGoes(h, "active")
    /\ UNCHANGED <<cfFile, cfMu, cfHistory, cfLeft>>
\* Only a provider that the file names is made the active one; otherwise the index
\* stays.
ReloadActive(h) ==
    /\ CfAt(h, "active")
    /\ LET op == cfOp[h]
           e == op.engine
           named == op.read.value[e] \in ToSet(cfMem[e].providers)
       IN  /\ IF named THEN MemSet(e, "active", IndexIn(cfMem[e].providers, op.read.value[e]))
                       ELSE UNCHANGED cfMem
           /\ cfBare' = [cfBare EXCEPT ![e] = @ /\ ~named]
    /\ CfGoes(h, "clear")
    /\ UNCHANGED <<cfFile, cfMu, cfWrites, cfLost, cfDrift, cfLeft>>
ReloadClears(h) ==
    /\ CfAt(h, "clear")
    /\ MemSet(cfOp[h].engine, "commands", {})
    /\ CfGoes(h, "fill")
    /\ UNCHANGED <<cfFile, cfMu, cfHistory, cfLeft>>
ReloadFills(h) ==
    /\ CfAt(h, "fill")
    /\ LET op == cfOp[h]
           e == op.engine
       IN  cfMem' = [cfMem EXCEPT
             ![e].commands = @ \cup op.read.commands,
             ![e].value = [k \in Settings |-> IF k \in CfAliases THEN op.read.value[k] ELSE @[k]]]
    /\ CfEnds(h)
    /\ UNCHANGED <<cfFile, cfMu, cfHistory, cfLeft>>

\* The service dies and starts again from the file; a temporary file may stay behind.
CfCrash ==
    /\ CfTrouble
    /\ cfMu' = NoName
    /\ cfMem' = [e \in CfEngines |-> Built(cfFile, e)]
    /\ cfOp' = [h \in CfActors |-> IF h = CfCli THEN cfOp[h] ELSE CfIdle]
    /\ cfDrift' = [e \in CfEngines |-> FALSE]
    /\ cfBare' = [e \in CfEngines |-> FALSE]
    /\ UNCHANGED <<cfFile, cfWrites, cfLost>>

CfNext ==
    \/ \E h \in CfHandlers, e \in CfEngines :
         \/ \E name \in CfCommandNames : CommandsAdd(h, e, name) \/ CommandsDel(h, e, name)
         \/ \E name \in CfProviders, do \in {"add", "remove"} : ProvidersAsk(h, e, do, name)
         \/ \E name \in CfProviders \cup {NoName} : ProviderSwitch(h, e, name)
         \/ \E key \in Settings \ {"language"}, v \in CfMarks \cup {NoName} : SettingPut(h, e, key, v)
         \/ \E v \in CfMarks : LanguageDetected(h, e, v)
         \/ ReloadLoads(h, e)
    \/ \E h \in CfHandlers :
         \/ CommandsPut(h) \/ ProvidersSet(h)
         \/ ReloadProviders(h) \/ ReloadActive(h) \/ ReloadClears(h) \/ ReloadFills(h)
    \/ \E e \in CfEngines, name \in CfProviders, do \in {"add", "remove"} : CliProvider(e, do, name)
    \/ \E h \in CfActors : SaveReads(h) \/ SaveRefuses(h) \/ SaveFails(h) \/ SaveRenames(h)
    \/ CfCrash

CfSpec == CfInit /\ [][CfNext]_cfVars

-----------------------------------------------------------------------------
\* No save of the service undoes another one, whatever handlers, reloads and crashes
\* are about: the file holds the outcome of all saves that were reported as done.
\* Only a provider command of the command line, which has no mutex in common with
\* the service (config.go:486-606, provider.go:62-335), may swallow one.
NoSaveLost == cfLost \/ cfFile = cfWrites

\* An engine at rest shows what the file says (commands, providers, aliases and
\* display), so that a restart changes nothing for its users.  Known exceptions: a
\* save that failed, a setting written by another engine or by the command line
\* since the last reload (main.go:861-949 reloads one engine), and two commands
\* on one name, or a reload and a command, at one time.
EngineShowsFile ==
    \A e \in CfEngines :
      CfBusy(e) = {} /\ ~cfDrift[e] =>
        /\ cfMem[e].commands = cfFile.commands
        /\ cfMem[e].providers = cfFile.list[e]
        /\ \A k \in Reloadable : cfMem[e].value[k] = cfFile.value[k]

\* When the active provider is removed the agent has none until one is chosen
\* (engine.go:5796: "No active provider after removal").
NoneAfterRemoval ==
    \A e \in CfEngines : cfBare[e] => ActiveIn(cfMem[e]) = NoName
=============================================================================
