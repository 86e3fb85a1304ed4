------------------------------- MODULE SelfUpdate -------------------------------
(* The life of the service process: it updates its own binary on request from   *)
(* chats while the update command of the command line may do the same, restarts  *)
(* into the new binary, and tells the chat that asked.  A binary called b has    *)
(* its predecessor beside it as b.old; a name is given here by the number of its *)
(* .old suffixes.  Linux: the path of the running binary follows a rename, and    *)
(* keeps its last name when the file is removed.                                  *)
EXTENDS Integers

CONSTANTS
    SuChats,       \* chats with a command (/upgrade confirm or /restart)
    Cli,           \* the update command of the command line
    NoChat,
    MaxVersion,    \* the newest release there will be
    MaxSuFaults,   \* file operations that fail
    MaxSuCrashes,
    MaxOld         \* the longest name, counted in suffixes

ASSUME SelfUpdateAssumption ==
    /\ Cli \notin SuChats /\ NoChat \notin SuChats
    /\ MaxVersion \in Nat \ {0}
    /\ {MaxSuFaults, MaxSuCrashes, MaxOld} \subseteq Nat

VARIABLES
    suFile,    \* per name: the version in the file if it can be run, Torn or NoFile
    suVer,     \* the version that runs
    suExe,     \* the name that os.Executable returns, and whether that file is gone
    suMain,    \* where main is: up, stopping, exec or down
    suChan,    \* RestartCh
    suFor,     \* the request that main took
    suNote,    \* restart_notify
    suOp,      \* per command: its step, the path it works on, the version it has
    suLatest,  \* the newest release
    suTold,    \* history: notifications per chat
    suInstalled, \* history: the newest version whose installation ended well
    suRaced,   \* history: two updates at work on one binary at a time, or one on an .old file
    suCut,     \* history: an update was cut short between its renames, or failed there and could
               \* not put the old binary back
    suLeft     \* faults and crashes that are left

suDisk == <<suFile, suNote>>
suHistory == <<suTold, suInstalled, suRaced, suCut>>
suVars == <<suDisk, suVer, suExe, suMain, suChan, suFor, suOp, suLatest, suHistory, suLeft>>

NoFile == 0
\* Not all of it is written, or it is not executable yet.
Torn == -1
SuNames == 0..MaxOld
Whole(n) == suFile[n] > 0
Commands == SuChats \cup {Cli}
Running(name) == [name |-> name, gone |-> FALSE]
SuIdle == [at |-> "idle", path |-> 0, version |-> 0]

SuInit ==
    /\ suFile = [n \in SuNames |-> IF n = 0 THEN 1 ELSE NoFile]
    /\ suVer = 1 /\ suExe = Running(0) /\ suMain = "up"
    /\ suChan = NoChat /\ suFor = NoChat /\ suNote = NoChat
    /\ suOp = [u \in Commands |-> [SuIdle EXCEPT !.at = "new"]]
    /\ suLatest = 1
    /\ suTold = [u \in SuChats |-> 0]
    /\ suInstalled = 1 /\ suRaced = FALSE /\ suCut = FALSE
    /\ suLeft = [faults |-> MaxSuFaults, crashes |-> MaxSuCrashes]

-----------------------------------------------------------------------------
OpAt(u, step) == suOp[u].at = step
OpGoes(u, step) == suOp' = [suOp EXCEPT ![u].at = step]
OpEnds(u) == suOp' = [suOp EXCEPT ![u] = SuIdle]
SuFault == suLeft.faults > 0 /\ suLeft' = [suLeft EXCEPT !.faults = @ - 1]
\* A command of a chat runs inside the service.
Runs(u) == u \in SuChats => suMain \in {"up", "stopping"}
SuAtWork(u) == suOp[u].at \notin {"new", "idle"}
Path(u) == suOp[u].path
\* The old binary is moved away, and the new one cannot be run yet.
Between(u) == suOp[u].at \in {"install", "fill", "chmod", "restore"}

\* The file of this name is no more, perhaps because another one takes the name.
Lost(name) == IF suExe.name = name THEN [suExe EXCEPT !.gone = TRUE] ELSE suExe
\* os.Rename: a process that runs the file runs it under its new name.
Rename(from, to) ==
    /\ suFile' = [suFile EXCEPT ![from] = NoFile, ![to] = suFile[from]]
    /\ suExe' = IF suExe = Running(from) THEN Running(to) ELSE Lost(to)

SuRelease ==
    /\ suLatest < MaxVersion
    /\ suLatest' = suLatest + 1
    /\ UNCHANGED <<suDisk, suVer, suExe, suMain, suChan, suFor, suOp, suHistory, suLeft>>

\* CheckForUpdate against the running version (for the command line, the one it
\* was started from), the download, and the path of the binary.  One that is gone
\* is an error for the service.
SuCheck(u) ==
    /\ OpAt(u, "new") /\ Runs(u)
    /\ LET path == IF u = Cli THEN 0 ELSE suExe.name IN
        /\ suLatest > (IF u = Cli THEN suFile[0] ELSE suVer)
        /\ Whole(path) /\ path < MaxOld
        /\ suOp' = [suOp EXCEPT ![u] = [at |-> "remove", path |-> path, version |-> suLatest]]
        /\ suRaced' = (suRaced \/ path > 0 \/ \E w \in Commands : SuAtWork(w))
    /\ UNCHANGED <<suDisk, suVer, suExe, suMain, suChan, suFor, suLatest, suTold, suInstalled, suCut, suLeft>>

\* Nothing newer, no download, or no temporary file
SuRefuse(u) ==
    /\ OpAt(u, "new") /\ Runs(u)
    /\ OpEnds(u)
    /\ UNCHANGED <<suDisk, suVer, suExe, suMain, suChan, suFor, suLatest, suHistory, suLeft>>

\* os.Remove of the .old file; an error is not looked at.
RemoveOld(u) ==
    \/ /\ suFile' = [suFile EXCEPT ![Path(u) + 1] = NoFile]
       /\ suExe' = Lost(Path(u) + 1)
       /\ UNCHANGED suLeft
    \/ SuFault /\ UNCHANGED <<suFile, suExe>>

\* An earlier .old file goes.
SuRemoveOld(u) ==
    /\ OpAt(u, "remove") /\ Runs(u)
    /\ RemoveOld(u)
    /\ OpGoes(u, "backup")
    /\ UNCHANGED <<suNote, suVer, suMain, suChan, suFor, suLatest, suHistory>>

SuBackup(u) ==
    /\ OpAt(u, "backup") /\ Runs(u)
    /\ \/ /\ suFile[Path(u)] # NoFile
          /\ Rename(Path(u), Path(u) + 1)
          /\ OpGoes(u, "install")
          /\ UNCHANGED suLeft
       \/ /\ IF suFile[Path(u)] = NoFile THEN UNCHANGED suLeft ELSE SuFault
          /\ OpEnds(u)
          /\ UNCHANGED <<suFile, suExe>>
    /\ UNCHANGED <<suNote, suVer, suMain, suChan, suFor, suLatest, suHistory>>

Installs(u) ==
    /\ suFile' = [suFile EXCEPT ![Path(u)] = suOp[u].version]
    /\ suInstalled' = IF suOp[u].version > suInstalled THEN suOp[u].version ELSE suInstalled

\* The service renames its temporary file; the command line copies into place.
SuInstall(u) ==
    /\ OpAt(u, "install") /\ Runs(u)
    /\ \/ /\ u # Cli
          /\ Installs(u) /\ suExe' = Lost(Path(u))
          /\ OpGoes(u, "ask")
          /\ UNCHANGED suLeft
       \/ /\ u = Cli
          /\ suFile' = [suFile EXCEPT ![Path(u)] = Torn]
          /\ OpGoes(u, "fill")
          /\ UNCHANGED <<suExe, suInstalled, suLeft>>
       \/ /\ SuFault
          /\ OpGoes(u, "restore")
          /\ UNCHANGED <<suFile, suExe, suInstalled>>
    /\ UNCHANGED <<suNote, suVer, suMain, suChan, suFor, suLatest, suTold, suRaced, suCut>>

\* The copy is whole, and not yet executable.
SuFill(u) ==
    /\ OpAt(u, "fill")
    /\ \/ OpGoes(u, "chmod") /\ UNCHANGED suLeft
       \/ SuFault /\ OpGoes(u, "restore")
    /\ UNCHANGED <<suDisk, suVer, suExe, suMain, suChan, suFor, suLatest, suHistory>>

\* os.Chmod of the installed file; when it fails nothing is put back.
SuChmod(u) ==
    /\ OpAt(u, "chmod")
    /\ \/ /\ Installs(u)
          /\ OpGoes(u, "clear")
          /\ UNCHANGED <<suCut, suLeft>>
       \/ /\ SuFault
          /\ OpEnds(u)
          /\ suCut' = TRUE
          /\ UNCHANGED <<suFile, suInstalled>>
    /\ UNCHANGED <<suNote, suVer, suExe, suMain, suChan, suFor, suLatest, suTold, suRaced>>

\* The command line removes the binary that it replaced.
SuClear(u) ==
    /\ OpAt(u, "clear")
    /\ RemoveOld(u)
    /\ OpEnds(u)
    /\ UNCHANGED <<suNote, suVer, suMain, suChan, suFor, suLatest, suHistory>>

\* A plausible bug: the old binary is not put back.
PutBack_Not(u) == UNCHANGED <<suFile, suExe>>
PutBack(u) ==
    IF suFile[Path(u) + 1] = NoFile THEN UNCHANGED <<suFile, suExe>>
    ELSE Rename(Path(u) + 1, Path(u))

\* The rename back may fail as well, which only changes the message.
SuRestore(u) ==
    /\ OpAt(u, "restore") /\ Runs(u)
    /\ \/ PutBack(u) /\ UNCHANGED <<suCut, suLeft>>
       \/ SuFault /\ suCut' = TRUE /\ UNCHANGED <<suFile, suExe>>
    /\ OpEnds(u)
    /\ UNCHANGED <<suNote, suVer, suMain, suChan, suFor, suLatest, suTold, suInstalled, suRaced>>

-----------------------------------------------------------------------------
\* A request for a restart is dropped when one waits already.
Request(u) == suChan' = IF suChan = NoChat THEN u ELSE suChan

SuAskAfterUpgrade(u) ==
    /\ OpAt(u, "ask") /\ Runs(u)
    /\ Request(u) /\ OpEnds(u)
    /\ UNCHANGED <<suDisk, suVer, suExe, suMain, suFor, suLatest, suHistory, suLeft>>

\* /restart
SuAskRestart(u) ==
    /\ u # Cli
    /\ OpAt(u, "new") /\ Runs(u)
    /\ Request(u) /\ OpEnds(u)
    /\ UNCHANGED <<suDisk, suVer, suExe, suMain, suFor, suLatest, suHistory, suLeft>>

\* main takes the request and shuts the services down, which takes its time.
SuTake ==
    /\ suMain = "up" /\ suChan # NoChat
    /\ suMain' = "stopping"
    /\ suFor' = suChan /\ suChan' = NoChat
    /\ UNCHANGED <<suDisk, suVer, suExe, suOp, suLatest, suHistory, suLeft>>

\* SaveRestartNotify; a failure is logged.
SuSaveNote ==
    /\ suMain = "stopping"
    /\ \/ suNote' = suFor /\ UNCHANGED suLeft
       \/ SuFault /\ UNCHANGED suNote
    /\ suMain' = "exec"
    /\ UNCHANGED <<suFile, suVer, suExe, suChan, suFor, suOp, suLatest, suHistory>>

\* The .old suffix is stripped if there is such a file.
\* A plausible bug: it is not.
RestartPath_Kept == suExe.name
RestartPath ==
    IF suExe.name > 0 /\ suFile[suExe.name - 1] # NoFile THEN suExe.name - 1 ELSE suExe.name

\* What the commands of chats had begun ends with the process.
Cuts(u) == u \in SuChats /\ Between(u)
HandlersEnd ==
    /\ suOp' = [u \in Commands |-> IF u = Cli \/ OpAt(u, "new") THEN suOp[u] ELSE SuIdle]
    /\ suCut' = (suCut \/ \E u \in Commands : Cuts(u))

\* The process starts from this binary and consumes the note that it finds.
Consume == suNote' = NoChat

Starts(name) ==
    /\ suVer' = suFile[name] /\ suExe' = Running(name) /\ suMain' = "up"
    /\ Consume
    /\ suTold' = IF suNote = NoChat THEN suTold ELSE [suTold EXCEPT ![suNote] = @ + 1]

SuExec ==
    /\ suMain = "exec"
    /\ HandlersEnd
    /\ suChan' = NoChat /\ suFor' = NoChat
    /\ IF Whole(RestartPath) THEN Starts(RestartPath)
       ELSE suMain' = "down" /\ UNCHANGED <<suNote, suVer, suExe, suTold>>
    /\ UNCHANGED <<suFile, suLatest, suInstalled, suRaced, suLeft>>

\* A crash, or a stop by a signal
SuStop ==
    /\ suMain # "down" /\ suLeft.crashes > 0
    /\ suLeft' = [suLeft EXCEPT !.crashes = @ - 1]
    /\ suMain' = "down"
    /\ HandlersEnd
    /\ suChan' = NoChat /\ suFor' = NoChat
    /\ UNCHANGED <<suDisk, suVer, suExe, suLatest, suTold, suInstalled, suRaced>>

\* The command line is interrupted.
SuInterrupt ==
    /\ SuAtWork(Cli) /\ suLeft.crashes > 0
    /\ suLeft' = [suLeft EXCEPT !.crashes = @ - 1]
    /\ suCut' = (suCut \/ Between(Cli))
    /\ OpEnds(Cli)
    /\ UNCHANGED <<suDisk, suVer, suExe, suMain, suChan, suFor, suLatest, suTold, suInstalled, suRaced>>

\* The service manager or a user starts the service again.
SuStartAgain ==
    /\ suMain = "down" /\ Whole(0)
    /\ Starts(0)
    /\ UNCHANGED <<suFile, suChan, suFor, suOp, suLatest, suInstalled, suRaced, suCut, suLeft>>

SuStep(u) ==
    \/ SuCheck(u) \/ SuRefuse(u) \/ SuRemoveOld(u) \/ SuBackup(u) \/ SuInstall(u)
    \/ SuFill(u) \/ SuChmod(u) \/ SuClear(u) \/ SuRestore(u) \/ SuAskAfterUpgrade(u) \/ SuAskRestart(u)

SuNext ==
    \/ SuRelease \/ SuTake \/ SuSaveNote \/ SuExec \/ SuStop \/ SuInterrupt \/ SuStartAgain
    \/ \E u \in Commands : SuStep(u)

SuSpec == SuInit /\ [][SuNext]_suVars

-----------------------------------------------------------------------------
\* An update that has a binary to itself never loses it, through failed operations, crashes
\* and restarts in the middle: the old or the new one is in place or beside it, as .old.  It is
\* in place once no update is between its renames.  The exceptions are an update that was cut
\* short there, one whose rename back fails too, and one of the command line that cannot make
\* the new file executable: then only the .old file can be run, and nothing puts it back
\* (replaceBinary, replaceExecutable).
BinaryInPlace ==
    ~suRaced =>
        /\ Whole(0) \/ Whole(1)
        /\ suCut \/ (\E u \in Commands : Between(u)) \/ Whole(0)

\* A restart runs the newest version that an update has installed, although the running
\* binary is called .old by then.  An update that began with another one under way, or in a
\* process that had been updated already, may be missed (suRaced); and nothing is said once an
\* update was cut short between its renames or could not undo them (suCut) (main, SelfUpdate).
RestartRunsUpgrade ==
    [][suMain = "exec" /\ suMain' = "up" /\ ~suRaced /\ ~suCut'
        => suVer' = suInstalled]_suVars

\* A chat that asked for one restart is told of one at most, and only by a process
\* that was started after it asked (SaveRestartNotify, ConsumeRestartNotify).
NotifiedOnce == \A u \in SuChats : suTold[u] <= 1 /\ (suTold[u] = 1 => OpAt(u, "idle"))

\* After an update, a restart or a crash the service has a binary to start from, with the
\* exceptions that are named there, and the chat that asked hears of it at most once.
BinaryAndNoteKept == BinaryInPlace /\ NotifiedOnce
=============================================================================
