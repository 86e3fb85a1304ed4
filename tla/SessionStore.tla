----------------------------- MODULE SessionStore -----------------------------
(* The sessions of a chat in memory and in their file.  A turn binds the id of *)
(* the agent's transcript to its session and adds to the history; commands     *)
(* create, switch, delete and reset sessions meanwhile.  Commands that hold    *)
(* the mutex of the manager write the file under it; Save reads under the      *)
(* shared lock, so that two of them may write their snapshots in either order. *)
EXTENDS Integers, FiniteSets

CONSTANTS
    SsWorkers,        \* goroutines of messages: prompts and commands
    MaxSessions,      \* bound: sessions that are created
    MaxTranscripts,   \* bound: transcripts that agents begin
    MaxCommands,      \* bound: commands
    MaxTurns,         \* bound: turns
    MaxSsRestarts     \* bound: restarts of the process

ASSUME SessionStoreAssumption ==
    /\ {MaxSessions, MaxTranscripts, MaxCommands, MaxTurns, MaxSsRestarts} \subseteq Nat
    /\ MaxSessions > 0

VARIABLES
    ssSessions,   \* sessions and userSessions of the chat
    ssCounter,    \* counter: the id of the last session
    ssActive,     \* activeSession of the chat, 0 for none
    ssAgent,      \* AgentSessionID of each session: a transcript, 0 for none
    ssReplay,     \* NeedsReplay of each session
    ssBusy,       \* busy of each session
    ssState,      \* the transcript of the chat's agent process, 0 for no process
    ssBegun,      \* transcripts begun so far
    ssBorn,       \* history: per transcript, its session and reset count then
    ssResets,     \* history: resets of each session
    ssDisk,       \* the file
    ssSaving,     \* per worker: the snapshot that its Save is about to write, or None
    ssWork,       \* per worker: what it is doing
    ssTransition, \* the worker that holds the session transition mutex of the chat, as a set
    ssCounts,     \* commands, turns and restarts so far
    ssOverlap,    \* history: two Saves overlapped since the file was last written alone
    ssUnderWay    \* history: sessions with a turn under way during a reset, or while another became active

ssMemory == <<ssSessions, ssCounter, ssActive, ssAgent>>
ssHistory == <<ssBegun, ssBorn, ssResets>>
ssFile == <<ssDisk, ssSaving, ssOverlap>>
ssVars == <<ssMemory, ssReplay, ssBusy, ssState, ssHistory, ssFile, ssWork, ssTransition, ssCounts,
            ssUnderWay>>

SsIds == 1 .. MaxSessions
NoSave == [sessions |-> {}, counter |-> -1, active |-> 0, agent |-> [s \in SsIds |-> 0]]

\* The snapshot of saveLocked: the copy that it makes of each session leaves NeedsReplay out.
Snapshot == [sessions |-> ssSessions, counter |-> ssCounter, active |-> ssActive,
             agent |-> [s \in SsIds |-> IF s \in ssSessions THEN ssAgent[s] ELSE 0]]

SsIdle == [at |-> "idle", session |-> 0, transcript |-> 0]

SsInit ==
    /\ ssSessions = {} /\ ssCounter = 0 /\ ssActive = 0
    /\ ssAgent = [s \in SsIds |-> 0]
    /\ ssReplay = [s \in SsIds |-> FALSE]
    /\ ssBusy = {}
    /\ ssState = 0 /\ ssBegun = 0
    /\ ssBorn = [t \in 1 .. MaxTranscripts |-> <<0, 0>>]
    /\ ssResets = [s \in SsIds |-> 0]
    /\ ssDisk = Snapshot
    /\ ssSaving = [w \in SsWorkers |-> NoSave]
    /\ ssWork = [w \in SsWorkers |-> SsIdle]
    /\ ssTransition = {}
    /\ ssCounts = [command |-> 0, turn |-> 0, restart |-> 0]
    /\ ssOverlap = FALSE /\ ssUnderWay = {}

SsAt(w) == ssWork[w].at
SsTo(w, label) == ssWork' = [ssWork EXCEPT ![w].at = label]
SsCount(kind, bound) == ssCounts[kind] < bound /\ ssCounts' = [ssCounts EXCEPT ![kind] = @ + 1]

\* mu.Lock(): no Save has the lock for reading.
Saving == {w \in SsWorkers : ssSaving[w] # NoSave}
Locked == Saving = {}

\* saveLocked under mu.Lock(): the file is what the memory is now.
WriteFile ==
    /\ ssDisk' = Snapshot'
    /\ ssOverlap' = FALSE
    /\ UNCHANGED ssSaving

\* createLocked
Create ==
    /\ ssCounter < MaxSessions
    /\ ssCounter' = ssCounter + 1
    /\ ssSessions' = ssSessions \cup {ssCounter'}
    /\ ssActive' = ssCounter'
    /\ ssAgent' = [ssAgent EXCEPT ![ssCounter'] = 0]
    /\ ssReplay' = [ssReplay EXCEPT ![ssCounter'] = FALSE]

-----------------------------------------------------------------------------
\* Save: the snapshot is read under the shared lock ...
SaveBegins(w) ==
    /\ ssSaving' = [ssSaving EXCEPT ![w] = Snapshot']
    /\ ssOverlap' = (Saving # {} \/ ssOverlap)

\* ... and the file written; the worker goes on.
SaveEnds(w) ==
    /\ w \in Saving
    /\ ssDisk' = ssSaving[w]
    /\ ssSaving' = [ssSaving EXCEPT ![w] = NoSave]
    /\ UNCHANGED <<ssMemory, ssReplay, ssBusy, ssState, ssHistory, ssOverlap, ssWork, ssTransition, ssCounts,
                   ssUnderWay>>

Free(w) == w \notin Saving

\* GetOrCreateActive: a session that it has to create is not saved.
GetActive == IF ssActive = 0 THEN Locked /\ Create ELSE UNCHANGED <<ssMemory, ssReplay>>

\* A turn has looked for its session and has not been sent.
NotSent == {w \in SsWorkers : SsAt(w) \in {"begin", "state", "send"}}

\* A prompt is to begin a turn on the session that is active.  Only one that was queued holds the
\* transition mutex, so that /new and /switch wait until it is sent; one that begins directly
\* does not.
TurnReads(w) ==
    /\ SsAt(w) = "idle" /\ Free(w)
    /\ \/ ssTransition = {} /\ ssTransition' = {w}
       \/ UNCHANGED ssTransition
    /\ SsCount("turn", MaxTurns)
    /\ GetActive
    /\ ssWork' = [ssWork EXCEPT ![w] = [at |-> "begin", session |-> ssActive', transcript |-> 0]]
    /\ UNCHANGED <<ssBusy, ssState, ssHistory, ssFile, ssUnderWay>>

\* It begins on that session, which may not be active any more; or the session is busy, and it
\* is queued or goes back to the queue.
TurnBegins(w) ==
    LET s == ssWork[w].session IN
    /\ SsAt(w) = "begin"
    /\ \/ /\ s \notin ssBusy
          /\ ssBusy' = ssBusy \cup {s}
          /\ SsTo(w, "state")
          /\ ssUnderWay' = (IF \E v \in SsWorkers : SsAt(v) = "clear" THEN ssUnderWay \cup {s} ELSE ssUnderWay)
          /\ UNCHANGED ssTransition
       \/ /\ s \in ssBusy
          /\ ssTransition' = ssTransition \ {w}
          /\ ssWork' = [ssWork EXCEPT ![w] = SsIdle]
          /\ UNCHANGED <<ssBusy, ssUnderWay>>
    /\ UNCHANGED <<ssMemory, ssReplay, ssState, ssHistory, ssFile, ssCounts>>

\* getOrCreateInteractiveState: the process of the chat, or a new one that resumes the
\* transcript of the session or begins one.
TurnTakesState(w) ==
    LET s == ssWork[w].session IN
    /\ SsAt(w) = "state"
    /\ IF ssState # 0 THEN UNCHANGED <<ssState, ssBegun, ssBorn>>
       ELSE IF ssAgent[s] # 0 THEN ssState' = ssAgent[s] /\ UNCHANGED <<ssBegun, ssBorn>>
       ELSE /\ ssBegun < MaxTranscripts
            /\ ssBegun' = ssBegun + 1 /\ ssState' = ssBegun + 1
            /\ ssBorn' = [ssBorn EXCEPT ![ssBegun + 1] = <<s, ssResets[s]>>]
    /\ ssWork' = [ssWork EXCEPT ![w].at = "send", ![w].transcript = ssState']
    /\ UNCHANGED <<ssMemory, ssReplay, ssBusy, ssResets, ssFile, ssTransition, ssUnderWay, ssCounts>>

\* cleanupInteractiveTurn: the process of the turn goes, if it is still that of the chat.
ProcessGoes(w) == ssState' = (IF ssState = ssWork[w].transcript THEN 0 ELSE ssState)

\* The prompt is sent, which gives the mutex back; a replay is done with it.  Or Send fails: the
\* process has died, and the turn takes another one, or the turn ends.
TurnSends(w) ==
    LET s == ssWork[w].session IN
    /\ SsAt(w) = "send" /\ Free(w)
    /\ UNCHANGED <<ssMemory, ssBusy, ssHistory, ssDisk, ssCounts, ssUnderWay>>
    /\ \/ /\ SsTo(w, "loop")
          /\ ssTransition' = ssTransition \ {w}
          /\ ssReplay' = [ssReplay EXCEPT ![s] = FALSE]
          /\ UNCHANGED ssState
          /\ IF ssReplay[s] THEN SaveBegins(w) ELSE UNCHANGED <<ssSaving, ssOverlap>>
       \/ /\ ProcessGoes(w)
          /\ SsTo(w, "state") \/ SsTo(w, "end")
          /\ UNCHANGED <<ssReplay, ssSaving, ssOverlap, ssTransition>>

\* Send or an event has an error after which the transcript cannot go on: the session forgets it
\* and asks for a replay, if the process is still that of the chat.
TranscriptLost(w) ==
    LET s == ssWork[w].session IN
    /\ SsAt(w) \in {"send", "loop"} /\ Free(w)
    /\ ssState = ssWork[w].transcript
    /\ ssState' = 0
    /\ ssAgent' = [ssAgent EXCEPT ![s] = 0]
    /\ ssReplay' = [ssReplay EXCEPT ![s] = TRUE]
    /\ SsTo(w, "reset")
    /\ UNCHANGED <<ssSessions, ssCounter, ssActive, ssBusy, ssHistory, ssFile, ssTransition, ssCounts,
                   ssUnderWay>>

TurnSavesReset(w) ==
    /\ SsAt(w) = "reset"
    /\ SsTo(w, "end")
    /\ UNCHANGED <<ssMemory, ssReplay, ssBusy, ssState, ssHistory, ssDisk, ssTransition, ssCounts, ssUnderWay>>
    /\ SaveBegins(w)

\* bindAgentSessionID: before the prompt is sent and at each event, also one that the loop
\* takes after state.stopped was closed.
BindAgentSession(w) ==
    LET s == ssWork[w].session IN
    /\ SsAt(w) \in {"send", "loop"} /\ Free(w)
    /\ ssAgent[s] = 0
    /\ ssAgent' = [ssAgent EXCEPT ![s] = ssWork[w].transcript]
    /\ UNCHANGED <<ssSessions, ssCounter, ssActive, ssReplay, ssBusy, ssState, ssHistory, ssDisk, ssWork,
                   ssTransition, ssCounts, ssUnderWay>>
    /\ SaveBegins(w)

\* The answer is added to the history and saved, or the turn ends without one; its agent may
\* have died.
TurnAnswered(w) ==
    /\ SsAt(w) = "loop" /\ Free(w)
    /\ SsTo(w, "end")
    /\ UNCHANGED <<ssMemory, ssReplay, ssBusy, ssHistory, ssDisk, ssTransition, ssCounts, ssUnderWay>>
    /\ \/ SaveBegins(w) /\ UNCHANGED ssState
       \/ UNCHANGED <<ssSaving, ssOverlap>> /\ ProcessGoes(w)

\* The session is free, and the mutex if the turn still has it.
SsTurnEnds(w) ==
    /\ SsAt(w) = "end" /\ Free(w)
    /\ ssBusy' = ssBusy \ {ssWork[w].session}
    /\ ssTransition' = ssTransition \ {w}
    /\ ssWork' = [ssWork EXCEPT ![w] = SsIdle]
    /\ UNCHANGED <<ssMemory, ssReplay, ssState, ssHistory, ssFile, ssCounts, ssUnderWay>>

-----------------------------------------------------------------------------
\* Mutant of ResetClears: the process of the chat goes on.
ResetClears_Not == UNCHANGED ssState

\* cleanupInteractiveState
ResetClears == ssState' = 0

\* /dir, /model, /effort and /attach: the process is closed ...
ResetBegins(w) ==
    /\ SsAt(w) = "idle" /\ Free(w)
    /\ SsCount("command", MaxCommands)
    /\ ResetClears
    /\ SsTo(w, "clear")
    /\ ssUnderWay' = ssUnderWay \cup ssBusy
    /\ UNCHANGED <<ssMemory, ssReplay, ssBusy, ssHistory, ssFile, ssTransition>>

\* ... then the active session forgets its transcript and history, busy or not ...
ResetActive(w) ==
    /\ SsAt(w) = "clear"
    /\ IF ssActive = 0
       THEN Locked /\ Create /\ UNCHANGED ssResets
       ELSE /\ ssAgent' = [ssAgent EXCEPT ![ssActive] = 0]
            /\ ssResets' = [ssResets EXCEPT ![ssActive] = @ + 1]
            /\ UNCHANGED <<ssSessions, ssCounter, ssActive, ssReplay>>
    /\ ssUnderWay' = ssUnderWay \cup ssBusy
    /\ SsTo(w, "save")
    /\ UNCHANGED <<ssBusy, ssState, ssBegun, ssBorn, ssFile, ssTransition, ssCounts>>

\* Mutant of ResetSaves: the reset stays in memory.
ResetSaves_Not(w) ==
    /\ SsAt(w) = "save"
    /\ ssWork' = [ssWork EXCEPT ![w] = SsIdle]
    /\ UNCHANGED <<ssMemory, ssReplay, ssBusy, ssState, ssHistory, ssFile, ssTransition, ssCounts, ssUnderWay>>

\* ... and it is saved.
ResetSaves(w) ==
    /\ SsAt(w) = "save"
    /\ ssWork' = [ssWork EXCEPT ![w] = SsIdle]
    /\ UNCHANGED <<ssMemory, ssReplay, ssBusy, ssState, ssHistory, ssDisk, ssTransition, ssCounts, ssUnderWay>>
    /\ SaveBegins(w)

\* /new and /switch take the transition mutex and close the process of the chat ...
ReplaceBegins(w) ==
    /\ SsAt(w) = "idle" /\ Free(w)
    /\ ssTransition = {} /\ ssTransition' = {w}
    /\ SsCount("command", MaxCommands)
    /\ ResetClears
    /\ \/ SsTo(w, "new")
       \/ \E s \in ssSessions : ssWork' = [ssWork EXCEPT ![w] = [SsIdle EXCEPT !.at = "switch", !.session = s]]
    /\ UNCHANGED <<ssMemory, ssReplay, ssBusy, ssHistory, ssFile, ssUnderWay>>

\* Another session becomes the active one: a turn that has looked for the old one and is not
\* sent, or that has started a process since, crosses the two.
Crosses ==
    ssUnderWay' = ssUnderWay \cup {ssWork[v].session : v \in NotSent}
                             \cup (IF ssState = 0 /\ NotSent = {} THEN {} ELSE {ssActive'})

ReplaceEnds(w) ==
    /\ ssTransition' = ssTransition \ {w}
    /\ ssWork' = [ssWork EXCEPT ![w] = SsIdle]
    /\ UNCHANGED <<ssBusy, ssState, ssHistory, ssCounts>>

\* ... and then NewSession creates the one that becomes active ...
NewSession(w) ==
    /\ SsAt(w) = "new"
    /\ Locked /\ Create /\ WriteFile
    /\ Crosses
    /\ ReplaceEnds(w)

\* ... or SwitchSession takes one of before, if it has not been deleted.
SwitchSession(w) ==
    LET s == ssWork[w].session IN
    /\ SsAt(w) = "switch"
    /\ Locked
    /\ \/ /\ s \in ssSessions
          /\ ssActive' = s /\ UNCHANGED <<ssSessions, ssCounter, ssAgent>>
          /\ WriteFile
          /\ Crosses
       \/ s \notin ssSessions /\ UNCHANGED <<ssMemory, ssFile, ssUnderWay>>
    /\ UNCHANGED ssReplay
    /\ ReplaceEnds(w)

\* /delete of a session that is not the active one, under mu.
DeleteSession(w) ==
    /\ SsAt(w) = "idle" /\ Free(w)
    /\ SsCount("command", MaxCommands)
    /\ Locked
    /\ \E s \in ssSessions \ {ssActive} : ssSessions' = ssSessions \ {s}
    /\ UNCHANGED <<ssCounter, ssActive, ssAgent>>
    /\ WriteFile
    /\ UNCHANGED <<ssReplay, ssState, ssBusy, ssHistory, ssWork, ssTransition, ssUnderWay>>

\* The process ends, at any moment, and load() takes the file.
SsRestart ==
    /\ SsCount("restart", MaxSsRestarts)
    /\ ssSessions' = ssDisk.sessions /\ ssCounter' = ssDisk.counter
    /\ ssActive' = ssDisk.active /\ ssAgent' = ssDisk.agent
    /\ ssReplay' = [s \in SsIds |-> FALSE]
    /\ ssBusy' = {} /\ ssState' = 0 /\ ssTransition' = {}
    /\ ssSaving' = [w \in SsWorkers |-> NoSave]
    /\ ssWork' = [w \in SsWorkers |-> SsIdle]
    /\ ssOverlap' = FALSE
    /\ UNCHANGED <<ssHistory, ssDisk, ssUnderWay>>

SsTurn(w) ==
    \/ TurnReads(w) \/ TurnBegins(w) \/ TurnTakesState(w) \/ TurnSends(w)
    \/ TranscriptLost(w) \/ TurnSavesReset(w) \/ BindAgentSession(w) \/ TurnAnswered(w) \/ SsTurnEnds(w)

SsCommand(w) ==
    \/ ResetBegins(w) \/ ResetActive(w) \/ ResetSaves(w)
    \/ ReplaceBegins(w) \/ NewSession(w) \/ SwitchSession(w) \/ DeleteSession(w)

SsNext ==
    \/ \E w \in SsWorkers : SsTurn(w) \/ SsCommand(w) \/ SaveEnds(w)
    \/ SsRestart

SsSpec == SsInit /\ [][SsNext]_ssVars

-----------------------------------------------------------------------------
\* A session continues the transcript that an agent began for it after its last reset: not
\* that of another session, and not one in the old directory or with the old model.  Excepted
\* are, as in the code, a session that was reset while a turn was under way on it, and the two
\* sessions of a /new or /switch that a turn crossed: one that had looked for its session without
\* the transition mutex and was not sent yet, or that started a process after the command had closed the old
\* one (SentToOwnProcess shows how).  A restart may bring back what a lost Save had forgotten.
ResetSticks ==
    ssCounts.restart = 0 =>
        \A s \in ssSessions \ ssUnderWay :
            ssAgent[s] # 0 => ssBorn[ssAgent[s]] = <<s, ssResets[s]>>

AtRest == Saving = {} /\ \A w \in SsWorkers : SsAt(w) = "idle"

\* GetOrCreateActive saves nothing: the file has no session yet and the memory one, which no
\* agent has begun a transcript for.
FirstUnsaved == ssDisk.sessions = {} /\ ssSessions = {ssActive} /\ ssAgent[ssActive] = 0

\* When nothing is going on the file has what load() takes after a restart: the sessions with
\* their transcripts, the active one and the counter of their ids.  Excepted are the first
\* session of a chat, and a file that two Saves wrote at a time.  NeedsReplay is in no file:
\* ReplaySurvives says what is lost with it.
FileCurrentAtRest == AtRest /\ ~ssOverlap => ssDisk = Snapshot \/ FirstUnsaved

\* The same without the exception of two Saves: "Save persists current state to disk.  Safe to
\* call from outside".
SavedIsCurrent ==
    AtRest => \A s \in ssDisk.sessions \cap ssSessions : ssDisk.agent[s] = ssAgent[s]

\* The field NeedsReplay has the tag of a field of the file: a session whose transcript was lost
\* still asks for a replay of its history after a restart from which everything was saved.
ReplaySurvives ==
    [][SsRestart /\ AtRest /\ ~ssOverlap =>
           \A s \in ssSessions \cap ssSessions' : ssReplay'[s] = ssReplay[s]]_ssVars
=============================================================================
