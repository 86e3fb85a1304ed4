---------------------------- MODULE AgentSessions ----------------------------
(* The session objects of the agent adapters: an agent program, the goroutine *)
(* that reads its output, the channel of events with a bounded buffer, and    *)
(* the engine that drains the channel, sends a prompt and takes events until  *)
(* the turn ends.  One session is modelled; asKind says which adapter made    *)
(* it.  Claude Code keeps one process for the session, the others start one   *)
(* per turn.  An event is a note (text, thinking, tool use, permission        *)
(* request), a result or an error, and remembers the turn it was printed for. *)
EXTENDS Integers, Sequences

CONSTANTS
    AgentKinds,    \* the adapters
    AgentTurns,    \* bound: prompts sent to the session
    EventCap,      \* capacity of the channel (64 in the code)
    MaxAgentLines  \* bound: lines that a process prints per turn

ASSUME AgentAssumption ==
    /\ AgentKinds \subseteq {"claude", "codex", "gemini", "cursor", "qoder", "opencode", "iflow"}
    /\ AgentTurns \in Nat \ {0} /\ EventCap \in Nat \ {0} /\ MaxAgentLines \in Nat

VARIABLES
    asKind,
    asHeld,      \* a descendant of the program keeps its stdout open
    asAlive,     \* the flag that Send and Alive read
    asCancelled, \* the context of the session is cancelled
    asChan, asOpen,      \* the channel: its contents, and that it is not closed
    asPend,      \* turns with text in the buffer of the adapter (pendingMsgs, thinkingBuf)
    asBusy,      \* iflow: turnActive
    asTimer,     \* iflow: the timer that would end the turn
    asProc,      \* per turn: none, running, ok or failed (has written to stderr)
    asServes,    \* claude: the prompt the process works on, 0 before the first
    asInbox,     \* claude: prompts written to its stdin
    asResume,    \* claude: resuming, resumeWorkSeen (work), that failure is set, and as a history whether a
                 \* result that was printed before the first prompt was passed on (early)
    asSaid,      \* turns whose last line is printed
    asLines,     \* lines printed per turn
    asReader, asTodo,    \* per turn: the reading goroutine and what it has yet to send
    asClose,     \* Close: no, asked, waiting, late, returned
    asCloser,    \* the goroutine of Close that waits for the readers
    asTurn,      \* the engine: turn number and where it is
    asTook,      \* history: the turns whose events a turn has taken
    asOverlap,   \* history: turns that drained while an earlier reader was at work, or
                 \* text of an earlier turn was in the buffer
    asLateAdd,   \* history: a reader was added after Close had seen none
    asPanic      \* a reader has sent on the closed channel

asProgram == <<asHeld, asProc, asServes, asSaid, asLines>>
asFlags == <<asKind, asAlive, asCancelled, asBusy, asInbox>>
asWire == <<asChan, asOpen, asPanic>>
asRead == <<asReader, asTodo, asPend, asTimer, asResume>>
asShut == <<asClose, asCloser>>
asHist == <<asTook, asOverlap, asLateAdd>>
asVars == <<asProgram, asFlags, asWire, asRead, asShut, asTurn, asHist>>

AgentTurnNos == 1 .. AgentTurns
OneProcess == asKind = "claude"

\* newClaudeSession starts the program; the other adapters wait for the first Send.
AgentInit ==
    /\ asKind \in AgentKinds /\ asHeld \in BOOLEAN
    /\ asAlive = TRUE /\ asCancelled = FALSE /\ asBusy = FALSE
    /\ asChan = <<>> /\ asOpen = TRUE /\ asPanic = FALSE
    /\ asPend = <<>> /\ asTimer = "none"
    /\ \E resuming \in {FALSE, OneProcess} :
           asResume = [resuming |-> resuming, work |-> FALSE, failed |-> FALSE, early |-> FALSE]
    /\ asServes = 0 /\ asInbox = 0 /\ asSaid = {}
    /\ asProc = [t \in AgentTurnNos |-> IF OneProcess /\ t = 1 THEN "running" ELSE "none"]
    /\ asReader = [t \in AgentTurnNos |-> IF OneProcess /\ t = 1 THEN "reading" ELSE "none"]
    /\ asTodo = [t \in AgentTurnNos |-> <<>>]
    /\ asLines = [t \in 0 .. AgentTurns |-> 0]
    /\ asClose = "no" /\ asCloser = "none"
    /\ asTurn = [no |-> 0, at |-> "idle"]
    /\ asTook = [t \in AgentTurnNos |-> {}]
    /\ asOverlap = {} /\ asLateAdd = FALSE

-----------------------------------------------------------------------------
Event(type, t) == [type |-> type, turn |-> t]
Note(t) == <<Event("note", t)>>
Result(t) == <<Event("result", t)>>
Failure(t) == <<Event("error", t)>>

AtWork(t) == asReader[t] \in {"reading", "waiting"}
NoneAtWork == \A t \in AgentTurnNos : ~AtWork(t)
EngineAt(place) == asTurn' = [asTurn EXCEPT !.at = place]

\* Mutant of DrainEvents: the channel is left as it is.
DrainEvents_Skipped == asChan' = asChan
DrainEvents == asChan' = <<>>

\* A turn begins: drainEvents.
EngineDrains ==
    /\ asTurn.at = "idle" /\ asTurn.no < AgentTurns
    /\ asClose = "no"
    /\ asTurn' = [no |-> asTurn.no + 1, at |-> "drained"]
    /\ asOverlap' = IF ~OneProcess /\ (~NoneAtWork \/ asPend # <<>>) THEN asOverlap \cup {asTurn.no + 1} ELSE asOverlap
    /\ DrainEvents
    /\ UNCHANGED <<asProgram, asFlags, asOpen, asPanic, asRead, asShut, asTook, asLateAdd>>

\* Send looks at alive; iflow refuses a prompt while turnActive is set, and Claude Code every
\* prompt once it has not found the conversation to resume.
SendChecks ==
    /\ asTurn.at = "drained"
    /\ IF asAlive /\ ~asBusy /\ ~asResume.failed
       THEN EngineAt("checked") /\ asBusy' = (asKind = "iflow")
       ELSE EngineAt("idle") /\ UNCHANGED asBusy
    /\ UNCHANGED <<asProgram, asKind, asAlive, asCancelled, asInbox, asWire, asRead, asShut, asHist>>

\* Send of Claude Code: a line is written to the stdin of the process, or the pipe is broken.
ClaudeSend ==
    /\ OneProcess
    /\ asTurn.at = "checked"
    /\ IF asProc[1] = "running"
       THEN EngineAt("waiting") /\ asInbox' = asTurn.no
       ELSE EngineAt("idle") /\ UNCHANGED asInbox
    /\ UNCHANGED <<asProgram, asKind, asAlive, asCancelled, asBusy, asWire, asRead, asShut, asHist>>

\* cmd.Start fails under a cancelled context, or because the program cannot be started.
LaunchFails ==
    /\ EngineAt("idle")
    /\ asBusy' = FALSE
    /\ UNCHANGED asProc

\* cmd.Start; the reader is not there yet.
Launch ==
    /\ asTurn.at = "checked"
    /\ \/ ~asCancelled /\ EngineAt("launched")
          /\ asProc' = [asProc EXCEPT ![asTurn.no] = "running"] /\ UNCHANGED asBusy
       \/ LaunchFails
    /\ UNCHANGED <<asHeld, asServes, asSaid, asLines, asKind, asAlive, asCancelled, asInbox, asWire,
                   asRead, asShut, asHist>>

CodexSend == asKind = "codex" /\ Launch
GeminiSend == asKind = "gemini" /\ Launch
CursorSend == asKind = "cursor" /\ Launch
QoderSend == asKind = "qoder" /\ Launch
OpencodeSend == asKind = "opencode" /\ Launch
IflowSend == asKind = "iflow" /\ Launch

\* wg.Add(1) and the reader; Send returns.
SendReads ==
    /\ asTurn.at = "launched"
    /\ EngineAt("waiting")
    /\ asReader' = [asReader EXCEPT ![asTurn.no] = "reading"]
    /\ asLateAdd' = (asLateAdd \/ asCloser = "over")
    /\ UNCHANGED <<asProgram, asFlags, asWire, asTodo, asPend, asTimer, asResume, asShut, asTook, asOverlap>>

-----------------------------------------------------------------------------
EngineAsks == asClose' = IF asClose = "no" THEN "asked" ELSE asClose

\* processInteractiveEvents takes an event: a result ends the turn, an error closes the
\* session as well.
EngineTakes ==
    /\ asTurn.at = "waiting" /\ asChan # <<>>
    /\ LET e == Head(asChan)
       IN  /\ asChan' = Tail(asChan)
           /\ asTook' = [asTook EXCEPT ![asTurn.no] = @ \cup {e.turn}]
           /\ EngineAt(IF e.type = "note" THEN "waiting" ELSE "idle")
           /\ IF e.type = "error" THEN EngineAsks ELSE UNCHANGED asClose
    /\ UNCHANGED <<asProgram, asFlags, asOpen, asPanic, asRead, asCloser, asOverlap, asLateAdd>>

\* The channel is closed and empty, the state of the chat was stopped, or a timer fired:
\* in each case the turn ends and the session is closed.
EngineLeaves ==
    /\ asTurn.at = "waiting"
    /\ EngineAt("idle")
    /\ EngineAsks
    /\ UNCHANGED <<asProgram, asFlags, asWire, asRead, asCloser, asHist>>

EngineSeesClosed == asChan = <<>> /\ ~asOpen /\ EngineLeaves
EngineStopped == asClose # "no" /\ EngineLeaves
EngineTimesOut == asClose = "no" /\ EngineLeaves

\* Another goroutine closes the session: /new, /stop, a settings command, shutdown.
CloseAsked ==
    /\ asClose = "no"
    /\ asClose' = "asked"
    /\ UNCHANGED <<asProgram, asFlags, asWire, asRead, asCloser, asTurn, asHist>>

-----------------------------------------------------------------------------
\* The reader of process p takes the next line, printed for turn t: events is what it
\* sends for it, pend the buffer afterwards, last says that it is the final line.
Line(p, t, events, pend, last) ==
    /\ asReader[p] = "reading" /\ asTodo[p] = <<>>
    /\ asProc[p] = "running"
    /\ t \notin asSaid /\ asLines[t] < MaxAgentLines
    /\ asLines' = [asLines EXCEPT ![t] = @ + 1]
    /\ asTodo' = [asTodo EXCEPT ![p] = events]
    /\ asPend' = pend
    /\ asSaid' = IF last THEN asSaid \cup {t} ELSE asSaid
    /\ UNCHANGED <<asHeld, asProc, asServes, asFlags, asWire, asReader, asShut, asTurn, asHist>>

NoTimer == UNCHANGED <<asTimer, asResume>>

\* The messages of the buffer, sent as notes.
Flushed == [i \in 1 .. Len(asPend) |-> Event("note", asPend[i])]
BufferText(t) == Line(t, t, <<>>, Append(asPend, t), FALSE)
SendNote(t) == Line(t, t, Note(t), asPend, FALSE)

\* handleResult.  Before its first prompt a process may print an empty result for work that it
\* resumes: it is dropped until one was passed on, unless such work was seen ...
ClaudeResult(t) ==
    IF t = 0 /\ asResume.resuming /\ ~asResume.work
    THEN Line(1, t, <<>>, asPend, FALSE) /\ UNCHANGED asResume
    ELSE /\ Line(1, t, Result(t), asPend, t > 0)
         /\ asResume' = [asResume EXCEPT !.resuming = FALSE, !.early = @ \/ t = 0]

\* ... and an error is passed on at any time.  The one that says that the conversation to
\* resume is not there is kept for all prompts to come.
ClaudeError(t) ==
    /\ Line(1, t, Failure(t), asPend, t > 0)
    /\ \E failed \in {asResume.failed, asResume.failed \/ (asResume.resuming /\ ~asResume.work)} :
           asResume' = [asResume EXCEPT !.resuming = FALSE, !.failed = failed]

\* handleSystem, handleAssistant, handleUser and handleControlRequest: a note, or nothing when a
\* permission is given at once.  That the process begins is a note and no work.
ClaudeNote(t) ==
    /\ \E events \in {Note(t), <<>>} : Line(1, t, events, asPend, FALSE)
    /\ \E work \in {asResume.work, TRUE} : asResume' = [asResume EXCEPT !.work = work]

ClaudeLine ==
    /\ OneProcess
    /\ ClaudeNote(asServes) \/ ClaudeResult(asServes) \/ ClaudeError(asServes)
    /\ UNCHANGED asTimer

\* The process reads the next prompt from its stdin.
ClaudeReadsPrompt ==
    /\ OneProcess /\ asProc[1] = "running"
    /\ asServes < asInbox
    /\ asServes = 0 \/ asServes \in asSaid
    /\ asServes' = asInbox
    /\ UNCHANGED <<asHeld, asProc, asSaid, asLines, asFlags, asWire, asRead, asShut, asTurn, asHist>>

\* handleItemStarted and handleItemCompleted: messages wait until a tool (then they are
\* thinking) or the end of the turn (then they are the reply).
CodexItem(t) ==
    \/ BufferText(t)
    \/ Line(t, t, Flushed \o Note(t), <<>>, FALSE)
    \/ SendNote(t)

CodexLine(t) ==
    /\ asKind = "codex"
    /\ \/ Line(t, t, <<>>, <<>>, FALSE)
       \/ CodexItem(t)
       \/ Line(t, t, Flushed \o Result(t), <<>>, TRUE)
       \/ Line(t, t, Failure(t), asPend, TRUE)
    /\ NoTimer

\* An error line of Gemini is an error event whatever its severity, and is not the last.
GeminiLine(t) ==
    /\ asKind = "gemini"
    /\ \/ SendNote(t) \/ BufferText(t)
       \/ Line(t, t, Flushed \o Note(t), <<>>, FALSE)
       \/ Line(t, t, Failure(t), asPend, FALSE)
       \/ \E end \in {Result(t), Failure(t)} : Line(t, t, Flushed \o end, <<>>, TRUE)
    /\ NoTimer

CursorLine(t) ==
    /\ asKind = "cursor"
    /\ \/ SendNote(t) \/ BufferText(t)
       \/ Line(t, t, Flushed, <<>>, FALSE)
       \/ Line(t, t, Result(t), asPend, TRUE)
    /\ NoTimer

QoderLine(t) ==
    /\ asKind = "qoder"
    /\ \/ SendNote(t)
       \/ Line(t, t, Result(t), asPend, TRUE)
    /\ NoTimer

\* Every step_finish is a result; a turn with tools has several steps.
OpencodeLine(t) ==
    /\ asKind = "opencode"
    /\ \/ SendNote(t)
       \/ \E last \in BOOLEAN : Line(t, t, Result(t), asPend, last)
    /\ NoTimer

\* The transcript of iFlow: text arms the short timer unless a tool is pending, a tool use
\* arms the long one, the results of the tools disarm it.
IflowLine(t) ==
    /\ asKind = "iflow"
    /\ \/ SendNote(t) /\ asTimer' = IF asTimer = "tool" THEN "tool" ELSE "idle"
       \/ SendNote(t) /\ asTimer' = "tool"
       \/ /\ asTimer = "tool"
          /\ Line(t, t, <<>>, asPend, FALSE)
          /\ asTimer' = "none"
    /\ UNCHANGED asResume

\* A timer fires: the turn has its result and its process is killed.
IflowTimer(t) ==
    /\ asTimer \in {"idle", "tool"}
    /\ asProc[t] = "running"
    /\ asTimer' = "ready"
    /\ asProc' = [asProc EXCEPT ![t] = "ok"]
    /\ UNCHANGED <<asHeld, asServes, asSaid, asLines, asFlags, asWire, asReader, asTodo, asPend, asResume,
                   asShut, asTurn, asHist>>

-----------------------------------------------------------------------------
\* The process ends by itself or because the context is cancelled.
ProcessEnds(p) ==
    /\ asProc[p] = "running"
    /\ asProc' \in {[asProc EXCEPT ![p] = how] : how \in {"ok", "failed"}}
    /\ UNCHANGED <<asHeld, asServes, asSaid, asLines, asFlags, asWire, asRead, asShut, asTurn, asHist>>

\* Sends come one by one; under a cancelled context the select may drop what is left.
ReaderSends(p) ==
    /\ AtWork(p) /\ asTodo[p] # <<>>
    /\ IF asOpen
       THEN Len(asChan) < EventCap /\ asChan' = Append(asChan, Head(asTodo[p])) /\ UNCHANGED asPanic
       ELSE asPanic' = TRUE /\ UNCHANGED asChan
    /\ asTodo' = [asTodo EXCEPT ![p] = Tail(@)]
    /\ UNCHANGED <<asProgram, asFlags, asOpen, asReader, asPend, asTimer, asResume, asShut, asTurn, asHist>>

\* Mutant of ReaderDrops: the sends do not listen to the context.
ReaderDrops_Never(p) == FALSE

ReaderDrops(p) ==
    /\ asCancelled /\ asTodo[p] # <<>>
    /\ asTodo' = [asTodo EXCEPT ![p] = <<>>]
    /\ UNCHANGED <<asProgram, asFlags, asWire, asReader, asPend, asTimer, asResume, asShut, asTurn, asHist>>

\* The output is at its end; it is not while a descendant holds it.  Wait reports how the
\* process ended, and what it wrote to stderr is an error event, unless Claude Code has said
\* that the conversation is not there.
ReaderAtEnd(p, events) ==
    /\ asReader[p] = "reading" /\ asTodo[p] = <<>>
    /\ asProc[p] \in {"ok", "failed"}
    /\ asReader' = [asReader EXCEPT ![p] = "waiting"]
    /\ asTodo' = [asTodo EXCEPT ![p] = events]
    /\ UNCHANGED <<asProgram, asKind, asCancelled, asBusy, asInbox, asWire, asPend, asTimer, asResume,
                   asShut, asTurn, asHist>>

OutputEnds(p) ==
    /\ asKind # "iflow"
    /\ ~asHeld
    /\ ReaderAtEnd(p, IF asProc[p] = "failed" /\ ~asResume.failed THEN Failure(IF OneProcess THEN asInbox ELSE p) ELSE <<>>)
    /\ asAlive' = (asAlive /\ ~OneProcess)

\* The terminal is closed with the process.  A ready turn has its result; otherwise a
\* failure is an error, unless the session was cancelled, and any other end a result.
IflowEnds(p) ==
    /\ asKind = "iflow"
    /\ \E end \in CASE asTimer = "ready"    -> {Result(p)}
                    [] asProc[p] = "failed" -> {IF asCancelled THEN <<>> ELSE Failure(p)}
                    [] OTHER                -> {Result(p), Failure(p)} :
           ReaderAtEnd(p, end)
    /\ UNCHANGED asAlive

\* Mutant of ReaderDone: the reader of Claude Code forgets to close the channel.
ReaderDone_Open(p) ==
    /\ asReader[p] = "waiting" /\ asTodo[p] = <<>>
    /\ asReader' = [asReader EXCEPT ![p] = "done"]
    /\ asBusy' = FALSE /\ asTimer' = "none"
    /\ UNCHANGED <<asProgram, asKind, asAlive, asCancelled, asInbox, asWire, asTodo, asPend,
                   asResume, asShut, asTurn, asHist>>

\* The deferred calls of readLoop: wg.Done, turnActive, and for Claude Code the end of the
\* channel.
ReaderDone(p) ==
    /\ asReader[p] = "waiting" /\ asTodo[p] = <<>>
    /\ asReader' = [asReader EXCEPT ![p] = "done"]
    /\ asOpen' = (asOpen /\ ~OneProcess)
    /\ asBusy' = FALSE /\ asTimer' = "none"
    /\ UNCHANGED <<asProgram, asKind, asAlive, asCancelled, asInbox, asChan, asPanic, asTodo, asPend,
                   asResume, asShut, asTurn, asHist>>

-----------------------------------------------------------------------------
\* Close of Claude Code: cancel, then wait for the reader; after eight seconds the process
\* is killed once more, and the wait goes on.
ClaudeClose ==
    /\ OneProcess
    /\ asCancelled' = TRUE
    /\ \/ asClose = "asked" /\ asClose' = "waiting"
       \/ asClose = "waiting" /\ asReader[1] = "done" /\ asClose' = "returned"
    /\ UNCHANGED <<asProgram, asKind, asAlive, asBusy, asInbox, asWire, asRead, asCloser, asTurn, asHist>>

\* The others: alive is cleared, the context cancelled, and a goroutine waits for the readers.
CloseBegins ==
    /\ ~OneProcess
    /\ asClose = "asked"
    /\ asAlive' = FALSE /\ asCancelled' = TRUE
    /\ asClose' = "waiting" /\ asCloser' = "waiting"
    /\ UNCHANGED <<asProgram, asKind, asBusy, asInbox, asWire, asRead, asTurn, asHist>>

\* wg.Wait returns and closeEvents runs; iflow closes the channel in Close itself.
CloserDone ==
    /\ asCloser = "waiting" /\ NoneAtWork
    /\ asCloser' = "over"
    /\ asOpen' = (asOpen /\ asKind = "iflow")
    /\ UNCHANGED <<asProgram, asFlags, asChan, asPanic, asRead, asClose, asTurn, asHist>>

CloseReturns(gaveUp) ==
    /\ asClose \in {"waiting", "late"} /\ ~OneProcess
    /\ gaveUp \/ asCloser = "over"
    /\ asClose' = "returned"
    /\ asOpen' = (asOpen /\ asKind # "iflow")
    /\ UNCHANGED <<asProgram, asFlags, asChan, asPanic, asRead, asCloser, asTurn, asHist>>

\* After eight seconds codex kills the process group and waits for three more.
CodexKillsGroup ==
    /\ asKind = "codex" /\ asClose = "waiting"
    /\ asClose' = "late"
    /\ asHeld' = FALSE
    /\ asProc' = [t \in AgentTurnNos |-> IF asProc[t] = "running" THEN "failed" ELSE asProc[t]]
    /\ UNCHANGED <<asServes, asSaid, asLines, asFlags, asWire, asRead, asCloser, asTurn, asHist>>

CodexClose == CodexKillsGroup \/ (asKind = "codex" /\ CloseReturns(asClose = "late"))
GeminiClose == asKind = "gemini" /\ CloseReturns(TRUE)
CursorClose == asKind = "cursor" /\ CloseReturns(TRUE)
QoderClose == asKind = "qoder" /\ CloseReturns(TRUE)
OpencodeClose == asKind = "opencode" /\ CloseReturns(TRUE)
IflowClose == asKind = "iflow" /\ CloseReturns(TRUE)

-----------------------------------------------------------------------------
AgentLine ==
    \/ ClaudeLine
    \/ \E t \in AgentTurnNos :
           CodexLine(t) \/ GeminiLine(t) \/ CursorLine(t) \/ QoderLine(t) \/ OpencodeLine(t) \/ IflowLine(t)

SendStep ==
    \/ SendChecks \/ ClaudeSend
    \/ CodexSend \/ GeminiSend \/ CursorSend \/ QoderSend \/ OpencodeSend \/ IflowSend
    \/ SendReads

ReaderStep(p) == ReaderSends(p) \/ ReaderDrops(p) \/ OutputEnds(p) \/ IflowEnds(p) \/ ReaderDone(p)

CloseStep ==
    \/ ClaudeClose \/ CloseBegins \/ CloserDone
    \/ CodexClose \/ GeminiClose \/ CursorClose \/ QoderClose \/ OpencodeClose \/ IflowClose

EngineStep == EngineDrains \/ EngineTakes \/ EngineSeesClosed \/ EngineStopped \/ EngineTimesOut

AgentNext ==
    \/ EngineStep \/ SendStep \/ CloseAsked \/ CloseStep
    \/ AgentLine \/ ClaudeReadsPrompt
    \/ \E p \in AgentTurnNos : IflowTimer(p) \/ ProcessEnds(p) \/ ReaderStep(p)

AgentSpec == AgentInit /\ [][AgentNext]_asVars

\* Goroutines run, and a program ends in the end; that of Claude Code stays until it is
\* killed, but answers the prompts it reads.
AgentFairness ==
    /\ WF_asVars(SendStep) /\ WF_asVars(CloseStep)
    /\ WF_asVars((EngineTakes \/ EngineSeesClosed))
    /\ \A p \in AgentTurnNos : WF_asVars(ReaderStep(p)) /\ WF_asVars(ProcessEnds(p))

-----------------------------------------------------------------------------
\* A turn takes only events of its own.  The exceptions are those of the code: what Claude Code
\* prints before it reads its first prompt, which is the first turn's as well, and every event
\* after a result of that kind that was passed on, since it ends a turn whose answer is still
\* to come; with a process per turn, what one that was still at work when the next turn drained
\* the channel prints afterwards, or left in the buffer of its adapter.
ForeignEvents ==
    \A t \in AgentTurnNos : \A m \in asTook[t] :
        m # t => IF OneProcess THEN m = 0 \/ asResume.early ELSE m < t /\ t \in asOverlap

\* No reader sends on the closed channel, which would end the whole process.  The
\* exceptions are those of the code: a reader that Send adds after the goroutine of Close
\* has counted none, and iflow, whose Close gives up waiting and closes the channel.
SendsOnOpenChannel == asPanic => asLateAdd \/ (asKind = "iflow" /\ asClose = "returned")

\* Close returns, and every reader ends with it, however many events nobody takes.  The
\* exception is a descendant that holds the output: Close of Claude Code then waits for
\* ever, the others leave a reader behind.
CloseEnds ==
    asClose = "asked" ~> \/ asClose = "returned" /\ (NoneAtWork \/ asHeld)
                         \/ asHeld /\ OneProcess

\* The turn's process is gone and said nothing that ends a turn.
Mute(t) == asReader[t] = "done" /\ asChan = <<>> /\ t \notin asSaid

\* A turn that was sent ends without the help of the timers, unless its process ends
\* without a last line or a descendant holds the output.
TurnSettles ==
    asTurn.at = "waiting" ~> asTurn.at # "waiting" \/ (~OneProcess /\ Mute(asTurn.no)) \/ asHeld \/ asPanic

\* What a turn reads from the event channel is its own, and the channel outlives its
\* writers (drainEvents, readLoop, Close), with the exceptions named above.
EventChannelSafe == ForeignEvents /\ SendsOnOpenChannel
=============================================================================
