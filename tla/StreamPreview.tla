----------------------------- MODULE StreamPreview -----------------------------
(* The preview of an answer while it is written.  The turn appends the text to *)
(* the preview, which updates one message of the platform at most once per     *)
(* interval: what comes earlier waits for a timer.  A prompt or a tool freezes *)
(* the preview; at the end the message becomes the answer, or the answer is    *)
(* sent by itself.  A timer that has fired waits for the mutex of the preview, *)
(* and Stop does not call it back.                                             *)
EXTENDS Integers

CONSTANTS
    MaxPieces,    \* bound: texts that the agent writes
    PreviewCap,   \* MaxChars: pieces that a preview shows at most
    MaxTimers,    \* bound: timers that are started
    MaxPvFaults   \* bound: calls of the platform that fail

ASSUME StreamPreviewAssumption == {MaxPieces, PreviewCap, MaxTimers, MaxPvFaults} \subseteq Nat

VARIABLES
    pvCleans,    \* the platform can delete messages (PreviewCleaner)
    pvText,      \* fullText: the number of its pieces
    pvSent,      \* lastSentText
    pvUpdated,   \* lastSentViaUpdate
    pvHandle,    \* previewMsgID is set
    pvShown,     \* what the preview message shows on the platform, or Nothing
    pvDegraded,
    pvTimer,     \* timer: the number of a timer, 0 for nil
    pvTicking,   \* timers that run
    pvFired,     \* timers whose callback waits for the mutex
    pvTimers,    \* timers started so far
    pvAt,        \* the turn: "turn", "reply" or "done"
    pvEnd,       \* how it ended
    pvFinal,     \* its final text
    pvReplied,   \* the final text was sent as a message of its own
    pvProgress,  \* the progress message: "none", "open", "failed" or the status it shows
    pvFaults,
    pvLate       \* history: the preview was finished while a callback was on its way

pvMessage == <<pvSent, pvUpdated, pvHandle, pvShown, pvDegraded>>
pvClock == <<pvTimer, pvTicking, pvFired, pvTimers>>
pvTurn == <<pvAt, pvEnd, pvFinal, pvReplied, pvLate>>
pvVars == <<pvCleans, pvText, pvMessage, pvClock, pvTurn, pvProgress, pvFaults>>

Nothing == [pieces |-> 0, cut |-> FALSE]
Streamed(n) == [pieces |-> n, cut |-> FALSE]
Rewritten == [pieces |-> MaxPieces + 1, cut |-> FALSE]   \* a result other than the texts before it

\* displayText
Display(n) == IF n > PreviewCap THEN [pieces |-> PreviewCap, cut |-> TRUE] ELSE Streamed(n)

PvInit ==
    /\ pvCleans \in BOOLEAN
    /\ pvText = 0 /\ pvSent = Nothing /\ pvUpdated = FALSE
    /\ pvHandle = FALSE /\ pvShown = Nothing /\ pvDegraded = FALSE
    /\ pvTimer = 0 /\ pvTicking = {} /\ pvFired = {} /\ pvTimers = 0
    /\ pvAt = "turn" /\ pvEnd = "none" /\ pvFinal = Nothing
    /\ pvReplied = FALSE /\ pvLate = FALSE
    /\ pvProgress = "none" /\ pvFaults = 0

\* A call of the platform fails or not.
Call(fails) == (fails => pvFaults < MaxPvFaults) /\ pvFaults' = pvFaults + (IF fails THEN 1 ELSE 0)
NoCall == pvFaults' = pvFaults

\* flushLocked: the first preview makes the message, the later ones change it.
Flush(text) ==
    IF text \in {pvSent, Nothing}
    THEN UNCHANGED <<pvMessage, pvFaults>>
    ELSE \E fails \in BOOLEAN :
         /\ Call(fails)
         /\ IF fails
            THEN pvDegraded' = TRUE /\ UNCHANGED <<pvSent, pvUpdated, pvHandle, pvShown>>
            ELSE /\ pvSent' = text /\ pvShown' = text
                 /\ pvHandle' = TRUE /\ pvUpdated' = pvHandle
                 /\ UNCHANGED pvDegraded

CancelTimer == pvTicking' = pvTicking \ {pvTimer} /\ pvTimer' = 0 /\ UNCHANGED <<pvFired, pvTimers>>

\* scheduleFlushLocked: one timer at a time.
ScheduleFlush ==
    IF pvTimer # 0
    THEN UNCHANGED pvClock
    ELSE /\ pvTimers < MaxTimers
         /\ pvTimers' = pvTimers + 1 /\ pvTimer' = pvTimers + 1
         /\ pvTicking' = pvTicking \cup {pvTimers + 1}
         /\ UNCHANGED pvFired

\* EventText, appendText: the text is shown now, or by a timer when too little of it is new
\* or the interval has not passed.  The first one is shown at once.
PvAppend ==
    /\ pvAt = "turn" /\ pvText < MaxPieces
    /\ pvText' = pvText + 1
    /\ IF pvDegraded
       THEN UNCHANGED <<pvMessage, pvClock, pvFaults>>
       ELSE \/ pvSent # Nothing /\ ScheduleFlush /\ UNCHANGED <<pvMessage, pvFaults>>
            \/ CancelTimer /\ Flush(Display(pvText'))
    /\ UNCHANGED <<pvCleans, pvTurn, pvProgress>>

PvTimerFires ==
    \E t \in pvTicking :
        /\ pvTicking' = pvTicking \ {t} /\ pvFired' = pvFired \cup {t}
        /\ UNCHANGED <<pvCleans, pvText, pvMessage, pvTimer, pvTimers, pvTurn, pvProgress, pvFaults>>

\* The callback of a timer gets the mutex.  It forgets the timer that is set by now, be it
\* another one.
PvCallback ==
    \E t \in pvFired :
        /\ pvFired' = pvFired \ {t} /\ pvTimer' = 0
        /\ IF pvDegraded THEN UNCHANGED <<pvMessage, pvFaults>> ELSE Flush(Display(pvText))
        /\ UNCHANGED <<pvCleans, pvText, pvTicking, pvTimers, pvTurn, pvProgress>>

\* freeze: the message keeps the text so far; a failed update is ignored.
Freeze ==
    /\ CancelTimer
    /\ pvDegraded' = TRUE
    /\ IF pvHandle /\ ~pvDegraded /\ pvText > 0
       THEN \E fails \in BOOLEAN : /\ Call(fails)
                                   /\ pvShown' = IF fails THEN pvShown ELSE Display(pvText)
       ELSE UNCHANGED <<pvShown, pvFaults>>
    /\ UNCHANGED <<pvSent, pvUpdated, pvHandle>>

\* A permission request freezes the preview.
PvPermission ==
    /\ pvAt = "turn"
    /\ Freeze
    /\ UNCHANGED <<pvCleans, pvText, pvTurn, pvProgress>>

\* A thought or a tool does too, and is appended to the progress message (Append), which a
\* failed call ends for good.
PvTool ==
    /\ pvAt = "turn" /\ pvProgress \in {"none", "open"}
    /\ Freeze
    /\ pvProgress' \in {"open", "failed"}
    /\ UNCHANGED <<pvCleans, pvText, pvTurn>>

Finalize(status) == pvProgress' = IF pvProgress = "open" THEN status ELSE pvProgress

-----------------------------------------------------------------------------
\* The preview message is deleted, where the platform can.
Clean ==
    IF pvCleans /\ pvHandle
    THEN \E fails \in BOOLEAN : Call(fails) /\ pvShown' = IF fails THEN pvShown ELSE Nothing
    ELSE UNCHANGED <<pvShown, pvFaults>>

\* Mutant of FinishCancels: the timer goes on.
FinishCancels_Not == UNCHANGED pvClock

FinishCancels == CancelTimer

\* finish: the message becomes the final text, or is deleted and the caller sends the text.
\* Without a final text nothing but the deletion is done.
PvFinish(text) ==
    IF ~pvHandle \/ pvDegraded \/ pvCleans \/ text = Nothing
    THEN Clean /\ pvAt' = "reply"
    ELSE IF text = pvSent /\ pvUpdated
    THEN UNCHANGED <<pvShown, pvFaults>> /\ pvAt' = "done"
    ELSE \E fails \in BOOLEAN :
         /\ Call(fails)
         /\ pvShown' = (IF fails THEN pvShown ELSE text)
         /\ pvAt' = (IF fails THEN "reply" ELSE "done")

\* The turn ends in way end with a final text.
PvEnds(end, text) ==
    /\ pvAt = "turn"
    /\ pvEnd' = end /\ pvFinal' = text
    /\ PvFinish(text) /\ FinishCancels
    /\ pvLate' = (pvFired # {} \/ pvTicking \ {pvTimer} # {})
    /\ UNCHANGED <<pvCleans, pvText, pvSent, pvUpdated, pvHandle, pvDegraded, pvReplied>>

PvResult == (\E text \in {Streamed(pvText), Rewritten} \ {Nothing} : PvEnds("result", text)) /\ Finalize("done")

\* An error event or a timeout: no final text, and only the event closes the progress message.
PvError == PvEnds("error", Nothing) /\ (Finalize("error") \/ UNCHANGED pvProgress)

\* The channel of the agent is closed: what was written so far is the answer.
PvExit == pvText > 0 /\ PvEnds("exit", Streamed(pvText)) /\ Finalize("stopped")

\* state.stopped: the turn returns as it is, the timer still set.
PvStopped ==
    /\ pvAt = "turn"
    /\ pvAt' = "done" /\ pvEnd' = "stopped"
    /\ UNCHANGED <<pvCleans, pvText, pvMessage, pvClock, pvFinal, pvReplied, pvProgress, pvFaults, pvLate>>

\* What the preview does not show is sent.
PvReply ==
    /\ pvAt = "reply"
    /\ pvAt' = "done"
    /\ IF pvFinal = Nothing
       THEN UNCHANGED <<pvReplied, pvFaults>>
       ELSE \E fails \in BOOLEAN : Call(fails) /\ pvReplied' = ~fails
    /\ UNCHANGED <<pvCleans, pvText, pvMessage, pvClock, pvEnd, pvFinal, pvProgress, pvLate>>

PvNext ==
    \/ PvAppend \/ PvTimerFires \/ PvCallback
    \/ PvPermission \/ PvTool
    \/ PvResult \/ PvError \/ PvExit \/ PvStopped \/ PvReply

PvSpec == PvInit /\ [][PvNext]_pvVars

-----------------------------------------------------------------------------
Answered == pvAt = "done" /\ pvEnd \in {"result", "exit"}

\* The answer reaches the user: the preview message became it, or it was sent by itself, and
\* then a platform that can delete messages keeps no piece of it.  Excepted are failed calls
\* and, as in the code, a callback that was on its way when the preview was finished.
AnswerShown ==
    Answered /\ ~pvLate =>
        /\ pvShown = pvFinal \/ pvReplied \/ pvFaults > 0
        /\ pvReplied /\ pvCleans /\ pvFaults = 0 => pvShown = Nothing

\* A message that became the answer stays the answer: finish "cancels any pending timer".
FinalTextStays == Answered /\ ~pvReplied /\ pvFaults = 0 => pvShown = pvFinal
=============================================================================
