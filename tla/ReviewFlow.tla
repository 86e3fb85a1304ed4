------------------------------ MODULE ReviewFlow ------------------------------
(* A review cycle of a chat: the agent of the chat writes a packet, the agent  *)
(* of another project reviews it, the first agent revises its work.  The cycle *)
(* runs in a goroutine of its own; it holds the busy flag of the session it    *)
(* began with, but not the gate of the chat's queue, and takes the state of    *)
(* the chat anew for each of its turns.  Prompts, /stop and /new go on.        *)
EXTENDS Integers

CONSTANTS
    Reviews,       \* goroutines of startReviewCycle
    RvSessions,    \* local sessions of the chat, each with an agent session id of its own
    RvFirst,       \* the active one at the start
    MaxRvStates,   \* bound: interactive states
    MaxRvStops,    \* bound: /stop commands
    MaxRvMoves,    \* bound: /new and /switch commands
    MaxRvPrompts,  \* bound: prompts of the user
    MaxRvAsks      \* bound: permissions that the turns of prompts ask for

ASSUME ReviewFlowAssumption ==
    /\ RvFirst \in RvSessions
    /\ {MaxRvStates, MaxRvStops, MaxRvMoves, MaxRvPrompts, MaxRvAsks} \subseteq Nat

VARIABLES
    rvActive,    \* the active session
    rvBusy,      \* sessions whose busy flag is set
    rvTurnLock,  \* sessions whose agent turn lock is held
    rvState,     \* the number of the chat's state, 0 for none
    rvStates,    \* states made so far
    rvStopped,   \* states that were stopped: their agent is closed
    rvRunning,   \* reviewFlow.Running
    rvRun,       \* what each review cycle is doing
    rvGate,      \* Running of the prompt queue
    rvQueue,     \* queued prompts
    rvUser,      \* the turn of a prompt
    rvCounts     \* commands, prompts and permissions so far

rvChat == <<rvActive, rvState, rvStates, rvStopped>>
rvVars == <<rvChat, rvBusy, rvTurnLock, rvRunning, rvRun, rvGate, rvQueue, rvUser, rvCounts>>

\* asks: the user has a permission to give, which only the turn of a prompt waits for.
RvIdle == [at |-> "idle", stage |-> "none", session |-> RvFirst, state |-> 0, asks |-> FALSE]

RvInit ==
    /\ rvActive = RvFirst
    /\ rvBusy = {} /\ rvTurnLock = {}
    /\ rvState = 0 /\ rvStates = 0 /\ rvStopped = {}
    /\ rvRunning = FALSE
    /\ rvRun = [v \in Reviews |-> RvIdle]
    /\ rvGate = FALSE /\ rvQueue = 0
    /\ rvUser = RvIdle
    /\ rvCounts = [stop |-> 0, move |-> 0, prompt |-> 0, ask |-> 0]

Run(v) == rvRun[v]
RunTo(v, label) == rvRun' = [rvRun EXCEPT ![v].at = label]
RvCount(kind, bound) == rvCounts[kind] < bound /\ rvCounts' = [rvCounts EXCEPT ![kind] = @ + 1]

\* getOrCreateInteractiveState: the state of the chat if its agent lives, whichever session
\* it was made for, or a new one.
TakesState(s) ==
    \/ rvState # 0 /\ s = rvState /\ UNCHANGED rvChat
    \/ /\ rvState = 0 /\ rvStates < MaxRvStates
       /\ s = rvStates + 1
       /\ rvStates' = s /\ rvState' = s
       /\ UNCHANGED <<rvActive, rvStopped>>

\* Mutant of LocksTurn: no lock per agent session.
LocksTurn_Free(session) == UNCHANGED rvTurnLock

\* lockAgentSessionTurn waits for the turn lock of the session's agent session id.
LocksTurn(session) == session \notin rvTurnLock /\ rvTurnLock' = rvTurnLock \cup {session}

\* Mutant of GivesUp: the flow stays marked as running.
GivesUp_Keeps(v) == rvRun' = [rvRun EXCEPT ![v] = RvIdle] /\ UNCHANGED rvRunning

\* The deferred functions run from the last to the first: at the end the flow stops.
GivesUp(v) == rvRun' = [rvRun EXCEPT ![v] = RvIdle] /\ rvRunning' = FALSE

-----------------------------------------------------------------------------
\* The review button: refused while a cycle runs.
RvStart(v) ==
    /\ Run(v).at = "idle"
    /\ ~rvRunning
    /\ rvRunning' = TRUE
    /\ RunTo(v, "lock")
    /\ UNCHANGED <<rvChat, rvBusy, rvTurnLock, rvGate, rvQueue, rvUser, rvCounts>>

\* The reviewer has no engine, the chat no platform, or the active session is busy.
RvRefused(v) ==
    /\ Run(v).at = "lock"
    /\ GivesUp(v)
    /\ UNCHANGED <<rvChat, rvBusy, rvTurnLock, rvGate, rvQueue, rvUser, rvCounts>>

\* The active session is locked; without an answer in it the cycle ends.
RvLock(v) ==
    /\ Run(v).at = "lock"
    /\ rvActive \notin rvBusy
    /\ rvBusy' = rvBusy \cup {rvActive}
    /\ \E label \in {"state", "unlock"} :
           rvRun' = [rvRun EXCEPT ![v] = [@ EXCEPT !.at = label, !.stage = "packet", !.session = rvActive]]
    /\ UNCHANGED <<rvChat, rvTurnLock, rvRunning, rvGate, rvQueue, rvUser, rvCounts>>

\* A turn of the cycle takes the state, or finds that no agent can be started.
RvTakesState(v) ==
    /\ Run(v).at = "state"
    /\ \/ \E s \in 1 .. MaxRvStates :
              TakesState(s) /\ rvRun' = [rvRun EXCEPT ![v] = [@ EXCEPT !.at = "acquire", !.state = s]]
       \/ RunTo(v, "unlock") /\ UNCHANGED rvChat
    /\ UNCHANGED <<rvBusy, rvTurnLock, rvRunning, rvGate, rvQueue, rvUser, rvCounts>>

\* runManagedTurn locks the turn and sends.
RvAcquire(v) ==
    /\ Run(v).at = "acquire"
    /\ LocksTurn(Run(v).session)
    /\ RunTo(v, "turn")
    /\ UNCHANGED <<rvChat, rvBusy, rvRunning, rvGate, rvQueue, rvUser, rvCounts>>

\* The turn ends well.  A packet that is too long is asked for once more.
RvTurnDone(v) ==
    /\ Run(v).at = "turn" /\ Run(v).state \notin rvStopped
    /\ rvTurnLock' = rvTurnLock \ {Run(v).session}
    /\ \E next \in CASE Run(v).stage = "packet" -> {<<"review", "review">>, <<"state", "retry">>, <<"unlock", "packet">>}
                     [] Run(v).stage = "retry" -> {<<"review", "review">>, <<"unlock", "retry">>}
                     [] OTHER -> {<<"unlock", "revise">>} :
           rvRun' = [rvRun EXCEPT ![v] = [@ EXCEPT !.at = next[1], !.stage = next[2], !.state = 0]]
    /\ UNCHANGED <<rvChat, rvBusy, rvRunning, rvGate, rvQueue, rvUser, rvCounts>>

\* The turn fails: a timer, an error, or the state was stopped; cleanupInteractiveTurn
\* closes the state.
RvTurnFails(v) ==
    /\ Run(v).at = "turn"
    /\ rvTurnLock' = rvTurnLock \ {Run(v).session}
    /\ rvState' = (IF rvState = Run(v).state THEN 0 ELSE rvState)
    /\ rvStopped' = rvStopped \cup {Run(v).state}
    /\ rvRun' = [rvRun EXCEPT ![v] = [@ EXCEPT !.at = "unlock", !.state = 0]]
    /\ UNCHANGED <<rvActive, rvStates, rvBusy, rvRunning, rvGate, rvQueue, rvUser, rvCounts>>

\* The turn of the reviewer, in its own session and with one retry; then the revision.
RvReviewed(v) ==
    /\ Run(v).at = "review"
    /\ \/ rvRun' = [rvRun EXCEPT ![v] = [@ EXCEPT !.at = "state", !.stage = "revise"]]
       \/ RunTo(v, "unlock")
    /\ UNCHANGED <<rvChat, rvBusy, rvTurnLock, rvRunning, rvGate, rvQueue, rvUser, rvCounts>>

\* The deferred unlock: whoever holds the busy flag by now loses it.
RvUnlock(v) ==
    /\ Run(v).at = "unlock"
    /\ rvBusy' = rvBusy \ {Run(v).session}
    /\ RunTo(v, "clear")
    /\ UNCHANGED <<rvChat, rvTurnLock, rvRunning, rvGate, rvQueue, rvUser, rvCounts>>

RvClear(v) ==
    /\ Run(v).at = "clear"
    /\ GivesUp(v)
    /\ UNCHANGED <<rvChat, rvBusy, rvTurnLock, rvGate, rvQueue, rvUser, rvCounts>>

-----------------------------------------------------------------------------
\* A prompt: queued behind a busy session or a running turn, or a turn of its own.
RvPrompt ==
    /\ RvCount("prompt", MaxRvPrompts)
    /\ IF rvActive \in rvBusy \/ rvGate
       THEN rvQueue' = rvQueue + 1 /\ UNCHANGED <<rvBusy, rvGate, rvUser>>
       ELSE /\ rvBusy' = rvBusy \cup {rvActive} /\ rvGate' = TRUE
            /\ rvUser' = [RvIdle EXCEPT !.at = "state", !.session = rvActive]
            /\ UNCHANGED rvQueue
    /\ UNCHANGED <<rvChat, rvTurnLock, rvRunning, rvRun>>

RvUserTakesState ==
    /\ rvUser.at = "state"
    /\ \E s \in 1 .. MaxRvStates :
           TakesState(s) /\ rvUser' = [rvUser EXCEPT !.at = "acquire", !.state = s]
    /\ UNCHANGED <<rvBusy, rvTurnLock, rvRunning, rvRun, rvGate, rvQueue, rvCounts>>

RvUserAcquires ==
    /\ rvUser.at = "acquire"
    /\ LocksTurn(rvUser.session)
    /\ rvUser' = [rvUser EXCEPT !.at = "turn"]
    /\ UNCHANGED <<rvChat, rvBusy, rvRunning, rvRun, rvGate, rvQueue, rvCounts>>

\* The agent asks for a permission; from then on the turn looks at the answer and at the end
\* of its state, and at no timer.
RvUserAsks ==
    /\ rvUser.at = "turn" /\ ~rvUser.asks
    /\ RvCount("ask", MaxRvAsks)
    /\ rvUser' = [rvUser EXCEPT !.asks = TRUE]
    /\ UNCHANGED <<rvChat, rvBusy, rvTurnLock, rvRunning, rvRun, rvGate, rvQueue>>

\* The user answers, or never does.
RvUserAnswers ==
    /\ rvUser.asks
    /\ rvUser' = [rvUser EXCEPT !.asks = FALSE]
    /\ UNCHANGED <<rvChat, rvBusy, rvTurnLock, rvRunning, rvRun, rvGate, rvQueue, rvCounts>>

\* The turn of the prompt ends, or finds that it has no agent; then the queue goes on, if
\* the active session is free.
RvUserEnds ==
    /\ rvUser.at \in {"state", "turn"}
    /\ rvUser.asks => rvUser.state \in rvStopped
    /\ rvTurnLock' = (IF rvUser.at = "turn" THEN rvTurnLock \ {rvUser.session} ELSE rvTurnLock)
    /\ LET free == rvBusy \ {rvUser.session} IN
       IF rvQueue > 0 /\ rvActive \notin free
       THEN /\ rvQueue' = rvQueue - 1 /\ rvBusy' = free \cup {rvActive}
            /\ rvUser' = [RvIdle EXCEPT !.at = "state", !.session = rvActive]
            /\ UNCHANGED rvGate
       ELSE rvBusy' = free /\ rvGate' = FALSE /\ rvUser' = RvIdle /\ UNCHANGED rvQueue
    /\ UNCHANGED <<rvChat, rvRunning, rvRun, rvCounts>>

CloseState == rvState' = 0 /\ rvStopped' = rvStopped \cup ({rvState} \ {0})

\* /stop closes the state of the chat; without one it unlocks a session that is busy though
\* no turn has the gate.
RvStop ==
    /\ RvCount("stop", MaxRvStops)
    /\ IF rvState # 0
       THEN CloseState /\ UNCHANGED rvBusy
       ELSE /\ rvBusy' = (IF rvGate THEN rvBusy ELSE rvBusy \ {rvActive})
            /\ UNCHANGED <<rvState, rvStopped>>
    /\ UNCHANGED <<rvActive, rvStates, rvTurnLock, rvRunning, rvRun, rvGate, rvQueue, rvUser>>

\* /new and /switch close the state, change the active session and cancel its queue.
RvMove ==
    /\ RvCount("move", MaxRvMoves)
    /\ CloseState
    /\ rvActive' \in RvSessions \ {rvActive}
    /\ rvQueue' = 0
    /\ UNCHANGED <<rvStates, rvBusy, rvTurnLock, rvRunning, rvRun, rvGate, rvUser>>

ReviewStep(v) ==
    \/ RvRefused(v) \/ RvLock(v) \/ RvTakesState(v) \/ RvAcquire(v) \/ RvTurnDone(v)
    \/ RvTurnFails(v) \/ RvReviewed(v) \/ RvUnlock(v) \/ RvClear(v)

RvUserStep == RvUserTakesState \/ RvUserAcquires \/ RvUserEnds

RvNext ==
    \/ \E v \in Reviews : RvStart(v) \/ ReviewStep(v)
    \/ RvPrompt \/ RvUserStep \/ RvUserAsks \/ RvUserAnswers
    \/ RvStop \/ RvMove

\* Goroutines go on; the timers of a turn end it whatever the agent does, unless it waits for
\* a permission, which the user need not give; and a semaphore that becomes free again and
\* again is got.
RvFairness ==
    /\ \A v \in Reviews : WF_rvVars(ReviewStep(v)) /\ SF_rvVars(RvAcquire(v))
    /\ WF_rvVars(RvUserStep)

RvSpec == RvInit /\ [][RvNext]_rvVars /\ RvFairness

-----------------------------------------------------------------------------
\* Turns of one session never use an agent at the same time: a prompt waits for the review
\* of its session, also after /stop has forced the busy flag open.  (After /new the revision
\* may share the agent of the new session with a prompt: the turn locks are per session.)
ReviewTurnsAlone ==
    \A v \in Reviews :
        Run(v).at = "turn" =>
            /\ ~(rvUser.at = "turn" /\ rvUser.session = Run(v).session)
            /\ \A w \in Reviews \ {v} : Run(w).at # "turn"

\* The turn of a prompt keeps the turn lock of a session for as long as the user leaves a
\* permission open, and a review cycle waits for that lock.
WaitsForUser ==
    /\ rvUser.asks /\ rvUser.state \notin rvStopped
    /\ \E v \in Reviews : Run(v).at = "acquire" /\ Run(v).session = rvUser.session

\* A review cycle that started ends, through /stop, /new and the turns of prompts, and the next
\* one can start.  The exception is a user who never answers: after /stop has forced the busy
\* flag of the session open, a prompt can have the turn lock that the cycle waits for, and while
\* it waits for a permission nothing ends either of them (startReviewCycle, runManagedTurn,
\* processInteractiveEvents).
ReviewEnds == <>[]WaitsForUser \/ (rvRunning ~> ~rvRunning)
=============================================================================
