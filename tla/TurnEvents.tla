------------------------------ MODULE TurnEvents ------------------------------
(* The events of a turn and the permission requests among them.  A turn takes  *)
(* events of the agent; at a permission request it prompts the user, keeps the *)
(* request in the state of the chat, and waits until somebody resolves it.     *)
(* Answers are chat messages: each has its own goroutine, which looks at the   *)
(* prompt and at the state in separate critical sections.  Meanwhile /stop     *)
(* ends the state, the agent dies, and review cycles run turns on it too.      *)
EXTENDS Integers

CONSTANTS
    Answerers,     \* goroutines that handle messages of the chat
    MaxRequests,   \* bound: permission requests
    MaxStates,     \* bound: interactive states of the chat, one after the other
    MaxStops       \* bound: /stop commands

ASSUME TurnEventsAssumption == {MaxRequests, MaxStates, MaxStops} \subseteq Nat

VARIABLES
    evState,     \* the state in interactiveStates: its number, 0 for none
    evMade,      \* states made so far
    evStopped,   \* states that were stopped and closed
    evDead,      \* states whose agent has ended
    evPending,   \* per state: the request in state.pending, 0 for none
    evAll,       \* states with approveAll
    evPrompt,    \* prompts[sessionKey]: a request, ChoicePrompt or NoPrompt
    evResolved,  \* requests whose channel Resolved is closed
    evOpen,      \* the request that the agent waits for, 0 for none
    evAsked,     \* requests made so far
    evAnswers,   \* history: per request, how often the agent was answered
    evTurn,      \* the goroutine of the turn: kind, state, request and next step
    evUser,      \* what each answerer is doing
    evStop,      \* the /stop under way
    evStops,
    evTwice      \* history: requests that two answerers, or one and /stop, took up together

evStates == <<evState, evMade, evStopped, evDead, evAll>>
evAgent == <<evOpen, evAsked, evAnswers>>
evPermit == <<evPending, evPrompt, evResolved>>
evVars == <<evStates, evAgent, evPermit, evTurn, evUser, evStop, evStops, evTwice>>

EvStateNos == 1 .. MaxStates
EvRequestNos == 1 .. MaxRequests
NoPrompt == 0
ChoicePrompt == MaxRequests + 1
NoTurn == [kind |-> "none", state |-> 0, req |-> 0, at |-> "idle"]
NoAnswer == [word |-> "none", state |-> 0, req |-> 0, at |-> "idle"]
Quiet == [state |-> 0, at |-> "idle"]

EvInit ==
    /\ evState = 0 /\ evMade = 0
    /\ evStopped = {} /\ evDead = {} /\ evAll = {}
    /\ evPending = [s \in EvStateNos |-> 0]
    /\ evPrompt = NoPrompt /\ evResolved = {}
    /\ evOpen = 0 /\ evAsked = 0
    /\ evAnswers = [r \in EvRequestNos |-> 0]
    /\ evTurn = NoTurn
    /\ evUser = [u \in Answerers |-> NoAnswer]
    /\ evStop = Quiet /\ evStops = 0
    /\ evTwice = {}

-----------------------------------------------------------------------------
TurnAt(label) == evTurn' = [evTurn EXCEPT !.at = label]

\* A turn takes the state of the chat or makes a new one and sends its prompt; a turn of a
\* review cycle has the state approve everything.
EvTurnStarts(kind) ==
    /\ evTurn = NoTurn
    /\ evStop = Quiet
    /\ \/ evState # 0 /\ UNCHANGED <<evState, evMade>>
       \/ /\ evState = 0 /\ evMade < MaxStates
          /\ evMade' = evMade + 1 /\ evState' = evMade + 1
    /\ evTurn' = [kind |-> kind, state |-> evState', req |-> 0, at |-> "select"]
    /\ evAll' = IF kind = "managed" THEN evAll \cup {evState'} ELSE evAll
    /\ UNCHANGED <<evStopped, evDead, evAgent, evPermit, evUser, evStop, evStops, evTwice>>

\* RespondPermission: the agent goes on if this is the request it waits for.
RespondPermission(r, s) ==
    IF s \in evDead \cup evStopped
    THEN UNCHANGED <<evOpen, evAnswers>>
    ELSE /\ evOpen' = IF evOpen = r THEN 0 ELSE evOpen
         /\ evAnswers' = [evAnswers EXCEPT ![r] = @ + 1]

\* The turn takes a permission request.  The state approves it, or the prompt is entered
\* into prompts and sent (replyWithInteraction).
TakesRequest ==
    /\ evTurn.at = "select"
    /\ evTurn.state \notin evDead \cup evStopped
    /\ evOpen = 0 /\ evAsked < MaxRequests
    /\ evAsked' = evAsked + 1
    /\ IF evTurn.state \in evAll
       THEN /\ evAnswers' = [evAnswers EXCEPT ![evAsked'] = @ + 1]
            /\ UNCHANGED <<evOpen, evPrompt, evTurn>>
       ELSE /\ evOpen' = evAsked'
            /\ evPrompt' = evAsked'
            /\ evTurn' = [evTurn EXCEPT !.req = evAsked', !.at = "prompted"]
            /\ UNCHANGED evAnswers
    /\ UNCHANGED <<evStates, evPending, evResolved, evUser, evStop, evStops, evTwice>>

\* Once the prompt is sent the request is entered into the state, and the turn waits; it
\* looks at no timer while it does.
EntersRequest ==
    /\ evTurn.at = "prompted"
    /\ evPending' = [evPending EXCEPT ![evTurn.state] = evTurn.req]
    /\ TurnAt("waiting")
    /\ UNCHANGED <<evStates, evAgent, evPrompt, evResolved, evUser, evStop, evStops, evTwice>>

RequestResolved ==
    /\ evTurn.at = "waiting"
    /\ evTurn.req \in evResolved
    /\ TurnAt("select")
    /\ UNCHANGED <<evStates, evAgent, evPermit, evUser, evStop, evStops, evTwice>>

\* state.stopped, looked at wherever the turn waits.
TurnStopped ==
    /\ evTurn.at \in {"select", "waiting"}
    /\ evTurn.state \in evStopped
    /\ evTurn' = NoTurn
    /\ UNCHANGED <<evStates, evAgent, evPermit, evUser, evStop, evStops, evTwice>>

\* A result; one that asks the user to choose leaves a prompt that any text dismisses.
TurnResults ==
    /\ evTurn.at = "select"
    /\ evOpen = 0 /\ evTurn.state \notin evDead
    /\ evTurn' = NoTurn
    /\ evPrompt' \in {evPrompt, ChoicePrompt}
    /\ UNCHANGED <<evStates, evAgent, evPending, evResolved, evUser, evStop, evStops, evTwice>>

\* State s is taken out of the map, if it is there, stopped, and its agent closed.
CleanupTurn(s) ==
    /\ evState' = IF evState = s THEN 0 ELSE evState
    /\ evStopped' = evStopped \cup {s}
    /\ evDead' = evDead \cup {s}
    /\ evOpen' = 0

\* An error event, the end of the agent, or a timer: the turn ends and cleans up.
TurnBreaks ==
    /\ evTurn.at = "select"
    /\ CleanupTurn(evTurn.state)
    /\ evTurn' = NoTurn
    /\ UNCHANGED <<evMade, evAll, evAsked, evAnswers, evPermit, evUser, evStop, evStops, evTwice>>

\* The agent ends by itself; a turn that waits for an answer does not see it.
AgentDies ==
    /\ evState # 0 /\ evState \notin evDead
    /\ evDead' = evDead \cup {evState}
    /\ evOpen' = 0
    /\ UNCHANGED <<evState, evMade, evStopped, evAll, evAsked, evAnswers, evPermit, evTurn, evUser,
                   evStop, evStops, evTwice>>

-----------------------------------------------------------------------------
UserAt(u, label) == evUser' = [evUser EXCEPT ![u].at = label]
Answering == {"one", "all"}   \* isAllowResponse or isDenyResponse; isApproveAllResponse

\* Somebody has looked up request r and not yet forgotten it.
EvHeld(r) == \E u \in Answerers : evUser[u].req = r /\ evUser[u].at \in {"respond", "forget"}

\* A message arrives: a button of the present prompt, or a text; resolvePendingInteraction
\* takes the prompt away if the message is one of its choices, or dismisses it.
Says(u, word) ==
    /\ evUser[u] = NoAnswer
    /\ evPrompt # NoPrompt \/ evTurn.at = "waiting"
    /\ evUser' = [evUser EXCEPT ![u] = [NoAnswer EXCEPT !.word = word, !.at = "look"]]
    /\ evPrompt' \in IF evPrompt \in EvRequestNos
                     THEN IF word \in Answering THEN {NoPrompt, evPrompt} ELSE {evPrompt}
                     ELSE {NoPrompt}
    /\ UNCHANGED <<evStates, evAgent, evPending, evResolved, evTurn, evStop, evStops, evTwice>>

\* handlePendingPermission looks up the state and its request.  Without one the message is
\* an ordinary one: it is queued, or starts a turn of its own.
LooksUp(u) ==
    LET s == evState
        r == IF s = 0 THEN 0 ELSE evPending[s]
        word == evUser[u].word
    IN  /\ evUser[u].at = "look"
        /\ IF r = 0 \/ word \notin Answering
           THEN evUser' = [evUser EXCEPT ![u] = NoAnswer] /\ UNCHANGED <<evAll, evTwice>>
           ELSE /\ evUser' = [evUser EXCEPT ![u] = [NoAnswer EXCEPT !.state = s, !.req = r, !.at = "respond"]]
                /\ evAll' = IF word = "all" THEN evAll \cup {s} ELSE evAll
                /\ evTwice' = IF EvHeld(r) THEN evTwice \cup {r} ELSE evTwice
        /\ UNCHANGED <<evState, evMade, evStopped, evDead, evAgent, evPermit, evTurn, evStop, evStops>>

Responds(u) ==
    /\ evUser[u].at = "respond"
    /\ RespondPermission(evUser[u].req, evUser[u].state)
    /\ UserAt(u, "forget")
    /\ UNCHANGED <<evStates, evAsked, evPermit, evTurn, evStop, evStops, evTwice>>

\* state.pending is cleared, whichever request is there by now ...
Forgets(u) ==
    /\ evUser[u].at = "forget"
    /\ evPending' = [evPending EXCEPT ![evUser[u].state] = 0]
    /\ UserAt(u, "resolve")
    /\ UNCHANGED <<evStates, evAgent, evPrompt, evResolved, evTurn, evStop, evStops, evTwice>>

\* Mutant of Resolves: the request is not resolved.
Resolves_Not(u) ==
    /\ evUser[u].at = "resolve"
    /\ evPrompt' = NoPrompt
    /\ evUser' = [evUser EXCEPT ![u] = NoAnswer]
    /\ UNCHANGED <<evStates, evAgent, evPending, evResolved, evTurn, evStop, evStops, evTwice>>

\* ... then the prompt is cleared and the request that was looked up resolved.
Resolves(u) ==
    /\ evUser[u].at = "resolve"
    /\ evPrompt' = NoPrompt
    /\ evResolved' = evResolved \cup {evUser[u].req}
    /\ evUser' = [evUser EXCEPT ![u] = NoAnswer]
    /\ UNCHANGED <<evStates, evAgent, evPending, evTurn, evStop, evStops, evTwice>>

\* cmdStop: the state is looked up, its request taken out under state.mu and resolved ...
StopTakes ==
    /\ evStop = Quiet /\ evStops < MaxStops
    /\ evState # 0
    /\ evStops' = evStops + 1
    /\ evPending' = [evPending EXCEPT ![evState] = 0]
    /\ evStop' = [state |-> evState, at |-> "resolve"]
    /\ evResolved' = evResolved \cup ({evPending[evState]} \ {0})
    /\ evTwice' = IF EvHeld(evPending[evState]) THEN evTwice \cup {evPending[evState]} ELSE evTwice
    /\ UNCHANGED <<evStates, evAgent, evPrompt, evTurn, evUser>>

\* ... then cleanupInteractiveState closes the state that is in the map by now.
StopCloses ==
    /\ evStop.at = "resolve"
    /\ evStop' = Quiet
    /\ IF evState = 0 THEN UNCHANGED <<evState, evStopped, evDead, evOpen>> ELSE CleanupTurn(evState)
    /\ UNCHANGED <<evMade, evAll, evAsked, evAnswers, evPermit, evTurn, evUser, evStops, evTwice>>

EvTurnStep ==
    \/ TakesRequest \/ EntersRequest \/ RequestResolved \/ TurnStopped \/ TurnResults \/ TurnBreaks

EvUserStep(u) == LooksUp(u) \/ Responds(u) \/ Forgets(u) \/ Resolves(u)

EvNext ==
    \/ \E kind \in {"user", "managed"} : EvTurnStarts(kind)
    \/ EvTurnStep
    \/ AgentDies
    \/ \E u \in Answerers : EvUserStep(u) \/ \E word \in Answering \cup {"other"} : Says(u, word)
    \/ StopTakes
    \/ StopCloses

EvSpec == EvInit /\ [][EvNext]_evVars

-----------------------------------------------------------------------------
EvTaking(r) == \E u \in Answerers : evUser[u].req = r /\ evUser[u].at \in {"forget", "resolve"}

\* The request that a turn waits for, without a timer, can be answered: it is the one in
\* state.pending, or somebody is about to resolve it.  A turn whose request was forgotten
\* would wait until /stop, and the answers of the user would be taken for messages.  The
\* exception is that of the code: a request taken up by two answers, or by an answer and
\* /stop, of which the later one forgets the next request.
WaitedRequestIsPending ==
    evTurn.at = "waiting" /\ evTurn.req \notin evResolved /\ evTurn.state \notin evStopped =>
        \/ evPending[evTurn.state] = evTurn.req
        \/ EvTaking(evTurn.req)
        \/ \E r \in evTwice : r < evTurn.req

\* The agent gets one answer to a request, from the user or from approveAll, and what it
\* waits for is open in the engine too.
OneAnswerPerRequest ==
    /\ \A r \in EvRequestNos \ evTwice : evAnswers[r] <= 1
    /\ evOpen # 0 => evTurn.req = evOpen

\* The two together: no turn waits for ever for an answer that was given
\* (handlePendingPermission, handlePermissionRequest).
PermissionsExact == WaitedRequestIsPending /\ OneAnswerPerRequest
=============================================================================
