------------------------- MODULE ChatServices_proofs --------------------------
(* What holds of the services around the turn of a chat: the permission requests *)
(* of its events, the previews of its answer, the store of its sessions, and the *)
(* pieces of a prompt that wait to be sent as one.                               *)
EXTENDS TurnEvents, StreamPreview, SessionStore, Intake, TLAPS

-----------------------------------------------------------------------------
(* TurnEvents: a permission request is answered once and never forgotten. *)

EvLabels == {"idle", "look", "respond", "forget", "resolve"}

EvTypeOK ==
    /\ evMade \in 0 .. MaxStates /\ evState \in 0 .. evMade
    /\ evStopped \subseteq 1 .. evMade
    /\ evAsked \in 0 .. MaxRequests /\ evOpen \in 0 .. evAsked
    /\ evPending \in [EvStateNos -> 0 .. MaxRequests]
    /\ evTwice \subseteq 0 .. MaxRequests
    /\ evAnswers \in [EvRequestNos -> Nat]
    /\ evTurn \in [kind : {"none", "user", "managed"}, state : 0 .. MaxStates, req : 0 .. MaxRequests,
                   at : {"idle", "select", "prompted", "waiting"}]
    /\ evUser \in [Answerers -> [word : Answering \cup {"none", "other"}, state : 0 .. MaxStates,
                                 req : 0 .. MaxRequests, at : EvLabels]]

\* An answerer that has looked up a request and not yet forgotten it; a turn that waits for
\* request r on state s; a stopped state whose turn is over; a request that two took up.
Holds(u) == evUser[u].at \in {"respond", "forget"}
WaitsFor(r, s) == evTurn.at = "waiting" /\ evTurn.req = r /\ evTurn.state = s
LeftBehind(s) == s \in evStopped /\ evTurn.state # s
SomeTwiceBefore(r) == \E q \in evTwice : q < r

StatesInUse ==
    /\ evState \notin evStopped
    /\ evTurn.state <= evMade
    /\ evTurn.at # "idle" => evTurn.state >= 1
    /\ evTurn.at = "idle" => evTurn = NoTurn
    /\ \A u \in Answerers : evUser[u].at \in {"respond", "forget", "resolve"} =>
         evUser[u].state \in 1 .. evMade /\ evUser[u].req \in 1 .. evAsked
    /\ \A s \in EvStateNos : s > evMade => evPending[s] = 0

\* A request that is not yet in the state of the chat is unknown to everybody.
Unasked(r) == r > evAsked \/ (evTurn.at = "prompted" /\ r = evTurn.req)
RequestsAreNew ==
    /\ evTurn.req <= evAsked
    /\ evTurn.at = "prompted" => evTurn.req = evAsked /\ evTurn.req >= 1
    /\ \A r \in EvRequestNos : Unasked(r) =>
         /\ evAnswers[r] = 0 /\ r \notin evResolved
         /\ \A s \in EvStateNos : evPending[s] # r
         /\ \A u \in Answerers : evUser[u].req # r

\* A request in a state is in that state only, not resolved, and the newest that anybody
\* holds there; its turn waits for it, unless the state is stopped and left.
PendingOnce ==
    \A s \in EvStateNos, r \in EvRequestNos : evPending[s] = r =>
        /\ \A t \in EvStateNos : evPending[t] = r => t = s
        /\ r \notin evResolved
        /\ WaitsFor(r, s) \/ LeftBehind(s)
        /\ \A u \in Answerers : Holds(u) /\ evUser[u].req = r => evUser[u].state = s
        /\ \A u \in Answerers : Holds(u) /\ evUser[u].state = s => evUser[u].req <= r
        /\ \A u \in Answerers : evUser[u].at = "resolve" => evUser[u].req # r

\* A request that was not taken up twice has one holder, is not resolved, and is still in
\* its state unless the holder of an older one, taken up twice, has forgotten it.
HeldOnce ==
    \A u \in Answerers, r \in EvRequestNos \ evTwice, s \in EvStateNos :
      Holds(u) /\ evUser[u].req = r /\ evUser[u].state = s =>
        /\ \A v \in Answerers : Holds(v) /\ evUser[v].req = r => v = u
        /\ \A v \in Answerers : evUser[v].at = "resolve" => evUser[v].req # r
        /\ r \notin evResolved
        /\ WaitsFor(r, s) \/ LeftBehind(s)
        /\ evPending[s] = r \/ SomeTwiceBefore(r)
        /\ evUser[u].at = "respond" => evAnswers[r] = 0

\* An answered request is about to leave its state.
AnsweredOnce ==
    \A r \in EvRequestNos \ evTwice :
        /\ evAnswers[r] <= 1
        /\ evAnswers[r] = 1 => \A s \in EvStateNos : evPending[s] = r =>
               \E u \in Answerers : evUser[u].at = "forget" /\ evUser[u].req = r

OpenIsAsked ==
    evOpen # 0 => evTurn.req = evOpen /\ evTurn.state \notin evDead \cup evStopped

EvInv ==
    /\ EvTypeOK /\ StatesInUse /\ RequestsAreNew
    /\ PendingOnce /\ HeldOnce /\ AnsweredOnce
    /\ OpenIsAsked /\ WaitedRequestIsPending

\* What the requests are made of, and the numbers they are.
LEMMA EvNumbers ==
    /\ MaxRequests \in Nat /\ MaxStates \in Nat
    /\ EvStateNos \subseteq Nat /\ EvRequestNos \subseteq Nat
  BY TurnEventsAssumption DEF EvStateNos, EvRequestNos

\* Only the turn and the states change.  A turn that waited goes on waiting, or its request
\* is resolved, or its state is stopped and it leaves it; none comes to a stopped state.
LEMMA TurnKeeps ==
    ASSUME EvInv, EvTypeOK', StatesInUse', OpenIsAsked',
           UNCHANGED <<evUser, evTwice, evPending, evResolved, evAnswers, evAsked>>,
           evStopped \subseteq evStopped',
           evTurn'.req <= evAsked, evTurn'.at \in {"prompted", "waiting"} => evTurn' = evTurn,
           \A r, s : WaitsFor(r, s) => WaitsFor(r, s)' \/ r \in evResolved \/ LeftBehind(s)',
           \A s \in EvStateNos : LeftBehind(s) => LeftBehind(s)'
    PROVE  EvInv'
<1>1. \A r : Unasked(r)' => Unasked(r)
  BY DEF Unasked
<1>2. RequestsAreNew'
  BY <1>1 DEF EvInv, RequestsAreNew
<1>3. \A u \in Answerers : Holds(u)' <=> Holds(u)
  BY DEF Holds
<1>4. PendingOnce'
  <2> SUFFICES ASSUME NEW s \in EvStateNos, NEW r \in EvRequestNos, evPending[s] = r
               PROVE  /\ \A t \in EvStateNos : evPending[t] = r => t = s
                      /\ r \notin evResolved
                      /\ WaitsFor(r, s)' \/ LeftBehind(s)'
                      /\ \A u \in Answerers : Holds(u) /\ evUser[u].req = r => evUser[u].state = s
                      /\ \A u \in Answerers : Holds(u) /\ evUser[u].state = s => evUser[u].req <= r
                      /\ \A u \in Answerers : evUser[u].at = "resolve" => evUser[u].req # r
    BY <1>3 DEF PendingOnce
  <2> QED
    BY DEF EvInv, PendingOnce
<1>5. HeldOnce'
  <2>1. \A r : SomeTwiceBefore(r)' <=> SomeTwiceBefore(r)
    BY DEF SomeTwiceBefore
  <2> QED
    BY <1>3, <2>1 DEF EvInv, HeldOnce
<1>6. AnsweredOnce'
  BY DEF EvInv, AnsweredOnce
<1>7. WaitedRequestIsPending'
  BY DEF EvInv, WaitedRequestIsPending, EvTaking
<1> QED
  BY <1>2, <1>4, <1>5, <1>6, <1>7 DEF EvInv

\* The steps of the turn that leave the requests alone, the end of the agent, and the second
\* step of /stop.
LEMMA TurnSteps ==
    ASSUME EvInv,
           \/ \E kind \in {"user", "managed"} : EvTurnStarts(kind)
           \/ RequestResolved \/ TurnStopped \/ TurnResults \/ TurnBreaks
           \/ AgentDies \/ StopCloses
    PROVE  EvInv'
<1> USE EvNumbers
<1>1. ASSUME NEW kind \in {"user", "managed"}, EvTurnStarts(kind) PROVE EvInv'
  <2>1. /\ evTurn = NoTurn /\ evTurn.req = 0 /\ evTurn.state = 0 /\ evTurn.at = "idle"
        /\ evTurn' = [kind |-> kind, state |-> evState', req |-> 0, at |-> "select"]
        /\ evState' \in 1 .. evMade' /\ evState' \notin evStopped
        /\ evMade' \in {evMade, evMade + 1} /\ evMade' \in 0 .. MaxStates
        /\ UNCHANGED <<evUser, evTwice, evPending, evResolved, evAnswers, evAsked, evStopped, evDead, evOpen>>
    <3>1. evMade + 1 \notin evStopped
      BY DEF EvInv, EvTypeOK
    <3> QED
      BY <1>1, <3>1 DEF EvTurnStarts, EvInv, EvTypeOK, StatesInUse, NoTurn, evAgent, evPermit
  <2>2. EvTypeOK'
    <3>1. evTurn' \in [kind : {"none", "user", "managed"}, state : 0 .. MaxStates, req : 0 .. MaxRequests,
                       at : {"idle", "select", "prompted", "waiting"}]
      BY <2>1
    <3> QED
      BY <2>1, <3>1 DEF EvInv, EvTypeOK
  <2>3. StatesInUse'
    BY <2>1 DEF EvInv, EvTypeOK, StatesInUse
  <2>4. OpenIsAsked' /\ evOpen = 0
    BY <2>1 DEF EvInv, OpenIsAsked, EvTypeOK
  <2>5. \A s \in EvStateNos : LeftBehind(s) => LeftBehind(s)'
    BY <2>1 DEF LeftBehind
  <2>6. \A r, s : ~WaitsFor(r, s)
    BY <2>1 DEF WaitsFor
  <2>7. evTurn'.req <= evAsked /\ evTurn'.at = "select"
    BY <2>1 DEF EvInv, EvTypeOK
  <2> QED
    BY <1>1, <2>1, <2>2, <2>3, <2>4, <2>5, <2>6, <2>7, TurnKeeps
<1>2. CASE RequestResolved
  <2>1. /\ evTurn.at = "waiting" /\ evTurn.req \in evResolved
        /\ evTurn' = [evTurn EXCEPT !.at = "select"]
        /\ evTurn'.at = "select" /\ evTurn'.req = evTurn.req /\ evTurn'.state = evTurn.state
        /\ UNCHANGED <<evState, evMade, evUser, evTwice, evPending, evResolved, evAnswers, evAsked, evStopped, evDead, evOpen>>
    BY <1>2 DEF RequestResolved, TurnAt, EvInv, EvTypeOK, evStates, evAgent, evPermit
  <2>2. EvTypeOK' /\ StatesInUse' /\ OpenIsAsked' /\ evTurn.req <= evAsked
    BY <2>1 DEF EvInv, EvTypeOK, StatesInUse, OpenIsAsked, RequestsAreNew
  <2>3. \A r, s : WaitsFor(r, s) => r \in evResolved
    BY <2>1 DEF WaitsFor
  <2>4. \A s \in EvStateNos : LeftBehind(s) => LeftBehind(s)'
    BY <2>1 DEF LeftBehind
  <2> QED
    BY <2>1, <2>2, <2>3, <2>4, TurnKeeps
<1>3. CASE TurnStopped \/ TurnResults \/ TurnBreaks
  <2>1. /\ evTurn' = NoTurn /\ evTurn.at \in {"select", "waiting"} /\ evTurn.state \in 1 .. evMade
        /\ evTurn.at = "waiting" => evTurn.state \in evStopped
        /\ UNCHANGED <<evMade, evUser, evTwice, evPending, evResolved, evAnswers, evAsked>>
        /\ evStopped' \in {evStopped, evStopped \cup {evTurn.state}}
        /\ evState' \in 0 .. evMade /\ evState' \notin evStopped'
        /\ evOpen' = 0 
    <3>1. CASE TurnStopped
      <4>1. evTurn.state \in 1 .. evMade
        BY <3>1 DEF TurnStopped, EvInv, StatesInUse, EvTypeOK
      <4> QED
        BY <3>1, <4>1 DEF TurnStopped, evStates, evAgent, evPermit, EvInv, OpenIsAsked, EvTypeOK, StatesInUse
    <3>2. CASE TurnResults
      <4>1. evTurn.state \in 1 .. evMade
        BY <3>2 DEF TurnResults, EvInv, StatesInUse, EvTypeOK
      <4> QED
        BY <3>2, <4>1 DEF TurnResults, evStates, evAgent, EvInv, EvTypeOK, StatesInUse
    <3>3. CASE TurnBreaks
      <4>1. evTurn.state \in 1 .. evMade
        BY <3>3 DEF TurnBreaks, EvInv, StatesInUse, EvTypeOK
      <4> QED
        BY <3>3, <4>1 DEF TurnBreaks, CleanupTurn, evPermit, EvInv, EvTypeOK, StatesInUse
    <3> QED
      BY <1>3, <3>1, <3>2, <3>3
  <2>2. NoTurn.req = 0 /\ NoTurn.state = 0 /\ NoTurn.at = "idle" /\ NoTurn.kind = "none"
        /\ NoTurn \in [kind : {"none", "user", "managed"}, state : 0 .. MaxStates, req : 0 .. MaxRequests,
                       at : {"idle", "select", "prompted", "waiting"}]
    BY DEF NoTurn
  <2>3. EvTypeOK'
    BY <2>1, <2>2 DEF EvInv, EvTypeOK
  <2>4. StatesInUse' /\ OpenIsAsked'
    BY <2>1, <2>2 DEF EvInv, EvTypeOK, StatesInUse, OpenIsAsked
  <2>5. \A r, s : WaitsFor(r, s) => LeftBehind(s)'
    BY <2>1, <2>2 DEF WaitsFor, LeftBehind
  <2>6. \A s \in EvStateNos : LeftBehind(s) => LeftBehind(s)'
    BY <2>1, <2>2 DEF LeftBehind, EvStateNos
  <2>7. evTurn'.req <= evAsked /\ evTurn'.at = "idle" /\ evStopped \subseteq evStopped'
    BY <2>1, <2>2 DEF EvInv, EvTypeOK
  <2> QED
    BY <2>1, <2>3, <2>4, <2>5, <2>6, <2>7, TurnKeeps
<1>4. CASE AgentDies \/ StopCloses
  <2>1. /\ UNCHANGED <<evMade, evUser, evTwice, evPending, evResolved, evAnswers, evAsked, evTurn>>
        /\ evStopped' \in {evStopped, evStopped \cup {evState}} /\ evStopped' \subseteq 1 .. evMade
        /\ evState' \in 0 .. evMade /\ evState' \notin evStopped'
        /\ evOpen' = 0 \/ (evOpen' = evOpen /\ evDead' = evDead /\ evStopped' = evStopped)
    <3>0. /\ evStopped \subseteq 1 .. evMade /\ evState \in 0 .. evMade /\ evState \notin evStopped
          /\ evMade \in Nat
      BY DEF EvInv, EvTypeOK, StatesInUse
    <3>1. CASE AgentDies
      BY <3>0, <3>1 DEF AgentDies, evPermit
    <3>2. CASE StopCloses /\ evState = 0
      <4>1. /\ UNCHANGED <<evMade, evUser, evTwice, evPending, evResolved, evAnswers, evAsked, evTurn>>
            /\ UNCHANGED <<evState, evStopped, evDead, evOpen>>
        BY <3>2 DEF StopCloses, evPermit
      <4> QED
        BY <3>0, <4>1
    <3>3. CASE StopCloses /\ evState # 0
      <4>1. 0 \notin evStopped \cup {evState} /\ evStopped \cup {evState} \subseteq 1 .. evMade /\ 0 \in 0 .. evMade
        BY <3>0, <3>3
      <4> QED
        BY <3>3, <4>1 DEF StopCloses, CleanupTurn, evPermit
    <3> QED
      BY <1>4, <3>1, <3>2, <3>3
  <2>2. EvTypeOK' /\ StatesInUse' /\ OpenIsAsked'
    <3>1. evOpen' \in 0 .. evAsked
      BY <2>1 DEF EvInv, EvTypeOK
    <3> QED
      BY <2>1, <3>1 DEF EvInv, EvTypeOK, StatesInUse, OpenIsAsked
  <2>3. evTurn.req <= evAsked
    BY DEF EvInv, RequestsAreNew
  <2> QED
    BY <2>1, <2>2, <2>3, TurnKeeps DEF WaitsFor, LeftBehind
<1> QED
  BY <1>1, <1>2, <1>3, <1>4

\* The turn takes a request, and enters it into the state of the chat.
LEMMA RequestSteps ==
    ASSUME EvInv, TakesRequest \/ EntersRequest
    PROVE  EvInv'
<1> USE EvNumbers
<1>1. CASE TakesRequest
  <2> DEFINE r == evAsked + 1
  <2>1. /\ evTurn.at = "select" /\ evTurn.state \notin evDead \cup evStopped /\ evOpen = 0
        /\ r \in EvRequestNos /\ evAsked' = r
        /\ \/ evAnswers' = [evAnswers EXCEPT ![r] = @ + 1] /\ UNCHANGED <<evOpen, evTurn>>
           \/ evTurn' = [evTurn EXCEPT !.req = r, !.at = "prompted"] /\ evOpen' = r /\ UNCHANGED evAnswers
        /\ UNCHANGED <<evState, evMade, evUser, evTwice, evPending, evResolved, evStopped, evDead>>
    <3>1. r \in EvRequestNos
      BY <1>1 DEF TakesRequest, EvInv, EvTypeOK, EvRequestNos
    <3> QED
      BY <1>1, <3>1 DEF TakesRequest, evStates
  <2>2. /\ r \notin evResolved /\ evAnswers[r] = 0 /\ evAsked \in Nat
        /\ \A s \in EvStateNos : evPending[s] # r
        /\ \A u \in Answerers : evUser[u].req # r
    <3>1. evAsked \in Nat
      BY DEF EvInv, EvTypeOK
    <3>2. Unasked(r)
      BY <3>1 DEF Unasked
    <3> QED
      BY <2>1, <3>1, <3>2 DEF EvInv, RequestsAreNew
  <2> HIDE DEF r
  <2>13. r \in 0 .. MaxRequests
    BY <2>1 DEF EvRequestNos
  <2>3. /\ evTurn'.state = evTurn.state /\ evTurn'.kind = evTurn.kind
        /\ evTurn'.at \in {"select", "prompted"} /\ (evTurn'.at = "select" => evTurn' = evTurn /\ evOpen' = 0)
        /\ evTurn'.at = "prompted" => evTurn'.req = r /\ evOpen' = r
        /\ evTurn' \in [kind : {"none", "user", "managed"}, state : 0 .. MaxStates, req : 0 .. MaxRequests,
                        at : {"idle", "select", "prompted", "waiting"}]
    BY <2>1, <2>13 DEF EvInv, EvTypeOK
  <2>4. /\ \A q \in EvRequestNos : q # r => evAnswers'[q] = evAnswers[q]
        /\ evAnswers'[r] \in {0, 1} /\ evAnswers' \in [EvRequestNos -> Nat]
    BY <2>1, <2>2 DEF EvInv, EvTypeOK
  <2>5. EvTypeOK'
    BY <2>1, <2>2, <2>3, <2>4 DEF EvInv, EvTypeOK, EvRequestNos, r
  <2>6. StatesInUse'
    BY <2>1, <2>2, <2>3 DEF EvInv, EvTypeOK, StatesInUse, r
  <2>7. RequestsAreNew'
    <3>1. \A q \in EvRequestNos : Unasked(q)' => Unasked(q) /\ (q = r => evTurn'.at = "prompted")
      BY <2>1, <2>2, <2>3 DEF Unasked, r
    <3>2. evTurn'.at = "prompted" => evAnswers' = evAnswers
      BY <2>1
    <3>3. \A q \in EvRequestNos : Unasked(q)' => evAnswers'[q] = 0
      BY <2>4, <3>1, <3>2 DEF EvInv, RequestsAreNew
    <3>4. evTurn'.req <= evAsked' /\ (evTurn'.at = "prompted" => evTurn'.req = evAsked' /\ evTurn'.req >= 1)
      BY <2>1, <2>2, <2>3 DEF EvInv, RequestsAreNew, EvTypeOK, r
    <3> QED
      BY <2>1, <3>1, <3>3, <3>4 DEF EvInv, RequestsAreNew
  <2>8. \A q, s : ~WaitsFor(q, s)
    BY <2>1 DEF WaitsFor
  <2>9. PendingOnce'
    BY <2>1, <2>3, <2>8 DEF EvInv, PendingOnce, LeftBehind, Holds, WaitsFor
  <2>10. HeldOnce'
    <3>1. \A q \in EvRequestNos, u \in Answerers : evUser[u].req = q => evAnswers'[q] = evAnswers[q]
      BY <2>2, <2>4
    <3> QED
      BY <2>1, <2>3, <2>8, <3>1 DEF EvInv, HeldOnce, LeftBehind, Holds, WaitsFor, SomeTwiceBefore
  <2>11. AnsweredOnce'
    BY <2>1, <2>2, <2>4 DEF EvInv, AnsweredOnce
  <2>12. OpenIsAsked' /\ WaitedRequestIsPending'
    BY <2>1, <2>3 DEF EvInv, OpenIsAsked, WaitedRequestIsPending
  <2> QED
    BY <2>5, <2>6, <2>7, <2>9, <2>10, <2>11, <2>12 DEF EvInv
<1>2. CASE EntersRequest
  <2> PICK r, s : r = evTurn.req /\ s = evTurn.state
    OBVIOUS
  <2>1. /\ evTurn.at = "prompted" /\ evTurn'.at = "waiting" /\ evTurn'.req = r /\ evTurn'.state = s
        /\ evTurn' \in [kind : {"none", "user", "managed"}, state : 0 .. MaxStates, req : 0 .. MaxRequests,
                        at : {"idle", "select", "prompted", "waiting"}]
        /\ evPending' = [evPending EXCEPT ![s] = r]
        /\ UNCHANGED <<evState, evMade, evUser, evTwice, evResolved, evStopped, evDead, evAsked, evAnswers, evOpen>>
    BY <1>2 DEF EntersRequest, TurnAt, EvInv, EvTypeOK, evStates, evAgent
  <2>2. r = evAsked /\ r \in EvRequestNos /\ r # 0 /\ s \in EvStateNos /\ s \in 1 .. evMade
    BY <2>1 DEF EvInv, RequestsAreNew, StatesInUse, EvTypeOK, EvRequestNos, EvStateNos
  <2>3. /\ evAnswers[r] = 0 /\ r \notin evResolved
        /\ \A t \in EvStateNos : evPending[t] # r
        /\ \A u \in Answerers : evUser[u].req # r
    BY <2>1, <2>2 DEF EvInv, RequestsAreNew, Unasked
  <2>4. evPending'[s] = r /\ \A t \in EvStateNos : t # s => evPending'[t] = evPending[t]
    BY <2>1, <2>2 DEF EvInv, EvTypeOK
  <2>5. \A q, t : ~WaitsFor(q, t)
    BY <2>1 DEF WaitsFor
  <2>6. ~LeftBehind(s) /\ WaitsFor(r, s)'
    BY <2>1 DEF LeftBehind, WaitsFor
  <2>7. \A t : LeftBehind(t)' <=> LeftBehind(t)
    BY <2>1 DEF LeftBehind
  <2>8. \A u \in Answerers : Holds(u) => evUser[u].req \in 1 .. evAsked /\ evUser[u].req < r
    BY <2>2, <2>3 DEF EvInv, StatesInUse, Holds, EvTypeOK
  <2>9. EvTypeOK' /\ StatesInUse'
    <3>1. evPending' \in [EvStateNos -> 0 .. MaxRequests]
      BY <2>1, <2>2 DEF EvInv, EvTypeOK, EvRequestNos
    <3> QED
      BY <2>1, <2>2, <2>4, <3>1 DEF EvInv, EvTypeOK, StatesInUse
  <2>10. RequestsAreNew'
    <3>1. \A q \in EvRequestNos : Unasked(q)' => Unasked(q) /\ q # r
      BY <2>1, <2>2 DEF Unasked, EvInv, EvTypeOK
    <3>2. \A q \in EvRequestNos : Unasked(q)' =>
            /\ evAnswers[q] = 0 /\ q \notin evResolved
            /\ \A t \in EvStateNos : evPending'[t] # q
            /\ \A u \in Answerers : evUser[u].req # q
      BY <2>4, <3>1 DEF EvInv, RequestsAreNew
    <3>3. evTurn'.req <= evAsked
      BY <2>1, <2>2
    <3> QED
      BY <2>1, <3>2, <3>3 DEF RequestsAreNew
  <2>11. PendingOnce'
    <3>0. \A u \in Answerers : Holds(u)' <=> Holds(u)
      BY <2>1 DEF Holds
    <3> SUFFICES ASSUME NEW t \in EvStateNos, NEW q \in EvRequestNos, evPending'[t] = q
                 PROVE  /\ \A t2 \in EvStateNos : evPending'[t2] = q => t2 = t
                        /\ q \notin evResolved
                        /\ WaitsFor(q, t)' \/ LeftBehind(t)'
                        /\ \A u \in Answerers : Holds(u) /\ evUser[u].req = q => evUser[u].state = t
                        /\ \A u \in Answerers : Holds(u) /\ evUser[u].state = t => evUser[u].req <= q
                        /\ \A u \in Answerers : evUser[u].at = "resolve" => evUser[u].req # q
      BY <2>1, <3>0 DEF PendingOnce
    <3>1. CASE t = s
      <4>1. \A u \in Answerers : Holds(u) => evUser[u].req <= r
        BY <2>2, <2>8 DEF EvInv, EvTypeOK
      <4> QED
        BY <2>2, <2>3, <2>4, <2>6, <3>1, <4>1 DEF WaitsFor
    <3>2. CASE t # s
      <4>1. evPending[t] = q /\ q # r
        BY <2>3, <2>4, <3>2
      <4>2. /\ \A t2 \in EvStateNos : evPending[t2] = q => t2 = t
            /\ q \notin evResolved
            /\ WaitsFor(q, t) \/ LeftBehind(t)
            /\ \A u \in Answerers : Holds(u) /\ evUser[u].req = q => evUser[u].state = t
            /\ \A u \in Answerers : Holds(u) /\ evUser[u].state = t => evUser[u].req <= q
            /\ \A u \in Answerers : evUser[u].at = "resolve" => evUser[u].req # q
        BY <4>1 DEF EvInv, PendingOnce
      <4>3. ASSUME NEW t2 \in EvStateNos, evPending'[t2] = q PROVE t2 = t
        BY <2>4, <4>1, <4>2, <4>3
      <4>4. WaitsFor(q, t)' \/ LeftBehind(t)'
        BY <2>5, <2>7, <4>2
      <4> QED
        BY <4>2, <4>3, <4>4
    <3> QED
      BY <3>1, <3>2
  <2>12. HeldOnce'
    <3>1. \A u \in Answerers : Holds(u)' <=> Holds(u)
      BY <2>1 DEF Holds
    <3>2. \A q : SomeTwiceBefore(q)' <=> SomeTwiceBefore(q)
      BY <2>1 DEF SomeTwiceBefore
    <3>3. ASSUME NEW u \in Answerers, NEW q \in EvRequestNos \ evTwice, NEW t \in EvStateNos,
                 Holds(u), evUser[u].req = q, evUser[u].state = t
          PROVE  /\ \A v \in Answerers : Holds(v) /\ evUser[v].req = q => v = u
                 /\ \A v \in Answerers : evUser[v].at = "resolve" => evUser[v].req # q
                 /\ q \notin evResolved
                 /\ LeftBehind(t)'
                 /\ evPending'[t] = q \/ SomeTwiceBefore(q)
                 /\ evUser[u].at = "respond" => evAnswers[q] = 0
      <4>1. /\ \A v \in Answerers : Holds(v) /\ evUser[v].req = q => v = u
            /\ \A v \in Answerers : evUser[v].at = "resolve" => evUser[v].req # q
            /\ q \notin evResolved
            /\ WaitsFor(q, t) \/ LeftBehind(t)
            /\ evPending[t] = q \/ SomeTwiceBefore(q)
            /\ evUser[u].at = "respond" => evAnswers[q] = 0
        BY <3>3 DEF EvInv, HeldOnce
      <4>2. LeftBehind(t) /\ t # s
        BY <2>5, <2>6, <4>1
      <4> QED
        BY <2>4, <2>7, <4>1, <4>2
    <3> QED
      BY <2>1, <3>1, <3>2, <3>3 DEF HeldOnce
  <2>13. AnsweredOnce'
    <3>1. \A q \in EvRequestNos, t \in EvStateNos : evAnswers[q] = 1 /\ evPending'[t] = q => evPending[t] = q
      BY <2>3, <2>4
    <3> QED
      BY <2>1, <3>1 DEF EvInv, AnsweredOnce
  <2>14. OpenIsAsked' /\ WaitedRequestIsPending'
    BY <2>1, <2>4 DEF EvInv, OpenIsAsked, WaitedRequestIsPending
  <2> QED
    BY <2>9, <2>10, <2>11, <2>12, <2>13, <2>14 DEF EvInv
<1> QED
  BY <1>1, <1>2

\* What an answerer does next: the record it has then, the others as they were.
LEMMA UserMoves ==
    ASSUME EvInv, NEW u \in Answerers, NEW new, evUser' = [evUser EXCEPT ![u] = new]
    PROVE  evUser'[u] = new /\ \A v \in Answerers : v # u => evUser'[v] = evUser[v]
  BY DEF EvInv, EvTypeOK

\* A message arrives, or turns out not to be an answer.
LEMMA MessageSteps ==
    ASSUME EvInv, NEW u \in Answerers, NEW new,
           evUser' = [evUser EXCEPT ![u] = new],
           new \in [word : Answering \cup {"none", "other"}, state : 0 .. MaxStates,
                    req : 0 .. MaxRequests, at : EvLabels],
           new.at \in {"idle", "look"}, new.req = 0, evUser[u].at \in {"idle", "look"},
           UNCHANGED <<evState, evMade, evStopped, evDead, evAgent, evPending, evResolved, evTurn, evTwice>>
    PROVE  EvInv'
<1>1. evUser'[u] = new /\ \A v \in Answerers : v # u => evUser'[v] = evUser[v]
  BY UserMoves
<1>2. EvTypeOK'
  BY DEF EvInv, EvTypeOK, evAgent
<1>3. StatesInUse' /\ OpenIsAsked'
  BY <1>1 DEF EvInv, StatesInUse, OpenIsAsked, evAgent
<1>4. RequestsAreNew'
  <2>1. \A r \in EvRequestNos : Unasked(r)' <=> Unasked(r)
    BY DEF Unasked, evAgent
  <2>2. \A r \in EvRequestNos : r # 0
    BY DEF EvRequestNos
  <2> QED
    BY <1>1, <2>1, <2>2 DEF EvInv, RequestsAreNew, evAgent
<1>5. \A v \in Answerers : (Holds(v)' <=> Holds(v)) /\ (Holds(v) \/ evUser[v].at = "resolve" => evUser'[v] = evUser[v])
                           /\ (evUser'[v].at = "resolve" => evUser[v].at = "resolve")
  BY <1>1 DEF Holds
<1>6. \A r, s : (WaitsFor(r, s)' <=> WaitsFor(r, s)) /\ (LeftBehind(s)' <=> LeftBehind(s))
               /\ (SomeTwiceBefore(r)' <=> SomeTwiceBefore(r))
  BY DEF WaitsFor, LeftBehind, SomeTwiceBefore
<1>7. PendingOnce'
  BY <1>5, <1>6 DEF EvInv, PendingOnce
<1>8. HeldOnce'
  BY <1>5, <1>6 DEF EvInv, HeldOnce, evAgent
<1>9. AnsweredOnce'
  <2>1. \A v \in Answerers : evUser[v].at = "forget" => evUser'[v] = evUser[v]
    BY <1>5 DEF Holds
  <2> QED
    BY <2>1 DEF EvInv, AnsweredOnce, evAgent
<1>10. WaitedRequestIsPending'
  <2>1. \A r : EvTaking(r) => EvTaking(r)'
    BY <1>1 DEF EvTaking
  <2> QED
    BY <2>1 DEF EvInv, WaitedRequestIsPending
<1> QED
  BY <1>2, <1>3, <1>4, <1>7, <1>8, <1>9, <1>10 DEF EvInv

\* An answerer looks up the request that is in the state of the chat.
LEMMA LookUpStep ==
    ASSUME EvInv, NEW u \in Answerers, LooksUp(u)
    PROVE  EvInv'
<1> USE EvNumbers
<1>1. CASE evUser' = [evUser EXCEPT ![u] = NoAnswer] /\ UNCHANGED <<evAll, evTwice>>
  <2>1. /\ NoAnswer.at = "idle" /\ NoAnswer.req = 0
        /\ NoAnswer \in [word : Answering \cup {"none", "other"}, state : 0 .. MaxStates,
                         req : 0 .. MaxRequests, at : EvLabels]
    BY DEF NoAnswer, EvLabels
  <2>2. evUser[u].at \in {"idle", "look"}
        /\ UNCHANGED <<evState, evMade, evStopped, evDead, evAgent, evPending, evResolved, evTurn, evTwice>>
    BY <1>1 DEF LooksUp, evPermit
  <2> HIDE DEF NoAnswer
  <2> QED
    BY <1>1, <2>1, <2>2, MessageSteps
<1>2. CASE ~(evUser' = [evUser EXCEPT ![u] = NoAnswer] /\ UNCHANGED <<evAll, evTwice>>)
  <2> PICK s, r, new : /\ s = evState /\ r = evPending[s]
                       /\ new = [NoAnswer EXCEPT !.state = s, !.req = r, !.at = "respond"]
    OBVIOUS
  <2>1. /\ evUser[u].at = "look" /\ s # 0 /\ r # 0
        /\ evUser' = [evUser EXCEPT ![u] = new]
        /\ evTwice' = (IF EvHeld(r) THEN evTwice \cup {r} ELSE evTwice)
        /\ UNCHANGED <<evState, evMade, evStopped, evDead, evAgent, evPending, evResolved, evTurn>>
    BY <1>2 DEF LooksUp, evPermit
  <2>2. s \in EvStateNos /\ s \in 1 .. evMade /\ s \in 0 .. MaxStates /\ r \in EvRequestNos /\ r \in 0 .. MaxRequests
        /\ s \notin evStopped
    BY <2>1 DEF EvInv, EvTypeOK, StatesInUse, EvStateNos, EvRequestNos
  <2>3. new.at = "respond" /\ new.state = s /\ new.req = r
        /\ new \in [word : Answering \cup {"none", "other"}, state : 0 .. MaxStates,
                    req : 0 .. MaxRequests, at : EvLabels]
    BY <2>2 DEF NoAnswer, EvLabels
  <2>4. evUser'[u] = new /\ \A v \in Answerers : v # u => evUser'[v] = evUser[v]
    BY <2>1, UserMoves
  <2>5. /\ \A t \in EvStateNos : evPending[t] = r => t = s
        /\ r \notin evResolved
        /\ WaitsFor(r, s)
        /\ \A v \in Answerers : Holds(v) /\ evUser[v].req = r => evUser[v].state = s
        /\ \A v \in Answerers : Holds(v) /\ evUser[v].state = s => evUser[v].req <= r
        /\ \A v \in Answerers : evUser[v].at = "resolve" => evUser[v].req # r
    BY <2>2 DEF EvInv, PendingOnce, LeftBehind
  <2>6. /\ Holds(u)' /\ ~Holds(u)
        /\ \A v \in Answerers : v # u => (Holds(v)' <=> Holds(v))
        /\ \A v \in Answerers : evUser'[v].at = "resolve" => evUser[v].at = "resolve" /\ evUser'[v] = evUser[v]
    BY <2>1, <2>3, <2>4 DEF Holds
  <2>7. \A q, t : (WaitsFor(q, t)' <=> WaitsFor(q, t)) /\ (LeftBehind(t)' <=> LeftBehind(t))
                 /\ (SomeTwiceBefore(q) => SomeTwiceBefore(q)')
    BY <2>1 DEF WaitsFor, LeftBehind, SomeTwiceBefore
  <2>8. evTwice \subseteq evTwice'
    BY <2>1
  <2>9. EvTypeOK'
    BY <2>1, <2>3 DEF EvInv, EvTypeOK, evAgent
  <2>10. r <= evAsked /\ r >= 1 /\ ~Unasked(r)
    <3>1. ~Unasked(r)
      BY <2>2 DEF EvInv, RequestsAreNew
    <3> QED
      BY <2>2, <3>1 DEF EvInv, EvTypeOK, Unasked, EvRequestNos
  <2>11. StatesInUse' /\ OpenIsAsked'
    BY <2>1, <2>2, <2>3, <2>4, <2>10 DEF EvInv, EvTypeOK, StatesInUse, OpenIsAsked, evAgent
  <2>12. RequestsAreNew'
    <3>1. \A q \in EvRequestNos : Unasked(q)' => Unasked(q) /\ q # r
      BY <2>1, <2>10 DEF Unasked, evAgent
    <3> QED
      BY <2>1, <2>3, <2>4, <3>1 DEF EvInv, RequestsAreNew, evAgent
  <2>13. PendingOnce'
    <3> SUFFICES ASSUME NEW t \in EvStateNos, NEW q \in EvRequestNos, evPending[t] = q
                 PROVE  /\ \A t2 \in EvStateNos : evPending[t2] = q => t2 = t
                        /\ q \notin evResolved
                        /\ WaitsFor(q, t) \/ LeftBehind(t)
                        /\ \A v \in Answerers : Holds(v)' /\ evUser'[v].req = q => evUser'[v].state = t
                        /\ \A v \in Answerers : Holds(v)' /\ evUser'[v].state = t => evUser'[v].req <= q
                        /\ \A v \in Answerers : evUser'[v].at = "resolve" => evUser'[v].req # q
      BY <2>1, <2>7 DEF PendingOnce
    <3>1. /\ \A t2 \in EvStateNos : evPending[t2] = q => t2 = t
          /\ q \notin evResolved
          /\ WaitsFor(q, t) \/ LeftBehind(t)
          /\ \A v \in Answerers : Holds(v) /\ evUser[v].req = q => evUser[v].state = t
          /\ \A v \in Answerers : Holds(v) /\ evUser[v].state = t => evUser[v].req <= q
          /\ \A v \in Answerers : evUser[v].at = "resolve" => evUser[v].req # q
      BY DEF EvInv, PendingOnce
    <3>2. (q = r => t = s) /\ (t = s => q = r)
      BY <2>5
    <3>3. ASSUME NEW v \in Answerers, Holds(v)'
          PROVE  /\ evUser'[v].req = q => evUser'[v].state = t
                 /\ evUser'[v].state = t => evUser'[v].req <= q
      <4>1. CASE v = u
        <5>1. evUser'[v].req = r /\ evUser'[v].state = s
          BY <2>3, <2>4, <4>1
        <5>2. r <= r
          BY <2>2
        <5> QED
          BY <3>2, <5>1, <5>2
      <4>2. CASE v # u
        <5>1. Holds(v) /\ evUser'[v] = evUser[v]
          BY <2>4, <2>6, <3>3, <4>2
        <5> QED
          BY <3>1, <5>1
      <4> QED
        BY <4>1, <4>2
    <3>4. \A v \in Answerers : evUser'[v].at = "resolve" => evUser'[v].req # q
      BY <2>6, <3>1
    <3> QED
      BY <3>1, <3>3, <3>4
  <2>14. HeldOnce'
    <3> SUFFICES ASSUME NEW v \in Answerers, NEW q \in EvRequestNos \ evTwice', NEW t \in EvStateNos,
                        Holds(v)', evUser'[v].req = q, evUser'[v].state = t
                 PROVE  /\ \A w \in Answerers : Holds(w)' /\ evUser'[w].req = q => w = v
                        /\ \A w \in Answerers : evUser'[w].at = "resolve" => evUser'[w].req # q
                        /\ q \notin evResolved
                        /\ WaitsFor(q, t) \/ LeftBehind(t)
                        /\ evPending[t] = q \/ SomeTwiceBefore(q)
                        /\ evUser'[v].at = "respond" => evAnswers[q] = 0
      BY <2>1, <2>7 DEF HeldOnce, evAgent
    <3>1. CASE q = r
      <4>1. ~EvHeld(r)
        BY <2>1, <3>1
      <4>2. \A w \in Answerers : Holds(w) => evUser[w].req # r
        BY <4>1 DEF EvHeld, Holds
      <4>3. v = u /\ t = s
        BY <2>3, <2>4, <2>6, <3>1, <4>2
      <4>4. evAnswers[r] = 0
        <5>1. r \notin evTwice /\ evPending[s] = r
          BY <2>8, <3>1
        <5>2. /\ evAnswers[r] <= 1
              /\ evAnswers[r] = 1 => \A t2 \in EvStateNos : evPending[t2] = r =>
                     \E w \in Answerers : evUser[w].at = "forget" /\ evUser[w].req = r
          BY <2>2, <5>1 DEF EvInv, AnsweredOnce
        <5>3. evAnswers[r] # 1
          BY <2>2, <4>2, <5>1, <5>2 DEF Holds
        <5>4. evAnswers[r] \in Nat
          BY <2>2 DEF EvInv, EvTypeOK
        <5> QED
          BY <5>2, <5>3, <5>4
      <4> QED
        BY <2>4, <2>5, <2>6, <3>1, <4>2, <4>3, <4>4
    <3>2. CASE q # r
      <4>1. v # u /\ Holds(v) /\ evUser[v].req = q /\ evUser[v].state = t /\ q \notin evTwice
        BY <2>3, <2>4, <2>6, <2>8, <3>2
      <4>2. /\ \A w \in Answerers : Holds(w) /\ evUser[w].req = q => w = v
            /\ \A w \in Answerers : evUser[w].at = "resolve" => evUser[w].req # q
            /\ q \notin evResolved
            /\ WaitsFor(q, t) \/ LeftBehind(t)
            /\ evPending[t] = q \/ SomeTwiceBefore(q)
            /\ evUser[v].at = "respond" => evAnswers[q] = 0
        BY <4>1 DEF EvInv, HeldOnce
      <4>3. ASSUME NEW w \in Answerers, Holds(w)', evUser'[w].req = q
            PROVE  Holds(w) /\ evUser[w].req = q
        <5>1. w # u
          BY <2>3, <2>4, <3>2, <4>3
        <5> QED
          BY <2>4, <2>6, <4>3, <5>1
      <4>4. \A w \in Answerers : evUser'[w].at = "resolve" => evUser'[w].req # q
        BY <2>6, <4>2
      <4>5. evUser'[v] = evUser[v]
        BY <2>4, <4>1
      <4> QED
        BY <4>2, <4>3, <4>4, <4>5
    <3> QED
      BY <3>1, <3>2
  <2>15. AnsweredOnce'
    <3>1. \A v \in Answerers : evUser[v].at = "forget" => evUser'[v] = evUser[v]
      BY <2>1, <2>4
    <3> QED
      BY <2>1, <2>8, <3>1 DEF EvInv, AnsweredOnce, evAgent
  <2>16. WaitedRequestIsPending'
    <3>1. \A q : EvTaking(q) => EvTaking(q)'
      BY <2>1, <2>4 DEF EvTaking
    <3> QED
      BY <2>1, <2>8, <3>1 DEF EvInv, WaitedRequestIsPending
  <2> QED
    BY <2>9, <2>11, <2>12, <2>13, <2>14, <2>15, <2>16 DEF EvInv
<1> QED
  BY <1>1, <1>2

\* A message arrives in the chat.
LEMMA SaysStep ==
    ASSUME EvInv, NEW u \in Answerers, NEW word \in Answering \cup {"other"}, Says(u, word)
    PROVE  EvInv'
<1>1. word \in Answering \cup {"none", "other"} /\ 0 \in 0 .. MaxStates /\ 0 \in 0 .. MaxRequests
      /\ "look" \in EvLabels
  BY EvNumbers DEF EvLabels
<1>2. PICK new : new = [NoAnswer EXCEPT !.word = word, !.at = "look"]
  OBVIOUS
<1>3. new = [word |-> word, state |-> 0, req |-> 0, at |-> "look"]
  BY <1>2 DEF NoAnswer
<1>4. /\ new.at = "look" /\ new.req = 0
      /\ new \in [word : Answering \cup {"none", "other"}, state : 0 .. MaxStates,
                  req : 0 .. MaxRequests, at : EvLabels]
  BY <1>1, <1>3
<1>5. evUser' = [evUser EXCEPT ![u] = new] /\ evUser[u] = NoAnswer
      /\ UNCHANGED <<evState, evMade, evStopped, evDead, evAgent, evPending, evResolved, evTurn, evTwice>>
  BY <1>2 DEF Says, evStates
<1>6. evUser[u].at = "idle"
  BY <1>5 DEF NoAnswer
<1> QED
  BY <1>4, <1>5, <1>6, MessageSteps

\* An answerer tells the agent.
LEMMA RespondStep ==
    ASSUME EvInv, NEW u \in Answerers, Responds(u)
    PROVE  EvInv'
<1> USE EvNumbers
<1> PICK r, s, new : r = evUser[u].req /\ s = evUser[u].state /\ new = [evUser[u] EXCEPT !.at = "forget"]
  OBVIOUS
<1>1. /\ evUser[u].at = "respond" /\ Holds(u)
      /\ evUser' = [evUser EXCEPT ![u] = new]
      /\ evAnswers' = evAnswers \/ evAnswers' = [evAnswers EXCEPT ![r] = @ + 1]
      /\ evOpen' \in {0, evOpen}
      /\ UNCHANGED <<evState, evMade, evStopped, evDead, evAsked, evPending, evResolved, evTurn, evTwice>>
  BY DEF Responds, RespondPermission, UserAt, evStates, evPermit, Holds
<1>2. evUser[u] \in [word : Answering \cup {"none", "other"}, state : 0 .. MaxStates,
                     req : 0 .. MaxRequests, at : EvLabels]
  BY DEF EvInv, EvTypeOK
<1>3. new.at = "forget" /\ new.state = s /\ new.req = r
      /\ new \in [word : Answering \cup {"none", "other"}, state : 0 .. MaxStates,
                  req : 0 .. MaxRequests, at : EvLabels]
  BY <1>2 DEF EvLabels
<1>4. evUser'[u] = new /\ \A v \in Answerers : v # u => evUser'[v] = evUser[v]
  BY <1>1, UserMoves
<1>5. r \in EvRequestNos /\ s \in EvStateNos
  BY <1>1 DEF EvInv, EvTypeOK, StatesInUse, EvRequestNos, EvStateNos
<1>6. /\ evAnswers' \in [EvRequestNos -> Nat]
      /\ evAnswers'[r] \in {evAnswers[r], evAnswers[r] + 1}
      /\ \A q \in EvRequestNos : q # r => evAnswers'[q] = evAnswers[q]
  BY <1>1, <1>5 DEF EvInv, EvTypeOK
<1>7. \A v \in Answerers : /\ Holds(v)' <=> Holds(v)
                           /\ evUser'[v].req = evUser[v].req /\ evUser'[v].state = evUser[v].state
                           /\ evUser'[v].at = "resolve" <=> evUser[v].at = "resolve"
                           /\ evUser[v].at = "forget" => evUser'[v].at = "forget"
  <2> TAKE v \in Answerers
  <2>1. CASE v = u
    BY <1>1, <1>3, <1>4, <2>1 DEF Holds
  <2>2. CASE v # u
    BY <1>4, <2>2 DEF Holds
  <2> QED
    BY <2>1, <2>2
<1>8. \A q, t : (WaitsFor(q, t)' <=> WaitsFor(q, t)) /\ (LeftBehind(t)' <=> LeftBehind(t))
               /\ (SomeTwiceBefore(q)' <=> SomeTwiceBefore(q)) /\ (Unasked(q)' <=> Unasked(q))
  BY <1>1 DEF WaitsFor, LeftBehind, SomeTwiceBefore, Unasked
<1>9. EvTypeOK'
  BY <1>1, <1>3, <1>6 DEF EvInv, EvTypeOK
<1>10. StatesInUse'
  <2>1. \A v \in Answerers : evUser'[v].at \in {"respond", "forget", "resolve"} =>
          evUser[v].at \in {"respond", "forget", "resolve"}
    BY <1>7 DEF Holds
  <2> QED
    BY <1>1, <1>7, <2>1 DEF EvInv, StatesInUse
<1>11. OpenIsAsked'
  BY <1>1 DEF EvInv, OpenIsAsked
<1>12. RequestsAreNew'
  <2>1. \A q \in EvRequestNos : Unasked(q) => q # r
    BY DEF EvInv, RequestsAreNew
  <2>2. \A q \in EvRequestNos : Unasked(q) =>
         /\ evAnswers'[q] = 0 /\ q \notin evResolved
         /\ \A t \in EvStateNos : evPending[t] # q
         /\ \A v \in Answerers : evUser'[v].req # q
    BY <1>6, <1>7, <2>1 DEF EvInv, RequestsAreNew
  <2> QED
    BY <1>1, <1>8, <2>2 DEF EvInv, RequestsAreNew
<1>13. PendingOnce'
  BY <1>1, <1>7, <1>8 DEF EvInv, PendingOnce
<1>14. HeldOnce'
  <2> SUFFICES ASSUME NEW v \in Answerers, NEW q \in EvRequestNos \ evTwice, NEW t \in EvStateNos,
                      Holds(v), evUser[v].req = q, evUser[v].state = t
               PROVE  /\ \A w \in Answerers : Holds(w) /\ evUser[w].req = q => w = v
                      /\ \A w \in Answerers : evUser[w].at = "resolve" => evUser[w].req # q
                      /\ q \notin evResolved
                      /\ WaitsFor(q, t) \/ LeftBehind(t)
                      /\ evPending[t] = q \/ SomeTwiceBefore(q)
                      /\ evUser'[v].at = "respond" => evAnswers'[q] = 0
    BY <1>1, <1>7, <1>8 DEF HeldOnce
  <2>1. /\ \A w \in Answerers : Holds(w) /\ evUser[w].req = q => w = v
        /\ \A w \in Answerers : evUser[w].at = "resolve" => evUser[w].req # q
        /\ q \notin evResolved
        /\ WaitsFor(q, t) \/ LeftBehind(t)
        /\ evPending[t] = q \/ SomeTwiceBefore(q)
        /\ evUser[v].at = "respond" => evAnswers[q] = 0
    BY DEF EvInv, HeldOnce
  <2>2. evUser'[v].at = "respond" => evAnswers'[q] = 0
    <3>1. CASE v = u
      BY <1>3, <1>4, <3>1
    <3>2. CASE v # u
      <4>1. q # r
        BY <1>1, <2>1, <3>2
      <4> QED
        BY <1>4, <1>6, <2>1, <3>2, <4>1
    <3> QED
      BY <3>1, <3>2
  <2> QED
    BY <2>1, <2>2
<1>15. AnsweredOnce'
  <2> SUFFICES ASSUME NEW q \in EvRequestNos \ evTwice
               PROVE  /\ evAnswers'[q] <= 1
                      /\ evAnswers'[q] = 1 => \A t \in EvStateNos : evPending[t] = q =>
                            \E v \in Answerers : evUser'[v].at = "forget" /\ evUser[v].req = q
    BY <1>1, <1>7 DEF AnsweredOnce
  <2>1. CASE q = r
    <3>1. evAnswers[r] = 0
      BY <1>1, <1>5, <2>1 DEF EvInv, HeldOnce
    <3> QED
      BY <1>3, <1>4, <1>6, <2>1, <3>1
  <2>2. CASE q # r
    <3>1. /\ evAnswers[q] <= 1
          /\ evAnswers[q] = 1 => \A t \in EvStateNos : evPending[t] = q =>
                \E v \in Answerers : evUser[v].at = "forget" /\ evUser[v].req = q
      BY DEF EvInv, AnsweredOnce
    <3> QED
      BY <1>6, <1>7, <2>2, <3>1
  <2> QED
    BY <2>1, <2>2
<1>16. WaitedRequestIsPending'
  <2>1. \A q : EvTaking(q) => EvTaking(q)'
    BY <1>7 DEF EvTaking
  <2> QED
    BY <1>1, <2>1 DEF EvInv, WaitedRequestIsPending
<1> QED
  BY <1>9, <1>10, <1>11, <1>12, <1>13, <1>14, <1>15, <1>16 DEF EvInv

\* An answerer clears the request of the state, whichever is there by now.
LEMMA ForgetStep ==
    ASSUME EvInv, NEW u \in Answerers, Forgets(u)
    PROVE  EvInv'
<1> USE EvNumbers
<1> PICK r, s, new : r = evUser[u].req /\ s = evUser[u].state /\ new = [evUser[u] EXCEPT !.at = "resolve"]
  OBVIOUS
<1>1. /\ evUser[u].at = "forget" /\ Holds(u)
      /\ evUser' = [evUser EXCEPT ![u] = new]
      /\ evPending' = [evPending EXCEPT ![s] = 0]
      /\ UNCHANGED <<evState, evMade, evStopped, evDead, evOpen, evAsked, evAnswers, evResolved, evTurn, evTwice>>
  BY DEF Forgets, UserAt, evStates, evAgent, Holds
<1>2. evUser[u] \in [word : Answering \cup {"none", "other"}, state : 0 .. MaxStates,
                     req : 0 .. MaxRequests, at : EvLabels]
  BY DEF EvInv, EvTypeOK
<1>3. new.at = "resolve" /\ new.state = s /\ new.req = r
      /\ new \in [word : Answering \cup {"none", "other"}, state : 0 .. MaxStates,
                  req : 0 .. MaxRequests, at : EvLabels]
  BY <1>2 DEF EvLabels
<1>4. evUser'[u] = new /\ \A v \in Answerers : v # u => evUser'[v] = evUser[v]
  BY <1>1, UserMoves
<1>5. r \in EvRequestNos /\ s \in EvStateNos
  BY <1>1 DEF EvInv, EvTypeOK, StatesInUse, EvRequestNos, EvStateNos
<1>6. evPending'[s] = 0 /\ \A t \in EvStateNos : t # s => evPending'[t] = evPending[t]
  BY <1>1, <1>5 DEF EvInv, EvTypeOK
<1>7. \A q \in EvRequestNos, t \in EvStateNos : evPending'[t] = q => evPending[t] = q /\ t # s
  BY <1>6 DEF EvRequestNos
<1>8. \A v \in Answerers : Holds(v)' => v # u /\ Holds(v) /\ evUser'[v] = evUser[v]
  BY <1>3, <1>4 DEF Holds
<1>9. \A q, t : (WaitsFor(q, t)' <=> WaitsFor(q, t)) /\ (LeftBehind(t)' <=> LeftBehind(t))
               /\ (SomeTwiceBefore(q)' <=> SomeTwiceBefore(q)) /\ (Unasked(q)' <=> Unasked(q))
  BY <1>1 DEF WaitsFor, LeftBehind, SomeTwiceBefore, Unasked
\* What u forgets, if it is not its own request, is a later one than one taken up twice.
<1>10. \A q \in EvRequestNos : evPending[s] = q /\ q # r => SomeTwiceBefore(q)
  <2> SUFFICES ASSUME NEW q \in EvRequestNos, evPending[s] = q, q # r
               PROVE  SomeTwiceBefore(q)
    OBVIOUS
  <2>1. r <= q
    BY <1>1, <1>5 DEF EvInv, PendingOnce
  <2>2. r < q
    BY <1>5, <2>1
  <2>3. CASE r \in evTwice
    BY <2>2, <2>3 DEF SomeTwiceBefore
  <2>4. CASE r \notin evTwice
    <3>1. evPending[s] = r \/ SomeTwiceBefore(r)
      BY <1>1, <1>5, <2>4 DEF EvInv, HeldOnce
    <3>2. PICK p \in evTwice : p < r
      BY <3>1 DEF SomeTwiceBefore
    <3> QED
      BY <1>5, <2>2, <3>2 DEF SomeTwiceBefore, EvInv, EvTypeOK, EvRequestNos
  <2> QED
    BY <2>3, <2>4
<1>11. EvTypeOK'
  <2>1. evPending' \in [EvStateNos -> 0 .. MaxRequests]
    BY <1>1, <1>5 DEF EvInv, EvTypeOK
  <2> QED
    BY <1>1, <1>3, <2>1 DEF EvInv, EvTypeOK
<1>12. StatesInUse' /\ OpenIsAsked'
  <2>1. evUser'[u].state \in 1 .. evMade /\ evUser'[u].req \in 1 .. evAsked
    BY <1>1, <1>3, <1>4 DEF EvInv, StatesInUse
  <2>2. \A t \in EvStateNos : t > evMade => evPending'[t] = 0
    BY <1>6 DEF EvInv, StatesInUse
  <2> QED
    BY <1>1, <1>4, <2>1, <2>2 DEF EvInv, StatesInUse, OpenIsAsked
<1>13. RequestsAreNew'
  <2>1. \A q \in EvRequestNos : Unasked(q) =>
         /\ evAnswers[q] = 0 /\ q \notin evResolved
         /\ \A t \in EvStateNos : evPending'[t] # q
         /\ \A v \in Answerers : evUser'[v].req # q
    BY <1>3, <1>4, <1>7 DEF EvInv, RequestsAreNew
  <2> QED
    BY <1>1, <1>9, <2>1 DEF EvInv, RequestsAreNew
<1>14. PendingOnce'
  <2> SUFFICES ASSUME NEW t \in EvStateNos, NEW q \in EvRequestNos, evPending'[t] = q
               PROVE  /\ \A t2 \in EvStateNos : evPending'[t2] = q => t2 = t
                      /\ q \notin evResolved
                      /\ WaitsFor(q, t) \/ LeftBehind(t)
                      /\ \A v \in Answerers : Holds(v)' /\ evUser'[v].req = q => evUser'[v].state = t
                      /\ \A v \in Answerers : Holds(v)' /\ evUser'[v].state = t => evUser'[v].req <= q
                      /\ \A v \in Answerers : evUser'[v].at = "resolve" => evUser'[v].req # q
    BY <1>1, <1>9 DEF PendingOnce
  <2>1. evPending[t] = q /\ t # s
    BY <1>7
  <2>2. /\ \A t2 \in EvStateNos : evPending[t2] = q => t2 = t
        /\ q \notin evResolved
        /\ WaitsFor(q, t) \/ LeftBehind(t)
        /\ \A v \in Answerers : Holds(v) /\ evUser[v].req = q => evUser[v].state = t
        /\ \A v \in Answerers : Holds(v) /\ evUser[v].state = t => evUser[v].req <= q
        /\ \A v \in Answerers : evUser[v].at = "resolve" => evUser[v].req # q
    BY <2>1 DEF EvInv, PendingOnce
  <2>3. r # q
    BY <1>1, <2>1, <2>2
  <2>4. \A v \in Answerers : evUser'[v].at = "resolve" => evUser'[v].req # q
    BY <1>3, <1>4, <2>2, <2>3
  <2> QED
    BY <1>7, <1>8, <2>2, <2>4
<1>15. HeldOnce'
  <2> SUFFICES ASSUME NEW v \in Answerers, NEW q \in EvRequestNos \ evTwice, NEW t \in EvStateNos,
                      Holds(v)', evUser'[v].req = q, evUser'[v].state = t
               PROVE  /\ \A w \in Answerers : Holds(w)' /\ evUser'[w].req = q => w = v
                      /\ \A w \in Answerers : evUser'[w].at = "resolve" => evUser'[w].req # q
                      /\ q \notin evResolved
                      /\ WaitsFor(q, t) \/ LeftBehind(t)
                      /\ evPending'[t] = q \/ SomeTwiceBefore(q)
                      /\ evUser'[v].at = "respond" => evAnswers[q] = 0
    BY ZenonT(40), <1>1, <1>9 DEF HeldOnce
  <2>1. v # u /\ Holds(v) /\ evUser'[v] = evUser[v] /\ evUser[v].req = q /\ evUser[v].state = t
    BY <1>8
  <2>2. /\ \A w \in Answerers : Holds(w) /\ evUser[w].req = q => w = v
        /\ \A w \in Answerers : evUser[w].at = "resolve" => evUser[w].req # q
        /\ q \notin evResolved
        /\ WaitsFor(q, t) \/ LeftBehind(t)
        /\ evPending[t] = q \/ SomeTwiceBefore(q)
        /\ evUser[v].at = "respond" => evAnswers[q] = 0
    BY <2>1 DEF EvInv, HeldOnce
  <2>3. r # q
    BY <1>1, <2>1, <2>2
  <2>4. \A w \in Answerers : evUser'[w].at = "resolve" => evUser'[w].req # q
    BY <1>3, <1>4, <2>2, <2>3
  <2>5. evPending'[t] = q \/ SomeTwiceBefore(q)
    <3>1. CASE t = s
      BY <1>10, <2>2, <2>3, <3>1
    <3>2. CASE t # s
      BY <1>6, <2>2, <3>2
    <3> QED
      BY <3>1, <3>2
  <2> QED
    BY <1>8, <2>1, <2>2, <2>4, <2>5
<1>16. AnsweredOnce'
  <2> SUFFICES ASSUME NEW q \in EvRequestNos \ evTwice
               PROVE  /\ evAnswers[q] <= 1
                      /\ evAnswers[q] = 1 => \A t \in EvStateNos : evPending'[t] = q =>
                            \E v \in Answerers : evUser'[v].at = "forget" /\ evUser'[v].req = q
    BY <1>1 DEF AnsweredOnce
  <2>1. ASSUME evAnswers[q] = 1, NEW t \in EvStateNos, evPending'[t] = q
        PROVE  \E v \in Answerers : evUser'[v].at = "forget" /\ evUser'[v].req = q
    <3>1. evPending[t] = q /\ t # s
      BY <1>7, <2>1
    <3>2. PICK v \in Answerers : evUser[v].at = "forget" /\ evUser[v].req = q
      BY <2>1, <3>1 DEF EvInv, AnsweredOnce
    <3>3. evUser[v].state = t
      BY <3>1, <3>2 DEF EvInv, PendingOnce, Holds
    <3> QED
      BY <1>4, <3>1, <3>2, <3>3
  <2> QED
    BY <2>1 DEF EvInv, AnsweredOnce
<1>17. WaitedRequestIsPending'
  <2> SUFFICES ASSUME NEW q, NEW t, q = evTurn.req, t = evTurn.state,
                      evTurn.at = "waiting", q \notin evResolved, t \notin evStopped
               PROVE  \/ evPending'[t] = q
                      \/ \E v \in Answerers : evUser'[v].req = q /\ evUser'[v].at \in {"forget", "resolve"}
                      \/ SomeTwiceBefore(q)
    BY <1>1 DEF WaitedRequestIsPending, EvTaking, SomeTwiceBefore
  <2>1. t \in EvStateNos /\ q \in 0 .. MaxRequests
    BY DEF EvInv, EvTypeOK, StatesInUse, EvStateNos
  <2>2. evPending[t] = q \/ EvTaking(q) \/ SomeTwiceBefore(q)
    BY DEF EvInv, WaitedRequestIsPending, SomeTwiceBefore
  <2>3. CASE EvTaking(q)
    BY <1>1, <1>3, <1>4, <2>3 DEF EvTaking
  <2>4. CASE evPending[t] = q
    <3>1. CASE t # s \/ q = 0
      BY <1>6, <2>1, <2>4, <3>1
    <3>2. CASE t = s /\ q # 0 /\ q = r
      BY <1>3, <1>4, <3>2
    <3>3. CASE t = s /\ q # 0 /\ q # r
      BY <1>10, <2>1, <2>4, <3>3 DEF EvRequestNos
    <3> QED
      BY <3>1, <3>2, <3>3
  <2> QED
    BY <2>2, <2>3, <2>4
<1> QED
  BY <1>11, <1>12, <1>13, <1>14, <1>15, <1>16, <1>17 DEF EvInv

\* An answerer resolves the request that it looked up.
LEMMA ResolveStep ==
    ASSUME EvInv, NEW u \in Answerers, Resolves(u)
    PROVE  EvInv'
<1> USE EvNumbers
<1> PICK r, new : r = evUser[u].req /\ new = [word |-> "none", state |-> 0, req |-> 0, at |-> "idle"]
  OBVIOUS
<1>1. /\ evUser[u].at = "resolve" /\ ~Holds(u)
      /\ evUser' = [evUser EXCEPT ![u] = new]
      /\ evResolved' = evResolved \cup {r}
      /\ UNCHANGED <<evState, evMade, evStopped, evDead, evOpen, evAsked, evAnswers, evPending, evTurn, evTwice>>
  BY DEF Resolves, evStates, evAgent, Holds, NoAnswer
<1>2. /\ new.at = "idle" /\ new.req = 0
      /\ new \in [word : Answering \cup {"none", "other"}, state : 0 .. MaxStates,
                  req : 0 .. MaxRequests, at : EvLabels]
  <2>1. "none" \in Answering \cup {"none", "other"} /\ 0 \in 0 .. MaxStates /\ 0 \in 0 .. MaxRequests
        /\ "idle" \in EvLabels
    BY DEF EvLabels
  <2> QED
    BY <2>1
<1>3. evUser'[u] = new /\ \A v \in Answerers : v # u => evUser'[v] = evUser[v]
  BY <1>1, UserMoves
<1>4. r \in EvRequestNos
  BY <1>1 DEF EvInv, EvTypeOK, StatesInUse, EvRequestNos
<1>5. \A v \in Answerers : /\ Holds(v)' => v # u /\ Holds(v) /\ evUser'[v] = evUser[v]
                           /\ evUser'[v].at = "resolve" => evUser[v].at = "resolve" /\ evUser'[v] = evUser[v]
                           /\ evUser[v].at = "forget" => evUser'[v] = evUser[v]
  BY <1>1, <1>2, <1>3 DEF Holds
<1>6. \A q, t : (WaitsFor(q, t)' <=> WaitsFor(q, t)) /\ (LeftBehind(t)' <=> LeftBehind(t))
               /\ (SomeTwiceBefore(q)' <=> SomeTwiceBefore(q)) /\ (Unasked(q)' <=> Unasked(q))
  BY <1>1 DEF WaitsFor, LeftBehind, SomeTwiceBefore, Unasked
<1>7. EvTypeOK'
  BY <1>1, <1>2 DEF EvInv, EvTypeOK
<1>8. StatesInUse' /\ OpenIsAsked'
  BY <1>1, <1>2, <1>3 DEF EvInv, StatesInUse, OpenIsAsked
<1>9. RequestsAreNew'
  <2>1. \A q \in EvRequestNos : Unasked(q) =>
         /\ evAnswers[q] = 0 /\ q \notin evResolved'
         /\ \A t \in EvStateNos : evPending[t] # q
         /\ \A v \in Answerers : evUser'[v].req # q
    BY <1>1, <1>2, <1>3 DEF EvInv, RequestsAreNew, EvRequestNos
  <2> QED
    BY <1>1, <1>6, <2>1 DEF EvInv, RequestsAreNew
<1>10. PendingOnce'
  <2> SUFFICES ASSUME NEW t \in EvStateNos, NEW q \in EvRequestNos, evPending[t] = q
               PROVE  /\ \A t2 \in EvStateNos : evPending[t2] = q => t2 = t
                      /\ q \notin evResolved'
                      /\ WaitsFor(q, t) \/ LeftBehind(t)
                      /\ \A v \in Answerers : Holds(v)' /\ evUser'[v].req = q => evUser'[v].state = t
                      /\ \A v \in Answerers : Holds(v)' /\ evUser'[v].state = t => evUser'[v].req <= q
                      /\ \A v \in Answerers : evUser'[v].at = "resolve" => evUser'[v].req # q
    BY <1>1, <1>6 DEF PendingOnce
  <2>1. /\ \A t2 \in EvStateNos : evPending[t2] = q => t2 = t
        /\ q \notin evResolved
        /\ WaitsFor(q, t) \/ LeftBehind(t)
        /\ \A v \in Answerers : Holds(v) /\ evUser[v].req = q => evUser[v].state = t
        /\ \A v \in Answerers : Holds(v) /\ evUser[v].state = t => evUser[v].req <= q
        /\ \A v \in Answerers : evUser[v].at = "resolve" => evUser[v].req # q
    BY DEF EvInv, PendingOnce
  <2>2. q \notin evResolved'
    BY <1>1, <2>1
  <2> QED
    BY <1>5, <2>1, <2>2
<1>11. HeldOnce'
  <2> SUFFICES ASSUME NEW v \in Answerers, NEW q \in EvRequestNos \ evTwice, NEW t \in EvStateNos,
                      Holds(v)', evUser'[v].req = q, evUser'[v].state = t
               PROVE  /\ \A w \in Answerers : Holds(w)' /\ evUser'[w].req = q => w = v
                      /\ \A w \in Answerers : evUser'[w].at = "resolve" => evUser'[w].req # q
                      /\ q \notin evResolved'
                      /\ WaitsFor(q, t) \/ LeftBehind(t)
                      /\ evPending[t] = q \/ SomeTwiceBefore(q)
                      /\ evUser'[v].at = "respond" => evAnswers[q] = 0
    BY <1>1, <1>6 DEF HeldOnce
  <2>1. Holds(v) /\ evUser'[v] = evUser[v] /\ evUser[v].req = q /\ evUser[v].state = t
    BY <1>5
  <2>2. /\ \A w \in Answerers : Holds(w) /\ evUser[w].req = q => w = v
        /\ \A w \in Answerers : evUser[w].at = "resolve" => evUser[w].req # q
        /\ q \notin evResolved
        /\ WaitsFor(q, t) \/ LeftBehind(t)
        /\ evPending[t] = q \/ SomeTwiceBefore(q)
        /\ evUser[v].at = "respond" => evAnswers[q] = 0
    BY <2>1 DEF EvInv, HeldOnce
  <2>3. q \notin evResolved'
    BY <1>1, <2>2
  <2> QED
    BY <1>5, <2>1, <2>2, <2>3
<1>12. AnsweredOnce'
  BY <1>1, <1>5 DEF EvInv, AnsweredOnce
<1>13. WaitedRequestIsPending'
  <2> SUFFICES ASSUME NEW q, NEW t, q = evTurn.req, t = evTurn.state,
                      evTurn.at = "waiting", q \notin evResolved', t \notin evStopped
               PROVE  \/ evPending[t] = q
                      \/ \E v \in Answerers : evUser'[v].req = q /\ evUser'[v].at \in {"forget", "resolve"}
                      \/ SomeTwiceBefore(q)
    BY <1>1 DEF WaitedRequestIsPending, EvTaking, SomeTwiceBefore
  <2>1. q \notin evResolved /\ q # r
    BY <1>1
  <2>2. evPending[t] = q \/ EvTaking(q) \/ SomeTwiceBefore(q)
    BY <2>1 DEF EvInv, WaitedRequestIsPending, SomeTwiceBefore
  <2> QED
    BY <1>3, <2>1, <2>2 DEF EvTaking
<1> QED
  BY <1>7, <1>8, <1>9, <1>10, <1>11, <1>12, <1>13 DEF EvInv

\* /stop takes the request out of the state and resolves it.
LEMMA StopTakesStep ==
    ASSUME EvInv, StopTakes
    PROVE  EvInv'
<1> USE EvNumbers
<1> PICK r, s : s = evState /\ r = evPending[s]
  OBVIOUS
<1>1. /\ s # 0
      /\ evPending' = [evPending EXCEPT ![s] = 0]
      /\ evResolved' = evResolved \cup ({r} \ {0})
      /\ evTwice' = IF EvHeld(r) THEN evTwice \cup {r} ELSE evTwice
      /\ UNCHANGED <<evState, evMade, evStopped, evDead, evOpen, evAsked, evAnswers, evUser, evTurn>>
  BY DEF StopTakes, evStates, evAgent
<1>2. s \in EvStateNos /\ r \in 0 .. MaxRequests
  BY <1>1 DEF EvInv, EvTypeOK, EvStateNos
<1>3. evPending'[s] = 0 /\ \A t \in EvStateNos : t # s => evPending'[t] = evPending[t]
  BY <1>1, <1>2 DEF EvInv, EvTypeOK
<1>4. \A q \in EvRequestNos, t \in EvStateNos : evPending'[t] = q => evPending[t] = q /\ t # s /\ q # r
  <2>1. \A q \in EvRequestNos, t \in EvStateNos : evPending'[t] = q => evPending[t] = q /\ t # s
    BY <1>3 DEF EvRequestNos
  <2>2. \A q \in EvRequestNos, t \in EvStateNos : evPending[t] = q /\ t # s => q # r
    BY <1>2 DEF EvInv, PendingOnce
  <2> QED
    BY <2>1, <2>2
<1>5. \A v \in Answerers : Holds(v)' <=> Holds(v)
  BY <1>1 DEF Holds
<1>6. evTwice \subseteq evTwice' /\ evTwice' \subseteq 0 .. MaxRequests
  BY <1>1, <1>2 DEF EvInv, EvTypeOK
<1>7. \A q, t : (WaitsFor(q, t)' <=> WaitsFor(q, t)) /\ (LeftBehind(t)' <=> LeftBehind(t))
               /\ (SomeTwiceBefore(q) => SomeTwiceBefore(q)') /\ (Unasked(q)' <=> Unasked(q))
  BY <1>1, <1>6 DEF WaitsFor, LeftBehind, SomeTwiceBefore, Unasked
<1>8. EvTypeOK'
  <2>1. evPending' \in [EvStateNos -> 0 .. MaxRequests]
    BY <1>1, <1>2 DEF EvInv, EvTypeOK
  <2> QED
    BY <1>1, <1>6, <2>1 DEF EvInv, EvTypeOK
<1>9. StatesInUse' /\ OpenIsAsked'
  BY <1>1, <1>3 DEF EvInv, StatesInUse, OpenIsAsked
<1>10. RequestsAreNew'
  <2>1. \A q \in EvRequestNos : Unasked(q) =>
         /\ evAnswers[q] = 0 /\ q \notin evResolved'
         /\ \A t \in EvStateNos : evPending'[t] # q
         /\ \A v \in Answerers : evUser[v].req # q
    BY <1>1, <1>2, <1>4 DEF EvInv, RequestsAreNew
  <2> QED
    BY <1>1, <1>7, <2>1 DEF EvInv, RequestsAreNew
<1>11. PendingOnce'
  <2> SUFFICES ASSUME NEW t \in EvStateNos, NEW q \in EvRequestNos, evPending'[t] = q
               PROVE  /\ \A t2 \in EvStateNos : evPending'[t2] = q => t2 = t
                      /\ q \notin evResolved'
                      /\ WaitsFor(q, t) \/ LeftBehind(t)
                      /\ \A v \in Answerers : Holds(v) /\ evUser[v].req = q => evUser[v].state = t
                      /\ \A v \in Answerers : Holds(v) /\ evUser[v].state = t => evUser[v].req <= q
                      /\ \A v \in Answerers : evUser[v].at = "resolve" => evUser[v].req # q
    BY <1>1, <1>5, <1>7 DEF PendingOnce
  <2>1. evPending[t] = q /\ t # s /\ q # r
    BY <1>4
  <2>2. /\ \A t2 \in EvStateNos : evPending[t2] = q => t2 = t
        /\ q \notin evResolved
        /\ WaitsFor(q, t) \/ LeftBehind(t)
        /\ \A v \in Answerers : Holds(v) /\ evUser[v].req = q => evUser[v].state = t
        /\ \A v \in Answerers : Holds(v) /\ evUser[v].state = t => evUser[v].req <= q
        /\ \A v \in Answerers : evUser[v].at = "resolve" => evUser[v].req # q
    BY <2>1 DEF EvInv, PendingOnce
  <2>3. \A t2 \in EvStateNos : evPending'[t2] = q => t2 = t
    BY <1>4, <2>2
  <2> QED
    BY <1>1, <2>1, <2>2, <2>3
<1>12. HeldOnce'
  <2> SUFFICES ASSUME NEW v \in Answerers, NEW q \in EvRequestNos \ evTwice', NEW t \in EvStateNos,
                      Holds(v), evUser[v].req = q, evUser[v].state = t
               PROVE  /\ \A w \in Answerers : Holds(w) /\ evUser[w].req = q => w = v
                      /\ \A w \in Answerers : evUser[w].at = "resolve" => evUser[w].req # q
                      /\ q \notin evResolved'
                      /\ WaitsFor(q, t) \/ LeftBehind(t)
                      /\ evPending'[t] = q \/ SomeTwiceBefore(q)
                      /\ evUser[v].at = "respond" => evAnswers[q] = 0
    BY <1>1, <1>5, <1>7 DEF HeldOnce
  <2>1. /\ \A w \in Answerers : Holds(w) /\ evUser[w].req = q => w = v
        /\ \A w \in Answerers : evUser[w].at = "resolve" => evUser[w].req # q
        /\ q \notin evResolved
        /\ WaitsFor(q, t) \/ LeftBehind(t)
        /\ evPending[t] = q \/ SomeTwiceBefore(q)
        /\ evUser[v].at = "respond" => evAnswers[q] = 0
    BY <1>6 DEF EvInv, HeldOnce
  <2>2. q # r
    <3>1. q = r => EvHeld(r)
      BY DEF EvHeld, Holds
    <3> QED
      BY <1>1, <3>1
  <2>3. evPending'[t] = q \/ SomeTwiceBefore(q)
    BY <1>3, <2>1, <2>2
  <2> QED
    BY <1>1, <2>1, <2>2, <2>3
<1>13. AnsweredOnce'
  BY <1>1, <1>4, <1>6 DEF EvInv, AnsweredOnce
<1>14. WaitedRequestIsPending'
  <2> SUFFICES ASSUME NEW q, NEW t, q = evTurn.req, t = evTurn.state,
                      evTurn.at = "waiting", q \notin evResolved', t \notin evStopped
               PROVE  evPending'[t] = q \/ EvTaking(q) \/ SomeTwiceBefore(q)
    BY <1>1, <1>6 DEF WaitedRequestIsPending, EvTaking, SomeTwiceBefore
  <2>1. q \notin evResolved /\ (q # r \/ q = 0)
    BY <1>1
  <2>2. evPending[t] = q \/ EvTaking(q) \/ SomeTwiceBefore(q)
    BY <2>1 DEF EvInv, WaitedRequestIsPending, SomeTwiceBefore
  <2>3. t \in EvStateNos
    BY DEF EvInv, EvTypeOK, StatesInUse, EvStateNos
  <2> QED
    BY <1>3, <2>1, <2>2, <2>3
<1> QED
  BY <1>8, <1>9, <1>10, <1>11, <1>12, <1>13, <1>14 DEF EvInv

\* Every step keeps the requests as they are to be.
LEMMA EvKept == EvInv /\ [EvNext]_evVars => EvInv'
<1> SUFFICES ASSUME EvInv, [EvNext]_evVars PROVE EvInv'
  OBVIOUS
<1>1. CASE \E kind \in {"user", "managed"} : EvTurnStarts(kind)
  BY <1>1, TurnSteps
<1>2. CASE EvTurnStep
  BY <1>2, TurnSteps, RequestSteps DEF EvTurnStep
<1>3. CASE AgentDies \/ StopCloses
  BY <1>3, TurnSteps
<1>4. CASE StopTakes
  BY <1>4, StopTakesStep
<1>5. ASSUME NEW u \in Answerers, EvUserStep(u) PROVE EvInv'
  BY <1>5, LookUpStep, RespondStep, ForgetStep, ResolveStep DEF EvUserStep
<1>6. ASSUME NEW u \in Answerers, NEW word \in Answering \cup {"other"}, Says(u, word) PROVE EvInv'
  BY <1>6, SaysStep
<1>7. CASE UNCHANGED evVars
  <2>1. UNCHANGED <<evState, evMade, evStopped, evDead, evPending, evResolved, evOpen, evAsked, evAnswers,
                    evTurn, evUser, evTwice>>
    BY <1>7 DEF evVars, evStates, evAgent, evPermit
  <2>2. EvTypeOK' /\ StatesInUse' /\ OpenIsAsked'
    BY <2>1 DEF EvInv, EvTypeOK, StatesInUse, OpenIsAsked
  <2> QED
    BY <2>1, <2>2, TurnKeeps DEF WaitsFor, LeftBehind, EvInv, RequestsAreNew
<1> QED
  BY <1>1, <1>2, <1>3, <1>4, <1>5, <1>6, <1>7 DEF EvNext

\* At first there is no request.
LEMMA EvStarts == EvInit => EvInv
<1> SUFFICES ASSUME EvInit PROVE EvInv
  OBVIOUS
<1> USE EvNumbers DEF EvInit
<1>1. NoTurn.at = "idle" /\ NoTurn.state = 0 /\ NoTurn.req = 0 /\ NoAnswer.at = "idle" /\ NoAnswer.req = 0
  BY DEF NoTurn, NoAnswer
<1>2. NoTurn \in [kind : {"none", "user", "managed"}, state : 0 .. MaxStates, req : 0 .. MaxRequests,
                  at : {"idle", "select", "prompted", "waiting"}]
  BY DEF NoTurn
<1>3. NoAnswer \in [word : Answering \cup {"none", "other"}, state : 0 .. MaxStates,
                    req : 0 .. MaxRequests, at : EvLabels]
  BY DEF NoAnswer, EvLabels
<1>4. EvTypeOK
  BY <1>2, <1>3 DEF EvTypeOK
<1>5. StatesInUse /\ OpenIsAsked /\ WaitedRequestIsPending
  BY <1>1 DEF StatesInUse, OpenIsAsked, WaitedRequestIsPending
<1>6. RequestsAreNew
  BY <1>1 DEF RequestsAreNew, EvRequestNos
<1>7. PendingOnce
  BY DEF PendingOnce, EvRequestNos
<1>8. HeldOnce
  BY <1>1 DEF HeldOnce, Holds
<1>9. AnsweredOnce
  BY DEF AnsweredOnce
<1> QED
  BY <1>4, <1>5, <1>6, <1>7, <1>8, <1>9 DEF EvInv

\* The permission requests of a turn (handlePermissionRequest, handlePendingPermission,
\* cmdStop): a request that a turn waits for is in the state or about to be resolved, and
\* the agent is answered at most once, unless two took the request up.
THEOREM RequestsStayOpen == EvSpec => []PermissionsExact
<1>1. EvInv => PermissionsExact
  BY DEF EvInv, PermissionsExact, OneAnswerPerRequest, AnsweredOnce, OpenIsAsked
<1> QED
  BY <1>1, EvStarts, EvKept, PTL DEF EvSpec

-----------------------------------------------------------------------------
(* StreamPreview: the answer reaches the user, in the preview or by itself. *)

PvTypeOK ==
    /\ pvCleans \in BOOLEAN /\ pvHandle \in BOOLEAN /\ pvDegraded \in BOOLEAN
    /\ pvReplied \in BOOLEAN /\ pvLate \in BOOLEAN
    /\ pvText \in Nat /\ pvFaults \in Nat
    /\ pvAt \in {"turn", "reply", "done"}
    /\ pvEnd \in {"none", "result", "error", "exit", "stopped"}

\* What the message shows, while the turn runs and when it has ended; no callback is on its
\* way once a preview was finished in time.
MessageIsOurs ==
    /\ ~pvHandle => pvShown = Nothing
    /\ pvAt = "turn" /\ ~pvDegraded => pvShown = pvSent
    /\ pvAt = "turn" \/ pvAt = "reply" => ~pvReplied
    /\ pvAt = "reply" => pvEnd # "stopped"
    /\ pvAt # "turn" /\ pvEnd # "stopped" /\ ~pvLate => pvFired = {} /\ pvTicking = {}
    /\ pvAt = "reply" /\ pvCleans /\ pvFaults = 0 /\ ~pvLate => pvShown = Nothing
    /\ pvAt = "reply" /\ pvEnd \in {"result", "exit"} => pvFinal # Nothing

PvInv == PvTypeOK /\ MessageIsOurs /\ AnswerShown

\* A preview shows nothing only of a text without pieces.
LEMMA TextsShow ==
    /\ \A n : n # 0 => Streamed(n) # Nothing
    /\ \A n : Streamed(n).pieces = n
  BY DEF Streamed, Nothing

\* The failure of a call is counted.
LEMMA CallCounts ==
    ASSUME pvFaults \in Nat, NEW fails \in BOOLEAN, Call(fails)
    PROVE  pvFaults' \in Nat /\ pvFaults' >= pvFaults /\ (fails => pvFaults' > 0)
  BY DEF Call

\* An update of the message, by the turn or by a callback.
LEMMA Flushes ==
    ASSUME PvInv, NEW text, Flush(text)
    PROVE  /\ pvFaults' \in Nat /\ pvFaults' >= pvFaults
           /\ pvHandle' \in BOOLEAN /\ pvDegraded' \in BOOLEAN
           /\ ~pvHandle' => pvShown' = Nothing
           /\ (~pvDegraded => pvShown = pvSent) => (~pvDegraded' => pvShown' = pvSent')
<1>1. CASE text \in {pvSent, Nothing}
  BY <1>1 DEF Flush, pvMessage, PvInv, PvTypeOK, MessageIsOurs
<1>2. CASE text \notin {pvSent, Nothing}
  <2>1. PICK fails \in BOOLEAN :
         /\ Call(fails)
         /\ IF fails
            THEN pvDegraded' = TRUE /\ UNCHANGED <<pvSent, pvUpdated, pvHandle, pvShown>>
            ELSE /\ pvSent' = text /\ pvShown' = text
                 /\ pvHandle' = TRUE /\ pvUpdated' = pvHandle
                 /\ UNCHANGED pvDegraded
    BY <1>2 DEF Flush
  <2>2. pvFaults' \in Nat /\ pvFaults' >= pvFaults
    BY <2>1, CallCounts DEF PvInv, PvTypeOK
  <2>3. CASE fails
    BY <2>1, <2>2, <2>3 DEF PvInv, PvTypeOK, MessageIsOurs
  <2>4. CASE ~fails
    BY <2>1, <2>2, <2>4 DEF PvInv, PvTypeOK, MessageIsOurs
  <2> QED
    BY <2>3, <2>4
<1> QED
  BY <1>1, <1>2

\* A step of the turn that goes on, or of a callback.
LEMMA TurnGoesOn ==
    ASSUME PvInv,
           pvText' \in Nat, pvFaults' \in Nat, pvHandle' \in BOOLEAN, pvDegraded' \in BOOLEAN,
           UNCHANGED <<pvCleans, pvTurn>>,
           ~pvHandle' => pvShown' = Nothing,
           pvAt = "turn" /\ ~pvDegraded' => pvShown' = pvSent',
           pvAt = "turn" \/ pvEnd = "stopped" \/ pvLate
    PROVE  PvInv'
  BY DEF PvInv, PvTypeOK, MessageIsOurs, AnswerShown, Answered, pvTurn

\* The steps before the end, and a callback at any time.
LEMMA PreviewSteps ==
    ASSUME PvInv, PvAppend \/ PvTimerFires \/ PvCallback \/ PvPermission \/ PvTool
    PROVE  PvInv'
<1> USE DEF PvInv, PvTypeOK
<1>1. CASE PvAppend
  <2>1. pvAt = "turn" /\ pvText' \in Nat /\ UNCHANGED <<pvCleans, pvTurn>>
    BY <1>1 DEF PvAppend
  <2>2. CASE UNCHANGED <<pvMessage, pvFaults>>
    BY <2>1, <2>2, TurnGoesOn DEF MessageIsOurs, pvMessage
  <2>3. CASE Flush(Display(pvText'))
    <3>1. PICK text : text = Display(pvText')
      OBVIOUS
    <3>2. Flush(text)
      BY <2>3, <3>1
    <3> HIDE DEF PvInv, PvTypeOK
    <3>3. /\ pvFaults' \in Nat /\ pvHandle' \in BOOLEAN /\ pvDegraded' \in BOOLEAN
          /\ ~pvHandle' => pvShown' = Nothing
          /\ (~pvDegraded => pvShown = pvSent) => (~pvDegraded' => pvShown' = pvSent')
      BY <3>2, Flushes
    <3>4. ~pvDegraded => pvShown = pvSent
      BY <2>1 DEF PvInv, MessageIsOurs
    <3> QED
      BY <2>1, <3>3, <3>4, TurnGoesOn
  <2> QED
    BY <1>1, <2>2, <2>3 DEF PvAppend
<1>2. CASE PvTimerFires
  <2>1. UNCHANGED <<pvCleans, pvText, pvMessage, pvTurn, pvFaults>> /\ pvTicking # {}
    BY <1>2 DEF PvTimerFires
  <2>2. pvAt = "turn" \/ pvEnd = "stopped" \/ pvLate
    BY <2>1 DEF MessageIsOurs
  <2> QED
    BY <2>1, <2>2, TurnGoesOn DEF MessageIsOurs, pvMessage
<1>3. CASE PvCallback
  <2>1. UNCHANGED <<pvCleans, pvText, pvTurn>> /\ pvFired # {}
    BY <1>3 DEF PvCallback
  <2>2. pvAt = "turn" \/ pvEnd = "stopped" \/ pvLate
    BY <2>1 DEF MessageIsOurs
  <2>3. CASE UNCHANGED <<pvMessage, pvFaults>>
    BY <2>1, <2>2, <2>3, TurnGoesOn DEF MessageIsOurs, pvMessage
  <2>4. CASE Flush(Display(pvText))
    <3>1. PICK text : text = Display(pvText)
      OBVIOUS
    <3>2. Flush(text)
      BY <2>4, <3>1
    <3> HIDE DEF PvInv, PvTypeOK
    <3>3. /\ pvFaults' \in Nat /\ pvHandle' \in BOOLEAN /\ pvDegraded' \in BOOLEAN
          /\ ~pvHandle' => pvShown' = Nothing
          /\ (~pvDegraded => pvShown = pvSent) => (~pvDegraded' => pvShown' = pvSent')
      BY <3>2, Flushes
    <3>4. pvAt = "turn" /\ ~pvDegraded => pvShown = pvSent
      BY DEF PvInv, MessageIsOurs
    <3>5. pvText' \in Nat
      BY <2>1 DEF PvInv, PvTypeOK
    <3> QED
      BY <2>1, <2>2, <3>3, <3>4, <3>5, TurnGoesOn
  <2> QED
    BY <1>3, <2>3, <2>4 DEF PvCallback
<1>4. CASE PvPermission \/ PvTool
  <2>1. pvAt = "turn" /\ Freeze /\ UNCHANGED <<pvCleans, pvText, pvTurn>>
    BY <1>4 DEF PvPermission, PvTool
  <2>2. /\ pvDegraded' = TRUE /\ pvHandle' = pvHandle /\ pvFaults' \in Nat
        /\ pvHandle \/ pvShown' = pvShown
    <3>1. CASE pvHandle /\ ~pvDegraded /\ pvText > 0
      <4>1. PICK fails \in BOOLEAN : Call(fails)
        BY <2>1, <3>1 DEF Freeze
      <4>2. pvFaults' \in Nat
        BY <4>1, CallCounts
      <4> QED
        BY <2>1, <3>1, <4>2 DEF Freeze
    <3>2. CASE ~(pvHandle /\ ~pvDegraded /\ pvText > 0)
      BY <2>1, <3>2 DEF Freeze
    <3> QED
      BY <3>1, <3>2
  <2>3. ~pvHandle' => pvShown' = Nothing
    BY <2>2 DEF MessageIsOurs
  <2> QED
    BY <2>1, <2>2, <2>3, TurnGoesOn
<1> QED
  BY <1>1, <1>2, <1>3, <1>4

\* The turn ends with a text, or with none.
LEMMA PreviewEnds ==
    ASSUME PvInv, NEW end \in {"result", "error", "exit"}, NEW text, PvEnds(end, text),
           end # "error" => text # Nothing
    PROVE  PvInv'
<1>1. /\ pvAt = "turn" /\ pvEnd' = end /\ pvFinal' = text
      /\ PvFinish(text)
      /\ pvTicking' = pvTicking \ {pvTimer} /\ UNCHANGED pvFired
      /\ pvLate' = (pvFired # {} \/ pvTicking \ {pvTimer} # {})
      /\ UNCHANGED <<pvCleans, pvText, pvHandle, pvDegraded, pvReplied>>
  BY DEF PvEnds, FinishCancels, CancelTimer
<1>2. /\ pvLate' \in BOOLEAN /\ (~pvLate' => pvFired' = {} /\ pvTicking' = {})
      /\ ~pvReplied /\ ~pvReplied'
  BY <1>1 DEF PvInv, PvTypeOK, MessageIsOurs
<1>3. /\ pvFaults' \in Nat /\ pvAt' \in {"reply", "done"}
      /\ ~pvHandle => pvShown' = Nothing
      /\ pvAt' = "reply" /\ pvCleans /\ pvFaults' = 0 => pvShown' = Nothing
      /\ pvAt' = "done" => pvShown' = text \/ pvFaults' > 0
  <2>1. CASE ~pvHandle \/ pvDegraded \/ pvCleans \/ text = Nothing
    <3>1. Clean /\ pvAt' = "reply"
      BY <1>1, <2>1 DEF PvFinish
    <3>2. CASE pvCleans /\ pvHandle
      <4>1. PICK fails \in BOOLEAN : Call(fails) /\ pvShown' = IF fails THEN pvShown ELSE Nothing
        BY <3>1, <3>2 DEF Clean
      <4>2. pvFaults' \in Nat /\ (fails => pvFaults' > 0)
        BY <4>1, CallCounts DEF PvInv, PvTypeOK
      <4> QED
        BY <3>1, <3>2, <4>1, <4>2
    <3>3. CASE ~(pvCleans /\ pvHandle)
      BY <3>1, <3>3 DEF Clean, PvInv, PvTypeOK, MessageIsOurs
    <3> QED
      BY <3>2, <3>3
  <2>2. CASE ~(~pvHandle \/ pvDegraded \/ pvCleans \/ text = Nothing) /\ text = pvSent /\ pvUpdated
    BY <1>1, <2>2 DEF PvFinish, PvInv, PvTypeOK, MessageIsOurs
  <2>3. CASE ~(~pvHandle \/ pvDegraded \/ pvCleans \/ text = Nothing) /\ ~(text = pvSent /\ pvUpdated)
    <3>1. PICK fails \in BOOLEAN :
            /\ Call(fails)
            /\ pvShown' = (IF fails THEN pvShown ELSE text)
            /\ pvAt' = (IF fails THEN "reply" ELSE "done")
      BY <1>1, <2>3 DEF PvFinish
    <3>2. pvFaults' \in Nat /\ (fails => pvFaults' > 0)
      BY <3>1, CallCounts DEF PvInv, PvTypeOK
    <3> QED
      BY <2>3, <3>1, <3>2
  <2> QED
    BY <2>1, <2>2, <2>3
<1>4. PvTypeOK'
  BY <1>1, <1>2, <1>3 DEF PvInv, PvTypeOK
<1>5. MessageIsOurs'
  BY <1>1, <1>2, <1>3 DEF PvInv, PvTypeOK, MessageIsOurs
<1>6. AnswerShown'
  BY <1>1, <1>2, <1>3 DEF AnswerShown, Answered
<1> QED
  BY <1>4, <1>5, <1>6 DEF PvInv

\* Every step keeps it so.
LEMMA PvKept == PvInv /\ [PvNext]_pvVars => PvInv'
<1> SUFFICES ASSUME PvInv, [PvNext]_pvVars PROVE PvInv'
  OBVIOUS
<1>1. CASE PvAppend \/ PvTimerFires \/ PvCallback \/ PvPermission \/ PvTool
  BY <1>1, PreviewSteps
<1>2. CASE PvResult
  <2>1. PICK text \in {Streamed(pvText), Rewritten} \ {Nothing} : PvEnds("result", text)
    BY <1>2 DEF PvResult
  <2>2. text # Nothing /\ "result" \in {"result", "error", "exit"}
    BY <2>1
  <2> QED
    BY <2>1, <2>2, PreviewEnds
<1>3. CASE PvError
  BY <1>3, PreviewEnds DEF PvError
<1>4. CASE PvExit
  <2>1. PvEnds("exit", Streamed(pvText)) /\ Streamed(pvText) # Nothing
    BY <1>4, TextsShow DEF PvExit, PvInv, PvTypeOK
  <2> QED
    BY <2>1, PreviewEnds
<1>5. CASE PvStopped
  BY <1>5 DEF PvStopped, PvInv, PvTypeOK, MessageIsOurs, AnswerShown, Answered, pvMessage
<1>6. CASE PvReply
  <2>1. /\ pvAt = "reply" /\ pvAt' = "done"
        /\ UNCHANGED <<pvCleans, pvText, pvSent, pvHandle, pvShown, pvDegraded, pvTicking, pvFired, pvEnd, pvFinal, pvLate>>
    BY <1>6 DEF PvReply, pvMessage, pvClock
  <2>2. /\ pvReplied' \in BOOLEAN /\ pvFaults' \in Nat /\ pvFaults' >= pvFaults
        /\ pvFinal # Nothing => pvReplied' \/ pvFaults' > 0
    <3>1. CASE pvFinal = Nothing
      BY <1>6, <3>1 DEF PvReply, PvInv, PvTypeOK
    <3>2. CASE pvFinal # Nothing
      <4>1. PICK fails \in BOOLEAN : Call(fails) /\ pvReplied' = ~fails
        BY <1>6, <3>2 DEF PvReply
      <4> QED
        BY <4>1, CallCounts DEF PvInv, PvTypeOK
    <3> QED
      BY <3>1, <3>2
  <2>3. PvTypeOK' /\ MessageIsOurs'
    BY <2>1, <2>2 DEF PvInv, PvTypeOK, MessageIsOurs
  <2>4. AnswerShown'
    <3>1. pvFaults' = 0 => pvFaults = 0
      BY <2>2 DEF PvInv, PvTypeOK
    <3> QED
      BY <2>1, <2>2, <3>1 DEF PvInv, PvTypeOK, MessageIsOurs, AnswerShown, Answered
  <2> QED
    BY <2>3, <2>4 DEF PvInv
<1>7. CASE UNCHANGED pvVars
  BY <1>7 DEF pvVars, pvMessage, pvClock, pvTurn, PvInv, PvTypeOK, MessageIsOurs, AnswerShown, Answered
<1> QED
  BY <1>1, <1>2, <1>3, <1>4, <1>5, <1>6, <1>7 DEF PvNext

\* The end of a preview (finish, freeze, the callback of its timer): the message became the
\* answer or the answer was sent by itself, and then no piece of it is left, but for failed
\* calls of the platform and for callbacks that were on their way.
THEOREM AnswersAreShown == PvSpec => []AnswerShown
<1>1. PvInit => PvInv
  <2> SUFFICES ASSUME PvInit PROVE PvInv
    OBVIOUS
  <2>1. PvTypeOK
    BY DEF PvInit, PvTypeOK
  <2>2. MessageIsOurs /\ AnswerShown
    BY DEF PvInit, MessageIsOurs, AnswerShown, Answered
  <2> QED
    BY <2>1, <2>2 DEF PvInv
<1>2. PvInv => AnswerShown
  BY DEF PvInv
<1> QED
  BY <1>1, <1>2, PvKept, PTL DEF PvSpec

-----------------------------------------------------------------------------
(* SessionStore: a reset is not undone by a turn, and the file keeps up with it. *)

SsLabels == {"idle", "begin", "state", "send", "loop", "reset", "end", "clear", "save", "new", "switch"}
InTurn(w) == SsAt(w) \in {"begin", "state", "send", "loop", "reset", "end"}
\* The turn has its session for itself.
TurnHeld(w) == InTurn(w) /\ SsAt(w) # "begin"

SsTypeOK ==
    /\ ssBegun \in 0 .. MaxTranscripts /\ ssCounter \in 0 .. MaxSessions
    /\ ssSessions \subseteq 1 .. ssCounter /\ ssActive \in ssSessions \cup {0}
    /\ ssActive = 0 => ssSessions = {}
    /\ ssAgent \in [SsIds -> 0 .. ssBegun] /\ ssState \in 0 .. ssBegun
    /\ ssBorn \in [1 .. MaxTranscripts -> (0 .. MaxSessions) \X Nat]
    /\ ssResets \in [SsIds -> Nat]
    /\ ssTransition \in SUBSET SsWorkers /\ ssOverlap \in BOOLEAN
    /\ ssWork \in [SsWorkers -> [at : SsLabels, session : 0 .. MaxSessions, transcript : 0 .. ssBegun]]
    /\ ssCounts \in [command : Nat, turn : Nat, restart : Nat]
    /\ \A w \in SsWorkers : InTurn(w) => ssWork[w].session \in SsIds

\* The file, and what Saves are about to write: sessions that were created, with transcripts
\* that were begun.
FileOK(f, c, b) ==
    /\ f \in [sessions : SUBSET SsIds, counter : 0 .. MaxSessions, active : 0 .. MaxSessions,
              agent : [SsIds -> 0 .. b]]
    /\ f.sessions \subseteq 1 .. f.counter /\ f.active \in f.sessions \cup {0} /\ f.counter <= c
    /\ f.active = 0 => f.sessions = {}
    /\ \A s \in SsIds : s \notin f.sessions => f.agent[s] = 0
FilesOK ==
    /\ ssSaving = [w \in SsWorkers |-> ssSaving[w]]
    /\ \A f, c, b : c = ssCounter /\ b = ssBegun /\ (f = ssDisk \/ \E w \in Saving : f = ssSaving[w]) =>
         FileOK(f, c, b)

\* Somebody has changed the memory and not begun to save it; a file that needs no change.
Unsaved == \E w \in SsWorkers : SsAt(w) \in {"reset", "save"}
UpToDate(f) ==
    \/ f = Snapshot
    \/ f.sessions = {} /\ ssSessions = {ssActive} /\ ssAgent[ssActive] = 0
FileFollows ==
    ~ssOverlap =>
        /\ \A v, w \in Saving : v = w
        /\ ~Unsaved /\ Saving = {} => \A f : f = ssDisk => UpToDate(f)
        /\ ~Unsaved => \A w \in Saving : \A f : f = ssSaving[w] => UpToDate(f)

\* Transcript t was begun for session s after its last reset, or s is an excepted one.
Entitled(s, t) == s \in ssUnderWay \/ ssBorn[t] = <<s, ssResets[s]>>

\* While the process is not restarted a session has one turn; a turn is for the active session
\* until its prompt is sent, or both sessions are excepted ...
TurnsApart ==
    /\ \A w \in SsWorkers : TurnHeld(w) => ssWork[w].session \in ssBusy
    /\ \A v, w \in SsWorkers : TurnHeld(v) /\ TurnHeld(w) /\ ssWork[v].session = ssWork[w].session => v = w
    /\ \A w \in SsWorkers : SsAt(w) \in {"begin", "state", "send"} =>
         \/ ssWork[w].session = ssActive
         \/ ssActive # 0 /\ ssActive \in ssUnderWay /\ ssWork[w].session \in ssUnderWay

\* ... and turns, the process and the sessions have transcripts that they are entitled to;
\* the sessions that are busy while one is reset are excepted.
TurnsEntitled ==
    /\ \A w \in SsWorkers : \A s, t : SsAt(w) \in {"send", "loop"} /\ ssWork[w].session = s /\ ssWork[w].transcript = t =>
         t # 0 /\ Entitled(s, t)
    /\ \A s, t : ssActive = s /\ ssState = t /\ t # 0 => s # 0 /\ Entitled(s, t)
    /\ \A s \in ssSessions : \A t : ssAgent[s] = t /\ t # 0 => Entitled(s, t)
    /\ \A w \in SsWorkers : SsAt(w) = "clear" =>
         ssBusy \subseteq ssUnderWay /\ (ssState = 0 \/ ssActive \in ssUnderWay)

TurnsInOrder == TurnsApart /\ TurnsEntitled

SsInv ==
    /\ SsTypeOK /\ FilesOK /\ FileFollows
    /\ ssCounts.restart = 0 => TurnsInOrder

\* The bounds are numbers.
LEMMA SsNumbers ==
    MaxSessions \in Nat /\ MaxTranscripts \in Nat /\ SsIds \subseteq Nat /\ SsIds \subseteq 0 .. MaxSessions
  BY SessionStoreAssumption DEF SsIds

\* A worker goes to another label, or to another work: the record it has then.
LEMMA WorkMoves ==
    ASSUME SsTypeOK, NEW w \in SsWorkers, NEW new, ssWork' = [ssWork EXCEPT ![w] = new]
    PROVE  ssWork'[w] = new /\ \A v \in SsWorkers : v # w => ssWork'[v] = ssWork[v]
  BY DEF SsTypeOK

\* A worker goes to another label of the same work.
LEMMA LabelMoves ==
    ASSUME SsTypeOK, NEW w \in SsWorkers, NEW label \in SsLabels, SsTo(w, label)
    PROVE  /\ ssWork' \in [SsWorkers -> [at : SsLabels, session : 0 .. MaxSessions, transcript : 0 .. ssBegun]]
           /\ SsAt(w)' = label /\ ssWork'[w].session = ssWork[w].session
           /\ ssWork'[w].transcript = ssWork[w].transcript
           /\ \A v \in SsWorkers : v # w => ssWork'[v] = ssWork[v]
<1> PICK new : new = [ssWork[w] EXCEPT !.at = label]
  OBVIOUS
<1>1. ssWork' = [ssWork EXCEPT ![w] = new]
  BY DEF SsTo
<1>2. ssWork[w] \in [at : SsLabels, session : 0 .. MaxSessions, transcript : 0 .. ssBegun]
  BY DEF SsTypeOK
<1>3. /\ new \in [at : SsLabels, session : 0 .. MaxSessions, transcript : 0 .. ssBegun]
      /\ new.at = label /\ new.session = ssWork[w].session /\ new.transcript = ssWork[w].transcript
  BY <1>2
<1>4. ssWork'[w] = new /\ \A v \in SsWorkers : v # w => ssWork'[v] = ssWork[v]
  BY <1>1, WorkMoves
<1>5. ssWork' \in [SsWorkers -> [at : SsLabels, session : 0 .. MaxSessions, transcript : 0 .. ssBegun]]
  BY <1>1, <1>3 DEF SsTypeOK
<1> QED
  BY <1>3, <1>4, <1>5 DEF SsAt

\* A worker is idle again.
LEMMA IdleMoves ==
    ASSUME SsTypeOK, NEW w \in SsWorkers, ssWork' = [ssWork EXCEPT ![w] = SsIdle]
    PROVE  /\ ssWork' \in [SsWorkers -> [at : SsLabels, session : 0 .. MaxSessions, transcript : 0 .. ssBegun]]
           /\ SsAt(w)' = "idle"
           /\ \A v \in SsWorkers : v # w => ssWork'[v] = ssWork[v]
<1> PICK new : new = SsIdle
  OBVIOUS
<1>1. new \in [at : SsLabels, session : 0 .. MaxSessions, transcript : 0 .. ssBegun] /\ new.at = "idle"
  BY SsNumbers DEF SsIdle, SsLabels, SsTypeOK
<1>2. ssWork'[w] = new /\ \A v \in SsWorkers : v # w => ssWork'[v] = ssWork[v]
  BY WorkMoves
<1>3. ssWork' \in [SsWorkers -> [at : SsLabels, session : 0 .. MaxSessions, transcript : 0 .. ssBegun]]
  BY <1>1 DEF SsTypeOK
<1> QED
  BY <1>1, <1>2, <1>3 DEF SsAt

\* A command or a turn is counted, a restart only by the restart.
LEMMA CountKept ==
    ASSUME SsTypeOK, NEW kind \in {"turn", "command"}, NEW bound, SsCount(kind, bound)
    PROVE  ssCounts' \in [command : Nat, turn : Nat, restart : Nat] /\ ssCounts'.restart = ssCounts.restart
<1>1. ssCounts \in [command : Nat, turn : Nat, restart : Nat] /\ ssCounts' = [ssCounts EXCEPT ![kind] = @ + 1]
  BY DEF SsCount, SsTypeOK
<1>2. CASE kind = "turn"
  BY <1>1, <1>2
<1>3. CASE kind = "command"
  BY <1>1, <1>3
<1> QED
  BY <1>2, <1>3

\* A session is created.
LEMMA Creates ==
    ASSUME SsTypeOK, Create
    PROVE  /\ ssCounter' \in SsIds /\ ssCounter' = ssCounter + 1 /\ ssCounter' \notin ssSessions
           /\ ssCounter' \in 0 .. MaxSessions
           /\ ssSessions' = ssSessions \cup {ssCounter'} /\ ssSessions' \subseteq 1 .. ssCounter'
           /\ ssActive' = ssCounter' /\ ssActive' # 0
           /\ ssAgent' \in [SsIds -> 0 .. ssBegun] /\ ssAgent'[ssCounter'] = 0
           /\ \A s \in SsIds : s # ssCounter' => ssAgent'[s] = ssAgent[s]
<1> USE SsNumbers
<1>1. /\ ssCounter' = ssCounter + 1 /\ ssCounter < MaxSessions
      /\ ssSessions' = ssSessions \cup {ssCounter'} /\ ssActive' = ssCounter'
      /\ ssAgent' = [ssAgent EXCEPT ![ssCounter'] = 0]
  BY DEF Create
<1>2. ssCounter \in 0 .. MaxSessions /\ ssSessions \subseteq 1 .. ssCounter /\ ssBegun \in Nat
  BY DEF SsTypeOK
<1>3. ssCounter' \in SsIds /\ ssCounter' \notin ssSessions
  BY <1>1, <1>2 DEF SsIds
<1>4. ssSessions' \subseteq 1 .. ssCounter'
  BY <1>1, <1>2
<1> QED
  BY <1>1, <1>2, <1>3, <1>4 DEF SsTypeOK

\* What was in order with fewer sessions and transcripts is in order with more.
LEMMA FileGrows ==
    ASSUME NEW f, NEW b \in Nat, NEW c \in Nat, NEW b2 \in Nat, NEW c2 \in Nat, FileOK(f, c, b), c <= c2, b <= b2
    PROVE  FileOK(f, c2, b2)
<1>1. f \in [sessions : SUBSET SsIds, counter : 0 .. MaxSessions, active : 0 .. MaxSessions, agent : [SsIds -> 0 .. b2]]
  BY DEF FileOK
<1>2. f.counter <= c2
  BY SsNumbers DEF FileOK
<1> QED
  BY <1>1, <1>2 DEF FileOK

\* The snapshot of a memory in order is in order, and up to date.
SnapshotFits == \A f : f = Snapshot => FileOK(f, ssCounter, ssBegun) /\ UpToDate(f) /\ f # NoSave

LEMMA SnapshotOK == SsTypeOK => SnapshotFits
<1> SUFFICES ASSUME SsTypeOK, NEW f, f = Snapshot
             PROVE  FileOK(f, ssCounter, ssBegun) /\ UpToDate(f) /\ f # NoSave
  BY DEF SnapshotFits
<1> USE SsNumbers
<1>1. f.sessions = ssSessions /\ f.counter = ssCounter /\ f.active = ssActive
      /\ f.agent = [s \in SsIds |-> IF s \in ssSessions THEN ssAgent[s] ELSE 0]
  BY DEF Snapshot
<1>2. ssSessions \subseteq SsIds /\ ssBegun \in Nat /\ ssCounter \in 0 .. MaxSessions
  BY DEF SsTypeOK, SsIds
<1>3. [s \in SsIds |-> IF s \in ssSessions THEN ssAgent[s] ELSE 0] \in [SsIds -> 0 .. ssBegun]
  BY <1>2 DEF SsTypeOK
<1>4. ssActive \in 0 .. MaxSessions
  BY <1>2 DEF SsTypeOK
<1>5. f \in [sessions : SUBSET SsIds, counter : 0 .. MaxSessions, active : 0 .. MaxSessions, agent : [SsIds -> 0 .. ssBegun]]
  BY <1>2, <1>3, <1>4 DEF Snapshot
<1>6. FileOK(f, ssCounter, ssBegun)
  <2>1. \A s \in SsIds : s \notin f.sessions => f.agent[s] = 0
    BY <1>1
  <2> QED
    BY <1>1, <1>2, <1>5, <2>1 DEF FileOK, SsTypeOK
<1>7. UpToDate(f)
  BY DEF UpToDate
<1>8. f # NoSave
  <2>1. NoSave.counter = -1
    BY DEF NoSave
  <2> QED
    BY <1>1, <1>2, <2>1
<1> QED
  BY <1>6, <1>7, <1>8

\* A step that writes no file: what was saved still is, unless there is something to save or
\* the first session is created.
LEMMA FileLeft ==
    ASSUME SsTypeOK, SsTypeOK', FilesOK, FileFollows, UNCHANGED ssFile,
           ssCounter <= ssCounter', ssBegun <= ssBegun',
           ~Unsaved' => ~Unsaved /\ (UNCHANGED ssMemory \/ (ssActive = 0 /\ Create))
    PROVE  FilesOK' /\ FileFollows'
<1>1. ssDisk' = ssDisk /\ ssSaving' = ssSaving /\ ssOverlap' = ssOverlap /\ Saving' = Saving
  BY DEF ssFile, Saving
<1>2. ssCounter \in Nat /\ ssCounter' \in Nat /\ ssBegun \in Nat /\ ssBegun' \in Nat
  BY DEF SsTypeOK
<1>3. \A f : f = ssDisk \/ (\E w \in Saving : f = ssSaving[w]) =>
        FileOK(f, ssCounter, ssBegun) /\ FileOK(f, ssCounter', ssBegun')
  BY <1>2, FileGrows DEF FilesOK
<1>4. FilesOK'
  BY <1>1, <1>3 DEF FilesOK
<1>5. ASSUME ~Unsaved', NEW f, UpToDate(f)
      PROVE  UpToDate(f)'
  <2>1. CASE UNCHANGED ssMemory
    BY <1>5, <2>1 DEF UpToDate, Snapshot, ssMemory
  <2>2. CASE ssActive = 0 /\ Create
    <3>1. ssSessions = {} /\ ssSessions' = {ssActive'} /\ ssAgent'[ssActive'] = 0
      BY <2>2, Creates DEF SsTypeOK
    <3>2. f.sessions = {}
      BY <1>5, <3>1 DEF UpToDate, Snapshot
    <3> QED
      BY <3>1, <3>2 DEF UpToDate
  <2> QED
    BY <1>5, <2>1, <2>2
<1>6. FileFollows'
  BY <1>1, <1>5 DEF FileFollows
<1> QED
  BY <1>4, <1>6

\* A Save begins, with what the memory is after the step.
LEMMA FileSaving ==
    ASSUME SsTypeOK, SsTypeOK', FilesOK, FileFollows, NEW w \in SsWorkers, SaveBegins(w), UNCHANGED ssDisk,
           ssCounter <= ssCounter', ssBegun <= ssBegun'
    PROVE  FilesOK' /\ FileFollows'
<1> PICK snap : snap = Snapshot'
  OBVIOUS
<1>1. /\ ssSaving' = [ssSaving EXCEPT ![w] = snap] /\ ssDisk' = ssDisk
      /\ ssOverlap' = (Saving # {} \/ ssOverlap)
  BY DEF SaveBegins
<1>2. ssSaving = [v \in SsWorkers |-> ssSaving[v]]
  BY DEF FilesOK
<1>3. ssSaving'[w] = snap /\ (\A v \in SsWorkers : v # w => ssSaving'[v] = ssSaving[v])
      /\ ssSaving' = [v \in SsWorkers |-> ssSaving'[v]]
  BY <1>1, <1>2
<1>0. SnapshotFits'
  BY SnapshotOK, PTL
<1>4. FileOK(snap, ssCounter', ssBegun') /\ UpToDate(snap)' /\ snap # NoSave
  BY <1>0 DEF SnapshotFits
<1>5. Saving' = Saving \cup {w}
  BY <1>3, <1>4 DEF Saving
<1>6. ssCounter \in Nat /\ ssCounter' \in Nat /\ ssBegun \in Nat /\ ssBegun' \in Nat
  BY DEF SsTypeOK
<1>7. \A f : f = ssDisk \/ (\E v \in Saving : f = ssSaving[v]) => FileOK(f, ssCounter', ssBegun')
  BY <1>6, FileGrows DEF FilesOK
<1>8. FilesOK'
  <2> SUFFICES ASSUME NEW f, f = ssDisk \/ \E v \in Saving' : f = ssSaving'[v]
               PROVE  FileOK(f, ssCounter', ssBegun')
    BY <1>1, <1>3 DEF FilesOK
  <2>1. Saving \subseteq SsWorkers
    BY DEF Saving
  <2>2. f = snap \/ f = ssDisk \/ \E v \in Saving : f = ssSaving[v]
    BY <1>3, <1>5, <2>1
  <2> QED
    BY <1>4, <1>7, <2>2
<1>9. FileFollows'
  <2>1. ~ssOverlap' => Saving = {} /\ Saving' = {w}
    BY <1>1, <1>5
  <2> QED
    BY <1>3, <1>4, <2>1 DEF FileFollows
<1> QED
  BY <1>8, <1>9

\* A command writes the file.
LEMMA FileWritten ==
    ASSUME SsTypeOK', Locked, WriteFile, FilesOK
    PROVE  FilesOK' /\ FileFollows'
<1> PICK snap : snap = Snapshot'
  OBVIOUS
<1>1. ssDisk' = snap /\ ssOverlap' = FALSE /\ ssSaving' = ssSaving /\ Saving' = {}
  BY DEF WriteFile, Locked, Saving
<1>0. SnapshotFits'
  BY SnapshotOK, PTL
<1>2. FileOK(snap, ssCounter', ssBegun') /\ UpToDate(snap)'
  BY <1>0 DEF SnapshotFits
<1>3. ssSaving = [v \in SsWorkers |-> ssSaving[v]]
  BY DEF FilesOK
<1> QED
  BY <1>1, <1>2, <1>3 DEF FilesOK, FileFollows

\* A Save ends.
LEMMA FileSaved ==
    ASSUME SsInv, NEW w \in SsWorkers, SaveEnds(w)
    PROVE  SsInv'
<1>1. /\ w \in Saving /\ ssDisk' = ssSaving[w] /\ ssSaving' = [ssSaving EXCEPT ![w] = NoSave]
      /\ UNCHANGED <<ssMemory, ssReplay, ssBusy, ssState, ssHistory, ssOverlap, ssWork, ssTransition, ssCounts, ssUnderWay>>
  BY DEF SaveEnds
<1>2. ssSaving = [v \in SsWorkers |-> ssSaving[v]]
  BY DEF SsInv, FilesOK
<1>3. ssSaving'[w] = NoSave /\ (\A v \in SsWorkers : v # w => ssSaving'[v] = ssSaving[v])
      /\ ssSaving' = [v \in SsWorkers |-> ssSaving'[v]]
  BY <1>1, <1>2
<1>4. Saving' = Saving \ {w}
  BY <1>3 DEF Saving
<1>5. SsTypeOK'
  BY <1>1 DEF SsInv, SsTypeOK, InTurn, SsAt, ssMemory, ssHistory
<1>6. FilesOK'
  <2>1. \A f : f = ssDisk' \/ (\E v \in Saving' : f = ssSaving'[v]) => \E v \in Saving : f = ssSaving[v]
    BY <1>1, <1>3, <1>4 DEF Saving
  <2> QED
    BY <1>1, <1>3, <2>1 DEF SsInv, FilesOK, ssMemory, ssHistory
<1>7. FileFollows'
  <2>1. \A f : UpToDate(f)' <=> UpToDate(f)
    BY <1>1 DEF UpToDate, Snapshot, ssMemory
  <2>2. Unsaved' <=> Unsaved
    BY <1>1 DEF Unsaved, SsAt
  <2>3. CASE ssOverlap
    BY <1>1, <2>3 DEF FileFollows
  <2>4. CASE ~ssOverlap
    <3>1. Saving = {w} /\ Saving' = {}
      BY <1>1, <1>4, <2>4 DEF SsInv, FileFollows
    <3>2. ~Unsaved => \A f : f = ssSaving[w] => UpToDate(f)
      BY <2>4, <3>1 DEF SsInv, FileFollows
    <3> QED
      BY <1>1, <2>1, <2>2, <3>1, <3>2 DEF FileFollows
  <2> QED
    BY <2>3, <2>4
<1>8. TurnsInOrder => TurnsInOrder'
  <2>1. \A s, t : Entitled(s, t)' <=> Entitled(s, t)
    BY <1>1 DEF Entitled, ssHistory
  <2>2. TurnsApart => TurnsApart'
    BY <1>1 DEF TurnsApart, TurnHeld, InTurn, SsAt, ssMemory
  <2>3. TurnsEntitled => TurnsEntitled'
    BY <1>1, <2>1 DEF TurnsEntitled, SsAt, ssMemory
  <2> QED
    BY <2>2, <2>3 DEF TurnsInOrder
<1> QED
  BY <1>1, <1>5, <1>6, <1>7, <1>8 DEF SsInv

\* One worker moves, and its turn, if it is in one, is the turn it was in.
LEMMA TurnsStayApart ==
    ASSUME TurnsApart, NEW w \in SsWorkers,
           \A v \in SsWorkers : v # w => ssWork'[v] = ssWork[v],
           InTurn(w)' => InTurn(w) /\ ssWork'[w].session = ssWork[w].session, TurnHeld(w)' => TurnHeld(w),
           SsAt(w)' \in {"begin", "state", "send"} => SsAt(w) \in {"begin", "state", "send"},
           \A v \in SsWorkers : SsAt(v) \in {"begin", "state", "send"} => ssActive' = ssActive,
           ssUnderWay \subseteq ssUnderWay',
           ssBusy' = ssBusy \/ (ssBusy' = ssBusy \ {ssWork[w].session} /\ TurnHeld(w) /\ ~TurnHeld(w)')
    PROVE  TurnsApart'
<1>1. \A v \in SsWorkers : v # w => (InTurn(v)' <=> InTurn(v)) /\ (TurnHeld(v)' <=> TurnHeld(v)) /\ SsAt(v)' = SsAt(v)
  BY DEF TurnHeld, InTurn, SsAt
<1>2. \A v \in SsWorkers : InTurn(v)' => InTurn(v) /\ ssWork'[v].session = ssWork[v].session
  BY <1>1
<1>0. \A v \in SsWorkers : TurnHeld(v)' => TurnHeld(v) /\ ssWork'[v].session = ssWork[v].session
  BY <1>1, <1>2 DEF TurnHeld
<1>3. \A v \in SsWorkers : SsAt(v)' \in {"begin", "state", "send"} =>
        SsAt(v) \in {"begin", "state", "send"} /\ InTurn(v)' /\ ssActive' = ssActive
  BY <1>1 DEF InTurn, SsAt
<1>4. \A v \in SsWorkers : TurnHeld(v)' => ssWork'[v].session \in ssBusy'
  BY <1>0 DEF TurnsApart
<1>5. \A v, x \in SsWorkers : TurnHeld(v)' /\ TurnHeld(x)' /\ ssWork'[v].session = ssWork'[x].session => v = x
  BY <1>0 DEF TurnsApart
<1>6. \A v \in SsWorkers : SsAt(v)' \in {"begin", "state", "send"} =>
         \/ ssWork'[v].session = ssActive'
         \/ ssActive' # 0 /\ ssActive' \in ssUnderWay' /\ ssWork'[v].session \in ssUnderWay'
  BY <1>2, <1>3 DEF TurnsApart
<1> QED
  BY <1>4, <1>5, <1>6 DEF TurnsApart

\* One worker moves, and no session takes up a transcript that it is not entitled to.
LEMMA TurnsStayEntitled ==
    ASSUME TurnsEntitled, NEW w \in SsWorkers,
           \A v \in SsWorkers : v # w => ssWork'[v] = ssWork[v],
           \A s, t : Entitled(s, t) => Entitled(s, t)',
           SsAt(w)' \in {"send", "loop"} => /\ SsAt(w) \in {"send", "loop"}
                                            /\ ssWork'[w].session = ssWork[w].session
                                            /\ ssWork'[w].transcript = ssWork[w].transcript,
           ssState' = 0 \/ (ssState' = ssState /\ ssActive' = ssActive),
           \A s \in ssSessions' : \A t : ssAgent'[s] = t /\ t # 0 =>
             (s \in ssSessions /\ ssAgent[s] = t) \/ Entitled(s, t),
           ssUnderWay \subseteq ssUnderWay', ssBusy' \subseteq ssBusy,
           SsAt(w)' = "clear" => SsAt(w) = "clear" \/ (ssBusy' \subseteq ssUnderWay' /\ ssState' = 0)
    PROVE  TurnsEntitled'
<1>1. \A v \in SsWorkers : v # w => SsAt(v)' = SsAt(v)
  BY DEF SsAt
<1>2. \A v \in SsWorkers : \A s, t : SsAt(v)' \in {"send", "loop"} /\ ssWork'[v].session = s /\ ssWork'[v].transcript = t =>
        t # 0 /\ Entitled(s, t)'
  BY <1>1 DEF TurnsEntitled
<1>3. \A s, t : ssActive' = s /\ ssState' = t /\ t # 0 => s # 0 /\ Entitled(s, t)'
  BY DEF TurnsEntitled
<1>4. \A s \in ssSessions' : \A t : ssAgent'[s] = t /\ t # 0 => Entitled(s, t)'
  BY DEF TurnsEntitled
<1>5. \A v \in SsWorkers : SsAt(v)' = "clear" =>
        ssBusy' \subseteq ssUnderWay' /\ (ssState' = 0 \/ ssActive' \in ssUnderWay')
  <2> TAKE v \in SsWorkers
  <2> HAVE SsAt(v)' = "clear"
  <2>1. CASE SsAt(v) = "clear"
    BY <2>1 DEF TurnsEntitled
  <2>2. CASE SsAt(v) # "clear"
    BY <1>1, <2>2
  <2> QED
    BY <2>1, <2>2
<1> QED
  BY <1>2, <1>3, <1>4, <1>5 DEF TurnsEntitled

\* One worker moves, and sessions are neither created nor deleted.
LEMMA TypesStay ==
    ASSUME SsTypeOK, NEW w \in SsWorkers,
           UNCHANGED <<ssSessions, ssCounter, ssActive, ssBegun, ssBorn>>,
           ssAgent' \in [SsIds -> 0 .. ssBegun], ssState' \in 0 .. ssBegun, ssResets' \in [SsIds -> Nat],
           ssTransition' \in SUBSET SsWorkers, ssOverlap' \in BOOLEAN,
           ssCounts' \in [command : Nat, turn : Nat, restart : Nat],
           ssWork' \in [SsWorkers -> [at : SsLabels, session : 0 .. MaxSessions, transcript : 0 .. ssBegun]],
           \A v \in SsWorkers : v # w => ssWork'[v] = ssWork[v],
           InTurn(w)' => InTurn(w) /\ ssWork'[w].session = ssWork[w].session
    PROVE  SsTypeOK'
<1>1. \A v \in SsWorkers : InTurn(v)' => InTurn(v) /\ ssWork'[v].session = ssWork[v].session
  BY DEF InTurn, SsAt
<1> QED
  BY <1>1 DEF SsTypeOK

\* What memory has.
LEMMA MemoryTyped ==
    SsInv => /\ ssAgent \in [SsIds -> 0 .. ssBegun] /\ ssState \in 0 .. ssBegun /\ ssResets \in [SsIds -> Nat]
             /\ ssCounter \in Nat /\ ssBegun \in Nat
  BY SsNumbers DEF SsInv, SsTypeOK

\* One worker moves, the memory stays; it may begin to save it.
LEMMA MemoryStays ==
    ASSUME SsInv, NEW w \in SsWorkers,
           UNCHANGED <<ssMemory, ssHistory, ssDisk>>,
           (UNCHANGED <<ssSaving, ssOverlap>> /\ SsAt(w) \notin {"reset", "save"}) \/ SaveBegins(w),
           ssState' \in {0, ssState}, ssTransition' \in SUBSET SsWorkers,
           ssCounts' \in [command : Nat, turn : Nat, restart : Nat],
           ssWork' \in [SsWorkers -> [at : SsLabels, session : 0 .. MaxSessions, transcript : 0 .. ssBegun]],
           \A v \in SsWorkers : v # w => ssWork'[v] = ssWork[v],
           InTurn(w)' => InTurn(w) /\ ssWork'[w].session = ssWork[w].session
    PROVE  SsTypeOK' /\ FilesOK' /\ FileFollows'
<1>1. ssOverlap' \in BOOLEAN
  BY DEF SaveBegins, SsInv, SsTypeOK
<1>2. /\ UNCHANGED <<ssSessions, ssCounter, ssActive, ssBegun, ssBorn, ssAgent, ssResets>>
      /\ ssAgent \in [SsIds -> 0 .. ssBegun] /\ ssState' \in 0 .. ssBegun /\ ssResets \in [SsIds -> Nat]
      /\ ssCounter <= ssCounter' /\ ssBegun <= ssBegun'
  <2>1. /\ ssAgent \in [SsIds -> 0 .. ssBegun] /\ ssState \in 0 .. ssBegun /\ ssResets \in [SsIds -> Nat]
        /\ ssCounter \in Nat /\ ssBegun \in Nat
    BY MemoryTyped
  <2>2. UNCHANGED <<ssSessions, ssCounter, ssActive, ssBegun, ssBorn, ssAgent, ssResets>>
    BY DEF ssMemory, ssHistory
  <2> QED
    BY <2>1, <2>2
<1>3. SsTypeOK'
  BY <1>1, <1>2, TypesStay DEF SsInv
<1>4. CASE SaveBegins(w)
  BY <1>2, <1>3, <1>4, FileSaving DEF SsInv
<1>5. CASE UNCHANGED <<ssSaving, ssOverlap>> /\ SsAt(w) \notin {"reset", "save"}
  <2>1. ~Unsaved' => ~Unsaved
    BY <1>5 DEF Unsaved, SsAt
  <2> QED
    BY <1>2, <1>3, <1>5, <2>1, FileLeft DEF SsInv, ssFile
<1> QED
  BY <1>3, <1>4, <1>5

\* A prompt looks for the session of its turn.
LEMMA TurnReadsStep ==
    ASSUME SsInv, NEW w \in SsWorkers, TurnReads(w)
    PROVE  SsInv'
<1> USE SsNumbers
<1> PICK s, new : s = ssActive' /\ new = [at |-> "begin", session |-> s, transcript |-> 0]
  OBVIOUS
<1>1. /\ SsAt(w) = "idle" /\ SsCount("turn", MaxTurns) /\ GetActive
      /\ ssTransition' \in {ssTransition, {w}}
      /\ ssWork' = [ssWork EXCEPT ![w] = new]
      /\ UNCHANGED <<ssBusy, ssUnderWay, ssState, ssHistory, ssFile>>
  BY DEF TurnReads
<1>2. ssWork'[w] = new /\ \A v \in SsWorkers : v # w => ssWork'[v] = ssWork[v]
  BY <1>1, WorkMoves DEF SsInv
<1>3. /\ s \in SsIds /\ ssActive' = s /\ s \in ssSessions'
      /\ ssCounter' \in 0 .. MaxSessions /\ ssCounter <= ssCounter'
      /\ ssSessions \subseteq ssSessions' /\ ssSessions' \subseteq 1 .. ssCounter'
      /\ ssAgent' \in [SsIds -> 0 .. ssBegun]
      /\ \A q \in 1 .. ssCounter : ssAgent'[q] = ssAgent[q]
      /\ \A q \in ssSessions' \ ssSessions : ssAgent'[q] = 0
      /\ UNCHANGED ssMemory \/ (ssActive = 0 /\ Create)
      /\ (ssActive' = ssActive \/ ssActive = 0) /\ ssActive' # 0
  <2>1. ssCounter \in 0 .. MaxSessions /\ ssSessions \subseteq 1 .. ssCounter
        /\ ssAgent \in [SsIds -> 0 .. ssBegun]
    BY DEF SsInv, SsTypeOK
  <2>2. CASE ssActive = 0
    <3>1. Create
      BY <1>1, <2>2 DEF GetActive
    <3>2. \A q \in 1 .. ssCounter : q \in SsIds /\ q # ssCounter + 1
      BY <2>1 DEF SsIds
    <3> QED
      BY <2>1, <2>2, <3>1, <3>2, Creates DEF SsInv
  <2>3. CASE ssActive # 0
    <3>1. UNCHANGED ssMemory
      BY <1>1, <2>3 DEF GetActive
    <3>2. ssActive \in ssSessions /\ ssActive \in SsIds
      BY <2>1, <2>3 DEF SsInv, SsTypeOK, SsIds
    <3> QED
      BY <2>1, <2>3, <3>1, <3>2 DEF ssMemory
  <2> QED
    BY <2>2, <2>3
<1>4. SsTypeOK'
  <2>1. new \in [at : SsLabels, session : 0 .. MaxSessions, transcript : 0 .. ssBegun] /\ new.session = s /\ new.at = "begin"
    BY <1>3 DEF SsInv, SsTypeOK, SsLabels
  <2>2. ssWork' \in [SsWorkers -> [at : SsLabels, session : 0 .. MaxSessions, transcript : 0 .. ssBegun]]
    BY <1>1, <2>1 DEF SsInv, SsTypeOK
  <2>3. \A v \in SsWorkers : InTurn(v)' => ssWork'[v].session \in SsIds
    BY <1>2, <1>3, <2>1 DEF SsInv, SsTypeOK, InTurn, SsAt
  <2>4. ssCounts' \in [command : Nat, turn : Nat, restart : Nat]
    BY <1>1, CountKept DEF SsInv
  <2> QED
    <3>1. /\ ssBegun \in 0 .. MaxTranscripts /\ ssState \in 0 .. ssBegun
          /\ ssBorn \in [1 .. MaxTranscripts -> (0 .. MaxSessions) \X Nat]
          /\ ssResets \in [SsIds -> Nat] /\ ssOverlap \in BOOLEAN
      BY DEF SsInv, SsTypeOK
    <3>2. UNCHANGED <<ssBegun, ssState, ssBorn, ssResets, ssOverlap>>
      BY <1>1 DEF ssHistory, ssFile
    <3>3. ssActive' \in ssSessions' \cup {0} /\ (ssActive' = 0 => ssSessions' = {})
          /\ ssTransition' \in SUBSET SsWorkers
      BY <1>1, <1>3 DEF SsInv, SsTypeOK
    <3> QED
      BY <1>3, <2>2, <2>3, <2>4, <3>1, <3>2, <3>3 DEF SsTypeOK
<1>5. FilesOK' /\ FileFollows'
  <2>1. ~Unsaved' => ~Unsaved
    BY <1>1, <1>2 DEF Unsaved, SsAt
  <2>2. ssBegun <= ssBegun' /\ UNCHANGED ssFile
    BY <1>1 DEF SsInv, SsTypeOK, ssHistory
  <2> QED
    BY <1>3, <1>4, <2>1, <2>2, FileLeft DEF SsInv
<1>6. ssCounts'.restart = ssCounts.restart
  BY <1>1, CountKept DEF SsInv
<1>7. ASSUME TurnsInOrder PROVE TurnsInOrder'
  <2>1. SsAt(w)' = "begin" /\ ~TurnHeld(w)' /\ ssWork'[w].session = s
    BY <1>2 DEF SsAt, TurnHeld
  <2>2. \A v \in SsWorkers : v # w => (TurnHeld(v)' <=> TurnHeld(v)) /\ SsAt(v)' = SsAt(v) /\ ssWork'[v] = ssWork[v]
    BY <1>2 DEF SsAt, TurnHeld, InTurn
  <2>3. \A v \in SsWorkers : SsAt(v) \in {"begin", "state", "send"} => ssActive' = ssActive
    <3>1. \A v \in SsWorkers : SsAt(v) \in {"begin", "state", "send"} => ssActive # 0
      BY <1>7 DEF TurnsInOrder, TurnsApart, InTurn, SsInv, SsTypeOK, SsIds
    <3> QED
      BY <1>3, <3>1
  <2>4. TurnsApart'
    <3>1. \A v \in SsWorkers : TurnHeld(v)' => ssWork'[v].session \in ssBusy'
      BY <1>1, <1>7, <2>1, <2>2 DEF TurnsInOrder, TurnsApart
    <3>2. \A v, x \in SsWorkers : TurnHeld(v)' /\ TurnHeld(x)' /\ ssWork'[v].session = ssWork'[x].session => v = x
      BY <1>1, <1>7, <2>1, <2>2 DEF TurnsInOrder, TurnsApart
    <3>3. \A v \in SsWorkers : SsAt(v)' \in {"begin", "state", "send"} =>
             \/ ssWork'[v].session = ssActive'
             \/ ssActive' # 0 /\ ssActive' \in ssUnderWay' /\ ssWork'[v].session \in ssUnderWay'
      <4> TAKE v \in SsWorkers
      <4> HAVE SsAt(v)' \in {"begin", "state", "send"}
      <4>1. CASE v = w
        BY <1>3, <2>1, <4>1
      <4>2. CASE v # w
        <5>1. SsAt(v) \in {"begin", "state", "send"} /\ ssWork'[v] = ssWork[v] /\ ssActive' = ssActive
          BY <2>2, <2>3, <4>2
        <5> QED
          BY <1>1, <1>7, <5>1 DEF TurnsInOrder, TurnsApart
      <4> QED
        BY <4>1, <4>2
    <3> QED
      BY <1>1, <1>3, <2>1, <3>1, <3>2, <3>3 DEF TurnsApart
  <2>5. \A q, t : Entitled(q, t) => Entitled(q, t)'
    BY <1>1 DEF Entitled, ssHistory
  <2>6. TurnsEntitled'
    <3>1. \A v \in SsWorkers : \A q, t : SsAt(v)' \in {"send", "loop"} /\ ssWork'[v].session = q /\ ssWork'[v].transcript = t =>
            t # 0 /\ Entitled(q, t)'
      BY <1>7, <2>1, <2>2, <2>5 DEF TurnsInOrder, TurnsEntitled
    <3>2. \A q, t : ssActive' = q /\ ssState' = t /\ t # 0 => q # 0 /\ Entitled(q, t)'
      BY <1>1, <1>3, <1>7, <2>5 DEF TurnsInOrder, TurnsEntitled
    <3>3. \A q \in ssSessions' : \A t : ssAgent'[q] = t /\ t # 0 => Entitled(q, t)'
      <4>1. \A q \in ssSessions : ssAgent'[q] = ssAgent[q]
        BY <1>3 DEF SsInv, SsTypeOK
      <4> QED
        BY <1>3, <1>7, <2>5, <4>1 DEF TurnsInOrder, TurnsEntitled
    <3>4. \A v \in SsWorkers : SsAt(v)' = "clear" =>
            ssBusy' \subseteq ssUnderWay' /\ (ssState' = 0 \/ ssActive' \in ssUnderWay')
      <4> TAKE v \in SsWorkers
      <4> HAVE SsAt(v)' = "clear"
      <4>1. SsAt(v) = "clear"
        BY <2>1, <2>2
      <4> QED
        BY <1>1, <1>3, <1>7, <4>1 DEF TurnsInOrder, TurnsEntitled
    <3> QED
      BY <3>1, <3>2, <3>3, <3>4 DEF TurnsEntitled
  <2> QED
    BY <2>4, <2>6 DEF TurnsInOrder
<1> QED
  BY <1>4, <1>5, <1>6, <1>7 DEF SsInv

\* The turn begins on that session, or is queued.
LEMMA TurnBeginsStep ==
    ASSUME SsInv, NEW w \in SsWorkers, TurnBegins(w)
    PROVE  SsInv'
<1> PICK s : s = ssWork[w].session
  OBVIOUS
<1>1. /\ SsAt(w) = "begin" /\ InTurn(w) /\ ~TurnHeld(w)
      /\ ssTransition' \in {ssTransition, ssTransition \ {w}}
      /\ UNCHANGED <<ssMemory, ssState, ssHistory, ssDisk, ssCounts>> /\ UNCHANGED <<ssSaving, ssOverlap>>
  BY DEF TurnBegins, InTurn, TurnHeld, ssFile
<1>2. ssTransition' \in SUBSET SsWorkers /\ ssCounts' \in [command : Nat, turn : Nat, restart : Nat]
  BY <1>1 DEF SsInv, SsTypeOK
<1>3. \A q, t : ssUnderWay \subseteq ssUnderWay' /\ Entitled(q, t) => Entitled(q, t)'
  BY <1>1 DEF Entitled, ssHistory
<1>4. CASE /\ s \notin ssBusy /\ ssBusy' = ssBusy \cup {s} /\ SsTo(w, "state")
           /\ ssUnderWay' = (IF \E v \in SsWorkers : SsAt(v) = "clear" THEN ssUnderWay \cup {s} ELSE ssUnderWay)
  <2>1. /\ ssWork' \in [SsWorkers -> [at : SsLabels, session : 0 .. MaxSessions, transcript : 0 .. ssBegun]]
        /\ SsAt(w)' = "state" /\ ssWork'[w].session = s
        /\ \A v \in SsWorkers : v # w => ssWork'[v] = ssWork[v]
    <3>1. "state" \in SsLabels
      BY DEF SsLabels
    <3> QED
      BY <1>4, <3>1, LabelMoves DEF SsInv
  <2>2. SsTypeOK' /\ FilesOK' /\ FileFollows'
    BY <1>1, <1>2, <2>1, MemoryStays
  <2>3. /\ ssUnderWay \subseteq ssUnderWay'
        /\ \A v \in SsWorkers : SsAt(v) = "clear" => s \in ssUnderWay'
    BY <1>4
  <2>4. \A v \in SsWorkers : v # w => (TurnHeld(v)' <=> TurnHeld(v)) /\ SsAt(v)' = SsAt(v) /\ ssWork'[v] = ssWork[v]
    BY <2>1 DEF SsAt, TurnHeld, InTurn
  <2>5. TurnsApart => TurnsApart'
    <3> SUFFICES ASSUME TurnsApart PROVE TurnsApart'
      OBVIOUS
    <3>1. \A v \in SsWorkers : TurnHeld(v)' => ssWork'[v].session \in ssBusy'
      BY <1>4, <2>1, <2>4 DEF TurnsApart
    <3>2. \A v, x \in SsWorkers : TurnHeld(v)' /\ TurnHeld(x)' /\ ssWork'[v].session = ssWork'[x].session => v = x
      BY <1>4, <2>1, <2>4 DEF TurnsApart
    <3>3. \A v \in SsWorkers : SsAt(v)' \in {"begin", "state", "send"} =>
             SsAt(v) \in {"begin", "state", "send"} /\ ssWork'[v].session = ssWork[v].session
      BY <1>1, <2>1, <2>4
    <3>4. ssActive' = ssActive
      BY <1>1 DEF ssMemory
    <3>5. \A v \in SsWorkers : SsAt(v)' \in {"begin", "state", "send"} =>
             \/ ssWork'[v].session = ssActive'
             \/ ssActive' # 0 /\ ssActive' \in ssUnderWay' /\ ssWork'[v].session \in ssUnderWay'
      BY <2>3, <3>3, <3>4 DEF TurnsApart
    <3> QED
      BY <3>1, <3>2, <3>5 DEF TurnsApart
  <2>6. TurnsEntitled => TurnsEntitled'
    <3> SUFFICES ASSUME TurnsEntitled PROVE TurnsEntitled'
      OBVIOUS
    <3>1. \A v \in SsWorkers : \A q, t : SsAt(v)' \in {"send", "loop"} /\ ssWork'[v].session = q /\ ssWork'[v].transcript = t =>
            t # 0 /\ Entitled(q, t)'
      BY <1>3, <2>1, <2>3, <2>4 DEF TurnsEntitled
    <3>2. \A q, t : ssActive' = q /\ ssState' = t /\ t # 0 => q # 0 /\ Entitled(q, t)'
      BY <1>1, <1>3, <2>3 DEF TurnsEntitled, ssMemory
    <3>3. \A q \in ssSessions' : \A t : ssAgent'[q] = t /\ t # 0 => Entitled(q, t)'
      BY <1>1, <1>3, <2>3 DEF TurnsEntitled, ssMemory
    <3>4. \A v \in SsWorkers : SsAt(v)' = "clear" =>
            ssBusy' \subseteq ssUnderWay' /\ (ssState' = 0 \/ ssActive' \in ssUnderWay')
      <4>1. \A v \in SsWorkers : SsAt(v)' = "clear" => SsAt(v) = "clear"
        BY <2>1, <2>4
      <4> QED
        BY <1>1, <1>4, <2>3, <4>1 DEF TurnsEntitled, ssMemory
    <3> QED
      BY <3>1, <3>2, <3>3, <3>4 DEF TurnsEntitled
  <2> QED
    BY <1>1, <2>2, <2>5, <2>6 DEF SsInv, TurnsInOrder
<1>5. CASE ssWork' = [ssWork EXCEPT ![w] = SsIdle] /\ UNCHANGED <<ssBusy, ssUnderWay>>
  <2>1. /\ ssWork' \in [SsWorkers -> [at : SsLabels, session : 0 .. MaxSessions, transcript : 0 .. ssBegun]]
        /\ SsAt(w)' = "idle" /\ ~InTurn(w)' /\ ~TurnHeld(w)'
        /\ \A v \in SsWorkers : v # w => ssWork'[v] = ssWork[v]
    BY <1>5, IdleMoves DEF SsInv, InTurn, TurnHeld
  <2>2. SsTypeOK' /\ FilesOK' /\ FileFollows'
    BY <1>1, <1>2, <2>1, MemoryStays
  <2>3. TurnsApart => TurnsApart'
    BY <1>1, <1>5, <2>1, TurnsStayApart DEF ssMemory
  <2>4. TurnsEntitled => TurnsEntitled'
    BY <1>1, <1>3, <1>5, <2>1, TurnsStayEntitled DEF ssMemory
  <2> QED
    BY <1>1, <2>2, <2>3, <2>4 DEF SsInv, TurnsInOrder
<1> QED
  BY <1>4, <1>5 DEF TurnBegins

\* The turn takes the process of the chat, or starts one.
LEMMA TakesStateStep ==
    ASSUME SsInv, NEW w \in SsWorkers, TurnTakesState(w)
    PROVE  SsInv'
<1> USE SsNumbers
<1> PICK s, t, b, new : /\ s = ssWork[w].session /\ t = ssState' /\ b = ssBegun + 1
                        /\ new = [ssWork[w] EXCEPT !.at = "send", !.transcript = t]
  OBVIOUS
<1>0. /\ ssBegun \in 0 .. MaxTranscripts /\ ssAgent \in [SsIds -> 0 .. ssBegun] /\ ssState \in 0 .. ssBegun
      /\ ssBorn \in [1 .. MaxTranscripts -> (0 .. MaxSessions) \X Nat]
      /\ ssResets \in [SsIds -> Nat]
      /\ ssWork[w] \in [at : SsLabels, session : 0 .. MaxSessions, transcript : 0 .. ssBegun]
  BY DEF SsInv, SsTypeOK
<1>1. /\ SsAt(w) = "state" /\ InTurn(w) /\ TurnHeld(w)
      /\ ssWork' = [ssWork EXCEPT ![w] = new]
      /\ \/ ssState # 0 /\ t = ssState /\ UNCHANGED <<ssBegun, ssBorn>>
         \/ ssState = 0 /\ ssAgent[s] # 0 /\ t = ssAgent[s] /\ UNCHANGED <<ssBegun, ssBorn>>
         \/ /\ b <= MaxTranscripts /\ ssBegun' = b /\ t = b
            /\ ssBorn' = [ssBorn EXCEPT ![b] = <<s, ssResets[s]>>]
      /\ UNCHANGED <<ssMemory, ssReplay, ssBusy, ssResets, ssFile, ssTransition, ssUnderWay, ssCounts>>
  <2>1. ssBegun < MaxTranscripts => b <= MaxTranscripts
    BY <1>0
  <2> QED
    BY <2>1 DEF TurnTakesState, InTurn, TurnHeld
<1>2. ssWork'[w] = new /\ \A v \in SsWorkers : v # w => ssWork'[v] = ssWork[v]
  BY <1>1, WorkMoves DEF SsInv
<1>3. s \in SsIds
  BY <1>1 DEF SsInv, SsTypeOK
<1>4. /\ ssBegun' \in 0 .. MaxTranscripts /\ ssBegun <= ssBegun' /\ t \in 1 .. ssBegun'
      /\ ssBorn' \in [1 .. MaxTranscripts -> (0 .. MaxSessions) \X Nat]
  <2>1. CASE ssState # 0 /\ t = ssState /\ UNCHANGED <<ssBegun, ssBorn>>
    BY <1>0, <2>1
  <2>2. CASE ssState = 0 /\ ssAgent[s] # 0 /\ t = ssAgent[s] /\ UNCHANGED <<ssBegun, ssBorn>>
    BY <1>0, <1>3, <2>2
  <2>3. CASE /\ b <= MaxTranscripts /\ ssBegun' = b /\ t = b
             /\ ssBorn' = [ssBorn EXCEPT ![b] = <<s, ssResets[s]>>]
    <3>1. <<s, ssResets[s]>> \in (0 .. MaxSessions) \X Nat
      BY <1>0, <1>3
    <3> QED
      BY <1>0, <2>3, <3>1
  <2> QED
    BY <1>1, <2>1, <2>2, <2>3
<1>5. /\ new.at = "send" /\ new.session = s /\ new.transcript = t
      /\ new \in [at : SsLabels, session : 0 .. MaxSessions, transcript : 0 .. ssBegun']
  <2>1. "send" \in SsLabels /\ t \in 0 .. ssBegun' /\ 0 .. ssBegun \subseteq 0 .. ssBegun'
    BY <1>0, <1>4 DEF SsLabels
  <2>2. ssWork[w] \in [at : SsLabels, session : 0 .. MaxSessions, transcript : 0 .. ssBegun']
    BY <1>0, <2>1
  <2> QED
    BY <2>1, <2>2
<1>6. SsTypeOK'
  <2>1. ssWork' \in [SsWorkers -> [at : SsLabels, session : 0 .. MaxSessions, transcript : 0 .. ssBegun']]
    <3>1. \A v \in SsWorkers : ssWork'[v] \in [at : SsLabels, session : 0 .. MaxSessions, transcript : 0 .. ssBegun']
      <4> TAKE v \in SsWorkers
      <4>1. ssWork[v] \in [at : SsLabels, session : 0 .. MaxSessions, transcript : 0 .. ssBegun]
        BY DEF SsInv, SsTypeOK
      <4>2. 0 .. ssBegun \subseteq 0 .. ssBegun'
        BY <1>0, <1>4
      <4> QED
        BY <1>2, <1>5, <4>1, <4>2
    <3> QED
      BY <1>1, <3>1 DEF SsInv, SsTypeOK
  <2>2. \A v \in SsWorkers : InTurn(v)' => ssWork'[v].session \in SsIds
    BY <1>2, <1>3, <1>5 DEF SsInv, SsTypeOK, InTurn, SsAt
  <2>3. ssAgent' \in [SsIds -> 0 .. ssBegun'] /\ ssState' \in 0 .. ssBegun'
    BY <1>0, <1>1, <1>4 DEF ssMemory
  <2> QED
    BY <1>1, <1>4, <2>1, <2>2, <2>3 DEF SsInv, SsTypeOK, ssMemory, ssFile
<1>7. FilesOK' /\ FileFollows'
  <2>1. (~Unsaved' => ~Unsaved) /\ ssCounter <= ssCounter'
    BY <1>1, <1>2 DEF Unsaved, SsAt, ssMemory, SsInv, SsTypeOK
  <2> QED
    BY <1>1, <1>4, <1>6, <2>1, FileLeft DEF SsInv, ssMemory
<1>8. ASSUME TurnsInOrder PROVE TurnsInOrder'
  <2>1. SsAt(w)' = "send" /\ InTurn(w)' /\ ssWork'[w].session = s /\ ssWork'[w].transcript = t
    BY <1>2, <1>5 DEF SsAt, InTurn
  <2>2. TurnsApart'
    BY <1>1, <1>2, <1>8, <2>1, TurnsStayApart DEF TurnHeld, TurnsInOrder, ssMemory
  <2>3. \A q, p : p \in 1 .. ssBegun /\ Entitled(q, p) => Entitled(q, p)'
    <3>1. \A p : p \in 1 .. ssBegun => ssBorn'[p] = ssBorn[p]
      BY <1>0, <1>1
    <3> QED
      BY <1>1, <3>1 DEF Entitled
  <2>4. \/ s = ssActive /\ s \in ssSessions
        \/ ssActive # 0 /\ ssActive \in ssUnderWay /\ s \in ssUnderWay
    <3>1. s = ssActive \/ (ssActive # 0 /\ ssActive \in ssUnderWay /\ s \in ssUnderWay)
      BY <1>1, <1>8 DEF TurnsInOrder, TurnsApart
    <3> QED
      BY <1>3, <3>1 DEF SsInv, SsTypeOK, SsIds
  <2>5. Entitled(s, t)'
    <3>0. CASE s \in ssUnderWay
      BY <1>1, <3>0 DEF Entitled
    <3>1. CASE s \notin ssUnderWay /\ ssState # 0 /\ t = ssState /\ UNCHANGED <<ssBegun, ssBorn>>
      BY <1>0, <1>8, <2>3, <2>4, <3>1 DEF TurnsInOrder, TurnsEntitled
    <3>2. CASE s \notin ssUnderWay /\ ssState = 0 /\ ssAgent[s] # 0 /\ t = ssAgent[s] /\ UNCHANGED <<ssBegun, ssBorn>>
      <4>1. s \in ssSessions /\ t \in 1 .. ssBegun
        BY <1>0, <1>3, <2>4, <3>2
      <4>2. Entitled(s, t)
        BY <1>8, <3>2, <4>1 DEF TurnsInOrder, TurnsEntitled
      <4> QED
        BY <2>3, <4>1, <4>2
    <3>3. CASE /\ b <= MaxTranscripts /\ ssBegun' = b /\ t = b
               /\ ssBorn' = [ssBorn EXCEPT ![b] = <<s, ssResets[s]>>]
      BY <1>0, <1>1, <3>3 DEF Entitled
    <3> QED
      BY <1>1, <3>0, <3>1, <3>2, <3>3
  <2>6. \A v \in SsWorkers : ssWork[v].transcript \in 0 .. ssBegun
    BY DEF SsInv, SsTypeOK
  <2>7. TurnsEntitled'
    <3>1. \A v \in SsWorkers : \A q, p : SsAt(v)' \in {"send", "loop"} /\ ssWork'[v].session = q /\ ssWork'[v].transcript = p =>
            p # 0 /\ Entitled(q, p)'
      <4> SUFFICES ASSUME NEW v \in SsWorkers, NEW q, NEW p,
                          SsAt(v)' \in {"send", "loop"}, ssWork'[v].session = q, ssWork'[v].transcript = p
                   PROVE  p # 0 /\ Entitled(q, p)'
        OBVIOUS
      <4>1. CASE v = w
        BY <1>4, <2>1, <2>5, <4>1
      <4>2. CASE v # w
        <5>1. SsAt(v) \in {"send", "loop"} /\ ssWork[v].session = q /\ ssWork[v].transcript = p
          BY <1>2, <4>2 DEF SsAt
        <5> QED
          BY <1>8, <2>3, <2>6, <5>1 DEF TurnsInOrder, TurnsEntitled
      <4> QED
        BY <4>1, <4>2
    <3>2. \A q, p : ssActive' = q /\ ssState' = p /\ p # 0 => q # 0 /\ Entitled(q, p)'
      <4>1. \A q : q = ssActive => q # 0 /\ Entitled(q, t)'
        BY <1>1, <1>3, <2>4, <2>5 DEF Entitled, SsIds
      <4> QED
        BY <1>1, <4>1 DEF ssMemory
    <3>3. \A q \in ssSessions' : \A p : ssAgent'[q] = p /\ p # 0 => Entitled(q, p)'
      <4>1. \A q \in ssSessions : ssAgent[q] \in 0 .. ssBegun
        BY <1>0 DEF SsInv, SsTypeOK, SsIds
      <4> QED
        BY <1>1, <1>8, <2>3, <4>1 DEF TurnsInOrder, TurnsEntitled, ssMemory
    <3>4. \A v \in SsWorkers : SsAt(v)' = "clear" =>
            ssBusy' \subseteq ssUnderWay' /\ (ssState' = 0 \/ ssActive' \in ssUnderWay')
      <4>1. \A v \in SsWorkers : SsAt(v)' = "clear" => SsAt(v) = "clear"
        BY <1>2, <2>1 DEF SsAt
      <4>2. s \in ssBusy
        BY <1>1, <1>8 DEF TurnsInOrder, TurnsApart
      <4>3. \A v \in SsWorkers : SsAt(v) = "clear" => ssActive \in ssUnderWay
        BY <1>8, <2>4, <4>2 DEF TurnsInOrder, TurnsEntitled
      <4> QED
        BY <1>1, <1>8, <4>1, <4>3 DEF TurnsInOrder, TurnsEntitled, ssMemory
    <3> QED
      BY <3>1, <3>2, <3>3, <3>4 DEF TurnsEntitled
  <2> QED
    BY <2>2, <2>7 DEF TurnsInOrder
<1> QED
  BY <1>1, <1>6, <1>7, <1>8 DEF SsInv

\* The prompt is sent, or the turn takes another process, or it ends.
LEMMA SendsStep ==
    ASSUME SsInv, NEW w \in SsWorkers, TurnSends(w)
    PROVE  SsInv'
<1>0. /\ SsAt(w) = "send" /\ InTurn(w) /\ ssState' \in {0, ssState} /\ ssTransition' \in {ssTransition, ssTransition \ {w}}
      /\ UNCHANGED <<ssMemory, ssBusy, ssHistory, ssDisk, ssCounts, ssUnderWay>>
      /\ SaveBegins(w) \/ UNCHANGED <<ssSaving, ssOverlap>>
  BY DEF TurnSends, ProcessGoes, InTurn
<1> PICK label \in {"loop", "state", "end"} : SsTo(w, label)
  BY DEF TurnSends
<1>1. /\ ssWork' \in [SsWorkers -> [at : SsLabels, session : 0 .. MaxSessions, transcript : 0 .. ssBegun]]
      /\ SsAt(w)' = label /\ ssWork'[w].session = ssWork[w].session
      /\ ssWork'[w].transcript = ssWork[w].transcript
      /\ \A v \in SsWorkers : v # w => ssWork'[v] = ssWork[v]
  <2>1. label \in SsLabels
    BY DEF SsLabels
  <2> QED
    BY <2>1, LabelMoves DEF SsInv
<1>2. /\ ssCounts' \in [command : Nat, turn : Nat, restart : Nat]
      /\ ssTransition' \in SUBSET SsWorkers
  BY <1>0 DEF SsInv, SsTypeOK
<1>3. SsTypeOK' /\ FilesOK' /\ FileFollows'
  BY <1>0, <1>1, <1>2, MemoryStays
<1>4. \A q, t : Entitled(q, t)' <=> Entitled(q, t)
  BY <1>0 DEF Entitled, ssHistory
<1>5. TurnsApart => TurnsApart'
  BY <1>0, <1>1, TurnsStayApart DEF TurnHeld, ssMemory
<1>6. TurnsEntitled => TurnsEntitled'
  <2>1. SsAt(w)' \in {"send", "loop"} => SsAt(w) \in {"send", "loop"}
    BY <1>0
  <2> QED
    BY <1>0, <1>1, <1>4, <2>1, TurnsStayEntitled DEF ssMemory
<1> QED
  BY <1>0, <1>3, <1>5, <1>6 DEF SsInv, TurnsInOrder

\* The session forgets a transcript that cannot go on.
LEMMA LostStep ==
    ASSUME SsInv, NEW w \in SsWorkers, TranscriptLost(w)
    PROVE  SsInv'
<1> USE SsNumbers
<1> PICK s : s = ssWork[w].session
  OBVIOUS
<1>0. /\ SsAt(w) \in {"send", "loop"} /\ InTurn(w) /\ ssState' = 0 /\ SsTo(w, "reset")
      /\ ssAgent' = [ssAgent EXCEPT ![s] = 0]
      /\ UNCHANGED <<ssSessions, ssCounter, ssActive, ssBusy, ssHistory, ssFile, ssTransition, ssCounts, ssUnderWay>>
  BY DEF TranscriptLost, InTurn
<1>1. s \in SsIds /\ ssBegun \in Nat /\ ssAgent \in [SsIds -> 0 .. ssBegun]
      /\ ssCounts \in [command : Nat, turn : Nat, restart : Nat] /\ ssOverlap \in BOOLEAN
      /\ ssResets \in [SsIds -> Nat] /\ ssCounter \in Nat /\ ssTransition \in SUBSET SsWorkers
  BY <1>0 DEF SsInv, SsTypeOK
<1>2. \A q, t : Entitled(q, t)' <=> Entitled(q, t)
  BY <1>0 DEF Entitled, ssHistory
<1>3. /\ ssWork' \in [SsWorkers -> [at : SsLabels, session : 0 .. MaxSessions, transcript : 0 .. ssBegun]]
      /\ SsAt(w)' = "reset" /\ ssWork'[w].session = ssWork[w].session
      /\ ssWork'[w].transcript = ssWork[w].transcript
      /\ \A v \in SsWorkers : v # w => ssWork'[v] = ssWork[v]
  <2>1. "reset" \in SsLabels
    BY DEF SsLabels
  <2> QED
    BY <1>0, <2>1, LabelMoves DEF SsInv
<1>4. /\ ssAgent' \in [SsIds -> 0 .. ssBegun] /\ ssAgent'[s] = 0
      /\ \A q \in SsIds : q # s => ssAgent'[q] = ssAgent[q]
  BY <1>0, <1>1
<1>5. SsTypeOK'
  BY <1>0, <1>1, <1>3, <1>4, TypesStay DEF SsInv, ssHistory, ssFile
<1>6. FilesOK' /\ FileFollows'
  <2>1. Unsaved'
    BY <1>3 DEF Unsaved
  <2>2. ssCounter <= ssCounter' /\ ssBegun <= ssBegun'
    BY <1>0, <1>1 DEF ssHistory
  <2> QED
    BY <1>0, <1>5, <2>1, <2>2, FileLeft DEF SsInv
<1>7. TurnsApart => TurnsApart'
  BY <1>0, <1>3, TurnsStayApart DEF TurnHeld
<1>8. TurnsEntitled => TurnsEntitled'
  <2>1. \A q \in ssSessions' : \A t : ssAgent'[q] = t /\ t # 0 => q \in ssSessions /\ ssAgent[q] = t
    BY <1>0, <1>4 DEF SsInv, SsTypeOK, SsIds
  <2> QED
    BY <1>0, <1>2, <1>3, <2>1, TurnsStayEntitled
<1> QED
  BY <1>0, <1>5, <1>6, <1>7, <1>8 DEF SsInv, TurnsInOrder

\* The turn saves, and ends.
LEMMA TurnEndSteps ==
    ASSUME SsInv, NEW w \in SsWorkers, TurnSavesReset(w) \/ TurnAnswered(w) \/ SsTurnEnds(w)
    PROVE  SsInv'
<1> PICK label, to : label = SsAt(w) /\ to = IF label = "end" THEN "idle" ELSE "end"
  OBVIOUS
<1>1. /\ label \in {"reset", "loop", "end"} /\ InTurn(w)
      /\ UNCHANGED <<ssMemory, ssHistory, ssDisk, ssCounts, ssUnderWay>>
      /\ ssTransition' \in {ssTransition, ssTransition \ {w}}
      /\ ssState' \in {0, ssState}
      /\ (UNCHANGED <<ssSaving, ssOverlap>> /\ label # "reset") \/ SaveBegins(w)
      /\ label # "end" => SsTo(w, "end") /\ ssBusy' = ssBusy
      /\ label = "end" => ssWork' = [ssWork EXCEPT ![w] = SsIdle] /\ ssBusy' = ssBusy \ {ssWork[w].session}
  <2>1. CASE TurnSavesReset(w)
    BY <2>1 DEF TurnSavesReset, InTurn
  <2>2. CASE TurnAnswered(w)
    BY <2>2 DEF TurnAnswered, ProcessGoes, InTurn
  <2>3. CASE SsTurnEnds(w)
    BY <2>3 DEF SsTurnEnds, InTurn, ssFile
  <2> QED
    BY <2>1, <2>2, <2>3
<1>2. /\ ssWork' \in [SsWorkers -> [at : SsLabels, session : 0 .. MaxSessions, transcript : 0 .. ssBegun]]
      /\ SsAt(w)' = to /\ to \in {"idle", "end"}
      /\ InTurn(w)' => label # "end" /\ ssWork'[w].session = ssWork[w].session
      /\ InTurn(w)' \/ label = "end"
      /\ \A v \in SsWorkers : v # w => ssWork'[v] = ssWork[v]
  <2>1. CASE label = "end"
    BY <1>1, <2>1, IdleMoves DEF SsInv, InTurn
  <2>2. CASE label # "end"
    <3>1. "end" \in SsLabels
      BY DEF SsLabels
    <3> QED
      BY <1>1, <2>2, <3>1, LabelMoves DEF SsInv, InTurn
  <2> QED
    BY <2>1, <2>2
<1>3. ssTransition' \in SUBSET SsWorkers /\ ssCounts' \in [command : Nat, turn : Nat, restart : Nat]
  BY <1>1 DEF SsInv, SsTypeOK
<1>4. SsTypeOK' /\ FilesOK' /\ FileFollows'
  <2>1. label \in {"reset", "save"} => label = "reset"
    BY <1>1
  <2> QED
    BY <1>1, <1>2, <1>3, <2>1, MemoryStays
<1>5. \A s, t : Entitled(s, t)' <=> Entitled(s, t)
  BY <1>1 DEF Entitled, ssHistory
<1>6. TurnsApart => TurnsApart'
  <2>1. ssBusy' = ssBusy \/ (ssBusy' = ssBusy \ {ssWork[w].session} /\ TurnHeld(w) /\ ~TurnHeld(w)')
    BY <1>1, <1>2 DEF TurnHeld
  <2> QED
    BY <1>1, <1>2, <2>1, TurnsStayApart DEF TurnHeld, ssMemory
<1>7. TurnsEntitled => TurnsEntitled'
  <2>1. ssBusy' \subseteq ssBusy
    BY <1>1
  <2> QED
    BY <1>1, <1>2, <1>5, <2>1, TurnsStayEntitled DEF ssMemory
<1> QED
  BY <1>1, <1>4, <1>6, <1>7 DEF SsInv, TurnsInOrder

\* The id of the transcript is bound to the session.
LEMMA BindStep ==
    ASSUME SsInv, NEW w \in SsWorkers, BindAgentSession(w)
    PROVE  SsInv'
<1> USE SsNumbers
<1> PICK s, t : s = ssWork[w].session /\ t = ssWork[w].transcript
  OBVIOUS
<1>1. /\ SsAt(w) \in {"send", "loop"} /\ InTurn(w)
      /\ ssAgent' = [ssAgent EXCEPT ![s] = t]
      /\ SaveBegins(w)
      /\ UNCHANGED <<ssSessions, ssCounter, ssActive, ssBusy, ssState, ssHistory, ssDisk, ssWork,
                     ssTransition, ssCounts, ssUnderWay>>
  BY DEF BindAgentSession, InTurn
<1>2. s \in SsIds /\ t \in 0 .. ssBegun /\ ssState \in 0 .. ssBegun /\ ssAgent \in [SsIds -> 0 .. ssBegun]
      /\ ssResets \in [SsIds -> Nat] /\ ssTransition \in SUBSET SsWorkers
      /\ ssCounts \in [command : Nat, turn : Nat, restart : Nat]
      /\ ssWork \in [SsWorkers -> [at : SsLabels, session : 0 .. MaxSessions, transcript : 0 .. ssBegun]]
      /\ ssCounter <= ssCounter' /\ ssBegun <= ssBegun'
  BY <1>1 DEF SsInv, SsTypeOK, ssHistory
<1>3. /\ ssAgent' \in [SsIds -> 0 .. ssBegun] /\ ssAgent'[s] = t
      /\ \A q \in SsIds : q # s => ssAgent'[q] = ssAgent[q]
  BY <1>1, <1>2
<1>4. ssOverlap' \in BOOLEAN
  BY <1>1 DEF SaveBegins, SsInv, SsTypeOK
<1>5. InTurn(w)' => InTurn(w) /\ ssWork'[w].session = ssWork[w].session
  BY <1>1
<1>6. SsTypeOK'
  BY <1>1, <1>2, <1>3, <1>4, <1>5, TypesStay DEF SsInv, ssHistory
<1>7. FilesOK' /\ FileFollows'
  BY <1>1, <1>2, <1>6, FileSaving DEF SsInv
<1>8. TurnsApart => TurnsApart'
  BY <1>1, <1>5, TurnsStayApart DEF TurnHeld, SsAt
<1>9. TurnsEntitled => TurnsEntitled'
  <2> SUFFICES ASSUME TurnsEntitled PROVE TurnsEntitled'
    OBVIOUS
  <2>1. \A q, p : Entitled(q, p)' <=> Entitled(q, p)
    BY <1>1 DEF Entitled, ssHistory
  <2>2. Entitled(s, t)
    BY <1>1 DEF TurnsEntitled
  <2>3. \A q \in ssSessions' : \A p : ssAgent'[q] = p /\ p # 0 => (q \in ssSessions /\ ssAgent[q] = p) \/ Entitled(q, p)
    <3>1. ssSessions \subseteq SsIds /\ ssSessions' = ssSessions
      BY <1>1 DEF SsInv, SsTypeOK, SsIds
    <3> QED
      BY <1>3, <2>2, <3>1
  <2> QED
    BY <1>1, <2>1, <2>3, TurnsStayEntitled DEF SsAt
<1> QED
  BY <1>1, <1>6, <1>7, <1>8, <1>9 DEF SsInv, TurnsInOrder

\* A reset begins and closes the process.
LEMMA ResetBeginsStep ==
    ASSUME SsInv, NEW w \in SsWorkers, ResetBegins(w)
    PROVE  SsInv'
<1>1. /\ SsAt(w) = "idle" /\ ~InTurn(w) /\ SsCount("command", MaxCommands) /\ ssState' = 0 /\ SsTo(w, "clear")
      /\ ssUnderWay' = ssUnderWay \cup ssBusy
      /\ UNCHANGED <<ssMemory, ssBusy, ssHistory, ssFile, ssTransition>>
  BY DEF ResetBegins, ResetClears, InTurn
<1>2. /\ ssWork' \in [SsWorkers -> [at : SsLabels, session : 0 .. MaxSessions, transcript : 0 .. ssBegun]]
      /\ SsAt(w)' = "clear" /\ ~InTurn(w)'
      /\ \A v \in SsWorkers : v # w => ssWork'[v] = ssWork[v]
  <2>1. "clear" \in SsLabels
    BY DEF SsLabels
  <2> QED
    BY <1>1, <2>1, LabelMoves DEF SsInv, InTurn
<1>3. ssCounts' \in [command : Nat, turn : Nat, restart : Nat] /\ ssCounts'.restart = ssCounts.restart
      /\ ssTransition' \in SUBSET SsWorkers
  BY <1>1, CountKept DEF SsInv, SsTypeOK
<1>4. SsTypeOK' /\ FilesOK' /\ FileFollows'
  <2>1. UNCHANGED <<ssMemory, ssHistory, ssDisk>> /\ UNCHANGED <<ssSaving, ssOverlap>> /\ SsAt(w) \notin {"reset", "save"}
    BY <1>1 DEF ssFile
  <2> QED
    BY <1>1, <1>2, <1>3, <2>1, MemoryStays
<1>5. \A s, t : Entitled(s, t) => Entitled(s, t)'
  BY <1>1 DEF Entitled, ssHistory
<1>6. TurnsApart => TurnsApart'
  BY <1>1, <1>2, TurnsStayApart DEF TurnHeld, ssMemory
<1>7. TurnsEntitled => TurnsEntitled'
  BY <1>1, <1>2, <1>5, TurnsStayEntitled DEF ssMemory
<1> QED
  BY <1>3, <1>4, <1>6, <1>7 DEF SsInv, TurnsInOrder

\* The active session forgets its transcript.
LEMMA ResetActiveStep ==
    ASSUME SsInv, NEW w \in SsWorkers, ResetActive(w)
    PROVE  SsInv'
<1> USE SsNumbers
<1>1. /\ SsAt(w) = "clear" /\ ~InTurn(w) /\ SsTo(w, "save")
      /\ ssUnderWay' = ssUnderWay \cup ssBusy
      /\ UNCHANGED <<ssBusy, ssState, ssBegun, ssBorn, ssFile, ssTransition, ssCounts>>
  BY DEF ResetActive, InTurn
<1>2. /\ ssWork' \in [SsWorkers -> [at : SsLabels, session : 0 .. MaxSessions, transcript : 0 .. ssBegun]]
      /\ SsAt(w)' = "save" /\ ~InTurn(w)'
      /\ \A v \in SsWorkers : v # w => ssWork'[v] = ssWork[v]
  <2>1. "save" \in SsLabels
    BY DEF SsLabels
  <2> QED
    BY <1>1, <2>1, LabelMoves DEF SsInv, InTurn
<1>3. Unsaved'
  BY <1>2 DEF Unsaved
<1>4. /\ ssBegun \in 0 .. MaxTranscripts /\ ssState \in 0 .. ssBegun
      /\ ssBorn \in [1 .. MaxTranscripts -> (0 .. MaxSessions) \X Nat]
      /\ ssAgent \in [SsIds -> 0 .. ssBegun] /\ ssResets \in [SsIds -> Nat]
      /\ ssTransition \in SUBSET SsWorkers /\ ssOverlap \in BOOLEAN
      /\ ssCounts \in [command : Nat, turn : Nat, restart : Nat]
      /\ ssCounter \in 0 .. MaxSessions
      /\ ssSessions \subseteq 1 .. ssCounter /\ ssActive \in ssSessions \cup {0}
      /\ ssSessions \subseteq SsIds
  <2>1. /\ ssBegun \in 0 .. MaxTranscripts /\ ssState \in 0 .. ssBegun
        /\ ssBorn \in [1 .. MaxTranscripts -> (0 .. MaxSessions) \X Nat]
        /\ ssAgent \in [SsIds -> 0 .. ssBegun] /\ ssResets \in [SsIds -> Nat]
        /\ ssTransition \in SUBSET SsWorkers /\ ssOverlap \in BOOLEAN
        /\ ssCounts \in [command : Nat, turn : Nat, restart : Nat]
        /\ ssCounter \in 0 .. MaxSessions
        /\ ssSessions \subseteq 1 .. ssCounter /\ ssActive \in ssSessions \cup {0}
    BY DEF SsInv, SsTypeOK
  <2>2. ssSessions \subseteq SsIds
    BY <2>1 DEF SsIds
  <2> QED
    BY <2>1, <2>2
<1>5. CASE ssActive = 0
  <2>1. Create /\ UNCHANGED ssResets
    BY <1>5 DEF ResetActive
  <2>2. /\ ssActive' \in SsIds /\ ssActive' = ssCounter' /\ ssCounter' = ssCounter + 1
        /\ ssCounter' \in 0 .. MaxSessions
        /\ ssSessions' = ssSessions \cup {ssCounter'} /\ ssSessions' \subseteq 1 .. ssCounter'
        /\ ssAgent' \in [SsIds -> 0 .. ssBegun] /\ ssAgent'[ssCounter'] = 0
        /\ \A s \in SsIds : s # ssCounter' => ssAgent'[s] = ssAgent[s]
    BY <2>1, Creates DEF SsInv
  <2>3. \A v \in SsWorkers : InTurn(v)' => ssWork'[v].session \in SsIds
    BY <1>2 DEF SsInv, SsTypeOK, InTurn, SsAt
  <2>4. SsTypeOK'
    <3>1. ssActive' \in ssSessions' \cup {0} /\ (ssActive' = 0 => ssSessions' = {})
      BY <2>2 DEF SsIds
    <3> QED
      BY <1>1, <1>2, <1>4, <2>1, <2>2, <2>3, <3>1 DEF SsTypeOK, ssFile
  <2>5. FilesOK' /\ FileFollows'
    <3>1. ssCounter <= ssCounter' /\ ssBegun <= ssBegun'
      BY <1>1, <1>4, <2>2
    <3> QED
      BY <1>1, <1>3, <2>4, <3>1, FileLeft DEF SsInv
  <2>6. \A s, t : Entitled(s, t) => Entitled(s, t)'
    BY <1>1, <2>1 DEF Entitled
  <2>7. TurnsApart => TurnsApart'
    <3> SUFFICES ASSUME TurnsApart PROVE TurnsApart'
      OBVIOUS
    <3>1. \A v \in SsWorkers : SsAt(v) \notin {"begin", "state", "send"}
      <4>1. \A v \in SsWorkers : SsAt(v) \in {"begin", "state", "send"} => InTurn(v)
        BY DEF InTurn
      <4> QED
        BY <1>5, <4>1 DEF TurnsApart, SsInv, SsTypeOK, SsIds
    <3> QED
      BY <1>1, <1>2, <3>1, TurnsStayApart DEF TurnHeld
  <2>8. TurnsEntitled => TurnsEntitled'
    <3> SUFFICES ASSUME TurnsEntitled PROVE TurnsEntitled'
      OBVIOUS
    <3>1. ssState = 0
      BY <1>5 DEF TurnsEntitled
    <3>2. \A s \in ssSessions' : \A t : ssAgent'[s] = t /\ t # 0 => s \in ssSessions /\ ssAgent[s] = t
      BY <1>4, <2>2
    <3> QED
      BY <1>1, <1>2, <2>6, <3>1, <3>2, TurnsStayEntitled
  <2> QED
    BY <1>1, <2>4, <2>5, <2>7, <2>8 DEF SsInv, TurnsInOrder
<1>6. CASE ssActive # 0
  <2> PICK a : a = ssActive
    OBVIOUS
  <2>1. /\ ssAgent' = [ssAgent EXCEPT ![a] = 0] /\ ssResets' = [ssResets EXCEPT ![a] = @ + 1]
        /\ UNCHANGED <<ssSessions, ssCounter, ssActive>>
    BY <1>6 DEF ResetActive
  <2>2. /\ a \in SsIds
        /\ ssAgent' \in [SsIds -> 0 .. ssBegun] /\ ssAgent'[a] = 0
        /\ \A s \in SsIds : s # a => ssAgent'[s] = ssAgent[s]
        /\ ssResets' \in [SsIds -> Nat]
        /\ \A s \in SsIds : s # a => ssResets'[s] = ssResets[s]
    BY <1>4, <1>6, <2>1
  <2>3. SsTypeOK'
    BY <1>1, <1>2, <1>4, <2>1, <2>2, TypesStay DEF SsInv, ssFile
  <2>4. FilesOK' /\ FileFollows'
    <3>1. ssCounter <= ssCounter' /\ ssBegun <= ssBegun'
      BY <1>1, <1>4, <2>1
    <3> QED
      BY <1>1, <1>3, <2>3, <3>1, FileLeft DEF SsInv
  <2>5. TurnsApart => TurnsApart'
    BY <1>1, <1>2, <2>1, TurnsStayApart DEF TurnHeld
  <2>6. TurnsInOrder => TurnsEntitled'
    <3> SUFFICES ASSUME TurnsInOrder PROVE TurnsEntitled'
      OBVIOUS
    <3>1. \A s \in SsIds : \A t : Entitled(s, t) /\ (s # a \/ s \in ssBusy) => Entitled(s, t)'
      BY <1>1, <2>2 DEF Entitled
    <3>2. \A v \in SsWorkers : \A s, t : SsAt(v)' \in {"send", "loop"} /\ ssWork'[v].session = s /\ ssWork'[v].transcript = t =>
            t # 0 /\ Entitled(s, t)'
      <4> SUFFICES ASSUME NEW v \in SsWorkers, NEW s, NEW t,
                          SsAt(v)' \in {"send", "loop"}, ssWork'[v].session = s, ssWork'[v].transcript = t
                   PROVE  t # 0 /\ Entitled(s, t)'
        OBVIOUS
      <4>1. SsAt(v) \in {"send", "loop"} /\ ssWork[v] = ssWork'[v] /\ InTurn(v) /\ TurnHeld(v)
        BY <1>2 DEF SsAt, InTurn, TurnHeld
      <4>2. t # 0 /\ Entitled(s, t) /\ s \in ssBusy
        BY <4>1 DEF TurnsInOrder, TurnsApart, TurnsEntitled
      <4>3. s \in SsIds
        BY <4>1 DEF SsInv, SsTypeOK
      <4> QED
        BY <3>1, <4>2, <4>3
    <3>3. \A s, t : ssActive' = s /\ ssState' = t /\ t # 0 => s # 0 /\ Entitled(s, t)'
      BY <1>1, <1>6, <2>1 DEF TurnsInOrder, TurnsEntitled, Entitled
    <3>4. \A s \in ssSessions' : \A t : ssAgent'[s] = t /\ t # 0 => Entitled(s, t)'
      <4> SUFFICES ASSUME NEW s \in ssSessions, NEW t, ssAgent'[s] = t, t # 0
                   PROVE  Entitled(s, t)'
        BY <2>1
      <4>1. s \in SsIds /\ s # a /\ ssAgent[s] = t
        BY <1>4, <2>2
      <4> QED
        BY <3>1, <4>1 DEF TurnsInOrder, TurnsEntitled
    <3>5. \A v \in SsWorkers : SsAt(v)' = "clear" =>
            ssBusy' \subseteq ssUnderWay' /\ (ssState' = 0 \/ ssActive' \in ssUnderWay')
      <4>1. \A v \in SsWorkers : SsAt(v)' = "clear" => SsAt(v) = "clear"
        BY <1>2 DEF SsAt
      <4> QED
        BY <1>1, <2>1, <4>1 DEF TurnsInOrder, TurnsEntitled
    <3> QED
      BY <3>2, <3>3, <3>4, <3>5 DEF TurnsEntitled
  <2> QED
    BY <1>1, <2>3, <2>4, <2>5, <2>6 DEF SsInv, TurnsInOrder
<1> QED
  BY <1>5, <1>6

\* The reset is saved.
LEMMA ResetSavesStep ==
    ASSUME SsInv, NEW w \in SsWorkers, ResetSaves(w)
    PROVE  SsInv'
<1>1. /\ SsAt(w) = "save" /\ ~InTurn(w)
      /\ ssWork' = [ssWork EXCEPT ![w] = SsIdle]
      /\ SaveBegins(w)
      /\ UNCHANGED <<ssMemory, ssBusy, ssState, ssHistory, ssDisk, ssTransition, ssCounts, ssUnderWay>>
  BY DEF ResetSaves, InTurn
<1>2. /\ ssWork' \in [SsWorkers -> [at : SsLabels, session : 0 .. MaxSessions, transcript : 0 .. ssBegun]]
      /\ SsAt(w)' = "idle" /\ ~InTurn(w)'
      /\ \A v \in SsWorkers : v # w => ssWork'[v] = ssWork[v]
  BY <1>1, IdleMoves DEF SsInv, InTurn
<1>3. ssCounts' \in [command : Nat, turn : Nat, restart : Nat] /\ ssTransition' \in SUBSET SsWorkers
  BY <1>1 DEF SsInv, SsTypeOK
<1>4. SsTypeOK' /\ FilesOK' /\ FileFollows'
  BY <1>1, <1>2, <1>3, MemoryStays
<1>5. \A s, t : Entitled(s, t) => Entitled(s, t)'
  BY <1>1 DEF Entitled, ssHistory
<1>6. TurnsApart => TurnsApart'
  BY <1>1, <1>2, TurnsStayApart DEF TurnHeld, ssMemory
<1>7. TurnsEntitled => TurnsEntitled'
  BY <1>1, <1>2, <1>5, TurnsStayEntitled DEF ssMemory
<1> QED
  BY <1>1, <1>4, <1>6, <1>7 DEF SsInv, TurnsInOrder

\* /new and /switch close the process.
LEMMA ReplaceBeginsStep ==
    ASSUME SsInv, NEW w \in SsWorkers, ReplaceBegins(w)
    PROVE  SsInv'
<1> USE SsNumbers
<1>1. /\ SsAt(w) = "idle" /\ ~InTurn(w) /\ SsCount("command", MaxCommands) /\ ssState' = 0
      /\ ssTransition' = {w}
      /\ UNCHANGED <<ssMemory, ssBusy, ssHistory, ssFile, ssUnderWay>>
  BY DEF ReplaceBegins, ResetClears, InTurn
<1>2. /\ ssWork' \in [SsWorkers -> [at : SsLabels, session : 0 .. MaxSessions, transcript : 0 .. ssBegun]]
      /\ SsAt(w)' \in {"new", "switch"} /\ ~InTurn(w)'
      /\ \A v \in SsWorkers : v # w => ssWork'[v] = ssWork[v]
  <2>1. CASE SsTo(w, "new")
    <3>1. "new" \in SsLabels
      BY DEF SsLabels
    <3> QED
      BY <2>1, <3>1, LabelMoves DEF SsInv, InTurn
  <2>2. ASSUME NEW s \in ssSessions, ssWork' = [ssWork EXCEPT ![w] = [SsIdle EXCEPT !.at = "switch", !.session = s]]
        PROVE  /\ ssWork' \in [SsWorkers -> [at : SsLabels, session : 0 .. MaxSessions, transcript : 0 .. ssBegun]]
               /\ SsAt(w)' = "switch"
               /\ \A v \in SsWorkers : v # w => ssWork'[v] = ssWork[v]
    <3> PICK new : new = [SsIdle EXCEPT !.at = "switch", !.session = s]
      OBVIOUS
    <3>1. s \in 0 .. MaxSessions /\ 0 \in 0 .. ssBegun
      BY DEF SsInv, SsTypeOK
    <3>2. new = [at |-> "switch", session |-> s, transcript |-> 0]
      BY DEF SsIdle
    <3>3. new \in [at : SsLabels, session : 0 .. MaxSessions, transcript : 0 .. ssBegun] /\ new.at = "switch"
      BY <3>1, <3>2 DEF SsLabels
    <3>4. ssWork'[w] = new /\ \A v \in SsWorkers : v # w => ssWork'[v] = ssWork[v]
      BY <2>2, WorkMoves DEF SsInv
    <3> QED
      BY <2>2, <3>3, <3>4 DEF SsInv, SsTypeOK, SsAt
  <2> QED
    BY <2>1, <2>2 DEF ReplaceBegins, InTurn
<1>3. /\ ssCounts' \in [command : Nat, turn : Nat, restart : Nat] /\ ssCounts'.restart = ssCounts.restart
      /\ ssTransition' \in SUBSET SsWorkers
  BY <1>1, CountKept DEF SsInv
<1>4. SsTypeOK' /\ FilesOK' /\ FileFollows'
  <2>1. UNCHANGED <<ssMemory, ssHistory, ssDisk>> /\ UNCHANGED <<ssSaving, ssOverlap>> /\ SsAt(w) \notin {"reset", "save"}
    BY <1>1 DEF ssFile
  <2> QED
    BY <1>1, <1>2, <1>3, <2>1, MemoryStays
<1>5. \A s, t : Entitled(s, t) => Entitled(s, t)'
  BY <1>1 DEF Entitled, ssHistory
<1>6. TurnsApart => TurnsApart'
  BY <1>1, <1>2, TurnsStayApart DEF TurnHeld, ssMemory
<1>7. TurnsEntitled => TurnsEntitled'
  BY <1>1, <1>2, <1>5, TurnsStayEntitled DEF ssMemory
<1> QED
  BY <1>3, <1>4, <1>6, <1>7 DEF SsInv, TurnsInOrder

\* Another session is the active one, and those that a turn crosses are excepted.
LEMMA ActiveMoves ==
    ASSUME SsInv, TurnsInOrder, NEW w \in SsWorkers, ~InTurn(w), Crosses, ssActive' \in ssSessions',
           ssActive' \in SsIds, UNCHANGED <<ssBusy, ssState, ssHistory>>,
           SsAt(w)' = "idle", \A v \in SsWorkers : v # w => ssWork'[v] = ssWork[v],
           \A s \in ssSessions' : \A t : ssAgent'[s] = t /\ t # 0 => s \in ssSessions /\ ssAgent[s] = t
    PROVE  TurnsInOrder'
<1>1. ssUnderWay \subseteq ssUnderWay' /\ (\A v \in NotSent : ssWork[v].session \in ssUnderWay')
      /\ (ssState # 0 \/ NotSent # {} => ssActive' \in ssUnderWay')
  BY DEF Crosses
<1>2. \A v \in SsWorkers : TurnHeld(v)' \/ SsAt(v)' = "clear" => v # w
  BY DEF InTurn, TurnHeld
<1>3. \A v \in SsWorkers : v # w => (TurnHeld(v)' <=> TurnHeld(v)) /\ SsAt(v)' = SsAt(v) /\ ssWork'[v] = ssWork[v]
  BY DEF SsAt, InTurn, TurnHeld
<1>4. \A s, t : Entitled(s, t) => Entitled(s, t)'
  BY <1>1 DEF Entitled, ssHistory
<1>5. TurnsApart'
  <2>1. \A v \in SsWorkers : TurnHeld(v)' => ssWork'[v].session \in ssBusy'
    BY <1>2, <1>3 DEF TurnsInOrder, TurnsApart
  <2>2. \A v, x \in SsWorkers : TurnHeld(v)' /\ TurnHeld(x)' /\ ssWork'[v].session = ssWork'[x].session => v = x
    BY <1>2, <1>3 DEF TurnsInOrder, TurnsApart
  <2>3. \A v \in SsWorkers : SsAt(v)' \in {"begin", "state", "send"} =>
           ssActive' # 0 /\ ssActive' \in ssUnderWay' /\ ssWork'[v].session \in ssUnderWay'
    <3> TAKE v \in SsWorkers
    <3> HAVE SsAt(v)' \in {"begin", "state", "send"}
    <3>1. v \in NotSent /\ ssWork'[v] = ssWork[v]
      BY <1>3 DEF NotSent
    <3> QED
      BY <1>1, <3>1 DEF SsIds
  <2> QED
    BY <2>1, <2>2, <2>3 DEF TurnsApart
<1>6. TurnsEntitled'
  <2>1. \A v \in SsWorkers : \A s, t : SsAt(v)' \in {"send", "loop"} /\ ssWork'[v].session = s /\ ssWork'[v].transcript = t =>
          t # 0 /\ Entitled(s, t)'
    BY <1>3, <1>4 DEF TurnsInOrder, TurnsEntitled
  <2>2. \A s, t : ssActive' = s /\ ssState' = t /\ t # 0 => s # 0 /\ Entitled(s, t)'
    BY <1>1 DEF Entitled, SsIds
  <2>3. \A s \in ssSessions' : \A t : ssAgent'[s] = t /\ t # 0 => Entitled(s, t)'
    BY <1>4 DEF TurnsInOrder, TurnsEntitled
  <2>4. \A v \in SsWorkers : SsAt(v)' = "clear" =>
          ssBusy' \subseteq ssUnderWay' /\ (ssState' = 0 \/ ssActive' \in ssUnderWay')
    BY <1>1, <1>2, <1>3 DEF TurnsInOrder, TurnsEntitled
  <2> QED
    BY <2>1, <2>2, <2>3, <2>4 DEF TurnsEntitled
<1> QED
  BY <1>5, <1>6 DEF TurnsInOrder

\* A command of the mutex mu is over.
LEMMA ReplaceOver ==
    ASSUME SsInv, NEW w \in SsWorkers, ReplaceEnds(w)
    PROVE  /\ ssWork' \in [SsWorkers -> [at : SsLabels, session : 0 .. MaxSessions, transcript : 0 .. ssBegun]]
           /\ SsAt(w)' = "idle" /\ ~InTurn(w)'
           /\ \A v \in SsWorkers : v # w => ssWork'[v] = ssWork[v]
           /\ \A v \in SsWorkers : InTurn(v)' => ssWork'[v].session \in SsIds
           /\ ssTransition' \in SUBSET SsWorkers
           /\ UNCHANGED <<ssBusy, ssState, ssBegun, ssBorn, ssResets, ssCounts>>
<1>1. /\ ssWork' = [ssWork EXCEPT ![w] = SsIdle] /\ ssTransition' = ssTransition \ {w}
      /\ UNCHANGED <<ssBusy, ssState, ssBegun, ssBorn, ssResets, ssCounts>>
  BY DEF ReplaceEnds, ssHistory
<1>2. /\ ssWork' \in [SsWorkers -> [at : SsLabels, session : 0 .. MaxSessions, transcript : 0 .. ssBegun]]
      /\ SsAt(w)' = "idle" /\ ~InTurn(w)'
      /\ \A v \in SsWorkers : v # w => ssWork'[v] = ssWork[v]
  BY <1>1, IdleMoves DEF SsInv, InTurn
<1>3. \A v \in SsWorkers : InTurn(v)' => InTurn(v) /\ ssWork'[v] = ssWork[v]
  BY <1>2 DEF InTurn, SsAt
<1>4. \A v \in SsWorkers : InTurn(v)' => ssWork'[v].session \in SsIds
  BY <1>3 DEF SsInv, SsTypeOK
<1>5. ssTransition' \in SUBSET SsWorkers
  BY <1>1 DEF SsInv, SsTypeOK
<1> QED
  BY <1>1, <1>2, <1>4, <1>5

\* /new: a session without a transcript becomes the active one.
LEMMA NewSessionStep ==
    ASSUME SsInv, NEW w \in SsWorkers, NewSession(w)
    PROVE  SsInv'
<1> USE SsNumbers
<1>1. SsAt(w) = "new" /\ ~InTurn(w) /\ Locked /\ Create /\ WriteFile /\ Crosses /\ ReplaceEnds(w)
  BY DEF NewSession, InTurn
<1>2. /\ ssWork' \in [SsWorkers -> [at : SsLabels, session : 0 .. MaxSessions, transcript : 0 .. ssBegun]]
      /\ SsAt(w)' = "idle" /\ ~InTurn(w)'
      /\ \A v \in SsWorkers : v # w => ssWork'[v] = ssWork[v]
      /\ \A v \in SsWorkers : InTurn(v)' => ssWork'[v].session \in SsIds
      /\ ssTransition' \in SUBSET SsWorkers
      /\ UNCHANGED <<ssBusy, ssState, ssBegun, ssBorn, ssResets, ssCounts>>
  BY <1>1, ReplaceOver
<1>3. /\ ssActive' \in SsIds /\ ssActive' = ssCounter' /\ ssActive' # 0
      /\ ssCounter' \in 0 .. MaxSessions
      /\ ssSessions' = ssSessions \cup {ssCounter'} /\ ssSessions' \subseteq 1 .. ssCounter'
      /\ ssAgent' \in [SsIds -> 0 .. ssBegun] /\ ssAgent'[ssCounter'] = 0
      /\ \A s \in SsIds : s # ssCounter' => ssAgent'[s] = ssAgent[s]
  BY <1>1, Creates DEF SsInv
<1>4. SsTypeOK'
  <2>1. /\ ssBegun \in 0 .. MaxTranscripts /\ ssState \in 0 .. ssBegun
        /\ ssBorn \in [1 .. MaxTranscripts -> (0 .. MaxSessions) \X Nat] /\ ssResets \in [SsIds -> Nat]
        /\ ssCounts \in [command : Nat, turn : Nat, restart : Nat]
    BY DEF SsInv, SsTypeOK
  <2>2. ssActive' \in ssSessions' \cup {0} /\ ssOverlap' \in BOOLEAN
    BY <1>1, <1>3 DEF WriteFile
  <2> QED
    BY <1>2, <1>3, <2>1, <2>2 DEF SsTypeOK
<1>5. FilesOK' /\ FileFollows'
  BY <1>1, <1>4, FileWritten DEF SsInv
<1>6. TurnsInOrder => TurnsInOrder'
  <2>1. ssSessions \subseteq SsIds
    BY DEF SsInv, SsTypeOK, SsIds
  <2>2. \A s \in ssSessions' : \A t : ssAgent'[s] = t /\ t # 0 => s \in ssSessions /\ ssAgent[s] = t
    BY <1>3, <2>1
  <2> QED
    BY <1>1, <1>2, <1>3, <2>2, ActiveMoves DEF ssHistory
<1> QED
  BY <1>2, <1>4, <1>5, <1>6 DEF SsInv

\* /switch: a session becomes the active one that there is, or the command finds none.
LEMMA SwitchSessionStep ==
    ASSUME SsInv, NEW w \in SsWorkers, SwitchSession(w)
    PROVE  SsInv'
<1> USE SsNumbers
<1> PICK s : s = ssWork[w].session
  OBVIOUS
<1>1. /\ SsAt(w) = "switch" /\ ~InTurn(w) /\ Locked /\ ReplaceEnds(w)
      /\ \/ /\ s \in ssSessions /\ ssActive' = s /\ UNCHANGED <<ssSessions, ssCounter, ssAgent>>
            /\ WriteFile /\ Crosses
         \/ UNCHANGED <<ssMemory, ssFile, ssUnderWay>>
  BY DEF SwitchSession, InTurn
<1>2. /\ ssWork' \in [SsWorkers -> [at : SsLabels, session : 0 .. MaxSessions, transcript : 0 .. ssBegun]]
      /\ SsAt(w)' = "idle" /\ ~InTurn(w)'
      /\ \A v \in SsWorkers : v # w => ssWork'[v] = ssWork[v]
      /\ \A v \in SsWorkers : InTurn(v)' => ssWork'[v].session \in SsIds
      /\ ssTransition' \in SUBSET SsWorkers
      /\ UNCHANGED <<ssBusy, ssState, ssBegun, ssBorn, ssResets, ssCounts>>
  BY <1>1, ReplaceOver
<1>3. SsTypeOK
  BY DEF SsInv
<1>4. CASE /\ s \in ssSessions /\ ssActive' = s /\ UNCHANGED <<ssSessions, ssCounter, ssAgent>>
           /\ WriteFile /\ Crosses
  <2>1. s \in SsIds /\ s # 0
    BY <1>3, <1>4 DEF SsTypeOK, SsIds
  <2>2. SsTypeOK'
    BY <1>2, <1>3, <1>4, <2>1 DEF SsTypeOK, WriteFile
  <2>3. FilesOK' /\ FileFollows'
    BY <1>1, <1>4, <2>2, FileWritten DEF SsInv
  <2>4. TurnsInOrder => TurnsInOrder'
    BY <1>1, <1>2, <1>4, <2>1, ActiveMoves DEF ssHistory
  <2> QED
    BY <1>2, <2>2, <2>3, <2>4 DEF SsInv
<1>5. CASE UNCHANGED <<ssMemory, ssFile, ssUnderWay>>
  <2>1. /\ UNCHANGED <<ssMemory, ssHistory, ssDisk>> /\ UNCHANGED <<ssSaving, ssOverlap>>
        /\ SsAt(w) \notin {"reset", "save"} /\ ssState' \in {0, ssState}
        /\ ssCounts' \in [command : Nat, turn : Nat, restart : Nat]
    BY <1>1, <1>2, <1>3, <1>5 DEF ssFile, ssHistory, SsTypeOK
  <2>2. SsTypeOK' /\ FilesOK' /\ FileFollows'
    BY <1>2, <2>1, MemoryStays
  <2>3. \A q, t : Entitled(q, t) => Entitled(q, t)'
    BY <1>2, <1>5 DEF Entitled
  <2>4. TurnsApart => TurnsApart'
    BY <1>2, <1>5, TurnsStayApart DEF TurnHeld, ssMemory
  <2>5. TurnsEntitled => TurnsEntitled'
    BY <1>2, <1>5, <2>3, TurnsStayEntitled DEF ssMemory
  <2> QED
    BY <1>2, <2>2, <2>4, <2>5 DEF SsInv, TurnsInOrder
<1> QED
  BY <1>1, <1>4, <1>5

\* /delete: a session goes that is not the active one.
LEMMA DeleteSessionStep ==
    ASSUME SsInv, NEW w \in SsWorkers, DeleteSession(w)
    PROVE  SsInv'
<1> USE SsNumbers
<1>1. /\ SsAt(w) = "idle" /\ ~InTurn(w) /\ SsCount("command", MaxCommands) /\ Locked /\ WriteFile
      /\ ssSessions' \subseteq ssSessions /\ (ssActive \in ssSessions => ssActive \in ssSessions')
      /\ UNCHANGED <<ssCounter, ssActive, ssAgent, ssState, ssBusy, ssHistory, ssWork, ssTransition, ssUnderWay>>
  BY DEF DeleteSession, InTurn
<1>2. ssCounts' \in [command : Nat, turn : Nat, restart : Nat] /\ ssCounts'.restart = ssCounts.restart
  BY <1>1, CountKept DEF SsInv
<1>3. SsTypeOK'
  <2>1. SsTypeOK
    BY DEF SsInv
  <2>2. UNCHANGED <<ssBegun, ssBorn, ssResets, ssWork, ssTransition>> /\ ssOverlap' \in BOOLEAN
    BY <1>1 DEF ssHistory, WriteFile
  <2>3. /\ ssActive' \in ssSessions' \cup {0} /\ ssSessions' \subseteq 1 .. ssCounter'
        /\ (ssActive' = 0 => ssSessions' = {})
    BY <1>1, <2>1 DEF SsTypeOK
  <2> QED
    BY <1>1, <1>2, <2>1, <2>2, <2>3 DEF SsTypeOK, InTurn, SsAt
<1>4. FilesOK' /\ FileFollows'
  BY <1>1, <1>3, FileWritten DEF SsInv
<1>5. \A s, t : Entitled(s, t) => Entitled(s, t)'
  BY <1>1 DEF Entitled, ssHistory
<1>6. SsAt(w)' = SsAt(w) /\ ssWork'[w] = ssWork[w]
  BY <1>1 DEF SsAt
<1>7. TurnsApart => TurnsApart'
  BY <1>1, <1>6, TurnsStayApart DEF TurnHeld, InTurn
<1>8. TurnsEntitled => TurnsEntitled'
  BY <1>1, <1>5, <1>6, TurnsStayEntitled
<1> QED
  BY <1>2, <1>3, <1>4, <1>7, <1>8 DEF SsInv, TurnsInOrder

\* A restart takes the file, with which the memory is up to date then; nobody is at work.
LEMMA RestartStep ==
    ASSUME SsInv, SsRestart
    PROVE  SsInv'
<1> USE SsNumbers
<1>1. /\ ssSessions' = ssDisk.sessions /\ ssCounter' = ssDisk.counter
      /\ ssActive' = ssDisk.active /\ ssAgent' = ssDisk.agent
      /\ ssState' = 0 /\ ssTransition' = {} /\ ssOverlap' = FALSE
      /\ ssSaving' = [w \in SsWorkers |-> NoSave] /\ ssWork' = [w \in SsWorkers |-> SsIdle]
      /\ UNCHANGED <<ssBegun, ssBorn, ssResets, ssDisk>>
      /\ ssCounts' = [ssCounts EXCEPT !["restart"] = @ + 1]
  BY DEF SsRestart, SsCount, ssHistory
<1>2. /\ ssBegun \in 0 .. MaxTranscripts /\ ssCounter \in 0 .. MaxSessions
      /\ ssBorn \in [1 .. MaxTranscripts -> (0 .. MaxSessions) \X Nat] /\ ssResets \in [SsIds -> Nat]
      /\ ssCounts \in [command : Nat, turn : Nat, restart : Nat]
  BY DEF SsInv, SsTypeOK
<1>3. ssCounts' \in [command : Nat, turn : Nat, restart : Nat] /\ ssCounts'.restart # 0
  BY <1>1, <1>2
<1>4. /\ ssDisk \in [sessions : SUBSET SsIds, counter : 0 .. MaxSessions, active : 0 .. MaxSessions,
                     agent : [SsIds -> 0 .. ssBegun]]
      /\ ssDisk.sessions \subseteq 1 .. ssDisk.counter /\ ssDisk.active \in ssDisk.sessions \cup {0}
      /\ (ssDisk.active = 0 => ssDisk.sessions = {})
      /\ \A s \in SsIds : s \notin ssDisk.sessions => ssDisk.agent[s] = 0
  <2> PICK f, c, b : f = ssDisk /\ c = ssCounter /\ b = ssBegun
    OBVIOUS
  <2>1. FileOK(f, c, b)
    BY DEF SsInv, FilesOK
  <2> QED
    BY <2>1 DEF FileOK
<1>5. \A w \in SsWorkers : SsAt(w)' = "idle" /\ ~InTurn(w)' /\ ssSaving'[w] = NoSave
  BY <1>1 DEF SsAt, InTurn, SsIdle
<1>6. ssWork' \in [SsWorkers -> [at : SsLabels, session : 0 .. MaxSessions, transcript : 0 .. ssBegun]]
  <2>1. SsIdle \in [at : SsLabels, session : 0 .. MaxSessions, transcript : 0 .. ssBegun]
    BY <1>2 DEF SsIdle, SsLabels
  <2> QED
    BY <1>1, <2>1
<1>7. SsTypeOK'
  <2>1. /\ ssDisk.sessions \in SUBSET SsIds /\ ssDisk.counter \in 0 .. MaxSessions
        /\ ssDisk.agent \in [SsIds -> 0 .. ssBegun]
    BY <1>4
  <2>2. ssState' \in 0 .. ssBegun'
    BY <1>1, <1>2
  <2> QED
    BY <1>1, <1>2, <1>3, <1>4, <1>5, <1>6, <2>1, <2>2 DEF SsTypeOK
<1>8. Saving' = {} /\ ~Unsaved'
  BY <1>5 DEF Saving, Unsaved
<1>9. FilesOK'
  <2>1. ssSaving' = [w \in SsWorkers |-> ssSaving'[w]]
    BY <1>1
  <2>2. ASSUME NEW f, NEW c, NEW b, c = ssCounter', b = ssBegun', f = ssDisk'
        PROVE  FileOK(f, c, b)
    <3>1. c = f.counter /\ c \in Nat /\ f.counter <= c /\ b = ssBegun
      BY <1>1, <1>4, <2>2
    <3> QED
      BY <1>1, <1>4, <2>2, <3>1 DEF FileOK
  <2> QED
    BY <1>8, <2>1, <2>2 DEF FilesOK
<1>10. FileFollows'
  <2>1. ASSUME NEW f, f = ssDisk' PROVE UpToDate(f)'
    <3>1. Snapshot' = [sessions |-> f.sessions, counter |-> f.counter, active |-> f.active,
                       agent |-> [s \in SsIds |-> IF s \in f.sessions THEN f.agent[s] ELSE 0]]
      BY <1>1, <2>1 DEF Snapshot
    <3>2. [s \in SsIds |-> IF s \in f.sessions THEN f.agent[s] ELSE 0] = f.agent
      BY <1>1, <1>4, <2>1
    <3>3. f = [sessions |-> f.sessions, counter |-> f.counter, active |-> f.active, agent |-> f.agent]
      BY <1>1, <1>4, <2>1
    <3> QED
      BY <3>1, <3>2, <3>3 DEF UpToDate
  <2> QED
    BY <1>8, <2>1 DEF FileFollows
<1> QED
  BY <1>3, <1>7, <1>9, <1>10 DEF SsInv

\* Every step keeps the invariant.
LEMMA SsKept == SsInv /\ [SsNext]_ssVars => SsInv'
<1> SUFFICES ASSUME SsInv, [SsNext]_ssVars PROVE SsInv'
  OBVIOUS
<1>1. ASSUME NEW w \in SsWorkers, SsTurn(w) PROVE SsInv'
  BY <1>1, TurnReadsStep, TurnBeginsStep, TakesStateStep, SendsStep, LostStep, TurnEndSteps, BindStep DEF SsTurn
<1>2. ASSUME NEW w \in SsWorkers, SsCommand(w) PROVE SsInv'
  BY <1>2, ResetBeginsStep, ResetActiveStep, ResetSavesStep, ReplaceBeginsStep, NewSessionStep,
     SwitchSessionStep, DeleteSessionStep DEF SsCommand
<1>3. ASSUME NEW w \in SsWorkers, SaveEnds(w) PROVE SsInv'
  BY <1>3, FileSaved
<1>4. CASE SsRestart
  BY <1>4, RestartStep
<1>5. CASE UNCHANGED ssVars
  <2>1. SsTypeOK' /\ FilesOK'
    BY <1>5 DEF SsInv, SsTypeOK, FilesOK, Saving, InTurn, SsAt, ssVars, ssMemory, ssHistory, ssFile
  <2>2. FileFollows'
    BY <1>5 DEF SsInv, FileFollows, Unsaved, UpToDate, Snapshot, Saving, SsAt, ssVars, ssMemory, ssHistory, ssFile
  <2>3. TurnsInOrder => TurnsInOrder'
    BY ZenonT(60), <1>5 DEF TurnsInOrder, TurnsApart, TurnsEntitled, Entitled, TurnHeld, InTurn, SsAt, ssVars, ssMemory,
                ssHistory
  <2> QED
    BY <1>5, <2>1, <2>2, <2>3 DEF SsInv, ssVars
<1> QED
  BY <1>1, <1>2, <1>3, <1>4, <1>5 DEF SsNext

\* At first there is no session, and nothing that the file lacks.
LEMMA SsStarts == SsInit => SsInv
<1> USE SsNumbers
<1> SUFFICES ASSUME SsInit PROVE SsInv
  OBVIOUS
<1>1. /\ ssSessions = {} /\ ssCounter = 0 /\ ssActive = 0 /\ ssAgent = [s \in SsIds |-> 0]
      /\ ssBusy = {} /\ ssState = 0 /\ ssBegun = 0
      /\ ssBorn = [t \in 1 .. MaxTranscripts |-> <<0, 0>>] /\ ssResets = [s \in SsIds |-> 0]
      /\ ssSaving = [w \in SsWorkers |-> NoSave] /\ ssWork = [w \in SsWorkers |-> SsIdle]
      /\ ssTransition = {} /\ ssOverlap = FALSE
      /\ ssCounts = [command |-> 0, turn |-> 0, restart |-> 0]
  BY DEF SsInit
<1>2. \A w \in SsWorkers : SsAt(w) = "idle" /\ ~InTurn(w) /\ ssSaving[w] = NoSave
  BY <1>1 DEF SsAt, InTurn, SsIdle
<1>3. SsTypeOK
  <2>1. SsIdle \in [at : SsLabels, session : 0 .. MaxSessions, transcript : 0 .. ssBegun]
    BY <1>1 DEF SsIdle, SsLabels
  <2>2. ssWork \in [SsWorkers -> [at : SsLabels, session : 0 .. MaxSessions, transcript : 0 .. ssBegun]]
    BY <1>1, <2>1
  <2>3. /\ ssBorn \in [1 .. MaxTranscripts -> (0 .. MaxSessions) \X Nat] /\ ssResets \in [SsIds -> Nat]
        /\ ssAgent \in [SsIds -> 0 .. ssBegun] /\ ssState \in 0 .. ssBegun
        /\ ssBegun \in 0 .. MaxTranscripts /\ ssCounter \in 0 .. MaxSessions
        /\ ssCounts \in [command : Nat, turn : Nat, restart : Nat]
    BY <1>1
  <2> QED
    BY <1>1, <1>2, <2>2, <2>3 DEF SsTypeOK
<1>4. Saving = {} /\ ~Unsaved
  BY <1>2 DEF Saving, Unsaved
<1>5. ssDisk = Snapshot
  BY DEF SsInit
<1>6. /\ ssDisk = [sessions |-> {}, counter |-> 0, active |-> 0, agent |-> ssDisk.agent]
      /\ ssDisk.agent \in [SsIds -> 0 .. ssBegun]
  BY <1>1, <1>5 DEF Snapshot
<1>7. FilesOK
  <2>1. ASSUME NEW f, NEW c, NEW b, c = ssCounter, b = ssBegun, f = ssDisk
        PROVE  FileOK(f, c, b)
    BY <1>1, <1>6, <2>1 DEF FileOK
  <2>2. ssSaving = [w \in SsWorkers |-> ssSaving[w]]
    BY <1>1
  <2> QED
    BY <1>4, <2>1, <2>2 DEF FilesOK
<1>8. FileFollows
  <2>1. ASSUME NEW f, f = ssDisk PROVE UpToDate(f)
    BY <1>5, <2>1 DEF UpToDate
  <2> QED
    BY <1>4, <2>1 DEF FileFollows
<1>9. TurnsInOrder
  BY <1>1, <1>2 DEF TurnsInOrder, TurnsApart, TurnsEntitled, TurnHeld
<1> QED
  BY <1>3, <1>7, <1>8, <1>9 DEF SsInv

\* A session goes on with the transcript that was begun for it after its last reset, for any
\* number of workers, sessions and commands, unless a turn was under way on it at a reset, a turn
\* crossed it and another session at /new or /switch, or the process was restarted.
THEOREM ResetsStick == SsSpec => []ResetSticks
<1>1. SsInv => ResetSticks
  <2> SUFFICES ASSUME SsInv, ssCounts.restart = 0, NEW s \in ssSessions \ ssUnderWay, ssAgent[s] # 0
               PROVE  ssBorn[ssAgent[s]] = <<s, ssResets[s]>>
    BY DEF ResetSticks
  <2> PICK t : t = ssAgent[s]
    OBVIOUS
  <2>1. Entitled(s, t)
    BY DEF SsInv, TurnsInOrder, TurnsEntitled
  <2> QED
    BY <2>1 DEF Entitled
<1> QED
  BY <1>1, SsStarts, SsKept, PTL DEF SsSpec

\* When nobody is at work the file is the snapshot of the memory, or has no session yet where the
\* memory has one without a transcript, unless two Saves overlapped: whoever changed the memory
\* has saved it, and nobody changed it since.
THEOREM FilesFollow == SsSpec => []FileCurrentAtRest
<1>1. SsInv => FileCurrentAtRest
  <2> SUFFICES ASSUME SsInv, AtRest, ~ssOverlap
               PROVE  ssDisk = Snapshot \/ FirstUnsaved
    BY DEF FileCurrentAtRest
  <2>1. Saving = {} /\ ~Unsaved
    BY DEF AtRest, Unsaved
  <2> PICK f : f = ssDisk
    OBVIOUS
  <2>2. UpToDate(f)
    BY <2>1 DEF SsInv, FileFollows
  <2> QED
    BY <2>2 DEF UpToDate, FirstUnsaved
<1> QED
  BY <1>1, SsStarts, SsKept, PTL DEF SsSpec

-----------------------------------------------------------------------------
(* Intake: what waits for a request is kept until it is sent, and sent once. *)

InLabels == {"idle", "text", "attachment", "voice", "asks", "text asks", "has", "text has", "buffer", "store",
             "attach", "awaits", "confirm", "drop", "modify", "edit", "edited", "session", "clear", "command", "start", "attachments",
             "absorb", "append", "cancel", "flush", "flushing", "flushed"}
Holding == {"session", "clear", "absorb", "append", "flushing", "flushed"}
Commanding == {"idle", "command", "start", "attachments", "absorb", "append", "cancel"}
Doings == [at : InLabels, item : Items \cup {0}, held : SUBSET Items, pending : Items \cup {0}]
Batches == [there : BOOLEAN, items : SUBSET Items, flushing : BOOLEAN, awaiting : BOOLEAN, retry : BOOLEAN,
            asked : BOOLEAN]
Held(h) == inDoing[h].held

\* Answers to a dictation, and those that have a copy of its text.
VoiceLabels == {"confirm", "drop", "modify", "edit", "edited"}
Copying == VoiceLabels \ {"edit"}

InTypeOK ==
    /\ inAttach \in SUBSET Items /\ Dictated \in Items \cup {0} /\ inBatch \in Batches
    /\ inDoing \in [Handlers -> Doings]
    /\ inItems \in 0 .. MaxItems /\ inSent \in [Items -> Nat] /\ inKept \in SUBSET Items
    /\ \A h \in Handlers : /\ At(h) \notin Holding => Held(h) = {}
                           /\ At(h) \in Commanding => Item(h) = 0
                           /\ At(h) \notin Commanding \cup {"flush", "flushing", "flushed"} => Item(h) # 0

\* Where an item is that is not lost: in a store, sent, or with a handler that does not put
\* it back when it stops; what others hold is a copy.
Safe(i) ==
    \/ i \in inAttach \/ i \in inBatch.items \/ i = Dictated \/ i \in inTold \/ inSent[i] > 0
    \/ \E h \in Handlers : Item(h) = i \/ (At(h) = "append" /\ i \in Held(h))

\* Who is about to empty a store has copied what is in it, and has sent it when it only has
\* to empty the store.
Keeping ==
    /\ \A h \in Handlers : At(h) \in {"session", "clear", "absorb"} => inAttach \ inCrossed \subseteq Held(h)
    /\ \A h \in Handlers : At(h) \in {"flushing", "flushed"} => inBatch.items \ inCrossed \subseteq Held(h)
    /\ \A h \in Handlers, i \in Items : At(h) \in {"clear", "flushed"} /\ (i \in Held(h) \/ i = Item(h)) => inSent[i] > 0
    /\ \A i \in inKept \ inCrossed : Safe(i)

\* An item is with one handler or in one store; when a handler has a copy of what is in a
\* store the next one shares it, and what was sent is only in a store that is about to be
\* emptied.
Has(h, i) == i = Item(h) \/ i \in Held(h)
OnceOf(i) ==
    /\ \A g, h \in Handlers : Has(g, i) /\ Has(h, i) => g = h
    /\ inSent[i] > 0 => inSent[i] = 1 /\ \A h \in Handlers : Has(h, i) => At(h) \in {"clear", "flushed"}
    /\ i \in inAttach =>
         /\ i # Dictated /\ i \notin inBatch.items
         /\ \A h \in Handlers : Has(h, i) => Item(h) # i /\ At(h) \in {"session", "clear", "absorb"}
         /\ inSent[i] > 0 => \E h \in Handlers : i \in Held(h)
    /\ i \in inBatch.items =>
         /\ i # Dictated
         /\ \A h \in Handlers : Has(h, i) => Item(h) # i /\ At(h) \in {"flushing", "flushed"} /\ inBatch.flushing
         /\ inSent[i] > 0 => \E h \in Handlers : i \in Held(h)
    /\ i = Dictated => inSent[i] = 0 /\ \A h \in Handlers : Has(h, i) => At(h) \in Copying
    /\ i > inItems => /\ inSent[i] = 0 /\ i \notin inAttach /\ i \notin inBatch.items /\ i # Dictated
                      /\ \A h \in Handlers : ~Has(h, i)

InInv == InTypeOK /\ Keeping /\ \A i \in Items \ inShared : OnceOf(i)

\* Dictations and the answers to them: a copy is what the dictation has unless several share it,
\* and a confirmation empties the store of what it confirms.
VoiceTypes ==
    /\ inVoice \in Items \cup {0} /\ inText \in [0 .. MaxItems -> Items \cup {0}]
    /\ inText[0] = 0 /\ (inVoice # 0 => Dictated # 0)
    /\ \A h \in Handlers : IF At(h) \in VoiceLabels THEN Pending(h) # 0 /\ inText[Pending(h)] # 0 ELSE Pending(h) = 0
CopyOf(h) == Item(h) = inText[Pending(h)] \/ {Item(h), inText[Pending(h)]} \subseteq inShared
VoiceInv ==
    /\ VoiceTypes
    /\ \A h \in Handlers : At(h) \in Copying => CopyOf(h)
    /\ \A g, h \in Handlers : g # h /\ Pending(g) = Pending(h) /\ Pending(g) # 0 => inText[Pending(g)] \in inShared
    /\ \A h \in Handlers : At(h) \in {"confirm", "drop"} => inVoice \in {0, Pending(h)} \/ Dictated \in inCrossed
    /\ \A h \in Handlers : At(h) \in Copying /\ Item(h) = Dictated => Pending(h) = inVoice \/ Dictated \in inShared

\* The bound is a number, and 0 no item.
LEMMA ItemNumbers == MaxItems \in Nat /\ Items \subseteq Nat /\ 0 \notin Items
  BY IntakeAssumption DEF Items

\* A handler goes on to do something else.
LEMMA DoingMoves ==
    ASSUME InTypeOK, NEW h \in Handlers, NEW r \in Doings, inDoing' = [inDoing EXCEPT ![h] = r]
    PROVE  /\ inDoing' \in [Handlers -> Doings]
           /\ At(h)' = r.at /\ Item(h)' = r.item /\ Held(h)' = r.held /\ Pending(h)' = r.pending
           /\ \A g \in Handlers : g # h => inDoing'[g] = inDoing[g]
  BY DEF InTypeOK, At, Item, Held, Pending

\* It goes on with what it has ...
LEMMA GoesOn ==
    ASSUME InTypeOK, NEW h \in Handlers, NEW label \in InLabels, Goes(h, label)
    PROVE  /\ inDoing' \in [Handlers -> Doings]
           /\ At(h)' = label /\ Item(h)' = Item(h) /\ Held(h)' = Held(h) /\ Pending(h)' = Pending(h)
           /\ \A g \in Handlers : g # h => inDoing'[g] = inDoing[g]
<1> PICK r : r = [inDoing[h] EXCEPT !.at = label]
  OBVIOUS
<1>1. inDoing[h] \in Doings
  BY DEF InTypeOK
<1>2. r \in Doings /\ r.at = label /\ r.item = inDoing[h].item /\ r.held = inDoing[h].held /\ r.pending = inDoing[h].pending
  BY <1>1 DEF Doings
<1>3. inDoing' = [inDoing EXCEPT ![h] = r]
  BY DEF Goes
<1> QED
  BY <1>2, <1>3, DoingMoves DEF Item, Held, Pending

\* ... or is done with it.
LEMMA Rests ==
    ASSUME InTypeOK, NEW h \in Handlers, Done(h)
    PROVE  /\ inDoing' \in [Handlers -> Doings]
           /\ At(h)' = "idle" /\ Item(h)' = 0 /\ Held(h)' = {} /\ Pending(h)' = 0
           /\ \A g \in Handlers : g # h => inDoing'[g] = inDoing[g]
<1> PICK r : r = Resting
  OBVIOUS
<1>1. r \in Doings /\ r.at = "idle" /\ r.item = 0 /\ r.held = {} /\ r.pending = 0
  BY DEF Doings, Resting, InLabels
<1>2. inDoing' = [inDoing EXCEPT ![h] = r]
  BY DEF Done
<1> QED
  BY <1>1, <1>2, DoingMoves

\* What a step of handler h has to see to for Keeping: its own part, what it puts into a store
\* that another one is emptying, and what it takes from where it was.
LEMMA KeepsWell ==
    ASSUME InTypeOK, InTypeOK', Keeping, NEW h \in Handlers,
           \A g \in Handlers : g # h => inDoing'[g] = inDoing[g],
           inCrossed \subseteq inCrossed', inTold \subseteq inTold', \A i \in Items : inSent[i] > 0 => inSent'[i] > 0,
           At(h)' \in {"session", "clear", "absorb"} => inAttach' \ inCrossed' \subseteq Held(h)',
           At(h)' \in {"flushing", "flushed"} => inBatch'.items \ inCrossed' \subseteq Held(h)',
           At(h)' \in {"clear", "flushed"} => \A i \in Items : i \in Held(h)' \/ i = Item(h)' => inSent'[i] > 0,
           inAttach' \ inCrossed' \subseteq inAttach
             \/ \A g \in Handlers : g # h => At(g) \notin {"session", "clear", "absorb"},
           inBatch'.items \ inCrossed' \subseteq inBatch.items
             \/ \A g \in Handlers : g # h => At(g) \notin {"flushing", "flushed"},
           \A i \in inKept' \ inCrossed' : i \in inKept \/ Safe(i)',
           \A i \in inKept \ inCrossed' :
             /\ i \in inAttach \/ i \in inBatch.items \/ i = Dictated => Safe(i)'
             /\ Item(h) = i \/ (At(h) = "append" /\ i \in Held(h)) => Safe(i)'
    PROVE  Keeping'
<1>1. \A g \in Handlers : g # h => At(g)' = At(g) /\ Item(g)' = Item(g) /\ Held(g)' = Held(g)
  BY DEF At, Item, Held
<1>3. (\A g \in Handlers : At(g) \in {"session", "clear", "absorb"} => inAttach \ inCrossed \subseteq Held(g))'
  BY <1>1 DEF Keeping
<1>4. (\A g \in Handlers : At(g) \in {"flushing", "flushed"} => inBatch.items \ inCrossed \subseteq Held(g))'
  BY <1>1 DEF Keeping
<1>5. (\A g \in Handlers, i \in Items :
         At(g) \in {"clear", "flushed"} /\ (i \in Held(g) \/ i = Item(g)) => inSent[i] > 0)'
  BY <1>1 DEF Keeping
<1>6. ASSUME NEW i \in inKept' \ inCrossed' PROVE Safe(i)'
  <2>1. CASE i \notin inKept
    BY <2>1
  <2>2. CASE i \in inKept
    <3>1. Safe(i)
      BY <2>2 DEF Keeping
    <3>2. CASE i \in inTold \/ inSent[i] > 0
      BY <2>2, <3>2 DEF Safe, InTypeOK
    <3>3. CASE \E g \in Handlers : g # h /\ (Item(g) = i \/ (At(g) = "append" /\ i \in Held(g)))
      BY <1>1, <3>3 DEF Safe
    <3> QED
      BY <2>2, <3>1, <3>2, <3>3 DEF Safe
  <2> QED
    BY <2>1, <2>2
<1> QED
  BY <1>3, <1>4, <1>5, <1>6 DEF Keeping

\* An item of which handler h only gives away a copy, or empties a store, is where it was.
LEMMA OnceStays ==
    ASSUME InTypeOK, InTypeOK', NEW h \in Handlers, NEW i \in Items, OnceOf(i),
           \A g \in Handlers : g # h => inDoing'[g] = inDoing[g],
           inSent'[i] = inSent[i], inItems <= inItems',
           Has(h, i)' => Has(h, i),
           i \in inAttach' => i \in inAttach, i \in inBatch'.items => i \in inBatch.items, i = Dictated' => i = Dictated,
           Has(h, i)' => /\ At(h) \in {"clear", "flushed"} => At(h)' \in {"clear", "flushed"}
                         /\ i \in inAttach' => Item(h)' # i /\ At(h)' \in {"session", "clear", "absorb"}
                         /\ i \in inBatch'.items => Item(h)' # i /\ At(h)' \in {"flushing", "flushed"}
                         /\ i = Dictated' => At(h)' \in Copying,
           i \in inBatch'.items /\ inBatch.flushing /\ (\E g \in Handlers : Has(g, i)') => inBatch'.flushing,
           i \in Held(h) /\ i \notin Held(h)' /\ inSent[i] > 0 => i \notin inAttach' /\ i \notin inBatch'.items
    PROVE  OnceOf(i)'
<1>1. \A g \in Handlers : g # h => /\ At(g)' = At(g) /\ Item(g)' = Item(g) /\ Held(g)' = Held(g)
                                   /\ Has(g, i)' <=> Has(g, i)
  BY DEF At, Item, Held, Has
<1>2. (\A f, g \in Handlers : Has(f, i) /\ Has(g, i) => f = g)'
  BY <1>1 DEF OnceOf
<1>3. (inSent[i] > 0 => inSent[i] = 1 /\ \A g \in Handlers : Has(g, i) => At(g) \in {"clear", "flushed"})'
  BY <1>1 DEF OnceOf
<1>4. (i \in inAttach =>
         /\ i # Dictated /\ i \notin inBatch.items
         /\ \A g \in Handlers : Has(g, i) => Item(g) # i /\ At(g) \in {"session", "clear", "absorb"}
         /\ inSent[i] > 0 => \E g \in Handlers : i \in Held(g))'
  BY <1>1 DEF OnceOf
<1>5. (i \in inBatch.items =>
         /\ i # Dictated
         /\ \A g \in Handlers : Has(g, i) => Item(g) # i /\ At(g) \in {"flushing", "flushed"} /\ inBatch.flushing
         /\ inSent[i] > 0 => \E g \in Handlers : i \in Held(g))'
  BY <1>1 DEF OnceOf
<1>6. (i = Dictated => inSent[i] = 0 /\ \A g \in Handlers : Has(g, i) => At(g) \in Copying)'
  BY <1>1 DEF OnceOf
<1>7. (i > inItems => /\ inSent[i] = 0 /\ i \notin inAttach /\ i \notin inBatch.items /\ i # Dictated
                      /\ \A g \in Handlers : ~Has(g, i))'
  <2>1. i \in Nat /\ inItems \in Nat /\ inItems' \in Nat
    BY ItemNumbers DEF InTypeOK
  <2> QED
    BY <1>1, <2>1 DEF OnceOf
<1> QED
  BY <1>2, <1>3, <1>4, <1>5, <1>6, <1>7 DEF OnceOf

\* The labels of handlers that have no copy of a store and are not about to empty one.
Plain == (InLabels \ VoiceLabels) \ {"session", "clear", "absorb", "append", "flushing", "flushed"}

\* A handler without a copy asks, refuses, or empties the collection and tells the user: no item
\* comes into a store.
LEMMA PlainStep ==
    ASSUME InInv, NEW h \in Handlers, At(h) \in Plain, At(h)' \in Plain,
           inDoing' \in [Handlers -> Doings], \A g \in Handlers : g # h => inDoing'[g] = inDoing[g],
           Held(h)' = {}, At(h)' \in Commanding => Item(h)' = 0,
           Item(h)' # 0 \/ At(h)' \in Commanding \/ At(h)' = "flush",
           \/ inItems' = inItems /\ Item(h)' = Item(h)
           \/ inItems' = inItems /\ Item(h)' = 0 /\ (Item(h) = 0 \/ Item(h) \in inTold')
           \/ inItems' = inItems + 1 /\ inItems < MaxItems /\ Item(h)' = inItems + 1 /\ Item(h) = 0,
           inBatch' \in Batches,
           \/ inBatch'.items = inBatch.items /\ inBatch'.flushing = inBatch.flushing
           \/ inBatch'.items = {} /\ inBatch.items \subseteq inTold',
           inTold \subseteq inTold',
           UNCHANGED <<inAttach, Dictated, inSent, inKept, inShared, inCrossed>>
    PROVE  InInv'
<1> USE ItemNumbers
<1>1. InTypeOK /\ Keeping /\ \A i \in Items \ inShared : OnceOf(i)
  BY DEF InInv
<1>2. Held(h) = {}
  BY <1>1 DEF InTypeOK, Holding, Plain, VoiceLabels
<1>3. InTypeOK'
  <2>1. \A g \in Handlers : g # h => At(g)' = At(g) /\ Held(g)' = Held(g) /\ Item(g)' = Item(g)
    BY DEF At, Held, Item
  <2>2. inItems' \in 0 .. MaxItems
    BY <1>1 DEF InTypeOK
  <2>3. At(h)' \notin Commanding \cup {"flush", "flushing", "flushed"} => Item(h)' # 0
    OBVIOUS
  <2> QED
    BY <1>1, <2>1, <2>2, <2>3 DEF InTypeOK
<1>4. Keeping'
  <2>1. \A i \in inKept \ inCrossed' :
          /\ i \in inAttach \/ i \in inBatch.items \/ i = Dictated => Safe(i)'
          /\ Item(h) = i \/ (At(h) = "append" /\ i \in Held(h)) => Safe(i)'
    <3> TAKE i \in inKept \ inCrossed'
    <3>1. i \in Items /\ i # 0
      BY <1>1 DEF InTypeOK
    <3>2. Item(h) = i => Safe(i)'
      <4>1. Item(h) = i => Item(h)' = i \/ i \in inTold'
        BY <3>1
      <4> QED
        BY <4>1 DEF Safe
    <3>3. i \in inAttach \/ i \in inBatch.items => Safe(i)'
      BY DEF Safe
    <3>4. i = Dictated => Safe(i)'
      BY DEF Safe
    <3> QED
      BY <1>2, <3>2, <3>3, <3>4
  <2>2. At(h)' \notin {"session", "clear", "absorb", "append", "flushing", "flushed"}
    BY DEF Plain, VoiceLabels
  <2>3. /\ inAttach' \ inCrossed' \subseteq inAttach
        /\ inBatch'.items \ inCrossed' \subseteq inBatch.items
    OBVIOUS
  <2> QED
    BY <1>1, <1>3, <2>1, <2>2, <2>3, KeepsWell
<1>5. ASSUME NEW i \in Items \ inShared' PROVE OnceOf(i)'
  <2>1. OnceOf(i)
    BY <1>1, <1>5
  <2>2. CASE Has(h, i)' => Has(h, i)
    <3>1. inItems <= inItems'
      BY <1>1 DEF InTypeOK
    <3>2. /\ At(h) \in {"clear", "flushed"} => FALSE
          /\ i \notin Held(h)
          /\ Has(h, i)' => i = Item(h)' /\ i = Item(h)
      BY <1>2, <2>2 DEF Plain, VoiceLabels, Has
    <3>3. Has(h, i)' => i \notin inAttach /\ i \notin inBatch.items
      BY <2>1, <3>2 DEF OnceOf, Has
    <3>4. i # 0
      BY <1>5
    <3>5. Has(h, i)' /\ i = Dictated' => FALSE
      BY <2>1, <2>2 DEF OnceOf, Plain, VoiceLabels, Copying
    <3>6. i \in inBatch'.items => i \in inBatch.items /\ inBatch'.flushing = inBatch.flushing
      OBVIOUS
    <3>7. i = Dictated' => i = Dictated
      BY <3>4
    <3> QED
      BY <1>1, <1>3, <1>5, <2>1, <2>2, <3>1, <3>2, <3>3, <3>5, <3>6, <3>7, OnceStays
  <2>3. CASE Has(h, i)' /\ ~Has(h, i)
    <3>1. i = inItems + 1 /\ inItems' = inItems + 1
      BY <1>5, <2>3 DEF Has
    <3>2. /\ inSent[i] = 0 /\ i \notin inAttach /\ i \notin inBatch.items /\ i # Dictated
          /\ \A g \in Handlers : ~Has(g, i)
      BY <1>1, <2>1, <3>1 DEF OnceOf, InTypeOK
    <3>3. inSent'[i] = 0 /\ i \notin inAttach' /\ i \notin inBatch'.items /\ i # Dictated' /\ ~(i > inItems')
      BY <1>1, <1>5, <3>1, <3>2 DEF InTypeOK
    <3>4. \A g \in Handlers : Has(g, i)' => g = h
      BY <3>2 DEF Has, Item, Held
    <3> QED
      BY <3>3, <3>4 DEF OnceOf
  <2> QED
    BY <2>2, <2>3
<1> QED
  BY <1>3, <1>4, <1>5 DEF InInv

\* A refused message goes no further, and its user knows.
LEMMA Refuses ==
    ASSUME InTypeOK, NEW h \in Handlers, Refused(h)
    PROVE  /\ inDoing' \in [Handlers -> Doings]
           /\ At(h)' = "idle" /\ Item(h)' = 0 /\ Held(h)' = {} /\ Pending(h)' = 0
           /\ \A g \in Handlers : g # h => inDoing'[g] = inDoing[g]
           /\ Item(h) = 0 \/ Item(h) \in inTold'
           /\ inTold \subseteq inTold'
  BY Rests DEF Refused

\* A collection whose time is over goes, and its user knows.
LEMMA ExpiryMoves ==
    ASSUME InTypeOK, Expires
    PROVE  /\ inBatch' \in Batches
           /\ \/ inBatch'.items = inBatch.items /\ inBatch'.flushing = inBatch.flushing
              \/ inBatch'.items = {} /\ inBatch.items \subseteq inTold'
           /\ inTold \subseteq inTold'
<1>1. NoBatch \in Batches /\ NoBatch.items = {}
  BY DEF NoBatch, Batches
<1>2. inBatch \in Batches
  BY DEF InTypeOK
<1> QED
  BY <1>1, <1>2 DEF Expires

\* Messages and commands come.
LEMMA ComingSteps ==
    ASSUME InInv, NEW h \in Handlers,
           (\E kind \in {"text", "attachment"} : Comes(h, kind)) \/ VoiceComes(h) \/ CollectCommand(h)
    PROVE  InInv'
<1> USE ItemNumbers
<1>1. InTypeOK
  BY DEF InInv
<1>2. "idle" \in Plain /\ "text" \in Plain /\ "attachment" \in Plain /\ "voice" \in Plain /\ "command" \in Plain
  BY DEF Plain, VoiceLabels, InLabels
<1>3. ASSUME NEW label \in {"text", "attachment", "voice"}, NewItem(h, label)
      PROVE  /\ inDoing' \in [Handlers -> Doings] /\ At(h) = "idle" /\ Item(h) = 0 /\ inItems < MaxItems
             /\ At(h)' = label /\ Item(h)' = inItems + 1 /\ Held(h)' = {} /\ inItems' = inItems + 1
             /\ Item(h)' # 0
             /\ \A g \in Handlers : g # h => inDoing'[g] = inDoing[g]
  <2> PICK r : r = [Resting EXCEPT !.at = label, !.item = inItems + 1]
    OBVIOUS
  <2>1. inItems \in 0 .. MaxItems /\ inItems < MaxItems /\ inItems' = inItems + 1 /\ At(h) = "idle"
    BY <1>1, <1>3 DEF InTypeOK, NewItem
  <2>2. inItems + 1 \in Items /\ label \in InLabels
    <3>1. inItems + 1 \in Items
      BY <2>1 DEF Items
    <3>2. label \in InLabels
      BY DEF InLabels
    <3> QED
      BY <3>1, <3>2
  <2>3. r \in Doings /\ r.at = label /\ r.item = inItems + 1 /\ r.held = {}
    BY <2>2 DEF Doings, Resting
  <2>4. inDoing' = [inDoing EXCEPT ![h] = r]
    BY <1>3 DEF NewItem
  <2>5. Item(h) = 0
    BY <1>1, <2>1 DEF InTypeOK, Commanding
  <2> QED
    BY ZenonT(40), <1>1, <2>1, <2>2, <2>3, <2>4, <2>5, DoingMoves
<1>4. ASSUME NEW kind \in {"text", "attachment"}, Comes(h, kind) PROVE InInv'
  <2>1. /\ NewItem(h, kind) /\ Expires
        /\ UNCHANGED <<inAttach, Dictated, inSent, inKept, inShared, inCrossed>>
    BY <1>4 DEF Comes, Dictated
  <2>2. kind \in Plain /\ kind \notin Commanding
    BY <1>2 DEF Commanding
  <2>3. /\ inDoing' \in [Handlers -> Doings] /\ At(h) = "idle" /\ Item(h) = 0 /\ inItems < MaxItems
        /\ At(h)' = kind /\ Item(h)' = inItems + 1 /\ Item(h)' # 0 /\ Held(h)' = {} /\ inItems' = inItems + 1
        /\ \A g \in Handlers : g # h => inDoing'[g] = inDoing[g]
    BY <1>3, <2>1
  <2> QED
    BY <1>1, <1>2, <2>1, <2>2, <2>3, ExpiryMoves, PlainStep
<1>5. CASE VoiceComes(h)
  <2>1. /\ NewItem(h, "voice")
        /\ UNCHANGED <<inAttach, Dictated, inBatch, inTold, inSent, inKept, inShared, inCrossed>>
    BY <1>5 DEF VoiceComes, inStores, inHistory, Dictated
  <2>2. "voice" \notin Commanding /\ inBatch \in Batches
    BY <1>1 DEF Commanding, InTypeOK
  <2>3. /\ inDoing' \in [Handlers -> Doings] /\ At(h) = "idle" /\ Item(h) = 0 /\ inItems < MaxItems
        /\ At(h)' = "voice" /\ Item(h)' = inItems + 1 /\ Item(h)' # 0 /\ Held(h)' = {} /\ inItems' = inItems + 1
        /\ \A g \in Handlers : g # h => inDoing'[g] = inDoing[g]
    BY <1>3, <2>1
  <2> QED
    BY <1>1, <1>2, <2>1, <2>2, <2>3, PlainStep
<1>6. CASE CollectCommand(h)
  <2>1. /\ At(h) = "idle" /\ inDoing' = [inDoing EXCEPT ![h] = [Resting EXCEPT !.at = "command"]] /\ Expires
        /\ UNCHANGED <<inAttach, Dictated, inItems, inSent, inKept, inShared, inCrossed>>
    BY <1>6 DEF CollectCommand, Dictated
  <2> PICK r : r = [Resting EXCEPT !.at = "command"]
    OBVIOUS
  <2>2. r \in Doings /\ r.at = "command" /\ r.item = 0 /\ r.held = {}
    BY DEF Doings, Resting, InLabels
  <2>3. /\ inDoing' \in [Handlers -> Doings] /\ At(h)' = "command" /\ Item(h)' = 0 /\ Held(h)' = {}
        /\ \A g \in Handlers : g # h => inDoing'[g] = inDoing[g]
    BY <1>1, <2>1, <2>2, DoingMoves
  <2>4. Item(h) = 0
    BY <1>1, <2>1 DEF InTypeOK, Commanding
  <2> QED
    BY <1>1, <1>2, <2>1, <2>3, <2>4, ExpiryMoves, PlainStep DEF Commanding
<1> QED
  BY <1>4, <1>5, <1>6

\* Handlers ask for the stores and for the collection, or are refused.
LEMMA AskingSteps ==
    ASSUME InInv, NEW h \in Handlers,
           \/ AttachmentAsks(h) \/ AsksFlushing(h) \/ AsksCollection(h) \/ TextAwaited(h)
           \/ CommandRefused(h) \/ CollectStarts(h) \/ CancelAsks(h)
    PROVE  InInv'
<1> USE ItemNumbers
<1>1. InTypeOK
  BY DEF InInv
<1>2. /\ At(h) \in {"attachment", "asks", "text asks", "has", "text has", "awaits", "command"}
      /\ UNCHANGED <<inAttach, Dictated, inBatch, inItems, inSent, inKept, inShared, inCrossed>>
  BY DEF AttachmentAsks, AsksFlushing, AsksCollection, TextAwaited, CommandRefused, CollectStarts, CancelAsks,
         inStores, inHistory, Dictated
<1>3. \/ Refused(h)
      \/ Done(h) /\ At(h) = "command" /\ inTold' = inTold
      \/ Goes(h, "asks") /\ At(h) = "attachment" /\ inTold' = inTold
      \/ Goes(h, "has") /\ At(h) = "asks" /\ inTold' = inTold
      \/ Goes(h, "text has") /\ At(h) = "text asks" /\ inTold' = inTold
      \/ (\E l \in {"buffer", "store", "attach", "flush", "text asks"} : Goes(h, l)) /\ At(h) # "command" /\ inTold' = inTold
      \/ (\E l \in {"start", "cancel"} : Goes(h, l)) /\ At(h) = "command" /\ inTold' = inTold
  BY DEF AttachmentAsks, AsksFlushing, AsksCollection, TextAwaited, CommandRefused, CollectStarts, CancelAsks,
         inStores, inHistory
<1>4. At(h) \in Plain /\ "idle" \in Plain /\ inBatch' \in Batches
  BY <1>1, <1>2 DEF Plain, VoiceLabels, InLabels, InTypeOK
<1>5. Held(h) = {} /\ (At(h) = "command" => Item(h) = 0)
  BY <1>1, <1>2 DEF InTypeOK, Holding, Commanding
<1>6. CASE Refused(h)
  BY <1>1, <1>2, <1>4, <1>6, Refuses, PlainStep DEF Commanding
<1>7. CASE Done(h) /\ At(h) = "command" /\ inTold' = inTold
  BY <1>1, <1>2, <1>4, <1>5, <1>7, Rests, PlainStep DEF Commanding
<1>8. ASSUME NEW l \in {"asks", "has", "text has", "buffer", "store", "attach", "flush", "text asks", "start", "cancel"},
             Goes(h, l), l \in {"start", "cancel"} <=> At(h) = "command", inTold' = inTold
      PROVE  InInv'
  <2>1. /\ l \in Plain /\ l \in InLabels /\ (l \in Commanding => l \in {"start", "cancel"})
        /\ l \in {"start", "cancel"} => l \in Commanding
    BY <1>8 DEF Plain, VoiceLabels, InLabels, Commanding
  <2>3. At(h) # "command" => Item(h) # 0
    BY <1>1, <1>2 DEF InTypeOK, Commanding
  <2>2. /\ inDoing' \in [Handlers -> Doings] /\ At(h)' = l /\ Item(h)' = Item(h) /\ Held(h)' = Held(h)
        /\ \A g \in Handlers : g # h => inDoing'[g] = inDoing[g]
    BY <1>1, <1>8, <2>1, GoesOn
  <2> QED
    BY <1>2, <1>4, <1>5, <1>8, <2>1, <2>2, <2>3, PlainStep
<1> QED
  BY <1>3, <1>6, <1>7, <1>8

\* The collection is begun, cancelled, or waits for its instruction.
LEMMA SettlingSteps ==
    ASSUME InInv, NEW h \in Handlers,
           CollectSends(h) \/ CollectBegins(h) \/ Cancels(h)
    PROVE  InInv'
<1> USE ItemNumbers
<1>1. InTypeOK
  BY DEF InInv
<1>2. NoBatch \in Batches /\ NoBatch.items = {} /\ [NoBatch EXCEPT !.there = TRUE] \in Batches
      /\ [NoBatch EXCEPT !.there = TRUE].items = {}
  BY DEF NoBatch, Batches
<1>3. /\ {"idle", "command", "start", "cancel", "flush", "attachments", "awaits"} \subseteq Plain
      /\ {"idle", "command", "start", "cancel", "flush", "attachments", "awaits"} \subseteq InLabels
      /\ "attachments" \in Commanding /\ "idle" \in Commanding /\ "flush" \notin Commanding /\ "awaits" \notin Commanding
  BY DEF Plain, VoiceLabels, InLabels, Commanding
<1>4. At(h) \in {"command", "start", "cancel"} => Held(h) = {}
  BY <1>1 DEF InTypeOK, Holding
<1>5. At(h) \in {"command", "start", "cancel"} => Item(h) = 0
  BY <1>1 DEF InTypeOK, Commanding
<1>6. inBatch \in Batches
  BY <1>1 DEF InTypeOK
<1>7. CASE CollectSends(h)
  <2>1. /\ At(h) = "command"
        /\ UNCHANGED <<inAttach, Dictated, inItems, inTold, inSent, inKept, inShared, inCrossed>>
        /\ Goes(h, "flush") \/ Done(h)
        /\ inBatch' = inBatch \/ inBatch' = [inBatch EXCEPT !.awaiting = TRUE, !.retry = FALSE]
    BY <1>7 DEF CollectSends, inHistory, Dictated
  <2>2. inBatch' \in Batches /\ inBatch'.items = inBatch.items /\ inBatch'.flushing = inBatch.flushing
    BY <1>6, <2>1 DEF Batches
  <2>3. CASE Goes(h, "flush")
    BY <1>1, <1>3, <1>4, <1>5, <2>1, <2>2, <2>3, GoesOn, PlainStep
  <2>4. CASE Done(h)
    BY <1>1, <1>3, <1>4, <1>5, <2>1, <2>2, <2>4, Rests, PlainStep
  <2> QED
    BY <2>1, <2>3, <2>4
<1>8. CASE CollectBegins(h)
  <2>1. /\ At(h) = "start" /\ Goes(h, "attachments")
        /\ UNCHANGED <<inAttach, Dictated, inItems, inTold, inSent, inKept, inShared, inCrossed>>
        /\ inBatch' = inBatch \/ (inBatch = NoBatch /\ inBatch' = [NoBatch EXCEPT !.there = TRUE])
    BY <1>8 DEF CollectBegins, inHistory, Dictated
  <2>2. /\ inBatch' \in Batches
        /\ \/ inBatch'.items = inBatch.items /\ inBatch'.flushing = inBatch.flushing
           \/ inBatch'.items = {} /\ inBatch.items \subseteq inTold'
    BY <1>2, <1>6, <2>1
  <2> QED
    BY <1>1, <1>3, <1>4, <1>5, <2>1, <2>2, GoesOn, PlainStep
<1>9. CASE Cancels(h)
  <2>1. /\ At(h) = "cancel" /\ Done(h) /\ inBatch' = NoBatch /\ inTold' = inTold \cup inBatch.items
        /\ UNCHANGED <<inAttach, Dictated, inItems, inSent, inKept, inShared, inCrossed>>
    BY <1>9 DEF Cancels, Dictated
  <2> QED
    BY <1>1, <1>2, <1>3, <1>4, <1>5, <2>1, Rests, PlainStep
<1> QED
  BY <1>7, <1>8, <1>9

\* What is known of a handler that answers, and of the dictation that it answers to.
LEMMA AnswerFacts ==
    ASSUME InInv, VoiceInv, NEW h \in Handlers
    PROVE  /\ Pending(h) \in 0 .. MaxItems /\ inText[Pending(h)] \in Items \cup {0} /\ Dictated \in Items \cup {0}
           /\ At(h) \in VoiceLabels => /\ Pending(h) \in Items /\ inText[Pending(h)] \in Items
                                     /\ Item(h) \in Items /\ Held(h) = {}
<1>1. inDoing[h] \in Doings
  BY DEF InInv, InTypeOK
<1>2. Pending(h) \in Items \cup {0} /\ Item(h) \in Items \cup {0}
  BY <1>1 DEF Doings, Pending, Item
<1>3. Items \cup {0} \subseteq 0 .. MaxItems
  BY IntakeAssumption DEF Items
<1>4. At(h) \in VoiceLabels => Item(h) # 0 /\ Held(h) = {}
  BY DEF InInv, InTypeOK, Holding, VoiceLabels, Commanding
<1> QED
  BY <1>2, <1>3, <1>4 DEF VoiceInv, VoiceTypes, Dictated

\* A dictation is kept: its text is that of the handler, or shared; what it replaces was told or is
\* excepted.
LEMMA VoiceKept ==
    ASSUME InInv, NEW h \in Handlers, At(h) \in {"voice", "modify", "edited"}, NEW text \in Items,
           Dictated' = text, inKept' = inKept \cup {text}, inTold \subseteq inTold', inCrossed \subseteq inCrossed',
           Dictated \in {0, text} \cup inTold' \cup inCrossed', Item(h) = text \/ Item(h) \in inCrossed',
           Item(h) = text \/ text \in inShared,
           Done(h), UNCHANGED <<inAttach, inBatch, inItems, inSent, inShared>>
    PROVE  InInv'
<1> USE ItemNumbers
<1>1. InTypeOK /\ Keeping /\ \A i \in Items \ inShared : OnceOf(i)
  BY DEF InInv
<1>3. /\ inDoing' \in [Handlers -> Doings]
      /\ At(h)' = "idle" /\ Item(h)' = 0 /\ Held(h)' = {}
      /\ \A g \in Handlers : g # h => inDoing'[g] = inDoing[g]
  BY <1>1, Rests
<1>4. Held(h) = {}
  BY <1>1 DEF InTypeOK, Holding
<1>5. InTypeOK'
  <2>1. \A g \in Handlers : g # h => At(g)' = At(g) /\ Held(g)' = Held(g) /\ Item(g)' = Item(g)
    BY <1>3 DEF At, Held, Item
  <2>2. "idle" \in Commanding
    BY DEF Commanding
  <2> QED
    BY <1>1, <1>3, <2>1, <2>2 DEF InTypeOK
<1>6. Keeping'
  <2>1. \A i \in inKept' \ inCrossed' : i \in inKept \/ Safe(i)'
    BY DEF Safe
  <2>2. \A i \in inKept \ inCrossed' :
          /\ i \in inAttach \/ i \in inBatch.items \/ i = Dictated => Safe(i)'
          /\ Item(h) = i \/ (At(h) = "append" /\ i \in Held(h)) => Safe(i)'
    <3> TAKE i \in inKept \ inCrossed'
    <3>1. i # 0
      BY <1>1 DEF InTypeOK
    <3> QED
      BY <1>4, <3>1 DEF Safe
  <2> QED
    BY <1>1, <1>3, <1>5, <2>1, <2>2, KeepsWell
<1>7. ASSUME NEW i \in Items \ inShared' PROVE OnceOf(i)'
  <2>1. OnceOf(i) /\ i # 0
    BY <1>1, <1>7
  <2>2. ~Has(h, i)'
    BY <1>3, <2>1 DEF Has
  <2>3. CASE i # text
    BY <1>1, <1>3, <1>4, <1>5, <1>7, <2>1, <2>2, <2>3, OnceStays DEF InTypeOK
  <2>4. CASE i = text
    <3>1. Has(h, i) /\ \A g \in Handlers : Has(g, i) => g = h
      BY <1>7, <2>1, <2>4 DEF Has, OnceOf
    <3>2. inSent[i] = 0 /\ i \notin inAttach /\ i \notin inBatch.items /\ ~(i > inItems)
      BY <1>1, <1>7, <2>1, <3>1 DEF OnceOf, InTypeOK
    <3>3. \A g \in Handlers : ~Has(g, i)'
      <4>1. \A g \in Handlers : g # h => Has(g, i)' = Has(g, i)
        BY <1>3 DEF Has, Item, Held
      <4> QED
        BY <2>2, <3>1, <4>1
    <3> QED
      BY <3>2, <3>3 DEF OnceOf
  <2> QED
    BY <2>3, <2>4
<1> QED
  BY <1>5, <1>6, <1>7 DEF InInv

\* A text becomes an answer to a dictation.
LEMMA AnswerGoes ==
    ASSUME InTypeOK, NEW h \in Handlers, NEW label \in {"confirm", "drop", "modify"}, NEW p \in Items, NEW i \in Items,
           inDoing' = [inDoing EXCEPT ![h].at = label, ![h].pending = p, ![h].item = i]
    PROVE  /\ inDoing' \in [Handlers -> Doings]
           /\ At(h)' = label /\ Item(h)' = i /\ Held(h)' = Held(h) /\ Pending(h)' = p
           /\ \A g \in Handlers : g # h => inDoing'[g] = inDoing[g]
<1> PICK r : r = [inDoing[h] EXCEPT !.at = label, !.pending = p, !.item = i]
  OBVIOUS
<1>1. inDoing[h] \in Doings /\ label \in InLabels
  BY DEF InTypeOK, InLabels
<1>2. r \in Doings /\ r.at = label /\ r.item = i /\ r.held = Held(h) /\ r.pending = p
  BY <1>1 DEF Doings, Held
<1>3. inDoing' = [inDoing EXCEPT ![h] = r]
  OBVIOUS
<1>4. /\ inDoing' \in [Handlers -> Doings]
      /\ At(h)' = r.at /\ Item(h)' = r.item /\ Held(h)' = r.held /\ Pending(h)' = r.pending
      /\ \A g \in Handlers : g # h => inDoing'[g] = inDoing[g]
  BY <1>2, <1>3, DoingMoves
<1> QED
  BY <1>2, <1>4

\* A text answers to the dictation that waits; who else answers to it shares it.
LEMMA VoiceTaken ==
    ASSUME InInv, VoiceInv, NEW h \in Handlers, NEW label \in {"confirm", "drop", "modify"}, At(h) = "text", inVoice # 0,
           inDoing' = [inDoing EXCEPT ![h].at = label, ![h].pending = inVoice, ![h].item = Dictated],
           inShared' = IF \E g \in Handlers : Pending(g) = inVoice THEN inShared \cup {Dictated} ELSE inShared,
           inTold' = inTold \cup {Item(h)},
           UNCHANGED <<inAttach, inVoice, inText, inBatch, inItems, inSent, inKept, inCrossed>>
    PROVE  InInv' /\ VoiceInv'
<1> USE ItemNumbers
<1>1. InTypeOK /\ Keeping /\ \A i \in Items \ inShared : OnceOf(i)
  BY DEF InInv
<1>2. Held(h) = {} /\ Dictated \in Items /\ Dictated' = Dictated /\ inVoice \in Items
  BY <1>1 DEF InTypeOK, Holding, Dictated, VoiceInv, VoiceTypes
<1>3. /\ inDoing' \in [Handlers -> Doings]
      /\ At(h)' = label /\ Item(h)' = Dictated /\ Held(h)' = {} /\ Pending(h)' = inVoice
      /\ \A g \in Handlers : g # h => inDoing'[g] = inDoing[g]
  BY <1>1, <1>2, AnswerGoes
<1>4. label \notin Commanding /\ label \notin Holding /\ At(h)' \in Copying
  BY <1>3 DEF Commanding, Holding, Copying, VoiceLabels
<1>5. InTypeOK'
  <2>1. \A g \in Handlers : g # h => At(g)' = At(g) /\ Held(g)' = Held(g) /\ Item(g)' = Item(g)
    BY <1>3 DEF At, Held, Item
  <2> QED
    BY <1>1, <1>2, <1>3, <1>4, <2>1 DEF InTypeOK
<1>6. Keeping'
  <2>1. \A i \in inKept \ inCrossed' :
          /\ i \in inAttach \/ i \in inBatch.items \/ i = Dictated => Safe(i)'
          /\ Item(h) = i \/ (At(h) = "append" /\ i \in Held(h)) => Safe(i)'
    BY <1>2 DEF Safe
  <2>2. At(h)' \notin {"session", "clear", "absorb", "flushing", "flushed"}
    BY <1>3
  <2> QED
    BY <1>1, <1>2, <1>3, <1>5, <2>1, <2>2, KeepsWell
<1>7. ASSUME NEW i \in Items \ inShared' PROVE OnceOf(i)'
  <2>1. OnceOf(i) /\ i # 0
    BY <1>1, <1>7
  <2>2. \A g \in Handlers : g # h => Has(g, i)' = Has(g, i) /\ At(g)' = At(g)
    BY <1>3 DEF Has, Item, Held, At
  <2>3. CASE i # Dictated
    <3>1. ~Has(h, i)'
      BY <1>3, <2>3 DEF Has
    <3> QED
      BY <1>1, <1>2, <1>3, <1>5, <1>7, <2>1, <2>3, <3>1, OnceStays DEF InTypeOK
  <2>4. CASE i = Dictated
    <3>1. \A g \in Handlers : Has(g, i) => At(g) \in Copying
      BY <2>1, <2>4 DEF OnceOf
    <3>2. \A g \in Handlers : Has(g, i) => Item(g) = i
      BY <1>1, <3>1 DEF InTypeOK, Holding, Has, Copying, VoiceLabels
    <3>3. \A g \in Handlers : ~Has(g, i)
      BY <1>7, <2>4, <3>1, <3>2 DEF VoiceInv
    <3>4. \A g \in Handlers : Has(g, i)' => g = h
      BY <2>2, <3>3
    <3>5. inSent[i] = 0 /\ i \notin inAttach /\ i \notin inBatch.items /\ ~(i > inItems)
      BY <1>1, <1>7, <2>1, <2>4 DEF OnceOf, InTypeOK
    <3> QED
      BY <1>2, <1>4, <2>4, <3>4, <3>5 DEF OnceOf
  <2> QED
    BY <2>3, <2>4
<1>8. VoiceInv'
  <2>1. \A g \in Handlers : g # h => At(g)' = At(g) /\ Pending(g)' = Pending(g) /\ Item(g)' = Item(g)
    BY <1>3 DEF At, Pending, Item
  <2>2. VoiceTypes'
    BY <1>2, <1>3, <1>4, <2>1 DEF VoiceInv, VoiceTypes, Copying, Dictated
  <2>3. (\A g \in Handlers : At(g) \in Copying => CopyOf(g))'
    BY <1>2, <1>3, <2>1 DEF VoiceInv, CopyOf, Dictated
  <2>4. (\A f, g \in Handlers : f # g /\ Pending(f) = Pending(g) /\ Pending(f) # 0 => inText[Pending(f)] \in inShared)'
    BY <1>2, <1>3, <2>1 DEF VoiceInv, Dictated
  <2> QED
    BY <1>2, <1>3, <2>1, <2>2, <2>3, <2>4 DEF VoiceInv
<1> QED
  BY <1>5, <1>6, <1>7, <1>8 DEF InInv

\* A text is to correct the dictation that waits.
LEMMA EditBegins ==
    ASSUME InInv, VoiceInv, NEW h \in Handlers, At(h) = "text", inVoice # 0,
           inDoing' = [inDoing EXCEPT ![h].at = "edit", ![h].pending = inVoice],
           inShared' = IF \E g \in Handlers : Pending(g) = inVoice THEN inShared \cup {Dictated} ELSE inShared,
           UNCHANGED <<inAttach, inVoice, inText, inBatch, inItems, inSent, inKept, inTold, inCrossed>>
    PROVE  InInv' /\ VoiceInv'
<1> USE ItemNumbers
<1>1. InTypeOK /\ Keeping /\ \A i \in Items \ inShared : OnceOf(i)
  BY DEF InInv
<1>2. Held(h) = {} /\ Dictated \in Items /\ Dictated' = Dictated /\ inVoice \in Items
  BY <1>1 DEF InTypeOK, Holding, Dictated, VoiceInv, VoiceTypes
<1>3. /\ inDoing' \in [Handlers -> Doings]
      /\ At(h)' = "edit" /\ Item(h)' = Item(h) /\ Held(h)' = {} /\ Pending(h)' = inVoice
      /\ \A g \in Handlers : g # h => inDoing'[g] = inDoing[g]
  <2> PICK r : r = [inDoing[h] EXCEPT !.at = "edit", !.pending = inVoice]
    OBVIOUS
  <2>1. inDoing[h] \in Doings
    BY <1>1 DEF InTypeOK
  <2>2. "edit" \in InLabels
    BY DEF InLabels
  <2>3. r \in Doings /\ r.at = "edit" /\ r.item = Item(h) /\ r.held = {} /\ r.pending = inVoice
    BY <1>2, <2>1, <2>2 DEF Doings, Held, Item
  <2>4. inDoing' = [inDoing EXCEPT ![h] = r]
    OBVIOUS
  <2> QED
    BY <1>1, <2>3, <2>4, DoingMoves
<1>4. "edit" \notin Commanding /\ "edit" \notin Holding /\ "edit" \in VoiceLabels /\ "edit" \notin Copying
  BY DEF Commanding, Holding, Copying, VoiceLabels
<1>5. InTypeOK'
  <2>1. \A g \in Handlers : g # h => At(g)' = At(g) /\ Held(g)' = Held(g) /\ Item(g)' = Item(g)
    BY <1>3 DEF At, Held, Item
  <2>2. Item(h) # 0
    BY <1>1 DEF InTypeOK, Commanding
  <2> QED
    BY <1>1, <1>2, <1>3, <1>4, <2>1, <2>2 DEF InTypeOK
<1>6. Keeping'
  <2>1. \A i \in inKept \ inCrossed' :
          /\ i \in inAttach \/ i \in inBatch.items \/ i = Dictated => Safe(i)'
          /\ Item(h) = i \/ (At(h) = "append" /\ i \in Held(h)) => Safe(i)'
    BY <1>2, <1>3 DEF Safe
  <2> QED
    BY <1>1, <1>2, <1>3, <1>5, <2>1, KeepsWell
<1>7. ASSUME NEW i \in Items \ inShared' PROVE OnceOf(i)'
  <2>1. OnceOf(i) /\ i # 0
    BY <1>1, <1>7
  <2>2. Has(h, i)' = Has(h, i)
    BY <1>2, <1>3 DEF Has
  <2>3. Has(h, i) => i \notin inAttach /\ i \notin inBatch.items /\ i # Dictated
    BY <2>1 DEF OnceOf, Copying, VoiceLabels
  <2> QED
    BY <1>1, <1>2, <1>3, <1>5, <1>7, <2>1, <2>2, <2>3, OnceStays DEF InTypeOK
<1>8. VoiceInv'
  <2>1. \A g \in Handlers : g # h => At(g)' = At(g) /\ Pending(g)' = Pending(g) /\ Item(g)' = Item(g)
    BY <1>3 DEF At, Pending, Item
  <2>2. VoiceTypes'
    BY <1>2, <1>3, <1>4, <2>1 DEF VoiceInv, VoiceTypes, Dictated
  <2>3. (\A g \in Handlers : At(g) \in Copying => CopyOf(g))'
    BY <1>2, <1>3, <1>4, <2>1 DEF VoiceInv, CopyOf, Dictated
  <2>4. (\A f, g \in Handlers : f # g /\ Pending(f) = Pending(g) /\ Pending(f) # 0 => inText[Pending(f)] \in inShared)'
    BY <1>2, <1>3, <2>1 DEF VoiceInv, Dictated
  <2> QED
    BY <1>2, <1>3, <1>4, <2>1, <2>2, <2>3, <2>4 DEF VoiceInv
<1> QED
  BY <1>5, <1>6, <1>7, <1>8 DEF InInv

\* The correction is written into the dictation.
LEMMA EditedStep ==
    ASSUME InInv, VoiceInv, NEW h \in Handlers, VoiceEdited(h)
    PROVE  InInv' /\ VoiceInv'
<1> USE ItemNumbers
<1> DEFINE p == Pending(h)
<1> DEFINE t == Item(h)
<1>1. InTypeOK /\ Keeping /\ \A i \in Items \ inShared : OnceOf(i)
  BY DEF InInv
<1>2. /\ At(h) = "edit" /\ inText' = [inText EXCEPT ![p] = t] /\ inKept' = inKept \cup {t}
      /\ inTold' = inTold \cup {inText[p]} /\ inCrossed' = inCrossed \cup Crossing(t)
      /\ inShared' = IF \E g \in Handlers \ {h} : Pending(g) = p THEN inShared \cup {t} ELSE inShared
      /\ Goes(h, "edited")
      /\ UNCHANGED <<inAttach, inVoice, inBatch, inItems, inSent>>
  BY DEF VoiceEdited
<1>3. /\ "edit" \in VoiceLabels /\ "edit" \notin Copying /\ "edited" \in Copying /\ "edited" \in VoiceLabels
      /\ "edited" \in InLabels /\ "edited" \notin Commanding /\ "edited" \notin Holding
  BY DEF VoiceLabels, Copying, InLabels, Commanding, Holding
<1>4. p \in Items /\ p \in 0 .. MaxItems /\ t \in Items /\ Held(h) = {} /\ inText[p] \in Items
  BY <1>2, <1>3, AnswerFacts
<1>5. /\ inDoing' \in [Handlers -> Doings]
      /\ At(h)' = "edited" /\ Item(h)' = t /\ Held(h)' = {} /\ Pending(h)' = p
      /\ \A g \in Handlers : g # h => inDoing'[g] = inDoing[g]
  BY <1>1, <1>2, <1>3, <1>4, GoesOn
<1>6. inText \in [0 .. MaxItems -> Items \cup {0}] /\ inVoice \in Items \cup {0} /\ inVoice \in 0 .. MaxItems
  BY IntakeAssumption DEF VoiceInv, VoiceTypes, Items
<1>7. inText'[p] = t /\ \A q \in 0 .. MaxItems : q # p => inText'[q] = inText[q]
  BY <1>2, <1>4, <1>6
<1>8. Dictated' = IF inVoice = p THEN t ELSE Dictated
  BY <1>2, <1>6, <1>7 DEF Dictated
<1>9. inVoice = p => Dictated = inText[p]
  BY DEF Dictated
<1>10. InTypeOK'
  <2>1. \A g \in Handlers : g # h => At(g)' = At(g) /\ Held(g)' = Held(g) /\ Item(g)' = Item(g)
    BY <1>5 DEF At, Held, Item
  <2>2. Dictated' \in Items \cup {0}
    BY <1>1, <1>4, <1>8 DEF InTypeOK
  <2> QED
    BY <1>1, <1>2, <1>3, <1>4, <1>5, <2>1, <2>2 DEF InTypeOK
<1>11. Keeping'
  <2>1. \A i \in inKept \ inCrossed' :
          /\ i \in inAttach \/ i \in inBatch.items \/ i = Dictated => Safe(i)'
          /\ Item(h) = i \/ (At(h) = "append" /\ i \in Held(h)) => Safe(i)'
    BY <1>2, <1>5, <1>8, <1>9 DEF Safe
  <2>2. \A i \in inKept' \ inCrossed' : i \in inKept \/ Safe(i)'
    BY <1>2, <1>5 DEF Safe
  <2>3. inCrossed \subseteq inCrossed' /\ inTold \subseteq inTold'
    BY <1>2
  <2> QED
    BY <1>1, <1>2, <1>5, <1>10, <2>1, <2>2, <2>3, KeepsWell
<1>12. ASSUME NEW i \in Items \ inShared' PROVE OnceOf(i)'
  <2>1. OnceOf(i) /\ i # 0
    BY <1>1, <1>2, <1>12
  <2>2. Has(h, i)' <=> i = t
    BY <1>5 DEF Has
  <2>3. Has(h, i) <=> i = t
    BY <1>4 DEF Has
  <2>4. i = t => i \notin inAttach /\ i \notin inBatch.items /\ i # Dictated /\ inSent[i] = 0 /\ ~(i > inItems)
    <3>1. inSent[i] \in Nat
      BY <1>1, <1>12 DEF InTypeOK
    <3> QED
      BY <1>2, <1>3, <2>1, <2>3, <3>1 DEF OnceOf
  <2>5. CASE i # t
    <3>1. ~Has(h, i)' /\ (i = Dictated' => i = Dictated) /\ Held(h) = {}
      BY <1>4, <1>8, <2>2, <2>5
    <3>2. InTypeOK /\ InTypeOK' /\ OnceOf(i) /\ i \in Items /\ inItems <= inItems'
      BY <1>1, <1>2, <1>10, <1>12, <2>1 DEF InTypeOK
    <3>3. UNCHANGED <<inAttach, inBatch, inSent>> /\ \A g \in Handlers : g # h => inDoing'[g] = inDoing[g]
      BY <1>2, <1>5
    <3> QED
      BY <3>1, <3>2, <3>3, OnceStays
  <2>6. CASE i = t
    <3>1. \A g \in Handlers : Has(g, i)' => g = h
      <4>1. \A g \in Handlers : g # h => Has(g, i)' = Has(g, i)
        BY <1>5 DEF Has, Item, Held
      <4> QED
        BY <2>1, <2>3, <2>6, <4>1 DEF OnceOf
    <3> QED
      BY <1>2, <1>3, <1>5, <2>4, <2>6, <3>1 DEF OnceOf
  <2> QED
    BY <2>5, <2>6
<1>13. VoiceInv'
  <2>1. \A g \in Handlers : g # h => At(g)' = At(g) /\ Pending(g)' = Pending(g) /\ Item(g)' = Item(g)
    BY <1>5 DEF At, Pending, Item
  <2>2. \A g \in Handlers : Pending(g) \in 0 .. MaxItems
    BY AnswerFacts
  <2>3. VoiceTypes'
    <3>1. inText' \in [0 .. MaxItems -> Items \cup {0}] /\ inText'[0] = 0
      BY <1>2, <1>4, <1>6, <1>7 DEF VoiceInv, VoiceTypes
    <3>2. inVoice' # 0 => Dictated' # 0
      BY <1>2, <1>4, <1>8 DEF VoiceInv, VoiceTypes
    <3>3. (\A g \in Handlers : IF At(g) \in VoiceLabels THEN Pending(g) # 0 /\ inText[Pending(g)] # 0 ELSE Pending(g) = 0)'
      BY <1>2, <1>3, <1>4, <1>5, <1>7, <2>1, <2>2 DEF VoiceInv, VoiceTypes
    <3> QED
      BY <1>2, <1>6, <3>1, <3>2, <3>3 DEF VoiceTypes
  <2>4. \A g \in Handlers : g # h /\ Pending(g) = p => t \in inShared' /\ inText[p] \in inShared
    BY <1>2, <1>4 DEF VoiceInv
  <2>5. (\A g \in Handlers : At(g) \in Copying => CopyOf(g))'
    <3>1. CopyOf(h)'
      BY <1>5, <1>7 DEF CopyOf
    <3>2. ASSUME NEW g \in Handlers, g # h, At(g) \in Copying PROVE CopyOf(g)'
      <4>1. CopyOf(g)
        BY <3>2 DEF VoiceInv
      <4>2. CASE Pending(g) = p
        <5>1. Item(g) \in inShared
          BY <2>4, <3>2, <4>1, <4>2 DEF CopyOf
        <5> QED
          BY <1>2, <1>7, <2>1, <2>4, <3>2, <4>2, <5>1 DEF CopyOf
      <4>3. CASE Pending(g) # p
        BY <1>2, <1>7, <2>1, <2>2, <3>2, <4>1, <4>3 DEF CopyOf
      <4> QED
        BY <4>2, <4>3
    <3> QED
      BY <2>1, <3>1, <3>2
  <2>6. (\A f, g \in Handlers : f # g /\ Pending(f) = Pending(g) /\ Pending(f) # 0 => inText[Pending(f)] \in inShared)'
    <3> SUFFICES ASSUME NEW f \in Handlers, NEW g \in Handlers, f # g, Pending(f) = Pending(g), Pending(f) # 0
                 PROVE  inText'[Pending(f)] \in inShared'
      BY <1>5, <2>1
    <3>1. CASE Pending(f) = p
      BY <1>7, <2>4, <3>1
    <3>2. CASE Pending(f) # p
      BY <1>2, <1>7, <2>2, <3>2 DEF VoiceInv
    <3> QED
      BY <3>1, <3>2
  <2>7. (\A g \in Handlers : At(g) \in {"confirm", "drop"} => inVoice \in {0, Pending(g)} \/ Dictated \in inCrossed)'
    <3> SUFFICES ASSUME NEW g \in Handlers, g # h, At(g) \in {"confirm", "drop"}
                 PROVE  inVoice \in {0, Pending(g)} \/ Dictated' \in inCrossed'
      BY <1>2, <1>5, <2>1
    <3>1. t \in inCrossed'
      BY <1>2 DEF Crossing, Emptying
    <3> QED
      BY <1>2, <1>8, <3>1 DEF VoiceInv
  <2>8. (\A g \in Handlers : At(g) \in Copying /\ Item(g) = Dictated => Pending(g) = inVoice \/ Dictated \in inShared)'
    <3>1. CASE inVoice = p
      <4> SUFFICES ASSUME NEW g \in Handlers, g # h, Item(g) = t, t \notin inShared PROVE FALSE
        BY <1>2, <1>5, <1>8, <2>1, <3>1
      <4>1. OnceOf(t) /\ Has(g, t) /\ Has(h, t)
        BY <1>1, <1>4 DEF Has
      <4> QED
        BY <4>1 DEF OnceOf
    <3>2. CASE inVoice # p
      <4>1. ASSUME Dictated = t PROVE t \in inShared
        <5> SUFFICES ASSUME t \notin inShared PROVE FALSE
          OBVIOUS
        <5>1. OnceOf(t) /\ Has(h, t)
          BY <1>1, <1>4 DEF Has
        <5> QED
          BY <1>2, <1>3, <4>1, <5>1 DEF OnceOf
      <4> QED
        BY <1>2, <1>5, <1>8, <2>1, <3>2, <4>1 DEF VoiceInv
    <3> QED
      BY <3>1, <3>2
  <2> QED
    BY <2>3, <2>5, <2>6, <2>7, <2>8 DEF VoiceInv
<1> QED
  BY <1>10, <1>11, <1>12, <1>13 DEF InInv

\* A dictation comes into the store: nobody answers to it, or who does shares its text.
LEMMA VoicePut ==
    ASSUME InInv, VoiceInv, NEW h \in Handlers, NEW p \in Items, NEW text \in Items, KeepsVoice(p, text), Done(h),
           p = Pending(h) \/ (Pending(h) = 0 /\ \A g \in Handlers : Pending(g) # p),
           Item(h) = text \/ text \in inShared,
           \A g \in Handlers : g # h /\ Pending(g) = p => text \in inShared,
           inShared' = inShared, inCrossed \subseteq inCrossed', Crossing(text) \subseteq inCrossed'
    PROVE  VoiceInv' /\ Dictated' = text
<1> USE ItemNumbers
<1>1. InTypeOK /\ \A i \in Items \ inShared : OnceOf(i)
  BY DEF InInv
<1>2. inVoice' = p /\ inText' = [inText EXCEPT ![p] = text]
  BY DEF KeepsVoice
<1>3. /\ At(h)' = "idle" /\ Item(h)' = 0 /\ Pending(h)' = 0
      /\ \A g \in Handlers : g # h => inDoing'[g] = inDoing[g]
  BY <1>1, Rests
<1>4. inText \in [0 .. MaxItems -> Items \cup {0}] /\ p \in 0 .. MaxItems
  BY IntakeAssumption DEF VoiceInv, VoiceTypes, Items
<1>5. inText'[p] = text /\ \A q \in 0 .. MaxItems : q # p => inText'[q] = inText[q]
  BY <1>2, <1>4
<1>6. \A g \in Handlers : g # h => At(g)' = At(g) /\ Pending(g)' = Pending(g) /\ Item(g)' = Item(g)
  BY <1>3 DEF At, Pending, Item
<1>7. \A g \in Handlers : Pending(g) \in 0 .. MaxItems
  BY AnswerFacts
<1>8. Dictated' = text /\ text # 0 /\ p # 0
  BY <1>2, <1>5 DEF Dictated
<1>9. "idle" \notin VoiceLabels /\ "idle" \notin Copying
  BY DEF VoiceLabels, Copying
<1>10. VoiceTypes'
  <2>1. inText' \in [0 .. MaxItems -> Items \cup {0}] /\ inText'[0] = 0
    BY <1>2, <1>4, <1>5, <1>8 DEF VoiceInv, VoiceTypes
  <2>2. (\A g \in Handlers : IF At(g) \in VoiceLabels THEN Pending(g) # 0 /\ inText[Pending(g)] # 0 ELSE Pending(g) = 0)'
    <3> SUFFICES ASSUME NEW g \in Handlers, g # h
                 PROVE  IF At(g) \in VoiceLabels THEN Pending(g) # 0 /\ inText'[Pending(g)] # 0 ELSE Pending(g) = 0
      BY <1>3, <1>6, <1>9
    <3> QED
      BY <1>5, <1>7, <1>8 DEF VoiceInv, VoiceTypes
  <2> QED
    BY <1>2, <1>8, <2>1, <2>2 DEF VoiceTypes
<1>11. ASSUME NEW g \in Handlers, g # h, Pending(g) = p PROVE inText[p] \in inShared
  <2>1. Pending(h) = p
    BY <1>11
  <2> QED
    BY <1>8, <1>11, <2>1 DEF VoiceInv
<1>12. (\A g \in Handlers : At(g) \in Copying => CopyOf(g))'
  <2> SUFFICES ASSUME NEW g \in Handlers, g # h, At(g) \in Copying PROVE CopyOf(g)'
    BY <1>3, <1>6, <1>9
  <2>1. CopyOf(g)
    BY DEF VoiceInv
  <2>2. CASE Pending(g) = p
    <3>1. Item(g) \in inShared /\ text \in inShared
      BY <1>11, <2>1, <2>2 DEF CopyOf
    <3> QED
      BY <1>5, <1>6, <2>2, <3>1 DEF CopyOf
  <2>3. CASE Pending(g) # p
    BY <1>5, <1>6, <1>7, <2>1, <2>3 DEF CopyOf
  <2> QED
    BY <2>2, <2>3
<1>13. (\A f, g \in Handlers : f # g /\ Pending(f) = Pending(g) /\ Pending(f) # 0 => inText[Pending(f)] \in inShared)'
  <2> SUFFICES ASSUME NEW f \in Handlers, NEW g \in Handlers, f # g, f # h, g # h, Pending(f) = Pending(g), Pending(f) # 0
               PROVE  inText'[Pending(f)] \in inShared
    BY <1>3, <1>6
  <2>1. CASE Pending(f) = p
    BY <1>5, <2>1
  <2>2. CASE Pending(f) # p
    BY <1>5, <1>7, <2>2 DEF VoiceInv
  <2> QED
    BY <2>1, <2>2
<1>14. (\A g \in Handlers : At(g) \in {"confirm", "drop"} => inVoice \in {0, Pending(g)} \/ Dictated \in inCrossed)'
  BY <1>3, <1>6, <1>8 DEF Crossing, Emptying
<1>15. (\A g \in Handlers : At(g) \in Copying /\ Item(g) = Dictated => Pending(g) = inVoice \/ Dictated \in inShared)'
  <2> SUFFICES ASSUME NEW g \in Handlers, g # h, Item(g) = text, text \notin inShared PROVE FALSE
    BY <1>3, <1>6, <1>8, <1>9
  <2>1. OnceOf(text) /\ Has(g, text) /\ Has(h, text)
    BY <1>1 DEF Has
  <2> QED
    BY <2>1 DEF OnceOf
<1> QED
  BY <1>8, <1>10, <1>12, <1>13, <1>14, <1>15 DEF VoiceInv

\* A dictation is put back by an answer.
LEMMA PutBackStep ==
    ASSUME InInv, VoiceInv, NEW h \in Handlers, VoicePutBack(h)
    PROVE  InInv' /\ VoiceInv'
<1> USE ItemNumbers
<1> DEFINE p == Pending(h)
<1>1. /\ At(h) \in {"modify", "edited"} /\ Done(h)
      /\ UNCHANGED <<inAttach, inBatch, inItems, inSent, inTold, inShared>>
  BY DEF VoicePutBack
<1>2. PICK text \in {inText[p], Item(h)} :
        /\ KeepsVoice(p, text)
        /\ inCrossed' = inCrossed \cup Crossing(text) \cup ({Dictated, inText[p], Item(h)} \ {0, text})
  BY DEF VoicePutBack
<1>3. At(h) \in VoiceLabels /\ At(h) \in Copying
  BY <1>1 DEF VoiceLabels, Copying
<1>4. p \in Items /\ inText[p] \in Items /\ Item(h) \in Items
  BY <1>3, AnswerFacts
<1>5. CopyOf(h)
  BY <1>3 DEF VoiceInv
<1>6. text \in Items /\ (Item(h) = text \/ text \in inShared)
  BY <1>4, <1>5 DEF CopyOf
<1>7. ASSUME NEW g \in Handlers, g # h, Pending(g) = p PROVE text \in inShared
  <2>1. inText[p] \in inShared
    BY <1>4, <1>7 DEF VoiceInv
  <2> QED
    BY <1>5, <2>1 DEF CopyOf
<1>8. VoiceInv' /\ Dictated' = text
  BY <1>1, <1>2, <1>4, <1>6, <1>7, VoicePut
<1>9. inKept' = inKept \cup {text} /\ inCrossed \subseteq inCrossed' /\ Dictated \in {0, text} \cup inCrossed'
      /\ (Item(h) = text \/ Item(h) \in inCrossed')
  BY <1>2, <1>4 DEF KeepsVoice
<1>10. InInv'
  BY <1>1, <1>6, <1>8, <1>9, VoiceKept
<1> QED
  BY <1>8, <1>10

\* A dictation is confirmed or cancelled: the store is empty, and what others answer to as before.
LEMMA VoiceEmptied ==
    ASSUME InInv, VoiceInv, NEW h \in Handlers, inVoice' = 0, inText' = inText,
           \A g \in Handlers : g # h => inDoing'[g] = inDoing[g],
           At(h)' \notin VoiceLabels, Pending(h)' = 0, inShared' = inShared, inCrossed \subseteq inCrossed', InTypeOK'
    PROVE  VoiceInv' /\ Dictated' = 0
<1>1. Dictated' = 0
  BY DEF Dictated, VoiceInv, VoiceTypes
<1>2. \A g \in Handlers : g # h => At(g)' = At(g) /\ Pending(g)' = Pending(g) /\ Item(g)' = Item(g)
  BY DEF At, Pending, Item
<1>3. VoiceTypes'
  BY <1>1, <1>2 DEF VoiceInv, VoiceTypes
<1>4. (\A g \in Handlers : At(g) \in Copying => CopyOf(g))'
  BY <1>2 DEF VoiceInv, CopyOf, Copying
<1>5. (\A f, g \in Handlers : f # g /\ Pending(f) = Pending(g) /\ Pending(f) # 0 => inText[Pending(f)] \in inShared)'
  BY <1>2 DEF VoiceInv
<1>6. (\A g \in Handlers : At(g) \in Copying => Item(g) # 0)'
  BY DEF InTypeOK, Copying, VoiceLabels, Commanding
<1> QED
  BY <1>1, <1>3, <1>4, <1>5, <1>6 DEF VoiceInv

\* The store is emptied by a confirmation ...
LEMMA ConfirmedStep ==
    ASSUME InInv, VoiceInv, NEW h \in Handlers, VoiceConfirmed(h)
    PROVE  InInv' /\ VoiceInv'
<1> USE ItemNumbers
<1> DEFINE text == inText[Pending(h)]
<1>1. InTypeOK /\ Keeping /\ \A i \in Items \ inShared : OnceOf(i)
  BY DEF InInv
<1>2. /\ At(h) = "confirm" /\ inVoice' = 0 /\ inCrossed' = inCrossed \cup ({Item(h)} \ {text}) /\ Expires
      /\ inDoing' = [inDoing EXCEPT ![h].at = "text", ![h].pending = 0, ![h].item = text]
      /\ UNCHANGED <<inAttach, inText, inItems, inSent, inKept, inShared>>
  BY DEF VoiceConfirmed
<1>3. At(h) \in VoiceLabels /\ At(h) \in Copying
  BY <1>2 DEF VoiceLabels, Copying
<1>4. text \in Items /\ Item(h) \in Items /\ Held(h) = {}
  BY <1>3, AnswerFacts
<1>5. /\ inDoing' \in [Handlers -> Doings]
      /\ At(h)' = "text" /\ Item(h)' = text /\ Held(h)' = {} /\ Pending(h)' = 0
      /\ \A g \in Handlers : g # h => inDoing'[g] = inDoing[g]
  <2> PICK r : r = [inDoing[h] EXCEPT !.at = "text", !.pending = 0, !.item = text]
    OBVIOUS
  <2>1. inDoing[h] \in Doings
    BY <1>1 DEF InTypeOK
  <2>2. "text" \in InLabels
    BY DEF InLabels
  <2>3. r \in Doings /\ r.at = "text" /\ r.item = text /\ r.held = {} /\ r.pending = 0
    BY <1>4, <2>1, <2>2 DEF Doings, Held
  <2>4. inDoing' = [inDoing EXCEPT ![h] = r]
    BY <1>2
  <2> QED
    BY <1>1, <2>3, <2>4, DoingMoves
<1>6. "text" \notin Commanding /\ "text" \notin Holding /\ "text" \notin VoiceLabels
  BY DEF Commanding, Holding, VoiceLabels
<1>7. Dictated' = 0
  BY <1>2 DEF Dictated, VoiceInv, VoiceTypes
<1>8. /\ inBatch' \in Batches /\ inTold \subseteq inTold'
      /\ \/ inBatch'.items = inBatch.items /\ inBatch'.flushing = inBatch.flushing
         \/ inBatch'.items = {} /\ inBatch.items \subseteq inTold'
  BY <1>1, <1>2, ExpiryMoves
<1>9. InTypeOK'
  <2>1. \A g \in Handlers : g # h => At(g)' = At(g) /\ Held(g)' = Held(g) /\ Item(g)' = Item(g)
    BY <1>5 DEF At, Held, Item
  <2> QED
    BY <1>1, <1>2, <1>4, <1>5, <1>6, <1>7, <1>8, <2>1 DEF InTypeOK
<1>10. VoiceInv'
  BY <1>2, <1>5, <1>6, <1>9, VoiceEmptied
<1>11. Keeping'
  <2>1. \A i \in inKept \ inCrossed' :
          /\ i \in inAttach \/ i \in inBatch.items \/ i = Dictated => Safe(i)'
          /\ Item(h) = i \/ (At(h) = "append" /\ i \in Held(h)) => Safe(i)'
    <3> TAKE i \in inKept \ inCrossed'
    <3>1. i # 0
      BY <1>1 DEF InTypeOK
    <3>2. i = text => Safe(i)'
      BY <1>5 DEF Safe
    <3>3. i = Dictated => i = text
      <4>1. inVoice \in {0, Pending(h)} \/ Dictated \in inCrossed
        BY <1>2 DEF VoiceInv
      <4>2. inText[0] = 0
        BY DEF VoiceInv, VoiceTypes
      <4> QED
        BY <1>2, <3>1, <4>1, <4>2 DEF Dictated
    <3>4. Item(h) = i => i = text
      BY <1>2
    <3>5. i \in inAttach \/ i \in inBatch.items => Safe(i)'
      BY <1>2, <1>8 DEF Safe
    <3> QED
      BY <1>4, <3>2, <3>3, <3>4, <3>5
  <2> QED
    BY <1>1, <1>2, <1>5, <1>8, <1>9, <2>1, KeepsWell
<1>12. ASSUME NEW i \in Items \ inShared' PROVE OnceOf(i)'
  <2>1. OnceOf(i) /\ i # 0
    BY <1>1, <1>2, <1>12
  <2>2. Has(h, i)' => Has(h, i)
    BY <1>2, <1>3, <1>5, <1>12 DEF Has, VoiceInv, CopyOf
  <2>3. Has(h, i) => i \notin inAttach /\ i \notin inBatch.items
    BY <1>2, <2>1 DEF OnceOf
  <2>4. i \in inBatch'.items => i \in inBatch.items /\ inBatch'.flushing = inBatch.flushing
    BY <1>8
  <2>5. inItems <= inItems' /\ inSent'[i] = inSent[i]
    BY <1>1, <1>2 DEF InTypeOK
  <2> QED
    BY <1>1, <1>2, <1>4, <1>5, <1>7, <1>9, <1>12, <2>1, <2>2, <2>3, <2>4, <2>5, OnceStays
<1> QED
  BY <1>9, <1>10, <1>11, <1>12 DEF InInv

\* ... or by a cancellation.
LEMMA CancelledStep ==
    ASSUME InInv, VoiceInv, NEW h \in Handlers, VoiceCancelled(h)
    PROVE  InInv' /\ VoiceInv'
<1> USE ItemNumbers
<1>1. InTypeOK /\ Keeping /\ \A i \in Items \ inShared : OnceOf(i)
  BY DEF InInv
<1>2. /\ At(h) = "drop" /\ inVoice' = 0 /\ inTold' = inTold \cup {Item(h), inText[Pending(h)]} /\ Done(h)
      /\ UNCHANGED <<inAttach, inText, inBatch, inItems, inSent, inKept, inShared, inCrossed>>
  BY DEF VoiceCancelled
<1>3. /\ inDoing' \in [Handlers -> Doings]
      /\ At(h)' = "idle" /\ Item(h)' = 0 /\ Held(h)' = {} /\ Pending(h)' = 0
      /\ \A g \in Handlers : g # h => inDoing'[g] = inDoing[g]
  BY <1>1, <1>2, Rests
<1>4. At(h) \in VoiceLabels /\ "idle" \notin VoiceLabels /\ "idle" \in Commanding
  BY <1>2 DEF VoiceLabels, Commanding
<1>5. Held(h) = {}
  BY <1>4, AnswerFacts
<1>6. Dictated' = 0
  BY <1>2 DEF Dictated, VoiceInv, VoiceTypes
<1>7. InTypeOK'
  <2>1. \A g \in Handlers : g # h => At(g)' = At(g) /\ Held(g)' = Held(g) /\ Item(g)' = Item(g)
    BY <1>3 DEF At, Held, Item
  <2> QED
    BY <1>1, <1>2, <1>3, <1>4, <1>6, <2>1 DEF InTypeOK
<1>8. VoiceInv'
  BY <1>2, <1>3, <1>4, <1>7, VoiceEmptied
<1>9. Keeping'
  <2>1. \A i \in inKept \ inCrossed' :
          /\ i \in inAttach \/ i \in inBatch.items \/ i = Dictated => Safe(i)'
          /\ Item(h) = i \/ (At(h) = "append" /\ i \in Held(h)) => Safe(i)'
    <3> TAKE i \in inKept \ inCrossed'
    <3>1. i # 0
      BY <1>1 DEF InTypeOK
    <3>2. i = Dictated => i = inText[Pending(h)]
      <4>1. inVoice \in {0, Pending(h)} \/ Dictated \in inCrossed
        BY <1>2 DEF VoiceInv
      <4>2. inText[0] = 0
        BY DEF VoiceInv, VoiceTypes
      <4> QED
        BY <1>2, <3>1, <4>1, <4>2 DEF Dictated
    <3> QED
      BY <1>2, <1>5, <3>2 DEF Safe
  <2> QED
    BY <1>1, <1>2, <1>3, <1>7, <2>1, KeepsWell
<1>10. ASSUME NEW i \in Items \ inShared' PROVE OnceOf(i)'
  <2>1. OnceOf(i) /\ i # 0
    BY <1>1, <1>2, <1>10
  <2>2. ~Has(h, i)'
    BY <1>3, <2>1 DEF Has
  <2>3. inItems <= inItems' /\ inSent'[i] = inSent[i]
    BY <1>1, <1>2 DEF InTypeOK
  <2> QED
    BY <1>1, <1>2, <1>3, <1>5, <1>6, <1>7, <1>10, <2>1, <2>2, <2>3, OnceStays
<1> QED
  BY <1>7, <1>8, <1>9, <1>10 DEF InInv

\* A step that has nothing to do with dictations.
LEMMA VoiceUntouched ==
    ASSUME InTypeOK, VoiceInv, NEW h \in Handlers, NEW r \in Doings, inDoing' = [inDoing EXCEPT ![h] = r],
           r.at \notin VoiceLabels, r.pending = 0, UNCHANGED <<inVoice, inText>>,
           inShared \subseteq inShared', inCrossed \subseteq inCrossed'
    PROVE  VoiceInv'
<1>1. At(h)' = r.at /\ Pending(h)' = 0 /\ \A g \in Handlers : g # h => inDoing'[g] = inDoing[g]
  BY DoingMoves
<1>2. \A g \in Handlers : g # h => At(g)' = At(g) /\ Pending(g)' = Pending(g) /\ Item(g)' = Item(g)
  BY <1>1 DEF At, Pending, Item
<1>3. Dictated' = Dictated /\ r.at \notin Copying
  BY DEF Dictated, Copying
<1>4. VoiceTypes'
  BY <1>1, <1>2, <1>3 DEF VoiceInv, VoiceTypes
<1>5. (\A g \in Handlers : At(g) \in Copying => CopyOf(g))'
  BY <1>1, <1>2, <1>3 DEF VoiceInv, CopyOf
<1>6. (\A f, g \in Handlers : f # g /\ Pending(f) = Pending(g) /\ Pending(f) # 0 => inText[Pending(f)] \in inShared)'
  BY <1>1, <1>2 DEF VoiceInv
<1>7. (\A g \in Handlers : At(g) \in {"confirm", "drop"} => inVoice \in {0, Pending(g)} \/ Dictated \in inCrossed)'
  BY <1>1, <1>2, <1>3 DEF VoiceInv, VoiceLabels
<1>8. (\A g \in Handlers : At(g) \in Copying /\ Item(g) = Dictated => Pending(g) = inVoice \/ Dictated \in inShared)'
  BY <1>1, <1>2, <1>3 DEF VoiceInv
<1> QED
  BY <1>4, <1>5, <1>6, <1>7, <1>8 DEF VoiceInv

\* A handler that does not answer goes on, with other copies or without any, or is done.
LEMMA VoiceQuiet ==
    ASSUME InTypeOK, VoiceInv, NEW h \in Handlers, At(h) \notin VoiceLabels, UNCHANGED <<inVoice, inText>>,
           inShared \subseteq inShared', inCrossed \subseteq inCrossed',
           \/ Done(h)
           \/ \E label \in InLabels \ VoiceLabels : Goes(h, label)
           \/ \E label \in InLabels \ VoiceLabels, items \in SUBSET Items :
                inDoing' = [inDoing EXCEPT ![h].at = label, ![h].held = items]
           \/ \E label \in InLabels \ VoiceLabels : NewItem(h, label)
           \/ inDoing' = [inDoing EXCEPT ![h] = [Resting EXCEPT !.at = "command"]]
    PROVE  VoiceInv'
<1>1. inDoing[h] \in Doings /\ inDoing[h].pending = 0
  BY DEF InTypeOK, VoiceInv, VoiceTypes, Pending
<1>2. CASE Done(h)
  <2>1. Resting \in Doings /\ Resting.at \notin VoiceLabels /\ Resting.pending = 0
    BY DEF Resting, Doings, InLabels, VoiceLabels
  <2> QED
    BY <1>2, <2>1, VoiceUntouched DEF Done
<1>3. ASSUME NEW label \in InLabels \ VoiceLabels, Goes(h, label) PROVE VoiceInv'
  <2> PICK r : r = [inDoing[h] EXCEPT !.at = label]
    OBVIOUS
  <2>1. r \in Doings /\ r.at \notin VoiceLabels /\ r.pending = 0
    BY <1>1 DEF Doings
  <2>2. inDoing' = [inDoing EXCEPT ![h] = r]
    BY <1>3 DEF Goes
  <2> QED
    BY <2>1, <2>2, VoiceUntouched
<1>4. ASSUME NEW label \in InLabels \ VoiceLabels, NEW items \in SUBSET Items,
             inDoing' = [inDoing EXCEPT ![h].at = label, ![h].held = items]
      PROVE  VoiceInv'
  <2> PICK r : r = [inDoing[h] EXCEPT !.at = label, !.held = items]
    OBVIOUS
  <2>1. r \in Doings /\ r.at \notin VoiceLabels /\ r.pending = 0
    BY <1>1 DEF Doings
  <2>2. inDoing' = [inDoing EXCEPT ![h] = r]
    BY <1>4
  <2> QED
    BY <2>1, <2>2, VoiceUntouched
<1>5. ASSUME NEW label \in InLabels \ VoiceLabels, NewItem(h, label) PROVE VoiceInv'
  <2> PICK r : r = [Resting EXCEPT !.at = label, !.item = inItems + 1]
    OBVIOUS
  <2>1. inItems + 1 \in Items
    <3>1. inItems \in 0 .. MaxItems /\ inItems < MaxItems /\ MaxItems \in Nat
      BY <1>5, ItemNumbers DEF NewItem, InTypeOK
    <3> QED
      BY <3>1 DEF Items
  <2>2. r \in Doings /\ r.at \notin VoiceLabels /\ r.pending = 0
    BY <2>1 DEF Doings, Resting
  <2>3. inDoing' = [inDoing EXCEPT ![h] = r]
    BY <1>5 DEF NewItem
  <2> QED
    BY <2>2, <2>3, VoiceUntouched
<1>6. CASE inDoing' = [inDoing EXCEPT ![h] = [Resting EXCEPT !.at = "command"]]
  <2> PICK r : r = [Resting EXCEPT !.at = "command"]
    OBVIOUS
  <2>1. r \in Doings /\ r.at \notin VoiceLabels /\ r.pending = 0
    BY DEF Doings, Resting, InLabels, VoiceLabels
  <2> QED
    BY <1>6, <2>1, VoiceUntouched
<1> QED
  BY <1>2, <1>3, <1>4, <1>5, <1>6

\* The labels that a handler which does not answer may go to.
LEMMA QuietLabels ==
    {"text", "attachment", "voice", "asks", "text asks", "has", "text has", "buffer", "store", "attach", "awaits",
     "session", "clear", "command", "start", "attachments", "absorb", "append", "cancel", "flush", "flushing",
     "flushed"} \subseteq InLabels \ VoiceLabels
  BY DEF InLabels, VoiceLabels

\* The steps of dictations.
LEMMA DictationSteps ==
    ASSUME InInv, VoiceInv, NEW h \in Handlers,
           VoiceStored(h) \/ TextAsksVoice(h) \/ VoiceEdited(h) \/ VoicePutBack(h) \/ VoiceConfirmed(h) \/ VoiceCancelled(h)
    PROVE  InInv' /\ VoiceInv'
<1> USE ItemNumbers
<1>0. InTypeOK
  BY DEF InInv
<1>1. CASE VoiceStored(h)
  <2>1. /\ At(h) = "voice" /\ Done(h) /\ inTold' = inTold \cup ({Dictated} \ {0})
        /\ inCrossed' = inCrossed \cup Crossing(Item(h))
        /\ UNCHANGED <<inAttach, inBatch, inItems, inSent, inShared>>
    BY <1>1 DEF VoiceStored
  <2>2. PICK p \in Items \ ({inVoice} \cup {Pending(g) : g \in Handlers}) : KeepsVoice(p, Item(h))
    BY <1>1 DEF VoiceStored
  <2>3. Item(h) \in Items
    <3>1. Item(h) # 0
      BY <1>0, <2>1 DEF InTypeOK, Commanding
    <3>2. Item(h) \in Items \cup {0}
      BY <1>0 DEF InTypeOK, Doings, Item
    <3> QED
      BY <3>1, <3>2
  <2>4. Pending(h) = 0
    BY <2>1 DEF VoiceInv, VoiceTypes, VoiceLabels
  <2>5. VoiceInv' /\ Dictated' = Item(h)
    <3>1. \A g \in Handlers : Pending(g) # p
      BY <2>2
    <3>2. p \in Items /\ inCrossed \subseteq inCrossed' /\ Crossing(Item(h)) \subseteq inCrossed'
      BY <2>1, <2>2
    <3> QED
      BY <2>1, <2>2, <2>3, <2>4, <3>1, <3>2, VoicePut
  <2>6. inKept' = inKept \cup {Item(h)}
    BY <2>2 DEF KeepsVoice
  <2>7. InInv'
    BY <2>1, <2>3, <2>5, <2>6, VoiceKept
  <2> QED
    BY <2>5, <2>7
<1>2. CASE TextAsksVoice(h)
  <2>1. At(h) = "text" /\ UNCHANGED <<inAttach, inVoice, inText, inBatch, inItems, inSent, inKept, inCrossed>>
    BY <1>2 DEF TextAsksVoice, inStores
  <2>2. /\ "awaits" \in InLabels /\ "awaits" \in Plain /\ "text" \in Plain /\ "awaits" \notin Commanding
        /\ "idle" \in Plain /\ "idle" \in Commanding
        /\ inBatch \in Batches /\ Held(h) = {} /\ Item(h) # 0 /\ At(h) \notin VoiceLabels
        /\ "awaits" \notin VoiceLabels
    BY <1>0, <2>1 DEF InLabels, Plain, Commanding, InTypeOK, Holding, VoiceLabels
  <2>3. Dictated' = Dictated
    BY <2>1 DEF Dictated
  <2>4. CASE inVoice = 0
    <3>1. Goes(h, "awaits") /\ UNCHANGED <<inTold, inShared>>
      BY <1>2, <2>4 DEF TextAsksVoice
    <3>2. InInv'
      BY <1>0, <2>1, <2>2, <2>3, <3>1, GoesOn, PlainStep
    <3>3. VoiceInv'
      BY <1>0, <2>1, <2>2, <3>1, VoiceQuiet
    <3> QED
      BY <3>2, <3>3
  <2>5. CASE inVoice # 0 /\ Refused(h) /\ UNCHANGED inShared
    <3>1. InInv'
      BY <1>0, <2>1, <2>2, <2>3, <2>5, Refuses, PlainStep
    <3>2. VoiceInv'
      BY <1>0, <2>1, <2>2, <2>5, VoiceQuiet DEF Refused
    <3> QED
      BY <3>1, <3>2
  <2>6. CASE /\ inVoice # 0 /\ UNCHANGED inTold
             /\ inDoing' = [inDoing EXCEPT ![h].at = "edit", ![h].pending = inVoice]
             /\ inShared' = IF \E g \in Handlers : Pending(g) = inVoice THEN inShared \cup {Dictated} ELSE inShared
    BY <2>1, <2>6, EditBegins
  <2>7. CASE /\ inVoice # 0 /\ inTold' = inTold \cup {Item(h)}
             /\ \E label \in {"confirm", "drop", "modify"} :
                  inDoing' = [inDoing EXCEPT ![h].at = label, ![h].pending = inVoice, ![h].item = Dictated]
             /\ inShared' = IF \E g \in Handlers : Pending(g) = inVoice THEN inShared \cup {Dictated} ELSE inShared
    BY <2>1, <2>7, VoiceTaken
  <2> QED
    BY <1>2, <2>4, <2>5, <2>6, <2>7 DEF TextAsksVoice
<1> QED
  BY <1>1, <1>2, EditedStep, PutBackStep, ConfirmedStep, CancelledStep

\* An attachment waits for a text.
LEMMA StoresStep ==
    ASSUME InInv, NEW h \in Handlers, Stores(h)
    PROVE  InInv'
<1> USE ItemNumbers
<1>1. InTypeOK /\ Keeping /\ \A i \in Items \ inShared : OnceOf(i)
  BY DEF InInv
<1>2. /\ At(h) = "store" /\ inAttach' = inAttach \cup {Item(h)} /\ inKept' = inKept \cup {Item(h)}
      /\ inCrossed' = IF Taking # {} THEN inCrossed \cup {Item(h)} ELSE inCrossed
      /\ Done(h)
      /\ UNCHANGED <<Dictated, inBatch, inItems, inSent, inTold, inShared>>
  BY DEF Stores, Dictated
<1>3. /\ inDoing' \in [Handlers -> Doings]
      /\ At(h)' = "idle" /\ Item(h)' = 0 /\ Held(h)' = {}
      /\ \A g \in Handlers : g # h => inDoing'[g] = inDoing[g]
  BY <1>1, <1>2, Rests
<1>4. Held(h) = {} /\ Item(h) \in Items
  <2>1. Item(h) # 0 /\ Held(h) = {}
    BY <1>1, <1>2 DEF InTypeOK, Holding, Commanding
  <2>2. Item(h) \in Items \cup {0}
    BY <1>1 DEF InTypeOK, Doings, Item
  <2> QED
    BY <2>1, <2>2
<1>5. InTypeOK'
  <2>1. \A g \in Handlers : g # h => At(g)' = At(g) /\ Held(g)' = Held(g) /\ Item(g)' = Item(g)
    BY <1>3 DEF At, Held, Item
  <2>2. "idle" \in Commanding
    BY DEF Commanding
  <2> QED
    BY <1>1, <1>2, <1>3, <1>4, <2>1, <2>2 DEF InTypeOK
<1>6. Keeping'
  <2>1. inAttach' \ inCrossed' \subseteq inAttach
          \/ \A g \in Handlers : g # h => At(g) \notin {"session", "clear", "absorb"}
    BY <1>2 DEF Taking
  <2>2. inCrossed \subseteq inCrossed' /\ inTold \subseteq inTold'
    BY <1>2
  <2>3. \A i \in inKept' \ inCrossed' : i \in inKept \/ Safe(i)'
    BY <1>2 DEF Safe
  <2>4. \A i \in inKept \ inCrossed' :
          /\ i \in inAttach \/ i \in inBatch.items \/ i = Dictated => Safe(i)'
          /\ Item(h) = i \/ (At(h) = "append" /\ i \in Held(h)) => Safe(i)'
    BY <1>2, <1>4 DEF Safe
  <2> QED
    BY <1>1, <1>2, <1>3, <1>5, <2>1, <2>2, <2>3, <2>4, KeepsWell
<1>7. ASSUME NEW i \in Items \ inShared' PROVE OnceOf(i)'
  <2>1. OnceOf(i) /\ i # 0
    BY <1>1, <1>2, <1>7
  <2>2. ~Has(h, i)'
    BY <1>3, <2>1 DEF Has
  <2>3. CASE i # Item(h)
    <3>1. inItems <= inItems'
      BY <1>1, <1>2 DEF InTypeOK
    <3> QED
      BY <1>1, <1>2, <1>3, <1>4, <1>5, <1>7, <2>1, <2>2, <2>3, <3>1, OnceStays
  <2>4. CASE i = Item(h)
    <3>1. Has(h, i) /\ \A g \in Handlers : Has(g, i) => g = h
      BY <2>1, <2>4 DEF Has, OnceOf
    <3>2. inSent[i] = 0 /\ i # Dictated /\ i \notin inBatch.items /\ ~(i > inItems)
      <4>1. inSent[i] \in Nat
        BY <1>1, <1>7 DEF InTypeOK
      <4> QED
        BY <1>2, <2>1, <3>1, <4>1 DEF OnceOf, Copying, VoiceLabels
    <3>3. \A g \in Handlers : ~Has(g, i)'
      <4>1. \A g \in Handlers : g # h => Has(g, i)' = Has(g, i)
        BY <1>3 DEF Has, Item, Held
      <4> QED
        BY <2>2, <3>1, <4>1
    <3> QED
      BY <1>2, <3>2, <3>3 DEF OnceOf
  <2> QED
    BY <2>3, <2>4
<1> QED
  BY <1>5, <1>6, <1>7 DEF InInv

\* The attachments are copied; who else has copied them shares them.
LEMMA CopiesTaken ==
    ASSUME InInv, NEW h \in Handlers, NEW label,
           (At(h) = "attach" /\ label = "session") \/ (At(h) = "attachments" /\ label = "absorb"),
           inDoing' = [inDoing EXCEPT ![h].at = label, ![h].held = inAttach],
           inShared' = IF Taking # {} THEN inShared \cup inAttach ELSE inShared,
           UNCHANGED <<inAttach, Dictated, inBatch, inItems, inSent, inKept, inTold, inCrossed>>
    PROVE  InInv'
<1> USE ItemNumbers
<1>1. InTypeOK /\ Keeping /\ \A i \in Items \ inShared : OnceOf(i)
  BY DEF InInv
<1>2. Held(h) = {} /\ inAttach \in SUBSET Items
  BY <1>1 DEF InTypeOK, Holding
<1>3. /\ inDoing' \in [Handlers -> Doings]
      /\ At(h)' = label /\ Item(h)' = Item(h) /\ Held(h)' = inAttach
      /\ \A g \in Handlers : g # h => inDoing'[g] = inDoing[g]
  <2> PICK r : r = [inDoing[h] EXCEPT !.at = label, !.held = inAttach]
    OBVIOUS
  <2>1. inDoing[h] \in Doings
    BY <1>1 DEF InTypeOK
  <2>2. label \in InLabels
    BY DEF InLabels
  <2>3. r \in Doings /\ r.at = label /\ r.item = inDoing[h].item /\ r.held = inAttach
    BY <1>2, <2>1, <2>2 DEF Doings
  <2>4. inDoing' = [inDoing EXCEPT ![h] = r]
    OBVIOUS
  <2> QED
    BY <1>1, <2>3, <2>4, DoingMoves DEF Item
<1>4. InTypeOK'
  <2>1. \A g \in Handlers : g # h => At(g)' = At(g) /\ Held(g)' = Held(g) /\ Item(g)' = Item(g)
    BY <1>3 DEF At, Held, Item
  <2>2. /\ label \in Holding /\ (label \in Commanding => Item(h) = 0)
        /\ label \notin Commanding \cup {"flush", "flushing", "flushed"} => Item(h) # 0
    BY <1>1 DEF Holding, Commanding, InTypeOK
  <2> QED
    BY <1>1, <1>3, <2>1, <2>2 DEF InTypeOK
<1>5. Keeping'
  <2>1. \A i \in inKept \ inCrossed' :
          /\ i \in inAttach \/ i \in inBatch.items \/ i = Dictated => Safe(i)'
          /\ Item(h) = i \/ (At(h) = "append" /\ i \in Held(h)) => Safe(i)'
    BY <1>2, <1>3 DEF Safe
  <2> QED
    BY <1>1, <1>3, <1>4, <2>1, KeepsWell
<1>6. ASSUME NEW i \in Items \ inShared' PROVE OnceOf(i)'
  <2>1. OnceOf(i) /\ i # 0
    BY <1>1, <1>6
  <2>2. CASE i \notin inAttach
    <3>1. Has(h, i)' => Has(h, i) /\ Item(h) = i
      BY <1>3, <2>2 DEF Has
    <3>2. Has(h, i) => i \notin inBatch.items /\ i # Dictated
      BY <2>1 DEF OnceOf, Copying, VoiceLabels
    <3> QED
      BY <1>1, <1>2, <1>3, <1>4, <1>6, <2>1, <2>2, <3>1, <3>2, OnceStays DEF InTypeOK
  <2>3. CASE i \in inAttach
    <3>1. Taking = {}
      BY <1>6, <2>3
    <3>2. \A g \in Handlers : ~Has(g, i)
      BY <2>1, <2>3, <3>1 DEF OnceOf, Taking
    <3>3. \A g \in Handlers : Has(g, i)' => g = h
      BY <1>3, <3>2 DEF Has, Item, Held
    <3>4. inSent[i] = 0
      BY <1>1, <1>6, <2>1, <2>3, <3>2 DEF OnceOf, Has, InTypeOK
    <3>5. i # Dictated /\ i \notin inBatch.items /\ ~(i > inItems)
      BY <2>1, <2>3 DEF OnceOf
    <3>6. Item(h)' # i /\ i \in Held(h)'
      BY <1>3, <2>3, <3>2 DEF Has
    <3> QED
      BY <1>3, <2>3, <3>3, <3>4, <3>5, <3>6 DEF OnceOf
  <2> QED
    BY <2>2, <2>3
<1> QED
  BY <1>4, <1>5, <1>6 DEF InInv

\* A text, or a collection that begins, takes the attachments.
LEMMA TakingSteps ==
    ASSUME InInv, NEW h \in Handlers, TakesAttachments(h) \/ AbsorbTakes(h)
    PROVE  InInv'
<1>1. CASE TakesAttachments(h)
  BY <1>1, CopiesTaken DEF TakesAttachments, inStores, Dictated
<1>2. CASE AbsorbTakes(h)
  <2>1. /\ At(h) = "attachments"
        /\ UNCHANGED <<inAttach, Dictated, inBatch, inItems, inSent, inKept, inTold, inCrossed>>
        /\ inShared' = IF Taking # {} THEN inShared \cup inAttach ELSE inShared
    BY <1>2 DEF AbsorbTakes, inStores, Dictated
  <2>2. CASE inAttach = {}
    <3>1. Done(h) /\ inShared' = inShared
      BY <1>2, <2>1, <2>2 DEF AbsorbTakes
    <3>2. InTypeOK
      BY DEF InInv
    <3>3. /\ "idle" \in Plain /\ "attachments" \in Plain /\ "idle" \in Commanding /\ Item(h) = 0
          /\ inBatch \in Batches
      BY <2>1, <3>2 DEF Plain, VoiceLabels, InLabels, Commanding, InTypeOK
    <3> QED
      BY <2>1, <3>1, <3>2, <3>3, Rests, PlainStep
  <2>3. CASE inAttach # {}
    <3>1. inDoing' = [inDoing EXCEPT ![h].at = "absorb", ![h].held = inAttach]
      BY <1>2, <2>3 DEF AbsorbTakes
    <3> QED
      BY <2>1, <3>1, CopiesTaken
  <2> QED
    BY <2>2, <2>3
<1> QED
  BY <1>1, <1>2

\* The items of a prompt are counted as sent.
LEMMA SentCounts ==
    ASSUME InTypeOK, NEW items, Sent(items)
    PROVE  /\ inSent' \in [Items -> Nat]
           /\ \A i \in Items : /\ inSent[i] \in Nat
                               /\ i \in items => inSent'[i] = inSent[i] + 1
                               /\ i \notin items => inSent'[i] = inSent[i]
                               /\ inSent[i] > 0 => inSent'[i] > 0
  BY DEF InTypeOK, Sent

\* A request that is refused drops its copy of the attachments ...
LEMMA RequestRefused ==
    ASSUME InInv, NEW h \in Handlers, At(h) = "session", Refused(h),
           UNCHANGED <<inAttach, Dictated, inBatch, inItems, inSent, inKept, inShared, inCrossed>>
    PROVE  InInv'
<1> USE ItemNumbers
<1>1. InTypeOK /\ Keeping /\ \A i \in Items \ inShared : OnceOf(i)
  BY DEF InInv
<1>2. /\ inDoing' \in [Handlers -> Doings]
      /\ At(h)' = "idle" /\ Item(h)' = 0 /\ Held(h)' = {}
      /\ \A g \in Handlers : g # h => inDoing'[g] = inDoing[g]
      /\ Item(h) = 0 \/ Item(h) \in inTold'
      /\ inTold \subseteq inTold'
  BY <1>1, Refuses
<1>3. InTypeOK'
  <2>1. \A g \in Handlers : g # h => At(g)' = At(g) /\ Held(g)' = Held(g) /\ Item(g)' = Item(g)
    BY <1>2 DEF At, Held, Item
  <2>2. "idle" \in Commanding
    BY DEF Commanding
  <2> QED
    BY <1>1, <1>2, <2>1, <2>2 DEF InTypeOK
<1>4. Keeping'
  <2>1. \A i \in inKept \ inCrossed' :
          /\ i \in inAttach \/ i \in inBatch.items \/ i = Dictated => Safe(i)'
          /\ Item(h) = i \/ (At(h) = "append" /\ i \in Held(h)) => Safe(i)'
    <3>1. \A i \in inKept : i # 0
      BY <1>1 DEF InTypeOK
    <3> QED
      BY <1>2, <3>1 DEF Safe
  <2> QED
    BY <1>1, <1>2, <1>3, <2>1, KeepsWell
<1>5. ASSUME NEW i \in Items \ inShared' PROVE OnceOf(i)'
  <2>1. OnceOf(i) /\ i # 0
    BY <1>1, <1>5
  <2>2. ~Has(h, i)'
    BY <1>2, <2>1 DEF Has
  <2>3. inItems <= inItems' /\ inSent[i] \in Nat
    BY <1>1, <1>5 DEF InTypeOK
  <2>4. i \in Held(h) => ~(inSent[i] > 0)
    BY <2>1 DEF OnceOf, Has
  <2> QED
    BY <1>1, <1>2, <1>3, <1>5, <2>1, <2>2, <2>3, <2>4, OnceStays
<1> QED
  BY <1>3, <1>4, <1>5 DEF InInv

\* ... one that is queued sends it and leaves the attachments where they are ...
LEMMA RequestQueued ==
    ASSUME InInv, NEW h \in Handlers, At(h) = "session", Done(h), Sent({Item(h)} \cup inDoing[h].held),
           inShared' = inShared \cup inDoing[h].held,
           UNCHANGED <<inAttach, Dictated, inBatch, inItems, inKept, inTold, inCrossed>>
    PROVE  InInv'
<1> USE ItemNumbers
<1>1. InTypeOK /\ Keeping /\ \A i \in Items \ inShared : OnceOf(i)
  BY DEF InInv
<1>2. /\ inDoing' \in [Handlers -> Doings]
      /\ At(h)' = "idle" /\ Item(h)' = 0 /\ Held(h)' = {}
      /\ \A g \in Handlers : g # h => inDoing'[g] = inDoing[g]
  BY <1>1, Rests
<1>3. /\ inSent' \in [Items -> Nat]
      /\ \A i \in Items : /\ inSent[i] \in Nat
                          /\ Has(h, i) => inSent'[i] = inSent[i] + 1
                          /\ ~Has(h, i) => inSent'[i] = inSent[i]
                          /\ inSent[i] > 0 => inSent'[i] > 0
  <2> PICK s : s = {Item(h)} \cup inDoing[h].held
    OBVIOUS
  <2>1. Sent(s)
    OBVIOUS
  <2>2. \A i \in Items : Has(h, i) <=> i \in s
    BY DEF Has, Held
  <2> QED
    BY <1>1, <2>1, <2>2, SentCounts
<1>4. InTypeOK'
  <2>1. \A g \in Handlers : g # h => At(g)' = At(g) /\ Held(g)' = Held(g) /\ Item(g)' = Item(g)
    BY <1>2 DEF At, Held, Item
  <2>2. "idle" \in Commanding
    BY DEF Commanding
  <2> QED
    BY <1>1, <1>2, <1>3, <2>1, <2>2 DEF InTypeOK
<1>5. Keeping'
  <2>1. \A i \in inKept \ inCrossed' :
          /\ i \in inAttach \/ i \in inBatch.items \/ i = Dictated => Safe(i)'
          /\ Item(h) = i \/ (At(h) = "append" /\ i \in Held(h)) => Safe(i)'
    <3> TAKE i \in inKept \ inCrossed'
    <3>1. i \in Items
      BY <1>1 DEF InTypeOK
    <3>2. Item(h) = i => inSent'[i] > 0
      BY <1>3, <3>1 DEF Has
    <3> QED
      BY <3>2 DEF Safe
  <2>2. \A i \in Items : inSent[i] > 0 => inSent'[i] > 0
    BY <1>3
  <2> QED
    BY <1>1, <1>2, <1>4, <2>1, <2>2, KeepsWell
<1>6. ASSUME NEW i \in Items \ inShared' PROVE OnceOf(i)'
  <2>1. OnceOf(i) /\ i # 0 /\ i \notin Held(h)
    BY <1>1, <1>6 DEF Held
  <2>2. ~Has(h, i)'
    BY <1>2, <2>1 DEF Has
  <2>3. inItems <= inItems' /\ inSent[i] \in Nat
    <3>1. inItems \in 0 .. MaxItems
      BY <1>1 DEF InTypeOK
    <3>2. inItems' = inItems
      OBVIOUS
    <3>3. inSent[i] \in Nat
      BY <1>3, <1>6
    <3> QED
      BY <3>1, <3>2, <3>3
  <2>4. CASE ~Has(h, i)
    <3>1. inSent'[i] = inSent[i]
      BY <1>3, <1>6, <2>4
    <3> QED
      BY <1>1, <1>2, <1>4, <1>6, <2>1, <2>2, <2>3, <3>1, OnceStays
  <2>5. CASE Has(h, i)
    <3>1. Item(h) = i /\ \A g \in Handlers : Has(g, i) => g = h
      BY <2>1, <2>5 DEF Has, OnceOf
    <3>2. inSent[i] = 0 /\ i \notin inAttach /\ i # Dictated /\ i \notin inBatch.items /\ ~(i > inItems)
      BY <2>1, <2>3, <2>5, <3>1 DEF OnceOf, Copying, VoiceLabels
    <3>3. \A g \in Handlers : ~Has(g, i)'
      <4>1. \A g \in Handlers : g # h => Has(g, i)' = Has(g, i)
        BY <1>2 DEF Has, Item, Held
      <4> QED
        BY <2>2, <3>1, <4>1
    <3>4. inSent'[i] = 1
      BY <1>3, <1>6, <2>5, <3>2
    <3> QED
      BY <3>2, <3>3, <3>4 DEF OnceOf
  <2> QED
    BY <2>4, <2>5
<1> QED
  BY <1>4, <1>5, <1>6 DEF InInv

\* ... and one that starts a turn sends it and is to clear them.
LEMMA RequestStarts ==
    ASSUME InInv, NEW h \in Handlers, At(h) = "session", Goes(h, "clear"), Sent({Item(h)} \cup inDoing[h].held),
           UNCHANGED <<inAttach, Dictated, inBatch, inItems, inKept, inTold, inShared, inCrossed>>
    PROVE  InInv'
<1> USE ItemNumbers
<1>1. InTypeOK /\ Keeping /\ \A i \in Items \ inShared : OnceOf(i)
  BY DEF InInv
<1>2. /\ inDoing' \in [Handlers -> Doings]
      /\ At(h)' = "clear" /\ Item(h)' = Item(h) /\ Held(h)' = Held(h)
      /\ \A g \in Handlers : g # h => inDoing'[g] = inDoing[g]
  <2>1. "clear" \in InLabels
    BY DEF InLabels
  <2> QED
    BY <1>1, <2>1, GoesOn
<1>3. /\ inSent' \in [Items -> Nat]
      /\ \A i \in Items : /\ inSent[i] \in Nat
                          /\ Has(h, i) => inSent'[i] = inSent[i] + 1
                          /\ ~Has(h, i) => inSent'[i] = inSent[i]
                          /\ inSent[i] > 0 => inSent'[i] > 0
  <2> PICK s : s = {Item(h)} \cup inDoing[h].held
    OBVIOUS
  <2>1. Sent(s)
    OBVIOUS
  <2>2. \A i \in Items : Has(h, i) <=> i \in s
    BY DEF Has, Held
  <2> QED
    BY <1>1, <2>1, <2>2, SentCounts
<1>4. InTypeOK'
  <2>1. \A g \in Handlers : g # h => At(g)' = At(g) /\ Held(g)' = Held(g) /\ Item(g)' = Item(g)
    BY <1>2 DEF At, Held, Item
  <2>2. "clear" \notin Commanding /\ "clear" \in Holding /\ Item(h) # 0
    BY <1>1 DEF Commanding, Holding, InTypeOK
  <2> QED
    BY <1>1, <1>2, <1>3, <2>1, <2>2 DEF InTypeOK
<1>5. Keeping'
  <2>1. \A i \in inKept \ inCrossed' :
          /\ i \in inAttach \/ i \in inBatch.items \/ i = Dictated => Safe(i)'
          /\ Item(h) = i \/ (At(h) = "append" /\ i \in Held(h)) => Safe(i)'
    BY <1>2 DEF Safe
  <2>2. \A i \in Items : inSent[i] > 0 => inSent'[i] > 0
    BY <1>3
  <2>3. \A i \in Items : i \in Held(h)' \/ i = Item(h)' => inSent'[i] > 0
    BY <1>2, <1>3 DEF Has
  <2>4. inAttach' \ inCrossed' \subseteq Held(h)'
    BY <1>1, <1>2 DEF Keeping
  <2> QED
    BY <1>1, <1>2, <1>4, <2>1, <2>2, <2>3, <2>4, KeepsWell
<1>6. ASSUME NEW i \in Items \ inShared' PROVE OnceOf(i)'
  <2>1. OnceOf(i)
    BY <1>1, <1>6
  <2>2. Has(h, i)' <=> Has(h, i)
    BY <1>2 DEF Has
  <2>3. inItems <= inItems' /\ inSent[i] \in Nat
    <3>1. inItems \in 0 .. MaxItems
      BY <1>1 DEF InTypeOK
    <3>2. inItems' = inItems
      OBVIOUS
    <3>3. inSent[i] \in Nat
      BY <1>3, <1>6
    <3> QED
      BY <3>1, <3>2, <3>3
  <2>4. CASE ~Has(h, i)
    <3>1. inSent'[i] = inSent[i]
      BY <1>3, <1>6, <2>4
    <3> QED
      BY <1>1, <1>2, <1>4, <1>6, <2>1, <2>2, <2>3, <2>4, <3>1, OnceStays
  <2>5. CASE Has(h, i)
    <3>1. \A g \in Handlers : Has(g, i) => g = h
      BY <2>1, <2>5 DEF OnceOf
    <3>2. inSent[i] = 0 /\ i # Dictated /\ i \notin inBatch.items /\ ~(i > inItems)
      BY <2>1, <2>3, <2>5 DEF OnceOf, Copying, VoiceLabels
    <3>3. \A g \in Handlers : Has(g, i)' => g = h
      <4>1. \A g \in Handlers : g # h => Has(g, i)' = Has(g, i)
        BY <1>2 DEF Has, Item, Held
      <4> QED
        BY <3>1, <4>1
    <3>4. inSent'[i] = 1
      BY <1>3, <1>6, <2>5, <3>2
    <3>5. i \in inAttach' => /\ i \notin inBatch.items /\ Item(h)' # i /\ i \in Held(h)'
      BY <1>2, <2>1, <2>5 DEF OnceOf, Has
    <3> QED
      BY <1>2, <3>2, <3>3, <3>4, <3>5 DEF OnceOf
  <2> QED
    BY <2>4, <2>5
<1> QED
  BY <1>4, <1>5, <1>6 DEF InInv

\* A request with its attachments.
LEMMA RequestsStep ==
    ASSUME InInv, NEW h \in Handlers, Requests(h)
    PROVE  InInv'
<1>1. /\ At(h) = "session"
      /\ UNCHANGED <<inAttach, Dictated, inBatch, inItems, inKept, inCrossed>>
  BY DEF Requests, inStores, Dictated
<1>2. CASE Refused(h) /\ UNCHANGED <<inSent, inShared>>
  BY <1>1, <1>2, RequestRefused
<1>3. CASE /\ Sent({Item(h)} \cup inDoing[h].held) /\ inShared' = inShared \cup inDoing[h].held
           /\ Done(h) /\ UNCHANGED inTold
  BY <1>1, <1>3, RequestQueued
<1>4. CASE Sent({Item(h)} \cup inDoing[h].held) /\ Goes(h, "clear") /\ UNCHANGED <<inTold, inShared>>
  BY <1>1, <1>4, RequestStarts
<1> QED
  BY <1>2, <1>3, <1>4 DEF Requests

\* The attachments that were sent are cleared.
LEMMA ClearsStep ==
    ASSUME InInv, NEW h \in Handlers, ClearsAttachments(h)
    PROVE  InInv'
<1> USE ItemNumbers
<1>1. InTypeOK /\ Keeping /\ \A i \in Items \ inShared : OnceOf(i)
  BY DEF InInv
<1>2. /\ At(h) = "clear" /\ Done(h)
      /\ inAttach' = IF Held(h) = {} THEN inAttach ELSE {}
      /\ UNCHANGED <<Dictated, inBatch, inItems, inSent, inKept, inTold, inShared, inCrossed>>
  BY DEF ClearsAttachments, Held, inHistory, Dictated
<1>3. /\ inDoing' \in [Handlers -> Doings]
      /\ At(h)' = "idle" /\ Item(h)' = 0 /\ Held(h)' = {}
      /\ \A g \in Handlers : g # h => inDoing'[g] = inDoing[g]
  BY <1>1, <1>2, Rests
<1>4. InTypeOK'
  <2>1. \A g \in Handlers : g # h => At(g)' = At(g) /\ Held(g)' = Held(g) /\ Item(g)' = Item(g)
    BY <1>3 DEF At, Held, Item
  <2>2. "idle" \in Commanding
    BY DEF Commanding
  <2>3. inAttach' \in SUBSET Items
    BY <1>1, <1>2 DEF InTypeOK
  <2> QED
    BY <1>1, <1>2, <1>3, <2>1, <2>2, <2>3 DEF InTypeOK
<1>5. Keeping'
  <2>1. \A i \in inKept \ inCrossed' :
          /\ i \in inAttach \/ i \in inBatch.items \/ i = Dictated => Safe(i)'
          /\ Item(h) = i \/ (At(h) = "append" /\ i \in Held(h)) => Safe(i)'
    <3> TAKE i \in inKept \ inCrossed'
    <3>1. i \in Items
      BY <1>1 DEF InTypeOK
    <3>2. Item(h) = i \/ i \in Held(h) => inSent[i] > 0
      BY <1>1, <1>2, <3>1 DEF Keeping
    <3>3. i \in inAttach => i \in Held(h)
      BY <1>1, <1>2 DEF Keeping
    <3> QED
      BY <1>2, <3>2, <3>3 DEF Safe
  <2>2. inAttach' \subseteq inAttach
    BY <1>2
  <2> QED
    BY <1>1, <1>2, <1>3, <1>4, <2>1, <2>2, KeepsWell
<1>6. ASSUME NEW i \in Items \ inShared' PROVE OnceOf(i)'
  <2>1. OnceOf(i) /\ i # 0
    BY <1>1, <1>2, <1>6
  <2>2. ~Has(h, i)'
    BY <1>3, <2>1 DEF Has
  <2>3. inItems <= inItems'
    BY <1>1, <1>2 DEF InTypeOK
  <2>4. i \in Held(h) => i \notin inBatch.items
    BY <1>2, <2>1 DEF OnceOf, Has
  <2>5. i \in Held(h) => i \notin inAttach'
    BY <1>2
  <2>6. i \in inAttach' => i \in inAttach
    BY <1>2
  <2> QED
    BY <1>1, <1>2, <1>3, <1>4, <1>6, <2>1, <2>2, <2>3, <2>4, <2>5, <2>6, OnceStays
<1> QED
  BY <1>4, <1>5, <1>6 DEF InInv

\* A collection that begins clears the attachments that it has copied ...
LEMMA AbsorbClearsStep ==
    ASSUME InInv, NEW h \in Handlers, AbsorbClears(h)
    PROVE  InInv'
<1> USE ItemNumbers
<1>1. InTypeOK /\ Keeping /\ \A i \in Items \ inShared : OnceOf(i)
  BY DEF InInv
<1>2. /\ At(h) = "absorb" /\ Goes(h, "append") /\ inAttach' = {}
      /\ UNCHANGED <<Dictated, inBatch, inItems, inSent, inKept, inTold, inShared, inCrossed>>
  BY DEF AbsorbClears, inHistory, Dictated
<1>3. /\ inDoing' \in [Handlers -> Doings]
      /\ At(h)' = "append" /\ Item(h)' = Item(h) /\ Held(h)' = Held(h)
      /\ \A g \in Handlers : g # h => inDoing'[g] = inDoing[g]
  <2>1. "append" \in InLabels
    BY DEF InLabels
  <2> QED
    BY <1>1, <1>2, <2>1, GoesOn
<1>4. InTypeOK'
  <2>1. \A g \in Handlers : g # h => At(g)' = At(g) /\ Held(g)' = Held(g) /\ Item(g)' = Item(g)
    BY <1>3 DEF At, Held, Item
  <2>2. "append" \in Commanding /\ "append" \in Holding /\ Item(h) = 0
    BY <1>1, <1>2 DEF Commanding, Holding, InTypeOK
  <2>3. inAttach' \in SUBSET Items
    BY <1>2
  <2> QED
    BY <1>1, <1>2, <1>3, <2>1, <2>2, <2>3 DEF InTypeOK
<1>5. Keeping'
  <2>1. \A i \in inKept \ inCrossed' :
          /\ i \in inAttach \/ i \in inBatch.items \/ i = Dictated => Safe(i)'
          /\ Item(h) = i \/ (At(h) = "append" /\ i \in Held(h)) => Safe(i)'
    <3> TAKE i \in inKept \ inCrossed'
    <3>1. i \in inAttach => i \in Held(h)
      BY <1>1, <1>2 DEF Keeping
    <3> QED
      BY <1>2, <1>3, <3>1 DEF Safe
  <2> QED
    BY <1>1, <1>2, <1>3, <1>4, <2>1, KeepsWell
<1>6. ASSUME NEW i \in Items \ inShared' PROVE OnceOf(i)'
  <2>1. OnceOf(i) /\ i # 0
    BY <1>1, <1>2, <1>6
  <2>2. Has(h, i)' <=> Has(h, i)
    BY <1>3 DEF Has
  <2>3. inItems <= inItems'
    BY <1>1, <1>2 DEF InTypeOK
  <2>4. Has(h, i) => i \notin inBatch.items /\ i # Dictated
    BY <1>2, <2>1 DEF OnceOf, Copying, VoiceLabels
  <2> QED
    BY <1>1, <1>2, <1>3, <1>4, <1>6, <2>1, <2>2, <2>3, <2>4, OnceStays
<1> QED
  BY <1>4, <1>5, <1>6 DEF InInv

\* ... and has them then, if it is still there.
LEMMA AbsorbAppendsStep ==
    ASSUME InInv, NEW h \in Handlers, AbsorbAppends(h)
    PROVE  InInv'
<1> USE ItemNumbers
<1>1. InTypeOK /\ Keeping /\ \A i \in Items \ inShared : OnceOf(i)
  BY DEF InInv
<1>2. /\ At(h) = "append" /\ Done(h)
      /\ inBatch' = IF inBatch = NoBatch THEN inBatch ELSE [inBatch EXCEPT !.items = @ \cup inDoing[h].held, !.asked = FALSE, !.retry = FALSE]
      /\ inCrossed' = IF inBatch = NoBatch \/ Flushing # {} THEN inCrossed \cup Held(h) ELSE inCrossed
      /\ UNCHANGED <<inAttach, Dictated, inItems, inSent, inKept, inTold, inShared>>
  BY DEF AbsorbAppends, Held, Dictated
<1>3. /\ inDoing' \in [Handlers -> Doings]
      /\ At(h)' = "idle" /\ Item(h)' = 0 /\ Held(h)' = {}
      /\ \A g \in Handlers : g # h => inDoing'[g] = inDoing[g]
  BY <1>1, <1>2, Rests
<1>4. Held(h) \in SUBSET Items /\ Item(h) = 0
  BY <1>1, <1>2 DEF InTypeOK, Doings, Held, Commanding
<1>5. /\ inBatch' \in Batches /\ inBatch'.flushing = inBatch.flushing
      /\ inBatch'.items = (IF inBatch = NoBatch THEN inBatch.items ELSE inBatch.items \cup Held(h))
  <2>1. inBatch \in Batches
    BY <1>1 DEF InTypeOK
  <2> QED
    BY <1>2, <1>4, <2>1 DEF Batches, Held
<1>6. InTypeOK'
  <2>1. \A g \in Handlers : g # h => At(g)' = At(g) /\ Held(g)' = Held(g) /\ Item(g)' = Item(g)
    BY <1>3 DEF At, Held, Item
  <2>2. "idle" \in Commanding
    BY DEF Commanding
  <2> QED
    BY <1>1, <1>2, <1>3, <1>5, <2>1, <2>2 DEF InTypeOK
<1>7. Keeping'
  <2>1. \A i \in inKept \ inCrossed' :
          /\ i \in inAttach \/ i \in inBatch.items \/ i = Dictated => Safe(i)'
          /\ Item(h) = i \/ (At(h) = "append" /\ i \in Held(h)) => Safe(i)'
    <3> TAKE i \in inKept \ inCrossed'
    <3>1. i # 0
      BY <1>1 DEF InTypeOK
    <3>2. i \in Held(h) => i \in inBatch'.items
      BY <1>2, <1>5
    <3>3. i \in inBatch.items => i \in inBatch'.items
      BY <1>5
    <3> QED
      BY <1>2, <1>4, <3>1, <3>2, <3>3 DEF Safe
  <2>2. inCrossed \subseteq inCrossed'
    BY <1>2
  <2>3. inBatch'.items \ inCrossed' \subseteq inBatch.items
          \/ \A g \in Handlers : g # h => At(g) \notin {"flushing", "flushed"}
    BY <1>2, <1>5 DEF Flushing
  <2> QED
    BY <1>1, <1>2, <1>3, <1>6, <2>1, <2>2, <2>3, KeepsWell
<1>8. ASSUME NEW i \in Items \ inShared' PROVE OnceOf(i)'
  <2>1. OnceOf(i) /\ i # 0
    BY <1>1, <1>2, <1>8
  <2>2. ~Has(h, i)'
    BY <1>3, <2>1 DEF Has
  <2>3. inItems <= inItems' /\ inSent[i] \in Nat
    BY <1>1, <1>2, <1>8 DEF InTypeOK
  <2>4. CASE i \notin Held(h)
    <3>1. i \in inBatch'.items => i \in inBatch.items
      BY <1>5, <2>4
    <3> QED
      BY <1>1, <1>2, <1>3, <1>5, <1>6, <1>8, <2>1, <2>2, <2>3, <2>4, <3>1, OnceStays
  <2>5. CASE i \in Held(h)
    <3>1. Has(h, i) /\ \A g \in Handlers : Has(g, i) => g = h
      BY <2>1, <2>5 DEF Has, OnceOf
    <3>2. inSent[i] = 0 /\ i # Dictated /\ i \notin inAttach /\ ~(i > inItems)
      BY <1>2, <2>1, <2>3, <3>1 DEF OnceOf, Copying, VoiceLabels
    <3>3. \A g \in Handlers : ~Has(g, i)'
      <4>1. \A g \in Handlers : g # h => Has(g, i)' = Has(g, i)
        BY <1>3 DEF Has, Item, Held
      <4> QED
        BY <2>2, <3>1, <4>1
    <3> QED
      BY <1>2, <3>2, <3>3 DEF OnceOf
  <2> QED
    BY <2>4, <2>5
<1> QED
  BY <1>6, <1>7, <1>8 DEF InInv

\* An item goes into the collection, if that is still there.
LEMMA BuffersStep ==
    ASSUME InInv, NEW h \in Handlers, Buffers(h)
    PROVE  InInv'
<1> USE ItemNumbers
<1>1. InTypeOK /\ Keeping /\ \A i \in Items \ inShared : OnceOf(i)
  BY DEF InInv
<1>2. At(h) = "buffer" /\ UNCHANGED <<inAttach, Dictated, inItems, inSent, inShared>>
  BY DEF Buffers, Dictated
<1>3. Held(h) = {} /\ Item(h) \in Items
  <2>1. Item(h) # 0 /\ Held(h) = {}
    BY <1>1, <1>2 DEF InTypeOK, Holding, Commanding
  <2>2. Item(h) \in Items \cup {0}
    BY <1>1 DEF InTypeOK, Doings, Item
  <2> QED
    BY <2>1, <2>2
<1>4. inBatch \in Batches
  BY <1>1 DEF InTypeOK
<1>5. CASE Refused(h) /\ UNCHANGED <<inBatch, inKept, inCrossed>>
  <2>1. "buffer" \in Plain /\ "idle" \in Plain /\ "idle" \in Commanding
    BY DEF Plain, VoiceLabels, InLabels, Commanding
  <2> QED
    BY <1>1, <1>2, <1>4, <1>5, <2>1, Refuses, PlainStep
<1>6. CASE /\ Done(h) /\ UNCHANGED inTold
           /\ IF inBatch = NoBatch
              THEN inCrossed' = inCrossed \cup {Item(h)} /\ UNCHANGED <<inBatch, inKept>>
              ELSE /\ inBatch' = [inBatch EXCEPT !.items = @ \cup {Item(h)}, !.awaiting = FALSE, !.asked = FALSE, !.retry = FALSE]
                   /\ inKept' = inKept \cup {Item(h)}
                   /\ inCrossed' = IF Flushing # {} THEN inCrossed \cup {Item(h)} ELSE inCrossed
  <2>1. /\ inDoing' \in [Handlers -> Doings]
        /\ At(h)' = "idle" /\ Item(h)' = 0 /\ Held(h)' = {}
        /\ \A g \in Handlers : g # h => inDoing'[g] = inDoing[g]
    BY <1>1, <1>6, Rests
  <2>2. /\ inBatch' \in Batches /\ inBatch'.flushing = inBatch.flushing
        /\ inBatch.items \subseteq inBatch'.items /\ inBatch'.items \subseteq inBatch.items \cup {Item(h)}
        /\ Item(h) \in inBatch'.items \/ Item(h) \in inCrossed'
        /\ inKept' \in {inKept, inKept \cup {Item(h)}}
        /\ inKept' = inKept \/ Item(h) \in inBatch'.items
    <3>1. CASE inBatch = NoBatch
      BY <1>4, <1>6, <3>1
    <3>2. CASE inBatch # NoBatch
      <4> PICK b : b = [inBatch EXCEPT !.items = @ \cup {Item(h)}, !.awaiting = FALSE, !.asked = FALSE, !.retry = FALSE]
        OBVIOUS
      <4>1. b \in Batches /\ b.flushing = inBatch.flushing /\ b.items = inBatch.items \cup {Item(h)}
        BY <1>3, <1>4 DEF Batches
      <4>2. inBatch' = b /\ inKept' = inKept \cup {Item(h)}
        BY <1>6, <3>2
      <4> QED
        BY <4>1, <4>2
    <3> QED
      BY <3>1, <3>2
  <2>3. InTypeOK'
    <3>1. \A g \in Handlers : g # h => At(g)' = At(g) /\ Held(g)' = Held(g) /\ Item(g)' = Item(g)
      BY <2>1 DEF At, Held, Item
    <3>2. "idle" \in Commanding
      BY DEF Commanding
    <3>3. inKept' \in SUBSET Items
      BY <1>1, <1>3, <2>2 DEF InTypeOK
    <3> QED
      BY <1>1, <1>2, <2>1, <2>2, <3>1, <3>2, <3>3 DEF InTypeOK
  <2>4. Keeping'
    <3>1. \A i \in inKept \ inCrossed' :
            /\ i \in inAttach \/ i \in inBatch.items \/ i = Dictated => Safe(i)'
            /\ Item(h) = i \/ (At(h) = "append" /\ i \in Held(h)) => Safe(i)'
      BY <1>2, <1>3, <2>2 DEF Safe
    <3>2. inCrossed \subseteq inCrossed' /\ inTold' = inTold
      BY <1>6
    <3>3. \/ inBatch'.items \ inCrossed' \subseteq inBatch.items
          \/ \A g \in Handlers : g # h => At(g) \notin {"flushing", "flushed"}
      <4>1. Flushing # {} => inBatch'.items \subseteq inBatch.items \/ Item(h) \in inCrossed'
        BY <1>6
      <4> QED
        BY <2>2, <4>1 DEF Flushing
    <3>4. \A i \in inKept' \ inCrossed' : i \in inKept \/ Safe(i)'
      BY <2>2 DEF Safe
    <3> QED
      BY <1>1, <1>2, <2>1, <2>3, <3>1, <3>2, <3>3, <3>4, KeepsWell
  <2>5. ASSUME NEW i \in Items \ inShared' PROVE OnceOf(i)'
    <3>1. OnceOf(i) /\ i # 0
      BY <1>1, <1>2, <2>5
    <3>2. ~Has(h, i)'
      BY <2>1, <3>1 DEF Has
    <3>3. inItems <= inItems' /\ inSent[i] \in Nat
      BY <1>1, <1>2, <2>5 DEF InTypeOK
    <3>4. CASE i # Item(h)
      <4>1. i \in inBatch'.items => i \in inBatch.items
        BY <2>2, <3>4
      <4> QED
        BY <1>1, <1>2, <1>3, <2>1, <2>2, <2>3, <2>5, <3>1, <3>2, <3>3, <4>1, OnceStays
    <3>5. CASE i = Item(h)
      <4>1. Has(h, i) /\ \A g \in Handlers : Has(g, i) => g = h
        BY <3>1, <3>5 DEF Has, OnceOf
      <4>2. inSent[i] = 0 /\ i # Dictated /\ i \notin inAttach /\ ~(i > inItems)
        BY <1>2, <3>1, <3>3, <4>1 DEF OnceOf, Copying, VoiceLabels
      <4>3. \A g \in Handlers : ~Has(g, i)'
        <5>1. \A g \in Handlers : g # h => Has(g, i)' = Has(g, i)
          BY <2>1 DEF Has, Item, Held
        <5> QED
          BY <3>2, <4>1, <5>1
      <4> QED
        BY <1>2, <4>2, <4>3 DEF OnceOf
    <3> QED
      BY <3>4, <3>5
  <2> QED
    BY <2>3, <2>4, <2>5 DEF InInv
<1> QED
  BY <1>5, <1>6 DEF Buffers

\* A flush copies the items of the collection, which nobody else flushes.
LEMMA FlushBeginsStep ==
    ASSUME InInv, NEW h \in Handlers, FlushBegins(h)
    PROVE  InInv'
<1> USE ItemNumbers
<1>1. InTypeOK /\ Keeping /\ \A i \in Items \ inShared : OnceOf(i)
  BY DEF InInv
<1>2. At(h) = "flush" /\ UNCHANGED <<inAttach, Dictated, inItems, inSent, inKept, inShared, inCrossed>>
  BY DEF FlushBegins, Dictated
<1>3. inBatch \in Batches /\ Held(h) = {}
  BY <1>1, <1>2 DEF InTypeOK, Holding
<1>4. CASE Refused(h) /\ UNCHANGED inBatch
  <2>1. "flush" \in Plain /\ "idle" \in Plain /\ "idle" \in Commanding
    BY DEF Plain, VoiceLabels, InLabels, Commanding
  <2> QED
    BY <1>1, <1>2, <1>3, <1>4, <2>1, Refuses, PlainStep
<1>5. CASE /\ ~inBatch.flushing /\ UNCHANGED inTold
           /\ inBatch' = [inBatch EXCEPT !.flushing = TRUE, !.retry = inBatch.awaiting, !.awaiting = FALSE, !.asked = TRUE]
           /\ inDoing' = [inDoing EXCEPT ![h].at = "flushing", ![h].held = inBatch.items]
  <2>1. inBatch' \in Batches /\ inBatch'.flushing = TRUE /\ inBatch'.items = inBatch.items
    BY <1>3, <1>5 DEF Batches
  <2>2. /\ inDoing' \in [Handlers -> Doings]
        /\ At(h)' = "flushing" /\ Item(h)' = Item(h) /\ Held(h)' = inBatch.items
        /\ \A g \in Handlers : g # h => inDoing'[g] = inDoing[g]
    <3> PICK r : r = [inDoing[h] EXCEPT !.at = "flushing", !.held = inBatch.items]
      OBVIOUS
    <3>1. inDoing[h] \in Doings
      BY <1>1 DEF InTypeOK
    <3>2. "flushing" \in InLabels /\ inBatch.items \in SUBSET Items
      BY <1>3 DEF InLabels, Batches
    <3>3. r \in Doings /\ r.at = "flushing" /\ r.item = inDoing[h].item /\ r.held = inBatch.items
      BY <3>1, <3>2 DEF Doings
    <3>4. inDoing' = [inDoing EXCEPT ![h] = r]
      BY <1>5
    <3> QED
      BY <1>1, <3>3, <3>4, DoingMoves DEF Item
  <2>3. InTypeOK'
    <3>1. \A g \in Handlers : g # h => At(g)' = At(g) /\ Held(g)' = Held(g) /\ Item(g)' = Item(g)
      BY <2>2 DEF At, Held, Item
    <3>2. "flushing" \in Holding /\ "flushing" \notin Commanding
      BY DEF Holding, Commanding
    <3> QED
      BY <1>1, <1>2, <2>1, <2>2, <3>1, <3>2 DEF InTypeOK
  <2>4. Keeping'
    <3>1. \A i \in inKept \ inCrossed' :
            /\ i \in inAttach \/ i \in inBatch.items \/ i = Dictated => Safe(i)'
            /\ Item(h) = i \/ (At(h) = "append" /\ i \in Held(h)) => Safe(i)'
      BY <1>2, <1>3, <2>1, <2>2 DEF Safe
    <3> QED
      BY <1>1, <1>2, <1>5, <2>1, <2>2, <2>3, <3>1, KeepsWell
  <2>5. ASSUME NEW i \in Items \ inShared' PROVE OnceOf(i)'
    <3>1. OnceOf(i) /\ i # 0
      BY <1>1, <1>2, <2>5
    <3>2. inItems <= inItems' /\ inSent[i] \in Nat
      BY <1>1, <1>2, <2>5 DEF InTypeOK
    <3>3. CASE i \notin inBatch.items
      <4>1. Has(h, i)' => Has(h, i)
        BY <2>2, <3>3 DEF Has
      <4>2. Has(h, i) => i \notin inAttach /\ i # Dictated
        BY <1>2, <3>1 DEF OnceOf, Copying, VoiceLabels
      <4> QED
        BY <1>1, <1>2, <1>3, <2>1, <2>2, <2>3, <2>5, <3>1, <3>2, <3>3, <4>1, <4>2, OnceStays
    <3>4. CASE i \in inBatch.items
      <4>1. \A g \in Handlers : ~Has(g, i)
        BY <1>5, <3>1, <3>4 DEF OnceOf
      <4>2. inSent[i] = 0 /\ i # Dictated /\ i \notin inAttach /\ ~(i > inItems)
        BY <3>1, <3>2, <3>4, <4>1 DEF OnceOf, Has
      <4>3. \A g \in Handlers : Has(g, i)' => g = h
        BY <2>2, <4>1 DEF Has, Item, Held
      <4>4. Item(h)' # i
        BY <2>2, <4>1 DEF Has
      <4> QED
        BY <1>2, <2>1, <2>2, <4>2, <4>3, <4>4 DEF OnceOf
    <3> QED
      BY <3>3, <3>4
  <2> QED
    BY <2>3, <2>4, <2>5 DEF InInv
<1> QED
  BY <1>4, <1>5 DEF FlushBegins

\* The prompt of a flush is sent ...
LEMMA FlushSendsStep ==
    ASSUME InInv, NEW h \in Handlers, FlushSends(h)
    PROVE  InInv'
<1> USE ItemNumbers
<1>1. InTypeOK /\ Keeping /\ \A i \in Items \ inShared : OnceOf(i)
  BY DEF InInv
<1>2. /\ At(h) = "flushing" /\ Goes(h, "flushed")
      /\ UNCHANGED <<inAttach, Dictated, inBatch, inItems, inKept, inTold, inShared, inCrossed>>
  BY DEF FlushSends, inStores, Dictated
<1>3. /\ inDoing' \in [Handlers -> Doings]
      /\ At(h)' = "flushed" /\ Item(h)' = Item(h) /\ Held(h)' = Held(h)
      /\ \A g \in Handlers : g # h => inDoing'[g] = inDoing[g]
  <2>1. "flushed" \in InLabels
    BY DEF InLabels
  <2> QED
    BY <1>1, <1>2, <2>1, GoesOn
<1>4. /\ inSent' \in [Items -> Nat]
      /\ \A i \in Items : /\ inSent[i] \in Nat
                          /\ Has(h, i) => inSent'[i] = inSent[i] + 1
                          /\ ~Has(h, i) => inSent'[i] = inSent[i]
                          /\ inSent[i] > 0 => inSent'[i] > 0
  <2> PICK s : s = ({Item(h)} \ {0}) \cup inDoing[h].held
    OBVIOUS
  <2>1. Sent(s)
    BY DEF FlushSends
  <2>2. \A i \in Items : Has(h, i) <=> i \in s
    BY DEF Has, Held
  <2> QED
    BY <1>1, <2>1, <2>2, SentCounts
<1>5. InTypeOK'
  <2>1. \A g \in Handlers : g # h => At(g)' = At(g) /\ Held(g)' = Held(g) /\ Item(g)' = Item(g)
    BY <1>3 DEF At, Held, Item
  <2>2. "flushed" \notin Commanding /\ "flushed" \in Holding
    BY DEF Commanding, Holding
  <2> QED
    BY <1>1, <1>2, <1>3, <1>4, <2>1, <2>2 DEF InTypeOK
<1>6. Keeping'
  <2>1. \A i \in inKept \ inCrossed' :
          /\ i \in inAttach \/ i \in inBatch.items \/ i = Dictated => Safe(i)'
          /\ Item(h) = i \/ (At(h) = "append" /\ i \in Held(h)) => Safe(i)'
    BY <1>2, <1>3 DEF Safe
  <2>2. \A i \in Items : i \in Held(h)' \/ i = Item(h)' => inSent'[i] > 0
    BY <1>3, <1>4 DEF Has
  <2>3. inBatch'.items \ inCrossed' \subseteq Held(h)'
    BY <1>1, <1>2, <1>3 DEF Keeping
  <2> QED
    BY <1>1, <1>2, <1>3, <1>4, <1>5, <2>1, <2>2, <2>3, KeepsWell
<1>7. ASSUME NEW i \in Items \ inShared' PROVE OnceOf(i)'
  <2>1. OnceOf(i)
    BY <1>1, <1>2, <1>7
  <2>2. Has(h, i)' <=> Has(h, i)
    BY <1>3 DEF Has
  <2>3. inItems <= inItems' /\ inSent[i] \in Nat
    <3>1. inItems \in 0 .. MaxItems
      BY <1>1 DEF InTypeOK
    <3>2. inItems' = inItems
      BY <1>2
    <3>3. inSent[i] \in Nat
      BY <1>4, <1>7
    <3> QED
      BY <3>1, <3>2, <3>3
  <2>4. CASE ~Has(h, i)
    <3>1. inSent'[i] = inSent[i]
      BY <1>4, <1>7, <2>4
    <3> QED
      BY <1>1, <1>2, <1>3, <1>5, <1>7, <2>1, <2>2, <2>3, <2>4, <3>1, OnceStays DEF Has
  <2>5. CASE Has(h, i)
    <3>1. \A g \in Handlers : Has(g, i) => g = h
      BY <2>1, <2>5 DEF OnceOf
    <3>2. inSent[i] = 0 /\ i # Dictated /\ i \notin inAttach /\ ~(i > inItems)
      BY <1>2, <2>1, <2>3, <2>5 DEF OnceOf, Copying, VoiceLabels
    <3>3. \A g \in Handlers : Has(g, i)' => g = h
      <4>1. \A g \in Handlers : g # h => Has(g, i)' = Has(g, i)
        BY <1>3 DEF Has, Item, Held
      <4> QED
        BY <3>1, <4>1
    <3>4. inSent'[i] = 1
      BY <1>4, <1>7, <2>5, <3>2
    <3>5. i \in inBatch'.items => inBatch'.flushing /\ Item(h)' # i /\ i \in Held(h)'
      BY <1>2, <1>3, <2>1, <2>5 DEF OnceOf, Has
    <3> QED
      BY <1>2, <1>3, <3>2, <3>3, <3>4, <3>5 DEF OnceOf
  <2> QED
    BY <2>4, <2>5
<1> QED
  BY <1>5, <1>6, <1>7 DEF InInv

\* ... or not: the collection that the chat has then can be flushed, also by another handler ...
LEMMA FlushFailsStep ==
    ASSUME InInv, NEW h \in Handlers, FlushFails(h)
    PROVE  InInv'
<1> USE ItemNumbers
<1>1. InTypeOK /\ Keeping /\ \A i \in Items \ inShared : OnceOf(i)
  BY DEF InInv
<1>2. /\ At(h) = "flushing" /\ Refused(h)
      /\ inBatch' = IF inBatch = NoBatch THEN inBatch
                    ELSE [inBatch EXCEPT !.flushing = FALSE, !.awaiting = inBatch.retry /\ inBatch.asked, !.retry = FALSE]
      /\ inShared' = inShared \cup (inBatch.items \cap UNION {inDoing[g].held : g \in Flushing \ {h}})
      /\ UNCHANGED <<inAttach, Dictated, inItems, inSent, inKept, inCrossed>>
  BY DEF FlushFails, Dictated
<1>3. /\ inDoing' \in [Handlers -> Doings]
      /\ At(h)' = "idle" /\ Item(h)' = 0 /\ Held(h)' = {}
      /\ \A g \in Handlers : g # h => inDoing'[g] = inDoing[g]
      /\ Item(h) = 0 \/ Item(h) \in inTold'
      /\ inTold \subseteq inTold'
  BY <1>1, <1>2, Refuses
<1>4. inBatch' \in Batches /\ inBatch'.items = inBatch.items
  <2>1. inBatch \in Batches
    BY <1>1 DEF InTypeOK
  <2>2. (inBatch.retry /\ inBatch.asked) \in BOOLEAN
    BY <2>1 DEF Batches
  <2> QED
    BY <1>2, <2>1, <2>2 DEF Batches
<1>5. InTypeOK'
  <2>1. \A g \in Handlers : g # h => At(g)' = At(g) /\ Held(g)' = Held(g) /\ Item(g)' = Item(g)
    BY <1>3 DEF At, Held, Item
  <2>2. "idle" \in Commanding
    BY DEF Commanding
  <2> QED
    BY <1>1, <1>2, <1>3, <1>4, <2>1, <2>2 DEF InTypeOK
<1>6. Keeping'
  <2>1. \A i \in inKept \ inCrossed' :
          /\ i \in inAttach \/ i \in inBatch.items \/ i = Dictated => Safe(i)'
          /\ Item(h) = i \/ (At(h) = "append" /\ i \in Held(h)) => Safe(i)'
    <3>1. \A i \in inKept : i # 0
      BY <1>1 DEF InTypeOK
    <3> QED
      BY <1>2, <1>3, <1>4, <3>1 DEF Safe
  <2> QED
    BY <1>1, <1>2, <1>3, <1>4, <1>5, <2>1, KeepsWell
<1>7. ASSUME NEW i \in Items \ inShared' PROVE OnceOf(i)'
  <2>1. OnceOf(i) /\ i # 0
    BY <1>1, <1>2, <1>7
  <2>2. ~Has(h, i)'
    BY <1>3, <2>1 DEF Has
  <2>3. inItems <= inItems' /\ inSent[i] \in Nat
    BY <1>1, <1>2, <1>7 DEF InTypeOK
  <2>4. i \in inBatch'.items => ~\E g \in Handlers : Has(g, i)'
    <3> SUFFICES ASSUME i \in inBatch.items, NEW g \in Handlers, g # h, Has(g, i)' PROVE FALSE
      BY <1>4, <2>2
    <3>1. Has(g, i)
      BY <1>3 DEF Has, Item, Held
    <3>2. At(g) \in {"flushing", "flushed"} /\ i \in inDoing[g].held
      BY <2>1, <3>1 DEF OnceOf, Has, Held
    <3>3. g \in Flushing \ {h}
      BY <3>2 DEF Flushing
    <3> QED
      BY <1>2, <1>7, <3>2, <3>3
  <2>5. i \in Held(h) => ~(inSent[i] > 0)
    BY <1>2, <2>1 DEF OnceOf, Has
  <2> QED
    BY <1>1, <1>2, <1>3, <1>4, <1>5, <1>7, <2>1, <2>2, <2>3, <2>4, <2>5, OnceStays
<1> QED
  BY <1>5, <1>6, <1>7 DEF InInv

\* ... and after it was sent the collection is dropped.
LEMMA FlushEndsStep ==
    ASSUME InInv, NEW h \in Handlers, FlushEnds(h)
    PROVE  InInv'
<1> USE ItemNumbers
<1>1. InTypeOK /\ Keeping /\ \A i \in Items \ inShared : OnceOf(i)
  BY DEF InInv
<1>2. /\ At(h) = "flushed" /\ Done(h) /\ inBatch' = NoBatch
      /\ UNCHANGED <<inAttach, Dictated, inItems, inSent, inKept, inTold, inShared, inCrossed>>
  BY DEF FlushEnds, Dictated
<1>3. /\ inDoing' \in [Handlers -> Doings]
      /\ At(h)' = "idle" /\ Item(h)' = 0 /\ Held(h)' = {}
      /\ \A g \in Handlers : g # h => inDoing'[g] = inDoing[g]
  BY <1>1, <1>2, Rests
<1>4. inBatch' \in Batches /\ inBatch'.items = {}
  BY <1>2 DEF Batches, NoBatch
<1>5. InTypeOK'
  <2>1. \A g \in Handlers : g # h => At(g)' = At(g) /\ Held(g)' = Held(g) /\ Item(g)' = Item(g)
    BY <1>3 DEF At, Held, Item
  <2>2. "idle" \in Commanding
    BY DEF Commanding
  <2> QED
    BY <1>1, <1>2, <1>3, <1>4, <2>1, <2>2 DEF InTypeOK
<1>6. Keeping'
  <2>1. \A i \in inKept \ inCrossed' :
          /\ i \in inAttach \/ i \in inBatch.items \/ i = Dictated => Safe(i)'
          /\ Item(h) = i \/ (At(h) = "append" /\ i \in Held(h)) => Safe(i)'
    <3> TAKE i \in inKept \ inCrossed'
    <3>1. i \in Items
      BY <1>1 DEF InTypeOK
    <3>2. Item(h) = i \/ i \in Held(h) => inSent[i] > 0
      BY <1>1, <1>2, <3>1 DEF Keeping
    <3>3. i \in inBatch.items => i \in Held(h)
      BY <1>1, <1>2 DEF Keeping
    <3> QED
      BY <1>2, <3>2, <3>3 DEF Safe
  <2> QED
    BY <1>1, <1>2, <1>3, <1>4, <1>5, <2>1, KeepsWell
<1>7. ASSUME NEW i \in Items \ inShared' PROVE OnceOf(i)'
  <2>1. OnceOf(i) /\ i # 0
    BY <1>1, <1>2, <1>7
  <2>2. ~Has(h, i)'
    BY <1>3, <2>1 DEF Has
  <2>3. inItems <= inItems'
    BY <1>1, <1>2 DEF InTypeOK
  <2>4. i \in Held(h) => i \notin inAttach
    BY <1>2, <2>1 DEF OnceOf, Has
  <2> QED
    BY <1>1, <1>2, <1>3, <1>4, <1>5, <1>7, <2>1, <2>2, <2>3, <2>4, OnceStays
<1> QED
  BY <1>5, <1>6, <1>7 DEF InInv

\* The steps that have nothing to do with dictations leave them alone.
LEMMA VoiceRests ==
    ASSUME InInv, VoiceInv, NEW h \in Handlers,
           \/ \E kind \in {"text", "attachment"} : Comes(h, kind)
           \/ VoiceComes(h) \/ CollectCommand(h) \/ TextAwaited(h) \/ TakesAttachments(h) \/ Requests(h)
           \/ ClearsAttachments(h) \/ CollectStep(h)
           \/ AttachmentAsks(h) \/ AsksFlushing(h) \/ AsksCollection(h) \/ Buffers(h) \/ Stores(h)
    PROVE  VoiceInv'
<1> USE QuietLabels
<1>1. InTypeOK /\ inAttach \in SUBSET Items /\ inBatch.items \in SUBSET Items
  BY DEF InInv, InTypeOK, Batches
<1>2. CASE (\E kind \in {"text", "attachment"} : Comes(h, kind)) \/ VoiceComes(h) \/ CollectCommand(h)
  <2>1. /\ At(h) = "idle" /\ UNCHANGED <<inVoice, inText, inShared, inCrossed>>
        /\ \/ \E label \in {"text", "attachment", "voice"} : NewItem(h, label)
           \/ inDoing' = [inDoing EXCEPT ![h] = [Resting EXCEPT !.at = "command"]]
    BY <1>2 DEF Comes, VoiceComes, CollectCommand, NewItem, inStores, inHistory
  <2>2. At(h) \notin VoiceLabels
    BY <2>1 DEF VoiceLabels
  <2> QED
    BY <1>1, <2>1, <2>2, VoiceQuiet
<1>3. CASE \/ AttachmentAsks(h) \/ AsksFlushing(h) \/ AsksCollection(h) \/ TextAwaited(h)
           \/ CommandRefused(h) \/ CollectStarts(h) \/ CancelAsks(h)
  <2>1. /\ At(h) \in {"attachment", "asks", "text asks", "has", "text has", "awaits", "command"}
        /\ UNCHANGED <<inVoice, inText, inShared, inCrossed>>
        /\ \/ Done(h)
           \/ \E l \in {"asks", "has", "text has", "buffer", "store", "attach", "flush", "text asks", "start", "cancel"} :
                 Goes(h, l)
    BY <1>3 DEF AttachmentAsks, AsksFlushing, AsksCollection, TextAwaited, CommandRefused, CollectStarts, CancelAsks,
         Refused, inStores, inHistory
  <2>2. At(h) \notin VoiceLabels
    BY <2>1 DEF VoiceLabels
  <2> QED
    BY <1>1, <2>1, <2>2, VoiceQuiet
<1>4. CASE Buffers(h) \/ Stores(h) \/ AbsorbAppends(h) \/ FlushFails(h) \/ FlushEnds(h) \/ Cancels(h)
  <2>1. /\ At(h) \in {"buffer", "store", "append", "flushing", "flushed", "cancel"} /\ Done(h)
        /\ UNCHANGED <<inVoice, inText>> /\ inShared \subseteq inShared' /\ inCrossed \subseteq inCrossed'
    BY <1>4 DEF Buffers, Stores, AbsorbAppends, FlushFails, FlushEnds, Cancels, Refused
  <2>2. At(h) \notin VoiceLabels
    BY <2>1 DEF VoiceLabels
  <2> QED
    BY <1>1, <2>1, <2>2, VoiceQuiet
<1>5. CASE TakesAttachments(h) \/ AbsorbTakes(h) \/ FlushBegins(h)
  <2>1. /\ At(h) \in {"attach", "attachments", "flush"}
        /\ UNCHANGED <<inVoice, inText, inCrossed>> /\ inShared \subseteq inShared'
        /\ \/ Done(h)
           \/ \E label \in {"session", "absorb", "flushing"}, items \in {inAttach, inBatch.items} :
                 inDoing' = [inDoing EXCEPT ![h].at = label, ![h].held = items]
    BY <1>5 DEF TakesAttachments, AbsorbTakes, FlushBegins, Refused, inStores
  <2>2. At(h) \notin VoiceLabels
    BY <2>1 DEF VoiceLabels
  <2> QED
    BY <1>1, <2>1, <2>2, VoiceQuiet
<1>6. CASE Requests(h) \/ ClearsAttachments(h)
  <2>1. /\ At(h) \in {"session", "clear"}
        /\ UNCHANGED <<inVoice, inText, inCrossed>> /\ inShared \subseteq inShared'
        /\ Done(h) \/ Goes(h, "clear")
    BY <1>6 DEF Requests, ClearsAttachments, Refused, inStores, inHistory
  <2>2. At(h) \notin VoiceLabels
    BY <2>1 DEF VoiceLabels
  <2> QED
    BY <1>1, <2>1, <2>2, VoiceQuiet
<1>7. CASE CollectSends(h) \/ CollectBegins(h) \/ AbsorbClears(h) \/ FlushSends(h)
  <2>1. /\ At(h) \in {"command", "start", "absorb", "flushing"}
        /\ UNCHANGED <<inVoice, inText, inShared, inCrossed>>
        /\ Done(h) \/ \E l \in {"flush", "attachments", "append", "flushed"} : Goes(h, l)
    BY <1>7 DEF CollectSends, CollectBegins, AbsorbClears, FlushSends, inStores, inHistory
  <2>2. At(h) \notin VoiceLabels
    BY <2>1 DEF VoiceLabels
  <2> QED
    BY <1>1, <2>1, <2>2, VoiceQuiet
<1> QED
  BY <1>2, <1>3, <1>4, <1>5, <1>6, <1>7 DEF CollectStep

\* Every step keeps the invariant.
LEMMA InKeeps == InInv /\ VoiceInv /\ [InNext]_inVars => InInv' /\ VoiceInv'
<1> SUFFICES ASSUME InInv, VoiceInv, [InNext]_inVars PROVE InInv' /\ VoiceInv'
  OBVIOUS
<1>1. ASSUME NEW h \in Handlers,
             (\E kind \in {"text", "attachment"} : Comes(h, kind)) \/ VoiceComes(h) \/ CollectCommand(h)
      PROVE  InInv' /\ VoiceInv'
  BY <1>1, ComingSteps, VoiceRests
<1>2. ASSUME NEW h \in Handlers, TextStep(h) PROVE InInv' /\ VoiceInv'
  BY <1>2, DictationSteps, AskingSteps, TakingSteps, RequestsStep, ClearsStep, VoiceRests DEF TextStep
<1>3. ASSUME NEW h \in Handlers, ItemStep(h) PROVE InInv' /\ VoiceInv'
  BY <1>3, AskingSteps, BuffersStep, StoresStep, DictationSteps, VoiceRests DEF ItemStep
<1>4. ASSUME NEW h \in Handlers, CollectStep(h) PROVE InInv' /\ VoiceInv'
  <2>1. InInv'
    BY <1>4, AskingSteps, SettlingSteps, TakingSteps, AbsorbClearsStep, AbsorbAppendsStep, FlushBeginsStep,
       FlushSendsStep, FlushFailsStep, FlushEndsStep DEF CollectStep
  <2> QED
    BY <1>4, <2>1, VoiceRests
<1>5. CASE TimePasses \/ UNCHANGED inVars
  <2>1. UNCHANGED <<inAttach, inVoice, inText, inBatch, inDoing, inItems, inHistory>>
    BY <1>5 DEF TimePasses, inVars, inStores
  <2>2. Dictated' = Dictated
    BY <2>1 DEF Dictated
  <2>3. InTypeOK'
    BY <2>1, <2>2 DEF InInv, InTypeOK, inHistory, At, Item, Held
  <2>4. Keeping'
    BY <2>1, <2>2 DEF InInv, Keeping, Safe, inHistory, At, Item, Held
  <2>5. (\A i \in Items \ inShared : OnceOf(i))'
    BY <2>1, <2>2 DEF InInv, OnceOf, Has, inHistory, At, Item, Held
  <2>6. VoiceInv'
    BY <2>1, <2>2 DEF VoiceInv, VoiceTypes, CopyOf, inHistory, At, Item, Pending
  <2> QED
    BY <2>3, <2>4, <2>5, <2>6 DEF InInv
<1> QED
  BY <1>1, <1>2, <1>3, <1>4, <1>5 DEF InNext

\* At first there is nothing.
LEMMA InStarts == InInit => InInv /\ VoiceInv
<1> USE ItemNumbers
<1> SUFFICES ASSUME InInit PROVE InInv /\ VoiceInv
  OBVIOUS
<1>1. /\ inAttach = {} /\ inVoice = 0 /\ inText = [p \in 0 .. MaxItems |-> 0] /\ inBatch = NoBatch
      /\ inDoing = [h \in Handlers |-> Resting]
      /\ inItems = 0 /\ inSent = [i \in Items |-> 0] /\ inKept = {}
  BY DEF InInit
<1>2. \A h \in Handlers : At(h) = "idle" /\ Item(h) = 0 /\ Held(h) = {} /\ Pending(h) = 0
  BY <1>1 DEF At, Item, Held, Pending, Resting
<1>6. Dictated = 0
  BY <1>1, IntakeAssumption DEF Dictated
<1>3. InTypeOK
  <2>1. Resting \in Doings /\ NoBatch \in Batches /\ "idle" \in Commanding
    BY DEF Resting, Doings, InLabels, NoBatch, Batches, Commanding
  <2> QED
    BY <1>1, <1>2, <1>6, <2>1 DEF InTypeOK
<1>4. Keeping
  BY <1>1, <1>2 DEF Keeping
<1>5. ASSUME NEW i \in Items PROVE OnceOf(i)
  <2>1. i # 0 /\ inSent[i] = 0 /\ inBatch.items = {} /\ \A h \in Handlers : ~Has(h, i)
    BY <1>1, <1>2 DEF NoBatch, Has
  <2> QED
    BY <1>1, <1>6, <2>1 DEF OnceOf
<1>7. VoiceInv
  <2>1. "idle" \notin VoiceLabels /\ "idle" \notin Copying
    BY DEF VoiceLabels, Copying
  <2> QED
    BY <1>1, <1>2, <1>6, <2>1 DEF VoiceInv, VoiceTypes
<1> QED
  BY <1>3, <1>4, <1>5, <1>7 DEF InInv

\* What a user sends in pieces is kept until it is sent and sent once, for any number of handlers,
\* messages, collections and flushes: who empties a store has sent what it copied from it, what
\* came in meanwhile is excepted, and so is what somebody else had copied as well.
THEOREM PiecesAreSent == InSpec => []StoredIsSentOnce
<1>1. InInv => StoredIsSentOnce
  <2> SUFFICES ASSUME InInv PROVE StoredIsSentOnce
    OBVIOUS
  <2>1. InTypeOK /\ Keeping /\ \A i \in Items \ inShared : OnceOf(i)
    BY DEF InInv
  <2>2. ASSUME NEW i \in inKept \ inCrossed
        PROVE  i \in Waiting \cup Carried \cup inTold \/ inSent[i] > 0
    <3>1. Safe(i) /\ i # 0
      BY <2>1, ItemNumbers DEF Keeping, InTypeOK
    <3>2. ASSUME NEW h \in Handlers, Item(h) = i \/ i \in Held(h) PROVE i \in Carried
      BY <3>2 DEF Carried, Held
    <3> QED
      BY <3>1, <3>2 DEF Safe, Waiting
  <2>3. ASSUME NEW i \in Items \ inShared PROVE inSent[i] <= 1
    <3>1. inSent[i] \in Nat /\ OnceOf(i)
      BY <2>1 DEF InTypeOK
    <3> QED
      BY <3>1 DEF OnceOf
  <2> QED
    BY <2>2, <2>3 DEF StoredIsSentOnce, KeptUntilSent, SentOnce
<1> QED
  BY <1>1, InStarts, InKeeps, PTL DEF InSpec
=============================================================================
