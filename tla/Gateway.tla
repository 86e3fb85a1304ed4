-------------------------------- MODULE Gateway --------------------------------
(* The qqbot adapter and its connection to the gateway of the service.  One    *)
(* goroutine reads the connection and calls the engine, one sends heartbeats,  *)
(* and one, started by whoever finds the connection bad, replaces it: it       *)
(* resumes the session of the gateway from the last sequence number, or begins *)
(* a new session.  Nobody stops the goroutines of the old connection: they     *)
(* find out for themselves, and may meet the new connection instead.           *)
EXTENDS Integers, FiniteSets, Sequences

CONSTANTS
    MaxAttempts,    \* maxReconnectAttempts
    MaxEvents,      \* bound: sequence numbers of a session
    MaxSessionIds,  \* bound: sessions of the gateway
    MaxBreaks,      \* bound: connections that break, fall silent or are to be replaced
    MaxDialFails,   \* bound: attempts that do not get as far as a connection
    MaxHurries      \* bound: heartbeats of two goroutines with no time for an answer between them

ASSUME GatewayAssumption ==
    {MaxAttempts, MaxEvents, MaxSessionIds, MaxBreaks, MaxDialFails, MaxHurries} \subseteq Nat

VARIABLES
    gwConn,     \* the connection behind p.wsConn
    gwPipe,     \* frames on it that nobody has read
    gwServer,   \* the gateway: session, its last number, whether it can be resumed, whether p.wsConn serves it
    gwSession,  \* p.sessionID, 0 for none
    gwSeq,      \* p.lastSeq
    gwOK,       \* p.heartbeatOK
    gwBeats,    \* number of heartbeat goroutines
    gwReaders,  \* the reading goroutines
    gwPhase,    \* what reconnectLoop is about to do; "none" while reconnecting is FALSE
    gwAttempt,  \* attempt of reconnectLoop
    gwStopped,  \* the context of the adapter is cancelled
    gwCount,    \* faults so far
    gwTaken,    \* history: events that a goroutine has read
    gwHandled,  \* history: events that went through the handlers
    gwGaveUp    \* history: the last reconnectLoop used up its attempts

gwSide == <<gwSession, gwSeq>>
gwLoop == <<gwPhase, gwAttempt, gwGaveUp>>
gwHistory == <<gwTaken, gwHandled>>
gwVars == <<gwConn, gwPipe, gwServer, gwSide, gwOK, gwBeats, gwReaders, gwLoop, gwStopped, gwCount, gwHistory>>

Frame(op, s) == [op |-> op, s |-> s]
NoEvent == <<0, 0>>
ReaderIds == 1 .. MaxEvents * MaxSessionIds + 3

\* connectGateway has succeeded: READY was the first number of the session.
GwInit ==
    /\ gwConn = "open" /\ gwPipe = <<>>
    /\ gwServer = [sid |-> 1, sent |-> 1, valid |-> TRUE, joined |-> TRUE]
    /\ gwSession = 1 /\ gwSeq = 1 /\ gwOK = TRUE /\ gwBeats = 1
    /\ gwReaders = {[id |-> 1, conn |-> "current", step |-> "pick", event |-> NoEvent]}
    /\ gwPhase = "none" /\ gwAttempt = 0 /\ gwStopped = FALSE
    /\ gwCount = [breaks |-> 0, dials |-> 0, hurries |-> 0]
    /\ gwTaken = {} /\ gwHandled = {} /\ gwGaveUp = FALSE

\* triggerReconnect: whoever is second goes away with nothing done.
Trigger == gwPhase' = IF gwPhase = "none" THEN "close" ELSE gwPhase

-----------------------------------------------------------------------------
\* The service and the network.
Emit ==
    /\ gwServer.valid /\ gwServer.sent < MaxEvents /\ gwServer.sid <= MaxSessionIds
    /\ gwServer' = [gwServer EXCEPT !.sent = @ + 1]
    /\ gwPipe' = IF gwServer.joined /\ gwConn = "open"
                 THEN Append(gwPipe, Frame("event", gwServer.sent + 1)) ELSE gwPipe
    /\ UNCHANGED <<gwConn, gwSide, gwOK, gwBeats, gwReaders, gwLoop, gwStopped, gwCount, gwHistory>>

Break(how) ==
    /\ gwConn = "open" /\ gwCount.breaks < MaxBreaks
    /\ gwCount' = [gwCount EXCEPT !.breaks = @ + 1]
    /\ gwConn' = IF how = "asked" THEN gwConn ELSE how
    /\ gwPipe' = IF how = "asked" THEN Append(gwPipe, Frame("reconnect", 0))
                 ELSE IF how = "broken" THEN <<>> ELSE gwPipe
    /\ gwServer' = [gwServer EXCEPT !.joined = FALSE]
    /\ UNCHANGED <<gwSide, gwOK, gwBeats, gwReaders, gwLoop, gwStopped, gwHistory>>

\* The gateway forgets a session that no connection serves.
SessionExpires ==
    /\ gwServer.valid /\ ~gwServer.joined /\ gwServer.sid < MaxSessionIds
    /\ gwServer' = [gwServer EXCEPT !.valid = FALSE]
    /\ UNCHANGED <<gwConn, gwPipe, gwSide, gwOK, gwBeats, gwReaders, gwLoop, gwStopped, gwCount, gwHistory>>

-----------------------------------------------------------------------------
\* readLoop.  It looks p.wsConn up before each frame.
Moves(r, step) == gwReaders' = (gwReaders \ {r}) \cup {[r EXCEPT !.step = step]}
Leaves(r) == gwReaders' = gwReaders \ {r}

Pick(r) ==
    /\ r.step = "pick"
    /\ gwReaders' = (gwReaders \ {r}) \cup
           (IF gwStopped \/ gwConn = "nil" THEN {} ELSE {[r EXCEPT !.step = "read", !.conn = "current"]})
    /\ UNCHANGED <<gwConn, gwPipe, gwServer, gwSide, gwOK, gwBeats, gwLoop, gwStopped, gwCount, gwHistory>>

ReadFails(r) ==
    /\ r.step = "read"
    /\ r.conn = "old" \/ gwConn \in {"broken", "closed"}
    /\ Leaves(r)
    /\ IF gwStopped THEN UNCHANGED gwPhase ELSE Trigger
    /\ UNCHANGED <<gwConn, gwPipe, gwServer, gwSide, gwOK, gwBeats, gwAttempt, gwGaveUp, gwStopped, gwCount, gwHistory>>

Reads(r, op) ==
    /\ r.step = "read" /\ r.conn = "current" /\ gwConn \in {"open", "silent"}
    /\ gwPipe # <<>> /\ Head(gwPipe).op = op
    /\ gwPipe' = Tail(gwPipe)
    /\ UNCHANGED <<gwConn, gwServer, gwBeats, gwAttempt, gwGaveUp, gwStopped, gwCount, gwHandled>>

\* The number is stored before the event is handled.
ReadEvent(r) ==
    /\ Reads(r, "event")
    /\ LET event == <<gwServer.sid, Head(gwPipe).s>> IN
       /\ gwReaders' = (gwReaders \ {r}) \cup {[r EXCEPT !.step = "handle", !.event = event]}
       /\ gwTaken' = gwTaken \cup {event}
    /\ gwSeq' = Head(gwPipe).s
    /\ UNCHANGED <<gwSession, gwOK, gwPhase>>

ReadAck(r) ==
    /\ Reads(r, "ack")
    /\ gwOK' = TRUE /\ Moves(r, "pick")
    /\ UNCHANGED <<gwSide, gwPhase, gwTaken>>

\* A goroutine of the old connection may take the frames that reconnectLoop waits for.
ReadForeign(r) ==
    /\ \/ Reads(r, "hello") /\ UNCHANGED gwSeq
       \/ Reads(r, "ready") /\ gwSeq' = Head(gwPipe).s
    /\ Moves(r, "pick")
    /\ UNCHANGED <<gwSession, gwOK, gwPhase, gwTaken>>

ReadReconnect(r) ==
    /\ \/ Reads(r, "reconnect") /\ UNCHANGED gwSession
       \/ Reads(r, "invalid") /\ gwSession' = 0
    /\ Leaves(r) /\ Trigger
    /\ UNCHANGED <<gwSeq, gwOK, gwTaken>>

\* handleDispatch, with the engine's handler in it, takes its time.
HandleEnds(r) ==
    /\ r.step = "handle"
    /\ gwHandled' = gwHandled \cup {r.event}
    /\ gwReaders' = (gwReaders \ {r}) \cup {[r EXCEPT !.step = "pick", !.event = NoEvent]}
    /\ UNCHANGED <<gwConn, gwPipe, gwServer, gwSide, gwOK, gwBeats, gwLoop, gwStopped, gwCount, gwTaken>>

-----------------------------------------------------------------------------
\* heartbeatLoop.  The goroutine of a new connection waits an interval before its first beat.
Ticking == gwBeats > (IF gwPhase = "started" THEN 1 ELSE 0)

HasAck == \E i \in DOMAIN gwPipe : gwPipe[i].op = "ack"

BeatSends ==
    /\ Ticking /\ gwOK /\ ~gwStopped
    /\ gwOK' = FALSE
    /\ gwPipe' = IF gwConn = "open" /\ ~HasAck THEN Append(gwPipe, Frame("ack", 0)) ELSE gwPipe
    /\ UNCHANGED <<gwConn, gwServer, gwSide, gwBeats, gwReaders, gwLoop, gwStopped, gwCount, gwHistory>>

\* An interval is time enough to read the answer, unless the goroutine that reads is busy
\* or two goroutines beat shortly after each other.
AckComing ==
    /\ gwConn = "open" /\ HasAck
    /\ \E r \in gwReaders : r.step \in {"pick", "read"} /\ r.conn = "current"

BeatTimesOut ==
    /\ Ticking /\ ~gwOK /\ ~gwStopped
    /\ IF AckComing
       THEN /\ gwBeats > 1 /\ gwCount.hurries < MaxHurries
            /\ gwCount' = [gwCount EXCEPT !.hurries = @ + 1]
       ELSE UNCHANGED gwCount
    /\ gwBeats' = gwBeats - 1
    /\ Trigger
    /\ UNCHANGED <<gwConn, gwPipe, gwServer, gwSide, gwOK, gwReaders, gwAttempt, gwGaveUp, gwStopped, gwHistory>>

BeatStops ==
    /\ gwStopped /\ gwBeats > 0
    /\ gwBeats' = gwBeats - 1
    /\ UNCHANGED <<gwConn, gwPipe, gwServer, gwSide, gwOK, gwReaders, gwLoop, gwStopped, gwCount, gwHistory>>

-----------------------------------------------------------------------------
\* reconnectLoop.
LoopAt(phase) == gwPhase = phase /\ UNCHANGED <<gwStopped, gwHistory>>

\* p.wsConn is another connection: whoever reads the old one gets an error.
Replaced == gwReaders' = {[r EXCEPT !.conn = "old"] : r \in gwReaders}

CloseOld ==
    /\ LoopAt("close")
    /\ gwConn' = "nil" /\ gwPipe' = <<>> /\ Replaced
    /\ gwServer' = [gwServer EXCEPT !.joined = FALSE]
    /\ gwPhase' = "top" /\ gwAttempt' = 1
    /\ UNCHANGED <<gwSide, gwOK, gwBeats, gwGaveUp, gwCount>>

\* The context is looked at here and nowhere else.
LoopTop ==
    /\ LoopAt("top")
    /\ IF gwStopped THEN gwPhase' = "none" /\ UNCHANGED gwGaveUp
       ELSE IF gwAttempt > MaxAttempts THEN gwPhase' = "none" /\ gwGaveUp' = TRUE
       ELSE gwPhase' = "dial" /\ UNCHANGED gwGaveUp
    /\ UNCHANGED <<gwConn, gwPipe, gwServer, gwSide, gwOK, gwBeats, gwReaders, gwAttempt, gwCount>>

NextAttempt == gwPhase' = "top" /\ gwAttempt' = gwAttempt + 1 /\ UNCHANGED gwGaveUp

\* time.Sleep(backoff): a second is enough for every goroutine to find out that its connection
\* is gone, except one that is in the handler.
Slept == LoopAt("dial") /\ \A r \in gwReaders : r.step = "handle"

\* No token, no address or no connection.
DialFails ==
    /\ Slept /\ gwCount.dials < MaxDialFails
    /\ gwCount' = [gwCount EXCEPT !.dials = @ + 1]
    /\ NextAttempt
    /\ UNCHANGED <<gwConn, gwPipe, gwServer, gwSide, gwOK, gwBeats, gwReaders>>

\* p.wsConn is set before the greeting: from here on old goroutines may read it.
Dial ==
    /\ Slept
    /\ gwConn' = "open" /\ gwPipe' = <<Frame("hello", 0)>> /\ Replaced
    /\ gwPhase' = "hello"
    /\ UNCHANGED <<gwServer, gwSide, gwOK, gwBeats, gwAttempt, gwGaveUp, gwCount>>

Expected(op) == gwConn \in {"open", "silent"} /\ gwPipe # <<>> /\ Head(gwPipe).op = op

Hello ==
    /\ LoopAt("hello") /\ Expected("hello")
    /\ gwPipe' = Tail(gwPipe) /\ gwOK' = TRUE
    /\ gwPhase' = "session"
    /\ UNCHANGED <<gwConn, gwServer, gwSide, gwBeats, gwReaders, gwAttempt, gwGaveUp, gwCount>>

\* Another frame, an error or the deadline: the connection is closed but stays p.wsConn.
WaitFails(phase, op) ==
    /\ LoopAt(phase) /\ ~Expected(op)
    /\ gwConn' = "closed" /\ gwPipe' = <<>>
    /\ gwServer' = [gwServer EXCEPT !.joined = FALSE]
    /\ NextAttempt
    /\ UNCHANGED <<gwSide, gwOK, gwBeats, gwReaders, gwCount>>

\* The gateway sends what came after lastSeq, or says that the session is over; the loop
\* does not wait for it.
Resume ==
    /\ LoopAt("session") /\ gwSession # 0 /\ gwConn \in {"open", "silent"}
    /\ LET known == gwServer.valid /\ gwServer.sid = gwSession
           missed == [i \in 1 .. gwServer.sent - gwSeq |-> Frame("event", gwSeq + i)] IN
       IF gwConn = "silent" THEN UNCHANGED <<gwServer, gwPipe>>
       ELSE /\ gwServer' = [gwServer EXCEPT !.joined = known]
            /\ gwPipe' = gwPipe \o (IF known THEN missed ELSE <<Frame("invalid", 0)>>)
    /\ gwPhase' = "start"
    /\ UNCHANGED <<gwConn, gwSide, gwOK, gwBeats, gwReaders, gwAttempt, gwGaveUp, gwCount>>

\* The sessions beyond the bound are one, in which nothing is posted.
NextSid == IF gwServer.sid <= MaxSessionIds THEN gwServer.sid + 1 ELSE gwServer.sid

Identify ==
    /\ LoopAt("session") /\ gwSession = 0 /\ gwConn \in {"open", "silent"}
    /\ IF gwConn = "silent" THEN UNCHANGED <<gwServer, gwPipe>>
       ELSE /\ gwServer' = [sid |-> NextSid, sent |-> 1, valid |-> TRUE, joined |-> TRUE]
            /\ gwPipe' = Append(gwPipe, Frame("ready", 1))
    /\ gwPhase' = "ready"
    /\ UNCHANGED <<gwConn, gwSide, gwOK, gwBeats, gwReaders, gwAttempt, gwGaveUp, gwCount>>

\* The connection is gone: neither can be sent, and the session is not tried again.
SessionFails ==
    /\ LoopAt("session") /\ gwConn = "broken"
    /\ gwSession' = 0 /\ gwConn' = "closed"
    /\ NextAttempt
    /\ UNCHANGED <<gwPipe, gwServer, gwSeq, gwOK, gwBeats, gwReaders, gwCount>>

\* Mutant: the number of READY is not stored.
ReadyComes_SeqStays ==
    /\ LoopAt("ready") /\ Expected("ready")
    /\ gwPipe' = Tail(gwPipe) /\ gwSession' = gwServer.sid
    /\ gwPhase' = "start"
    /\ UNCHANGED <<gwConn, gwServer, gwSeq, gwOK, gwBeats, gwReaders, gwAttempt, gwGaveUp, gwCount>>

ReadyComes ==
    /\ LoopAt("ready") /\ Expected("ready")
    /\ gwPipe' = Tail(gwPipe) /\ gwSession' = gwServer.sid /\ gwSeq' = Head(gwPipe).s
    /\ gwPhase' = "start"
    /\ UNCHANGED <<gwConn, gwServer, gwOK, gwBeats, gwReaders, gwAttempt, gwGaveUp, gwCount>>

NewReader == CHOOSE i \in ReaderIds : \A r \in gwReaders : r.id # i

\* Mutant: the heartbeat goroutine is thought to be there still.
StartLoops_NoBeat ==
    /\ LoopAt("start")
    /\ gwReaders' = gwReaders \cup {[id |-> NewReader, conn |-> "current", step |-> "pick", event |-> NoEvent]}
    /\ gwPhase' = "started" /\ gwGaveUp' = FALSE
    /\ UNCHANGED <<gwConn, gwPipe, gwServer, gwSide, gwOK, gwBeats, gwAttempt, gwCount>>

\* Both goroutines are started before reconnecting is FALSE again.
StartLoops ==
    /\ LoopAt("start")
    /\ gwBeats' = gwBeats + 1
    /\ gwReaders' = gwReaders \cup {[id |-> NewReader, conn |-> "current", step |-> "pick", event |-> NoEvent]}
    /\ gwPhase' = "started" /\ gwGaveUp' = FALSE
    /\ UNCHANGED <<gwConn, gwPipe, gwServer, gwSide, gwOK, gwAttempt, gwCount>>

LoopEnds ==
    /\ LoopAt("started")
    /\ gwPhase' = "none"
    /\ UNCHANGED <<gwConn, gwPipe, gwServer, gwSide, gwOK, gwBeats, gwReaders, gwAttempt, gwGaveUp, gwCount>>

GwStop ==
    /\ ~gwStopped
    /\ gwStopped' = TRUE
    /\ gwConn' = IF gwConn = "nil" THEN gwConn ELSE "closed"
    /\ gwPipe' = <<>>
    /\ gwServer' = [gwServer EXCEPT !.joined = FALSE]
    /\ UNCHANGED <<gwSide, gwOK, gwBeats, gwReaders, gwLoop, gwCount, gwHistory>>

-----------------------------------------------------------------------------
Reading(r) ==
    \/ Pick(r) \/ ReadFails(r) \/ ReadEvent(r) \/ ReadAck(r)
    \/ ReadForeign(r) \/ ReadReconnect(r) \/ HandleEnds(r)

Reconnecting ==
    \/ CloseOld \/ LoopTop \/ Dial \/ Hello \/ WaitFails("hello", "hello")
    \/ Resume \/ Identify \/ SessionFails
    \/ ReadyComes \/ WaitFails("ready", "ready") \/ StartLoops \/ LoopEnds

Beating == BeatSends \/ BeatTimesOut \/ BeatStops

GwNext ==
    \/ Emit \/ SessionExpires \/ DialFails \/ GwStop
    \/ \E how \in {"broken", "silent", "asked"} : Break(how)
    \/ \E r \in gwReaders : Reading(r)
    \/ Reconnecting \/ Beating

\* Goroutines run, waits have deadlines, tickers tick and the engine's handler returns.
GwFairness ==
    /\ \A i \in ReaderIds : WF_gwVars(\E r \in gwReaders : r.id = i /\ Reading(r))
    /\ WF_gwVars(Reconnecting)
    /\ WF_gwVars(Beating)

GwSpec == GwInit /\ [][GwNext]_gwVars /\ GwFairness

-----------------------------------------------------------------------------
\* lastSeq never runs ahead of what was read: what a resumed session leaves out has
\* been read, whatever was read by goroutines of the connection before (qqbot.go readLoop,
\* waitForReady, sendResume).
NothingSkipped ==
    gwServer.valid /\ gwSession = gwServer.sid /\ gwSession <= MaxSessionIds =>
        \A s \in 2 .. gwServer.sent : s <= gwSeq => <<gwSession, s>> \in gwTaken

\* A message of the service is handled in the end, over connections that break or fall
\* silent and reconnects that get into each other's way, unless the service forgot the session
\* or began another, the attempts were used up or the adapter stopped (heartbeatLoop,
\* triggerReconnect).
EventsArrive ==
    \A sid \in 1 .. MaxSessionIds, s \in 2 .. MaxEvents :
        (gwServer.sid = sid /\ s <= gwServer.sent)
            ~> (<<sid, s>> \in gwHandled \/ gwServer.sid # sid \/ ~gwServer.valid \/ gwGaveUp \/ gwStopped)
=============================================================================
