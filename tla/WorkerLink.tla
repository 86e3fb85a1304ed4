----------------------------- MODULE WorkerLink -----------------------------
(* The link of a worker to the Echo gateway: the session goroutine that dials, *)
(* registers and sends heartbeats, the reader of each connection, the goroutines *)
(* that serve the messages of the gateway, and one watcher per job.           *)
(*                                                                            *)
(* The gateway, the network and the jobs are the environment.  A write into a *)
(* connection that the peer has closed may succeed and go nowhere, or fail.   *)
EXTENDS Integers

CONSTANTS
    Links,         \* connections; one is used again once its reader is gone
    LinkTasks,     \* tasks that the gateway may assign, one job each
    NoLink,
    MaxLinkBreaks, \* bound: connections that break, errors of the gateway, slow readers
    MaxLinkCancels \* bound: cancel_task messages

ASSUME LinkAssumption ==
    /\ NoLink \notin Links
    /\ MaxLinkBreaks \in Nat /\ MaxLinkCancels \in Nat

VARIABLES
    linkAt,        \* the session goroutine (run, runSession, request)
    linkStage,     \* its request: hello, register_host, register_agents, heartbeat
    linkConn,      \* c.conn
    linkWire,      \* per connection: up, broken by the peer, or closed by us
    linkReader,    \* per connection: readLoop is reading, or gone
    linkPending,   \* c.pending has the request of the session goroutine
    linkChan,      \* its channel: empty, ok or error
    linkAnswer,    \* the gateway: owes an answer, or has sent it
    linkStop,      \* shutdown: the context is cancelled, Stop has closed the connection
    linkJob,       \* status of the job of a task
    linkAssign,    \* handleAssignTask of the task, up to ensureWatcher
    linkCancel,    \* handleCancelTask of the task, up to ensureWatcher
    linkWatch,     \* watchJob of the job; its entry is in c.watchers unless it is off
    linkSeen,      \* the status in lastFingerprint
    linkTold,      \* the last task_result that the gateway got
    linkLate,      \* history: the request was made when its reader was already gone
    linkLost,      \* history: tasks with a report that failed or went nowhere
    linkBreaks, linkCancels

linkSession == <<linkAt, linkStage, linkConn, linkPending, linkLate>>
linkLine == <<linkWire, linkReader, linkChan, linkAnswer>>
linkJobs == <<linkJob, linkAssign, linkCancel, linkWatch, linkSeen, linkTold, linkLost>>
linkCounts == <<linkStop, linkBreaks, linkCancels>>
linkVars == <<linkSession, linkLine, linkJobs, linkCounts>>

Heartbeat == 4

\* No connection, no request and no job.
LinkFresh ==
    /\ linkAt = "dial"
    /\ linkConn = NoLink
    /\ linkWire = [l \in Links |-> "closed"]
    /\ linkReader = [l \in Links |-> "gone"]
    /\ linkPending = FALSE /\ linkChan = "empty" /\ linkAnswer = "none"
    /\ linkStop = "no"
    /\ linkJob = [t \in LinkTasks |-> "none"]
    /\ linkAssign = [t \in LinkTasks |-> "none"]
    /\ linkCancel = [t \in LinkTasks |-> "none"]
    /\ linkWatch = [t \in LinkTasks |-> "off"]
    /\ linkSeen = [t \in LinkTasks |-> "none"]
    /\ linkTold = [t \in LinkTasks |-> "none"]
    /\ linkLate = FALSE /\ linkLost = {}
    /\ linkBreaks = 0 /\ linkCancels = 0

\* run, before its first session: the first request is hello.
LinkInit == linkStage = 1 /\ LinkFresh

-----------------------------------------------------------------------------
Connected == linkConn # NoLink
WireUp == Connected /\ linkWire[linkConn] = "up"

\* closeConn.
CloseConn ==
    /\ linkWire' = [l \in Links |-> IF l = linkConn THEN "closed" ELSE linkWire[l]]
    /\ linkConn' = NoLink

\* runSession returns: its connection is closed, and run waits for its backoff.
LeaveSession ==
    /\ CloseConn
    /\ linkPending' = FALSE
    /\ linkAt' = IF linkStop = "no" THEN "backoff" ELSE "ended"
    /\ UNCHANGED <<linkStage, linkLate, linkReader, linkChan, linkAnswer>>

\* runSession dials and starts the reader of the new connection.
LinkDial ==
    /\ linkAt = "dial"
    /\ \E l \in Links :
         /\ linkReader[l] = "gone"
         /\ linkConn' = l
         /\ linkWire' = [linkWire EXCEPT ![l] = "up"]
         /\ linkReader' = [linkReader EXCEPT ![l] = "reading"]
    /\ linkAt' = "ask" /\ linkStage' = 1
    /\ UNCHANGED <<linkPending, linkLate, linkChan, linkAnswer, linkJobs, linkCounts>>

LinkDialFails ==
    /\ linkAt = "dial"
    /\ linkAt' = IF linkStop = "no" THEN "backoff" ELSE "ended"
    /\ UNCHANGED <<linkStage, linkConn, linkPending, linkLate, linkLine, linkJobs, linkCounts>>

\* The backoff, of a second or more, ends; that it ends before the reader of the closed
\* connection has seen the close counts as a fault.
LinkBackoff ==
    /\ linkAt = "backoff"
    /\ linkAt' = IF linkStop = "no" THEN "dial" ELSE "ended"
    /\ \/ (\A l \in Links : linkReader[l] = "gone") /\ UNCHANGED linkBreaks
       \/ /\ \E l \in Links : linkReader[l] = "reading"
          /\ linkBreaks < MaxLinkBreaks
          /\ linkBreaks' = linkBreaks + 1
    /\ UNCHANGED <<linkStage, linkConn, linkPending, linkLate, linkLine, linkJobs, linkStop, linkCancels>>

\* request enters its channel into c.pending before it writes ...
LinkAsk ==
    /\ linkAt = "ask"
    /\ linkPending' = TRUE /\ linkChan' = "empty" /\ linkAnswer' = "none"
    /\ linkLate' = (~Connected \/ linkReader[linkConn] = "gone")
    /\ linkAt' = "send"
    /\ UNCHANGED <<linkStage, linkConn, linkWire, linkReader, linkJobs, linkCounts>>

\* ... and writes it, or fails.
LinkSend ==
    /\ linkAt = "send"
    /\ \/ /\ Connected
          /\ linkAnswer' = IF WireUp THEN "owed" ELSE "none"
          /\ linkAt' = "wait"
          /\ UNCHANGED <<linkStage, linkConn, linkPending, linkLate, linkWire, linkReader, linkChan>>
       \/ ~WireUp /\ LeaveSession
    /\ UNCHANGED <<linkJobs, linkCounts>>

\* request waits for its channel or for the end of the context, and for nothing else.
LinkReceive ==
    /\ linkAt = "wait"
    /\ \/ /\ linkChan = "ok"
          /\ linkPending' = FALSE
          /\ linkStage' = IF linkStage = Heartbeat THEN Heartbeat ELSE linkStage + 1
          /\ linkAt' = IF linkStage + 1 < Heartbeat THEN "ask" ELSE "idle"
          /\ UNCHANGED <<linkConn, linkLate, linkLine>>
       \/ linkChan = "error" /\ LeaveSession
       \/ linkStop # "no" /\ LeaveSession
    /\ UNCHANGED <<linkJobs, linkCounts>>

\* The loop of runSession: the ticker, the end of the reader, or the context.
LinkLoop ==
    /\ linkAt = "idle"
    /\ \/ /\ linkAt' = "ask"
          /\ UNCHANGED <<linkStage, linkConn, linkPending, linkLate, linkLine>>
       \/ Connected /\ linkReader[linkConn] = "gone" /\ LeaveSession
       \/ linkStop # "no" /\ LeaveSession
    /\ UNCHANGED <<linkJobs, linkCounts>>

-----------------------------------------------------------------------------
\* The environment: the gateway answers, perhaps with an error; a connection breaks,
\* and what was under way on it may be lost.
GatewayAnswers ==
    /\ linkAnswer = "owed" /\ WireUp
    /\ \/ linkAnswer' = "ok" /\ UNCHANGED linkBreaks
       \/ linkAnswer' = "error" /\ linkBreaks < MaxLinkBreaks /\ linkBreaks' = linkBreaks + 1
    /\ UNCHANGED <<linkSession, linkWire, linkReader, linkChan, linkJobs, linkStop, linkCancels>>

LinkBreaks(l) ==
    /\ linkWire[l] = "up"
    /\ linkBreaks < MaxLinkBreaks
    /\ linkBreaks' = linkBreaks + 1
    /\ linkWire' = [linkWire EXCEPT ![l] = "broken"]
    /\ linkAnswer' \in {linkAnswer, "none"}
    /\ UNCHANGED <<linkSession, linkReader, linkChan, linkJobs, linkStop, linkCancels>>

\* readLoop reads the answer to the pending request.
ReaderAnswers ==
    /\ Connected /\ linkReader[linkConn] = "reading"
    /\ linkAnswer \in {"ok", "error"}
    /\ linkChan' = IF linkPending THEN linkAnswer ELSE linkChan
    /\ linkAnswer' = "none"
    /\ UNCHANGED <<linkSession, linkWire, linkReader, linkJobs, linkCounts>>

\* Mutant of ReaderFails: failPending is forgotten.
ReaderFails_Silent(l) ==
    /\ linkReader[l] = "reading"
    /\ linkWire[l] # "up"
    /\ linkReader' = [linkReader EXCEPT ![l] = "gone"]
    /\ UNCHANGED <<linkSession, linkWire, linkChan, linkAnswer, linkJobs, linkCounts>>

\* readLoop fails: failPending answers whatever request is pending with an error, be it
\* that of a later session, and the error is left for the loop of runSession.
ReaderFails(l) ==
    /\ linkReader[l] = "reading"
    /\ linkWire[l] # "up"
    /\ linkReader' = [linkReader EXCEPT ![l] = "gone"]
    /\ linkChan' = IF linkPending /\ linkChan = "empty" THEN "error" ELSE linkChan
    /\ UNCHANGED <<linkSession, linkWire, linkAnswer, linkJobs, linkCounts>>

\* Shutdown cancels the context, then Stop closes the connection and ends the watchers.
LinkCancelContext ==
    /\ linkStop = "no"
    /\ linkStop' = "cancelled"
    /\ UNCHANGED <<linkSession, linkLine, linkJobs, linkBreaks, linkCancels>>

LinkStop ==
    /\ linkStop = "cancelled"
    /\ linkStop' = "stopped"
    /\ CloseConn
    /\ linkWatch' = [t \in LinkTasks |-> "off"]
    /\ UNCHANGED <<linkAt, linkStage, linkPending, linkLate, linkReader, linkChan, linkAnswer,
                   linkJob, linkAssign, linkCancel, linkSeen, linkTold, linkLost, linkBreaks,
                   linkCancels>>

-----------------------------------------------------------------------------
\* A job that says cancelled while its runner is still at work is stopping.
LinkTerminal == {"stopping", "completed", "cancelled"}
Receiving == WireUp /\ linkReader[linkConn] = "reading"

\* Mutant of EnsureWatcher: the status of the acknowledgement counts as reported.
EnsureWatcher_Acked(t) ==
    IF linkWatch[t] = "off"
    THEN linkWatch' = [linkWatch EXCEPT ![t] = "on"] /\ linkSeen' = [linkSeen EXCEPT ![t] = linkJob[t]]
    ELSE UNCHANGED <<linkWatch, linkSeen>>

\* ensureWatcher: nothing happens if the entry of an ending watcher is still there.
EnsureWatcher(t) ==
    IF linkWatch[t] = "off"
    THEN linkWatch' = [linkWatch EXCEPT ![t] = "on"] /\ linkSeen' = [linkSeen EXCEPT ![t] = "none"]
    ELSE UNCHANGED <<linkWatch, linkSeen>>

\* assign_task starts a job; its acknowledgement may be lost, and then the watcher starts.
AssignTask(t) ==
    /\ Receiving
    /\ linkJob[t] = "none"
    /\ linkJob' = [linkJob EXCEPT ![t] = "queued"]
    /\ linkAssign' = [linkAssign EXCEPT ![t] = "ack"]
    /\ UNCHANGED <<linkSession, linkLine, linkCancel, linkWatch, linkSeen, linkTold, linkLost, linkCounts>>

AssignWatches(t) ==
    /\ linkAssign[t] = "ack"
    /\ linkAssign' = [linkAssign EXCEPT ![t] = "done"]
    /\ EnsureWatcher(t)
    /\ UNCHANGED <<linkSession, linkLine, linkJob, linkCancel, linkTold, linkLost, linkCounts>>

\* cancel_task: a job that has ended is acknowledged as it is, and watched again.
CancelTask(t) ==
    /\ Receiving
    /\ linkJob[t] # "none" /\ linkCancel[t] = "none"
    /\ linkCancels < MaxLinkCancels
    /\ linkCancels' = linkCancels + 1
    /\ linkJob' = [linkJob EXCEPT ![t] = CASE @ = "queued"  -> "cancelled"
                                           [] @ = "running" -> "stopping"
                                           [] OTHER         -> @]
    /\ linkCancel' = [linkCancel EXCEPT ![t] = "ack"]
    /\ UNCHANGED <<linkSession, linkLine, linkAssign, linkWatch, linkSeen, linkTold, linkLost,
                   linkStop, linkBreaks>>

CancelWatches(t) ==
    /\ linkCancel[t] = "ack"
    /\ linkCancel' = [linkCancel EXCEPT ![t] = "none"]
    /\ EnsureWatcher(t)
    /\ UNCHANGED <<linkSession, linkLine, linkJob, linkAssign, linkTold, linkLost, linkCounts>>

\* The job manager, as the watcher sees it: JobManager gives the details.
LinkJobRuns(t) ==
    /\ \/ linkJob[t] = "queued" /\ linkJob' = [linkJob EXCEPT ![t] = "running"]
       \/ linkJob[t] = "running" /\ linkJob' = [linkJob EXCEPT ![t] = "completed"]
       \/ linkJob[t] = "stopping" /\ \E s \in {"completed", "cancelled"} :
                                        linkJob' = [linkJob EXCEPT ![t] = s]
    /\ UNCHANGED <<linkSession, linkLine, linkAssign, linkCancel, linkWatch, linkSeen, linkTold,
                   linkLost, linkCounts>>

\* A tick of watchJob: a new status is reported once.  A result that cannot be sent is
\* logged; progress that cannot be sent ends the watcher.
WatchJob(t) ==
    LET s == linkJob[t]
        Goes(w) == linkWatch' = [linkWatch EXCEPT ![t] = w]
    IN  /\ linkWatch[t] = "on"
        /\ s # linkSeen[t]
        /\ linkSeen' = [linkSeen EXCEPT ![t] = s]
        /\ \/ /\ WireUp
              /\ linkTold' = IF s \in LinkTerminal THEN [linkTold EXCEPT ![t] = s] ELSE linkTold
              /\ Goes(IF s \in LinkTerminal THEN "ending" ELSE "on")
              /\ UNCHANGED linkLost
           \/ /\ ~WireUp
              /\ linkLost' = linkLost \cup {t}
              /\ \/ Connected /\ Goes(IF s \in LinkTerminal THEN "ending" ELSE "on")
                 \/ Goes("ending")
              /\ UNCHANGED linkTold
        /\ UNCHANGED <<linkSession, linkLine, linkJob, linkAssign, linkCancel, linkCounts>>

\* The deferred delete of c.watchers; a watcher ends too when it sees a status that it
\* has reported and that is terminal.
WatchEnds(t) ==
    /\ \/ linkWatch[t] = "ending"
       \/ linkWatch[t] = "on" /\ linkSeen[t] = linkJob[t] /\ linkJob[t] \in LinkTerminal
    /\ linkWatch' = [linkWatch EXCEPT ![t] = "off"]
    /\ UNCHANGED <<linkSession, linkLine, linkJob, linkAssign, linkCancel, linkSeen, linkTold,
                   linkLost, linkCounts>>

-----------------------------------------------------------------------------
LinkSessionStep == LinkDialFails \/ LinkBackoff \/ LinkAsk \/ LinkSend \/ LinkReceive \/ LinkLoop
LinkTaskStep(t) == AssignWatches(t) \/ CancelWatches(t) \/ WatchJob(t) \/ WatchEnds(t)

LinkNext ==
    \/ LinkDial \/ LinkSessionStep
    \/ GatewayAnswers \/ ReaderAnswers
    \/ \E l \in Links : LinkBreaks(l) \/ ReaderFails(l)
    \/ LinkCancelContext \/ LinkStop
    \/ \E t \in LinkTasks : AssignTask(t) \/ CancelTask(t) \/ LinkJobRuns(t) \/ LinkTaskStep(t)

LinkSpec == LinkInit /\ [][LinkNext]_linkVars

\* Goroutines run, a gateway that is reachable answers, and dialling succeeds in the end.
LinkFairness ==
    /\ WF_linkVars(LinkSessionStep) /\ SF_linkVars(LinkDial)
    /\ WF_linkVars(GatewayAnswers) /\ WF_linkVars(ReaderAnswers)
    /\ \A l \in Links : WF_linkVars(ReaderFails(l))

-----------------------------------------------------------------------------
\* A request waits and nobody is left to answer it.
Hung ==
    /\ linkAt = "wait" /\ linkChan = "empty"
    /\ Connected /\ linkReader[linkConn] = "gone"

\* However its connections break and its gateway fails, the worker registers again
\* (runSession reaches its heartbeats) or is shut down.  The one exception is that of the
\* code: a request made after failPending whose write went nowhere waits for ever, since
\* request listens neither to the reader nor to a clock.
LinkRecovers ==
    linkStage # Heartbeat ~> linkStage = Heartbeat \/ linkStop # "no" \/ (Hung /\ linkLate)

\* The gateway hears how a job ended, unless a report of the job failed or went nowhere:
\* watchJob, ensureWatcher and the two handlers that call it lose no result among
\* themselves, whatever cancels, ends and starts of watchers overlap.
ResultLostOnlyWithLink ==
    \A t \in LinkTasks :
        /\ linkJob[t] \in LinkTerminal
        /\ linkWatch[t] = "off" /\ linkAssign[t] = "done" /\ linkCancel[t] = "none"
        /\ linkStop = "no"
        => linkTold[t] \in LinkTerminal \/ t \in linkLost
=============================================================================
