------------------------------ MODULE ChatTurns ------------------------------
(***************************************************************************)
(* The turns of ONE chat (one session key) of an Engine: the local         *)
(* sessions and their busy flags, the prompt queue with its Running gate,  *)
(* the session-transition mutex, the interactive state (the live agent     *)
(* process of the chat) and the goroutines that work on them.              *)
(*                                                                         *)
(* core/prompt_queue.go, core/session.go and the turn lifecycle of         *)
(* core/engine.go.  Different chats share no state of this module; the     *)
(* lock on agent sessions that they do share is AgentTurnLock.             *)
(***************************************************************************)
EXTENDS Naturals, Sequences, FiniteSets, SequencesExt

CONSTANTS
  Users,         \* ordinary prompts: queue eligible (handleMessage)
  Commands,      \* custom commands, skills, unknown slash commands: never queued
  CronRuns,      \* firings of a cron prompt job in this chat
  Compactions,   \* /compress requests
  MaxSessions,   \* bound on the local sessions of the chat
  MaxQueueItems, \* maxPromptQueueItems
  MaxSwitches,   \* bound on /new and /switch
  MaxStops,      \* bound on /stop
  MaxEdits,      \* bound on /queue clear, delete, up, down
  MaxDeaths,     \* bound on agent processes that die on their own
  MaxFaults,     \* bound on failures: start errors, send errors, lost platforms
  None

Work == Users \cup Commands \cup CronRuns \cup Compactions
Queueable == Users \cup CronRuns   \* what a queue item may carry
Sessions == 1..MaxSessions
Procs == Work \X {1, 2}    \* a turn starts an agent process at most twice
Switcher == "switcher"     \* /new or /switch, as a holder of the transition mutex

ASSUME WorkAssumption ==
  /\ Users \cap Commands = {} /\ Users \cap CronRuns = {}
  /\ Users \cap Compactions = {} /\ Commands \cap CronRuns = {}
  /\ Commands \cap Compactions = {} /\ CronRuns \cap Compactions = {}
  /\ None \notin Work \cup Procs /\ Switcher \notin Work \cup {None}
ASSUME BoundAssumption ==
  /\ MaxSessions \in Nat \ {0} /\ MaxQueueItems \in Nat \ {0}
  /\ MaxSwitches \in Nat /\ MaxStops \in Nat /\ MaxEdits \in Nat
  /\ MaxDeaths \in Nat /\ MaxFaults \in Nat

VARIABLES
  pc,        \* where the goroutine that handles or runs each piece of work is
  sess,      \* the local session it works on
  snap,      \* AgentSessionIDSnapshot of its queue item
  use,       \* the agent process its turn talks to
  unlocking, \* handlers that queued their prompt and still hold the session
  known,     \* number of local sessions of the chat
  active,    \* the active local session
  busy,      \* Session.busy
  conv,      \* Session.AgentSessionID: the work whose process opened it, or None
  running,   \* promptQueueState.Running
  items,     \* promptQueueState.Items
  drains,    \* goroutines and timers about to call drainPromptQueue
  trans,     \* holder of the transition mutex
  istate,    \* interactiveStates[sessionKey]
  proc,      \* the agent processes
  sw,        \* the /new or /switch under way
  stop,      \* the /stop under way
  budget,    \* what is left of the bounds on the environment
  forced,    \* history: sessions whose busy flag /stop cleared under its holder
  straddled, \* history: work that was on its way to the agent during a switch
  order      \* history: prompts in the order in which they were accepted

gate  == <<running, items, drains>>
store == <<known, active, busy, conv>>
agent == <<istate, proc>>
turn  == <<sess, snap, use>>
cmds  == <<sw, stop, budget>>
hist  == <<forced, straddled, order>>
vars  == <<pc, turn, unlocking, store, gate, trans, agent, cmds, hist>>

\* interactiveStates holds no entry, or one whose agent session is nil.
NoState  == <<None, 0>>
NilAgent == <<None, 1>>

Finished == {"ran", "refused", "skipped", "cancelled", "dropped", "failed"}
\* A handler between reading the active session and its first TryLock.
Arriving == {"arrived", "sawBusy"}
\* A turn that holds the session and has not sent its prompt yet.
Starting == {"locked", "gated", "wantTurn", "haveTurn", "haveState", "restart", "lastTry"}
\* Everything a goroutine does while it is entitled to the session's busy flag.
Holding  == Starting \cup {"sent", "isolated", "giveUp", "full", "ending"}
Waiting  == {"queued", "popped", "inTransition", "checked", "retry", "failItem"}
Labels   == {"new", "cronLock", "convert", "unlocked"}
              \cup Arriving \cup Holding \cup Waiting \cup Finished

Idle == [at |-> "idle"]

Init ==
  /\ pc = [m \in Work |-> "new"]
  /\ sess = [m \in Work |-> 1]
  /\ snap = [m \in Work |-> None]
  /\ use = [m \in Work |-> NoState]
  /\ unlocking = {}
  /\ known = 1 /\ active = 1
  /\ busy = [s \in Sessions |-> FALSE]
  /\ conv = [s \in Sessions |-> None]
  /\ running = FALSE /\ items = <<>> /\ drains = 0
  /\ trans = None
  /\ istate = NoState
  /\ proc = [p \in Procs |-> [st |-> "none", conv |-> None, sess |-> 1]]
  /\ sw = Idle /\ stop = Idle
  /\ budget = [switches |-> MaxSwitches, stops |-> MaxStops, edits |-> MaxEdits,
               deaths |-> MaxDeaths, faults |-> MaxFaults]
  /\ forced = {} /\ straddled = {} /\ order = <<>>

-----------------------------------------------------------------------------
(* The queue: one critical section of promptQueueMu per operator.          *)

Full == Len(items) >= MaxQueueItems
Gated == running \/ items # <<>>   \* "if state.Running || len(state.Items) > 0"

\* enqueuePromptLocked, for an item that fits
PutLast(m) ==
  /\ items' = Append(items, m)
  /\ pc' = [pc EXCEPT ![m] = "queued"]

Accept(m) == order' = Append(order, m)

Spend(what) == /\ budget[what] > 0
               /\ budget' = [budget EXCEPT ![what] = @ - 1]

-----------------------------------------------------------------------------
(* handleMessage, executeCustomCommand, executeSkill, cmdCompress: up to   *)
(* the go statement that starts the turn.                                  *)

\* GetOrCreateActive and promptQueueKey; /compress first wants a live agent.
Arrive(m) ==
  /\ pc[m] = "new" /\ m \notin CronRuns
  /\ IF m \in Compactions /\ ~(istate \in Procs /\ proc[istate].st = "alive")
       THEN /\ pc' = [pc EXCEPT ![m] = "refused"]
            /\ UNCHANGED <<sess, snap>>
       ELSE /\ pc' = [pc EXCEPT ![m] = "arrived"]
            /\ sess' = [sess EXCEPT ![m] = active]
            /\ snap' = [snap EXCEPT ![m] = conv[active]]
  /\ UNCHANGED <<use, unlocking, store, gate, trans, agent, cmds, hist>>

\* Mutant of TryLockSession: a direct command does not look at the busy flag.
TryLockSession_CommandBarges(m) ==
  /\ pc[m] = "arrived"
  /\ IF busy[sess[m]] /\ m \notin Commands
       THEN /\ pc' = [pc EXCEPT ![m] = IF m \in Users THEN "sawBusy" ELSE "refused"]
            /\ UNCHANGED busy
       ELSE /\ busy' = [busy EXCEPT ![sess[m]] = TRUE]
            /\ pc' = [pc EXCEPT ![m] = IF m \in Compactions THEN "wantTurn" ELSE "locked"]
  /\ UNCHANGED <<turn, unlocking, known, active, conv, gate, trans, agent, cmds, hist>>

\* session.TryLock(); on a busy session only an ordinary prompt goes on.
TryLockSession(m) ==
  /\ pc[m] = "arrived"
  /\ IF busy[sess[m]]
       THEN /\ pc' = [pc EXCEPT ![m] = IF m \in Users THEN "sawBusy" ELSE "refused"]
            /\ UNCHANGED busy
       ELSE /\ busy' = [busy EXCEPT ![sess[m]] = TRUE]
            /\ pc' = [pc EXCEPT ![m] = IF m \in Compactions THEN "wantTurn" ELSE "locked"]
  /\ UNCHANGED <<turn, unlocking, known, active, conv, gate, trans, agent, cmds, hist>>

\* enqueuePrompt on the busy path: no drain follows.
EnqueueBehindBusy(m) ==
  /\ pc[m] = "sawBusy"
  /\ IF Full THEN /\ pc' = [pc EXCEPT ![m] = "refused"]
                  /\ UNCHANGED <<items, order>>
             ELSE PutLast(m) /\ Accept(m)
  /\ UNCHANGED <<turn, unlocking, store, running, drains, trans, agent, cmds, forced, straddled>>

\* beginPromptTurnOrEnqueue
BeginOrEnqueue(m) ==
  /\ pc[m] = "locked" /\ m \in Users
  /\ \/ /\ ~Gated
        /\ running' = TRUE
        /\ pc' = [pc EXCEPT ![m] = "gated"]
        /\ Accept(m)
        /\ UNCHANGED <<items, unlocking>>
     \/ /\ Gated /\ ~Full
        /\ PutLast(m) /\ Accept(m)
        /\ unlocking' = unlocking \cup {m}
        /\ UNCHANGED running
     \/ /\ Gated /\ Full
        /\ pc' = [pc EXCEPT ![m] = "full"]
        /\ UNCHANGED <<items, unlocking, running, order>>
  /\ UNCHANGED <<turn, store, drains, trans, agent, cmds, forced, straddled>>

\* The handler of a prompt it queued behind the gate: session.Unlock(), go drain.
HandlerUnlock(m) ==
  /\ m \in unlocking
  /\ unlocking' = unlocking \ {m}
  /\ busy' = [busy EXCEPT ![sess[m]] = FALSE]
  /\ drains' = drains + 1
  /\ UNCHANGED <<pc, turn, known, active, conv, running, items, trans, agent, cmds, hist>>

\* The handler of a prompt that the full queue or an upgrade refused: session.Unlock().
RefuseFull(m) ==
  /\ pc[m] = "full"
  /\ pc' = [pc EXCEPT ![m] = "refused"]
  /\ busy' = [busy EXCEPT ![sess[m]] = FALSE]
  /\ UNCHANGED <<turn, unlocking, known, active, conv, gate, trans, agent, cmds, hist>>

\* The second agentUpgradeBlocksNewTurns test: the turn is abandoned, or goes on.
PassUpgradeGate(m) ==
  /\ pc[m] = "gated"
  /\ \/ /\ pc' = [pc EXCEPT ![m] = "wantTurn"]
        /\ UNCHANGED budget
     \/ /\ Spend("faults")
        /\ pc' = [pc EXCEPT ![m] = "ending"]
  /\ UNCHANGED <<turn, unlocking, store, gate, trans, agent, sw, stop, hist>>

\* processInteractiveMessageWithQueueLifecycle: the gate is set unconditionally,
\* unless an agent upgrade turned an unknown slash command away.
MarkRunning(m) ==
  /\ pc[m] = "locked" /\ m \in Commands
  /\ \/ /\ running' = TRUE
        /\ pc' = [pc EXCEPT ![m] = "wantTurn"]
        /\ UNCHANGED budget
     \/ /\ Spend("faults")
        /\ pc' = [pc EXCEPT ![m] = "full"]
        /\ UNCHANGED running
  /\ UNCHANGED <<turn, unlocking, store, items, drains, trans, agent, sw, stop, hist>>

-----------------------------------------------------------------------------
(* ExecuteCronJob: the turn of a cron prompt job.                          *)

\* beginCronTurnOrEnqueue
CronBegin(m) ==
  /\ pc[m] = "new" /\ m \in CronRuns
  /\ \/ /\ ~Gated
        /\ running' = TRUE
        /\ pc' = [pc EXCEPT ![m] = "cronLock"]
        /\ UNCHANGED <<items, snap>>
     \/ /\ Gated /\ ~Full
        /\ PutLast(m)
        /\ snap' = [snap EXCEPT ![m] = conv[active]]
        /\ UNCHANGED running
     \/ /\ Gated /\ Full
        /\ pc' = [pc EXCEPT ![m] = "refused"]
        /\ UNCHANGED <<items, snap, running>>
  /\ UNCHANGED <<sess, use, unlocking, store, drains, trans, agent, cmds, hist>>

\* It holds the gate; now the busy flag of the active session.
CronTryLock(m) ==
  /\ pc[m] = "cronLock"
  /\ IF busy[active]
       THEN /\ pc' = [pc EXCEPT ![m] = "convert"]
            /\ UNCHANGED <<sess, busy>>
       ELSE /\ pc' = [pc EXCEPT ![m] = "isolated"]
            /\ sess' = [sess EXCEPT ![m] = active]
            /\ busy' = [busy EXCEPT ![active] = TRUE]
  /\ UNCHANGED <<snap, use, unlocking, known, active, conv, gate, trans, agent, cmds, hist>>

\* A direct turn slipped in: give the gate back, queue the run (the error of a
\* full queue is dropped) and let a retry timer drain it.  When the direct turn has
\* ended meanwhile, completePromptTurn has deleted the idle queue: nothing is queued.
CronConvert(m) ==
  /\ pc[m] = "convert"
  /\ running' = FALSE
  /\ drains' = drains + 1
  /\ IF Full \/ ~Gated THEN /\ pc' = [pc EXCEPT ![m] = "dropped"]
                            /\ UNCHANGED <<items, snap>>
                       ELSE /\ PutLast(m)
                            /\ snap' = [snap EXCEPT ![m] = None]
  /\ UNCHANGED <<sess, use, unlocking, store, trans, agent, cmds, hist>>

\* runCronIsolatedTurn returns (its own agent process never enters istate).
CronRunEnds(m) ==
  /\ pc[m] = "isolated"
  /\ pc' = [pc EXCEPT ![m] = "ending"]
  /\ UNCHANGED <<turn, unlocking, store, gate, trans, agent, cmds, hist>>

-----------------------------------------------------------------------------
(* Draining the queue.                                                     *)

\* drainPromptQueue / popNextQueuedPrompt
Drain ==
  /\ drains > 0
  /\ drains' = drains - 1
  /\ IF running \/ items = <<>>
       THEN UNCHANGED <<pc, items, running>>
       ELSE /\ \E m \in Queueable : /\ m = Head(items)
                                    /\ pc' = [pc EXCEPT ![m] = "popped"]
            /\ items' = Tail(items)
            /\ running' = TRUE
  /\ UNCHANGED <<turn, unlocking, store, trans, agent, cmds, hist>>

\* startQueuedPrompt: lockSessionTransition.  startQueuedCronRun takes no lock,
\* it looks its job up: the job may be gone or disabled by now.
EnterStart(m) ==
  /\ pc[m] = "popped"
  /\ \/ /\ m \in Users /\ trans = None
        /\ trans' = m
        /\ pc' = [pc EXCEPT ![m] = "inTransition"]
        /\ UNCHANGED <<sess, budget>>
     \/ /\ m \in CronRuns
        /\ pc' = [pc EXCEPT ![m] = "checked"]
        /\ sess' = [sess EXCEPT ![m] = active]
        /\ UNCHANGED <<trans, budget>>
     \/ /\ m \in CronRuns /\ Spend("faults")
        /\ pc' = [pc EXCEPT ![m] = "failItem"]
        /\ UNCHANGED <<trans, sess>>
  /\ UNCHANGED <<snap, use, unlocking, store, gate, agent, sw, stop, hist>>

\* The item must still belong to the active session and its agent session.
CheckItem(m) ==
  /\ pc[m] = "inTransition"
  /\ pc' = [pc EXCEPT ![m] =
              IF active # sess[m] \/ (snap[m] # None /\ conv[active] # snap[m])
                THEN "failItem" ELSE "checked"]
  /\ UNCHANGED <<turn, unlocking, store, gate, trans, agent, cmds, hist>>

\* session.TryLock() of a dequeued item; its platform may be gone.
StartItem(m) ==
  /\ pc[m] = "checked"
  /\ IF busy[sess[m]]
       THEN /\ pc' = [pc EXCEPT ![m] = "retry"]
            /\ UNCHANGED <<busy, budget>>
       ELSE /\ busy' = [busy EXCEPT ![sess[m]] = TRUE]
            /\ \/ /\ pc' = [pc EXCEPT ![m] = IF m \in Users THEN "wantTurn" ELSE "isolated"]
                  /\ UNCHANGED budget
               \/ /\ Spend("faults")
                  /\ pc' = [pc EXCEPT ![m] = "giveUp"]
  /\ UNCHANGED <<turn, unlocking, known, active, conv, gate, trans, agent, sw, stop, hist>>

\* Mutant of ReleaseTransition: an early return that skips the unlock.
ReleaseTransition_Never(m) == UNCHANGED trans

ReleaseTransition(m) == trans' = IF trans = m THEN None ELSE trans

\* Mutants of RequeueFront: the gate stays shut; the item goes to the back.
RequeueFront_KeepsGate(m) ==
  /\ pc[m] = "retry"
  /\ items' = <<m>> \o items
  /\ drains' = drains + 1
  /\ pc' = [pc EXCEPT ![m] = "queued"]
  /\ ReleaseTransition(m)
  /\ UNCHANGED <<running, turn, unlocking, store, agent, cmds, hist>>
RequeueFront_ToBack(m) ==
  /\ pc[m] = "retry"
  /\ running' = FALSE
  /\ items' = Append(items, m)
  /\ drains' = drains + 1
  /\ pc' = [pc EXCEPT ![m] = "queued"]
  /\ ReleaseTransition(m)
  /\ UNCHANGED <<turn, unlocking, store, agent, cmds, hist>>

\* requeuePromptFront, which checks no limit, and schedulePromptQueueRetry
RequeueFront(m) ==
  /\ pc[m] = "retry"
  /\ running' = FALSE
  /\ items' = <<m>> \o items
  /\ drains' = drains + 1
  /\ pc' = [pc EXCEPT ![m] = "queued"]
  /\ ReleaseTransition(m)
  /\ UNCHANGED <<turn, unlocking, store, agent, cmds, hist>>

GiveUp(m) ==
  /\ pc[m] = "giveUp"
  /\ busy' = [busy EXCEPT ![sess[m]] = FALSE]
  /\ pc' = [pc EXCEPT ![m] = "failItem"]
  /\ UNCHANGED <<turn, unlocking, known, active, conv, gate, trans, agent, cmds, hist>>

\* failQueuedPrompt: the gate is opened, the chat told, another drain started.
FailItem(m) ==
  /\ pc[m] = "failItem"
  /\ running' = FALSE
  /\ drains' = drains + 1
  /\ pc' = [pc EXCEPT ![m] = "skipped"]
  /\ ReleaseTransition(m)
  /\ UNCHANGED <<turn, unlocking, store, items, agent, cmds, hist>>

-----------------------------------------------------------------------------
(* processInteractiveMessageWithStartSignal and cmdCompress's goroutine.   *)

\* lockAgentSessionTurn returns (AgentTurnLock says when).
AcquireTurn(m) ==
  /\ pc[m] = "wantTurn"
  /\ pc' = [pc EXCEPT ![m] = "haveTurn"]
  /\ UNCHANGED <<turn, unlocking, store, gate, trans, agent, cmds, hist>>

Alive(p) == p \in Procs /\ proc[p].st = "alive"

\* getOrCreateInteractiveState: the live process whatever session it was started
\* for, else a new one that resumes the session's agent session or opens its own.
TakeState(m) ==
  /\ pc[m] \in {"haveTurn", "restart"}
  /\ LET p    == <<m, IF pc[m] = "restart" THEN 2 ELSE 1>>
         next == IF pc[m] = "restart" THEN "lastTry" ELSE "haveState"
     IN
     \/ /\ Alive(istate)
        /\ use' = [use EXCEPT ![m] = istate]
        /\ pc' = [pc EXCEPT ![m] = next]
        /\ UNCHANGED <<agent, budget>>
     \/ /\ ~Alive(istate)
        /\ istate' = p
        /\ proc' = [proc EXCEPT ![p] =
                      [st |-> "alive", sess |-> sess[m],
                       conv |-> IF conv[sess[m]] = None THEN m ELSE conv[sess[m]]]]
        /\ use' = [use EXCEPT ![m] = p]
        /\ pc' = [pc EXCEPT ![m] = next]
        /\ UNCHANGED budget
     \/ /\ ~Alive(istate) /\ Spend("faults")
        /\ istate' = NilAgent
        /\ pc' = [pc EXCEPT ![m] = "ending"]
        /\ UNCHANGED <<use, proc>>
  /\ straddled' = IF sw.at = "switch" THEN straddled \cup {m} ELSE straddled
  /\ UNCHANGED <<sess, snap, unlocking, store, gate, trans, sw, stop, forced, order>>

\* bindAgentSessionID: only an empty id is filled in.
Bound(m) == [conv EXCEPT ![sess[m]] = IF @ = None THEN proc[use[m]].conv ELSE @]

\* cleanupInteractiveTurn: does nothing unless the map still holds this state.
CleanupTurn(m, reset) ==
  IF istate = use[m]
    THEN /\ istate' = NoState
         /\ proc' = [proc EXCEPT ![use[m]].st = "stopped"]
         /\ conv' = IF reset THEN [conv EXCEPT ![sess[m]] = None] ELSE conv
    ELSE UNCHANGED <<istate, proc, conv>>

\* agentSession.Send succeeds: signalStarted lets a waiting transition proceed.
\* The agent's id may be known at once or only with its first event.
SendPrompt(m) ==
  /\ pc[m] \in {"haveState", "lastTry"} /\ Alive(use[m])
  /\ conv' \in {conv, Bound(m)}
  /\ pc' = [pc EXCEPT ![m] = "sent"]
  /\ ReleaseTransition(m)
  /\ UNCHANGED <<turn, unlocking, known, active, busy, gate, agent, cmds, hist>>

\* Send fails and the turn ends: session not found (reset), an error of a live
\* process (which only /compress and the last try clean up after).
SendFails(m) ==
  /\ pc[m] \in {"haveState", "lastTry"}
  /\ Alive(use[m]) => Spend("faults")
  /\ ~Alive(use[m]) => /\ pc[m] = "lastTry" \/ m \in Compactions
                       /\ UNCHANGED budget
  /\ \/ \E reset \in BOOLEAN :
          /\ reset \/ pc[m] = "lastTry" \/ m \in Compactions
          /\ CleanupTurn(m, reset)
     \/ /\ pc[m] = "haveState" /\ m \notin Compactions
        /\ UNCHANGED <<istate, proc, conv>>
  /\ pc' = [pc EXCEPT ![m] = "ending"]
  /\ UNCHANGED <<turn, unlocking, known, active, busy, gate, trans, sw, stop, hist>>

\* Send fails and the process is gone: cleanup, then one restart.
SendRestarts(m) ==
  /\ pc[m] = "haveState" /\ ~Alive(use[m]) /\ m \notin Compactions
  /\ CleanupTurn(m, FALSE)
  /\ pc' = [pc EXCEPT ![m] = "restart"]
  /\ UNCHANGED <<turn, unlocking, known, active, busy, gate, trans, cmds, hist>>

\* processInteractiveEvents: the result of the turn, perhaps still in the channel of
\* a process that has died or been stopped since.
TurnResult(m) ==
  /\ pc[m] = "sent"
  /\ conv' = IF m \in Compactions THEN conv ELSE Bound(m)
  /\ pc' = [pc EXCEPT ![m] = "ending"]
  /\ UNCHANGED <<turn, unlocking, known, active, busy, gate, trans, agent, cmds, hist>>

\* An error result, the exit of the process, a timeout, or state.stopped.
TurnFails(m) ==
  /\ pc[m] = "sent"
  /\ \/ /\ Alive(use[m]) /\ Spend("faults")
        /\ \E reset \in BOOLEAN : CleanupTurn(m, reset)
     \/ /\ ~Alive(use[m])
        /\ CleanupTurn(m, FALSE)
        /\ UNCHANGED budget
  /\ pc' = [pc EXCEPT ![m] = "ending"]
  /\ UNCHANGED <<turn, unlocking, known, active, busy, gate, trans, sw, stop, hist>>

\* session.Unlock(), which clears the flag whoever set it; then signalStarted.
EndUnlock(m) ==
  /\ pc[m] = "ending"
  /\ busy' = [busy EXCEPT ![sess[m]] = FALSE]
  /\ pc' = [pc EXCEPT ![m] = IF m \in Compactions THEN "ran" ELSE "unlocked"]
  /\ ReleaseTransition(m)
  /\ UNCHANGED <<turn, unlocking, known, active, conv, gate, agent, cmds, hist>>

\* Mutant of CompleteTurn: nobody drains the queue after the turn.
CompleteTurn_NoDrain(m) ==
  /\ pc[m] = "unlocked"
  /\ running' = FALSE
  /\ pc' = [pc EXCEPT ![m] = "ran"]
  /\ UNCHANGED <<drains, turn, unlocking, store, items, trans, agent, cmds, hist>>

\* completePromptTurn, then drainPromptQueue.
CompleteTurn(m) ==
  /\ pc[m] = "unlocked"
  /\ running' = FALSE
  /\ drains' = drains + 1
  /\ pc' = [pc EXCEPT ![m] = "ran"]
  /\ UNCHANGED <<turn, unlocking, store, items, trans, agent, cmds, hist>>

-----------------------------------------------------------------------------
(* Commands that replace or end what the turns work on.                    *)

\* cleanupInteractiveState: the entry goes, its process is stopped.
CleanupState ==
  /\ istate' = NoState
  /\ proc' = IF istate \in Procs THEN [proc EXCEPT ![istate].st = "stopped"] ELSE proc

\* Mutant of SwitchBegin: /new and /switch do not wait for a starting turn.
SwitchBegin_NoLock ==
  /\ sw = Idle /\ Spend("switches")
  /\ \/ /\ known < MaxSessions
        /\ sw' = [at |-> "cleanup", new |-> TRUE, to |-> known + 1, conv |-> None]
     \/ \E s \in 1..known :
          sw' = [at |-> "cleanup", new |-> FALSE, to |-> s, conv |-> conv[s]]
  /\ UNCHANGED <<pc, turn, unlocking, store, gate, trans, agent, stop, hist>>

\* cmdNew, and cmdSwitch / switchSessionByID with the session they matched (they
\* cancel by the agent session id it had then).
SwitchBegin ==
  /\ sw = Idle /\ Spend("switches") /\ trans = None
  /\ trans' = Switcher
  /\ \/ /\ known < MaxSessions
        /\ sw' = [at |-> "cleanup", new |-> TRUE, to |-> known + 1, conv |-> None]
     \/ \E s \in 1..known :
          sw' = [at |-> "cleanup", new |-> FALSE, to |-> s, conv |-> conv[s]]
  /\ UNCHANGED <<pc, turn, unlocking, store, gate, agent, stop, hist>>

SwitchCleanup ==
  /\ sw.at = "cleanup"
  /\ CleanupState
  /\ sw' = [sw EXCEPT !.at = "switch"]
  /\ UNCHANGED <<pc, turn, unlocking, store, gate, trans, stop, budget, hist>>

\* SessionManager.NewSession / SwitchSession
SwitchSession ==
  /\ sw.at = "switch"
  /\ active' = sw.to
  /\ straddled' = IF sw.to = active THEN straddled
                  ELSE straddled \cup {m \in Work : pc[m] \in Arriving \cup Starting}
  /\ known' = IF sw.new THEN sw.to ELSE known
  /\ sw' = [sw EXCEPT !.at = "cancel"]
  /\ UNCHANGED <<pc, turn, unlocking, busy, conv, gate, trans, agent, stop, budget, forced, order>>

\* cancelQueuedPromptsForSessionSwitch keeps an item of the new session only.
Kept(m) == /\ m \in CronRuns \/ sess[m] = sw.to
           /\ snap[m] # None /\ snap[m] = sw.conv
KeptPositions == {i \in DOMAIN items : Kept(items[i])}

\* f lists the positions that stay, in order.
SwitchCancel ==
  /\ sw.at = "cancel"
  /\ \E f \in [1..Cardinality(KeptPositions) -> KeptPositions] :
       /\ \A i, j \in DOMAIN f : i < j => f[i] < f[j]
       /\ items' = [i \in DOMAIN f |-> items[f[i]]]
  /\ pc' = [m \in Work |-> IF pc[m] = "queued" /\ ~Kept(m) THEN "cancelled" ELSE pc[m]]
  /\ sw' = Idle
  /\ trans' = None
  /\ UNCHANGED <<turn, unlocking, store, running, drains, agent, stop, budget, hist>>

\* cmdStop: with an interactive state it is cleaned up (a quiet chat gets an
\* entry without agent back); without one the busy flag is looked at.
StopBegin ==
  /\ stop = Idle /\ Spend("stops")
  /\ IF istate = NoState
       THEN /\ stop' = [at |-> "try", sess |-> active]
            /\ UNCHANGED agent
       ELSE /\ CleanupState
            /\ stop' = [at |-> "quiet", sess |-> active]
  /\ UNCHANGED <<pc, turn, unlocking, store, gate, trans, sw, hist>>

StopKeepQuiet ==
  /\ stop.at = "quiet"
  /\ istate' \in {istate, IF istate = NoState THEN NilAgent ELSE istate}
  /\ stop' = Idle
  /\ UNCHANGED <<pc, turn, unlocking, store, gate, trans, proc, sw, budget, hist>>

StopTryLock ==
  /\ stop.at = "try"
  /\ IF busy[stop.sess]
       THEN /\ stop' = [stop EXCEPT !.at = "gate"]
            /\ UNCHANGED busy
       ELSE /\ stop' = [stop EXCEPT !.at = "locked"]
            /\ busy' = [busy EXCEPT ![stop.sess] = TRUE]
  /\ UNCHANGED <<pc, turn, unlocking, known, active, conv, gate, trans, agent, sw, budget, hist>>

StopUnlock ==
  /\ stop.at = "locked"
  /\ busy' = [busy EXCEPT ![stop.sess] = FALSE]
  /\ stop' = Idle
  /\ UNCHANGED <<pc, turn, unlocking, known, active, conv, gate, trans, agent, sw, budget, hist>>

\* groupQueueRunning: a running queue means the session is held for a reason.
StopSeesGate ==
  /\ stop.at = "gate"
  /\ stop' = IF running THEN Idle ELSE [stop EXCEPT !.at = "force"]
  /\ UNCHANGED <<pc, turn, unlocking, store, gate, trans, agent, sw, budget, hist>>

\* "stale busy session without interactive state; forcing unlock"
StopForcesUnlock ==
  /\ stop.at = "force"
  /\ forced' = forced \cup {stop.sess}
  /\ busy' = [busy EXCEPT ![stop.sess] = FALSE]
  /\ stop' = Idle
  /\ UNCHANGED <<pc, turn, unlocking, known, active, conv, gate, trans, agent, sw, budget, straddled, order>>

\* queueAction: clear, delete or skip an item, move it up or down.
QueueClear ==
  /\ items # <<>> /\ Spend("edits")
  /\ items' = <<>>
  /\ pc' = [m \in Work |-> IF pc[m] = "queued" THEN "cancelled" ELSE pc[m]]
  /\ UNCHANGED <<turn, unlocking, store, running, drains, trans, agent, sw, stop, hist>>

QueueDelete ==
  /\ Spend("edits")
  /\ \E i \in DOMAIN items :
       /\ items' = RemoveAt(items, i)
       /\ pc' = [pc EXCEPT ![items[i]] = "cancelled"]
  /\ UNCHANGED <<turn, unlocking, store, running, drains, trans, agent, sw, stop, hist>>

QueueMove ==
  /\ Spend("edits")
  /\ \E i \in DOMAIN items, j \in DOMAIN items :
       /\ j = i + 1   \* "down i" and "up j" swap the same two items
       /\ items' = [items EXCEPT ![i] = items[j], ![j] = items[i]]
  /\ UNCHANGED <<pc, turn, unlocking, store, running, drains, trans, agent, sw, stop, hist>>

\* The agent process of the chat dies on its own.
ProcessDies ==
  /\ Alive(istate) /\ Spend("deaths")
  /\ proc' = [proc EXCEPT ![istate].st = "dead"]
  /\ UNCHANGED <<pc, turn, unlocking, store, gate, trans, istate, sw, stop, hist>>

-----------------------------------------------------------------------------
Handle(m) == \/ Arrive(m) \/ CronBegin(m)
Step(m) ==
  \/ TryLockSession(m) \/ EnqueueBehindBusy(m) \/ BeginOrEnqueue(m)
  \/ RefuseFull(m) \/ PassUpgradeGate(m) \/ MarkRunning(m)
  \/ CronTryLock(m) \/ CronConvert(m) \/ CronRunEnds(m)
  \/ EnterStart(m) \/ CheckItem(m) \/ StartItem(m) \/ RequeueFront(m)
  \/ GiveUp(m) \/ FailItem(m)
  \/ AcquireTurn(m) \/ TakeState(m) \/ SendPrompt(m) \/ SendFails(m)
  \/ SendRestarts(m) \/ TurnResult(m) \/ TurnFails(m) \/ EndUnlock(m)
  \/ CompleteTurn(m)
SwitchStep == SwitchCleanup \/ SwitchSession \/ SwitchCancel
StopStep == \/ StopKeepQuiet \/ StopTryLock \/ StopUnlock \/ StopSeesGate
            \/ StopForcesUnlock
Command == SwitchBegin \/ StopBegin \/ QueueClear \/ QueueDelete \/ QueueMove

Next == \/ \E m \in Work : Handle(m) \/ Step(m) \/ HandlerUnlock(m)
        \/ Drain \/ SwitchStep \/ StopStep \/ Command \/ ProcessDies

Spec == Init /\ [][Next]_vars

\* Goroutines that can run do run, and agents end their turns (the engine's
\* timeouts see to it, while no permission is open: the turns here are those
\* whose permissions are answered); nothing makes users, timers or faults act.
FairSpec ==
  /\ Spec
  /\ \A m \in Work : WF_vars(Step(m)) /\ WF_vars(HandlerUnlock(m))
  /\ WF_vars(Drain) /\ WF_vars(SwitchStep) /\ WF_vars(StopStep)

-----------------------------------------------------------------------------
(* Correctness.                                                            *)

ProcTuple == [st : {"none", "alive", "dead", "stopped"},
              conv : Work \cup {None}, sess : Sessions]
SwitchState == {Idle} \cup [at : {"cleanup", "switch", "cancel"}, new : BOOLEAN,
                            to : Sessions, conv : Work \cup {None}]
StopState == {Idle} \cup [at : {"quiet", "try", "locked", "gate", "force"},
                          sess : Sessions]

\* Every variable has its type.
TypeOK ==
  /\ pc \in [Work -> Labels]
  /\ sess \in [Work -> Sessions]
  /\ snap \in [Work -> Work \cup {None}]
  /\ use \in [Work -> Procs \cup {NoState}]
  /\ unlocking \in SUBSET Work
  /\ known \in Sessions /\ active \in 1..known
  /\ busy \in [Sessions -> BOOLEAN]
  /\ conv \in [Sessions -> Work \cup {None}]
  /\ running \in BOOLEAN /\ items \in Seq(Work) /\ drains \in Nat
  /\ trans \in Work \cup {None, Switcher}
  /\ istate \in Procs \cup {NoState, NilAgent}
  /\ proc \in [Procs -> ProcTuple]
  /\ sw \in SwitchState /\ stop \in StopState
  /\ budget \in [{"switches", "stops", "edits", "deaths", "faults"} -> Nat]
  /\ forced \in SUBSET Sessions /\ straddled \in SUBSET Work /\ order \in Seq(Work)

InTurn(m) == pc[m] \in Holding
\* Who is entitled to the busy flag of session s: turns and handlers on their way
\* to one, handlers about to unlock, and /stop while it probes.
Holders(s) == {<<"turn", m>> : m \in {x \in Work : InTurn(x) /\ sess[x] = s}}
                \cup {<<"handler", m>> : m \in {x \in unlocking : sess[x] = s}}
                \cup {<<"stop", None>> : x \in {y \in {1} : stop.at = "locked"
                                                            /\ stop.sess = s}}

\* Session.busy serializes the turns of a local session (TryLock / Unlock): two
\* goroutines never work on one session, unless /stop's recovery path has cleared
\* the flag under its holder.
SessionSerial ==
  \A s \in Sessions \ forced :
    \A a, b \in Holders(s) : a = b

\* The pieces of work that run under the Running gate.
Gatekeepers == {m \in Queueable :
                  pc[m] \in {"gated", "wantTurn", "haveTurn", "haveState", "restart",
                             "lastTry", "sent", "isolated", "giveUp", "ending",
                             "unlocked", "cronLock", "convert", "popped",
                             "inTransition", "checked", "retry", "failItem"}}

\* No custom command or skill has arrived; these go past the queue.
NoCommandYet == \A x \in Commands : pc[x] = "new"

\* "a cron turn and a user turn in the same chat share one FIFO and one Running
\* gate, so they run one at a time" (promptQueueKey): as long as no direct command
\* sets the gate, it is set exactly while one of them runs, across /new, /switch
\* and /stop too.
GateHeldByOne ==
  NoCommandYet => /\ \A a, b \in Gatekeepers : a = b
                  /\ running <=> Gatekeepers # {}

\* requeuePromptFront ignores maxPromptQueueItems: the queue may exceed it, by the
\* one item that was being started.
QueueBounded ==
  NoCommandYet => Len(items) + Cardinality({m \in Work : pc[m] = "retry"})
                    <= MaxQueueItems + 1

\* An item is in the queue exactly when its work waits there, and only once.
QueueMatchesWork ==
  /\ \A m \in Work : pc[m] = "queued" <=> \E i \in DOMAIN items : items[i] = m
  /\ \A i, j \in DOMAIN items : items[i] = items[j] => i = j

Accepted(m) == \E i \in DOMAIN order : order[i] = m
Before(a, b) == \E i, j \in DOMAIN order : i < j /\ order[i] = a /\ order[j] = b
Starts(m) == pc[m] # "wantTurn" /\ pc'[m] = "wantTurn"

\* "Execute queued prompts in FIFO order by default": a prompt never starts while one
\* that was accepted earlier waits, unless a direct command clears the gate under the
\* prompts or /queue up and down reorder them.
FifoWithoutCommands == [][NoCommandYet =>
  \A a, b \in Users : Starts(b) /\ Before(a, b) /\ budget.edits = MaxEdits
                        => pc[a] \notin Waiting]_vars

\* A dequeued prompt reaches the agent while its local session is still the active
\* one: /new and /switch wait for it (lockSessionTransition, signalStarted).
QueuedSendsToActive ==
  [][\A m \in Users : trans = m /\ pc[m] # "sent" /\ pc'[m] = "sent"
                        => sess[m] = active]_vars

\* Between switches the live process of the chat was started for the active local
\* session, unless work was already on its way to the agent when the switch came.
ProcessOfActiveSession ==
  sw = Idle /\ straddled = {} /\ Alive(istate) => proc[istate].sess = active

\* "Before this point, switching could let this state be created after cleanup and
\* then reused by the newly active local session": a prompt is only sent to a
\* process that was started for its own local session.
SentToOwnProcess ==
  \A m \in Work : pc[m] = "sent" => proc[use[m]].sess = sess[m]

\* "don't force-unlock that, it would break per-chat serialization and let user
\* work overlap the running cron turn": /stop never frees a session that a cron
\* run holds.
StopSparesCron ==
  [][stop.at = "force" /\ stop' = Idle
       => ~\E m \in CronRuns : pc[m] = "isolated" /\ sess[m] = stop.sess]_vars

\* errCronEnqueued "signals a cron run was queued": a cron run that finds its session
\* busy joins the queue.
ConvertedRunIsQueued ==
  [][\A m \in CronRuns : pc[m] = "convert" /\ pc'[m] # "convert"
                           => pc'[m] = "queued"]_vars

\* A queued prompt that anything is going to drain leaves the queue.
AwakeQueueDrains ==
  \A m \in Work : (pc[m] = "queued" /\ (running \/ drains > 0)) ~> (pc[m] # "queued")

\* "Current turn completion automatically starts the next queued prompt": whoever
\* kept the session busy, a queued prompt does not stay queued for ever.
QueuedPromptsLeave == \A m \in Users : pc[m] = "queued" ~> pc[m] # "queued"

\* Everything that is started comes to an end or waits in the queue: no two of the
\* busy flag, the gate and the transition mutex block each other for ever.
WorkComesToRest ==
  \A m \in Work : pc[m] # "new" ~> pc[m] \in Finished \cup {"queued"}

\* /new and /switch get the transition mutex back from a starting turn.
TransitionReleased == trans # None ~> trans = None
=============================================================================
