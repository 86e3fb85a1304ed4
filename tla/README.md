# echo-client: specifications

echo-client connects messaging platforms (Feishu, Telegram, Slack, ...) to coding
agents that run as subprocesses (Claude Code, Codex, Gemini, ...). One `Engine`
(`src/core/engine.go`) serves one project: it takes messages of many chats, gives each
chat an agent process, and keeps the turns of a chat in order. Around it are a cron
scheduler, a job manager that works for a remote gateway, the stores that survive a
restart, the adapters of platforms and agents, and the code that updates agents and the
service itself. This directory holds TLA+ models of these parts, the TLC configurations
that check them, and proofs that TLAPS checks.

    tlc -config chats.cfg MCChatTurns
    tlapm AgentTurnLock_proofs.tla

`PROJECT.json` lists, for every definition, the source lines that it models, and every
hazard of the code with the properties about it. Paths below without a directory are
relative to `src/core/`.

## The system

| component | state | operations | module |
|---|---|---|---|
| local sessions (`session.go`) | per chat: sessions, the active one; per session: `busy`, `AgentSessionID` | `GetOrCreateActive`, `NewSession`, `SwitchSession`, `TryLock`, `Unlock` | `ChatTurns`, `SessionStore` |
| prompt queue (`prompt_queue.go`) | per chat: `Items`, `Running` | begin or enqueue, pop, requeue, fail, complete, retry timers, `/queue` edits, cancel on switch | `ChatTurns` |
| interactive state (`engine.go`) | per chat: the live agent process | get or create, cleanup, restart, Send, events | `ChatTurns`, `TurnEvents` |
| session transition (`prompt_queue.go`) | per chat: one mutex | held by `/new`, `/switch` and by a starting queued turn until its prompt is sent | `ChatTurns` |
| agent session turn locks (`engine.go`) | per engine: `agentSessionTurns` (id -> counted lock), `agentSessionBindMu` | lock, `Bind`, `Unlock` | `AgentTurnLock` |
| permission requests (`interaction.go`, `engine.go`) | per state: `pending`, `approveAll`; per chat: the open prompt | ask, answer by text or button, resolve, `/stop` | `TurnEvents` |
| previews and progress (`streaming.go`, `progress_compact.go`) | one message, its text, a timer | append, flush, freeze, finish | `StreamPreview` |
| attachments, collections, voice (`collect.go`, `engine.go`) | per chat: what waits for a request | store, take, flush, expire, confirm, cancel | `Intake` |
| session store (`session.go`) | snapshots on disk | save, load | `SessionStore` |
| cron (`cron.go`, `engine.go`) | store of jobs, scheduler entries | add, edit, enable, disable, delete, fire, mark | `CronScheduler`; a run: `ChatTurns`, `SessionStart` |
| review flow (`engine.go`) | a review cycle over two agents | start, rounds, recover | `ReviewFlow` |
| relay (`relay.go`, `HandleRelay`) | bindings between chats | relay a message, with a timeout | `AgentTurnLock` |
| session starts and skills (`job_runner.go`, `native_skills.go`) | links and manifest in a workspace, `info/exclude`, the agent object's environment | prepare, set environment, start | `SessionStart` |
| job manager (`job.go`, `job_runner.go`) | jobs, one queue and at most one running job per project, files | start, cancel, run, finish, reload | `JobManager`, `JobServer` |
| worker link (`worker_client.go`) | a connection, pending requests, a watcher per job | dial, register, heartbeat, assign, cancel, report | `WorkerLink` |
| workspaces (`workspace.go`) | worktrees and branches, two tables of locks | setup, finalize, push, clean up, delete, inspect | `Workspace` |
| agents (`src/agent`) | a process, its reader, a bounded channel | Send, Close, read, drain | `AgentSessions` |
| platforms (`src/platform`, `dedup.go`) | seen ids, offsets, connections | receive, drop duplicates, reconnect | `Delivery`, `Gateway` |
| agent upgrade (`agent_upgrade.go`) | running marks, back-off, timer | loop, manual run, apply config | `AgentUpgrade` |
| self-update (`updater.go`, `src/cmd/cc-connect/main.go`) | the binary and its predecessor, `RestartCh`, the restart notice | replace, restart, exec | `SelfUpdate` |
| configuration (`src/config`) | the file; commands, aliases, providers, settings of each engine | change and save, reload | `ConfigFile` |

The hard parts are the places where a decision is taken on state that another
goroutine may have changed since: a chat is served by the handler goroutine of every
message, turn goroutines, retry timers, cron runs, review cycles and commands, and they coordinate
with several different things (a busy flag, a gate, a mutex, a table of locks, marks) that are
taken at different times. Stores keep a file beside their memory and may be interrupted
between the two; connections break between a request and its answer. Per component, correctness means:

- sessions: two turns never run in one local session at once;
- queue: no prompt lost, run twice or out of order; bounded; it always drains again;
- interactive state: a prompt goes to a process of its own session;
- transition: `/new` and `/switch` neither interrupt a starting turn nor wait for ever;
- turn locks: mutual exclusion per agent session id, exact reference counts, no deadlock;
- permissions: a turn never waits for an answer that was given, the agent gets one answer;
- previews: the answer is shown, once;
- intake: what was sent in pieces reaches the agent once;
- cron: each enabled job has one entry with its schedule; a run takes its place in the
  chat's order and keeps the context of its job;
- store: what was saved last is what is loaded after a crash; a reset is not undone;
- reviews: they end, and do not share an agent with a prompt;
- jobs: one running job per project, final states are final, queued jobs get their turn;
- worker link: it recovers, and no result is lost while the link is up;
- workspaces: a branch at the origin loses no commits, every request is answered;
- agents: Close returns, a turn takes its own events, nobody sends on a closed channel;
- platforms: a message is handled once and in order, a reconnect skips none;
- upgrades: no turn uses a program that is being replaced; the service keeps a binary;
- configuration: no save undoes another, an engine shows what the file says.

## Modules

| module | contents |
|---|---|
| `ChatTurns`, `ChatTurns_proofs` | one chat: local sessions, queue and gate, transition mutex, live process, and every goroutine that works on them |
| `AgentTurnLock`, `AgentTurnLock_proofs` | the turn locks of one engine and their clients: chats, relay requests, cron runs |
| `TurnEvents`, `StreamPreview`, `Intake`, `SessionStore`, `ChatServices_proofs` | what else a chat does |
| `CronScheduler`, `CronScheduler_proofs` | the cron store and the scheduler |
| `JobManager`, `JobManager_proofs`, `JobServer` | the jobs of a worker or API server, and the abstract server they implement |
| `WorkerLink`, `Workspace`, `SessionStart`, `AgentSessions`, `ReviewFlow`, `Work_proofs` | what jobs, reviews and cron runs need: the gateway, worktrees, starts of sessions, agent processes |
| `Delivery`, `Gateway`, `Platforms_proofs` | the platforms |
| `AgentUpgrade`, `SelfUpdate`, `ConfigFile`, `Upkeep_proofs` | changes to the programs and to the configuration |
| `MCChatTurns`, `MCAgentTurnLock` | instances of two modules |
| `MCSafety`, `MCSafetyWork`, `MCLiveWork`, `MCLiveAgents` | instances of several modules side by side |

The modules do not share state. Where components interact, the one is a caller or an outcome
in the model of the other: `AgentTurnLock` looks into the step `AcquireTurn` that `ChatTurns`
takes as a whole, `CronScheduler` ends where a firing enters the queue of `ChatTurns`,
`WorkerLink` sees the statuses that `JobManager` gives, `ReviewFlow` restates the gate and the busy
flag it shares with prompts, and `TurnEvents` and `StreamPreview` look at one turn from the inside.

Because they share nothing, `MCSafety` and its three companions put several modules into one run: a variable `part`
is picked by the first state, only the module of that name takes steps, and the others stay
as they start (in one of their initial states). The states of such a run are the sum, not the
product, of those of its modules, every invariant is checked on each, and the fairness of
each module is restated for its own part.

### ChatTurns

Every piece of work (a prompt, a direct command such as a skill or custom command, a
`/compress`, a firing of a cron prompt job) is an element of a constant set, and `pc`
says where the goroutine that handles it stands. Each action is one step between two
points at which another goroutine can interfere: a critical section of
`promptQueueMu`, one call of `TryLock` or `Unlock`, one acquisition of the transition
mutex, one critical section of `interactiveMu`, one call on the agent process.

- *Arrival.* `Arrive` reads the active session; `TryLockSession` tests the busy flag;
  `EnqueueBehindBusy` is the enqueue of the busy path, `BeginOrEnqueue` that of the idle
  one. Direct commands go through `MarkRunning`, which sets the gate unconditionally.
- *Cron.* `CronBegin` takes the gate first and `CronTryLock` the session second;
  `CronConvert` is the run that lost the session and queues itself.
- *Queue.* `Drain` pops; `EnterStart`, `CheckItem` and `StartItem` are
  `startQueuedPrompt` and `startQueuedCronRun`; `RequeueFront`, `GiveUp` and `FailItem`
  are its ways out. `drains` counts goroutines and timers that are about to drain.
- *Turn.* `AcquireTurn` (the turn lock, see `AgentTurnLock`), `TakeState`
  (`getOrCreateInteractiveState`), `SendPrompt`, `SendFails`, `SendRestarts`,
  `TurnResult`, `TurnFails`, `EndUnlock`, `CompleteTurn`.
- *Commands.* `/new` and `/switch` in four steps, `/stop` in the steps between which it
  releases its locks, `/queue` clear, delete, up and down.

An agent conversation is named by the work whose process opened it. `forced`,
`straddled` and `order` are history variables; no guard reads them.

Left out: the texts and attachments of prompts (with the two byte limits of
`enqueuePromptLocked`), the events between `Send` and the result, permission requests,
shutdown of the engine, `authStale`, `/attach`, `/dir`, `/model`, `/effort`, `/delete`.
The unlock of the transition mutex that follows `failQueuedPrompt` and
`requeuePromptFront` is part of those actions.

### AgentTurnLock

`agentSessionTurnGuard` with the table `agentSessionTurns`: `RetainLock` and
`ReleaseRef` are the critical sections of `agentSessionTurnsMu`, `TakeSem` is the send on
the one-slot channel `sem`, `LockBind` and `LockShared` are the two modes of
`agentSessionBindMu`, `GuardBind` is `Bind`, `Unlock` and `Unref` are `Unlock`. A lock
object whose count is zero is garbage, and a later allocation may be the same element
of `Locks`: this is how a lock that was freed too early would come back in use.

A turn with an id takes the shared mode, retains, gives it back, and waits for the
semaphore; a turn without one keeps the exclusive mode from before the start of its
agent until `Bind` sees the id. A cron run does neither: it locks its id, if it has
one, and never binds. Relay requests all work on one session that no busy flag protects.

Assumptions on the agents, which are outside the engine: a process that resumes an id
reports it from the start (as the sessions of claudecode, codex, iflow and qoder do);
a fresh process takes an id that no other has, and reports it by the end of a
successful turn; the transcript exists on disk from the first prompt on. Agents that
fork the id on resume are not modelled. The tail `RLock`, retain, `RUnlock` is one step, and so are
`/attach`, `/dir`, `/model` and `/effort`. A turn may restart its process any number of
times (the code does it once).

### JobManager

An action is one critical section of `jm.mu` with the saves made inside it, or one save
made outside it. `mem`, `queue`, `running`, `ctx` are `jm.jobs`, `jm.queues`, `jm.running` and
the context of a managed job; `disk` is the files; `pc` and `clone` belong to the goroutine of `runJob`.

- *Dispatch.* `DispatchNext` is `prepareNextJobLocked` with the `go` statement after it; it is
  the tail of `RegisterProject`, `Start` and `finishJob`, as in the code.
- *A run.* `RunBegin` (the first critical section), `SaveRunning` (the save that decides whether
  the runner is called), `RecordEvent` and `SaveEvent` (`recordJobEvent`, and the snapshot after
  the run), `Finish` or `FinishRefused` (`finishJob`). What the runner does is an outcome.
- *Ends.* `Cancel` marks and saves; `CancelContext` is the call of `cancel()` after the unlock.
  `Expire` is the timeout. `Settle` is a save under the lock, whose failure makes the job
  failed in memory.
- *Restarts.* `Crash` forgets everything but the files; `Load` is `NewJobManager`.

`load` reads the files in the order of their names, which are random, so `Load` picks any order:
the order of the starts is not kept over a restart. `Load` is one step, because a load that fails
leaves no manager, and a repeated load finds the orphans it saved as it would leave them.
A save is atomic (a temporary file and a rename). Left out: texts, the buffer of events, the
workspace snapshot, ids that collide (`createUniqueJobIDLocked` draws again).

### JobServer

The abstract server: a job is accepted for a project, begun when no other of the project is at work,
and ends; the end of the process ends all work. `JobManager` implements it (`ImplementsServer`)
with the mapping `Life`, which takes files and goroutines together: a goroutine between taking its job
and saving it as running has not begun, and a job found unfinished and started in its file has
ended with the process. The stall of a queue is a job that stays accepted, which the server allows.

### CronScheduler

The store and the scheduler have a mutex each, and every operation takes one after the other; `cronAt` says where
a caller stands. Adding, deleting, editing, enabling and disabling come from commands, card buttons and the HTTP
API, which differ in what they look up before; `CronFire`, `CronDequeue`, `CronMarkRun`, `CronPause` are a firing
that may have waited in a chat's queue, its record and the pause of a loop that failed; `CronStartOne` and
`CronRestart` are `Start`. The store hands out pointers, so a caller goes on with the fields a deleted job had.
Of a job only schedule and flag are kept, and one firing is under way per job.
`cronSkewed` remembers the jobs on which two operations met.

### TurnEvents

One turn at a time, of a user or of a review (`"managed"`), over several states of a chat. A permission
request sets the prompt, then `state.pending`; answers look at the prompt and at the state in
separate critical sections, send the answer to the agent, and forget the request in a third. `/stop` takes
the state out of the table and closes it later. Recognising an answer in a text is abstracted to a word.

### StreamPreview

The pieces of an answer, the throttled and timed updates of its preview, freezing at a prompt or tool, the
five ends of a turn, and the compact progress card. A timer that has fired waits for the mutex and cannot
be called back. Any call of the platform may fail.

### Intake

A message with an attachment, a voice message, a text, and `/collect`, each with a goroutine that looks at the
three stores one after the other. A text that finds a dictation is an answer to it: it confirms, cancels, asks to modify or
corrects it. `getVoiceConfirmation` (`TextAsksVoice`), the unlocked write of the text (`VoiceEdited`) and `storeVoiceConfirmation` or
`clearVoiceConfirmation` (`VoicePutBack`, `VoiceConfirmed`, `VoiceCancelled`) are steps of their own, and all who found the dictation share one object (`inText`). `inShared` and `inCrossed` remember items that two requests could take, and items
that came into a store while it was emptied. A flush that fails puts its mark back on whatever collection there is by then
(`failPendingCollectionFlush`), which may be a newer one. Banned words, the rate limit and the edit forms
of `handleMessage` are left out.

### SessionStore

Snapshots in memory and in the file. `saveLocked` under the mutex is one step; `Save` takes its
snapshot under the shared lock, and its write is a step of its own, so that two may be reordered. A turn looks for the active
session (`TurnReads`) and locks it later (`TurnBegins`); only one that was queued holds the transition mutex from the first step to its
Send, and one that begins directly may have a `/new` between any two of its steps. `/new` and `/switch` close the process
(`ReplaceBegins`) before they change the active session (`NewSession`, `SwitchSession`). `/delete`, `/dir`, `/model`, `/effort` and `/attach` change
sessions as well. The snapshot has what `load` takes (sessions, transcripts, the active one, the counter); it has no `NeedsReplay`, as in `saveLocked`.

### ReviewFlow

`startReviewCycle` with its packet, review and revision turns, its rounds, its errors and its deferred clean-up, over the
same gate, queue, busy flags, turn locks and state as the prompts of a user, `/stop` (with its forced unlock) and
`/new`. A turn of a prompt may wait for a permission, and as long as it does only the answer or the end of its state ends the wait
(`RvUserAsks`, `RvUserAnswers`); turns of the cycle approve by themselves. Packets and verdicts are outcomes. The review turn itself runs in another project and is one step.

### SessionStart

`startAgentSession`: the skills of a workspace on disk (links, manifest, `info/exclude` in two
steps of a write), the environment of the one agent object and the start of the process, for jobs and for isolated cron runs up to what they
leave in their job. A preparation may fail before it writes (`SkUnprepared`), while it removes stale skills, links, or fills the manifest or the
exclude file, and leaves there what it had written by then; `skCut` remembers the places where a write was cut short, and jobs that went on although git did
not say where the exclude file is. One project per repository; cron jobs with a new session per run, shell jobs and loops are left out,
and chats start like cron runs in a workspace of their own, so the run has none. Crashes
and changes of the configuration come in between.

### WorkerLink

The session goroutine (dial, hello, the two registrations, heartbeats, back-off), the reader of each connection with
`pending` and `failPending`, the handlers of `assign_task` and `cancel_task`, and one watcher per job. A connection may
break before or after a request is written, a write may go nowhere, and the gateway may answer with an error, late or
not at all. Payloads are left out; workspace requests are in `Workspace`.

### Workspace

Each git command is a step and may fail, a commit is the set of changes it contains, agents commit and rewrite, and
others push. There is one lock per worktree path and one for the repository: setup and clean-up take both, in this order,
the other requests one of them or none, as in the code. Paths are compared after `workspaceLockKey`.

### AgentSessions

One session object of one of seven adapters: Claude Code keeps a process, the others start one per turn; iflow has a timer that ends a turn.
The channel is bounded, its reader blocks on it or on the context, `Close` waits for the readers in a goroutine with a
timeout. Claude Code may print notes and a failure before it reads a prompt, and after the failure to find its conversation it takes no prompt
any more (`ClaudeError`, `SendChecks`). The engine drains before it sends, takes events, and leaves on `/stop`, at a timeout or when the channel is closed. Lines are
notes, results and errors that remember the turn they were printed for. A descendant may hold the output open.

### Delivery and Gateway

`Delivery` has the receiving side of eight adapters: polling with an offset (telegram), one stream (slack, qq), concurrent
callbacks (discord, feishu, wecom, dingtalk, line); `IsOldMessage`, `MessageDedup`, services that send again what
was not acknowledged, and restarts. What a poll returned is a set, taken in the order of its ids. The SDKs are external; buttons are not sent again, a line request has one event, allow
lists are not modelled. `Gateway` is the qqbot adapter: reader, heartbeats, the reconnect
loop with resume or a new session, none of which stops the goroutines of the connection before.

### AgentUpgrade, SelfUpdate, ConfigFile

`AgentUpgrade`: the loop with timer and wake-up, runs by command, the mark of a running target against the busy
flags of sessions, back-off after failures, and `ApplyConfig` at any time. One target in the runs; the forced unlock of
`/stop` and shutdown are left out, and jobs of a worker count as idle, as in the code.

`SelfUpdate`: a binary and its `.old` names, the rename of a running binary (Linux), two chats and the command line that update,
`RestartCh`, the notice, exec and crashes. Every file operation may fail, the rename back too; the command line copies the new file and makes it
executable in a step of its own (`SuChmod`). `suCut` remembers an update that was cut short between its renames or could not undo them.

`ConfigFile`: engines that change their memory first and the file after it, saves that read, edit and replace the whole
file under a mutex of their process, reloads in four steps, the command line with a mutex of its own, failed saves and crashes. Lists
(providers), sets (commands, whose order nothing depends on) and values (aliases, display, TTS mode, language, active providers) are abstracted; projects are fixed.

## What is checked

| run | modules and instance | what it checks |
|---|---|---|
| `chats` | `ChatTurns`: two users, a direct command, a cron run, a `/compress`; a queue of one; one `/new` or `/switch`, one `/stop`, one `/queue` command, one dead process, one failure | `GateHeldByOne`, `SessionSerial`, `FifoWithoutCommands`, `QueuedSendsToActive` |
| `chat_live` | `ChatTurns`: two prompts, a cron run, one `/new` or `/switch` | `AwakeQueueDrains`, `WorkComesToRest` |
| `lock_table` | `AgentTurnLock`: a chat, two relay requests, a cron run, two ids, three lock objects, one `/attach` or reset | `TurnLockExclusive`, `LockTableExact` |
| `safety` | `MCSafety`: cron, events of a turn, preview, session store, agent upgrade, intake, delivery, gateway, configuration file | `CronOneEntry`, `CronScheduleExact`, `PermissionsExact`, `AnswerShown`, `ResetSticks`, `FileCurrentAtRest`, `UpdateAlone`, `StoredIsSentOnce`, `HandledOnceInOrder`, `NothingSkipped`, `NoSaveLost`, `EngineShowsFile` |
| `safety_work` | `MCSafetyWork`: jobs, worker link, review, agent processes, worktrees, session starts, binary | `SlotExact`, `FinalIsDurable`, `ImplementsServer`, `ResultLostOnlyWithLink`, `ReviewTurnsAlone`, `EventChannelSafe`, `RemoteKeepsCommits`, `StartAsConfigured`, `CronContextKept`, `BinaryAndNoteKept`, `RestartRunsUpgrade` |
| `live_work` | `MCLiveWork`: jobs, worker link, review, agent upgrade, gateway | `JobsSettle`, `LinkRecovers`, `ReviewEnds`, `ConfigTakenUp`, `EventsArrive` |
| `live_agents` | `MCLiveAgents`: agent processes, worktrees, turn locks | `CloseEnds`, `TurnSettles`, `WorkspaceReturns`, `SemWaitersServed` |
| `chat_stranded` | two prompts | `QueuedPromptsLeave` is violated |
| `chat_stale_process` | two prompts, one `/new` | `SentToOwnProcess` is violated |
| `chat_force_unlock` | a prompt, two direct commands, a cron run, one `/stop` | `StopSparesCron` is violated |
| `chat_lost_cron` | a direct command, a cron run | `ConvertedRunIsQueued` is violated |
| `lock_bind_window` | two relay requests | `SingleWriter` is violated |

All other properties hold. Many of them name exceptions: places where the code as it is breaks the plain
statement. The exceptions are part of the property, next to a comment that says which code they
come from, so that the run shows that there is no other way to break it. What the results say:

*Turns of a chat.*
- The busy flag does serialize the turns of a session (`SessionSerial`), through
  cleanup and restart too, except for a session that the recovery path of `/stop` has
  unlocked under its holder.
- Without direct commands the Running gate is held by exactly one piece of work, and
  prompts start in the order in which they were accepted. A direct command
  breaks both: it sets the gate without asking and clears it at its end.
- The queue can hold one item more than `maxPromptQueueItems` (the design document
  `docs/designs/2026-07-22-prompt-queue.md` gives 20 as the maximum), because
  `requeuePromptFront` checks no limit.
- A prompt can be stranded (`chat_stranded`): the turn that made the session busy ends
  between `TryLock` and `enqueuePrompt`, and nobody drains. `AwakeQueueDrains` is the part
  of the promise that holds: as long as somebody is going to drain, the item leaves.
- A dequeued prompt is safe against `/new` and `/switch`; a prompt that starts directly
  is not (`chat_stale_process`), because only the former takes the transition mutex.
- `/stop` may free a session that a cron run holds (`chat_force_unlock`), after a direct
  command cleared the gate of that run; and a cron run may be lost (`chat_lost_cron`).
- The turn locks exclude each other per id, and the table neither leaks nor loses an
  entry, but the lock does not start where the writing starts: `Bind` gives
  `agentSessionBindMu` back before it waits (`lock_bind_window`).
- A turn that waits for a permission can be answered (`PermissionsExact`), unless one request was answered twice, or by an answer and
  `/stop`: the later one forgets whatever request is pending by then (`engine.go:2405`), and the turn waits without a timer (`3097`).
- A review cycle ends and keeps to itself (`ReviewEnds`, `ReviewTurnsAlone`), even when `/stop` forced its busy flag open, because of the turn locks. The exception is a
  user who never answers: the prompt that `/stop` let in holds the turn lock, and while it waits for a permission it looks at no timer (`engine.go:3087`), nor does the
  revision that waits for the lock (`engine.go:503`, `1567`).
  After `/new` its revision goes to the agent of the new session, and its deferred unlock frees whoever holds the old one.
- The preview becomes the answer, or the answer is sent by itself (`AnswerShown`), except that a timer callback that was
  already waiting for the mutex writes the old text over the answer: `FinalTextStays`, without this exception, fails.

*Stores of a chat.*
- What is sent in pieces reaches the agent once (`StoredIsSentOnce`). Attachments of a request that is queued stay in
  the store (`engine.go:1308`), so they are sent again with the next one (`AttachedOnce` fails), and an item buffered
  while the collection is flushed is cleared with it (`collect.go:249`). A flush that fails after its collection was cancelled clears
  the mark of a newer collection (`collect.go:309`), which two requests may then flush. Two answers to one dictation at a time share its object:
  the one may put it back after the other has sent it (`engine.go:2091`), and its text is written without the mutex (`engine.go:2110`).
- A reset conversation stays reset (`ResetSticks`), except one that was reset under a turn, and the two sessions of a `/new` or `/switch` that a direct turn crossed: the
  process of the old one is used by the next prompt of the new one, which then has its transcript (`chat_stale_process` shows how). The file is current when nothing is going on
  (`FileCurrentAtRest`), with the active session, unless two `Save`s overlapped (`session.go:385`; without that exception `SavedIsCurrent` fails), and but for the first session of a
  chat, which `GetOrCreateActive` does not save.
- `NeedsReplay` is declared as a field of the file (`session.go:22`) but never saved (`session.go:400`): a session whose transcript was lost begins anew without
  its history when the service restarts before its next prompt. `ReplaySurvives` says otherwise and fails with one worker, one session, one turn and one restart.
- Every entry of the cron library is the one its job names (`CronOneEntry`), and an enabled job at rest has an entry with its schedule
  (`CronScheduleExact`), unless two operations on it met or its save failed when it was added.
- Saves of the service never undo each other (`NoSaveLost`); the command line may undo one. An engine shows what the file says
  (`EngineShowsFile`) up to the listed exceptions; removing the active provider makes another one active
  (`engine.go:5796`; `NoneAfterRemoval` fails with two providers).

*Jobs and agents.*
- Of the jobs of a project exactly the one in the slot is at work (`SlotExact`), and the manager as a whole implements
  the serial server of `JobServer`, over cancel, timeout, failed saves, crash and reload.
- A job is final once it has `FinishedAt`, not when it says `cancelled`: a running job that was
  cancelled keeps its slot until its runner returns, which may still make it `completed`. A job whose running save fails ends `failed` without it.
- A queue can stall: a job that is cancelled between its dispatch and its start frees the slot
  and dispatches nothing (`job.go:357`). `JobsSettle` excuses a stalled queue; `StallOnlyByEarlyCancel` is proved.
- The gateway hears every result unless a report failed or went nowhere (`ResultLostOnlyWithLink`), and the link recovers
  (`LinkRecovers`) except from a request made after `failPending`, which waits for ever (`worker_client.go:220`).
- A branch at the origin loses commits only to an agent that rewrites `HEAD` between the ancestor test and the forced
  push (`RemoteKeepsCommits`, `workspace.go:895`); requests never wait for each other in a circle (`WorkspaceReturns`).
- A session starts with its own environment and skills (`StartAsConfigured`), except in a workspace where a write was cut short. The write of the
  exclude file empties it first (`native_skills.go:384`): one that fails or is cut short loses lines of the user, and a job whose git does not name the file starts without the
  exclusion (`native_skills.go:303`). A cron job loses its context only after a run in which the
  agent did nothing (`CronContextKept`).
- Nobody sends on a closed channel but a reader that `Send` adds behind `Close`, and iflow's, whose `Close` gives up waiting
  (`EventChannelSafe`, which also says whose events a turn takes). What Claude Code prints before it reads its first prompt goes to the first turn,
  an error among it too (line 382 of `claudecode/session.go`), and a result among it ends that turn before its answer, which the next one gets. `Close` returns (`CloseEnds`), except that of Claude
  Code under a descendant that holds the output.
- A prompt of a message or a flush never uses an agent that is being updated (`UpdateAlone`); queued prompts, cron runs and reviews may, and
  so may custom commands and skills, which messages begin too but which never look at the mark (`engine.go:7123`, `7358`).

*Platforms and the process.*
- A message is handled once and in order as far as its adapter and its service go (`HandledOnceInOrder` says for each adapter what it promises: slack and line
  remember no ids, restarts forget them). A resumed gateway session skips nothing (`NothingSkipped`).
- An update that has the binary to itself never leaves the service without one, in place or as `.old`, and the next restart runs it
  (`BinaryAndNoteKept`, `RestartRunsUpgrade`). Only the `.old` file can be run, and nothing puts it back, after an update that was cut short between its renames, whose rename back failed too
  (`updater.go:292`, `update.go:243`), or that failed to make the copy executable (`update.go:249`). Two updates at once, or a second one in the same process, may
  install under an `.old` name (`updater.go:250`).

Some definitions are stated and left out of the runs, since others say more or the proofs cover them: `TypeOK`, `QueueExact`, `StallOnlyByEarlyCancel`,
`FinalRecordStays`, `RunsOnce` and `QueueMatchesWork` are proved; `QueueBounded`,
`ProcessOfActiveSession`, `KnownTurnsBlocked`, `OverlapOnlyInBind`, `BackoffKept` and `SetupPinned` hold on the same
instances, and `TransitionReleased` and `BindReleased` under the same fairness. `FinalTextStays`, `AttachedOnce`,
`SavedIsCurrent`, `NoneAfterRemoval` and `ReplaySurvives` are the plain statements that fail, as said above.

### Bounds

The constants `Max...` bound what the environment does (sessions, switches, stops,
edits, deaths, faults, crashes, breaks); a run with a bound of one lets that one thing happen at any
moment. `chats` takes three kinds of chats in one run (the constraint `OneKind` of `MCChatTurns`): of the
work and of the budgets each kind leaves something alone. Edits and failed starts meet a queue, deaths and restarts meet
stops, and of a second prompt, a direct command, a cron run, a switch and a stop all but one or
two meet. `Serial` is proved without any such limit.
Queue lengths of one and two are enough for a full queue and for an item that
is put back at the front of a queue that has been refilled. A work item stands for one
message; every hazard listed
needs at most three. In `AgentTurnLock` turns repeat without bound; two
ids are enough for a turn that waits for one id and moves to another, and three locks
for three references at once. Three jobs are one at work and two that wait, in either order;
projects share nothing but the mutex, and the proofs cover any number.

In the packed runs the actors are two wherever two of a kind can meet (callers of the cron store, answerers, workers of the session store, handlers of
`Intake` and `ConfigFile`, review cycles, connections, requests for workspaces, starts of sessions, chats that update), and the things they meet over one or two
(jobs, states, sessions, paths, engines). A channel of capacity one is full after one event; one attempt less than the maximum and the maximum are the two cases
of the reconnect loop; a clock of three values separates inside, at and outside `dedupTTL`; three versions are the running one, the one of a first and of a second
update. Deadlock checking is off because all work may be done.

### Fairness

`FairSpec` of `ChatTurns` gives weak fairness to every goroutine that has been started
(each item's steps, its handler's unlock, drains, the steps of a command under way);
nothing makes users act or faults happen. That a turn ends is what the idle
and turn timeouts of `processInteractiveEvents` are for; they do not run while a permission is open, so `AwakeQueueDrains` and `WorkComesToRest` speak
of turns whose permissions are answered (`ReviewFlow` models the ones that are not). Weak fairness of each item's
steps includes taking the transition mutex, which no instance offers often enough to
starve a waiter (its users are finitely many). `FairSpec` of `AgentTurnLock` has weak
fairness for each turn's own steps and strong fairness for the semaphore: goroutines
blocked in a channel send are served in FIFO order by the Go runtime. `FairSpec` of `JobManager`
has weak fairness for started goroutines, for the call of `cancel()`, and for the first
registration of a project (server start-up registers them all); `Finish` has strong fairness,
because a run ends however many events it reports on the way.

The other modules are as sparing: goroutines go on (`LinkFairness`, `RvFairness`, `AgentFairness`, `WsFairness`, `UpFairness`,
`GwFairness`); a gateway that can be reached answers and dialling succeeds in the end (strong fairness of `LinkDial`, since the
worker dials for ever); the timers of a turn end it, but not while it waits for a permission; a review gets its turn lock as above (strong); a program of an agent ends, with the
exception that the property names; a git command has thirty seconds; tickers tick; the commands of an update end. Nothing is assumed of users, platforms
and services beyond that.

## What is proved

Every invariant and every safety property of a step that a passing run checks is also a theorem, for all values of
the constants, as is the refinement of `JobServer`. Each proof has the same form: an invariant that implies the property, `Init` establishes it,
every action keeps it (one lemma per action or per kind of action), and the last step is temporal. The names in
brackets are those of its parts.

`AgentTurnLock_proofs`, for all sets of chats, relay requests, cron runs, ids and lock
objects, under `ActorAssumption` (the sets of clients are disjoint, and their union finite):

- `TypeCorrect`: `Spec => []TypeOK`;
- `LockTable`: `Spec => []LockTableExact`;
- `Exclusion`: `Spec => []TurnLockExclusive`.

`TurnLockExclusive` alone is not inductive: two turns could hold the semaphores of two
different lock objects for one id. The invariant `IInv` has three parts: the types; the
table (`TableInv`: counts are exact, every retained lock is the one the table has for its id,
an entry has a reference, two ids never share an object, and who fills a semaphore has
retained its lock); and, for each turn, what it has at each point of its program
(`TurnInv`). "Two ids never share an object" is needed so that the deletion of an entry
with its last reference cannot take another id's lock away, and "who fills a semaphore
has retained its lock" so that a new lock object is free. `RetainKeeps` and
`ReleaseKeeps` prove `TableInv` for the two operations on the table once, on top of two
lemmas on cardinalities (`RetainersFinite`, `NoRefsNoRetainers`); `LocksUntouched` and
`OthersUntouched` dispose of everything a step leaves alone; `QuietStep`, `LockStep` and
`CommandStep` go through the actions.

`ChatTurns_proofs`, for all sets of work and all bounds, under `WorkAssumption` (the kinds
of work are disjoint) and `BoundAssumption`:

- `TypeCorrect`: `Spec => []TypeOK`. The types need two facts besides them: a switch under
  way goes to a session that exists or to the next one (`SwitchTarget`), and a turn that is
  about to send knows its process (`UseKnown`).
- `Serial`: `Spec => []SessionSerial`. The invariant `SerialInv` adds to the types that an
  unforced session with a holder is busy (so that a successful `TryLock` finds
  none), and that only the handler of a prompt unlocks after it queued its work
  (`HandlersQueued`). Every step is one of four kinds, and there is one lemma for each: it leaves
  the holders alone (`QuietKeeps`), takes a free session (`TakeKeeps`), gives one back as its
  holder (`ReleaseKeeps`), or passes it from the turn to its handler (`PassKeeps`).
- `OneHoldsTheGate` and `QueueIsExact`: `[]GateHeldByOne`, `[]QueueMatchesWork`. The two are proved together as `GateInv`, for who pops the queue takes
  the gate of who was in it: which work ever comes to the queue (`QueuePath`), and that `items` lists the waiting work, each once (`QueueHolds`).
  A step leaves the gate, takes it when it is free, or gives it back as its holder (`GateStep`).
- `QueuedReachActive`: `QueuedSendsToActive`. `TransInv` says who has the transition mutex: `/new` or `/switch` from its first
  step to its last, or a dequeued prompt, whose session is the active one from its check on (`InItsTransition`).
- `PromptsAreFifo`: `FifoWithoutCommands`. `FifoInv` says that the queue is in the order of acceptance (`QueueInOrder`), and that nothing accepted earlier
  waits behind the prompt that is next (`NextIsFirst`), which is what a prompt put back at the front relies on. Prompts are accepted once (`AcceptedOnce`).

`JobManager_proofs`, for all finite sets of jobs, all sets of projects and all bounds, under
`JobAssumption`, `ProjectAssumption` and `BoundAssumption`:

- `TypeCorrect`, `Slots`, `Queues`: `[]TypeOK`, `[]SlotExact`, `[]QueueExact`. They are proved
  together as `PlaceInv`, for the dispatch reads queue and slot to fill the one from the other. `Served`
  adds that a project with a job at work has a runner, so that a dispatch never drops a job
  for want of one, and that nothing is at work while the process is down. `DispatchKeeps` is the
  heart: from slots and queues that are exact in the middle of a critical section to ones that are
  exact after it. `WithoutKeeps` is the lemma on the queue that `Cancel` filters.
- `Durable`, `FinalStays`, `AtMostOnce`: `[]FinalIsDurable`, `FinalRecordStays`, `RunsOnce`. The
  invariant `RecordInv` says of each job how memory, file, copy and goroutine agree: a
  goroutine works on a job that is not finished, so is the copy it saves outside the lock, a file that
  is finished agrees with memory, and a job that was run is marked as started in its file.
- `StallsExcused`: `[]StallOnlyByEarlyCancel`. A stall begins only in `RunBegin` (`StallBegins`),
  and the job that excuses it stays as it is while the process lives (`WitnessStays`).
- `Refines`: `Spec => ImplementsServer`. `NextServes` goes through the steps: each is a step of `JobServer` under `Life`, or none. It needs of each job, besides the two
  invariants above, that a job in memory has a file, that a runner works only on a job whose file says so, and that memory knows of every start in
  a file (`LifeInv`).

`CronScheduler_proofs`, for all sets of jobs, callers, schedules and numbers and all bounds, under `CronAssumption`:

- `OneEntry`: `CronSpec => []CronOneEntry`. Two facts are missing from it: a caller that is not idle works on a job (`CallerTypes`), and no number of an entry
  is given twice (part of `EntryInv`), for otherwise the removal of one job's entry could take another's. `UnscheduleKeeps` and `RescheduleKeeps` prove the invariant once
  for the two critical sections of the scheduler that change entries, `TimerUntouched` for all steps that change none.

- `ScheduleIsExact`: `[]CronScheduleExact`. `ScheduleInv` says of each job where enabling and disabling operations did not meet how store, entries and callers stand to
  each other (`JobExact`): a job that is due has an entry with its schedule or a caller that will make it, one that is not has none or a caller that will drop it.

`ChatServices_proofs`, for all numbers of answerers, workers, handlers and all bounds:

- `RequestsStayOpen`: `[]PermissionsExact`. `EvInv`: a request is in one state only and its turn waits for it (`PendingOnce`), a request not taken up twice has one holder
  (`HeldOnce`), a request that was answered is about to leave its state (`AnsweredOnce`), and what nobody asked yet nobody knows (`RequestsAreNew`).
- `AnswersAreShown`: `[]AnswerShown`, with what the preview message shows at each stage (`MessageIsOurs`).
- `ResetsStick`, `FilesFollow`: `[]ResetSticks`, `[]FileCurrentAtRest`. The file and the snapshots under way agree with memory in all that is loaded unless somebody has changed it and not begun
  to save (`FileFollows`); turns that hold a session exclude each other, and one that is not sent is for the active session or crossed (`TurnsApart`); turns, process and sessions have only
  transcripts begun since the last reset (`TurnsEntitled`).
- `PiecesAreSent`: `[]StoredIsSentOnce`. Who is about to empty a store holds all that is in it but what crossed (`Keeping`), and an item that was not shared is with one
  handler or in one store (`OnceOf`). `VoiceInv` is about the objects of dictations: an answer has the text of its object or both are shared, the text of an
  object that two answers have is shared, and who is about to empty the store finds its own object there, or what came meanwhile has crossed. The first attempt at this proof failed in the step of a flush that fails, which is how the case
  of `collect.go:309` was found; the model now has it.

`Work_proofs`, for all sets and bounds of its modules:

- `ReviewAlone`: `[]ReviewTurnsAlone`; one cycle at most, and turns hold the lock of their session (`RvInv`).
- `StartsAsPrepared`, `ContextOutlivesErrors`: `[]StartAsConfigured`, `CronContextKept`. `SkInv`: whoever prepares holds `agentStartMu` and the environment (`SkTurns`), what is
  in a workspace at each step of a start (`SkPlaced`, `SkPrepared`), who has the user's lines of the exclude file (`SkExcluded`), and that a run counts its session as gone only
  without work (`SkRecorded`).
- `RemoteIsKept`: `RemoteKeepsCommits`. What is about to be pushed with the lease contains what was seen at the origin, unless `HEAD` was rewritten (`WsLeased`); to show that a commit or a
  checkout does not break it, no branch is in two worktrees (`WsOnePlace`) and a setup is alone on its branch (`WsPinning`).
- `ResultsAreHeard`: `[]ResultLostOnlyWithLink`; after the assignment there is a watcher until the end was heard of (`LinkInv`).
- `ChannelIsSafe`: `[]EventChannelSafe`. `AsInv`: why a channel is closed and who may still read then (`ClosedForReason`), and whose events are on their way: with a process per turn
  those of the present turn, when it found nobody at work (`OwnEvents`), with the one process of Claude Code at most one answer (`ClaudeEvents`).

`Platforms_proofs`, for all sets of adapters and all clocks and bounds:

- `SkipsNothing`: `[]NothingSkipped`. While a connection serves the session, every number that was sent was read or is in the pipe, in order (`AllSent`, `InOrder`), and lastSeq stands
  for numbers that were read (`GwInv`).
- `HandledOnceAndInOrder`: `[]HandledOnceInOrder`. `DvInv`: what was let through at some time is remembered as long as it is young (`SeenOnce`), is not older than its process (`NothingOld`), and
  for a serial adapter calls, the message in hand, the inbox and what is to come are in order (`InRow`). A message whose service does not repeat it is in one place (`InOnePlace`).

`Upkeep_proofs`, for all sets and bounds of its modules:

- `UpdatesAlone`: `[]UpdateAlone`. A turn past its lock has its busy flag, and whom a runner has counted as not busy keeps out of its update (`UpInv`).
- `SavesKept`, `EnginesShowFile`: `[]NoSaveLost`, `[]EngineShowsFile`. A save of the service holds the mutex, and what it read is the file still, or the command line came between (`CfInv`). For
  the second, an engine without drift and the file differ by nothing but the commands under way (`CfAgree`), each of which says by how much (`CfHolds`), and these are about different
  things (`CfInSync`).
- `UpdateKeepsService`, `RestartsNewest`: `[]BinaryAndNoteKept`, `RestartRunsUpgrade`. `SuInv` says where the binary is at each step of an update that has it to itself (`SuPlace`) and in which
  one place the request of a chat is (`SuNoteInv`); `SuExact` says which version is in each file (`SuVersions`).

The assumptions on constants say that ids of different kinds differ (actors and the values that stand for none, the names of settings and of
engines, the switch of a session and its work) and that bounds are numbers; two say more: the targets of an upgrade are a finite sequence
(`AgentUpgradeAssumption`), and capacity and number of turns of an agent are positive (`AgentAssumption`). Every run evaluates those of its modules.

Only model-checked: liveness (fairness and `ENABLED` are out of the prover's reach): `AwakeQueueDrains`, `WorkComesToRest`, `SemWaitersServed`, `JobsSettle`, `LinkRecovers`, `ReviewEnds`,
`ConfigTakenUp`, `EventsArrive`, `CloseEnds`, `TurnSettles` and `WorkspaceReturns`; and the statements outside the runs that are not
listed here (`KnownTurnsBlocked`, `OverlapOnlyInBind`, `QueueBounded`, `ProcessOfActiveSession`, `BackoffKept`, `SetupPinned`).

## Not modelled

- *Rate limiter*: a sliding window under one mutex.
- *HTTP API*: requests are decoded in front of the operations of the engine; its cron handlers are callers in `CronScheduler`.
- *Attach, agent authentication, doctor, speech, TTS, provider proxy*: input/output around the engine; `/attach` itself
  is an action of `AgentTurnLock` and a reset in `SessionStore`. The login of an agent with `authStale` is not modelled.
- *Skills, commands, cards, translation, rendering*: sequential lookups and text layout. `i18n.go` alone is 2,980 lines of texts.
- *Sending on the platforms*: cards, media, formatting; a call of a platform is an outcome in `StreamPreview`.
- *Bindings of the relay*: a map under one mutex; a relay request is a client in `AgentTurnLock`.
- *Listing of agent sessions, model and effort selection of the agents*: reading of files and command lines.
- *Command line, daemon, packaging*, except for updates and provider commands.
- *Arithmetic*: `ParseLoopIntervalSpec` (`cron.go:683`) may overflow for an absurd interval; intervals are abstract.

## Plan

1. Theorems for what is stated and not in a run: `QueueBounded` and `ProcessOfActiveSession` over `GateInv` and `TransInv`, `KnownTurnsBlocked` and
   `OverlapOnlyInBind` over the invariant of `AgentTurnLock_proofs`, `SetupPinned` over `WsInv`, `BackoffKept` over `UpInv`.
2. `TurnOrder`, an abstract serial server per chat, implemented by `ChatTurns` without direct
   commands; `GateInv` and `FifoInv` are what its refinement needs.
3. The stages between `handleMessage` and the busy test (edit forms, banned words, rate limit), and `authStale`, in `Intake` and `ChatTurns`.
4. Sending on the platforms: order and partial failure of split messages.
