------------------------------ MODULE AgentUpgrade ------------------------------
(* Updates of the agents' programs beside their turns.  A loop runs updates on *)
(* a timer, users run them by command.  An update marks its target as running  *)
(* and then counts the busy sessions; a prompt of that agent sets its busy     *)
(* flag and then looks at the mark again.  Prompts that were queued, cron runs *)
(* and reviews do not look.                                                    *)
EXTENDS Integers, Sequences, SequencesExt

CONSTANTS
    UpLoop,       \* the goroutine of the manager
    UpUsers,      \* goroutines of /agent-upgrade run
    UpTargets,    \* the targets in the order of their names
    UpChats,      \* sessions
    UpAgentOf,    \* the agent of each of them
    MaxFailures,  \* max_failures of the targets, as configured
    MaxUpdates,   \* bound: update commands
    MaxReloads,   \* bound: ApplyConfig calls
    MaxUpTurns    \* bound: turns

ASSUME AgentUpgradeAssumption ==
    /\ UpLoop \notin UpUsers
    /\ UpTargets \in Seq(ToSet(UpTargets))
    /\ {MaxUpdates, MaxReloads, MaxUpTurns} \subseteq Nat
    /\ MaxFailures \in Nat \ {0}

Runners == UpUsers \cup {UpLoop}
Upgradable == ToSet(UpTargets)
UpConfigs == [enabled : BOOLEAN, policy : {"off", "check_only", "idle_only"}, on : SUBSET Upgradable]

VARIABLES
    upCfg,       \* cfg
    upReloads,   \* ApplyConfig calls so far; the version of cfg
    upRanFor,    \* history: the version of the last automatic run or check
    upWake,      \* wakeCh holds a token
    upLoop,      \* where the loop is
    upRun,       \* what each runner is doing
    upRunning,   \* running
    upFails,     \* ConsecutiveFailures of each target
    upBackoff,   \* targets whose BackoffUntil lies ahead
    upElapsed,   \* history: targets whose last backoff is over
    upUpdates,   \* update commands so far
    upBusy,      \* busy flags
    upAlive,     \* sessions whose agent lives
    upTurn,      \* the turn of each session
    upTurns      \* turns so far

upConfig == <<upCfg, upReloads, upWake>>
upTargets == <<upRunning, upFails, upBackoff, upElapsed, upUpdates>>
upChats == <<upBusy, upAlive, upTurn, upTurns>>
upVars == <<upConfig, upRanFor, upLoop, upRun, upTargets, upChats>>

NoRun == [at |-> "idle", left |-> <<>>, auto |-> FALSE, on |-> {}, counted |-> {}, late |-> FALSE]
NoUpTurn == [at |-> "idle", slipped |-> FALSE]

UpInit ==
    /\ upCfg \in UpConfigs /\ upReloads = 0 /\ upRanFor = -1
    /\ upWake = TRUE /\ upLoop = "top"
    /\ upRun = [r \in Runners |-> NoRun]
    /\ upRunning = {} /\ upBackoff = {} /\ upElapsed = {}
    /\ upFails = [t \in Upgradable |-> 0]
    /\ upUpdates = 0
    /\ upBusy = {} /\ upAlive = {}
    /\ upTurn = [c \in UpChats |-> NoUpTurn] /\ upTurns = 0

RunnerTo(r, label) == upRun' = [upRun EXCEPT ![r].at = label]
Target(r) == Head(upRun[r].left)

-----------------------------------------------------------------------------
\* Mutant of ApplyConfig: the loop is not woken.
ApplyConfig_Silent ==
    /\ upReloads < MaxReloads
    /\ upReloads' = upReloads + 1
    /\ upCfg' \in UpConfigs
    /\ UNCHANGED <<upWake, upRanFor, upLoop, upRun, upTargets, upChats>>

\* A reload of the configuration; a token that is already there suffices.
ApplyConfig ==
    /\ upReloads < MaxReloads
    /\ upReloads' = upReloads + 1
    /\ upCfg' \in UpConfigs
    /\ upWake' = TRUE
    /\ UNCHANGED <<upRanFor, upLoop, upRun, upTargets, upChats>>

\* Automatic runs are configured.
AutoOn == upCfg.enabled /\ upCfg.policy # "off"

\* The loop reads the configuration: it sleeps until it is woken, or has a timer too.
LoopReads ==
    /\ upLoop = "top"
    /\ upLoop' = IF AutoOn THEN "timer" ELSE "asleep"
    /\ UNCHANGED <<upConfig, upRanFor, upRun, upTargets, upChats>>

LoopWoken ==
    /\ upLoop \in {"timer", "asleep"}
    /\ upWake
    /\ upWake' = FALSE
    /\ upLoop' = "top"
    /\ UNCHANGED <<upCfg, upReloads, upRanFor, upRun, upTargets, upChats>>

\* snapshotDeps: the run takes the configuration as it is now, for all of its targets.
RunBegins(r, targets, auto) ==
    upRun' = [upRun EXCEPT ![r] = [NoRun EXCEPT !.at = "next", !.left = targets, !.auto = auto, !.on = upCfg.on]]

\* The timer: AutoCheck reads the configuration anew.
LoopTimer ==
    /\ upLoop = "timer"
    /\ IF AutoOn THEN upRanFor' = upReloads ELSE UNCHANGED upRanFor
    /\ IF AutoOn /\ upCfg.policy = "idle_only"
       THEN RunBegins(UpLoop, UpTargets, TRUE) /\ upLoop' = "runs"
       ELSE UNCHANGED upRun /\ upLoop' = "top"
    /\ UNCHANGED <<upConfig, upTargets, upChats>>

LoopRan ==
    /\ upLoop = "runs" /\ upRun[UpLoop].at = "idle"
    /\ upLoop' = "top"
    /\ UNCHANGED <<upConfig, upRanFor, upRun, upTargets, upChats>>

\* /agent-upgrade run, of one target or of all.
UserRuns(r) ==
    /\ upRun[r].at = "idle" /\ upUpdates < MaxUpdates
    /\ upCfg.enabled
    /\ \E targets \in {UpTargets} \cup {<<t>> : t \in Upgradable} : RunBegins(r, targets, FALSE)
    /\ UNCHANGED <<upConfig, upRanFor, upLoop, upTargets, upChats>>

-----------------------------------------------------------------------------
\* The next target, or the end of the run.
NextTarget(r) == upRun' = [upRun EXCEPT ![r].left = Tail(@), ![r].at = "next", ![r].counted = {}, ![r].late = FALSE]

RunEnds(r) ==
    /\ upRun[r].at = "next" /\ upRun[r].left = <<>>
    /\ upRun' = [upRun EXCEPT ![r] = NoRun]
    /\ UNCHANGED <<upConfig, upRanFor, upLoop, upTargets, upChats>>

\* The target is resolved, its backoff looked at if the run is automatic, and its settings
\* as they were when the run began; it may have no command, or one that must not be run.
RunChecks(r) ==
    /\ upRun[r].at = "next" /\ upRun[r].left # <<>>
    /\ \/ NextTarget(r)
       \/ /\ ~(upRun[r].auto /\ Target(r) \in upBackoff)
          /\ Target(r) \in upRun[r].on
          /\ RunnerTo(r, "begin")
    /\ UNCHANGED <<upConfig, upRanFor, upLoop, upTargets, upChats>>

\* beginTargetRun
BeginTarget(r) ==
    /\ upRun[r].at = "begin"
    /\ IF Target(r) \in upRunning
       THEN NextTarget(r) /\ UNCHANGED upRunning
       ELSE upRunning' = upRunning \cup {Target(r)} /\ RunnerTo(r, "count")
    /\ UNCHANGED <<upConfig, upRanFor, upLoop, upFails, upBackoff, upElapsed, upUpdates, upChats>>

EndTarget(r) == upRunning' = upRunning \ {Target(r)} /\ NextTarget(r)

\* BusySessionCount: one session after the other.
CountsBusy(r) ==
    /\ upRun[r].at = "count"
    /\ \E c \in UpChats \ upRun[r].counted :
        /\ UpAgentOf[c] = Target(r)
        /\ IF c \in upBusy
           THEN EndTarget(r)
           ELSE upRun' = [upRun EXCEPT ![r].counted = @ \cup {c}] /\ UNCHANGED upRunning
    /\ UNCHANGED <<upConfig, upRanFor, upLoop, upFails, upBackoff, upElapsed, upUpdates, upChats>>

\* The version is good enough already, or the update command is started.
UpdateStarts(r) ==
    /\ upRun[r].at = "count"
    /\ {c \in UpChats : UpAgentOf[c] = Target(r)} \subseteq upRun[r].counted
    /\ \/ EndTarget(r) /\ upFails' = [upFails EXCEPT ![Target(r)] = 0] /\ upBackoff' = upBackoff \ {Target(r)}
          /\ UNCHANGED upUpdates
       \/ upUpdates < MaxUpdates /\ upUpdates' = upUpdates + 1
          /\ RunnerTo(r, "update") /\ UNCHANGED <<upRunning, upFails, upBackoff>>
    /\ UNCHANGED <<upConfig, upRanFor, upLoop, upElapsed, upChats>>

RecordFailure(t) ==
    /\ upFails' = [upFails EXCEPT ![t] = @ + 1]
    /\ upBackoff' = IF upFails[t] + 1 >= MaxFailures THEN upBackoff \cup {t} ELSE upBackoff
    /\ upElapsed' = upElapsed \ {t}

\* The update command ends, or its time is over.  Failures put a target off; automatic runs
\* that have looked at the backoff before are noted.
UpdateEnds(r) ==
    /\ upRun[r].at = "update"
    /\ upRunning' = upRunning \ {Target(r)}
    /\ \/ /\ RecordFailure(Target(r))
          /\ upRun' = [q \in Runners |->
                IF q = r THEN [upRun[r] EXCEPT !.left = Tail(@), !.at = "next", !.counted = {}, !.late = FALSE]
                ELSE IF upRun[q].at = "begin" /\ Target(q) = Target(r) THEN [upRun[q] EXCEPT !.late = TRUE]
                ELSE upRun[q]]
       \/ /\ upFails' = [upFails EXCEPT ![Target(r)] = 0]
          /\ upBackoff' = upBackoff \ {Target(r)}
          /\ NextTarget(r)
          /\ UNCHANGED upElapsed
    /\ UNCHANGED <<upConfig, upRanFor, upLoop, upUpdates, upChats>>

BackoffPasses ==
    \E t \in upBackoff :
        /\ upBackoff' = upBackoff \ {t} /\ upElapsed' = upElapsed \cup {t}
        /\ UNCHANGED <<upConfig, upRanFor, upLoop, upRun, upRunning, upFails, upUpdates, upChats>>

-----------------------------------------------------------------------------
TurnTo(c, label) == upTurn' = [upTurn EXCEPT ![c].at = label]
EndsTurn(c) == upBusy' = upBusy \ {c} /\ upTurn' = [upTurn EXCEPT ![c] = NoUpTurn]

\* A prompt of a message, or the flush of a collection: refused while the agent is updated ...
TurnChecks(c) ==
    /\ upTurn[c].at = "idle" /\ upTurns < MaxUpTurns
    /\ UpAgentOf[c] \notin upRunning
    /\ upTurns' = upTurns + 1
    /\ TurnTo(c, "lock")
    /\ UNCHANGED <<upConfig, upRanFor, upLoop, upRun, upTargets, upBusy, upAlive>>

TurnLocks(c) ==
    /\ upTurn[c].at = "lock"
    /\ upBusy' = upBusy \cup {c}
    /\ TurnTo(c, "recheck")
    /\ UNCHANGED <<upConfig, upRanFor, upLoop, upRun, upTargets, upAlive, upTurns>>

\* Mutant of TurnRechecks: no second look.
TurnRechecks_Not(c) ==
    /\ upTurn[c].at = "recheck"
    /\ TurnTo(c, "state")
    /\ UNCHANGED <<upConfig, upRanFor, upLoop, upRun, upTargets, upBusy, upAlive, upTurns>>

\* ... and once more when the busy flag is set.
TurnRechecks(c) ==
    /\ upTurn[c].at = "recheck"
    /\ IF UpAgentOf[c] \in upRunning THEN EndsTurn(c) ELSE TurnTo(c, "state") /\ UNCHANGED upBusy
    /\ UNCHANGED <<upConfig, upRanFor, upLoop, upRun, upTargets, upAlive, upTurns>>

\* A queued prompt, a cron run, a review, or a custom command or skill, which messages begin
\* too (executeCustomCommand, executeSkill), sets the busy flag and never looks at the mark.
OtherLocks(c) ==
    /\ upTurn[c].at = "idle" /\ upTurns < MaxUpTurns
    /\ upTurns' = upTurns + 1
    /\ upBusy' = upBusy \cup {c}
    /\ upTurn' = [upTurn EXCEPT ![c] = [at |-> "state", slipped |-> UpAgentOf[c] \in upRunning]]
    /\ UNCHANGED <<upConfig, upRanFor, upLoop, upRun, upTargets, upAlive>>

\* getOrCreateInteractiveState: an agent that lives is used, also during an update; a new
\* one is refused then.
UpTurnTakesState(c) ==
    /\ upTurn[c].at = "state"
    /\ IF c \notin upAlive /\ UpAgentOf[c] \in upRunning
       THEN EndsTurn(c) /\ UNCHANGED upAlive
       ELSE TurnTo(c, "turn") /\ upAlive' = upAlive \cup {c} /\ UNCHANGED upBusy
    /\ UNCHANGED <<upConfig, upRanFor, upLoop, upRun, upTargets, upTurns>>

\* The turn ends; its agent may have.
UpTurnEnds(c) ==
    /\ upTurn[c].at = "turn"
    /\ EndsTurn(c)
    /\ upAlive' \in {upAlive, upAlive \ {c}}
    /\ UNCHANGED <<upConfig, upRanFor, upLoop, upRun, upTargets, upTurns>>

UpRunStep(r) ==
    \/ RunEnds(r) \/ RunChecks(r) \/ BeginTarget(r) \/ CountsBusy(r) \/ UpdateStarts(r) \/ UpdateEnds(r)

UpLoopStep == LoopReads \/ LoopWoken \/ LoopRan

UpTurnStep(c) == TurnLocks(c) \/ TurnRechecks(c) \/ UpTurnTakesState(c) \/ UpTurnEnds(c)

UpNext ==
    \/ ApplyConfig
    \/ UpLoopStep \/ LoopTimer
    \/ \E r \in UpUsers : UserRuns(r)
    \/ \E r \in Runners : UpRunStep(r)
    \/ BackoffPasses
    \/ \E c \in UpChats : TurnChecks(c) \/ OtherLocks(c) \/ UpTurnStep(c)

\* Goroutines go on, a timer fires when nobody wakes the loop before, and the commands end
\* (a program that keeps the output open keeps its target marked).
UpFairness ==
    /\ WF_upVars(UpLoopStep) /\ WF_upVars(LoopTimer)
    /\ \A r \in Runners : WF_upVars(UpRunStep(r))

UpSpec == UpInit /\ [][UpNext]_upVars /\ UpFairness

-----------------------------------------------------------------------------
\* While the program of an agent is updated no turn uses it and no other update changes it.
\* The exception is that of the code: a turn that never looks at the mark and set its busy flag
\* when the update was under way.  Only the prompts of messages and the flushes look (handleMessage,
\* flushPendingCollection); queued prompts, cron runs, reviews, custom commands and skills do not.
UpdateAlone ==
    \A r \in Runners :
        upRun[r].at = "update" =>
            /\ \A c \in UpChats : UpAgentOf[c] = Target(r) /\ upTurn[c].at = "turn" => upTurn[c].slipped
            /\ \A q \in Runners \ {r} : ~(upRun[q].at = "update" /\ Target(q) = Target(r))

\* After max_failures failures in a row the loop does not update a target before its backoff
\* is over.  Excepted is a run that looked at the backoff before the failure.
BackoffKept ==
    upRun[UpLoop].at = "update" =>
        \/ upFails[Target(UpLoop)] < MaxFailures
        \/ Target(UpLoop) \in upElapsed
        \/ upRun[UpLoop].late

\* A configuration that turns automatic runs on is taken up, whatever the loop was doing, as
\* long as it stays.
ConfigTakenUp == (AutoOn /\ upRanFor < upReloads) ~> (~AutoOn \/ upRanFor = upReloads)
=============================================================================
