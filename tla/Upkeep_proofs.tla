----------------------------- MODULE Upkeep_proofs -----------------------------
(* What holds of the upkeep of the installation, beside the work of the chats: *)
(* the updates of the agents' programs, the configuration file and the binary  *)
(* of the service itself.                                                      *)
EXTENDS AgentUpgrade, ConfigFile, SelfUpdate, TLAPS

-----------------------------------------------------------------------------
(* AgentUpgrade: an update has the program of its target to itself. *)

UpRunRecords ==
    [at : {"idle", "next", "begin", "count", "update"}, left : Seq(Upgradable), auto : BOOLEAN,
     on : SUBSET Upgradable, counted : SUBSET UpChats, late : BOOLEAN]

UpTurnRecords == [at : {"idle", "lock", "recheck", "state", "turn"}, slipped : BOOLEAN]

UpTypeOK ==
    /\ upCfg \in UpConfigs
    /\ upRun \in [Runners -> UpRunRecords]
    /\ upTurn \in [UpChats -> UpTurnRecords]

\* A runner that has marked its target and not yet unmarked it.
Marks(r) == upRun[r].at \in {"count", "update"}

\* Chat c, were it to have the agent of the target of r, keeps out of its update.
KeepsOut(c) == upTurn[c].at \in {"state", "turn"} => upTurn[c].slipped

\* The loop waits for its run; the marked targets of the runners differ and are in running; a turn past its lock has its
\* busy flag; what a runner has counted as not busy keeps out of the update, and an update
\* has counted every session of its agent.
UpInv ==
    /\ UpTypeOK
    /\ upLoop # "runs" => upRun[UpLoop].at = "idle"
    /\ \A r \in Runners : upRun[r].at \in {"begin", "count", "update"} => upRun[r].left # <<>>
    /\ \A r \in Runners : upRun[r].at \in {"idle", "next", "begin"} => upRun[r].counted = {}
    /\ \A r \in Runners : Marks(r) => Target(r) \in upRunning
    /\ \A r, q \in Runners : Marks(r) /\ Marks(q) /\ Target(r) = Target(q) => r = q
    /\ \A c \in UpChats : upTurn[c].at \in {"recheck", "state", "turn"} => c \in upBusy
    /\ \A r \in Runners, c \in UpChats :
         Marks(r) /\ c \in upRun[r].counted /\ UpAgentOf[c] = Target(r) => KeepsOut(c)
    /\ \A r \in Runners, c \in UpChats :
         upRun[r].at = "update" /\ UpAgentOf[c] = Target(r) => c \in upRun[r].counted

\* The targets of a run, and what is left of them, are a sequence of targets.
LEMMA TargetsTyped ==
    /\ UpTargets \in Seq(Upgradable)
    /\ \A t \in Upgradable : <<t>> \in Seq(Upgradable)
    /\ \A q \in Seq(Upgradable) : q # <<>> => Tail(q) \in Seq(Upgradable) /\ Head(q) \in Upgradable
  BY AgentUpgradeAssumption DEF Upgradable

\* A runner that had not marked a target goes on without one.
LEMMA UnmarkedKeeps ==
    ASSUME UpInv, NEW r \in Runners, ~Marks(r), NEW new \in UpRunRecords,
           new.at \in {"idle", "next", "begin"}, new.counted = {},
           new.at = "begin" => new.left # <<>>,
           upRun' = [upRun EXCEPT ![r] = new],
           UNCHANGED <<upCfg, upRunning, upBusy, upTurn>>,
           \/ UNCHANGED upLoop /\ (upRun[r].at # "idle" \/ r # UpLoop)
           \/ upLoop' = "runs"
    PROVE  UpInv'
  BY DEF UpInv, UpTypeOK, Marks, Target, KeepsOut, Runners

\* A runner that had marked its target unmarks it and goes on to the next one.
LEMMA UnmarkKeeps ==
    ASSUME UpInv, NEW r \in Runners, Marks(r), NEW new \in UpRunRecords,
           new.at = "next", new.counted = {},
           upRun' = [upRun EXCEPT ![r] = new], upRunning' = upRunning \ {Target(r)},
           UNCHANGED <<upCfg, upBusy, upTurn, upLoop>>
    PROVE  UpInv'
  BY DEF UpInv, UpTypeOK, Marks, Target, KeepsOut, Runners

\* What NextTarget leaves of the runner.
LEMMA NextTargetTyped ==
    ASSUME UpInv, NEW r \in Runners, upRun[r].left # <<>>, NextTarget(r)
    PROVE  \E new \in UpRunRecords :
             new.at = "next" /\ new.counted = {} /\ upRun' = [upRun EXCEPT ![r] = new]
  <1> DEFINE new == [upRun[r] EXCEPT !.left = Tail(@), !.at = "next", !.counted = {}, !.late = FALSE]
  <1>1. upRun[r] \in UpRunRecords /\ upRun \in [Runners -> UpRunRecords]
    BY DEF UpInv, UpTypeOK
  <1>2. Tail(upRun[r].left) \in Seq(Upgradable)
    BY <1>1, TargetsTyped DEF UpRunRecords
  <1>3. new \in UpRunRecords /\ new.at = "next" /\ new.counted = {}
    BY <1>1, <1>2 DEF UpRunRecords
  <1>4. upRun' = [upRun EXCEPT ![r] = new]
    BY <1>1, <1>2 DEF NextTarget, UpRunRecords
  <1> HIDE DEF new
  <1> QED
    BY <1>3, <1>4

\* A chat goes on: into a turn only if the program of its agent is not being updated, or
\* marked as slipped; with its busy flag from the lock to the end.
LEMMA ChatKeeps ==
    ASSUME UpInv, NEW c \in UpChats, NEW new \in UpTurnRecords,
           upTurn' = [upTurn EXCEPT ![c] = new],
           UNCHANGED <<upCfg, upRun, upRunning, upLoop>>,
           upBusy' = upBusy \/ upBusy' = upBusy \cup {c}
               \/ (upBusy' = upBusy \ {c} /\ new.at \in {"idle", "lock"}),
           new.at \in {"recheck", "state", "turn"} => c \in upBusy',
           new.at \in {"state", "turn"} =>
               \/ new.slipped
               \/ UpAgentOf[c] \notin upRunning
               \/ upTurn[c].at \in {"state", "turn"} /\ new.slipped = upTurn[c].slipped
    PROVE  UpInv'
  <1>1. UpTypeOK' /\ \A k \in UpChats : k # c => upTurn'[k] = upTurn[k]
    BY DEF UpInv, UpTypeOK
  <1>2. upTurn'[c] = new
    BY DEF UpInv, UpTypeOK
  <1>3. \A k \in UpChats : upTurn'[k].at \in {"recheck", "state", "turn"} => k \in upBusy'
    BY <1>1, <1>2 DEF UpInv
  <1>4. ASSUME NEW r \in Runners, NEW k \in UpChats,
               Marks(r), k \in upRun[r].counted, UpAgentOf[k] = Target(r)
        PROVE  KeepsOut(k)'
    <2>1. KeepsOut(k) /\ Target(r) \in upRunning
      BY <1>4 DEF UpInv
    <2>2. CASE k # c
      BY <1>1, <2>1, <2>2 DEF KeepsOut
    <2>3. CASE k = c
      BY <1>2, <1>4, <2>1, <2>3 DEF KeepsOut
    <2> QED
      BY <2>2, <2>3
  <1> QED
    BY <1>1, <1>3, <1>4 DEF UpInv, Marks, Target

\* A run begins for a runner that has marked nothing.
LEMMA RunBeginsKeeps ==
    ASSUME UpInv, NEW r \in Runners, ~Marks(r), NEW targets \in Seq(Upgradable), NEW auto \in BOOLEAN,
           RunBegins(r, targets, auto), UNCHANGED <<upCfg, upRunning, upBusy, upTurn>>,
           (UNCHANGED upLoop /\ r # UpLoop) \/ upLoop' = "runs"
    PROVE  UpInv'
  <1> DEFINE new == [NoRun EXCEPT !.at = "next", !.left = targets, !.auto = auto, !.on = upCfg.on]
  <1>1. upCfg.on \in SUBSET Upgradable
    BY DEF UpInv, UpTypeOK, UpConfigs
  <1>2. new \in UpRunRecords /\ new.at = "next" /\ new.counted = {}
    BY <1>1 DEF NoRun, UpRunRecords
  <1>3. upRun' = [upRun EXCEPT ![r] = new]
    BY DEF RunBegins
  <1> HIDE DEF new
  <1> QED
    BY <1>2, <1>3, UnmarkedKeeps

\* A run: each target is marked before the sessions are counted, and unmarked after.
LEMMA UpRunStepKeeps ==
    ASSUME UpInv, NEW r \in Runners, UpRunStep(r)
    PROVE  UpInv'
  <1>0. /\ UpTypeOK /\ upRun \in [Runners -> UpRunRecords] /\ upRun[r] \in UpRunRecords
    BY DEF UpInv, UpTypeOK
  <1>1. CASE RunEnds(r)
    <2>1. NoRun \in UpRunRecords /\ NoRun.at = "idle" /\ NoRun.counted = {}
      BY DEF NoRun, UpRunRecords
    <2> QED
      BY <1>1, <2>1, UnmarkedKeeps DEF RunEnds, Marks, upConfig, upTargets, upChats
  <1>2. CASE RunChecks(r)
    <2>1. /\ upRun[r].at = "next" /\ upRun[r].left # <<>> /\ ~Marks(r)
          /\ UNCHANGED <<upCfg, upRunning, upBusy, upTurn, upLoop>>
      BY <1>2 DEF RunChecks, Marks, upConfig, upTargets, upChats
    <2>2. CASE NextTarget(r)
      BY <2>1, <2>2, NextTargetTyped, UnmarkedKeeps
    <2>3. CASE RunnerTo(r, "begin")
      <3> DEFINE new == [upRun[r] EXCEPT !.at = "begin"]
      <3>1. /\ new \in UpRunRecords /\ new.at = "begin" /\ new.counted = upRun[r].counted
            /\ new.left # <<>> /\ upRun' = [upRun EXCEPT ![r] = new]
        BY <1>0, <2>1, <2>3 DEF RunnerTo, UpRunRecords
      <3>2. upRun[r].counted = {}
        BY <2>1 DEF UpInv
      <3> HIDE DEF new
      <3> QED
        BY <2>1, <3>1, <3>2, UnmarkedKeeps
    <2> QED
      BY <1>2, <2>2, <2>3 DEF RunChecks
  <1>3. CASE BeginTarget(r)
    <2>1. /\ upRun[r].at = "begin" /\ upRun[r].left # <<>> /\ ~Marks(r) /\ upRun[r].counted = {}
          /\ UNCHANGED <<upCfg, upBusy, upTurn, upLoop>>
      BY <1>3 DEF BeginTarget, Marks, UpInv, upConfig, upChats
    <2>2. CASE NextTarget(r) /\ UNCHANGED upRunning
      BY <2>1, <2>2, NextTargetTyped, UnmarkedKeeps
    <2>3. CASE /\ Target(r) \notin upRunning /\ upRunning' = upRunning \cup {Target(r)}
               /\ RunnerTo(r, "count")
      <3> DEFINE new == [upRun[r] EXCEPT !.at = "count"]
      <3>1. /\ new \in UpRunRecords /\ new.at = "count" /\ new.counted = {}
            /\ new.left = upRun[r].left /\ upRun' = [upRun EXCEPT ![r] = new]
        BY <1>0, <2>1, <2>3 DEF RunnerTo, UpRunRecords
      <3> HIDE DEF new
      <3> QED
        BY <2>1, <2>3, <3>1 DEF UpInv, UpTypeOK, Marks, Target, KeepsOut
    <2> QED
      BY <1>3, <2>2, <2>3 DEF BeginTarget
  <1>4. CASE CountsBusy(r)
    <2>1. PICK c \in UpChats \ upRun[r].counted :
            /\ UpAgentOf[c] = Target(r)
            /\ IF c \in upBusy
               THEN EndTarget(r)
               ELSE upRun' = [upRun EXCEPT ![r].counted = @ \cup {c}] /\ UNCHANGED upRunning
      BY <1>4 DEF CountsBusy
    <2>2. /\ upRun[r].at = "count" /\ Marks(r) /\ upRun[r].left # <<>>
          /\ UNCHANGED <<upCfg, upBusy, upTurn, upLoop>>
      BY <1>4 DEF CountsBusy, Marks, UpInv, upConfig, upChats
    <2>3. CASE EndTarget(r)
      BY <2>2, <2>3, NextTargetTyped, UnmarkKeeps DEF EndTarget
    <2>4. CASE /\ c \notin upBusy /\ UNCHANGED upRunning
               /\ upRun' = [upRun EXCEPT ![r].counted = @ \cup {c}]
      <3> DEFINE new == [upRun[r] EXCEPT !.counted = @ \cup {c}]
      <3>1. /\ new \in UpRunRecords /\ new.at = "count" /\ new.counted = upRun[r].counted \cup {c}
            /\ new.left = upRun[r].left /\ upRun' = [upRun EXCEPT ![r] = new]
        BY <1>0, <2>2, <2>4 DEF UpRunRecords
      <3>2. KeepsOut(c)
        BY <2>4 DEF UpInv, KeepsOut
      <3> HIDE DEF new
      <3>3. /\ upRun'[r] = new /\ \A q \in Runners : q # r => upRun'[q] = upRun[q]
            /\ upRun' \in [Runners -> UpRunRecords]
        BY <1>0, <3>1
      <3>4. ASSUME NEW q \in Runners
            PROVE  /\ upRun'[q].at = upRun[q].at /\ upRun'[q].left = upRun[q].left
                   /\ upRun[q].counted \subseteq upRun'[q].counted
        BY <2>2, <3>1, <3>3
      <3>5. ASSUME NEW q \in Runners, NEW k \in UpChats, Marks(q)', k \in upRun'[q].counted,
                   UpAgentOf[k] = Target(q)'
            PROVE  KeepsOut(k)'
        <4>1. CASE k \in upRun[q].counted
          BY <2>2, <3>4, <3>5, <4>1 DEF UpInv, Marks, Target, KeepsOut
        <4>2. CASE k \notin upRun[q].counted
          BY <2>2, <3>1, <3>2, <3>3, <3>5, <4>2 DEF KeepsOut
        <4> QED
          BY <4>1, <4>2
      <3>6. \A q \in Runners : upRun'[q].at \in {"idle", "next", "begin"} => upRun'[q].counted = {}
        BY <3>1, <3>3 DEF UpInv
      <3> QED
        BY <2>2, <2>4, <3>3, <3>4, <3>5, <3>6 DEF UpInv, UpTypeOK, Marks, Target, Runners
    <2> QED
      BY <2>1, <2>3, <2>4
  <1>5. CASE UpdateStarts(r)
    <2>2. /\ upRun[r].at = "count" /\ Marks(r) /\ upRun[r].left # <<>>
          /\ UNCHANGED <<upCfg, upBusy, upTurn, upLoop>>
          /\ {c \in UpChats : UpAgentOf[c] = Target(r)} \subseteq upRun[r].counted
      BY <1>5 DEF UpdateStarts, Marks, UpInv, upConfig, upChats
    <2>3. CASE EndTarget(r)
      BY <2>2, <2>3, NextTargetTyped, UnmarkKeeps DEF EndTarget
    <2>4. CASE RunnerTo(r, "update") /\ UNCHANGED upRunning
      <3> DEFINE new == [upRun[r] EXCEPT !.at = "update"]
      <3>1. /\ new \in UpRunRecords /\ new.at = "update" /\ new.counted = upRun[r].counted
            /\ new.left = upRun[r].left /\ upRun' = [upRun EXCEPT ![r] = new]
        BY <1>0, <2>2, <2>4 DEF RunnerTo, UpRunRecords
      <3> HIDE DEF new
      <3> QED
        BY <2>2, <2>4, <3>1 DEF UpInv, UpTypeOK, Marks, Target, KeepsOut
    <2> QED
      BY <1>5, <2>3, <2>4 DEF UpdateStarts
  <1>6. CASE UpdateEnds(r)
    <2>2. /\ upRun[r].at = "update" /\ Marks(r) /\ upRun[r].left # <<>>
          /\ upRunning' = upRunning \ {Target(r)} /\ UNCHANGED <<upCfg, upBusy, upTurn, upLoop>>
      BY <1>6 DEF UpdateEnds, Marks, UpInv, upConfig, upChats
    <2>3. CASE NextTarget(r)
      BY <2>2, <2>3, NextTargetTyped, UnmarkKeeps
    <2>4. CASE upRun' = [q \in Runners |->
                IF q = r THEN [upRun[r] EXCEPT !.left = Tail(@), !.at = "next", !.counted = {}, !.late = FALSE]
                ELSE IF upRun[q].at = "begin" /\ Target(q) = Target(r) THEN [upRun[q] EXCEPT !.late = TRUE]
                ELSE upRun[q]]
      <3>1. /\ upRun' \in [Runners -> UpRunRecords]
            /\ upRun'[r].at = "next" /\ upRun'[r].counted = {}
        <4>1. Tail(upRun[r].left) \in Seq(Upgradable)
          BY <1>0, <2>2, TargetsTyped DEF UpRunRecords
        <4>2. /\ [upRun[r] EXCEPT !.left = Tail(@), !.at = "next", !.counted = {}, !.late = FALSE] \in UpRunRecords
              /\ \A q \in Runners : [upRun[q] EXCEPT !.late = TRUE] \in UpRunRecords
          BY <1>0, <4>1 DEF UpRunRecords
        <4>3. \A q \in Runners : upRun'[q] \in UpRunRecords
          BY <1>0, <2>4, <4>2
        <4> QED
          BY <1>0, <2>4, <4>3 DEF UpRunRecords
      <3>2. \A q \in Runners : q # r =>
              /\ upRun'[q].at = upRun[q].at /\ upRun'[q].left = upRun[q].left
              /\ upRun'[q].counted = upRun[q].counted
        BY <1>0, <2>4 DEF UpRunRecords
      <3>3. \A q \in Runners : Marks(q)' <=> q # r /\ Marks(q)
        BY <3>1, <3>2 DEF Marks
      <3>4. \A q \in Runners : q # r => Target(q)' = Target(q)
        BY <3>2 DEF Target
      <3>5. \A q \in Runners : Marks(q)' => Target(q)' \in upRunning'
        BY <2>2, <3>3, <3>4 DEF UpInv
      <3>6. \A q \in Runners : upRun'[q].at \in {"idle", "next", "begin"} => upRun'[q].counted = {}
        BY <3>1, <3>2 DEF UpInv
      <3>7. \A q, s \in Runners : Marks(q)' /\ Marks(s)' /\ Target(q)' = Target(s)' => q = s
        BY <3>3, <3>4 DEF UpInv
      <3>8. \A q \in Runners, k \in UpChats :
              Marks(q)' /\ k \in upRun'[q].counted /\ UpAgentOf[k] = Target(q)' => KeepsOut(k)'
        BY <2>2, <3>2, <3>3, <3>4 DEF UpInv, KeepsOut
      <3>9. \A q \in Runners, k \in UpChats :
              upRun'[q].at = "update" /\ UpAgentOf[k] = Target(q)' => k \in upRun'[q].counted
        BY <3>1, <3>2, <3>4 DEF UpInv
      <3>10. upLoop' # "runs" => upRun'[UpLoop].at = "idle"
        BY <2>2, <3>2 DEF UpInv, Runners
      <3>11. \A q \in Runners : upRun'[q].at \in {"begin", "count", "update"} => upRun'[q].left # <<>>
        BY <3>1, <3>2 DEF UpInv
      <3> QED
        BY <2>2, <3>1, <3>5, <3>6, <3>7, <3>8, <3>9, <3>10, <3>11 DEF UpInv, UpTypeOK
    <2> QED
      BY <1>6, <2>3, <2>4 DEF UpdateEnds
  <1> QED
    BY <1>1, <1>2, <1>3, <1>4, <1>5, <1>6 DEF UpRunStep

\* The turns: refused while the target is marked, at the check, at the second look and where
\* a new agent would be started.
LEMMA UpTurnsKeep ==
    ASSUME UpInv, NEW c \in UpChats, TurnChecks(c) \/ OtherLocks(c) \/ UpTurnStep(c)
    PROVE  UpInv'
  <1>0. /\ upTurn \in [UpChats -> UpTurnRecords] /\ upTurn[c] \in UpTurnRecords
        /\ UNCHANGED <<upCfg, upRun, upRunning, upLoop>>
    BY DEF UpInv, UpTypeOK, TurnChecks, OtherLocks, UpTurnStep, TurnLocks, TurnRechecks,
           UpTurnTakesState, UpTurnEnds, upConfig, upTargets
  <1>1. \A label \in {"lock", "recheck", "state", "turn"} :
          TurnTo(c, label) =>
            \E new \in UpTurnRecords : /\ new.at = label /\ new.slipped = upTurn[c].slipped
                                       /\ upTurn' = [upTurn EXCEPT ![c] = new]
    <2> SUFFICES ASSUME NEW label \in {"lock", "recheck", "state", "turn"}, TurnTo(c, label)
                 PROVE  \E new \in UpTurnRecords : /\ new.at = label /\ new.slipped = upTurn[c].slipped
                                                   /\ upTurn' = [upTurn EXCEPT ![c] = new]
      OBVIOUS
    <2>1. /\ [upTurn[c] EXCEPT !.at = label] \in UpTurnRecords
          /\ [upTurn[c] EXCEPT !.at = label].at = label
          /\ [upTurn[c] EXCEPT !.at = label].slipped = upTurn[c].slipped
          /\ upTurn' = [upTurn EXCEPT ![c] = [upTurn[c] EXCEPT !.at = label]]
      BY <1>0 DEF TurnTo, UpTurnRecords
    <2> QED
      BY <2>1
  <1>2. EndsTurn(c) => UpInv'
    <2>1. NoUpTurn \in UpTurnRecords /\ NoUpTurn.at = "idle"
      BY DEF NoUpTurn, UpTurnRecords
    <2> QED
      BY <1>0, <2>1, ChatKeeps DEF EndsTurn
  <1>3. CASE TurnChecks(c)
    BY <1>0, <1>1, <1>3, ChatKeeps DEF TurnChecks
  <1>4. CASE TurnLocks(c)
    BY <1>0, <1>1, <1>4, ChatKeeps DEF TurnLocks
  <1>5. CASE TurnRechecks(c)
    <2>1. c \in upBusy
      BY <1>5 DEF TurnRechecks, UpInv
    <2> QED
      BY <1>0, <1>1, <1>2, <1>5, <2>1, ChatKeeps DEF TurnRechecks
  <1>6. CASE OtherLocks(c)
    <2> DEFINE new == [at |-> "state", slipped |-> UpAgentOf[c] \in upRunning]
    <2>1. /\ new \in UpTurnRecords /\ new.at = "state" /\ (new.slipped <=> UpAgentOf[c] \in upRunning)
          /\ upTurn' = [upTurn EXCEPT ![c] = new] /\ upBusy' = upBusy \cup {c}
      <3>1. new.at = "state" /\ upTurn' = [upTurn EXCEPT ![c] = new] /\ upBusy' = upBusy \cup {c}
        BY <1>6 DEF OtherLocks
      <3>2. CASE UpAgentOf[c] \in upRunning
        <4>1. new = [at |-> "state", slipped |-> TRUE]
          BY <3>2
        <4> HIDE DEF new
        <4> QED
          BY <3>1, <3>2, <4>1 DEF UpTurnRecords
      <3>3. CASE UpAgentOf[c] \notin upRunning
        <4>0. (UpAgentOf[c] \in upRunning) = FALSE
          BY <3>3
        <4>1. new = [at |-> "state", slipped |-> FALSE]
          BY <4>0
        <4> HIDE DEF new
        <4> QED
          BY <3>1, <3>3, <4>1 DEF UpTurnRecords
      <3> QED
        BY <3>2, <3>3
    <2> HIDE DEF new
    <2> QED
      BY <1>0, <2>1, ChatKeeps
  <1>7. CASE UpTurnTakesState(c)
    <2>1. c \in upBusy /\ upTurn[c].at = "state"
      BY <1>7 DEF UpTurnTakesState, UpInv
    <2> QED
      BY <1>0, <1>1, <1>2, <1>7, <2>1, ChatKeeps DEF UpTurnTakesState
  <1>8. CASE UpTurnEnds(c)
    BY <1>2, <1>8 DEF UpTurnEnds
  <1> QED
    BY <1>3, <1>4, <1>5, <1>6, <1>7, <1>8 DEF UpTurnStep

\* Every step keeps updates and turns apart.
LEMMA UpNextKeeps == UpInv /\ [UpNext]_upVars => UpInv'
  <1> SUFFICES ASSUME UpInv, [UpNext]_upVars
               PROVE  UpInv'
    OBVIOUS
  <1>1. ASSUME UNCHANGED <<upRun, upRunning, upBusy, upTurn>>, upCfg' \in UpConfigs,
               upLoop' = "runs" \/ upLoop # "runs" \/ upRun[UpLoop].at = "idle"
        PROVE  UpInv'
    BY <1>1 DEF UpInv, UpTypeOK, Marks, Target, KeepsOut
  <1>2. CASE ApplyConfig
    BY <1>1, <1>2 DEF ApplyConfig, upTargets, upChats
  <1>3. upCfg \in UpConfigs
    BY DEF UpInv, UpTypeOK
  <1>4. CASE UpLoopStep \/ BackoffPasses \/ UNCHANGED upVars
    BY <1>1, <1>3, <1>4 DEF UpLoopStep, LoopReads, LoopWoken, LoopRan, BackoffPasses, upVars,
         upConfig, upTargets, upChats
  <1>5. CASE LoopTimer
    <2>1. UNCHANGED <<upCfg, upRunning, upBusy, upTurn>>
      BY <1>5 DEF LoopTimer, upConfig, upTargets, upChats
    <2>2. UpLoop \in Runners /\ ~Marks(UpLoop) /\ upLoop # "runs"
      BY <1>5 DEF LoopTimer, UpInv, Marks, Runners
    <2> QED
      BY <1>1, <1>3, <1>5, <2>1, <2>2, RunBeginsKeeps, TargetsTyped DEF LoopTimer
  <1>6. ASSUME NEW r \in UpUsers, UserRuns(r)
        PROVE  UpInv'
    <2>1. /\ UNCHANGED <<upCfg, upRunning, upBusy, upTurn, upLoop>> /\ ~Marks(r)
          /\ r \in Runners /\ r # UpLoop
          /\ \E targets \in {UpTargets} \cup {<<t>> : t \in Upgradable} : RunBegins(r, targets, FALSE)
      BY <1>6, AgentUpgradeAssumption DEF UserRuns, Marks, Runners, upConfig, upTargets, upChats
    <2> QED
      BY <2>1, RunBeginsKeeps, TargetsTyped
  <1> QED
    BY <1>2, <1>4, <1>5, <1>6, UpRunStepKeeps, UpTurnsKeep DEF UpNext

\* While an agent's program is updated no turn uses it, other than one that slipped in by a way
\* that does not look (a queued prompt, a cron run, a review, a custom command or a skill), and no
\* other update changes it.
THEOREM UpdatesAlone == UpSpec => []UpdateAlone
  <1>1. UpInit => UpInv
    <2>1. /\ NoRun \in UpRunRecords /\ NoRun.at = "idle" /\ NoRun.counted = {}
          /\ NoUpTurn \in UpTurnRecords /\ NoUpTurn.at = "idle" /\ UpLoop \in Runners
      BY DEF NoRun, UpRunRecords, NoUpTurn, UpTurnRecords, Runners
    <2> QED
      BY <2>1 DEF UpInit, UpInv, UpTypeOK, Marks
  <1>2. UpInv => UpdateAlone
    BY DEF UpInv, UpdateAlone, Marks, KeepsOut
  <1> QED
    BY <1>1, <1>2, UpNextKeeps, PTL DEF UpSpec

-----------------------------------------------------------------------------
(* ConfigFile: no save of the service is lost. *)

\* The shape of what a handler does; its lists are of any length and its file any file.
CfFields == {"at", "engine", "do", "key", "name", "list", "read", "crossed"}
CfFull(op) == op = [f \in CfFields |-> op[f]]

CfIsOp(op) == op = CfIdle \/ CfFull(op)

CfShape ==
    /\ cfOp = [h \in CfActors |-> cfOp[h]]
    /\ \A h \in CfActors : CfIsOp(cfOp[h])

\* A save of the service holds the mutex from its reading to its end; what a save has read is
\* the file still, or a save of the other process came in between; and the file is the outcome
\* of all saves, unless such a save has been written.
CfInv ==
    /\ CfShape
    /\ \A h \in CfHandlers : CfAt(h, "write") => cfMu = h
    /\ \A h \in CfActors : CfAt(h, "write") => cfOp[h].crossed \/ cfOp[h].read = cfFile
    /\ NoSaveLost

\* A command goes on to a step that is not the writing one, or begins there with what it reads.
LEMMA CfGoesKeeps ==
    ASSUME CfInv, NEW h \in CfActors, NEW new, CfIsOp(new), new.at # "write",
           cfOp' = [cfOp EXCEPT ![h] = new], UNCHANGED <<cfFile, cfWrites, cfLost>>,
           \/ cfMu' = cfMu
           \/ h \in CfHandlers /\ CfAt(h, "write") /\ cfMu' = NoName
    PROVE  CfInv'
  <1>1. /\ cfOp'[h] = new /\ \A b \in CfActors : b # h => cfOp'[b] = cfOp[b]
        /\ cfOp' = [b \in CfActors |-> cfOp'[b]]
    BY DEF CfInv, CfShape
  <1>2. CfShape'
    BY <1>1 DEF CfInv, CfShape
  <1>3. \A b \in CfHandlers : CfAt(b, "write")' => b # h /\ CfAt(b, "write") /\ cfMu = b
    BY <1>1 DEF CfInv, CfAt, CfActors
  <1>4. \A b \in CfHandlers : CfAt(b, "write")' => cfMu' = b
    BY <1>3 DEF CfInv
  <1>5. \A b \in CfActors : CfAt(b, "write")' => cfOp'[b].crossed \/ cfOp'[b].read = cfFile
    BY <1>1 DEF CfInv, CfAt
  <1> QED
    BY <1>2, <1>4, <1>5 DEF CfInv, NoSaveLost

\* What is taken up has the shape of a command, and so has what it goes on with.
LEMMA CfNewShape ==
    ASSUME NEW e, NEW do, NEW key, NEW name, NEW step
    PROVE  CfFull(CfNew(e, do, key, name, step)) /\ CfNew(e, do, key, name, step).at = step
  BY DEF CfNew, CfFull, CfFields

LEMMA CfEditShape ==
    ASSUME NEW op, CfFull(op), NEW v
    PROVE  /\ CfFull([op EXCEPT !.list = v]) /\ [op EXCEPT !.list = v].at = op.at
           /\ CfFull([op EXCEPT !.name = v]) /\ [op EXCEPT !.name = v].at = op.at
           /\ CfFull([op EXCEPT !.read = v]) /\ [op EXCEPT !.read = v].at = op.at
           /\ CfFull([op EXCEPT !.at = v]) /\ [op EXCEPT !.at = v].at = v
           /\ CfFull([op EXCEPT !.crossed = v]) /\ [op EXCEPT !.crossed = v].at = op.at
           /\ [op EXCEPT !.crossed = v].crossed = v
  BY DEF CfFull, CfFields

\* A command that is under way goes on to another step, or ends.
LEMMA CfStepKeeps ==
    ASSUME CfInv, NEW h \in CfActors, UNCHANGED <<cfFile, cfWrites, cfLost>>,
           \/ cfMu' = cfMu
           \/ h \in CfHandlers /\ CfAt(h, "write") /\ cfMu' = NoName,
           \/ CfEnds(h)
           \/ ~CfAt(h, "idle") /\ \E step \in {"save", "active", "clear", "fill"} : CfGoes(h, step)
    PROVE  CfInv'
  <1>1. CASE CfEnds(h)
    <2>1. CfIsOp(CfIdle) /\ CfIdle.at # "write"
      BY DEF CfIsOp, CfIdle
    <2> QED
      BY <1>1, <2>1, CfGoesKeeps DEF CfEnds
  <1>2. ASSUME NEW step \in {"save", "active", "clear", "fill"}, ~CfAt(h, "idle"), CfGoes(h, step)
        PROVE  CfInv'
    <2> DEFINE new == [cfOp[h] EXCEPT !.at = step]
    <2>1. CfFull(cfOp[h])
      BY <1>2 DEF CfInv, CfShape, CfIsOp, CfIdle, CfAt
    <2>2. CfIsOp(new) /\ new.at # "write"
      BY <2>1, CfEditShape DEF CfIsOp
    <2>3. cfOp' = [cfOp EXCEPT ![h] = new]
      BY <1>2 DEF CfGoes
    <2> HIDE DEF new
    <2> QED
      BY <2>2, <2>3, CfGoesKeeps
  <1> QED
    BY <1>1, <1>2

\* What is taken up is not the writing of a file.
LEMMA CfTakenShape ==
    ASSUME NEW e, NEW do, NEW key, NEW name, NEW v, NEW step \in {"add", "save", "list", "providers"}
    PROVE  LET new == CfNew(e, do, key, name, step) IN
             /\ CfIsOp(new) /\ new.at # "write"
             /\ CfIsOp([new EXCEPT !.list = v]) /\ [new EXCEPT !.list = v].at # "write"
             /\ CfIsOp([new EXCEPT !.name = v]) /\ [new EXCEPT !.name = v].at # "write"
             /\ CfIsOp([new EXCEPT !.read = v]) /\ [new EXCEPT !.read = v].at # "write"
  <1> DEFINE new == CfNew(e, do, key, name, step)
  <1>1. CfFull(new) /\ new.at = step
    BY CfNewShape
  <1> HIDE DEF new
  <1>2. /\ CfIsOp(new) /\ CfIsOp([new EXCEPT !.list = v]) /\ CfIsOp([new EXCEPT !.name = v])
        /\ CfIsOp([new EXCEPT !.read = v])
        /\ [new EXCEPT !.list = v].at = step /\ [new EXCEPT !.name = v].at = step
        /\ [new EXCEPT !.read = v].at = step
    BY <1>1, CfEditShape DEF CfIsOp
  <1> QED
    BY <1>1, <1>2 DEF new

\* The mutex is taken and the file read.
LEMMA CfReadKeeps ==
    ASSUME CfInv, NEW h \in CfActors, SaveReads(h)
    PROVE  CfInv'
  <1> DEFINE to == [cfOp[h] EXCEPT !.at = "write"]
             new == [to EXCEPT !.read = cfFile]
  <1>1. CfFull(cfOp[h])
    BY DEF SaveReads, CfInv, CfShape, CfIsOp, CfIdle, CfAt
  <1>2. CfFull(to) /\ to.at = "write"
    BY <1>1, CfEditShape
  <1>3. cfOp' = [cfOp EXCEPT ![h] = new]
    BY <1>1 DEF SaveReads, CfInv, CfShape
  <1> HIDE DEF to
  <1>4. CfFull(new) /\ new.at = "write" /\ new.read = cfFile
    BY <1>2, CfEditShape DEF CfFull, CfFields
  <1> HIDE DEF new
  <1>5. /\ cfOp'[h] = new /\ \A b \in CfActors : b # h => cfOp'[b] = cfOp[b]
        /\ cfOp' = [b \in CfActors |-> cfOp'[b]]
    BY <1>3 DEF CfInv, CfShape
  <1>6. UNCHANGED <<cfFile, cfWrites, cfLost>>
    BY DEF SaveReads, cfHistory
  <1>7. \A b \in CfHandlers : CfAt(b, "write")' => cfMu' = b
    <2>1. CASE h = CfCli
      BY <1>5, <2>1, ConfigFileAssumption DEF SaveReads, MuTaken, CfInv, CfAt, CfActors
    <2>2. CASE h # CfCli
      <3>1. cfMu = NoName /\ cfMu' = h
        BY <2>2 DEF SaveReads, MuFree, MuTaken
      <3>2. \A b \in CfHandlers : ~CfAt(b, "write")
        BY <3>1, ConfigFileAssumption DEF CfInv
      <3> QED
        BY <1>5, <3>1, <3>2 DEF CfAt, CfActors
    <2> QED
      BY <2>1, <2>2
  <1>8. \A b \in CfActors : CfAt(b, "write")' => cfOp'[b].crossed \/ cfOp'[b].read = cfFile
    BY <1>4, <1>5 DEF CfInv, CfAt
  <1>9. CfShape'
    BY <1>4, <1>5 DEF CfInv, CfShape, CfIsOp
  <1> QED
    BY <1>6, <1>7, <1>8, <1>9 DEF CfInv, NoSaveLost

\* A save is written: what it had read is the file still, unless it was crossed, and a save of
\* the other process that has read is crossed by it.
LEMMA CfRenameKeeps ==
    ASSUME CfInv, NEW h \in CfActors, SaveRenames(h)
    PROVE  CfInv'
  <1>1. /\ CfAt(h, "write") /\ ~Refuses(cfOp[h].read, cfOp[h])
        /\ cfFile' = Edit(cfOp[h].read, cfOp[h])
        /\ cfWrites' = IF Refuses(cfWrites, cfOp[h]) THEN cfWrites ELSE Edit(cfWrites, cfOp[h])
        /\ cfLost' = (cfLost \/ cfOp[h].crossed)
        /\ cfOp' = [b \in CfActors |->
                       IF b = h THEN CfIdle
                       ELSE IF CfCli \in {b, h} /\ CfAt(b, "write") THEN [cfOp[b] EXCEPT !.crossed = TRUE]
                       ELSE cfOp[b]]
    BY DEF SaveRenames
  <1>2. ASSUME NEW b \in CfActors, b # h, CfAt(b, "write")
        PROVE  /\ cfOp'[b] = [cfOp[b] EXCEPT !.crossed = TRUE]
               /\ CfFull(cfOp'[b]) /\ cfOp'[b].at = "write" /\ cfOp'[b].crossed
    <2>1. CfCli \in {b, h}
      BY <1>1, <1>2 DEF CfInv, CfActors
    <2>2. CfFull(cfOp[b])
      BY <1>2 DEF CfInv, CfShape, CfIsOp, CfIdle, CfAt
    <2>3. cfOp'[b] = [cfOp[b] EXCEPT !.crossed = TRUE]
      BY <1>1, <1>2, <2>1
    <2>4. CfFull(cfOp'[b]) /\ cfOp'[b].at = cfOp[b].at /\ cfOp'[b].crossed = TRUE
      BY <2>2, <2>3 DEF CfFull, CfFields
    <2> QED
      BY <1>2, <2>3, <2>4 DEF CfAt
  <1>3. /\ cfOp'[h] = CfIdle
        /\ \A b \in CfActors : b # h /\ ~CfAt(b, "write") => cfOp'[b] = cfOp[b]
        /\ cfOp' = [b \in CfActors |-> cfOp'[b]]
    BY <1>1
  <1>4. CfShape'
    BY <1>2, <1>3 DEF CfInv, CfShape, CfIsOp
  <1>5. \A b \in CfActors : CfAt(b, "write")' => b # h /\ CfAt(b, "write") /\ cfOp'[b].crossed
    BY <1>2, <1>3 DEF CfAt, CfIdle
  <1>6. \A b \in CfHandlers : CfAt(b, "write")' => cfMu' = b
    <2>1. \A b \in CfHandlers : CfAt(b, "write")' => cfMu = b /\ b # h
      BY <1>5 DEF CfInv, CfActors
    <2>2. h = CfCli \/ cfMu = h
      BY <1>1 DEF CfInv, CfActors
    <2> QED
      BY <2>1, <2>2 DEF SaveRenames, MuLeft
  <1>7. NoSaveLost'
    <2>1. CASE cfLost \/ cfOp[h].crossed
      BY <1>1, <2>1 DEF NoSaveLost
    <2>2. CASE ~cfLost /\ ~cfOp[h].crossed
      BY <1>1, <2>2 DEF CfInv, NoSaveLost
    <2> QED
      BY <2>1, <2>2
  <1> QED
    BY <1>4, <1>5, <1>6, <1>7 DEF CfInv

\* The service dies: what its handlers had begun is gone, what the command line has begun is not.
LEMMA CfCrashKeeps ==
    ASSUME CfInv, CfCrash
    PROVE  CfInv'
  <1>1. /\ cfOp' = [b \in CfActors |-> cfOp'[b]] /\ UNCHANGED <<cfFile, cfWrites, cfLost>>
        /\ \A b \in CfActors : cfOp'[b] = CfIdle \/ (b = CfCli /\ cfOp'[b] = cfOp[b])
    BY DEF CfCrash
  <1>2. \A b \in CfActors : CfAt(b, "write")' => b = CfCli /\ cfOp'[b] = cfOp[b] /\ CfAt(b, "write")
    BY <1>1 DEF CfAt, CfIdle
  <1>3. CfCli \notin CfHandlers
    BY ConfigFileAssumption
  <1>4. CfShape'
    BY <1>1 DEF CfInv, CfShape, CfIsOp
  <1>5. \A b \in CfHandlers : ~CfAt(b, "write")'
    BY <1>2, <1>3 DEF CfActors
  <1>6. \A b \in CfActors : CfAt(b, "write")' => cfOp'[b].crossed \/ cfOp'[b].read = cfFile'
    BY <1>1, <1>2 DEF CfInv
  <1> QED
    BY <1>1, <1>4, <1>5, <1>6 DEF CfInv, NoSaveLost

\* Every step keeps the saves.
LEMMA CfNextKeeps == CfInv /\ [CfNext]_cfVars => CfInv'
  <1> SUFFICES ASSUME CfInv, [CfNext]_cfVars
               PROVE  CfInv'
    OBVIOUS
  <1> USE DEF CfActors
  <1>1. ASSUME NEW h \in CfHandlers, NEW e \in CfEngines,
               \/ \E name \in CfCommandNames : CommandsAdd(h, e, name) \/ CommandsDel(h, e, name)
               \/ \E name \in CfProviders, do \in {"add", "remove"} : ProvidersAsk(h, e, do, name)
               \/ \E name \in CfProviders \cup {NoName} : ProviderSwitch(h, e, name)
               \/ \E key \in Settings \ {"language"}, v \in CfMarks \cup {NoName} : SettingPut(h, e, key, v)
               \/ \E v \in CfMarks : LanguageDetected(h, e, v)
               \/ ReloadLoads(h, e)
        PROVE  CfInv'
    <2>1. CASE \E name \in CfCommandNames : CommandsAdd(h, e, name)
      <3>1. PICK name \in CfCommandNames : CommandsAdd(h, e, name)
        BY <2>1
      <3> DEFINE new == CfNew(e, "add", "commands", name, "add")
      <3>2. CfIsOp(new) /\ new.at # "write"
        BY CfTakenShape
      <3>3. cfOp' = [cfOp EXCEPT ![h] = new] /\ UNCHANGED <<cfFile, cfMu, cfWrites, cfLost>>
        BY <3>1 DEF CommandsAdd, CfTakes
      <3> HIDE DEF new
      <3> QED
        BY <3>2, <3>3, CfGoesKeeps
    <2>2. CASE \E name \in CfCommandNames : CommandsDel(h, e, name)
      <3>1. PICK name \in CfCommandNames : CommandsDel(h, e, name)
        BY <2>2
      <3> DEFINE new == CfNew(e, "remove", "commands", name, "save")
      <3>2. CfIsOp(new) /\ new.at # "write"
        BY CfTakenShape
      <3>3. cfOp' = [cfOp EXCEPT ![h] = new] /\ UNCHANGED <<cfFile, cfMu, cfWrites, cfLost>>
        BY <3>1 DEF CommandsDel, CfTakes
      <3> HIDE DEF new
      <3> QED
        BY <3>2, <3>3, CfGoesKeeps
    <2>3. CASE \E name \in CfProviders, do \in {"add", "remove"} : ProvidersAsk(h, e, do, name)
      <3>1. PICK name \in CfProviders, do \in {"add", "remove"} : ProvidersAsk(h, e, do, name)
        BY <2>3
      <3> DEFINE new == [CfNew(e, do, e, name, "list") EXCEPT !.list = cfMem[e].providers]
      <3>2. CfIsOp(new) /\ new.at # "write"
        <4> DEFINE asked == CfNew(e, do, e, name, "list")
        <4>1. CfFull(asked) /\ asked.at = "list"
          BY CfNewShape
        <4> HIDE DEF asked
        <4>2. CfFull([asked EXCEPT !.list = cfMem[e].providers])
              /\ [asked EXCEPT !.list = cfMem[e].providers].at = "list"
          BY <4>1, CfEditShape
        <4> QED
          BY <4>2 DEF asked, CfIsOp
      <3>3. cfOp' = [cfOp EXCEPT ![h] = new] /\ UNCHANGED <<cfFile, cfMu, cfWrites, cfLost>>
        BY <3>1 DEF ProvidersAsk, CfTakes
      <3> HIDE DEF new
      <3> QED
        BY <3>2, <3>3, CfGoesKeeps
    <2>4. CASE \E name \in CfProviders \cup {NoName} : ProviderSwitch(h, e, name)
      <3>1. PICK name \in CfProviders \cup {NoName} : ProviderSwitch(h, e, name)
        BY <2>4
      <3> DEFINE new == CfNew(e, "put", e, name, "save")
      <3>2. CfIsOp(new) /\ new.at # "write"
        BY CfTakenShape
      <3>3. cfOp' = [cfOp EXCEPT ![h] = new] /\ UNCHANGED <<cfFile, cfMu, cfWrites, cfLost>>
        BY <3>1 DEF ProviderSwitch, CfTakes
      <3> HIDE DEF new
      <3> QED
        BY <3>2, <3>3, CfGoesKeeps
    <2>5. CASE \E key \in Settings \ {"language"}, v \in CfMarks \cup {NoName} : SettingPut(h, e, key, v)
      <3>1. PICK key \in Settings \ {"language"}, v \in CfMarks \cup {NoName} : SettingPut(h, e, key, v)
        BY <2>5
      <3> DEFINE new == [CfNew(e, "put", key, key, "save") EXCEPT !.name = v]
      <3>2. CfIsOp(new) /\ new.at # "write"
        BY ZenonT(40), CfTakenShape
      <3>3. cfOp' = [cfOp EXCEPT ![h] = new] /\ UNCHANGED <<cfFile, cfMu, cfWrites, cfLost>>
        BY <3>1 DEF SettingPut, CfTakes
      <3> HIDE DEF new
      <3> QED
        BY <3>2, <3>3, CfGoesKeeps
    <2>6. CASE \E v \in CfMarks : LanguageDetected(h, e, v)
      <3>1. PICK v \in CfMarks : LanguageDetected(h, e, v)
        BY <2>6
      <3> DEFINE new == [CfNew(e, "put", "language", "language", "save") EXCEPT !.name = v]
      <3>2. CfIsOp(new) /\ new.at # "write"
        BY ZenonT(40), CfTakenShape
      <3>3. cfOp' = [cfOp EXCEPT ![h] = new] /\ UNCHANGED <<cfFile, cfMu, cfWrites, cfLost>>
        BY <3>1 DEF LanguageDetected, CfTakes
      <3> HIDE DEF new
      <3> QED
        BY <3>2, <3>3, CfGoesKeeps
    <2>7. CASE ReloadLoads(h, e)
      <3> DEFINE new == [CfNew(e, "reload", "all", NoName, "providers") EXCEPT !.read = cfFile]
      <3>2. CfIsOp(new) /\ new.at # "write"
        BY ZenonT(40), CfTakenShape
      <3>3. cfOp' = [cfOp EXCEPT ![h] = new] /\ UNCHANGED <<cfFile, cfMu, cfWrites, cfLost>>
        BY <2>7 DEF ReloadLoads
      <3> HIDE DEF new
      <3> QED
        BY <3>2, <3>3, CfGoesKeeps
    <2> QED
      BY <1>1, <2>1, <2>2, <2>3, <2>4, <2>5, <2>6, <2>7
  <1>2. ASSUME NEW e \in CfEngines, NEW name \in CfProviders, NEW do \in {"add", "remove"},
               CliProvider(e, do, name)
        PROVE  CfInv'
    <2> DEFINE new == CfNew(e, do, e, name, "save")
    <2>1. CfIsOp(new) /\ new.at # "write"
      BY CfTakenShape
    <2>2. cfOp' = [cfOp EXCEPT ![CfCli] = new] /\ UNCHANGED <<cfFile, cfMu, cfWrites, cfLost>>
      BY <1>2 DEF CliProvider, cfHistory
    <2> HIDE DEF new
    <2> QED
      BY <2>1, <2>2, CfGoesKeeps
  <1>3. ASSUME NEW h \in CfHandlers,
               \/ CommandsPut(h) \/ ProvidersSet(h)
               \/ ReloadProviders(h) \/ ReloadActive(h) \/ ReloadClears(h) \/ ReloadFills(h)
        PROVE  CfInv'
    <2>1. UNCHANGED <<cfFile, cfMu, cfWrites, cfLost>>
      BY <1>3 DEF CommandsPut, ProvidersSet, ReloadProviders, ReloadActive, ReloadClears, ReloadFills,
                  cfHistory
    <2>2. \/ CfEnds(h)
          \/ ~CfAt(h, "idle") /\ \E step \in {"save", "active", "clear", "fill"} : CfGoes(h, step)
      BY <1>3 DEF CommandsPut, ProvidersSet, ReloadProviders, ReloadActive, ReloadClears, ReloadFills, CfAt
    <2> QED
      BY <2>1, <2>2, CfStepKeeps
  <1>4. ASSUME NEW h \in CfActors, SaveRefuses(h) \/ SaveFails(h)
        PROVE  CfInv'
    BY <1>4, CfStepKeeps DEF SaveRefuses, SaveFails, MuLeft
  <1>5. CASE UNCHANGED cfVars
    BY <1>5 DEF CfInv, CfShape, CfAt, NoSaveLost, cfVars, cfHistory
  <1> QED
    BY <1>1, <1>2, <1>3, <1>4, <1>5, CfReadKeeps, CfRenameKeeps, CfCrashKeeps DEF CfNext

\* No save of the service undoes another one, whatever handlers, reloads and crashes are about;
\* only one of the command line may swallow one.
THEOREM SavesKept == CfSpec => []NoSaveLost
  <1>1. CfInit => CfInv
    <2>1. CfInit => cfOp = [h \in CfActors |-> CfIdle] /\ cfWrites = cfFile /\ CfIdle.at # "write"
      BY DEF CfInit, CfIdle
    <2> QED
      BY <2>1 DEF CfInv, CfShape, CfIsOp, CfAt, CfActors, NoSaveLost
  <1>2. CfInv => NoSaveLost
    BY DEF CfInv
  <1> QED
    BY <1>1, <1>2, CfNextKeeps, PTL DEF CfSpec

-----------------------------------------------------------------------------
(* ConfigFile: an engine at rest shows what the file says. *)

\* The contents of a file and the memory of an engine, and what a command may be.
CfFileOK(f) ==
    /\ f = [commands |-> f.commands, list |-> f.list, value |-> f.value]
    /\ f.list = [e \in CfEngines |-> f.list[e]]
    /\ f.value = [k \in Settings \cup CfEngines |-> f.value[k]]
CfMemOK(m) ==
    /\ m = [commands |-> m.commands, value |-> m.value, detected |-> m.detected,
            providers |-> m.providers, active |-> m.active]
    /\ m.value = [k \in Settings |-> m.value[k]]
CfReloading(op) == op.at \in {"providers", "active", "clear", "fill"}
CfOpOK(op) ==
    /\ CfFull(op) /\ op.engine \in CfEngines
    /\ \/ CfReloading(op) /\ op.do = "reload" /\ op.key = "all"
       \/ op.at = "add" /\ op.do = "add" /\ op.key = "commands"
       \/ op.at = "list" /\ op.do \in {"add", "remove"} /\ op.key = op.engine
       \/ /\ op.at \in {"save", "write"}
          /\ \/ op.do \in {"add", "remove"} /\ op.key \in {"commands", op.engine}
             \/ op.do = "put" /\ op.key \in Settings \cup {op.engine}
    /\ op.at = "write" => CfFileOK(op.read)
CfTyped ==
    /\ CfFileOK(cfFile)
    /\ cfMem = [e \in CfEngines |-> cfMem[e]] /\ \A e \in CfEngines : CfMemOK(cfMem[e])
    /\ cfDrift = [e \in CfEngines |-> cfDrift[e]]
    /\ \A h \in CfActors : ~CfAt(h, "idle") => CfOpOK(cfOp[h])
    /\ ~CfAt(CfCli, "idle") => cfOp[CfCli].key = cfOp[CfCli].engine

\* What a command that is under way means to change of the memory and of the file.
CfNames(op, name) == op.key = "commands" /\ op.name = name
CfLists(op, e) == op.key = e /\ op.do \in {"add", "remove"}

\* How the memory m of an engine e and the file f stand to each other while op is under way.
CfHolds(op, e, m, f) ==
    /\ op.key = "commands" /\ op.at \in {"save", "write"} => (op.name \in m.commands <=> op.do = "add")
    /\ CfLists(op, e) =>
         /\ op.list = f.list[e]
         /\ m.providers = IF op.at = "list" THEN op.list ELSE Edited(op.list, op.do, op.name)
    /\ op.key \in Reloadable => m.value[op.key] = op.name
    /\ CfReloading(op) =>
         /\ op.read.commands = f.commands /\ op.read.list[e] = f.list[e]
         /\ \A k \in Reloadable : op.read.value[k] = f.value[k]
         /\ op.at # "providers" => m.providers = f.list[e] /\ m.value["display"] = f.value["display"]
         /\ op.at = "fill" => m.commands = {}

\* How they stand to each other where no command is under way.
CfAgree(e) ==
    /\ \A name \in cfMem[e].commands \cup cfFile.commands :
         (\A b \in CfBusy(e) : ~CfReloading(cfOp[b]) /\ ~CfNames(cfOp[b], name)) =>
           name \in cfMem[e].commands /\ name \in cfFile.commands
    /\ (\A b \in CfBusy(e) : ~CfReloading(cfOp[b]) /\ ~CfLists(cfOp[b], e)) =>
         cfMem[e].providers = cfFile.list[e]
    /\ \A k \in Reloadable :
         (\A b \in CfBusy(e) : ~CfReloading(cfOp[b]) /\ cfOp[b].key # k) =>
           cfMem[e].value[k] = cfFile.value[k]

\* Unless something known has parted them, an engine and the file differ by nothing but the
\* commands under way, and these are about different things.
CfInSync(e) ==
    ~cfDrift[e] =>
      /\ \A a, b \in CfBusy(e) : a # b => ~CfMeet(cfOp[a], cfOp[b])
      /\ \A b \in CfBusy(e) : CfHolds(cfOp[b], e, cfMem[e], cfFile)
      /\ CfAgree(e)

CfSynced == CfTyped /\ \A e \in CfEngines : CfInSync(e)

LEMMA CfKeysApart ==
    /\ "commands" \notin CfEngines /\ "all" \notin CfEngines /\ CfEngines \cap Settings = {}
    /\ "commands" \notin Settings /\ "all" \notin Settings /\ Reloadable \subseteq Settings
    /\ "language" \notin Reloadable
  BY ConfigFileAssumption DEF Settings, Reloadable

\* The parts of a new command.
LEMMA CfNewParts ==
    ASSUME NEW e, NEW do, NEW key, NEW name, NEW step
    PROVE  LET new == CfNew(e, do, key, name, step)
           IN  /\ CfFull(new) /\ new.at = step /\ new.engine = e /\ new.do = do
               /\ new.key = key /\ new.name = name
  BY DEF CfNew, CfFull, CfFields

\* The parts of a memory that changes in one of them.
LEMMA CfMemParts ==
    ASSUME NEW m, CfMemOK(m), NEW v
    PROVE  /\ LET new == [m EXCEPT !.commands = v]
              IN  CfMemOK(new) /\ new.commands = v /\ new.value = m.value /\ new.providers = m.providers
           /\ LET new == [m EXCEPT !.detected = v]
              IN  CfMemOK(new) /\ new.commands = m.commands /\ new.value = m.value /\ new.providers = m.providers
           /\ LET new == [m EXCEPT !.active = v]
              IN  CfMemOK(new) /\ new.commands = m.commands /\ new.value = m.value /\ new.providers = m.providers
           /\ LET new == [m EXCEPT !.providers = v]
              IN  CfMemOK(new) /\ new.commands = m.commands /\ new.value = m.value /\ new.providers = v
<1> DEFINE a == [m EXCEPT !.commands = v]
           b == [m EXCEPT !.detected = v]
           c == [m EXCEPT !.active = v]
           d == [m EXCEPT !.providers = v]
<1>1. m = [commands |-> m.commands, value |-> m.value, detected |-> m.detected,
           providers |-> m.providers, active |-> m.active]
  BY DEF CfMemOK
<1>2. a = [commands |-> v, value |-> m.value, detected |-> m.detected,
           providers |-> m.providers, active |-> m.active]
  BY <1>1
<1>3. b = [commands |-> m.commands, value |-> m.value, detected |-> v,
           providers |-> m.providers, active |-> m.active]
  BY <1>1
<1>4. c = [commands |-> m.commands, value |-> m.value, detected |-> m.detected,
           providers |-> m.providers, active |-> v]
  BY <1>1
<1>5. d = [commands |-> m.commands, value |-> m.value, detected |-> m.detected,
           providers |-> v, active |-> m.active]
  BY <1>1
<1> HIDE DEF a, b, c, d
<1>6. m.value = [k \in Settings |-> m.value[k]]
  BY DEF CfMemOK
<1>7. /\ CfMemOK(a) /\ a.commands = v /\ a.value = m.value /\ a.providers = m.providers
      /\ CfMemOK(b) /\ b.commands = m.commands /\ b.value = m.value /\ b.providers = m.providers
      /\ CfMemOK(c) /\ c.commands = m.commands /\ c.value = m.value /\ c.providers = m.providers
      /\ CfMemOK(d) /\ d.commands = m.commands /\ d.value = m.value /\ d.providers = v
  BY <1>2, <1>3, <1>4, <1>5, <1>6 DEF CfMemOK
<1> QED BY <1>7 DEF a, b, c, d

LEMMA CfMemProviders ==
    ASSUME NEW m, CfMemOK(m), NEW v
    PROVE  LET new == [m EXCEPT !.providers = v]
           IN  /\ CfMemOK(new) /\ new.commands = m.commands /\ new.value = m.value
               /\ new.providers = v
  BY CfMemParts

LEMMA CfMemValue ==
    ASSUME NEW m, CfMemOK(m), NEW k \in Settings, NEW v
    PROVE  LET new == [m EXCEPT !.value[k] = v]
           IN  /\ CfMemOK(new) /\ new.commands = m.commands /\ new.providers = m.providers
               /\ new.value[k] = v /\ \A j \in Settings : j # k => new.value[j] = m.value[j]
<1> DEFINE a == [m EXCEPT !.value[k] = v]
           vs == [m.value EXCEPT ![k] = v]
<1>1. /\ m = [commands |-> m.commands, value |-> m.value, detected |-> m.detected,
              providers |-> m.providers, active |-> m.active]
      /\ m.value = [j \in Settings |-> m.value[j]]
  BY DEF CfMemOK
<1>2. a = [commands |-> m.commands, value |-> vs, detected |-> m.detected,
           providers |-> m.providers, active |-> m.active]
  BY <1>1
<1>3. vs = [j \in Settings |-> vs[j]] /\ vs[k] = v /\ \A j \in Settings : j # k => vs[j] = m.value[j]
  BY <1>1
<1> HIDE DEF a, vs
<1>4. CfMemOK(a) /\ a.commands = m.commands /\ a.providers = m.providers /\ a.value = vs
  BY <1>2, <1>3 DEF CfMemOK
<1> QED BY <1>3, <1>4 DEF a

\* What the writing of a file changes in it.
LEMMA CfEditParts ==
    ASSUME NEW f, CfFileOK(f), NEW op, CfOpOK(op), op.at = "write"
    PROVE  /\ CfFileOK(Edit(f, op))
           /\ \A name : name \in Edit(f, op).commands <=>
                          IF CfNames(op, name) THEN op.do = "add" ELSE name \in f.commands
           /\ \A e \in CfEngines : Edit(f, op).list[e] =
                IF CfLists(op, e) THEN Edited(f.list[e], op.do, op.name) ELSE f.list[e]
           /\ \A k \in Settings : Edit(f, op).value[k] = IF op.key = k THEN op.name ELSE f.value[k]
<1> DEFINE g == Edit(f, op)
<1>0. /\ f = [commands |-> f.commands, list |-> f.list, value |-> f.value]
      /\ f.list = [e \in CfEngines |-> f.list[e]]
      /\ f.value = [k \in Settings \cup CfEngines |-> f.value[k]]
  BY DEF CfFileOK
<1>1. \/ op.do \in {"add", "remove"} /\ op.key = "commands"
      \/ op.do \in {"add", "remove"} /\ op.key \in CfEngines
      \/ op.do = "put" /\ op.key \in Settings \cup CfEngines
  BY DEF CfOpOK, CfReloading
<1>2. CASE op.do \in {"add", "remove"} /\ op.key = "commands"
  <2> DEFINE c == IF op.do = "add" THEN f.commands \cup {op.name} ELSE f.commands \ {op.name}
  <2>1. g = [f EXCEPT !.commands = c]
    BY <1>2 DEF Edit
  <2>2. \A name : name \in c <=> IF op.name = name THEN op.do = "add" ELSE name \in f.commands
    BY <1>2
  <2> HIDE DEF c
  <2>3. g = [commands |-> c, list |-> f.list, value |-> f.value]
    BY <1>0, <2>1
  <2> HIDE DEF g
  <2>4. g.commands = c /\ g.list = f.list /\ g.value = f.value /\ CfFileOK(g)
    BY <1>0, <2>3 DEF CfFileOK
  <2> QED BY <1>2, <2>2, <2>4, CfKeysApart DEF CfNames, CfLists, g
<1>3. CASE op.do \in {"add", "remove"} /\ op.key \in CfEngines
  <2> DEFINE c == [f.list EXCEPT ![op.key] = Edited(f.list[op.key], op.do, op.name)]
  <2>0. op.key # "commands"
    BY <1>3, CfKeysApart
  <2>1. g = [f EXCEPT !.list = c]
    BY <1>0, <1>3, <2>0 DEF Edit
  <2>2. /\ c = [e \in CfEngines |-> c[e]]
        /\ \A e \in CfEngines : c[e] = IF op.key = e THEN Edited(f.list[e], op.do, op.name) ELSE f.list[e]
    BY <1>0, <1>3
  <2> HIDE DEF c
  <2>3. g = [commands |-> f.commands, list |-> c, value |-> f.value]
    BY <1>0, <2>1
  <2> HIDE DEF g
  <2>4. g.commands = f.commands /\ g.list = c /\ g.value = f.value /\ CfFileOK(g)
    BY <1>0, <2>2, <2>3 DEF CfFileOK
  <2> QED BY <1>3, <2>0, <2>2, <2>4, CfKeysApart DEF CfNames, CfLists, g
<1>4. CASE op.do = "put" /\ op.key \in Settings \cup CfEngines
  <2> DEFINE c == [f.value EXCEPT ![op.key] = op.name]
  <2>1. g = [f EXCEPT !.value = c]
    BY <1>0, <1>4 DEF Edit
  <2>2. /\ c = [k \in Settings \cup CfEngines |-> c[k]]
        /\ \A k \in Settings : c[k] = IF op.key = k THEN op.name ELSE f.value[k]
    BY <1>0, <1>4
  <2> HIDE DEF c
  <2>3. g = [commands |-> f.commands, list |-> f.list, value |-> c]
    BY <1>0, <2>1
  <2> HIDE DEF g
  <2>4. g.commands = f.commands /\ g.list = f.list /\ g.value = c /\ CfFileOK(g)
    BY <1>0, <2>2, <2>3 DEF CfFileOK
  <2>5. op.key # "commands"
    BY <1>4, CfKeysApart
  <2> QED BY <1>4, <2>2, <2>4, <2>5 DEF CfNames, CfLists, g
<1> QED BY <1>1, <1>2, <1>3, <1>4

\* An engine that a step does not touch.
CfAlike(a, b) ==
    /\ a.at = b.at /\ a.engine = b.engine /\ a.do = b.do /\ a.key = b.key /\ a.name = b.name
    /\ a.list = b.list /\ a.read = b.read

LEMMA CfUntouched ==
    ASSUME NEW e \in CfEngines, CfInSync(e), CfBusy(e)' = CfBusy(e), cfMem'[e] = cfMem[e],
           cfFile'.commands = cfFile.commands, cfFile'.list[e] = cfFile.list[e],
           \A k \in Reloadable : cfFile'.value[k] = cfFile.value[k],
           \A b \in CfBusy(e) : CfAlike(cfOp'[b], cfOp[b]),
           ~cfDrift'[e] => ~cfDrift[e]
    PROVE  CfInSync(e)'
<1> SUFFICES ASSUME ~cfDrift'[e] PROVE CfInSync(e)'
  BY DEF CfInSync
<1>1. /\ \A a, b \in CfBusy(e) : a # b => ~CfMeet(cfOp[a], cfOp[b])
      /\ \A b \in CfBusy(e) : CfHolds(cfOp[b], e, cfMem[e], cfFile)
      /\ CfAgree(e)
  BY DEF CfInSync
<1>2. \A a, b \in CfBusy(e) : CfMeet(cfOp'[a], cfOp'[b]) <=> CfMeet(cfOp[a], cfOp[b])
  BY DEF CfMeet, CfAlike
<1>3. ASSUME NEW b \in CfBusy(e) PROVE CfHolds(cfOp'[b], e, cfMem'[e], cfFile')
  <2>1. CfAlike(cfOp'[b], cfOp[b]) /\ CfHolds(cfOp[b], e, cfMem[e], cfFile)
    BY <1>1
  <2> DEFINE o == cfOp[b]
             q == cfOp'[b]
  <2>2. /\ q.at = o.at /\ q.do = o.do /\ q.key = o.key /\ q.name = o.name /\ q.list = o.list
        /\ q.read = o.read
    BY <2>1 DEF CfAlike
  <2>3. CfHolds(o, e, cfMem[e], cfFile)
    BY <2>1
  <2> HIDE DEF o, q
  <2>4. CfHolds(q, e, cfMem[e], cfFile)
    BY <2>2, <2>3 DEF CfHolds, CfLists, CfReloading
  <2>5. CfHolds(q, e, cfMem[e], cfFile')
    <3>1. "display" \in Reloadable
      BY DEF Reloadable
    <3> QED BY <2>4, <3>1 DEF CfHolds
  <2> QED BY <2>5 DEF q
<1>4. \A b \in CfBusy(e) : /\ CfReloading(cfOp'[b]) <=> CfReloading(cfOp[b])
                           /\ \A name : CfNames(cfOp'[b], name) <=> CfNames(cfOp[b], name)
                           /\ CfLists(cfOp'[b], e) <=> CfLists(cfOp[b], e)
                           /\ cfOp'[b].key = cfOp[b].key
  BY DEF CfReloading, CfNames, CfLists, CfAlike
<1>5. CfAgree(e)'
  <2>1. \A name \in cfMem'[e].commands \cup cfFile'.commands :
         (\A b \in CfBusy(e) : ~CfReloading(cfOp'[b]) /\ ~CfNames(cfOp'[b], name)) =>
           name \in cfMem'[e].commands /\ name \in cfFile'.commands
    BY <1>1, <1>4 DEF CfAgree
  <2>2. (\A b \in CfBusy(e) : ~CfReloading(cfOp'[b]) /\ ~CfLists(cfOp'[b], e)) =>
         cfMem'[e].providers = cfFile'.list[e]
    BY <1>1, <1>4 DEF CfAgree
  <2>3. \A k \in Reloadable :
         (\A b \in CfBusy(e) : ~CfReloading(cfOp'[b]) /\ cfOp'[b].key # k) =>
           cfMem'[e].value[k] = cfFile'.value[k]
    BY <1>1, <1>4 DEF CfAgree
  <2>4. Reloadable' = Reloadable
    BY DEF Reloadable
  <2> QED BY <2>1, <2>2, <2>3, <2>4 DEF CfAgree, CfReloading, CfNames, CfLists
<1>6. /\ \A a, b \in CfBusy(e) : a # b => ~CfMeet(cfOp'[a], cfOp'[b])
      /\ \A b \in CfBusy(e) : CfHolds(cfOp'[b], e, cfMem'[e], cfFile')
  BY <1>1, <1>2, <1>3
<1>7. (\A a, b \in CfBusy(e) : a # b => ~CfMeet(cfOp[a], cfOp[b]))'
  BY <1>6 DEF CfMeet
<1>8. (\A b \in CfBusy(e) : CfHolds(cfOp[b], e, cfMem[e], cfFile))'
  BY <1>6
<1> QED BY <1>5, <1>7, <1>8 DEF CfInSync

\* What a command may change in the memory of its engine.
CfOnly(op, e, m, n) ==
    /\ \A name : ~CfNames(op, name) => (name \in n.commands <=> name \in m.commands)
    /\ ~CfLists(op, e) => n.providers = m.providers
    /\ \A k \in Reloadable : op.key # k => n.value[k] = m.value[k]

\* One that is not affected by it.
LEMMA CfHoldsStill ==
    ASSUME NEW e \in CfEngines, NEW op, NEW other, NEW m, NEW n, NEW f, CfOnly(op, e, m, n),
           ~CfMeet(op, other), CfHolds(other, e, m, f), CfOpOK(other), CfOpOK(op)
    PROVE  CfHolds(other, e, n, f)
<1>1. other.do # "reload" /\ (op.key = other.key => op.key = "commands" /\ op.name # other.name)
  BY DEF CfMeet
<1>2. ~CfReloading(other)
  BY <1>1 DEF CfOpOK, CfReloading
<1>3. other.key = "commands" => ~CfNames(op, other.name)
  BY <1>1 DEF CfNames
<1>4. CfLists(other, e) => ~CfLists(op, e)
  BY <1>1, CfKeysApart DEF CfLists
<1>5. other.key \in Reloadable => op.key # other.key
  BY <1>1, CfKeysApart
<1> QED BY <1>2, <1>3, <1>4, <1>5 DEF CfHolds, CfOnly

LEMMA CfMeetBoth == ASSUME NEW a, NEW b PROVE CfMeet(a, b) <=> CfMeet(b, a)
  BY DEF CfMeet

\* The memories and the commands after one of each has changed.
LEMMA CfOpsTyped ==
    ASSUME CfTyped, CfInv, NEW h \in CfActors, NEW new, cfOp' = [cfOp EXCEPT ![h] = new],
           new = CfIdle \/ CfOpOK(new)
    PROVE  /\ cfOp'[h] = new /\ \A b \in CfActors : b # h => cfOp'[b] = cfOp[b]
           /\ (\A b \in CfActors : ~CfAt(b, "idle") => CfOpOK(cfOp[b]))'
<1>1. cfOp'[h] = new /\ \A b \in CfActors : b # h => cfOp'[b] = cfOp[b]
  BY DEF CfInv, CfShape
<1>2. \A b \in CfActors : cfOp'[b].at # "idle" => CfOpOK(cfOp'[b])
  BY <1>1 DEF CfTyped, CfAt, CfIdle
<1> QED BY <1>1, <1>2 DEF CfAt, CfActors

LEMMA CfMemTyped ==
    ASSUME CfTyped, NEW e \in CfEngines, NEW m, cfMem' = [cfMem EXCEPT ![e] = m], CfMemOK(m)
    PROVE  /\ cfMem'[e] = m /\ \A d \in CfEngines : d # e => cfMem'[d] = cfMem[d]
           /\ cfMem' = [d \in CfEngines |-> cfMem'[d]]
           /\ (\A d \in CfEngines : CfMemOK(cfMem[d]))'
<1>1. /\ cfMem'[e] = m /\ \A d \in CfEngines : d # e => cfMem'[d] = cfMem[d]
      /\ cfMem' = [d \in CfEngines |-> cfMem'[d]]
  BY DEF CfTyped
<1>2. \A d \in CfEngines : CfMemOK(cfMem'[d])
  BY <1>1 DEF CfTyped
<1> QED BY <1>1, <1>2

\* A handler takes up a command, or goes on with it, and changes of the memory of its engine
\* what the command is about.
CfGoesOn(h, e, new) ==
    /\ h \in CfBusy(e) /\ ~CfReloading(cfOp[h])
    /\ cfOp[h].do = new.do /\ cfOp[h].key = new.key /\ cfOp[h].name = new.name

\* A step of one handler on its engine: it goes on with new, and leaves the memory m.
CfSteps(h, e, new, m) ==
    /\ new = CfIdle \/ (CfOpOK(new) /\ new.engine = e)
    /\ CfMemOK(m)
    /\ cfOp' = [cfOp EXCEPT ![h] = new] /\ cfMem' = [cfMem EXCEPT ![e] = m] /\ UNCHANGED cfFile
    /\ cfDrift' = [d \in CfEngines |-> cfDrift'[d]]
    /\ \A d \in CfEngines : d # e => cfDrift'[d] = cfDrift[d]
    /\ CfAt(h, "idle") \/ h \in CfBusy(e)

\* It is not seen from anywhere else.
LEMMA CfElsewhere ==
    ASSUME CfInv, CfSynced, NEW h \in CfHandlers, NEW e \in CfEngines, NEW new, NEW m,
           CfSteps(h, e, new, m)
    PROVE  /\ CfTyped' /\ \A d \in CfEngines : d # e => CfInSync(d)'
           /\ cfOp'[h] = new /\ \A b \in CfActors : b # h => cfOp'[b] = cfOp[b]
           /\ cfMem'[e] = m
           /\ new = CfIdle => CfBusy(e)' = CfBusy(e) \ {h}
           /\ new # CfIdle => CfBusy(e)' = CfBusy(e) \cup {h}
<1> USE DEF CfSteps
<1>0. CfTyped /\ h \in CfActors /\ CfHandlers \subseteq CfActors
  BY DEF CfSynced, CfActors
<1>1. /\ cfOp'[h] = new /\ \A b \in CfActors : b # h => cfOp'[b] = cfOp[b]
      /\ (\A b \in CfActors : ~CfAt(b, "idle") => CfOpOK(cfOp[b]))'
  BY <1>0, CfOpsTyped
<1>2. /\ cfMem'[e] = m /\ \A d \in CfEngines : d # e => cfMem'[d] = cfMem[d]
      /\ cfMem' = [d \in CfEngines |-> cfMem'[d]]
      /\ (\A d \in CfEngines : CfMemOK(cfMem[d]))'
  BY <1>0, CfMemTyped
<1>3. CfTyped'
  <2>1. CfFileOK(cfFile)'
    BY <1>0 DEF CfTyped
  <2>2. (~CfAt(CfCli, "idle") => cfOp[CfCli].key = cfOp[CfCli].engine)'
    BY <1>0, <1>1, ConfigFileAssumption DEF CfTyped, CfAt, CfActors
  <2> QED BY <1>1, <1>2, <2>1, <2>2 DEF CfTyped
<1>4. (new = CfIdle /\ new.at = "idle") \/ (new # CfIdle /\ new.at # "idle" /\ new.engine = e)
  BY DEF CfOpOK, CfReloading, CfIdle
<1>5. /\ new = CfIdle => CfBusy(e)' = CfBusy(e) \ {h}
      /\ new # CfIdle => CfBusy(e)' = CfBusy(e) \cup {h}
  BY <1>0, <1>1, <1>4 DEF CfBusy, CfAt
<1>6. ASSUME NEW d \in CfEngines, d # e PROVE CfInSync(d)'
  <2>1. CfBusy(d)' = CfBusy(d) /\ h \notin CfBusy(d)
    BY <1>0, <1>1, <1>4, <1>6 DEF CfBusy, CfAt
  <2>2. \A b \in CfBusy(d) : CfAlike(cfOp'[b], cfOp[b])
    BY <1>0, <1>1, <2>1 DEF CfBusy, CfAlike
  <2>3. CfInSync(d) /\ cfMem'[d] = cfMem[d] /\ cfDrift'[d] = cfDrift[d]
    BY <1>2, <1>6 DEF CfSynced
  <2> QED BY <2>1, <2>2, <2>3, CfUntouched
<1> QED BY <1>1, <1>2, <1>3, <1>5, <1>6

LEMMA CfCommandActs ==
    ASSUME CfInv, CfSynced, NEW h \in CfHandlers, NEW e \in CfEngines, NEW new, NEW m,
           CfSteps(h, e, new, m), CfOpOK(new), ~CfReloading(new),
           CfAt(h, "idle") \/ CfGoesOn(h, e, new),
           ~cfDrift'[e] =>
             /\ ~cfDrift[e] /\ \A b \in CfBusy(e) \ {h} : ~CfMeet(new, cfOp[b])
             /\ CfOnly(new, e, cfMem[e], m) /\ CfHolds(new, e, m, cfFile)
    PROVE  CfSynced'
<1>0. CfTyped /\ h \in CfActors /\ CfHandlers \subseteq CfActors
  BY DEF CfSynced, CfActors
<1>1. new # CfIdle /\ UNCHANGED cfFile
  BY DEF CfSteps, CfOpOK, CfReloading, CfIdle
<1>3. /\ CfTyped' /\ \A d \in CfEngines : d # e => CfInSync(d)'
      /\ cfOp'[h] = new /\ \A b \in CfActors : b # h => cfOp'[b] = cfOp[b]
      /\ cfMem'[e] = m /\ CfBusy(e)' = CfBusy(e) \cup {h}
  BY <1>1, CfElsewhere
<1>7. ASSUME ~cfDrift'[e]
      PROVE  /\ \A a, b \in CfBusy(e)' : a # b => ~CfMeet(cfOp'[a], cfOp'[b])
             /\ \A b \in CfBusy(e)' : CfHolds(cfOp'[b], e, cfMem'[e], cfFile')
             /\ CfAgree(e)'
  <2>1. /\ \A a, b \in CfBusy(e) : a # b => ~CfMeet(cfOp[a], cfOp[b])
        /\ \A b \in CfBusy(e) : CfHolds(cfOp[b], e, cfMem[e], cfFile)
        /\ CfAgree(e)
    BY <1>7 DEF CfSynced, CfInSync
  <2>2. /\ \A b \in CfBusy(e) \ {h} : ~CfMeet(new, cfOp[b])
        /\ CfOnly(new, e, cfMem[e], m) /\ CfHolds(new, e, m, cfFile)
    BY <1>7
  <2>3. \A b \in CfBusy(e) \ {h} : cfOp'[b] = cfOp[b] /\ CfOpOK(cfOp[b]) /\ ~CfReloading(cfOp[b])
    <3>1. \A b \in CfBusy(e) \ {h} : cfOp'[b] = cfOp[b] /\ CfOpOK(cfOp[b])
      BY <1>0, <1>3 DEF CfBusy, CfTyped
    <3>2. \A b \in CfBusy(e) \ {h} : cfOp[b].do # "reload"
      BY <2>2 DEF CfMeet
    <3> QED BY <3>1, <3>2 DEF CfOpOK, CfReloading
  <2>4. \A a, b \in CfBusy(e)' : a # b => ~CfMeet(cfOp'[a], cfOp'[b])
    BY <1>3, <2>1, <2>2, <2>3, CfMeetBoth
  <2>5. ASSUME NEW b \in CfBusy(e)' PROVE CfHolds(cfOp'[b], e, m, cfFile)
    <3>1. CASE b = h
      BY <1>3, <2>2, <3>1
    <3>2. CASE b # h
      <4>1. b \in CfBusy(e) \ {h}
        BY <1>3, <3>2
      <4>2. CfHolds(cfOp[b], e, m, cfFile)
        BY <2>1, <2>2, <2>3, <4>1, CfHoldsStill
      <4> QED BY <2>3, <4>1, <4>2
    <3> QED BY <3>1, <3>2
  <2>6. CfAgree(e)'
    <3>1. \A b \in CfBusy(e) : \/ b # h /\ cfOp'[b] = cfOp[b]
                               \/ /\ b = h /\ ~CfReloading(cfOp[b]) /\ cfOp[b].do = new.do
                                  /\ cfOp[b].key = new.key /\ cfOp[b].name = new.name
      <4>1. h \in CfBusy(e) => CfGoesOn(h, e, new)
        BY DEF CfBusy
      <4> QED BY <2>3, <4>1 DEF CfGoesOn
    <3>2. ASSUME NEW name, \A b \in CfBusy(e)' : ~CfReloading(cfOp'[b]) /\ ~CfNames(cfOp'[b], name)
          PROVE  /\ \A b \in CfBusy(e) : ~CfReloading(cfOp[b]) /\ ~CfNames(cfOp[b], name)
                 /\ name \in m.commands <=> name \in cfMem[e].commands
      <4>1. ~CfNames(new, name)
        BY <1>3, <3>2
      <4>2. \A b \in CfBusy(e) : ~CfReloading(cfOp[b]) /\ ~CfNames(cfOp[b], name)
        BY <1>3, <3>1, <3>2, <4>1 DEF CfNames
      <4> QED BY <2>2, <4>1, <4>2 DEF CfOnly
    <3>3. ASSUME \A b \in CfBusy(e)' : ~CfReloading(cfOp'[b]) /\ ~CfLists(cfOp'[b], e)
          PROVE  m.providers = cfFile.list[e]
      <4>1. ~CfLists(new, e)
        BY <1>3, <3>3
      <4>2. \A b \in CfBusy(e) : ~CfReloading(cfOp[b]) /\ ~CfLists(cfOp[b], e)
        BY <1>3, <3>1, <3>3, <4>1 DEF CfLists
      <4> QED BY <2>1, <2>2, <4>1, <4>2 DEF CfOnly, CfAgree
    <3>4. ASSUME NEW k \in Reloadable,
                 \A b \in CfBusy(e)' : ~CfReloading(cfOp'[b]) /\ cfOp'[b].key # k
          PROVE  m.value[k] = cfFile.value[k]
      <4>1. new.key # k
        BY <1>3, <3>4
      <4>2. \A b \in CfBusy(e) : ~CfReloading(cfOp[b]) /\ cfOp[b].key # k
        BY <1>3, <3>1, <3>4, <4>1
      <4> QED BY <2>1, <2>2, <4>1, <4>2 DEF CfOnly, CfAgree
    <3>5. \A name \in cfMem'[e].commands \cup cfFile'.commands :
            (\A b \in CfBusy(e)' : ~CfReloading(cfOp'[b]) /\ ~CfNames(cfOp'[b], name)) =>
              name \in cfMem'[e].commands /\ name \in cfFile'.commands
      BY <1>1, <1>3, <2>1, <3>2 DEF CfAgree
    <3>6. (\A b \in CfBusy(e)' : ~CfReloading(cfOp'[b]) /\ ~CfLists(cfOp'[b], e)) =>
            cfMem'[e].providers = cfFile'.list[e]
      BY <1>1, <1>3, <3>3
    <3>7. \A k \in Reloadable : (\A b \in CfBusy(e)' : ~CfReloading(cfOp'[b]) /\ cfOp'[b].key # k) =>
            cfMem'[e].value[k] = cfFile'.value[k]
      BY <1>1, <1>3, <3>4
    <3> QED BY <3>5, <3>6, <3>7 DEF CfAgree
  <2> QED BY <1>1, <1>3, <2>4, <2>5, <2>6
<1>8. CfInSync(e)'
  BY <1>7 DEF CfInSync
<1> QED BY <1>3, <1>8 DEF CfSynced

\* A reload that is alone with its engine.
LEMMA CfReloadActs ==
    ASSUME CfInv, CfSynced, NEW h \in CfHandlers, NEW e \in CfEngines, NEW new, NEW m,
           CfSteps(h, e, new, m), CfOpOK(new), CfReloading(new),
           ~cfDrift'[e] => CfBusy(e) \subseteq {h} /\ CfHolds(new, e, m, cfFile)
    PROVE  CfSynced'
<1>1. new # CfIdle /\ UNCHANGED cfFile
  BY DEF CfSteps, CfOpOK, CfReloading, CfIdle
<1>2. /\ CfTyped' /\ \A d \in CfEngines : d # e => CfInSync(d)'
      /\ cfOp'[h] = new /\ cfMem'[e] = m /\ CfBusy(e)' = CfBusy(e) \cup {h}
  BY <1>1, CfElsewhere
<1>3. ASSUME ~cfDrift'[e]
      PROVE  /\ \A a, b \in CfBusy(e)' : a = b
             /\ \A b \in CfBusy(e)' : CfHolds(cfOp'[b], e, cfMem'[e], cfFile') /\ CfReloading(cfOp'[b])
             /\ h \in CfBusy(e)'
  BY <1>1, <1>2, <1>3
<1>4. ASSUME ~cfDrift'[e] PROVE CfAgree(e)'
  <2>1. \E b \in CfBusy(e)' : CfReloading(cfOp'[b])
    BY <1>3, <1>4
  <2> QED BY <2>1 DEF CfAgree
<1>5. CfInSync(e)'
  BY <1>3, <1>4 DEF CfInSync
<1> QED BY <1>2, <1>5 DEF CfSynced

\* The last step of a reload.
CfFilledWith(c, r) ==
    [c EXCEPT !.commands = @ \cup r.commands,
              !.value = [k \in Settings |-> IF k \in CfAliases THEN r.value[k] ELSE @[k]]]

LEMMA CfFillParts ==
    ASSUME NEW c, CfMemOK(c), NEW r
    PROVE  LET m == CfFilledWith(c, r)
           IN  /\ CfMemOK(m) /\ m.commands = c.commands \cup r.commands /\ m.providers = c.providers
               /\ \A k \in Settings : m.value[k] = IF k \in CfAliases THEN r.value[k] ELSE c.value[k]
<1> DEFINE m == CfFilledWith(c, r)
           cs == c.commands \cup r.commands
           vs == [k \in Settings |-> IF k \in CfAliases THEN r.value[k] ELSE c.value[k]]
<1>1. c = [commands |-> c.commands, value |-> c.value, detected |-> c.detected,
           providers |-> c.providers, active |-> c.active]
  BY DEF CfMemOK
<1>2. m = [c EXCEPT !.commands = cs, !.value = vs]
  BY <1>1 DEF CfFilledWith
<1>3. vs = [k \in Settings |-> vs[k]]
  OBVIOUS
<1>4. \A k \in Settings : vs[k] = IF k \in CfAliases THEN r.value[k] ELSE c.value[k]
  OBVIOUS
<1> HIDE DEF cs, vs, m
<1>5. m = [commands |-> cs, value |-> vs, detected |-> c.detected,
           providers |-> c.providers, active |-> c.active]
  BY <1>1, <1>2
<1>6. CfMemOK(m) /\ m.commands = cs /\ m.value = vs /\ m.providers = c.providers
  BY <1>3, <1>5 DEF CfMemOK
<1>7. /\ CfMemOK(m) /\ m.commands = c.commands \cup r.commands /\ m.providers = c.providers
      /\ \A k \in Settings : m.value[k] = IF k \in CfAliases THEN r.value[k] ELSE c.value[k]
  BY <1>4, <1>6 DEF cs
<1> QED BY <1>7 DEF m

\* A handler goes on.
CfAdvances(h, e, op, new, m) ==
    /\ op = cfOp[h] /\ op.engine = e /\ CfMemOK(m)
    /\ cfOp' = [cfOp EXCEPT ![h] = new] /\ cfMem' = [cfMem EXCEPT ![e] = m]
    /\ UNCHANGED <<cfFile, cfDrift>>

LEMMA CfReloadEnds ==
    ASSUME CfInv, CfSynced, NEW h \in CfHandlers, NEW e \in CfEngines, NEW op, NEW m,
           CfAdvances(h, e, op, CfIdle, m), op.at = "fill",
           m.commands = cfMem[e].commands \cup op.read.commands, m.providers = cfMem[e].providers,
           \A k \in Settings : m.value[k] = IF k \in CfAliases THEN op.read.value[k] ELSE cfMem[e].value[k]
    PROVE  CfSynced'
<1> USE DEF CfAdvances
<1>0. CfOpOK(op) /\ h \in CfActors /\ CfReloading(op) /\ op.do = "reload"
  BY DEF CfAt, CfSynced, CfTyped, CfActors, CfReloading, CfOpOK
<1>1. h \in CfBusy(e) /\ CfTyped
  BY DEF CfBusy, CfAt, CfSynced
<1>2. cfDrift' = [d \in CfEngines |-> cfDrift'[d]] /\ \A d \in CfEngines : d # e => cfDrift'[d] = cfDrift[d]
  BY <1>1 DEF CfTyped
<1>3. CfSteps(h, e, CfIdle, m)
  BY <1>1, <1>2 DEF CfSteps
<1>5. /\ CfTyped' /\ \A d \in CfEngines : d # e => CfInSync(d)'
      /\ cfMem'[e] = m /\ CfBusy(e)' = CfBusy(e) \ {h}
  BY <1>3, CfElsewhere
<1>6. ASSUME ~cfDrift[e] PROVE CfBusy(e)' = {} /\ CfAgree(e)'
  <2>1. /\ \A b \in CfBusy(e) : b # h => ~CfMeet(op, cfOp[b])
        /\ CfHolds(op, e, cfMem[e], cfFile)
    BY <1>1, <1>6 DEF CfSynced, CfInSync
  <2>2. CfBusy(e)' = {}
    BY <1>0, <1>5, <2>1 DEF CfMeet
  <2>3. /\ op.read.commands = cfFile.commands /\ cfMem[e].commands = {}
        /\ \A k \in Reloadable : op.read.value[k] = cfFile.value[k]
        /\ cfMem[e].providers = cfFile.list[e] /\ cfMem[e].value["display"] = cfFile.value["display"]
    BY <1>0, <2>1 DEF CfHolds
  <2>4. m.commands = cfFile.commands /\ m.providers = cfFile.list[e]
    BY <2>3
  <2>5. \A k \in Reloadable : m.value[k] = cfFile.value[k]
    BY <2>3, CfKeysApart DEF Reloadable
  <2>6. /\ cfMem'[e].commands = cfFile'.commands /\ cfMem'[e].providers = cfFile'.list[e]
        /\ \A k \in Reloadable : cfMem'[e].value[k] = cfFile'.value[k]
    BY <1>5, <2>4, <2>5
  <2> QED BY <2>2, <2>6 DEF CfAgree
<1>7. CfInSync(e)'
  <2>1. ~cfDrift'[e] => CfBusy(e)' = {} /\ CfAgree(e)'
    BY <1>6
  <2> QED BY <2>1 DEF CfInSync
<1> QED BY <1>5, <1>7 DEF CfSynced

\* A service that has just started shows the file.
LEMMA CfBuiltShows ==
    ASSUME NEW f, CfFileOK(f), NEW e \in CfEngines
    PROVE  /\ CfMemOK(Built(f, e)) /\ Built(f, e).commands = f.commands
           /\ Built(f, e).providers = f.list[e]
           /\ \A k \in Settings : Built(f, e).value[k] = f.value[k]
  BY DEF Built, CfMemOK

LEMMA CfStartsInSync ==
    ASSUME CfFileOK(cfFile), NEW e \in CfEngines, CfBusy(e) = {}, cfMem[e] = Built(cfFile, e)
    PROVE  CfInSync(e)
  BY CfBuiltShows, CfKeysApart DEF CfInSync, CfAgree

LEMMA CfCrashInSync ==
    ASSUME CfInv, CfSynced, CfCrash
    PROVE  CfSynced'
<1>1. /\ cfMem' = [e \in CfEngines |-> Built(cfFile, e)]
      /\ cfOp' = [h \in CfActors |-> IF h = CfCli THEN cfOp[h] ELSE CfIdle]
      /\ cfDrift' = [e \in CfEngines |-> FALSE] /\ UNCHANGED cfFile
  BY DEF CfCrash
<1>2. CfFileOK(cfFile) /\ CfIdle.at = "idle"
  BY DEF CfSynced, CfTyped, CfIdle
<1>3. \A e \in CfEngines : cfMem'[e] = Built(cfFile, e) /\ CfMemOK(cfMem'[e])
  BY <1>1, <1>2, CfBuiltShows
<1>4. \A h \in CfActors : cfOp'[h].at # "idle" => CfOpOK(cfOp'[h])
  BY <1>1, <1>2 DEF CfSynced, CfTyped, CfAt
<1>5. CfTyped'
  <2>1. cfMem' = [e \in CfEngines |-> cfMem'[e]] /\ cfDrift' = [e \in CfEngines |-> cfDrift'[e]]
    BY <1>1
  <2>2. (CfFileOK(cfFile) /\ (\A e \in CfEngines : CfMemOK(cfMem[e])))'
    BY <1>1, <1>2, <1>3
  <2>3. (\A h \in CfActors : ~CfAt(h, "idle") => CfOpOK(cfOp[h]))'
    BY <1>4 DEF CfAt, CfActors
  <2>4. (~CfAt(CfCli, "idle") => cfOp[CfCli].key = cfOp[CfCli].engine)'
    BY <1>1 DEF CfSynced, CfTyped, CfAt, CfActors
  <2> QED BY <2>1, <2>2, <2>3, <2>4 DEF CfTyped
<1>6. \A e \in CfEngines : CfBusy(e)' = {}
  BY <1>1, <1>2, ConfigFileAssumption DEF CfBusy, CfAt, CfActors
<1>7. ASSUME NEW e \in CfEngines PROVE CfInSync(e)'
  <2>1. /\ cfMem'[e].commands = cfFile'.commands /\ cfMem'[e].providers = cfFile'.list[e]
        /\ \A k \in Reloadable : cfMem'[e].value[k] = cfFile'.value[k]
    BY <1>1, <1>2, <1>3, CfBuiltShows, CfKeysApart
  <2> QED BY <1>6, <2>1 DEF CfInSync, CfAgree
<1> QED BY <1>5, <1>7 DEF CfSynced

\* A command is taken up.
LEMMA CfTaken ==
    ASSUME CfInv, CfSynced, NEW h \in CfHandlers, NEW e \in CfEngines, NEW new, NEW m,
           CfTakes(h, new), CfOpOK(new), ~CfReloading(new), new.engine = e, CfMemOK(m),
           cfMem' = [cfMem EXCEPT ![e] = m], UNCHANGED cfFile, CfOnly(new, e, cfMem[e], m),
           (\A b \in CfBusy(e) : ~CfMeet(new, cfOp[b])) /\ CfAgree(e) => CfHolds(new, e, m, cfFile)
    PROVE  CfSynced'
<1>1. cfDrift = [d \in CfEngines |-> cfDrift[d]]
  BY DEF CfSynced, CfTyped
<1>2. CfAt(h, "idle") /\ cfOp' = [cfOp EXCEPT ![h] = new]
  BY DEF CfTakes
<1>3. cfDrift' = [cfDrift EXCEPT ![e] = @ \/ \E b \in CfBusy(e) : CfMeet(new, cfOp[b])]
  BY DEF CfTakes
<1>4. /\ cfDrift' = [d \in CfEngines |-> cfDrift'[d]]
      /\ \A d \in CfEngines : d # e => cfDrift'[d] = cfDrift[d]
      /\ ~cfDrift'[e] => ~cfDrift[e] /\ \A b \in CfBusy(e) : ~CfMeet(new, cfOp[b])
  BY <1>1, <1>3
<1>5. CfSteps(h, e, new, m)
  BY <1>2, <1>4 DEF CfSteps
<1>6. ~cfDrift[e] => CfAgree(e)
  BY DEF CfSynced, CfInSync
<1> QED BY <1>2, <1>4, <1>5, <1>6, CfCommandActs

\* A command goes on.
LEMMA CfGone ==
    ASSUME CfInv, CfSynced, NEW h \in CfHandlers, NEW e \in CfEngines, NEW op, NEW new, NEW m,
           CfAdvances(h, e, op, new, m), CfGoesOn(h, e, new), CfOpOK(new), ~CfReloading(new),
           new.engine = e, CfOnly(new, e, cfMem[e], m),
           CfHolds(op, e, cfMem[e], cfFile) => CfHolds(new, e, m, cfFile)
    PROVE  CfSynced'
<1> USE DEF CfAdvances
<1>1. cfDrift = [d \in CfEngines |-> cfDrift[d]]
  BY DEF CfSynced, CfTyped
<1>2. /\ h \in CfBusy(e) /\ cfOp[h].do = new.do /\ cfOp[h].key = new.key /\ cfOp[h].name = new.name
  BY DEF CfGoesOn
<1>3. CfSteps(h, e, new, m)
  BY <1>1, <1>2 DEF CfSteps
<1>4. ASSUME ~cfDrift[e]
      PROVE  /\ \A b \in CfBusy(e) \ {h} : ~CfMeet(new, cfOp[b])
             /\ CfHolds(new, e, m, cfFile)
  <2>1. /\ \A b \in CfBusy(e) : h # b => ~CfMeet(cfOp[h], cfOp[b])
        /\ CfHolds(cfOp[h], e, cfMem[e], cfFile)
    BY <1>2, <1>4 DEF CfSynced, CfInSync
  <2>2. \A b \in CfBusy(e) \ {h} : ~CfMeet(new, cfOp[b])
    BY <1>2, <2>1 DEF CfMeet
  <2> QED BY <2>1, <2>2
<1> QED BY <1>1, <1>3, <1>4, CfCommandActs

\* A reload goes on.
LEMMA CfReloadGoes ==
    ASSUME CfInv, CfSynced, NEW h \in CfHandlers, NEW e \in CfEngines, NEW op, NEW new, NEW m,
           NEW step \in {"active", "clear", "fill"},
           CfAdvances(h, e, op, new, m), CfReloading(op), new = [op EXCEPT !.at = step],
           /\ op.read.commands = cfFile.commands /\ op.read.list[e] = cfFile.list[e]
           /\ \A k \in Reloadable : op.read.value[k] = cfFile.value[k]
           /\ op.at # "providers" => cfMem[e].providers = cfFile.list[e]
                                     /\ cfMem[e].value["display"] = cfFile.value["display"]
           => /\ m.providers = cfFile.list[e] /\ m.value["display"] = cfFile.value["display"]
              /\ step = "fill" => m.commands = {}
    PROVE  CfSynced'
<1> USE DEF CfAdvances
<1>0. CfTyped /\ h \in CfActors
  BY DEF CfSynced, CfActors
<1>1. cfDrift = [d \in CfEngines |-> cfDrift[d]]
  BY <1>0 DEF CfTyped
<1>2. CfOpOK(op) /\ h \in CfBusy(e)
  BY <1>0 DEF CfTyped, CfReloading, CfAt, CfBusy
<1>3. CfFull(op) /\ op.do = "reload" /\ op.key = "all"
  BY <1>2 DEF CfOpOK, CfReloading
<1>4. /\ CfFull(new) /\ new.at = step /\ new.engine = e /\ new.do = "reload" /\ new.key = "all"
      /\ new.read = op.read
  BY <1>3 DEF CfFull, CfFields
<1>5. CfOpOK(new) /\ CfReloading(new)
  BY <1>4 DEF CfOpOK, CfReloading
<1>6. CfSteps(h, e, new, m)
  BY <1>1, <1>2, <1>4, <1>5 DEF CfSteps
<1>7. ASSUME ~cfDrift[e] PROVE CfBusy(e) \subseteq {h} /\ CfHolds(new, e, m, cfFile)
  <2>1. /\ \A b \in CfBusy(e) : h # b => ~CfMeet(op, cfOp[b])
        /\ CfHolds(op, e, cfMem[e], cfFile)
    BY <1>2, <1>7 DEF CfSynced, CfInSync
  <2>2. CfBusy(e) \subseteq {h}
    BY <1>3, <2>1 DEF CfMeet
  <2>3. /\ op.read.commands = cfFile.commands /\ op.read.list[e] = cfFile.list[e]
        /\ \A k \in Reloadable : op.read.value[k] = cfFile.value[k]
        /\ op.at # "providers" => cfMem[e].providers = cfFile.list[e]
                                  /\ cfMem[e].value["display"] = cfFile.value["display"]
    BY <2>1 DEF CfHolds
  <2>4. /\ m.providers = cfFile.list[e] /\ m.value["display"] = cfFile.value["display"]
        /\ step = "fill" => m.commands = {}
    BY <2>3
  <2>5. CfHolds(new, e, m, cfFile)
    BY <1>4, <2>3, <2>4, CfKeysApart DEF CfHolds, CfLists
  <2> QED BY <2>2, <2>5
<1> QED BY <1>5, <1>6, <1>7, CfReloadActs

\* What a handler takes up may be done.
CfAsked(e, do, name, list) == [CfNew(e, do, e, name, "list") EXCEPT !.list = list]

LEMMA CfMayList ==
    ASSUME NEW e \in CfEngines, NEW name, NEW list, NEW do \in {"add", "remove"}
    PROVE  LET new == CfAsked(e, do, name, list)
           IN  /\ CfOpOK(new) /\ new.engine = e /\ new.key = e /\ new.at = "list"
               /\ new.do = do /\ new.list = list
<1> DEFINE asked == CfNew(e, do, e, name, "list")
           new == [asked EXCEPT !.list = list]
<1>1. CfFull(asked) /\ asked.at = "list" /\ asked.engine = e /\ asked.do = do /\ asked.key = e
  BY CfNewParts
<1> HIDE DEF asked
<1>2. CfFull(new) /\ new.at = "list" /\ new.engine = e /\ new.do = do /\ new.key = e /\ new.list = list
  BY <1>1 DEF CfFull, CfFields
<1> HIDE DEF new
<1>3. CfOpOK(new)
  BY <1>2 DEF CfOpOK, CfReloading
<1> QED BY <1>2, <1>3 DEF new, asked, CfAsked

LEMMA CfMayPut ==
    ASSUME NEW e \in CfEngines, NEW key \in Settings, NEW v
    PROVE  LET new == [CfNew(e, "put", key, key, "save") EXCEPT !.name = v]
           IN  /\ CfOpOK(new) /\ new.engine = e /\ new.key = key /\ new.at = "save"
               /\ new.do = "put" /\ new.name = v
<1> DEFINE asked == CfNew(e, "put", key, key, "save")
           new == [asked EXCEPT !.name = v]
<1>1. CfFull(asked) /\ asked.at = "save" /\ asked.engine = e /\ asked.do = "put" /\ asked.key = key
  BY CfNewParts
<1> HIDE DEF asked
<1>2. CfFull(new) /\ new.at = "save" /\ new.engine = e /\ new.do = "put" /\ new.key = key /\ new.name = v
  BY <1>1 DEF CfFull, CfFields
<1> HIDE DEF new
<1>3. CfOpOK(new)
  BY <1>2 DEF CfOpOK, CfReloading
<1> QED BY <1>2, <1>3 DEF new, asked

\* The commands of the chats.
LEMMA CfAddInSync ==
    ASSUME CfInv, CfSynced, NEW h \in CfHandlers, NEW e \in CfEngines, NEW name, CommandsAdd(h, e, name)
    PROVE  CfSynced'
<1> DEFINE new == CfNew(e, "add", "commands", name, "add")
           m == cfMem[e]
<1>1. CfOpOK(new) /\ new.engine = e /\ new.key = "commands" /\ new.at = "add"
  BY CfNewParts DEF CfOpOK, CfReloading
<1>2. CfTakes(h, new) /\ cfMem' = cfMem /\ UNCHANGED cfFile
  BY DEF CommandsAdd
<1>3. CfMemOK(m) /\ cfMem = [cfMem EXCEPT ![e] = m]
  BY DEF CfSynced, CfTyped
<1> HIDE DEF new
<1>4. ~CfReloading(new)
  BY <1>1 DEF CfReloading
<1>5. CfOnly(new, e, m, m) /\ CfHolds(new, e, m, cfFile)
  BY <1>1, <1>4, CfKeysApart DEF CfOnly, CfHolds, CfLists
<1> QED BY <1>1, <1>2, <1>3, <1>4, <1>5, CfTaken

LEMMA CfDelInSync ==
    ASSUME CfInv, CfSynced, NEW h \in CfHandlers, NEW e \in CfEngines, NEW name, CommandsDel(h, e, name)
    PROVE  CfSynced'
<1> DEFINE new == CfNew(e, "remove", "commands", name, "save")
           c == cfMem[e].commands \ {name}
           m == [cfMem[e] EXCEPT !.commands = c]
<1>1. /\ CfOpOK(new) /\ new.engine = e /\ new.key = "commands" /\ new.at = "save" /\ new.do = "remove"
      /\ new.name = name
  BY CfNewParts DEF CfOpOK, CfReloading
<1>2. CfTakes(h, new) /\ UNCHANGED cfFile
  BY DEF CommandsDel
<1>3. CfMemOK(cfMem[e]) /\ cfMem' = [cfMem EXCEPT ![e] = m]
  BY DEF CfSynced, CfTyped, CommandsDel, MemSet
<1>4. /\ CfMemOK(m) /\ m.commands = c /\ m.value = cfMem[e].value /\ m.providers = cfMem[e].providers
  BY ZenonT(40), <1>3, CfMemParts
<1>5. \A x : x \in c <=> x \in cfMem[e].commands /\ x # name
  OBVIOUS
<1> HIDE DEF new, m, c
<1>6. ~CfReloading(new)
  BY <1>1 DEF CfReloading
<1>7. CfOnly(new, e, cfMem[e], m) /\ CfHolds(new, e, m, cfFile)
  BY <1>1, <1>4, <1>5, <1>6, CfKeysApart DEF CfOnly, CfHolds, CfLists, CfNames
<1> QED BY <1>1, <1>2, <1>3, <1>4, <1>6, <1>7, CfTaken

LEMMA CfAskInSync ==
    ASSUME CfInv, CfSynced, NEW h \in CfHandlers, NEW e \in CfEngines, NEW name,
           NEW do \in {"add", "remove"}, ProvidersAsk(h, e, do, name)
    PROVE  CfSynced'
<1> DEFINE m == cfMem[e]
           new == CfAsked(e, do, name, m.providers)
<1>1. /\ CfOpOK(new) /\ new.engine = e /\ new.key = e /\ new.at = "list" /\ new.do = do
      /\ new.list = m.providers
  BY CfMayList
<1>2. CfTakes(h, new) /\ cfMem' = cfMem /\ UNCHANGED cfFile
  BY DEF ProvidersAsk, CfAsked
<1>3. CfMemOK(m) /\ cfMem = [cfMem EXCEPT ![e] = m]
  BY DEF CfSynced, CfTyped
<1> HIDE DEF new
<1>4. ~CfReloading(new)
  BY <1>1 DEF CfReloading
<1>5. CfOnly(new, e, m, m)
  BY DEF CfOnly
<1>6. ASSUME \A b \in CfBusy(e) : ~CfMeet(new, cfOp[b]), CfAgree(e)
      PROVE  CfHolds(new, e, m, cfFile)
  <2>1. \A b \in CfBusy(e) : cfOp[b].do # "reload" /\ cfOp[b].key # e
    BY <1>1, <1>6, CfKeysApart DEF CfMeet
  <2>2. \A b \in CfBusy(e) : CfOpOK(cfOp[b])
    BY DEF CfBusy, CfSynced, CfTyped, CfActors
  <2>3. \A b \in CfBusy(e) : ~CfReloading(cfOp[b]) /\ ~CfLists(cfOp[b], e)
    BY <2>1, <2>2 DEF CfOpOK, CfReloading, CfLists
  <2>4. m.providers = cfFile.list[e]
    BY <1>6, <2>3 DEF CfAgree
  <2> QED BY <1>1, <1>4, <2>4, CfKeysApart DEF CfHolds
<1> QED BY <1>1, <1>2, <1>3, <1>4, <1>5, <1>6, CfTaken

LEMMA CfSwitchInSync ==
    ASSUME CfInv, CfSynced, NEW h \in CfHandlers, NEW e \in CfEngines, NEW name, ProviderSwitch(h, e, name)
    PROVE  CfSynced'
<1> DEFINE new == CfNew(e, "put", e, name, "save")
           a == IndexIn(cfMem[e].providers, name)
           m == [cfMem[e] EXCEPT !.active = a]
<1>1. CfOpOK(new) /\ new.engine = e /\ new.key = e /\ new.at = "save" /\ new.do = "put"
  BY CfNewParts DEF CfOpOK, CfReloading
<1>2. CfTakes(h, new) /\ UNCHANGED cfFile
  BY DEF ProviderSwitch
<1>3. CfMemOK(cfMem[e]) /\ cfMem' = [cfMem EXCEPT ![e] = m]
  BY DEF CfSynced, CfTyped, ProviderSwitch, MemSet
<1>4. CfMemOK(m) /\ m.commands = cfMem[e].commands /\ m.value = cfMem[e].value
      /\ m.providers = cfMem[e].providers
  BY <1>3, CfMemParts
<1> HIDE DEF new, m, a
<1>6. ~CfReloading(new)
  BY <1>1 DEF CfReloading
<1>7. CfOnly(new, e, cfMem[e], m) /\ CfHolds(new, e, m, cfFile)
  BY <1>1, <1>4, <1>6, CfKeysApart DEF CfOnly, CfHolds, CfLists
<1> QED BY <1>1, <1>2, <1>3, <1>4, <1>6, <1>7, CfTaken

LEMMA CfPutInSync ==
    ASSUME CfInv, CfSynced, NEW h \in CfHandlers, NEW e \in CfEngines, NEW v,
           \/ LanguageDetected(h, e, v)
           \/ \E key \in Settings : SettingPut(h, e, key, v)
    PROVE  CfSynced'
<1>0. CfMemOK(cfMem[e])
  BY DEF CfSynced, CfTyped
<1>1. CASE LanguageDetected(h, e, v)
  <2> DEFINE new == [CfNew(e, "put", "language", "language", "save") EXCEPT !.name = v]
             m == [cfMem[e] EXCEPT !.detected = v]
  <2>1. CfOpOK(new) /\ new.engine = e /\ new.key = "language" /\ new.at = "save" /\ new.do = "put"
    <3>1. "language" \in Settings
      BY DEF Settings
    <3> QED BY <3>1, CfMayPut
  <2>2. CfTakes(h, new) /\ UNCHANGED cfFile
    BY <1>1 DEF LanguageDetected
  <2>3. cfMem' = [cfMem EXCEPT ![e] = m]
    BY <1>1 DEF CfSynced, CfTyped, LanguageDetected, MemSet
  <2>4. CfMemOK(m) /\ m.commands = cfMem[e].commands /\ m.value = cfMem[e].value
        /\ m.providers = cfMem[e].providers
    BY <1>0, CfMemParts
  <2> HIDE DEF new, m
  <2>6. ~CfReloading(new)
    BY <2>1 DEF CfReloading
  <2>7. CfOnly(new, e, cfMem[e], m) /\ CfHolds(new, e, m, cfFile)
    BY <2>1, <2>4, <2>6, CfKeysApart DEF CfOnly, CfHolds, CfLists
  <2> QED BY <2>1, <2>2, <2>3, <2>4, <2>6, <2>7, CfTaken
<1>2. ASSUME NEW key \in Settings, SettingPut(h, e, key, v) PROVE CfSynced'
  <2> DEFINE new == [CfNew(e, "put", key, key, "save") EXCEPT !.name = v]
             m == [cfMem[e] EXCEPT !.value[key] = v]
  <2>1. /\ CfOpOK(new) /\ new.engine = e /\ new.key = key /\ new.at = "save" /\ new.do = "put"
        /\ new.name = v
    BY CfMayPut
  <2>2. CfTakes(h, new) /\ UNCHANGED cfFile
    BY <1>2 DEF SettingPut
  <2>3. cfMem' = [cfMem EXCEPT ![e] = m]
    BY <1>2 DEF CfSynced, CfTyped, SettingPut
  <2>4. /\ CfMemOK(m) /\ m.commands = cfMem[e].commands /\ m.providers = cfMem[e].providers
        /\ m.value[key] = v /\ \A j \in Settings : j # key => m.value[j] = cfMem[e].value[j]
    BY <1>0, CfMemValue
  <2> HIDE DEF new, m
  <2>6. ~CfReloading(new)
    BY <2>1 DEF CfReloading
  <2>7. CfOnly(new, e, cfMem[e], m) /\ CfHolds(new, e, m, cfFile)
    BY <2>1, <2>4, <2>6, CfKeysApart DEF CfOnly, CfHolds, CfLists
  <2> QED BY <2>1, <2>2, <2>3, <2>4, <2>6, <2>7, CfTaken
<1> QED BY <1>1, <1>2

\* What a handler does next on its engine.
LEMMA CfUnderWay ==
    ASSUME CfSynced, NEW h \in CfHandlers, ~CfAt(h, "idle")
    PROVE  /\ h \in CfActors /\ CfOpOK(cfOp[h]) /\ CfFull(cfOp[h]) /\ cfOp[h].engine \in CfEngines
           /\ h \in CfBusy(cfOp[h].engine) /\ CfMemOK(cfMem[cfOp[h].engine])
<1>1. h \in CfActors /\ CfOpOK(cfOp[h])
  BY DEF CfSynced, CfTyped, CfActors
<1>2. CfFull(cfOp[h]) /\ cfOp[h].engine \in CfEngines
  BY <1>1 DEF CfOpOK
<1> QED BY <1>1, <1>2 DEF CfBusy, CfSynced, CfTyped

LEMMA CfAdded ==
    ASSUME CfInv, CfSynced, NEW h \in CfHandlers, CommandsPut(h)
    PROVE  CfSynced'
<1>1. PICK op, e, new : op = cfOp[h] /\ e = op.engine /\ new = [op EXCEPT !.at = "save"]
  OBVIOUS
<1>2. op.at = "add" /\ ~CfAt(h, "idle")
  BY <1>1 DEF CommandsPut, CfAt
<1>3. /\ CfOpOK(op) /\ CfFull(op) /\ e \in CfEngines /\ h \in CfBusy(e) /\ CfMemOK(cfMem[e])
      /\ op.do = "add" /\ op.key = "commands" /\ ~CfReloading(op)
  BY <1>1, <1>2, CfUnderWay DEF CfOpOK, CfReloading
<1>4. /\ CfFull(new) /\ new.at = "save" /\ new.engine = e /\ new.do = "add" /\ new.key = "commands"
      /\ new.name = op.name
  BY <1>1, <1>3 DEF CfFull, CfFields
<1>5. PICK c : c = cfMem[e].commands \cup {op.name}
  OBVIOUS
<1>6. PICK m : /\ m = [cfMem[e] EXCEPT !.commands = c] /\ CfMemOK(m) /\ m.commands = c
               /\ m.providers = cfMem[e].providers /\ m.value = cfMem[e].value
  <2> DEFINE m == [cfMem[e] EXCEPT !.commands = c]
  <2>1. CfMemOK(m) /\ m.commands = c /\ m.providers = cfMem[e].providers /\ m.value = cfMem[e].value
    BY ZenonT(40), <1>3, CfMemParts
  <2> QED BY <2>1
<1>7. cfOp' = [cfOp EXCEPT ![h] = new] /\ UNCHANGED <<cfFile, cfDrift>>
  BY <1>1 DEF CommandsPut, CfGoes, cfHistory
<1>8. cfMem' = [cfMem EXCEPT ![e] = m]
  BY <1>1, <1>3, <1>5, <1>6 DEF CommandsPut, MemSet, CfSynced, CfTyped
<1>9. CfOpOK(new) /\ ~CfReloading(new)
  BY <1>3, <1>4 DEF CfOpOK, CfReloading
<1>10. CfOnly(new, e, cfMem[e], m) /\ CfHolds(new, e, m, cfFile)
  BY <1>3, <1>4, <1>5, <1>6, <1>9, CfKeysApart DEF CfOnly, CfHolds, CfLists, CfNames
<1>11. CfGoesOn(h, e, new) /\ CfAdvances(h, e, op, new, m)
  BY <1>1, <1>3, <1>4, <1>6, <1>7, <1>8 DEF CfGoesOn, CfAdvances
<1> QED BY <1>3, <1>4, <1>9, <1>10, <1>11, CfGone

LEMMA CfListed ==
    ASSUME CfInv, CfSynced, NEW h \in CfHandlers, ProvidersSet(h)
    PROVE  CfSynced'
<1>1. PICK op, e, new : op = cfOp[h] /\ e = op.engine /\ new = [op EXCEPT !.at = "save"]
  OBVIOUS
<1>2. op.at = "list" /\ ~CfAt(h, "idle")
  BY <1>1 DEF ProvidersSet, CfAt
<1>3. /\ CfOpOK(op) /\ CfFull(op) /\ e \in CfEngines /\ h \in CfBusy(e) /\ CfMemOK(cfMem[e])
      /\ op.do \in {"add", "remove"} /\ op.key = e /\ ~CfReloading(op)
  BY <1>1, <1>2, CfUnderWay DEF CfOpOK, CfReloading
<1>4. /\ CfFull(new) /\ new.at = "save" /\ new.engine = e /\ new.do = op.do /\ new.key = e
      /\ new.name = op.name /\ new.list = op.list
  BY <1>1, <1>3 DEF CfFull, CfFields
<1>5. PICK c : c = Edited(op.list, op.do, op.name)
  OBVIOUS
<1>6. PICK m : /\ m = [cfMem[e] EXCEPT !.providers = c] /\ CfMemOK(m) /\ m.providers = c
               /\ m.commands = cfMem[e].commands /\ m.value = cfMem[e].value
  <2> DEFINE m == [cfMem[e] EXCEPT !.providers = c]
  <2>1. CfMemOK(m) /\ m.providers = c /\ m.commands = cfMem[e].commands /\ m.value = cfMem[e].value
    BY <1>3, CfMemProviders
  <2> QED BY <2>1
<1>7. cfOp' = [cfOp EXCEPT ![h] = new] /\ UNCHANGED <<cfFile, cfDrift>>
  BY <1>1 DEF ProvidersSet, CfGoes
<1>8. cfMem' = [cfMem EXCEPT ![e] = m]
  BY <1>1, <1>3, <1>5, <1>6 DEF ProvidersSet, MemSet, CfSynced, CfTyped
<1>9. CfOpOK(new) /\ ~CfReloading(new)
  BY <1>3, <1>4 DEF CfOpOK, CfReloading
<1>10. CfOnly(new, e, cfMem[e], m)
  BY <1>3, <1>4, <1>6, CfKeysApart DEF CfOnly, CfLists, CfNames
<1>11. CfHolds(op, e, cfMem[e], cfFile) => CfHolds(new, e, m, cfFile)
  BY <1>2, <1>3, <1>4, <1>5, <1>6, <1>9, CfKeysApart DEF CfHolds, CfLists
<1>12. CfGoesOn(h, e, new) /\ CfAdvances(h, e, op, new, m)
  BY <1>1, <1>3, <1>4, <1>6, <1>7, <1>8 DEF CfGoesOn, CfAdvances
<1> QED BY <1>3, <1>4, <1>9, <1>10, <1>11, <1>12, CfGone

LEMMA CfReadInSync ==
    ASSUME CfInv, CfSynced, NEW h \in CfHandlers, SaveReads(h)
    PROVE  CfSynced'
<1>1. PICK op, e, new : op = cfOp[h] /\ e = op.engine /\ new = [op EXCEPT !.at = "write", !.read = cfFile]
  OBVIOUS
<1>2. op.at = "save" /\ ~CfAt(h, "idle")
  BY <1>1 DEF SaveReads, CfAt
<1>3. /\ CfOpOK(op) /\ CfFull(op) /\ e \in CfEngines /\ h \in CfBusy(e) /\ CfMemOK(cfMem[e])
      /\ ~CfReloading(op) /\ op.engine = e
  BY <1>1, <1>2, CfUnderWay DEF CfOpOK, CfReloading
<1>4. /\ CfFull(new) /\ new.at = "write" /\ new.engine = e /\ new.do = op.do /\ new.key = op.key
      /\ new.name = op.name /\ new.list = op.list /\ new.read = cfFile
  BY <1>1, <1>3 DEF CfFull, CfFields
<1>5. CfFileOK(cfFile) /\ cfMem = [cfMem EXCEPT ![e] = cfMem[e]]
  BY <1>3 DEF CfSynced, CfTyped
<1>6. cfOp' = [cfOp EXCEPT ![h] = new] /\ UNCHANGED <<cfMem, cfFile, cfDrift>>
  <2>1. cfOp = [b \in CfActors |-> cfOp[b]] /\ h \in CfActors
    BY DEF CfInv, CfShape, CfActors
  <2>2. cfOp' = [cfOp EXCEPT ![h].at = "write", ![h].read = cfFile]
    BY DEF SaveReads
  <2>3. cfOp' = [cfOp EXCEPT ![h] = new]
    BY <1>1, <2>1, <2>2
  <2> QED BY <2>3 DEF SaveReads, cfHistory
<1>7. CfOpOK(new) /\ ~CfReloading(new)
  BY <1>2, <1>3, <1>4, <1>5 DEF CfOpOK, CfReloading
<1>8. CfOnly(new, e, cfMem[e], cfMem[e])
  BY DEF CfOnly
<1>9. CfHolds(op, e, cfMem[e], cfFile) => CfHolds(new, e, cfMem[e], cfFile)
  BY <1>2, <1>3, <1>4, <1>7 DEF CfHolds, CfLists
<1>10. CfGoesOn(h, e, new) /\ CfAdvances(h, e, op, new, cfMem[e])
  BY <1>1, <1>3, <1>4, <1>5, <1>6 DEF CfGoesOn, CfAdvances
<1> QED BY <1>3, <1>4, <1>7, <1>8, <1>9, <1>10, CfGone

\* The steps of a reload.
LEMMA CfLoadInSync ==
    ASSUME CfInv, CfSynced, NEW h \in CfHandlers, NEW e \in CfEngines, ReloadLoads(h, e)
    PROVE  CfSynced'
<1> DEFINE asked == CfNew(e, "reload", "all", NoName, "providers")
           new == [asked EXCEPT !.read = cfFile]
           m == cfMem[e]
<1>1. CfFull(asked) /\ asked.at = "providers" /\ asked.engine = e /\ asked.do = "reload" /\ asked.key = "all"
  BY CfNewParts
<1>2. /\ cfOp' = [cfOp EXCEPT ![h] = new] /\ cfMem' = cfMem /\ UNCHANGED cfFile
      /\ CfAt(h, "idle") /\ cfDrift' = [cfDrift EXCEPT ![e] = CfBusy(e) # {}]
  BY DEF ReloadLoads
<1> HIDE DEF asked
<1>3. /\ CfFull(new) /\ new.at = "providers" /\ new.engine = e /\ new.do = "reload" /\ new.key = "all"
      /\ new.read = cfFile
  BY <1>1 DEF CfFull, CfFields
<1> HIDE DEF new
<1>4. CfOpOK(new) /\ CfReloading(new)
  BY <1>3 DEF CfOpOK, CfReloading
<1>5. /\ cfDrift = [d \in CfEngines |-> cfDrift[d]] /\ CfMemOK(m) /\ cfMem = [cfMem EXCEPT ![e] = m]
  BY DEF CfSynced, CfTyped
<1>6. /\ cfDrift' = [d \in CfEngines |-> cfDrift'[d]]
      /\ \A d \in CfEngines : d # e => cfDrift'[d] = cfDrift[d]
      /\ ~cfDrift'[e] => CfBusy(e) = {}
  BY <1>2, <1>5
<1>7. CfSteps(h, e, new, m)
  BY <1>2, <1>3, <1>4, <1>5, <1>6 DEF CfSteps
<1>8. CfHolds(new, e, m, cfFile)
  BY <1>3, CfKeysApart DEF CfHolds, CfLists
<1> QED BY <1>4, <1>6, <1>7, <1>8, CfReloadActs

CfTakenOver(c, r, e) == [c EXCEPT !.value["display"] = r.value["display"], !.providers = r.list[e]]

LEMMA CfTakesOver ==
    ASSUME NEW c, CfMemOK(c), NEW r, NEW e
    PROVE  LET m == CfTakenOver(c, r, e)
           IN  /\ CfMemOK(m) /\ m.commands = c.commands /\ m.value["display"] = r.value["display"]
               /\ m.providers = r.list[e]
<1> DEFINE x == r.value["display"]
           y == r.list[e]
           v == [c.value EXCEPT !["display"] = x]
           m == CfTakenOver(c, r, e)
<1>1. /\ c = [commands |-> c.commands, value |-> c.value, detected |-> c.detected,
              providers |-> c.providers, active |-> c.active]
      /\ c.value = [k \in Settings |-> c.value[k]]
  BY DEF CfMemOK
<1>2. m = [c EXCEPT !.value = v, !.providers = y]
  BY <1>1 DEF CfTakenOver
<1>3. v = [k \in Settings |-> v[k]] /\ v["display"] = x
  BY <1>1 DEF Settings
<1> HIDE DEF m, v, x, y
<1>5. m = [commands |-> c.commands, value |-> v, detected |-> c.detected,
           providers |-> y, active |-> c.active]
  BY <1>1, <1>2
<1>4. CfMemOK(m) /\ m.commands = c.commands /\ m.value["display"] = x /\ m.providers = y
  BY <1>3, <1>5 DEF CfMemOK
<1> QED BY <1>4 DEF m, x, y

LEMMA CfTookOver ==
    ASSUME CfInv, CfSynced, NEW h \in CfHandlers, ReloadProviders(h)
    PROVE  CfSynced'
<1>1. PICK op, e, new, m :
        /\ op = cfOp[h] /\ e = op.engine /\ new = [op EXCEPT !.at = "active"]
        /\ m = CfTakenOver(cfMem[e], op.read, e)
  OBVIOUS
<1>2. op.at = "providers" /\ ~CfAt(h, "idle") /\ CfReloading(op)
  BY <1>1 DEF ReloadProviders, CfAt, CfReloading
<1>3. e \in CfEngines /\ CfMemOK(cfMem[e])
  BY <1>1, <1>2, CfUnderWay
<1>4. CfMemOK(m) /\ m.value["display"] = op.read.value["display"] /\ m.providers = op.read.list[e]
  BY <1>1, <1>3, CfTakesOver
<1>5. cfOp' = [cfOp EXCEPT ![h] = new] /\ UNCHANGED <<cfFile, cfDrift>>
  BY <1>1 DEF ReloadProviders, CfGoes, cfHistory
<1>6. cfMem' = [cfMem EXCEPT ![e] = m]
  BY <1>1, <1>3 DEF ReloadProviders, CfSynced, CfTyped, CfTakenOver
<1>7. "display" \in Reloadable
  BY DEF Reloadable
<1>8. CfAdvances(h, e, op, new, m)
  BY <1>1, <1>4, <1>5, <1>6 DEF CfAdvances
<1> QED BY <1>1, <1>2, <1>3, <1>4, <1>7, <1>8, CfReloadGoes

LEMMA CfNamedActive ==
    ASSUME CfInv, CfSynced, NEW h \in CfHandlers, ReloadActive(h)
    PROVE  CfSynced'
<1>1. PICK op, e, new, a :
        /\ op = cfOp[h] /\ e = op.engine /\ new = [op EXCEPT !.at = "clear"]
        /\ a = IndexIn(cfMem[e].providers, op.read.value[e])
  OBVIOUS
<1>2. op.at = "active" /\ ~CfAt(h, "idle") /\ CfReloading(op)
  BY <1>1 DEF ReloadActive, CfAt, CfReloading
<1>3. e \in CfEngines /\ CfMemOK(cfMem[e]) /\ cfMem = [cfMem EXCEPT ![e] = cfMem[e]]
  <2>1. e \in CfEngines /\ CfMemOK(cfMem[e])
    BY <1>1, <1>2, CfUnderWay
  <2> QED BY <2>1 DEF CfSynced, CfTyped
<1>4. cfOp' = [cfOp EXCEPT ![h] = new] /\ UNCHANGED <<cfFile, cfDrift>>
  BY <1>1 DEF ReloadActive, CfGoes
<1>5. cfMem' = [cfMem EXCEPT ![e]["active"] = a] \/ cfMem' = cfMem
  BY <1>1 DEF ReloadActive, MemSet
<1>6. PICK m : /\ cfMem' = [cfMem EXCEPT ![e] = m] /\ CfMemOK(m)
               /\ m.providers = cfMem[e].providers /\ m.value = cfMem[e].value
  <2>1. CASE cfMem' = cfMem
    BY <1>3, <2>1
  <2>2. CASE cfMem' = [cfMem EXCEPT ![e]["active"] = a]
    <3> DEFINE m == [cfMem[e] EXCEPT !.active = a]
    <3>1. CfMemOK(m) /\ m.value = cfMem[e].value /\ m.providers = cfMem[e].providers
      BY <1>3, CfMemParts
    <3>2. cfMem' = [cfMem EXCEPT ![e] = m]
      BY <1>3, <2>2
    <3> QED BY <3>1, <3>2
  <2> QED BY <1>5, <2>1, <2>2
<1>7. CfAdvances(h, e, op, new, m)
  BY <1>1, <1>4, <1>6 DEF CfAdvances
<1> QED BY <1>1, <1>2, <1>3, <1>6, <1>7, CfReloadGoes

LEMMA CfCleared ==
    ASSUME CfInv, CfSynced, NEW h \in CfHandlers, ReloadClears(h)
    PROVE  CfSynced'
<1>1. PICK op, e, new : op = cfOp[h] /\ e = op.engine /\ new = [op EXCEPT !.at = "fill"]
  OBVIOUS
<1>2. op.at = "clear" /\ ~CfAt(h, "idle") /\ CfReloading(op)
  BY <1>1 DEF ReloadClears, CfAt, CfReloading
<1>3. e \in CfEngines /\ CfMemOK(cfMem[e])
  BY <1>1, <1>2, CfUnderWay
<1>4. PICK m : /\ m = [cfMem[e] EXCEPT !.commands = {}] /\ CfMemOK(m) /\ m.commands = {}
               /\ m.providers = cfMem[e].providers /\ m.value = cfMem[e].value
  <2> DEFINE m == [cfMem[e] EXCEPT !.commands = {}]
  <2>1. CfMemOK(m) /\ m.commands = {} /\ m.providers = cfMem[e].providers /\ m.value = cfMem[e].value
    BY ZenonT(40), <1>3, CfMemParts
  <2> QED BY <2>1
<1>5. cfOp' = [cfOp EXCEPT ![h] = new] /\ UNCHANGED <<cfFile, cfDrift>>
  BY <1>1 DEF ReloadClears, CfGoes, cfHistory
<1>6. cfMem' = [cfMem EXCEPT ![e] = m]
  BY <1>1, <1>3, <1>4 DEF ReloadClears, MemSet, CfSynced, CfTyped
<1>7. CfAdvances(h, e, op, new, m)
  BY <1>1, <1>4, <1>5, <1>6 DEF CfAdvances
<1> QED BY <1>1, <1>2, <1>3, <1>4, <1>7, CfReloadGoes

LEMMA CfFilled ==
    ASSUME CfInv, CfSynced, NEW h \in CfHandlers, ReloadFills(h)
    PROVE  CfSynced'
<1>1. PICK op, e : op = cfOp[h] /\ e = op.engine
  OBVIOUS
<1>2. op.at = "fill" /\ ~CfAt(h, "idle")
  BY <1>1 DEF ReloadFills, CfAt
<1>3. e \in CfEngines /\ CfMemOK(cfMem[e])
  BY <1>1, <1>2, CfUnderWay
<1>4. PICK m : m = CfFilledWith(cfMem[e], op.read)
  OBVIOUS
<1>5. /\ CfMemOK(m) /\ m.commands = cfMem[e].commands \cup op.read.commands
      /\ m.providers = cfMem[e].providers
      /\ \A k \in Settings : m.value[k] = IF k \in CfAliases THEN op.read.value[k] ELSE cfMem[e].value[k]
  BY <1>3, <1>4, CfFillParts
<1>6. cfOp' = [cfOp EXCEPT ![h] = CfIdle] /\ UNCHANGED <<cfFile, cfDrift>>
  BY DEF ReloadFills, CfEnds, cfHistory
<1>7. cfMem' = [cfMem EXCEPT ![e] = m]
  BY <1>1, <1>3, <1>4 DEF ReloadFills, CfSynced, CfTyped, CfFilledWith
<1>8. CfAdvances(h, e, op, CfIdle, m)
  BY <1>1, <1>5, <1>6, <1>7 DEF CfAdvances
<1> QED BY <1>2, <1>3, <1>5, <1>8, CfReloadEnds

\* The command line has no memory of its own: what it does before it writes shows nowhere.
LEMMA CfCliActs ==
    ASSUME CfInv, CfSynced, NEW new, cfOp' = [cfOp EXCEPT ![CfCli] = new],
           new = CfIdle \/ (CfOpOK(new) /\ new.key = new.engine),
           UNCHANGED <<cfMem, cfFile, cfDrift>>
    PROVE  CfSynced'
<1>0. CfTyped /\ CfCli \in CfActors /\ CfHandlers \subseteq CfActors /\ CfCli \notin CfHandlers
  BY ConfigFileAssumption DEF CfSynced, CfActors
<1>1. /\ cfOp'[CfCli] = new /\ \A b \in CfActors : b # CfCli => cfOp'[b] = cfOp[b]
      /\ (\A b \in CfActors : ~CfAt(b, "idle") => CfOpOK(cfOp[b]))'
  BY <1>0, CfOpsTyped
<1>2. CfTyped'
  <2>1. (~CfAt(CfCli, "idle") => cfOp[CfCli].key = cfOp[CfCli].engine)'
    BY <1>1 DEF CfAt, CfIdle
  <2>2. /\ CfFileOK(cfFile)' /\ (\A e \in CfEngines : CfMemOK(cfMem[e]))'
        /\ (cfMem = [e \in CfEngines |-> cfMem[e]])'
        /\ (cfDrift = [e \in CfEngines |-> cfDrift[e]])'
    BY <1>0 DEF CfTyped
  <2> QED BY <1>1, <2>1, <2>2 DEF CfTyped
<1>3. ASSUME NEW e \in CfEngines PROVE CfInSync(e)'
  <2>1. \A b \in CfHandlers : cfOp'[b] = cfOp[b]
    BY <1>0, <1>1
  <2>2. CfBusy(e)' = CfBusy(e) /\ CfBusy(e) \subseteq CfHandlers
    BY <2>1 DEF CfBusy, CfAt
  <2>3. \A b \in CfBusy(e) : CfAlike(cfOp'[b], cfOp[b])
    BY <2>1, <2>2 DEF CfAlike
  <2>4. CfInSync(e)
    BY DEF CfSynced
  <2> QED BY <2>2, <2>3, <2>4, CfUntouched
<1> QED BY <1>2, <1>3 DEF CfSynced

LEMMA CfCliInSync ==
    ASSUME CfInv, CfSynced,
           \/ SaveReads(CfCli) \/ SaveRefuses(CfCli) \/ SaveFails(CfCli)
           \/ \E e \in CfEngines, name \in CfProviders, do \in {"add", "remove"} : CliProvider(e, do, name)
    PROVE  CfSynced'
<1>0. CfCli \in CfActors /\ cfOp = [b \in CfActors |-> cfOp[b]]
  BY DEF CfInv, CfShape, CfActors
<1>1. CASE SaveReads(CfCli)
  <2>1. PICK op, new : op = cfOp[CfCli] /\ new = [op EXCEPT !.at = "write", !.read = cfFile]
    OBVIOUS
  <2>2. op.at = "save" /\ ~CfAt(CfCli, "idle") /\ UNCHANGED <<cfMem, cfFile, cfDrift>>
    BY <1>1, <2>1 DEF SaveReads, CfAt, cfHistory
  <2>3. CfOpOK(op) /\ CfFull(op) /\ op.key = op.engine /\ CfFileOK(cfFile)
    BY <1>0, <2>1, <2>2 DEF CfSynced, CfTyped, CfOpOK
  <2>4. /\ CfFull(new) /\ new.at = "write" /\ new.engine = op.engine /\ new.do = op.do /\ new.key = op.key
        /\ new.read = cfFile
    BY <2>1, <2>3 DEF CfFull, CfFields
  <2>5. CfOpOK(new) /\ new.key = new.engine
    BY <2>2, <2>3, <2>4 DEF CfOpOK, CfReloading
  <2>6. cfOp' = [cfOp EXCEPT ![CfCli] = new]
    BY <1>0, <1>1, <2>1 DEF SaveReads
  <2> QED BY <2>2, <2>5, <2>6, CfCliActs
<1>2. CASE SaveRefuses(CfCli) \/ SaveFails(CfCli)
  <2>1. cfOp' = [cfOp EXCEPT ![CfCli] = CfIdle] /\ UNCHANGED <<cfMem, cfFile, cfDrift>>
    BY <1>2 DEF SaveRefuses, SaveFails, Unsaved, CfEnds
  <2> QED BY <2>1, CfCliActs
<1>3. ASSUME NEW e \in CfEngines, NEW name \in CfProviders, NEW do \in {"add", "remove"},
             CliProvider(e, do, name)
      PROVE  CfSynced'
  <2>1. PICK new : new = CfNew(e, do, e, name, "save")
    OBVIOUS
  <2>2. CfFull(new) /\ new.at = "save" /\ new.engine = e /\ new.do = do /\ new.key = e
    BY <2>1, CfNewParts
  <2>3. CfOpOK(new) /\ new.key = new.engine
    BY <2>2 DEF CfOpOK, CfReloading
  <2>4. cfOp' = [cfOp EXCEPT ![CfCli] = new] /\ UNCHANGED <<cfMem, cfFile, cfDrift>>
    BY <1>3, <2>1 DEF CliProvider, cfHistory
  <2> QED BY <2>3, <2>4, CfCliActs
<1> QED BY <1>1, <1>2, <1>3

\* A save that is refused or fails parts the engine and the file.
LEMMA CfUnsaved ==
    ASSUME CfInv, CfSynced, NEW h \in CfHandlers, SaveRefuses(h) \/ SaveFails(h)
    PROVE  CfSynced'
<1>1. PICK e : e = cfOp[h].engine
  OBVIOUS
<1>2. ~CfAt(h, "idle") /\ h # CfCli
  BY ConfigFileAssumption DEF SaveRefuses, SaveFails, CfAt
<1>3. e \in CfEngines /\ h \in CfBusy(e) /\ CfMemOK(cfMem[e])
  BY <1>1, <1>2, CfUnderWay
<1>4. /\ cfDrift = [d \in CfEngines |-> cfDrift[d]] /\ cfMem = [cfMem EXCEPT ![e] = cfMem[e]]
  BY <1>3 DEF CfSynced, CfTyped
<1>5. cfOp' = [cfOp EXCEPT ![h] = CfIdle] /\ UNCHANGED <<cfMem, cfFile>>
  BY DEF SaveRefuses, SaveFails, CfEnds
<1>6. cfDrift' = [cfDrift EXCEPT ![e] = TRUE]
  BY <1>1, <1>2 DEF SaveRefuses, SaveFails, Unsaved
<1>7. /\ cfDrift' = [d \in CfEngines |-> cfDrift'[d]] /\ cfDrift'[e]
      /\ \A d \in CfEngines : d # e => cfDrift'[d] = cfDrift[d]
  BY <1>3, <1>4, <1>6
<1>8. CfSteps(h, e, CfIdle, cfMem[e])
  BY <1>3, <1>4, <1>5, <1>7 DEF CfSteps
<1>9. CfTyped' /\ \A d \in CfEngines : d # e => CfInSync(d)'
  BY <1>3, <1>8, CfElsewhere
<1>10. CfInSync(e)'
  BY <1>7 DEF CfInSync
<1> QED BY <1>9, <1>10 DEF CfSynced

\* The file after the rename: what it says of other things than the one that is saved stays.
LEMMA CfFileStill ==
    ASSUME NEW e \in CfEngines, NEW op, NEW other, NEW m, NEW f, NEW g,
           ~CfLists(op, e) => g.list[e] = f.list[e],
           ~CfMeet(op, other), CfHolds(other, e, m, f), CfOpOK(other), CfOpOK(op)
    PROVE  CfHolds(other, e, m, g)
<1>1. other.do # "reload" /\ (op.key = other.key => op.key = "commands")
  BY DEF CfMeet
<1>2. ~CfReloading(other)
  BY <1>1 DEF CfOpOK, CfReloading
<1>3. CfLists(other, e) => ~CfLists(op, e)
  BY <1>1, CfKeysApart DEF CfLists
<1> QED BY <1>2, <1>3 DEF CfHolds

\* The engine whose command is saved agrees with the new file.
LEMMA CfSavedAgrees ==
    ASSUME CfSynced, NEW h \in CfHandlers, NEW e \in CfEngines, h \in CfBusy(e), NEW op,
           op = cfOp[h], op.at = "write", op.read = cfFile, ~cfDrift[e],
           cfFile' = Edit(op.read, op), UNCHANGED cfMem, CfBusy(e)' = CfBusy(e) \ {h},
           \A b \in CfBusy(e) \ {h} : cfOp'[b] = cfOp[b]
    PROVE  CfInSync(e)'
<1>0. CfTyped /\ CfBusy(e) \subseteq CfActors
  BY DEF CfSynced, CfBusy, CfActors
<1>1. CfFileOK(cfFile) /\ CfOpOK(op) /\ \A b \in CfBusy(e) : CfOpOK(cfOp[b])
  BY <1>0 DEF CfTyped, CfBusy
<1>2. /\ \A a, b \in CfBusy(e) : a # b => ~CfMeet(cfOp[a], cfOp[b])
      /\ \A b \in CfBusy(e) : CfHolds(cfOp[b], e, cfMem[e], cfFile)
      /\ CfAgree(e)
  BY DEF CfSynced, CfInSync
<1>3. /\ \A name : name \in cfFile'.commands <=>
                     IF CfNames(op, name) THEN op.do = "add" ELSE name \in cfFile.commands
      /\ cfFile'.list[e] = IF CfLists(op, e) THEN Edited(cfFile.list[e], op.do, op.name) ELSE cfFile.list[e]
      /\ \A k \in Settings : cfFile'.value[k] = IF op.key = k THEN op.name ELSE cfFile.value[k]
  BY <1>1, CfEditParts
<1>4. CfHolds(op, e, cfMem[e], cfFile) /\ ~CfReloading(op)
  BY <1>2 DEF CfReloading
<1>5. ASSUME NEW b \in CfBusy(e) \ {h} PROVE CfHolds(cfOp'[b], e, cfMem[e], cfFile')
  <2>1. ~CfMeet(op, cfOp[b]) /\ CfHolds(cfOp[b], e, cfMem[e], cfFile) /\ CfOpOK(cfOp[b])
    BY <1>1, <1>2
  <2>2. ~CfLists(op, e) => cfFile'.list[e] = cfFile.list[e]
    BY <1>3
  <2> QED BY <1>1, <2>1, <2>2, CfFileStill
<1>6. ASSUME NEW name \in cfMem[e].commands \cup cfFile'.commands,
             \A b \in CfBusy(e) \ {h} : ~CfReloading(cfOp[b]) /\ ~CfNames(cfOp[b], name)
      PROVE  name \in cfMem[e].commands /\ name \in cfFile'.commands
  <2>1. CASE CfNames(op, name)
    BY <1>3, <1>4, <1>6, <2>1 DEF CfNames, CfHolds
  <2>2. CASE ~CfNames(op, name)
    <3>1. \A b \in CfBusy(e) : ~CfReloading(cfOp[b]) /\ ~CfNames(cfOp[b], name)
      BY <1>4, <1>6, <2>2
    <3> QED BY <1>2, <1>3, <1>6, <2>2, <3>1 DEF CfAgree
  <2> QED BY <2>1, <2>2
<1>7. ASSUME \A b \in CfBusy(e) \ {h} : ~CfReloading(cfOp[b]) /\ ~CfLists(cfOp[b], e)
      PROVE  cfMem[e].providers = cfFile'.list[e]
  <2>1. CASE CfLists(op, e)
    BY <1>3, <1>4, <2>1 DEF CfHolds
  <2>2. CASE ~CfLists(op, e)
    <3>1. \A b \in CfBusy(e) : ~CfReloading(cfOp[b]) /\ ~CfLists(cfOp[b], e)
      BY <1>4, <1>7, <2>2
    <3> QED BY <1>2, <1>3, <2>2, <3>1 DEF CfAgree
  <2> QED BY <2>1, <2>2
<1>8. ASSUME NEW k \in Reloadable, \A b \in CfBusy(e) \ {h} : ~CfReloading(cfOp[b]) /\ cfOp[b].key # k
      PROVE  cfMem[e].value[k] = cfFile'.value[k]
  <2>0. k \in Settings
    BY CfKeysApart
  <2>1. CASE op.key = k
    BY <1>3, <1>4, <2>0, <2>1 DEF CfHolds
  <2>2. CASE op.key # k
    <3>1. \A b \in CfBusy(e) : ~CfReloading(cfOp[b]) /\ cfOp[b].key # k
      BY <1>4, <1>8, <2>2
    <3> QED BY <1>2, <1>3, <2>0, <2>2, <3>1 DEF CfAgree
  <2> QED BY <2>1, <2>2
<1>9. CfAgree(e)'
  <2>1. \A name \in cfMem'[e].commands \cup cfFile'.commands :
          (\A b \in CfBusy(e)' : ~CfReloading(cfOp'[b]) /\ ~CfNames(cfOp'[b], name)) =>
            name \in cfMem'[e].commands /\ name \in cfFile'.commands
    BY <1>6
  <2>2. (\A b \in CfBusy(e)' : ~CfReloading(cfOp'[b]) /\ ~CfLists(cfOp'[b], e)) =>
          cfMem'[e].providers = cfFile'.list[e]
    BY <1>7
  <2>3. \A k \in Reloadable : (\A b \in CfBusy(e)' : ~CfReloading(cfOp'[b]) /\ cfOp'[b].key # k) =>
          cfMem'[e].value[k] = cfFile'.value[k]
    BY <1>8
  <2> QED BY <2>1, <2>2, <2>3 DEF CfAgree
<1>10. /\ \A a, b \in CfBusy(e)' : a # b => ~CfMeet(cfOp'[a], cfOp'[b])
       /\ \A b \in CfBusy(e)' : CfHolds(cfOp'[b], e, cfMem'[e], cfFile')
  BY <1>2, <1>5
<1> QED BY <1>9, <1>10 DEF CfInSync

\* An engine whose project is not the saved one.
LEMMA CfSavedElsewhere ==
    ASSUME CfSynced, NEW e \in CfEngines, NEW op, CfOpOK(op), op.at = "write", op.read = cfFile,
           op.key \in CfEngines, op.key # e, cfFile' = Edit(op.read, op), UNCHANGED cfMem,
           CfBusy(e)' = CfBusy(e), \A b \in CfBusy(e) : CfAlike(cfOp'[b], cfOp[b]),
           ~cfDrift'[e] => ~cfDrift[e]
    PROVE  CfInSync(e)'
<1>1. CfFileOK(cfFile)
  BY DEF CfSynced, CfTyped
<1>2. /\ \A name : name \in cfFile'.commands <=>
                     IF CfNames(op, name) THEN op.do = "add" ELSE name \in cfFile.commands
      /\ cfFile'.list[e] = IF CfLists(op, e) THEN Edited(cfFile.list[e], op.do, op.name) ELSE cfFile.list[e]
      /\ \A k \in Settings : cfFile'.value[k] = IF op.key = k THEN op.name ELSE cfFile.value[k]
      /\ CfFileOK(cfFile')
  BY <1>1, CfEditParts
<1>3. op.key # "commands" /\ op.key \notin Settings
  BY CfKeysApart
<1>4. \A name : name \in cfFile'.commands <=> name \in cfFile.commands
  BY <1>2, <1>3 DEF CfNames
<1>5. cfFile'.list[e] = cfFile.list[e] /\ \A k \in Reloadable : cfFile'.value[k] = cfFile.value[k]
  BY <1>2, <1>3, CfKeysApart DEF CfLists
<1>6. cfFile'.commands = cfFile.commands
  BY <1>3 DEF Edit, CfFileOK
<1> QED BY <1>5, <1>6, CfUntouched DEF CfSynced

LEMMA CfSaved ==
    ASSUME CfInv, CfSynced, NEW h \in CfActors, SaveRenames(h)
    PROVE  CfSynced'
<1>0. /\ CfTyped /\ cfOp = [b \in CfActors |-> cfOp[b]] /\ CfHandlers \subseteq CfActors
      /\ CfCli \in CfActors /\ CfCli \notin CfHandlers
  BY ConfigFileAssumption DEF CfSynced, CfInv, CfShape, CfActors
<1>1. PICK op : op = cfOp[h]
  OBVIOUS
<1>2. op.at = "write" /\ ~CfAt(h, "idle")
  BY <1>1 DEF SaveRenames, CfAt
<1>3. CfOpOK(op) /\ CfFull(op) /\ op.engine \in CfEngines /\ CfFileOK(op.read)
  BY <1>0, <1>1, <1>2 DEF CfTyped, CfOpOK
<1>4. /\ cfFile' = Edit(op.read, op) /\ UNCHANGED cfMem
      /\ cfDrift' = [e \in CfEngines |-> cfDrift[e] \/ op.crossed \/ e \in Strangers(h)]
      /\ cfOp' = [b \in CfActors |->
                    IF b = h THEN CfIdle
                    ELSE IF CfCli \in {b, h} /\ CfAt(b, "write") THEN [cfOp[b] EXCEPT !.crossed = TRUE]
                    ELSE cfOp[b]]
  BY <1>1 DEF SaveRenames
<1>5. cfOp'[h] = CfIdle
  BY <1>4
<1>6. ASSUME NEW b \in CfActors, b # h, ~CfAt(b, "idle")
      PROVE  CfAlike(cfOp'[b], cfOp[b]) /\ CfOpOK(cfOp'[b]) /\ (h # CfCli /\ b # CfCli => cfOp'[b] = cfOp[b])
  <2>1. CfOpOK(cfOp[b]) /\ CfFull(cfOp[b])
    BY <1>0, <1>6 DEF CfTyped, CfOpOK
  <2>2. \/ cfOp'[b] = cfOp[b]
        \/ CfCli \in {b, h} /\ cfOp'[b] = [cfOp[b] EXCEPT !.crossed = TRUE]
    BY <1>4, <1>6
  <2>3. CASE cfOp'[b] = cfOp[b]
    BY <2>1, <2>3 DEF CfAlike
  <2>4. CASE CfCli \in {b, h} /\ cfOp'[b] = [cfOp[b] EXCEPT !.crossed = TRUE]
    <3>1. PICK new, o : o = cfOp[b] /\ new = cfOp'[b] /\ new = [o EXCEPT !.crossed = TRUE]
      BY <2>4
    <3>2. /\ CfFull(new) /\ new.at = o.at /\ new.engine = o.engine /\ new.do = o.do /\ new.key = o.key
          /\ new.name = o.name /\ new.list = o.list /\ new.read = o.read
      BY <2>1, <3>1 DEF CfFull, CfFields
    <3>3. CfOpOK(new)
      BY <2>1, <3>1, <3>2 DEF CfOpOK, CfReloading
    <3> QED BY <2>4, <3>1, <3>2, <3>3 DEF CfAlike
  <2> QED BY <2>2, <2>3, <2>4
<1>7. \A b \in CfActors : b # h => (cfOp'[b].at = "idle" <=> cfOp[b].at = "idle")
  <2>1. ASSUME NEW b \in CfActors, b # h PROVE cfOp'[b].at = "idle" <=> cfOp[b].at = "idle"
    <3>1. CASE ~CfAt(b, "idle")
      BY <1>6, <2>1, <3>1 DEF CfAlike, CfAt
    <3>2. CASE CfAt(b, "idle")
      BY <1>4, <2>1, <3>2 DEF CfAt
    <3> QED BY <3>1, <3>2
  <2> QED BY <2>1
<1>8. CfTyped'
  <2>1. \A b \in CfActors : cfOp'[b].at # "idle" => CfOpOK(cfOp'[b])
    BY <1>5, <1>6, <1>7 DEF CfAt, CfIdle
  <2>2. (\A b \in CfActors : ~CfAt(b, "idle") => CfOpOK(cfOp[b]))'
    BY <2>1 DEF CfAt, CfActors
  <2>3. CfFileOK(cfFile)'
    BY <1>2, <1>3, <1>4, CfEditParts
  <2>4. (cfDrift = [e \in CfEngines |-> cfDrift[e]])'
    BY <1>4
  <2>5. (~CfAt(CfCli, "idle") => cfOp[CfCli].key = cfOp[CfCli].engine)'
    <3>1. CASE CfCli = h
      BY <1>5, <3>1 DEF CfAt, CfIdle
    <3>2. CASE CfCli # h
      BY <1>0, <1>6, <1>7, <3>2 DEF CfAt, CfTyped, CfAlike
    <3> QED BY <3>1, <3>2
  <2>6. (cfMem = [e \in CfEngines |-> cfMem[e]] /\ \A e \in CfEngines : CfMemOK(cfMem[e]))'
    BY <1>0, <1>4 DEF CfTyped
  <2> QED BY <2>2, <2>3, <2>4, <2>5, <2>6 DEF CfTyped
<1>9. ASSUME NEW e \in CfEngines PROVE CfInSync(e)'
  <2>1. CASE cfDrift'[e]
    BY <2>1 DEF CfInSync
  <2>2. CASE ~cfDrift'[e]
    <3>1. ~cfDrift[e] /\ ~op.crossed /\ e \notin Strangers(h)
      BY <1>4, <2>2
    <3>2. op.read = cfFile
      BY <1>1, <1>2, <3>1 DEF CfInv, CfAt
    <3>3. CfBusy(e) \subseteq CfHandlers /\ CfBusy(e)' \subseteq CfHandlers
      BY DEF CfBusy
    <3>4. \A b \in CfHandlers \ {h} : (b \in CfBusy(e)' <=> b \in CfBusy(e))
      BY <1>0, <1>6, <1>7 DEF CfBusy, CfAt, CfAlike
    <3>5. h \notin CfBusy(e)'
      BY <1>5 DEF CfBusy, CfAt, CfIdle
    <3>6. \A b \in CfBusy(e) \ {h} : CfAlike(cfOp'[b], cfOp[b]) /\ (h # CfCli => cfOp'[b] = cfOp[b])
      BY <1>0, <1>6 DEF CfBusy
    <3>7. CASE h # CfCli /\ e = op.engine
      <4>1. h \in CfHandlers /\ h \in CfBusy(e)
        BY <1>1, <1>2, <3>7 DEF CfBusy, CfActors
      <4>2. CfBusy(e)' = CfBusy(e) \ {h}
        BY <3>3, <3>4, <3>5
      <4>3. \A b \in CfBusy(e) \ {h} : cfOp'[b] = cfOp[b]
        BY <3>6, <3>7
      <4> QED BY <1>1, <1>2, <1>4, <3>1, <3>2, <4>1, <4>2, <4>3, CfSavedAgrees
    <3>8. CASE h = CfCli \/ e # op.engine
      <4>1. op.key \in CfEngines /\ op.key # e
        <5>1. CASE h = CfCli
          BY <1>0, <1>1, <1>2, <1>3, <3>1, <5>1 DEF Strangers, CfTyped
        <5>2. CASE h # CfCli /\ e # op.engine
          BY <1>1, <1>2, <1>3, <3>1, <5>2, CfKeysApart DEF Strangers, CfOpOK, CfReloading
        <5> QED BY <3>8, <5>1, <5>2
      <4>2. h \notin CfBusy(e)
        BY <1>0, <1>1, <3>8 DEF CfBusy
      <4>3. CfBusy(e)' = CfBusy(e) /\ \A b \in CfBusy(e) : CfAlike(cfOp'[b], cfOp[b])
        BY <3>3, <3>4, <3>5, <3>6, <4>2
      <4> QED BY <1>2, <1>3, <1>4, <3>1, <3>2, <4>1, <4>3, CfSavedElsewhere
    <3> QED BY <3>7, <3>8
  <2> QED BY <2>1, <2>2
<1> QED BY <1>8, <1>9 DEF CfSynced

LEMMA CfNextInSync == CfInv /\ CfSynced /\ [CfNext]_cfVars => CfSynced'
<1> SUFFICES ASSUME CfInv, CfSynced, [CfNext]_cfVars PROVE CfSynced'
  OBVIOUS
<1>1. ASSUME NEW h \in CfHandlers, NEW e \in CfEngines,
             \/ \E name \in CfCommandNames : CommandsAdd(h, e, name) \/ CommandsDel(h, e, name)
             \/ \E name \in CfProviders, do \in {"add", "remove"} : ProvidersAsk(h, e, do, name)
             \/ \E name \in CfProviders \cup {NoName} : ProviderSwitch(h, e, name)
             \/ \E key \in Settings \ {"language"}, v \in CfMarks \cup {NoName} : SettingPut(h, e, key, v)
             \/ \E v \in CfMarks : LanguageDetected(h, e, v)
             \/ ReloadLoads(h, e)
      PROVE  CfSynced'
  <2>1. ASSUME NEW name, CommandsAdd(h, e, name) PROVE CfSynced'
    BY <2>1, CfAddInSync
  <2>2. ASSUME NEW name, CommandsDel(h, e, name) PROVE CfSynced'
    BY <2>2, CfDelInSync
  <2>3. ASSUME NEW name, NEW do \in {"add", "remove"}, ProvidersAsk(h, e, do, name) PROVE CfSynced'
    BY <2>3, CfAskInSync
  <2>4. ASSUME NEW name, ProviderSwitch(h, e, name) PROVE CfSynced'
    BY <2>4, CfSwitchInSync
  <2>5. ASSUME NEW key \in Settings, NEW v, SettingPut(h, e, key, v) PROVE CfSynced'
    BY <2>5, CfPutInSync
  <2>6. ASSUME NEW v, LanguageDetected(h, e, v) PROVE CfSynced'
    BY <2>6, CfPutInSync
  <2>7. CASE ReloadLoads(h, e)
    BY <2>7, CfLoadInSync
  <2> QED BY <1>1, <2>1, <2>2, <2>3, <2>4, <2>5, <2>6, <2>7
<1>2. ASSUME NEW h \in CfHandlers,
             \/ CommandsPut(h) \/ ProvidersSet(h)
             \/ ReloadProviders(h) \/ ReloadActive(h) \/ ReloadClears(h) \/ ReloadFills(h)
      PROVE  CfSynced'
  BY <1>2, CfAdded, CfListed, CfTookOver, CfNamedActive, CfCleared, CfFilled
<1>3. ASSUME NEW e \in CfEngines, NEW name \in CfProviders, NEW do \in {"add", "remove"},
             CliProvider(e, do, name)
      PROVE  CfSynced'
  BY <1>3, CfCliInSync
<1>4. ASSUME NEW h \in CfActors, SaveReads(h) \/ SaveRefuses(h) \/ SaveFails(h) \/ SaveRenames(h)
      PROVE  CfSynced'
  <2>1. CASE h = CfCli
    BY <1>4, <2>1, CfCliInSync, CfSaved
  <2>2. CASE h \in CfHandlers
    BY <1>4, <2>2, CfReadInSync, CfUnsaved, CfSaved
  <2> QED BY <2>1, <2>2 DEF CfActors
<1>5. CASE UNCHANGED cfVars
  <2>1. UNCHANGED <<cfFile, cfMem, cfOp, cfDrift>>
    BY <1>5 DEF cfVars, cfHistory
  <2>2. CfTyped'
    BY <2>1 DEF CfSynced, CfTyped, CfAt, CfActors
  <2>3. ASSUME NEW e \in CfEngines PROVE CfInSync(e)'
    <3>1. CfBusy(e)' = CfBusy(e) /\ \A b \in CfBusy(e) : CfAlike(cfOp'[b], cfOp[b])
      BY <2>1 DEF CfBusy, CfAt, CfAlike
    <3> QED BY <2>1, <3>1, CfUntouched DEF CfSynced
  <2> QED BY <2>2, <2>3 DEF CfSynced
<1> QED BY <1>1, <1>2, <1>3, <1>4, <1>5, CfCrashInSync DEF CfNext

\* An engine at rest shows what the file says, unless a save has failed, another process or
\* another engine has written a setting of its since it was loaded, or two of its commands have met.
THEOREM EnginesShowFile == CfSpec => []EngineShowsFile
<1>1. CfInit => CfInv /\ CfSynced
  <2> SUFFICES ASSUME CfInit PROVE CfInv /\ CfSynced
    OBVIOUS
  <2>1. /\ cfOp = [h \in CfActors |-> CfIdle] /\ cfWrites = cfFile /\ CfIdle.at # "write"
        /\ CfIdle.at = "idle" /\ CfHandlers \subseteq CfActors /\ CfCli \in CfActors
        /\ cfMem = [e \in CfEngines |-> Built(cfFile, e)] /\ cfDrift = [e \in CfEngines |-> FALSE]
    BY DEF CfInit, CfIdle, CfActors
  <2>2. CfInv
    BY <2>1 DEF CfInv, CfShape, CfIsOp, CfAt, CfActors, NoSaveLost
  <2>3. CfFileOK(cfFile)
    BY DEF CfInit, CfFileOK
  <2>4. \A h \in CfActors : CfAt(h, "idle")
    BY <2>1 DEF CfAt
  <2>5. \A e \in CfEngines : cfMem[e] = Built(cfFile, e) /\ CfMemOK(cfMem[e])
    BY <2>1, <2>3, CfBuiltShows
  <2>6. CfTyped
    BY <2>1, <2>3, <2>4, <2>5 DEF CfTyped
  <2>7. \A e \in CfEngines : CfBusy(e) = {}
    BY <2>1, <2>4 DEF CfBusy
  <2>8. \A e \in CfEngines : CfInSync(e)
    BY <2>3, <2>5, <2>7, CfStartsInSync
  <2> QED BY <2>2, <2>6, <2>8 DEF CfSynced
<1>2. CfSynced => EngineShowsFile
  <2> SUFFICES ASSUME CfSynced, NEW e \in CfEngines, CfBusy(e) = {}, ~cfDrift[e]
               PROVE  /\ cfMem[e].commands = cfFile.commands
                      /\ cfMem[e].providers = cfFile.list[e]
                      /\ \A k \in Reloadable : cfMem[e].value[k] = cfFile.value[k]
    BY DEF EngineShowsFile
  <2>1. CfAgree(e)
    BY DEF CfSynced, CfInSync
  <2> QED BY <2>1 DEF CfAgree
<1>3. CfInv /\ CfSynced /\ [CfNext]_cfVars => CfInv' /\ CfSynced'
  BY CfNextKeeps, CfNextInSync
<1> QED BY <1>1, <1>2, <1>3, PTL DEF CfSpec

-----------------------------------------------------------------------------
(* SelfUpdate: the service can start after an update, and tells who asked, once. *)

SuSteps == {"new", "idle", "remove", "backup", "install", "fill", "chmod", "clear", "restore", "ask"}
SuOpRecords == [at : SuSteps, path : SuNames, version : Nat]

SuTypeOK ==
    /\ suFile \in [SuNames -> Int] /\ suLatest \in Nat \ {0}
    /\ suExe \in [name : SuNames, gone : BOOLEAN]
    /\ suOp \in [Commands -> SuOpRecords]

\* An update at work has a newer version and room for the .old file; the steps of the two
\* programs differ.
SuOpsOK ==
    \A u \in Commands :
      /\ SuAtWork(u) => Path(u) + 1 \in SuNames /\ suOp[u].version > 0
      /\ suOp[u].at \in {"fill", "chmod", "clear"} => u = Cli
      /\ suOp[u].at = "ask" => u # Cli

\* A chat is in one place at most of those that its request goes through: its command, the
\* channel, main and the note; and told only after them.
SuNoteInv ==
    /\ suMain \in {"up", "stopping", "exec", "down"}
    /\ {suChan, suFor, suNote} \subseteq SuChats \cup {NoChat}
    /\ suTold \in [SuChats -> {0, 1}]
    /\ suMain \in {"up", "stopping"} => suNote = NoChat
    /\ suMain \in {"up", "down"} => suFor = NoChat
    /\ suMain = "down" => suChan = NoChat
    /\ \A u \in SuChats : u \in {suChan, suFor, suNote} => OpAt(u, "idle") /\ suTold[u] = 0
    /\ \A u \in SuChats : suTold[u] = 1 => OpAt(u, "idle")
    /\ suChan # NoChat => suChan \notin {suFor, suNote}

\* Where the binary is at each step of an update that has it to itself.
SuPlace ==
    /\ \A u \in Commands : SuAtWork(u) => Path(u) = 0
    /\ \A u, w \in Commands : SuAtWork(u) /\ SuAtWork(w) => u = w
    /\ \A u \in Commands : suOp[u].at \in {"remove", "backup", "clear", "ask"} => Whole(0)
    /\ \A u \in Commands : suOp[u].at \in {"install", "fill", "chmod", "restore"} => Whole(1)
    /\ (\A u \in Commands : ~SuAtWork(u)) => Whole(0) \/ (suCut /\ Whole(1))

SuInv == SuTypeOK /\ SuOpsOK /\ SuNoteInv /\ (~suRaced => SuPlace)

\* The operation of a command after a step of it.
LEMMA SuOpTyped ==
    ASSUME SuTypeOK, NEW u \in Commands
    PROVE  /\ \A step \in SuSteps :
                /\ [suOp[u] EXCEPT !.at = step] \in SuOpRecords
                /\ [suOp[u] EXCEPT !.at = step].at = step
                /\ [suOp[u] EXCEPT !.at = step].path = suOp[u].path
                /\ [suOp[u] EXCEPT !.at = step].version = suOp[u].version
           /\ SuIdle \in SuOpRecords /\ SuIdle.at = "idle"
  <1>1. suOp[u] \in SuOpRecords /\ 0 \in SuNames
    BY SelfUpdateAssumption DEF SuTypeOK, SuNames
  <1> QED
    BY <1>1 DEF SuOpRecords, SuIdle, SuSteps

\* Files, and the name of the one that runs, keep their types when a file goes or is renamed.
LEMMA SuLostTyped ==
    ASSUME SuTypeOK, NEW n \in SuNames
    PROVE  /\ Lost(n) \in [name : SuNames, gone : BOOLEAN]
           /\ Running(n) \in [name : SuNames, gone : BOOLEAN]
  BY DEF Lost, Running, SuTypeOK

LEMMA SuFilesTyped ==
    ASSUME SuTypeOK, NEW n \in SuNames, NEW k \in SuNames, Rename(n, k)
    PROVE  suFile' \in [SuNames -> Int] /\ suExe' \in [name : SuNames, gone : BOOLEAN]
  <1>1. suFile' \in [SuNames -> Int] /\ (suExe' = Running(k) \/ suExe' = Lost(k))
    BY DEF Rename, SuTypeOK, NoFile
  <1> QED
    BY <1>1, SuLostTyped

\* The removal of an .old file, which may fail, keeps the types.
LEMMA SuRemoveOldTyped ==
    ASSUME SuTypeOK, NEW u \in Commands, Path(u) + 1 \in SuNames, RemoveOld(u)
    PROVE  suFile' \in [SuNames -> Int] /\ suExe' \in [name : SuNames, gone : BOOLEAN]
  <1>1. \A n \in SuNames : [suFile EXCEPT ![n] = 0] \in [SuNames -> Int]
    BY DEF SuTypeOK
  <1>2. Lost(Path(u) + 1) \in [name : SuNames, gone : BOOLEAN]
    BY SuLostTyped
  <1> QED
    BY <1>1, <1>2 DEF RemoveOld, SuTypeOK, NoFile

\* A command at work goes on without main, the note or anyone having been told.
LEMMA SuNoteUntouched ==
    ASSUME SuInv, NEW u \in Commands, ~OpAt(u, "idle"), NEW new \in SuOpRecords,
           suOp' = [suOp EXCEPT ![u] = new], UNCHANGED <<suMain, suChan, suFor, suNote, suTold>>
    PROVE  SuNoteInv'
  BY DEF SuInv, SuTypeOK, SuNoteInv, OpAt, Commands

\* A step of an update at work: where it leaves the binary decides.
LEMMA SuWorkKeeps ==
    ASSUME SuInv, NEW u \in Commands, SuAtWork(u), NEW new \in SuOpRecords,
           suOp' = [suOp EXCEPT ![u] = new],
           suFile' \in [SuNames -> Int], suExe' \in [name : SuNames, gone : BOOLEAN],
           UNCHANGED <<suLatest, suMain, suChan, suFor, suNote, suTold, suRaced>>,
           suCut => suCut',
           new.at \notin {"new", "idle"} => new.path = suOp[u].path /\ new.version = suOp[u].version,
           new.at \in {"fill", "chmod", "clear"} => u = Cli,
           new.at = "ask" => u # Cli,
           Path(u) = 0 /\ ~suRaced =>
               IF new.at \in {"install", "fill", "chmod", "restore"} THEN Whole(1)'
               ELSE Whole(0)' \/ (new.at = "idle" /\ suCut' /\ Whole(1)')
    PROVE  SuInv'
  <1>1. /\ suOp'[u] = new /\ \A w \in Commands : w # u => suOp'[w] = suOp[w]
        /\ SuTypeOK'
    BY DEF SuInv, SuTypeOK
  <1>2. SuNoteInv'
    BY SuNoteUntouched DEF SuAtWork, OpAt
  <1>3. SuOpsOK'
    <2> SUFFICES ASSUME NEW w \in Commands
                 PROVE  /\ SuAtWork(w)' => suOp'[w].path + 1 \in SuNames /\ suOp'[w].version > 0
                        /\ suOp'[w].at \in {"fill", "chmod", "clear"} => w = Cli
                        /\ suOp'[w].at = "ask" => w # Cli
      BY DEF SuOpsOK, Path
    <2>1. CASE w = u
      BY <1>1, <2>1 DEF SuInv, SuOpsOK, SuAtWork, Path
    <2>2. CASE w # u
      BY <1>1, <2>2 DEF SuInv, SuOpsOK, SuAtWork, Path
    <2> QED
      BY <2>1, <2>2
  <1>4. ASSUME ~suRaced
        PROVE  SuPlace'
    <2>1. Path(u) = 0 /\ \A w \in Commands : w # u => ~SuAtWork(w)
      BY <1>4 DEF SuInv, SuPlace
    <2>2. \A w \in Commands : w # u => suOp'[w].at \in {"new", "idle"}
      BY <1>1, <2>1 DEF SuAtWork
    <2>3. \A w \in Commands : SuAtWork(w)' => w = u /\ suOp'[w].path = 0
      BY <1>1, <2>1, <2>2 DEF SuAtWork, Path
    <2>4. \A w \in Commands :
            /\ suOp'[w].at \in {"remove", "backup", "clear", "ask"} => Whole(0)'
            /\ suOp'[w].at \in {"install", "fill", "chmod", "restore"} => Whole(1)'
      BY <1>1, <1>4, <2>1, <2>2
    <2>5. (\A w \in Commands : ~SuAtWork(w)') => Whole(0)' \/ (suCut' /\ Whole(1)')
      BY <1>1, <1>4, <2>1 DEF SuAtWork
    <2> QED
      BY <2>3, <2>4, <2>5 DEF SuPlace, Path
  <1> QED
    BY <1>1, <1>2, <1>3, <1>4 DEF SuInv

\* The steps of an update.
LEMMA SuUpdateKeeps ==
    ASSUME SuInv, NEW u \in Commands,
           SuRemoveOld(u) \/ SuBackup(u) \/ SuInstall(u) \/ SuFill(u) \/ SuChmod(u) \/ SuClear(u)
             \/ SuRestore(u)
    PROVE  SuInv'
  <1>1. /\ SuTypeOK /\ suOp[u] \in SuOpRecords
        /\ suFile \in [SuNames -> Int] /\ suExe \in [name : SuNames, gone : BOOLEAN]
    BY DEF SuInv, SuTypeOK
  <1>2. SuAtWork(u)
    BY DEF SuRemoveOld, SuBackup, SuInstall, SuFill, SuChmod, SuClear, SuRestore, SuAtWork, OpAt
  <1>3. /\ suOp[u].path \in SuNames /\ suOp[u].path + 1 \in SuNames /\ 0 \in SuNames /\ SuNames \subseteq Nat
        /\ suOp[u].version \in Nat /\ suOp[u].version > 0
    BY <1>1, <1>2, SelfUpdateAssumption DEF SuInv, SuOpsOK, SuOpRecords, SuNames, Path
  <1>4. UNCHANGED <<suLatest, suMain, suChan, suFor, suNote, suTold, suRaced>> /\ (suCut => suCut')
    BY DEF SuRemoveOld, SuBackup, SuInstall, SuFill, SuChmod, SuClear, SuRestore, suDisk, suHistory
  <1>5. /\ Path(u) = 0 /\ ~suRaced /\ suOp[u].at \in {"remove", "backup", "clear", "ask"} => Whole(0)
        /\ Path(u) = 0 /\ ~suRaced /\ suOp[u].at \in {"install", "fill", "chmod", "restore"} => Whole(1)
    BY DEF SuInv, SuPlace
  <1> DEFINE To(step) == [suOp[u] EXCEPT !.at = step]
  <1>6. \A step \in SuSteps :
          /\ To(step) \in SuOpRecords /\ To(step).at = step /\ To(step).path = suOp[u].path
          /\ To(step).version = suOp[u].version
    BY <1>1, SuOpTyped
  <1>7. \A step \in SuSteps : OpGoes(u, step) => suOp' = [suOp EXCEPT ![u] = To(step)]
    BY DEF OpGoes
  <1> HIDE DEF To
  <1>8. OpEnds(u) => \E new \in SuOpRecords : new.at = "idle" /\ suOp' = [suOp EXCEPT ![u] = new]
    BY <1>1, SuOpTyped DEF OpEnds
  <1>9. CASE SuRemoveOld(u)
    <2>1. suFile' \in [SuNames -> Int] /\ suExe' \in [name : SuNames, gone : BOOLEAN]
      BY <1>1, <1>3, <1>9, SuRemoveOldTyped DEF SuRemoveOld, Path
    <2>2. Path(u) = 0 /\ ~suRaced => Whole(0)'
      BY <1>1, <1>3, <1>5, <1>9 DEF SuRemoveOld, RemoveOld, Whole, OpAt
    <2>3. suOp' = [suOp EXCEPT ![u] = To("backup")]
      BY <1>7, <1>9 DEF SuRemoveOld, SuSteps
    <2> QED
      BY <1>2, <1>4, <1>6, <2>1, <2>2, <2>3, SuWorkKeeps DEF SuSteps
  <1>10. CASE SuBackup(u)
    <2>1. CASE Rename(Path(u), Path(u) + 1) /\ OpGoes(u, "install")
      <3>1. suFile' \in [SuNames -> Int] /\ suExe' \in [name : SuNames, gone : BOOLEAN]
        BY <1>1, <1>3, <2>1, SuFilesTyped DEF Path
      <3>2. Path(u) = 0 /\ ~suRaced => Whole(1)'
        BY <1>1, <1>3, <1>5, <1>10, <2>1 DEF SuBackup, Rename, Whole, OpAt, Path
      <3>3. suOp' = [suOp EXCEPT ![u] = To("install")]
        BY <1>7, <2>1 DEF SuSteps
      <3> QED
        BY <1>2, <1>4, <1>6, <3>1, <3>2, <3>3, SuWorkKeeps DEF SuSteps
    <2>2. CASE OpEnds(u) /\ UNCHANGED <<suFile, suExe>>
      <3>1. Path(u) = 0 /\ ~suRaced => Whole(0)'
        BY <1>5, <1>10, <2>2 DEF SuBackup, Whole, OpAt
      <3> QED
        BY <1>1, <1>2, <1>4, <1>8, <2>2, <3>1, SuWorkKeeps
    <2> QED
      BY <1>10, <2>1, <2>2 DEF SuBackup
  <1>11. CASE SuInstall(u)
    <2>1. CASE u # Cli /\ Installs(u) /\ suExe' = Lost(Path(u)) /\ OpGoes(u, "ask")
      <3>1. suFile' \in [SuNames -> Int] /\ suExe' \in [name : SuNames, gone : BOOLEAN]
        <4>1. suFile' \in [SuNames -> Int]
          BY <1>1, <1>3, <2>1 DEF Installs, Path
        <4>2. Lost(Path(u)) \in [name : SuNames, gone : BOOLEAN]
          BY <1>1, <1>3, SuLostTyped DEF Path
        <4> QED
          BY <2>1, <4>1, <4>2
      <3>2. Path(u) = 0 /\ ~suRaced => Whole(0)'
        BY <1>1, <1>3, <2>1 DEF Installs, Whole, Path
      <3>3. suOp' = [suOp EXCEPT ![u] = To("ask")]
        BY <1>7, <2>1 DEF SuSteps
      <3> QED
        BY <1>2, <1>4, <1>6, <2>1, <3>1, <3>2, <3>3, SuWorkKeeps DEF SuSteps
    <2>2. CASE /\ u = Cli /\ suFile' = [suFile EXCEPT ![Path(u)] = Torn]
               /\ OpGoes(u, "fill") /\ UNCHANGED suExe
      <3>1. suFile' \in [SuNames -> Int] /\ suExe' \in [name : SuNames, gone : BOOLEAN]
        BY <1>1, <1>3, <2>2 DEF Torn, Path
      <3>2. Path(u) = 0 /\ ~suRaced => Whole(1)'
        BY <1>1, <1>3, <1>5, <1>11, <2>2 DEF SuInstall, Whole, OpAt
      <3>3. suOp' = [suOp EXCEPT ![u] = To("fill")]
        BY <1>7, <2>2 DEF SuSteps
      <3> QED
        BY <1>2, <1>4, <1>6, <2>2, <3>1, <3>2, <3>3, SuWorkKeeps DEF SuSteps
    <2>3. CASE OpGoes(u, "restore") /\ UNCHANGED <<suFile, suExe>>
      <3>1. Path(u) = 0 /\ ~suRaced => Whole(1)'
        BY <1>5, <1>11, <2>3 DEF SuInstall, Whole, OpAt
      <3>2. suOp' = [suOp EXCEPT ![u] = To("restore")]
        BY <1>7, <2>3 DEF SuSteps
      <3> QED
        BY <1>1, <1>2, <1>4, <1>6, <2>3, <3>1, <3>2, SuWorkKeeps DEF SuSteps
    <2> QED
      BY <1>11, <2>1, <2>2, <2>3 DEF SuInstall
  <1>12. CASE SuFill(u)
    <2>1. CASE OpGoes(u, "chmod")
      <3>1. (Path(u) = 0 /\ ~suRaced => Whole(1)') /\ suFile' = suFile /\ suExe' = suExe
        BY <1>5, <1>12, <2>1 DEF SuFill, suDisk, Whole, OpAt
      <3>2. suOp' = [suOp EXCEPT ![u] = To("chmod")] /\ u = Cli
        BY <1>7, <1>12, <2>1 DEF SuSteps, SuFill, OpAt, SuInv, SuOpsOK
      <3> QED
        BY <1>1, <1>2, <1>4, <1>6, <2>1, <3>1, <3>2, SuWorkKeeps DEF SuSteps
    <2>2. CASE OpGoes(u, "restore")
      <3>1. (Path(u) = 0 /\ ~suRaced => Whole(1)') /\ suFile' = suFile /\ suExe' = suExe
        BY <1>5, <1>12, <2>2 DEF SuFill, suDisk, Whole, OpAt
      <3>2. suOp' = [suOp EXCEPT ![u] = To("restore")]
        BY <1>7, <2>2 DEF SuSteps
      <3> QED
        BY <1>1, <1>2, <1>4, <1>6, <2>2, <3>1, <3>2, SuWorkKeeps DEF SuSteps
    <2> QED
      BY <1>12, <2>1, <2>2 DEF SuFill
  <1>13. CASE SuClear(u)
    <2>1. suFile' \in [SuNames -> Int] /\ suExe' \in [name : SuNames, gone : BOOLEAN]
      BY <1>1, <1>3, <1>13, SuRemoveOldTyped DEF SuClear, Path
    <2>2. Path(u) = 0 /\ ~suRaced => Whole(0)'
      BY <1>1, <1>3, <1>5, <1>13 DEF SuClear, RemoveOld, Whole, OpAt
    <2> QED
      BY <1>2, <1>4, <1>8, <1>13, <2>1, <2>2, SuWorkKeeps DEF SuClear
  <1>14. CASE SuRestore(u)
    <2>1. suFile' \in [SuNames -> Int] /\ suExe' \in [name : SuNames, gone : BOOLEAN]
      BY <1>1, <1>3, <1>14, SuFilesTyped DEF SuRestore, PutBack, Path
    <2>2. Path(u) = 0 /\ ~suRaced => Whole(0)' \/ (suCut' /\ Whole(1)')
      <3>1. CASE PutBack(u)
        BY <1>1, <1>3, <1>5, <1>14, <3>1 DEF SuRestore, PutBack, Rename, Whole, OpAt, Path, NoFile
      <3>2. CASE suCut' = TRUE /\ UNCHANGED <<suFile, suExe>>
        BY <1>5, <1>14, <3>2 DEF SuRestore, Whole, OpAt
      <3> QED
        BY <1>14, <3>1, <3>2 DEF SuRestore
    <2> QED
      BY <1>2, <1>4, <1>8, <1>14, <2>1, <2>2, SuWorkKeeps DEF SuRestore
  <1>15. CASE SuChmod(u)
    <2>1. CASE Installs(u) /\ OpGoes(u, "clear")
      <3>1. suFile' \in [SuNames -> Int] /\ suExe' = suExe
        BY <1>1, <1>3, <1>15, <2>1 DEF SuChmod, Installs, Path
      <3>2. Path(u) = 0 /\ ~suRaced => Whole(0)'
        BY <1>1, <1>3, <2>1 DEF Installs, Whole, Path
      <3>3. suOp' = [suOp EXCEPT ![u] = To("clear")] /\ u = Cli
        BY <1>7, <1>15, <2>1 DEF SuSteps, SuChmod, OpAt, SuInv, SuOpsOK
      <3> QED
        BY <1>1, <1>2, <1>4, <1>6, <2>1, <3>1, <3>2, <3>3, SuWorkKeeps DEF SuSteps
    <2>2. CASE OpEnds(u) /\ suCut' = TRUE /\ suFile' = suFile
      <3>1. (Path(u) = 0 /\ ~suRaced => suCut' /\ Whole(1)') /\ suExe' = suExe
        BY <1>5, <1>15, <2>2 DEF SuChmod, Whole, OpAt
      <3> QED
        BY <1>1, <1>2, <1>4, <1>8, <2>2, <3>1, SuWorkKeeps
    <2> QED
      BY <1>15, <2>1, <2>2 DEF SuChmod
  <1> QED
    BY <1>9, <1>10, <1>11, <1>12, <1>13, <1>14, <1>15

\* An update begins, with a newer version and room for the .old file; by itself, or raced.
LEMMA SuCheckKeeps ==
    ASSUME SuInv, NEW u \in Commands, SuCheck(u)
    PROVE  SuInv'
  <1> DEFINE path == IF u = Cli THEN 0 ELSE suExe.name
             new == [at |-> "remove", path |-> path, version |-> suLatest]
  <1>1. /\ suLatest \in Nat \ {0} /\ path \in SuNames /\ path + 1 \in SuNames
    BY SelfUpdateAssumption DEF SuCheck, SuInv, SuTypeOK, SuNames
  <1>2. Whole(path) /\ suOp' = [suOp EXCEPT ![u] = new] /\ OpAt(u, "new")
        /\ UNCHANGED <<suFile, suExe, suLatest, suMain, suChan, suFor, suNote, suTold, suCut>>
    BY DEF SuCheck, suDisk
  <1>3. ~suRaced' => ~suRaced /\ path = 0 /\ \A w \in Commands : ~SuAtWork(w)
    <2>1. path \in Nat
      BY <1>1 DEF SuNames
    <2>2. suRaced' = (suRaced \/ path > 0 \/ \E w \in Commands : SuAtWork(w))
      BY DEF SuCheck
    <2> HIDE DEF path
    <2>3. ~suRaced' => ~suRaced /\ ~(path > 0) /\ \A w \in Commands : ~SuAtWork(w)
      BY <2>2
    <2> QED
      BY <2>1, <2>3
  <1> HIDE DEF path
  <1>4. new \in SuOpRecords /\ new.at = "remove" /\ new.path = path /\ new.version = suLatest
    BY <1>1 DEF SuOpRecords, SuSteps
  <1> HIDE DEF new
  <1>5. SuNoteInv'
    BY <1>2, <1>4, SuNoteUntouched DEF OpAt
  <1>6. /\ suOp'[u] = new /\ \A w \in Commands : w # u => suOp'[w] = suOp[w]
        /\ SuTypeOK'
    BY <1>2, <1>4 DEF SuInv, SuTypeOK
  <1>7. SuOpsOK'
    <2> SUFFICES ASSUME NEW w \in Commands
                 PROVE  /\ SuAtWork(w)' => suOp'[w].path + 1 \in SuNames /\ suOp'[w].version > 0
                        /\ suOp'[w].at \in {"fill", "chmod", "clear"} => w = Cli
                        /\ suOp'[w].at = "ask" => w # Cli
      BY DEF SuOpsOK, Path
    <2>1. CASE w = u
      BY <1>1, <1>4, <1>6, <2>1
    <2>2. CASE w # u
      BY <1>6, <2>2 DEF SuInv, SuOpsOK, SuAtWork, Path
    <2> QED
      BY <2>1, <2>2
  <1>8. ASSUME ~suRaced'
        PROVE  SuPlace'
    <2>1. Whole(0)'
      BY <1>2, <1>3, <1>8 DEF Whole
    <2>2. \A w \in Commands : w # u => suOp'[w].at \in {"new", "idle"}
      BY <1>3, <1>6, <1>8 DEF SuAtWork
    <2>3. \A w \in Commands : SuAtWork(w)' => w = u /\ suOp'[w].path = 0
      BY <1>3, <1>4, <1>6, <1>8, <2>2 DEF SuAtWork
    <2>4. \A w \in Commands : suOp'[w].at \notin {"install", "fill", "chmod", "restore"}
      BY <1>4, <1>6, <2>2
    <2> QED
      BY <2>1, <2>3, <2>4 DEF SuPlace, Path
  <1> QED
    BY <1>5, <1>6, <1>7, <1>8 DEF SuInv

\* A command that has not begun, or has installed, ends; it may ask main for a restart.
LEMMA SuAskKeeps ==
    ASSUME SuInv, NEW u \in Commands, SuRefuse(u) \/ SuAskAfterUpgrade(u) \/ SuAskRestart(u)
    PROVE  SuInv'
  <1>1. /\ suOp' = [suOp EXCEPT ![u] = SuIdle] /\ suOp[u].at \in {"new", "ask"}
        /\ UNCHANGED <<suFile, suExe, suLatest, suMain, suFor, suNote, suTold, suRaced, suCut>>
    BY DEF SuRefuse, SuAskAfterUpgrade, SuAskRestart, OpEnds, OpAt, suDisk, suHistory
  <1>2. SuTypeOK /\ SuIdle \in SuOpRecords /\ SuIdle.at = "idle"
    BY SuOpTyped DEF SuInv
  <1>3. /\ suOp'[u] = SuIdle /\ \A w \in Commands : w # u => suOp'[w] = suOp[w]
        /\ SuTypeOK'
    BY <1>1, <1>2 DEF SuTypeOK
  <1>4. SuOpsOK'
    BY <1>2, <1>3 DEF SuInv, SuOpsOK, SuAtWork, Path
  <1>5. ASSUME ~suRaced
        PROVE  SuPlace'
    <2>1. SuPlace
      BY <1>5 DEF SuInv
    <2>2. (\A w \in Commands : ~SuAtWork(w)') => Whole(0) \/ (suCut /\ Whole(1))
      BY <1>1, <1>3, <2>1 DEF SuPlace, SuAtWork
    <2> QED
      BY <1>1, <1>2, <1>3, <2>1, <2>2 DEF SuPlace, SuAtWork, Path, Whole
  <1>6. SuNoteInv'
    <2>1. CASE suChan' = suChan
      BY <1>1, <1>2, <2>1, SuNoteUntouched DEF OpAt
    <2>2. CASE suChan = NoChat /\ suChan' = u /\ u # Cli /\ Runs(u)
      <3>1. u \in SuChats /\ suMain # "down" /\ ~OpAt(u, "idle")
        BY <1>1, <2>2 DEF Commands, Runs, OpAt
      <3>2. suTold[u] = 0 /\ u \notin {suFor, suNote}
        BY <3>1 DEF SuInv, SuNoteInv
      <3>3. /\ suMain' = suMain /\ suFor' = suFor /\ suNote' = suNote /\ suTold' = suTold
            /\ \A w \in SuChats : OpAt(w, "idle") \/ w = u => OpAt(w, "idle")'
        BY <1>1, <1>2, <1>3 DEF OpAt, Commands
      <3> QED
        BY <2>2, <3>1, <3>2, <3>3 DEF SuInv, SuNoteInv
    <2> QED
      BY <2>1, <2>2 DEF SuRefuse, SuAskAfterUpgrade, SuAskRestart, Request, SuInv, SuOpsOK, OpAt
  <1> QED
    BY <1>1, <1>3, <1>4, <1>5, <1>6 DEF SuInv

\* The process ends at any point: an update of a chat that was between its renames is cut short.
LEMMA SuHandlersEnd ==
    ASSUME SuInv, HandlersEnd, UNCHANGED <<suFile, suRaced>>
    PROVE  /\ suOp' \in [Commands -> SuOpRecords] /\ SuOpsOK'
           /\ ~suRaced => SuPlace'
           /\ \A u \in SuChats : OpAt(u, "idle") => OpAt(u, "idle")'
  <1>1. SuTypeOK /\ \A u \in Commands : suOp[u] \in SuOpRecords
    BY DEF SuInv, SuTypeOK
  <1>2. SuIdle \in SuOpRecords /\ SuIdle.at = "idle"
    BY SelfUpdateAssumption DEF SuIdle, SuOpRecords, SuSteps, SuNames
  <1>3. /\ suOp' = [u \in Commands |-> IF u = Cli \/ OpAt(u, "new") THEN suOp[u] ELSE SuIdle]
        /\ suCut' = (suCut \/ \E u \in Commands : Cuts(u))
    BY DEF HandlersEnd
  <1>4. suOp' \in [Commands -> SuOpRecords]
    BY <1>1, <1>2, <1>3
  <1>5. \A u \in Commands : suOp'[u] = suOp[u] \/ (u # Cli /\ suOp'[u] = SuIdle)
    BY <1>3
  <1>6. suOp'[Cli] = suOp[Cli]
    BY <1>3 DEF Commands
  <1>7. SuOpsOK'
    BY <1>2, <1>5 DEF SuInv, SuOpsOK, SuAtWork, Path
  <1>8. ASSUME ~suRaced
        PROVE  SuPlace'
    <2>1. SuPlace
      BY <1>8 DEF SuInv
    <2>2. suCut => suCut'
      BY <1>3
    <2>3. ASSUME \A u \in Commands : ~SuAtWork(u)'
          PROVE  Whole(0) \/ (suCut' /\ Whole(1))
      <3>1. CASE \A u \in Commands : ~SuAtWork(u)
        BY <2>1, <2>2, <3>1 DEF SuPlace
      <3>2. ASSUME NEW u \in Commands, SuAtWork(u)
            PROVE  Whole(0) \/ (suCut' /\ Whole(1))
        <4>1. u # Cli
          BY <1>6, <2>3, <3>2 DEF SuAtWork
        <4>2. suOp[u].at \in {"remove", "backup", "ask", "install", "restore"}
          BY <1>1, <3>2, <4>1 DEF SuInv, SuOpsOK, SuAtWork, SuOpRecords, SuSteps
        <4>3. CASE suOp[u].at \in {"remove", "backup", "ask"}
          BY <2>1, <4>3 DEF SuPlace
        <4>4. CASE suOp[u].at \in {"install", "restore"}
          <5>1. Cuts(u)
            BY <4>1, <4>4 DEF Cuts, Between, Commands
          <5> QED
            BY <1>3, <2>1, <4>4, <5>1 DEF SuPlace
        <4> QED
          BY <4>2, <4>3, <4>4
      <3> QED
        BY <3>1, <3>2
    <2>4. \A u \in Commands : suOp'[u].at \notin {"new", "idle"} => suOp'[u] = suOp[u]
      BY <1>2, <1>5
    <2> QED
      BY <2>1, <2>3, <2>4 DEF SuPlace, SuAtWork, Path, Whole
  <1>9. \A u \in SuChats : OpAt(u, "idle") => OpAt(u, "idle")'
    BY <1>2, <1>5 DEF OpAt, Commands
  <1> QED
    BY <1>4, <1>7, <1>8, <1>9

\* The steps of main: the request, the note, the new process and its start.
LEMMA SuMainKeeps ==
    ASSUME SuInv, SuRelease \/ SuTake \/ SuSaveNote \/ SuExec \/ SuStop \/ SuStartAgain
    PROVE  SuInv'
  <1>1. SuTypeOK /\ SuOpsOK /\ SuNoteInv
    BY DEF SuInv
  <1>2. ASSUME UNCHANGED <<suFile, suExe, suOp, suRaced, suCut>>, suLatest' \in Nat \ {0}, SuNoteInv'
        PROVE  SuInv'
    BY <1>1, <1>2 DEF SuInv, SuTypeOK, SuOpsOK, SuPlace, SuAtWork, Path, Whole
  <1>3. CASE SuRelease
    <2>1. suLatest' \in Nat \ {0}
      BY <1>1, <1>3 DEF SuRelease, SuTypeOK
    <2>2. SuNoteInv'
      BY <1>1, <1>3 DEF SuRelease, SuNoteInv, OpAt, suDisk, suHistory
    <2> QED
      BY <1>2, <1>3, <2>1, <2>2 DEF SuRelease, suDisk, suHistory
  <1>4. CASE SuTake
    <2>1. SuNoteInv'
      BY <1>1, <1>4, SelfUpdateAssumption DEF SuTake, SuNoteInv, OpAt, suDisk, suHistory
    <2> QED
      BY <1>1, <1>2, <1>4, <2>1 DEF SuTake, SuTypeOK, suDisk, suHistory
  <1>5. CASE SuSaveNote
    <2>1. SuNoteInv'
      BY <1>1, <1>5, SelfUpdateAssumption DEF SuSaveNote, SuNoteInv, OpAt, suHistory
    <2> QED
      BY <1>1, <1>2, <1>5, <2>1 DEF SuSaveNote, SuTypeOK, suHistory
  <1>6. ASSUME suMain \in {"exec", "down"}, NEW n \in SuNames, Starts(n),
               suChan' = NoChat, suFor' = NoChat,
               \A u \in SuChats : OpAt(u, "idle") => OpAt(u, "idle")'
        PROVE  SuNoteInv' /\ suExe' \in [name : SuNames, gone : BOOLEAN]
    <2>1. suMain' = "up" /\ suNote' = NoChat /\ suExe' = Running(n)
      BY <1>6 DEF Starts, Consume
    <2>2. Running(n) \in [name : SuNames, gone : BOOLEAN]
      BY <1>1, SuLostTyped
    <2>3. CASE suNote = NoChat
      <3>1. suTold' = suTold
        BY <1>6, <2>3 DEF Starts
      <3> QED
        BY <1>1, <1>6, <2>1, <2>2, <3>1, SelfUpdateAssumption DEF SuNoteInv
    <2>4. CASE suNote # NoChat
      <3>1. suNote \in SuChats /\ suTold[suNote] = 0 /\ OpAt(suNote, "idle")
        BY <1>1, <2>4 DEF SuNoteInv
      <3>2. suTold' = [suTold EXCEPT ![suNote] = 1]
        BY <1>1, <1>6, <2>4, <3>1 DEF Starts, SuNoteInv
      <3>3. /\ suTold' \in [SuChats -> {0, 1}]
            /\ \A u \in SuChats : suTold'[u] = 1 => u = suNote \/ suTold[u] = 1
        BY <1>1, <3>1, <3>2 DEF SuNoteInv
      <3> QED
        BY <1>1, <1>6, <2>1, <2>2, <3>1, <3>3, SelfUpdateAssumption DEF SuNoteInv
    <2> QED
      BY <2>1, <2>2, <2>3, <2>4
  <1>7. CASE SuExec
    <2>1. /\ UNCHANGED <<suFile, suLatest, suRaced>> /\ HandlersEnd /\ suMain = "exec"
          /\ suChan' = NoChat /\ suFor' = NoChat
      BY <1>7 DEF SuExec
    <2>2. /\ suOp' \in [Commands -> SuOpRecords] /\ SuOpsOK' /\ (~suRaced => SuPlace')
          /\ \A u \in SuChats : OpAt(u, "idle") => OpAt(u, "idle")'
      BY <2>1, SuHandlersEnd
    <2>3. CASE Starts(RestartPath)
      <3>1. RestartPath \in SuNames
        BY <1>1, SelfUpdateAssumption DEF RestartPath, SuTypeOK, SuNames
      <3>2. SuNoteInv' /\ suExe' \in [name : SuNames, gone : BOOLEAN]
        BY <1>6, <2>1, <2>2, <2>3, <3>1
      <3> QED
        BY <1>1, <2>1, <2>2, <3>2 DEF SuInv, SuTypeOK
    <2>4. CASE suMain' = "down" /\ UNCHANGED <<suNote, suExe, suTold>>
      <3>1. SuNoteInv'
        BY <1>1, <2>1, <2>2, <2>4, SelfUpdateAssumption DEF SuNoteInv
      <3> QED
        BY <1>1, <2>1, <2>2, <2>4, <3>1 DEF SuInv, SuTypeOK
    <2> QED
      BY <1>7, <2>3, <2>4 DEF SuExec
  <1>8. CASE SuStop
    <2>1. /\ UNCHANGED <<suFile, suLatest, suRaced, suNote, suExe, suTold>> /\ HandlersEnd
          /\ suChan' = NoChat /\ suFor' = NoChat /\ suMain' = "down"
      BY <1>8 DEF SuStop, suDisk
    <2>2. /\ suOp' \in [Commands -> SuOpRecords] /\ SuOpsOK' /\ (~suRaced => SuPlace')
          /\ \A u \in SuChats : OpAt(u, "idle") => OpAt(u, "idle")'
      BY <2>1, SuHandlersEnd
    <2>3. SuNoteInv'
      BY <1>1, <2>1, <2>2, SelfUpdateAssumption DEF SuNoteInv
    <2> QED
      BY <1>1, <2>1, <2>2, <2>3 DEF SuInv, SuTypeOK
  <1>9. CASE SuStartAgain
    <2>1. /\ UNCHANGED <<suFile, suChan, suFor, suOp, suLatest, suRaced, suCut>>
          /\ suMain = "down" /\ Starts(0) /\ 0 \in SuNames
      BY <1>9, SelfUpdateAssumption DEF SuStartAgain, SuNames
    <2>2. suChan = NoChat /\ suFor = NoChat
      BY <1>1, <2>1 DEF SuNoteInv
    <2>3. SuNoteInv' /\ suExe' \in [name : SuNames, gone : BOOLEAN]
      BY <1>6, <2>1, <2>2 DEF OpAt
    <2> QED
      BY <1>1, <2>1, <2>3 DEF SuInv, SuTypeOK, SuOpsOK, SuPlace, SuAtWork, Path, Whole
  <1> QED
    BY <1>3, <1>4, <1>5, <1>7, <1>8, <1>9

\* The command line is interrupted.
LEMMA SuInterruptKeeps ==
    ASSUME SuInv, SuInterrupt
    PROVE  SuInv'
  <1>1. SuTypeOK /\ SuIdle \in SuOpRecords /\ SuIdle.at = "idle" /\ Cli \in Commands
    BY SuOpTyped DEF SuInv, Commands
  <1>2. /\ suOp' = [suOp EXCEPT ![Cli] = SuIdle] /\ SuAtWork(Cli)
        /\ UNCHANGED <<suFile, suNote, suExe, suMain, suChan, suFor, suLatest, suTold, suRaced>>
        /\ suCut' = (suCut \/ suOp[Cli].at \in {"install", "fill", "chmod", "restore"})
    BY DEF SuInterrupt, OpEnds, Between, suDisk
  <1>3. /\ suOp'[Cli] = SuIdle /\ \A w \in Commands : w # Cli => suOp'[w] = suOp[w]
        /\ SuTypeOK'
    BY <1>1, <1>2 DEF SuTypeOK
  <1>4. SuNoteInv'
    BY <1>1, <1>2, SuNoteUntouched DEF SuAtWork, OpAt
  <1>5. SuOpsOK'
    BY <1>1, <1>3 DEF SuInv, SuOpsOK, SuAtWork, Path
  <1>6. ASSUME ~suRaced
        PROVE  SuPlace'
    <2>1. \A w \in Commands : suOp'[w].at \in {"new", "idle"}
      BY <1>1, <1>2, <1>3, <1>6 DEF SuInv, SuPlace, SuAtWork
    <2>2. suOp[Cli] \in SuOpRecords /\ suOp[Cli].at \notin {"new", "idle"}
      BY <1>1, <1>2 DEF SuTypeOK, SuAtWork
    <2>3. CASE suOp[Cli].at \in {"install", "fill", "chmod", "restore"}
      BY <1>1, <1>2, <1>6, <2>1, <2>3 DEF SuInv, SuPlace, SuAtWork, Whole
    <2>4. CASE suOp[Cli].at \in {"remove", "backup", "clear", "ask"}
      BY <1>1, <1>2, <1>6, <2>1, <2>4 DEF SuInv, SuPlace, SuAtWork, Whole
    <2> QED
      BY <2>2, <2>3, <2>4 DEF SuOpRecords, SuSteps
  <1> QED
    BY <1>2, <1>3, <1>4, <1>5, <1>6 DEF SuInv

\* Every step keeps the binary and the requests.
LEMMA SuNextKeeps == SuInv /\ [SuNext]_suVars => SuInv'
  <1> SUFFICES ASSUME SuInv, [SuNext]_suVars
               PROVE  SuInv'
    OBVIOUS
  <1>1. CASE UNCHANGED suVars
    BY <1>1 DEF SuInv, SuTypeOK, SuOpsOK, SuNoteInv, SuPlace, SuAtWork, Path, Whole, OpAt,
                suVars, suDisk, suHistory
  <1> QED
    BY <1>1, SuMainKeeps, SuInterruptKeeps, SuCheckKeeps, SuAskKeeps, SuUpdateKeeps DEF SuNext, SuStep

\* At the first start the binary is in place and nobody has asked.
LEMMA SuStarts == SuInit => SuInv
  <1> SUFFICES ASSUME SuInit
               PROVE  SuInv
    OBVIOUS
  <1> DEFINE first == [SuIdle EXCEPT !.at = "new"]
  <1>1. /\ first \in SuOpRecords /\ first.at = "new" /\ 0 \in SuNames
    BY SelfUpdateAssumption DEF SuIdle, SuOpRecords, SuSteps, SuNames
  <1>2. suOp = [u \in Commands |-> first]
    BY DEF SuInit
  <1> HIDE DEF first
  <1>3. SuTypeOK
    BY <1>1, <1>2 DEF SuInit, SuTypeOK, Running, NoFile
  <1>4. SuOpsOK /\ \A u \in Commands : ~SuAtWork(u) /\ ~OpAt(u, "idle")
    BY <1>1, <1>2 DEF SuOpsOK, SuAtWork, OpAt
  <1>5. SuNoteInv
    BY <1>4, SelfUpdateAssumption DEF SuInit, SuNoteInv
  <1>6. SuPlace
    BY <1>1, <1>2, <1>4 DEF SuInit, SuPlace, Whole, SuAtWork
  <1> QED
    BY <1>3, <1>4, <1>5, <1>6 DEF SuInv

\* After an update, a restart or a crash the service can start, and the chat that asked hears of
\* it once, however many chats and commands of the command line ask.
THEOREM UpdateKeepsService == SuSpec => []BinaryAndNoteKept
  <1>1. SuInv => BinaryAndNoteKept
    <2> SUFFICES ASSUME SuInv
                 PROVE  BinaryAndNoteKept
      OBVIOUS
    <2>1. NotifiedOnce
      BY DEF SuInv, SuNoteInv, NotifiedOnce
    <2>2. ASSUME ~suRaced
          PROVE  /\ Whole(0) \/ Whole(1)
                 /\ suCut \/ (\E u \in Commands : Between(u)) \/ Whole(0)
      <3>1. SuPlace
        BY <2>2 DEF SuInv
      <3>2. CASE \A u \in Commands : ~SuAtWork(u)
        BY <3>1, <3>2 DEF SuPlace
      <3>3. ASSUME NEW u \in Commands, SuAtWork(u)
            PROVE  \/ Whole(0)
                   \/ Whole(1) /\ Between(u)
        <4>1. suOp[u].at \in SuSteps \ {"new", "idle"}
          BY <3>3 DEF SuInv, SuTypeOK, SuOpRecords, SuAtWork
        <4> QED
          BY <3>1, <4>1 DEF SuPlace, SuSteps, Between
      <3> QED
        BY <3>2, <3>3
    <2> QED
      BY <2>1, <2>2 DEF BinaryAndNoteKept, BinaryInPlace
  <1> QED
    BY SuStarts, <1>1, SuNextKeeps, PTL DEF SuSpec

\* Which version is where at each step of an update that has the binary to itself: the newest
\* that was installed is in place, or beside it under its .old name.
SuVersions ==
    /\ suExe.name \in {0, 1}
    /\ \A u \in Commands : SuAtWork(u) => suOp[u].version >= suInstalled
    /\ \A u \in Commands : suOp[u].at \in {"remove", "backup", "clear", "ask"} => suFile[0] = suInstalled
    /\ \A u \in Commands : suOp[u].at \in {"install", "fill", "chmod", "restore"} => suFile[1] = suInstalled /\ ~Whole(0)
    /\ (\A u \in Commands : ~SuAtWork(u)) => (Whole(0) => suFile[0] = suInstalled)

SuExact ==
    /\ suInstalled \in Nat \ {0} /\ suInstalled <= suLatest
    /\ \A u \in Commands : SuAtWork(u) => suOp[u].version <= suLatest
    /\ ~suRaced => SuVersions

\* A step of an update at work keeps the versions where they belong.
LEMMA SuWorkExact ==
    ASSUME SuInv, SuExact, NEW u \in Commands, SuAtWork(u), NEW new,
           suOp' = [suOp EXCEPT ![u] = new],
           UNCHANGED <<suLatest, suRaced>>,
           new.at \notin {"new", "idle"} => new.version = suOp[u].version,
           suInstalled' \in {suInstalled, suOp[u].version}, suInstalled' >= suInstalled,
           Path(u) = 0 /\ ~suRaced =>
               /\ suExe.name \in {0, 1} => suExe'.name \in {0, 1}
               /\ suOp[u].version >= suInstalled => suOp[u].version >= suInstalled'
               /\ new.at \in {"remove", "backup", "clear", "ask"} => suFile'[0] = suInstalled'
               /\ new.at \in {"install", "fill", "chmod", "restore"} => suFile'[1] = suInstalled' /\ ~Whole(0)'
               /\ new.at \in {"new", "idle"} => (Whole(0)' => suFile'[0] = suInstalled')
    PROVE  SuExact'
  <1>1. suOp'[u] = new /\ \A w \in Commands : w # u => suOp'[w] = suOp[w]
    BY DEF SuInv, SuTypeOK
  <1>2. suOp[u].version \in Nat /\ suLatest \in Nat /\ suOp[u].version > 0
    BY DEF SuInv, SuTypeOK, SuOpRecords, SuOpsOK
  <1>3. suInstalled' \in Nat \ {0} /\ suInstalled' <= suLatest'
    BY <1>2 DEF SuExact
  <1>4. \A w \in Commands : SuAtWork(w)' => suOp'[w].version <= suLatest'
    BY <1>1 DEF SuExact, SuAtWork
  <1>5. ASSUME ~suRaced
        PROVE  SuVersions'
    <2>1. Path(u) = 0 /\ \A w \in Commands : w # u => ~SuAtWork(w)
      BY <1>5 DEF SuInv, SuPlace
    <2>2. \A w \in Commands : w # u => suOp'[w].at \in {"new", "idle"}
      BY <1>1, <2>1 DEF SuAtWork
    <2>3. suExe.name \in {0, 1} /\ suOp[u].version >= suInstalled
      BY <1>5 DEF SuExact, SuVersions
    <2>4. suExe'.name \in {0, 1}
      BY <1>5, <2>1, <2>3
    <2>5. \A w \in Commands : SuAtWork(w)' => w = u /\ suOp'[w].version >= suInstalled'
      BY <1>1, <1>5, <2>1, <2>2, <2>3 DEF SuAtWork
    <2>6. \A w \in Commands :
            /\ suOp'[w].at \in {"remove", "backup", "clear", "ask"} => suFile'[0] = suInstalled'
            /\ suOp'[w].at \in {"install", "fill", "chmod", "restore"} => suFile'[1] = suInstalled' /\ ~Whole(0)'
      BY <1>1, <1>5, <2>1, <2>2
    <2>7. (\A w \in Commands : ~SuAtWork(w)') => (Whole(0)' => suFile'[0] = suInstalled')
      BY <1>1, <1>5, <2>1 DEF SuAtWork
    <2> QED
      BY <2>4, <2>5, <2>6, <2>7 DEF SuVersions
  <1> QED
    BY <1>3, <1>4, <1>5 DEF SuExact

\* What an update at work knows of its path and of the files there.
LEMMA SuFilesBefore ==
    ASSUME SuInv, SuExact, NEW u \in Commands, SuAtWork(u), Path(u) = 0, ~suRaced
    PROVE  /\ suFile \in [SuNames -> Int] /\ 0 \in SuNames /\ 1 \in SuNames
           /\ suExe \in [name : SuNames, gone : BOOLEAN]
           /\ suOp[u].version \in Nat \ {0} /\ suInstalled \in Nat \ {0}
           /\ suOp[u].version >= suInstalled /\ suExe.name \in {0, 1}
           /\ suOp[u].at \in {"remove", "backup", "clear", "ask"} => suFile[0] = suInstalled
           /\ suOp[u].at \in {"install", "fill", "chmod", "restore"} => suFile[1] = suInstalled /\ ~(suFile[0] > 0)
  <1>1. /\ suOp[u] \in SuOpRecords /\ suOp[u].version > 0 /\ suFile \in [SuNames -> Int]
        /\ suExe \in [name : SuNames, gone : BOOLEAN]
        /\ suInstalled \in Nat \ {0} /\ Path(u) + 1 \in SuNames /\ SuVersions
    BY DEF SuInv, SuTypeOK, SuOpsOK, SuExact
  <1>2. 0 \in SuNames /\ 1 \in SuNames
    BY <1>1, SelfUpdateAssumption DEF SuNames
  <1> QED
    BY <1>1, <1>2 DEF SuVersions, Whole, SuOpRecords

\* The steps of an update.
LEMMA SuUpdateExact ==
    ASSUME SuInv, SuExact, NEW u \in Commands,
           SuRemoveOld(u) \/ SuBackup(u) \/ SuInstall(u) \/ SuFill(u) \/ SuChmod(u) \/ SuClear(u)
             \/ SuRestore(u) \/ SuAskAfterUpgrade(u)
    PROVE  SuExact'
  <1>1. /\ SuTypeOK /\ suOp[u] \in SuOpRecords /\ suInstalled \in Nat
    BY DEF SuInv, SuTypeOK, SuExact
  <1>2. SuAtWork(u)
    BY DEF SuRemoveOld, SuBackup, SuInstall, SuFill, SuChmod, SuClear, SuRestore, SuAskAfterUpgrade,
           SuAtWork, OpAt
  <1>3. UNCHANGED <<suLatest, suRaced>>
    BY DEF SuRemoveOld, SuBackup, SuInstall, SuFill, SuChmod, SuClear, SuRestore, SuAskAfterUpgrade, suHistory
  <1> DEFINE To(step) == [suOp[u] EXCEPT !.at = step]
  <1>4. \A step \in SuSteps : To(step).at = step /\ To(step).version = suOp[u].version
    BY <1>1, SuOpTyped
  <1>5. \A step \in SuSteps : OpGoes(u, step) => suOp' = [suOp EXCEPT ![u] = To(step)]
    BY DEF OpGoes
  <1> HIDE DEF To
  <1>6. OpEnds(u) => \E new : new.at = "idle" /\ suOp' = [suOp EXCEPT ![u] = new]
    BY <1>1, SuOpTyped DEF OpEnds
  <1>7. CASE SuRemoveOld(u)
    <2>1. /\ suOp' = [suOp EXCEPT ![u] = To("backup")] /\ suInstalled' = suInstalled
      BY <1>5, <1>7 DEF SuRemoveOld, SuSteps, suHistory
    <2>2. Path(u) = 0 /\ ~suRaced => suExe'.name \in {0, 1} /\ suFile'[0] = suInstalled
      BY <1>2, <1>7, SuFilesBefore DEF SuRemoveOld, RemoveOld, Lost, OpAt
    <2>3. To("backup").at = "backup" /\ To("backup").version = suOp[u].version /\ suInstalled' >= suInstalled
      BY <1>1, <1>4, <2>1 DEF SuSteps
    <2> QED
      BY <1>2, <1>3, <2>1, <2>2, <2>3, SuWorkExact
  <1>8. CASE SuBackup(u) /\ OpGoes(u, "install") /\ Rename(Path(u), Path(u) + 1)
    <2>1. /\ suOp' = [suOp EXCEPT ![u] = To("install")] /\ suInstalled' = suInstalled
      BY <1>5, <1>8 DEF SuBackup, SuSteps, suHistory
    <2>2. Path(u) = 0 /\ ~suRaced => suExe'.name \in {0, 1} /\ suFile'[1] = suInstalled /\ ~Whole(0)'
      BY <1>2, <1>8, SuFilesBefore DEF SuBackup, Rename, Lost, Running, OpAt, Whole, NoFile
    <2>3. To("install").at = "install" /\ To("install").version = suOp[u].version /\ suInstalled' >= suInstalled
      BY <1>1, <1>4, <2>1 DEF SuSteps
    <2> QED
      BY <1>2, <1>3, <2>1, <2>2, <2>3, SuWorkExact
  <1>9. CASE SuBackup(u) /\ OpEnds(u) /\ UNCHANGED <<suFile, suExe>>
    <2>1. suInstalled' = suInstalled
      BY <1>9 DEF SuBackup, suHistory
    <2>2. Path(u) = 0 /\ ~suRaced => suFile'[0] = suInstalled
      BY <1>2, <1>9, SuFilesBefore DEF SuBackup, OpAt
    <2> QED
      BY <1>1, <1>2, <1>3, <1>6, <1>9, <2>1, <2>2, SuWorkExact
  <1>10. CASE SuInstall(u) /\ Installs(u) /\ suExe' = Lost(Path(u)) /\ OpGoes(u, "ask")
    <2>1. suOp' = [suOp EXCEPT ![u] = To("ask")]
      BY <1>5, <1>10 DEF SuSteps
    <2>2. suInstalled' \in {suInstalled, suOp[u].version} /\ suInstalled' >= suInstalled
      BY <1>1, <1>10 DEF Installs, SuOpRecords
    <2>3. Path(u) = 0 /\ ~suRaced =>
            suExe'.name \in {0, 1} /\ suOp[u].version >= suInstalled' /\ suFile'[0] = suInstalled'
      BY <1>2, <1>10, SuFilesBefore DEF Installs, Lost
    <2> QED
      BY <1>2, <1>3, <1>4, <2>1, <2>2, <2>3, SuWorkExact DEF SuSteps
  <1>11. CASE SuInstall(u) /\ suFile' = [suFile EXCEPT ![Path(u)] = Torn] /\ OpGoes(u, "fill")
              /\ UNCHANGED <<suExe, suInstalled>>
    <2>1. suOp' = [suOp EXCEPT ![u] = To("fill")]
      BY <1>5, <1>11 DEF SuSteps
    <2>2. Path(u) = 0 /\ ~suRaced => suFile'[1] = suInstalled /\ ~Whole(0)'
      BY <1>2, <1>11, SuFilesBefore DEF SuInstall, OpAt, Whole, Torn
    <2>3. To("fill").at = "fill" /\ To("fill").version = suOp[u].version /\ suInstalled' >= suInstalled
      BY <1>1, <1>4, <1>11, <2>1 DEF SuSteps
    <2> QED
      BY <1>2, <1>3, <1>11, <2>1, <2>2, <2>3, SuWorkExact
  <1>12. CASE (SuInstall(u) \/ SuFill(u)) /\ OpGoes(u, "restore") /\ UNCHANGED <<suFile, suExe, suInstalled>>
    <2>1. suOp' = [suOp EXCEPT ![u] = To("restore")]
      BY <1>5, <1>12 DEF SuSteps
    <2>2. Path(u) = 0 /\ ~suRaced => suFile'[1] = suInstalled /\ ~Whole(0)'
      BY <1>2, <1>12, SuFilesBefore DEF SuInstall, SuFill, OpAt, Whole
    <2>3. To("restore").at = "restore" /\ To("restore").version = suOp[u].version /\ suInstalled' >= suInstalled
      BY <1>1, <1>4, <1>12, <2>1 DEF SuSteps
    <2> QED
      BY <1>2, <1>3, <1>12, <2>1, <2>2, <2>3, SuWorkExact
  <1>13. CASE SuChmod(u) /\ Installs(u) /\ OpGoes(u, "clear")
    <2>1. suOp' = [suOp EXCEPT ![u] = To("clear")] /\ suExe' = suExe
      BY <1>5, <1>13 DEF SuSteps, SuChmod
    <2>2. suInstalled' \in {suInstalled, suOp[u].version} /\ suInstalled' >= suInstalled
      BY <1>1, <1>13 DEF Installs, SuOpRecords
    <2>3. Path(u) = 0 /\ ~suRaced => suOp[u].version >= suInstalled' /\ suFile'[0] = suInstalled'
      BY <1>2, <1>13, SuFilesBefore DEF Installs
    <2> QED
      BY <1>2, <1>3, <1>4, <2>1, <2>2, <2>3, SuWorkExact DEF SuSteps
  <1>14. CASE SuClear(u)
    <2>1. OpEnds(u) /\ suInstalled' = suInstalled
      BY <1>14 DEF SuClear, suHistory
    <2>2. Path(u) = 0 /\ ~suRaced => suExe'.name \in {0, 1} /\ suFile'[0] = suInstalled
      BY <1>2, <1>14, SuFilesBefore DEF SuClear, RemoveOld, Lost, OpAt
    <2> QED
      BY <1>1, <1>2, <1>3, <1>6, <2>1, <2>2, SuWorkExact
  <1>15. CASE SuRestore(u)
    <2>1. OpEnds(u) /\ suInstalled' = suInstalled
      BY <1>15 DEF SuRestore, suHistory
    <2>2. Path(u) = 0 /\ ~suRaced => suExe'.name \in {0, 1} /\ (Whole(0)' => suFile'[0] = suInstalled)
      <3>1. CASE PutBack(u)
        BY <1>2, <1>15, <3>1, SuFilesBefore DEF SuRestore, PutBack, Rename, Lost, Running, OpAt, NoFile
      <3>2. CASE UNCHANGED <<suFile, suExe>>
        BY <1>2, <1>15, <3>2, SuFilesBefore DEF SuRestore, Whole, OpAt
      <3> QED
        BY <1>15, <3>1, <3>2 DEF SuRestore
    <2> QED
      BY <1>1, <1>2, <1>3, <1>6, <2>1, <2>2, SuWorkExact
  <1>16. CASE SuAskAfterUpgrade(u)
    <2>1. OpEnds(u) /\ suInstalled' = suInstalled /\ UNCHANGED <<suFile, suExe>>
      BY <1>16 DEF SuAskAfterUpgrade, suHistory, suDisk
    <2>2. Path(u) = 0 /\ ~suRaced => suFile[0] = suInstalled
      BY <1>2, <1>16, SuFilesBefore DEF SuAskAfterUpgrade, OpAt
    <2> QED
      BY <1>1, <1>2, <1>3, <1>6, <2>1, <2>2, SuWorkExact
  <1>17. CASE SuFill(u) /\ OpGoes(u, "chmod")
    <2>1. suOp' = [suOp EXCEPT ![u] = To("chmod")] /\ UNCHANGED <<suFile, suExe, suInstalled>>
      BY <1>5, <1>17 DEF SuSteps, SuFill, suDisk, suHistory
    <2>2. Path(u) = 0 /\ ~suRaced => suFile'[1] = suInstalled /\ ~Whole(0)'
      BY <1>2, <1>17, <2>1, SuFilesBefore DEF SuFill, OpAt, Whole
    <2>3. To("chmod").at = "chmod" /\ To("chmod").version = suOp[u].version /\ suInstalled' >= suInstalled
      BY <1>1, <1>4, <2>1 DEF SuSteps
    <2> QED
      BY <1>2, <1>3, <2>1, <2>2, <2>3, SuWorkExact
  <1>18. CASE SuChmod(u) /\ OpEnds(u) /\ UNCHANGED <<suFile, suInstalled>>
    <2>1. Path(u) = 0 /\ ~suRaced => ~Whole(0)' /\ suExe' = suExe
      BY <1>2, <1>18, SuFilesBefore DEF SuChmod, OpAt, Whole
    <2> QED
      BY <1>1, <1>2, <1>3, <1>6, <1>18, <2>1, SuWorkExact
  <1> QED
    BY <1>7, <1>8, <1>9, <1>10, <1>11, <1>12, <1>13, <1>14, <1>15, <1>16, <1>17, <1>18
       DEF SuBackup, SuInstall, SuFill, SuChmod, suDisk, suHistory

\* Commands that end, wherever they were, leave the versions where they are.
LEMMA SuDropsExact ==
    ASSUME SuInv, SuExact, UNCHANGED <<suFile, suInstalled, suRaced>>,
           suLatest' \in Nat, suLatest' >= suLatest,
           \A w \in Commands : suOp'[w] = suOp[w] \/ suOp'[w].at \in {"new", "idle"},
           ~suRaced /\ suExe.name \in {0, 1} => suExe'.name \in {0, 1}
    PROVE  SuExact'
  <1>1. \A w \in Commands : SuAtWork(w)' => suOp'[w] = suOp[w] /\ SuAtWork(w)
    BY DEF SuAtWork
  <1>2. /\ suLatest \in Nat /\ suInstalled \in Nat /\ suInstalled <= suLatest
        /\ \A w \in Commands : suOp[w] \in SuOpRecords
    BY DEF SuInv, SuTypeOK, SuExact
  <1>3. \A w \in Commands : SuAtWork(w)' => suOp'[w].version <= suLatest'
    <2> SUFFICES ASSUME NEW w \in Commands, SuAtWork(w)'
                 PROVE  suOp'[w].version <= suLatest'
      OBVIOUS
    <2>1. suOp[w].version \in Nat /\ suOp[w].version <= suLatest /\ suOp'[w] = suOp[w]
      BY <1>1, <1>2 DEF SuExact, SuOpRecords
    <2> QED
      BY <1>2, <2>1
  <1>4. ASSUME ~suRaced
        PROVE  SuVersions'
    <2>1. SuVersions
      BY <1>4 DEF SuExact
    <2>2. ASSUME \A w \in Commands : ~SuAtWork(w)'
          PROVE  Whole(0) => suFile[0] = suInstalled
      <3>1. CASE \A w \in Commands : ~SuAtWork(w)
        BY <2>1, <3>1 DEF SuVersions
      <3>2. ASSUME NEW w \in Commands, SuAtWork(w)
            PROVE  Whole(0) => suFile[0] = suInstalled
        BY <1>2, <2>1, <3>2 DEF SuVersions, SuAtWork, SuOpRecords, SuSteps
      <3> QED
        BY <3>1, <3>2
    <2>3. \A w \in Commands : suOp'[w].at \notin {"new", "idle"} => suOp'[w] = suOp[w]
      OBVIOUS
    <2>4. suExe'.name \in {0, 1}
      BY <1>4, <2>1 DEF SuVersions
    <2>5. \A w \in Commands : SuAtWork(w)' => suOp'[w].version >= suInstalled'
      BY <1>1, <2>1 DEF SuVersions
    <2>6. \A w \in Commands :
            /\ suOp'[w].at \in {"remove", "backup", "clear", "ask"} => suFile'[0] = suInstalled'
            /\ suOp'[w].at \in {"install", "fill", "chmod", "restore"} => suFile'[1] = suInstalled' /\ ~Whole(0)'
      BY <2>1, <2>3 DEF SuVersions, Whole
    <2> QED
      BY <2>2, <2>4, <2>5, <2>6 DEF SuVersions, Whole
  <1> QED
    BY <1>2, <1>3, <1>4 DEF SuExact

\* An update begins with the newest version there is.
LEMMA SuCheckExact ==
    ASSUME SuInv, SuExact, NEW u \in Commands, SuCheck(u)
    PROVE  SuExact'
  <1>1. /\ suLatest \in Nat /\ suInstalled \in Nat /\ suInstalled <= suLatest
        /\ UNCHANGED <<suFile, suExe, suLatest, suInstalled>> /\ (~suRaced' => ~suRaced)
    BY DEF SuInv, SuTypeOK, SuExact, SuCheck, suDisk
  <1>2. /\ suOp'[u].at = "remove" /\ suOp'[u].version = suLatest
        /\ \A w \in Commands : w # u => suOp'[w] = suOp[w]
    BY DEF SuCheck, SuInv, SuTypeOK
  <1>3. \A w \in Commands : SuAtWork(w)' => suOp'[w].version <= suLatest'
    BY <1>1, <1>2 DEF SuExact, SuAtWork
  <1>4. ASSUME ~suRaced'
        PROVE  SuVersions'
    <2>1. SuVersions /\ ~suRaced
      BY <1>1, <1>4 DEF SuExact
    <2>2. SuPlace'
      BY <1>4, SuCheckKeeps DEF SuInv
    <2>3. \A w \in Commands : SuAtWork(w)' => w = u
      BY <1>2, <2>2 DEF SuPlace, SuAtWork
    <2>4. Whole(0) /\ \A w \in Commands : w # u => ~SuAtWork(w)
      BY <1>1, <1>2, <2>2, <2>3 DEF SuPlace, Whole, SuAtWork
    <2>5. ~SuAtWork(u)
      BY DEF SuCheck, OpAt, SuAtWork
    <2>6. suFile[0] = suInstalled
      BY <2>1, <2>4, <2>5 DEF SuVersions
    <2>7. \A w \in Commands : suOp'[w].at \notin {"install", "fill", "chmod", "restore"}
      BY <1>2, <2>3 DEF SuAtWork
    <2> QED
      BY <1>1, <1>2, <2>1, <2>3, <2>6, <2>7 DEF SuVersions
  <1> QED
    BY <1>1, <1>3, <1>4 DEF SuExact

\* Every step keeps the versions where they belong.
LEMMA SuNextExact == SuInv /\ SuExact /\ [SuNext]_suVars => SuExact'
  <1> SUFFICES ASSUME SuInv, SuExact, [SuNext]_suVars
               PROVE  SuExact'
    OBVIOUS
  <1>1. suLatest \in Nat /\ SuTypeOK /\ SuIdle.at = "idle"
    BY DEF SuInv, SuTypeOK, SuIdle
  <1>2. ASSUME UNCHANGED <<suFile, suInstalled, suRaced, suOp, suExe>>, suLatest' \in {suLatest, suLatest + 1}
        PROVE  SuExact'
    BY <1>1, <1>2, SuDropsExact
  <1>3. CASE SuRelease \/ SuTake \/ SuSaveNote \/ UNCHANGED suVars
    BY <1>2, <1>3 DEF SuRelease, SuTake, SuSaveNote, suVars, suDisk, suHistory
  <1>4. HandlersEnd => \A w \in Commands : suOp'[w] = suOp[w] \/ suOp'[w].at \in {"new", "idle"}
    BY <1>1 DEF HandlersEnd
  <1>5. CASE SuExec
    <2>1. UNCHANGED <<suFile, suInstalled, suRaced, suLatest>> /\ HandlersEnd
      BY <1>5 DEF SuExec
    <2>2. suExe.name \in {0, 1} => suExe'.name \in {0, 1}
      BY <1>5 DEF SuExec, Starts, Running, RestartPath
    <2> QED
      BY <1>1, <1>4, <2>1, <2>2, SuDropsExact
  <1>6. CASE SuStop
    <2>1. UNCHANGED <<suFile, suInstalled, suRaced, suLatest, suExe>> /\ HandlersEnd
      BY <1>6 DEF SuStop, suDisk
    <2> QED
      BY <1>1, <1>4, <2>1, SuDropsExact
  <1>7. CASE SuInterrupt
    <2>1. UNCHANGED <<suFile, suInstalled, suRaced, suLatest, suExe>>
      BY <1>7 DEF SuInterrupt, suDisk
    <2>2. \A w \in Commands : suOp'[w] = suOp[w] \/ suOp'[w].at \in {"new", "idle"}
      BY <1>1, <1>7 DEF SuInterrupt, OpEnds, SuTypeOK
    <2> QED
      BY <1>1, <2>1, <2>2, SuDropsExact
  <1>8. CASE SuStartAgain
    <2>1. /\ UNCHANGED <<suFile, suInstalled, suRaced, suLatest, suOp>> /\ suExe'.name = 0
      BY <1>8 DEF SuStartAgain, Starts, Running
    <2> QED
      BY <1>1, <2>1, SuDropsExact
  <1>9. ASSUME NEW u \in Commands, SuRefuse(u) \/ SuAskRestart(u)
        PROVE  SuExact'
    <2>1. UNCHANGED <<suFile, suInstalled, suRaced, suLatest, suExe>>
      BY <1>9 DEF SuRefuse, SuAskRestart, suDisk, suHistory
    <2>2. \A w \in Commands : suOp'[w] = suOp[w] \/ suOp'[w].at \in {"new", "idle"}
      BY <1>1, <1>9 DEF SuRefuse, SuAskRestart, OpEnds, SuTypeOK
    <2> QED
      BY <1>1, <2>1, <2>2, SuDropsExact
  <1> QED
    BY <1>3, <1>5, <1>6, <1>7, <1>8, <1>9, SuCheckExact, SuUpdateExact DEF SuNext, SuStep

\* Where the versions are, a new process is the newest that was installed.
LEMMA SuExecNewest ==
    ASSUME SuInv, SuExact, SuExec, suMain' = "up", ~suRaced, ~suCut'
    PROVE  suVer' = suInstalled
  <1>1. /\ SuPlace /\ SuVersions /\ suInstalled \in Nat \ {0}
        /\ \A u \in Commands : suOp[u] \in SuOpRecords
    BY DEF SuInv, SuTypeOK, SuExact
  <1>2. Whole(RestartPath) /\ suVer' = suFile[RestartPath]
    BY DEF SuExec, Starts
  <1>3. ~suCut
    BY DEF SuExec, HandlersEnd
  <1>4. RestartPath \in {0, 1} /\ (RestartPath = 1 => suFile[0] = NoFile)
    BY <1>1 DEF RestartPath, SuVersions
  <1>5. CASE RestartPath = 0
    <2>1. Whole(0)
      BY <1>2, <1>5
    <2>2. suFile[0] = suInstalled
      <3>1. CASE \A u \in Commands : ~SuAtWork(u)
        BY <1>1, <2>1, <3>1 DEF SuVersions
      <3>2. ASSUME NEW u \in Commands, SuAtWork(u)
            PROVE  suFile[0] = suInstalled
        BY <1>1, <2>1, <3>2 DEF SuVersions, SuAtWork, SuOpRecords, SuSteps
      <3> QED
        BY <3>1, <3>2
    <2> QED
      BY <1>2, <1>5, <2>2
  <1>6. CASE RestartPath = 1
    <2>1. ~Whole(0) /\ suFile[0] # suInstalled
      BY <1>1, <1>4, <1>6 DEF Whole, NoFile
    <2>2. PICK u \in Commands : SuAtWork(u)
      BY <1>1, <1>3, <2>1 DEF SuPlace
    <2>3. suFile[1] = suInstalled
      BY <1>1, <2>1, <2>2 DEF SuVersions, SuAtWork, SuOpRecords, SuSteps
    <2> QED
      BY <1>2, <1>6, <2>3
  <1> QED
    BY <1>4, <1>5, <1>6

\* A restart runs the newest version that an update has installed.
THEOREM RestartsNewest == SuSpec => RestartRunsUpgrade
  <1> DEFINE Newest == suMain = "exec" /\ suMain' = "up" /\ ~suRaced /\ ~suCut' => suVer' = suInstalled
  <1>1. SuInit => SuInv /\ SuExact
    <2>1. SuInit => SuInv
      BY SuStarts
    <2>2. SuInit => SuExact
      <3> DEFINE first == [SuIdle EXCEPT !.at = "new"]
      <3>1. first.at = "new"
        BY DEF SuIdle
      <3>2. SuInit => suOp = [u \in Commands |-> first]
        BY DEF SuInit
      <3> HIDE DEF first
      <3>3. SuInit => \A u \in Commands : suOp[u].at = "new"
        BY <3>1, <3>2
      <3>4. 0 \in SuNames
        BY SelfUpdateAssumption DEF SuNames
      <3> QED
        BY <3>3, <3>4 DEF SuInit, SuExact, SuVersions, SuAtWork, Running
    <2> QED
      BY <2>1, <2>2
  <1>2. SuInv /\ SuExact /\ [SuNext]_suVars => (SuInv /\ SuExact)'
    BY SuNextKeeps, SuNextExact
  <1>3. SuInv /\ SuExact /\ [SuNext]_suVars => [Newest]_suVars
    <2> SUFFICES ASSUME SuInv, SuExact, SuNext, suMain = "exec", suMain' = "up", ~suRaced, ~suCut'
                 PROVE  suVer' = suInstalled
      OBVIOUS
    <2>1. SuExec
      BY DEF SuNext, SuStep, SuRelease, SuTake, SuSaveNote, SuStop, SuInterrupt, SuStartAgain, SuCheck,
             SuRefuse, SuRemoveOld, SuBackup, SuInstall, SuFill, SuChmod, SuClear, SuRestore,
             SuAskAfterUpgrade, SuAskRestart
    <2> QED
      BY <2>1, SuExecNewest
  <1> QED
    BY <1>1, <1>2, <1>3, PTL DEF SuSpec, RestartRunsUpgrade
=============================================================================
