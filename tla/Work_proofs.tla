----------------------------- MODULE Work_proofs -----------------------------
(* What holds of the work beside the turns of a chat: reviews, the gateway of  *)
(* remote jobs, agent sessions, session starts and worktrees.                  *)
EXTENDS ReviewFlow, SessionStart, Workspace, WorkerLink, AgentSessions, TLAPS

-----------------------------------------------------------------------------
(* ReviewFlow: a review shares the turn of its session with nobody. *)

RvLabels == {"idle", "lock", "state", "acquire", "turn", "review", "unlock", "clear"}
RvStages == {"none", "packet", "retry", "review", "revise"}
RvRecords == [at : RvLabels, stage : RvStages, session : RvSessions, state : Nat, asks : BOOLEAN]

RvTypeOK ==
    /\ rvActive \in RvSessions
    /\ rvRun \in [Reviews -> RvRecords]
    /\ rvUser \in RvRecords
    /\ rvRunning \in BOOLEAN

\* At most one cycle is under way and it is marked so; a turn, of a review or of a prompt,
\* holds the lock of its session, and no two turns hold one lock.
RvInv ==
    /\ RvTypeOK
    /\ \A v \in Reviews : Run(v).at # "idle" => rvRunning
    /\ \A v, w \in Reviews : Run(v).at # "idle" /\ Run(w).at # "idle" => v = w
    /\ \A v \in Reviews : Run(v).at = "turn" => Run(v).session \in rvTurnLock
    /\ rvUser.at = "turn" => rvUser.session \in rvTurnLock
    /\ \A v \in Reviews :
         Run(v).at = "turn" => ~(rvUser.at = "turn" /\ rvUser.session = Run(v).session)

\* The record of an idle goroutine.
LEMMA RvIdleTyped == RvIdle \in RvRecords /\ RvIdle.at = "idle" /\ RvIdle.session = RvFirst
  BY ReviewFlowAssumption DEF RvIdle, RvRecords, RvLabels, RvStages

\* A step that touches neither turns nor locks: what it must leave, for one cycle v.
LEMMA RvQuietKeeps ==
    ASSUME RvInv, NEW v \in Reviews, rvRun' \in [Reviews -> RvRecords],
           \A w \in Reviews \ {v} : rvRun'[w] = rvRun[w],
           rvRun'[v].at # "turn", Run(v).at # "idle", rvActive' \in RvSessions,
           UNCHANGED rvUser,
           UNCHANGED rvTurnLock \/ (Run(v).at = "turn" /\ rvTurnLock' = rvTurnLock \ {Run(v).session}),
           UNCHANGED rvRunning \/ (rvRun'[v].at = "idle" /\ rvRunning' = FALSE)
    PROVE  RvInv'
  BY DEF RvInv, RvTypeOK, Run

\* A step of the prompts, which enters no turn.
LEMMA RvPromptKeeps ==
    ASSUME RvInv, UNCHANGED <<rvRun, rvRunning>>, rvActive' \in RvSessions, rvUser' \in RvRecords,
           rvUser' = rvUser \/ rvUser'.at # "turn",
           \/ UNCHANGED rvTurnLock
           \/ rvUser.at = "turn" /\ rvUser'.at # "turn" /\ rvTurnLock' = rvTurnLock \ {rvUser.session}
    PROVE  RvInv'
  BY DEF RvInv, RvTypeOK, Run

\* Every step keeps cycles and turns apart.
LEMMA RvNextKeeps == RvInv /\ [RvNext]_rvVars => RvInv'
  <1> SUFFICES ASSUME RvInv, [RvNext]_rvVars
               PROVE  RvInv'
    OBVIOUS
  <1>0. RvTypeOK /\ RvFirst \in RvSessions
    BY ReviewFlowAssumption DEF RvInv
  <1>1. ASSUME NEW v \in Reviews, RvStart(v)
        PROVE  RvInv'
    BY <1>0, <1>1 DEF RvStart, RunTo, Run, RvInv, RvTypeOK, RvRecords, RvLabels, rvChat
  <1>2. ASSUME NEW v \in Reviews, RvRefused(v) \/ RvClear(v)
        PROVE  RvInv'
    BY <1>0, <1>2, RvIdleTyped, RvQuietKeeps DEF RvRefused, RvClear, GivesUp, Run, RvTypeOK, rvChat
  <1>3. ASSUME NEW v \in Reviews, RvLock(v) \/ RvReviewed(v) \/ RvUnlock(v)
        PROVE  RvInv'
    <2>1. /\ rvRun' \in [Reviews -> RvRecords] /\ rvRun'[v].at # "turn"
          /\ \A w \in Reviews \ {v} : rvRun'[w] = rvRun[w]
      <3>1. CASE RvLock(v)
        <4>1. PICK label \in {"state", "unlock"} :
                rvRun' = [rvRun EXCEPT ![v] = [@ EXCEPT !.at = label, !.stage = "packet",
                                                        !.session = rvActive]]
          BY <3>1 DEF RvLock
        <4> QED
          BY <1>0, <4>1 DEF RvTypeOK, RvRecords, RvLabels, RvStages
      <3>2. CASE RvReviewed(v)
        <4> DEFINE revises == [rvRun[v] EXCEPT !.at = "state", !.stage = "revise"]
                   unlocks == [rvRun[v] EXCEPT !.at = "unlock"]
        <4>1. /\ revises \in RvRecords /\ revises.at = "state"
              /\ unlocks \in RvRecords /\ unlocks.at = "unlock"
          BY <1>0, <1>3 DEF RvTypeOK, RvRecords, RvLabels, RvStages
        <4>2. \/ rvRun' = [rvRun EXCEPT ![v] = revises]
              \/ rvRun' = [rvRun EXCEPT ![v] = unlocks]
          BY <3>2 DEF RvReviewed, RunTo
        <4> HIDE DEF revises, unlocks
        <4> QED
          BY <1>0, <4>1, <4>2 DEF RvTypeOK
      <3>3. CASE RvUnlock(v)
        BY <1>0, <3>3 DEF RvUnlock, RunTo, RvTypeOK, RvRecords, RvLabels, RvStages
      <3> QED
        BY <1>3, <3>1, <3>2, <3>3
    <2>2. Run(v).at # "idle" /\ UNCHANGED <<rvActive, rvUser, rvTurnLock, rvRunning>>
      BY <1>3 DEF RvLock, RvReviewed, RvUnlock, rvChat
    <2> QED
      BY <1>0, <2>1, <2>2, RvQuietKeeps DEF RvTypeOK
  <1>4. ASSUME NEW v \in Reviews, RvTakesState(v)
        PROVE  RvInv'
    <2>1. ASSUME NEW s \in 1 .. MaxRvStates, TakesState(s),
                 rvRun' = [rvRun EXCEPT ![v] = [@ EXCEPT !.at = "acquire", !.state = s]]
          PROVE  /\ rvRun' \in [Reviews -> RvRecords] /\ rvRun'[v].at # "turn" /\ UNCHANGED rvActive
                 /\ \A w \in Reviews \ {v} : rvRun'[w] = rvRun[w]
      <3>1. s \in Nat /\ UNCHANGED rvActive
        BY <2>1, ReviewFlowAssumption DEF TakesState, rvChat
      <3> QED
        BY <1>0, <2>1, <3>1 DEF RvTypeOK, RvRecords, RvLabels
    <2>2. ASSUME RunTo(v, "unlock"), UNCHANGED rvChat
          PROVE  /\ rvRun' \in [Reviews -> RvRecords] /\ rvRun'[v].at # "turn" /\ UNCHANGED rvActive
                 /\ \A w \in Reviews \ {v} : rvRun'[w] = rvRun[w]
      BY <1>0, <2>2 DEF RunTo, rvChat, RvTypeOK, RvRecords, RvLabels
    <2>3. Run(v).at # "idle" /\ UNCHANGED <<rvUser, rvTurnLock, rvRunning>>
      BY <1>4 DEF RvTakesState
    <2> QED
      BY <1>0, <1>4, <2>1, <2>2, <2>3, RvQuietKeeps DEF RvTakesState, RvTypeOK
  <1>5. ASSUME NEW v \in Reviews, RvAcquire(v)
        PROVE  RvInv'
    BY <1>5 DEF RvAcquire, LocksTurn, RunTo, Run, RvInv, RvTypeOK, RvRecords, RvLabels, rvChat
  <1>6. ASSUME NEW v \in Reviews, RvTurnDone(v) \/ RvTurnFails(v)
        PROVE  RvInv'
    <2>1. ASSUME NEW label \in RvLabels \ {"turn"}, NEW stage \in RvStages,
                 rvRun' = [rvRun EXCEPT ![v] = [@ EXCEPT !.at = label, !.stage = stage, !.state = 0]]
          PROVE  /\ rvRun' \in [Reviews -> RvRecords] /\ rvRun'[v].at # "turn"
                 /\ \A w \in Reviews \ {v} : rvRun'[w] = rvRun[w]
      BY <1>0, <2>1 DEF RvTypeOK, RvRecords
    <2>2. CASE RvTurnDone(v)
      <3>1. PICK next \in {<<"review", "review">>, <<"state", "retry">>, <<"unlock", "packet">>,
                           <<"unlock", "retry">>, <<"unlock", "revise">>} :
              rvRun' = [rvRun EXCEPT ![v] = [@ EXCEPT !.at = next[1], !.stage = next[2], !.state = 0]]
        BY <2>2 DEF RvTurnDone
      <3>2. next[1] \in RvLabels \ {"turn"} /\ next[2] \in RvStages
        BY <3>1 DEF RvLabels, RvStages
      <3> QED
        BY <1>0, <2>1, <2>2, <3>1, <3>2, RvQuietKeeps DEF RvTurnDone, RvTypeOK, rvChat
    <2>3. CASE RvTurnFails(v)
      <3>1. /\ rvRun' \in [Reviews -> RvRecords] /\ rvRun'[v].at # "turn"
            /\ \A w \in Reviews \ {v} : rvRun'[w] = rvRun[w]
        BY <1>0, <2>3 DEF RvTurnFails, RvTypeOK, RvRecords, RvLabels
      <3> QED
        BY <1>0, <2>3, <3>1, RvQuietKeeps DEF RvTurnFails, RvTypeOK
    <2> QED
      BY <1>6, <2>2, <2>3
  <1>7. CASE RvPrompt
    <2>1. UNCHANGED rvUser \/ rvUser' = [RvIdle EXCEPT !.at = "state", !.session = rvActive]
      BY <1>7 DEF RvPrompt
    <2>2. rvUser' \in RvRecords /\ (rvUser' = rvUser \/ rvUser'.at # "turn")
      BY <1>0, <2>1, RvIdleTyped DEF RvTypeOK, RvRecords, RvLabels
    <2> QED
      BY <1>0, <1>7, <2>2, RvPromptKeeps DEF RvPrompt, rvChat, RvTypeOK
  <1>8. CASE RvUserTakesState
    <2>1. PICK s \in 1 .. MaxRvStates :
            TakesState(s) /\ rvUser' = [rvUser EXCEPT !.at = "acquire", !.state = s]
      BY <1>8 DEF RvUserTakesState
    <2>2. rvUser' \in RvRecords /\ rvUser'.at # "turn" /\ UNCHANGED rvActive
      <3>1. s \in Nat /\ UNCHANGED rvActive
        BY <2>1, ReviewFlowAssumption DEF TakesState, rvChat
      <3> QED
        BY <1>0, <2>1, <3>1 DEF RvTypeOK, RvRecords, RvLabels
    <2> QED
      BY <1>0, <1>8, <2>2, RvPromptKeeps DEF RvUserTakesState, RvTypeOK
  <1>9. CASE RvUserAcquires
    BY <1>9 DEF RvUserAcquires, LocksTurn, RvInv, RvTypeOK, RvRecords, RvLabels, Run, rvChat
  <1>10. CASE RvUserEnds
    <2>1. rvUser' = RvIdle \/ rvUser' = [RvIdle EXCEPT !.at = "state", !.session = rvActive]
      BY <1>10 DEF RvUserEnds
    <2>2. rvUser' \in RvRecords /\ rvUser'.at # "turn"
      BY <1>0, <2>1, RvIdleTyped DEF RvTypeOK, RvRecords, RvLabels
    <2> QED
      BY <1>0, <1>10, <2>2, RvPromptKeeps DEF RvUserEnds, rvChat, RvTypeOK
  <1>11. CASE RvStop \/ RvMove
    BY <1>0, <1>11, RvPromptKeeps DEF RvStop, RvMove, RvTypeOK
  <1>12. CASE UNCHANGED rvVars
    BY <1>12 DEF rvVars, rvChat, RvInv, RvTypeOK, Run
  <1>13. ASSUME NEW b \in BOOLEAN, rvUser' = [rvUser EXCEPT !.asks = b],
                UNCHANGED <<rvChat, rvTurnLock, rvRunning, rvRun>>
         PROVE  RvInv'
    <2>1. rvUser' \in RvRecords /\ rvUser'.at = rvUser.at /\ rvUser'.session = rvUser.session
      BY <1>0, <1>13 DEF RvTypeOK, RvRecords
    <2> QED
      BY <1>13, <2>1 DEF RvInv, RvTypeOK, Run, rvChat
  <1>14. CASE RvUserAsks \/ RvUserAnswers
    BY <1>13, <1>14 DEF RvUserAsks, RvUserAnswers
  <1> QED
    BY <1>1, <1>2, <1>3, <1>4, <1>5, <1>6, <1>7, <1>8, <1>9, <1>10, <1>11, <1>12, <1>14
       DEF RvNext, ReviewStep, RvUserStep

\* The turn of a review is never beside a turn of a prompt of the same session, nor beside that
\* of another review, whatever /stop and /new do meanwhile.  Nothing is said of turns of different
\* sessions, which may share the agent after /new.
THEOREM ReviewAlone == RvSpec => []ReviewTurnsAlone
  <1>1. RvInit => RvInv
    BY ReviewFlowAssumption, RvIdleTyped DEF RvInit, RvInv, RvTypeOK, Run
  <1>2. RvInv => ReviewTurnsAlone
    BY DEF RvInv, ReviewTurnsAlone
  <1> QED
    BY <1>1, <1>2, RvNextKeeps, PTL DEF RvSpec

-----------------------------------------------------------------------------
(* SessionStart: a session starts as it was prepared, and a cron job keeps its session. *)

SkPreparing == {"reconcile", "link", "manifest", "exclude", "fill"}
SkLabels == {"new", "asked", "prepared", "start", "send", "turn", "record", "ended"} \cup SkPreparing
SkOuts == {"none", "ok", "error", "notfound", "cancelled", "refused"}
SkLines == {UserLine, SkillLine}
SkRecords ==
    [at : SkLabels, has : SUBSET SkSkills, todo : SUBSET SkSkills, read : SUBSET SkLines,
     on : BOOLEAN, id : SkIds \cup {NoSkillId}, worked : BOOLEAN, out : SkOuts]
SkManifests == [is : {"none", "torn", "whole"}, names : SUBSET SkSkills]
SkProcesses == [env : SkStarts \cup {NoStart}, skills : SUBSET SkSkills]

SkTypeOK ==
    /\ skRoots \in [on : BOOLEAN, has : SUBSET SkSkills]
    /\ skRun \in [SkStarts -> SkRecords]
    /\ skLinks \in [SkPlaces -> SUBSET SkSkills]
    /\ skManifest \in [SkPlaces -> SkManifests]
    /\ skExclude \subseteq SkLines
    /\ skProc \in [SkStarts -> SkProcesses]
    /\ skBound \in SkIds \cup {NoSkillId}

\* Who prepares or starts holds agentStartMu, the agent object has the environment of the one
\* that starts, and a process that runs has that of its own.
SkTurns ==
    /\ \A g \in SkStarts : skRun[g].at \in SkPreparing \cup {"prepared", "start"} => skMu = g
    /\ \A g \in SkStarts : skRun[g].at = "start" => skEnv = g
    /\ \A g \in SkStarts : skProc[g].env # NoStart =>
         skProc[g].env = g /\ skRun[g].at \in {"send", "turn", "ended"}

\* A workspace whose writes were never cut short has no link that its manifest does not
\* name, except while a start writes there.
SkPlaced ==
    /\ \A p \in SkPlaces : skManifest[p].is # "whole" => skManifest[p].names = {}
    /\ \A p \in SkPlaces \ skCut :
         \/ skLinks[p] \subseteq skManifest[p].names
         \/ \E g \in SkStarts : skRun[g].at \in {"link", "manifest"} /\ Where(g) = p

\* What a start has put into its workspace so far, and what its process was given.
SkPrepared ==
    \A g \in SkStarts : Where(g) \notin skCut =>
        /\ skRun[g].at = "link" =>
             /\ skLinks[Where(g)] \subseteq Skills(g) /\ skRun[g].todo \subseteq Skills(g)
             /\ Skills(g) \ skRun[g].todo \subseteq skLinks[Where(g)]
        /\ skRun[g].at = "manifest" => skLinks[Where(g)] = Skills(g)
        /\ skRun[g].at \in {"exclude", "fill", "prepared", "start"} /\ skRun[g].on =>
             skLinks[Where(g)] = Skills(g)
        /\ skProc[g].env # NoStart /\ skRun[g].on => skProc[g].skills = Skills(g)

\* The lines of the user are in the exclude file or with the one start that rewrites it, and
\* the line of the skills is there for good once a job has got past it.
SkExcluded ==
    ExcludeFile \notin skCut =>
        /\ UserLine \in skExclude \/ \E g \in SkStarts : skRun[g].at = "fill"
        /\ \A g \in SkStarts : skRun[g].at = "fill" => UserLine \in skRun[g].read
        /\ Unasked \notin skCut =>
             \A g \in SkJobs :
               skRun[g].on /\ skRun[g].at \in {"prepared", "start", "send", "turn", "ended"} =>
                   SkillLine \in skExclude

\* A run counts its session as gone only if it has done no work.
SkRecorded ==
    \A g \in SkStarts : skRun[g].at = "record" =>
        g \in SkCrons /\ (skRun[g].out = "notfound" => ~skRun[g].worked)

SkInv == SkTypeOK /\ SkTurns /\ SkPlaced /\ SkPrepared /\ SkExcluded /\ SkRecorded

\* Every start has a workspace.
LEMMA SkPlaceIn == \A g \in SkStarts, s \in SUBSET SkSkills : Place(g, s) \in SkPlaces
  BY DEF Place, SkPlaces, Key, Tree, SkStarts

\* The constant records of a start are of their kind.
LEMMA SkConstants ==
    /\ NewRun \in SkRecords /\ NewRun.at = "new" /\ NewRun.on = FALSE /\ ~NewRun.worked
    /\ \A out \in SkOuts : Over(out) \in SkRecords /\ Over(out).at = "ended" /\ Over(out).on = FALSE
    /\ NoProcess \in SkProcesses /\ NoProcess.env = NoStart
    /\ NoManifest \in SkManifests /\ NoManifest.is = "none" /\ NoManifest.names = {}
  BY DEF NewRun, SkRecords, SkLabels, SkPreparing, SkOuts, Over, NoProcess, SkProcesses, NoManifest,
         SkManifests

\* What a run that is over becomes: the outcome and, for a cron run, what it has to record.
LEMMA SkRunOver ==
    ASSUME SkInv, NEW g \in SkStarts, NEW out \in SkOuts, NEW id \in SkIds \cup {NoSkillId},
           RunOver(g, out, id), out = "notfound" => ~skRun[g].worked
    PROVE  \E new \in SkRecords :
             /\ skRun' = [skRun EXCEPT ![g] = new]
             /\ new.on = FALSE /\ new.at \in {"record", "ended"}
             /\ new.at = "record" => g \in SkCrons /\ (new.out = "notfound" => ~new.worked)
  <1> DEFINE over == Over(out)
             new == IF g \in SkCrons
                    THEN [over EXCEPT !.at = "record", !.id = id, !.worked = skRun[g].worked]
                    ELSE over
  <1>1. over \in SkRecords /\ over.at = "ended" /\ over.on = FALSE /\ over.out = out
    BY SkConstants DEF Over, NewRun
  <1>2. skRun[g].worked \in BOOLEAN
    BY DEF SkInv, SkTypeOK, SkRecords
  <1>3. skRun' = [skRun EXCEPT ![g] = new]
    BY DEF RunOver
  <1> HIDE DEF over
  <1>4. /\ new \in SkRecords /\ new.on = FALSE /\ new.at \in {"record", "ended"}
        /\ new.at = "record" => g \in SkCrons /\ new.out = out /\ new.worked = skRun[g].worked
    BY <1>1, <1>2 DEF SkRecords, SkLabels
  <1> QED
    BY <1>3, <1>4

\* Failed says notfound only of a run without work.
LEMMA SkFailed ==
    ASSUME NEW g \in SkStarts, NEW typed \in BOOLEAN
    PROVE  Failed(g, typed) \in SkOuts /\ (Failed(g, typed) = "notfound" => ~skRun[g].worked)
  BY DEF Failed, SkOuts

\* A step of g that keeps the disk, as far as the other starts and the workspaces go.
LEMMA SkOthers ==
    ASSUME SkInv, NEW g \in SkStarts, NEW new \in SkRecords, skRun' = [skRun EXCEPT ![g] = new]
    PROVE  /\ skRun' \in [SkStarts -> SkRecords] /\ skRun'[g] = new
           /\ \A h \in SkStarts \ {g} : skRun'[h] = skRun[h] /\ Where(h)' = Where(h)
           /\ Where(g)' = Place(g, new.has)
           /\ \A h \in SkStarts : Where(h) \in SkPlaces
  BY SkPlaceIn DEF SkInv, SkTypeOK, Where, Skills, SkRecords

\* A step of g that neither writes to the disk nor starts a process: it may take or leave the
\* lock, set the environment, and end its own process.
LEMMA SkQuietKeeps ==
    ASSUME SkInv, NEW g \in SkStarts, NEW new \in SkRecords, skRun' = [skRun EXCEPT ![g] = new],
           UNCHANGED skDisk, skRoots' \in [on : BOOLEAN, has : SUBSET SkSkills],
           skBound' \in SkIds \cup {NoSkillId},
           skCut' = skCut,
           \* of the lock and the environment
           new.at \in SkPreparing \cup {"prepared", "start"} => skMu' = g,
           UNCHANGED skMu \/ (skMu = g) \/ skMu = NoStart,
           new.at = "start" => skEnv' = g,
           UNCHANGED skEnv \/ skMu = g,
           \* of the process
           UNCHANGED skProc \/ skProc' = [skProc EXCEPT ![g] = NoProcess],
           skProc'[g].env # NoStart =>
               new.at \in {"send", "turn", "ended"} /\ new.on = skRun[g].on /\ new.has = skRun[g].has,
           \* of the preparation
           skRun[g].at \notin {"link", "manifest"}, new.at \notin {"link", "manifest", "fill"},
           skRun[g].at # "fill",
           new.at \in {"exclude", "prepared", "start"} /\ new.on =>
               /\ skRun[g].at \in {"exclude", "prepared"} /\ skRun[g].on
               /\ new.has = skRun[g].has,
           g \in SkJobs /\ new.on /\ new.at \in {"prepared", "start", "send", "turn", "ended"} =>
               \/ SkillLine \in skExclude
               \/ skRun[g].on /\ skRun[g].at \in {"prepared", "start", "send", "turn", "ended"},
           new.at = "record" => g \in SkCrons /\ (new.out = "notfound" => ~new.worked)
    PROVE  SkInv'
  <1>1. SkTypeOK'
    BY SkOthers, SkConstants DEF SkInv, SkTypeOK, skDisk
  <1>2. SkTurns'
    <2>1. \A h \in SkStarts : h # NoStart
      BY SessionStartAssumption
    <2> QED
      BY <2>1, SkOthers, SkConstants DEF SkInv, SkTurns, SkTypeOK
  <1>3. SkPlaced'
    <2>1. \A h \in SkStarts : skRun[h].at \in {"link", "manifest"} => h # g
      OBVIOUS
    <2>2. \A h \in SkStarts \ {g} : skRun'[h] = skRun[h] /\ Where(h)' = Where(h)
      BY SkOthers
    <2> QED
      BY <2>1, <2>2 DEF SkInv, SkPlaced, skDisk
  <1>4. SkPrepared'
    <2>1. ASSUME NEW h \in SkStarts, h # g
          PROVE  Where(h)' = Where(h) /\ Skills(h)' = Skills(h) /\ skRun'[h] = skRun[h] /\ skProc'[h] = skProc[h]
      BY <2>1, SkOthers DEF Skills, SkInv, SkTypeOK
    <2>2. (new.at \in {"exclude", "prepared", "start"} /\ new.on) \/ skProc'[g].env # NoStart
            => Where(g)' = Where(g) /\ Skills(g)' = Skills(g)
      BY SkOthers DEF Skills, Where
    <2>3. skProc'[g].env # NoStart => skProc'[g] = skProc[g]
      BY SkConstants DEF SkInv, SkTypeOK
    <2>4. skRun'[g] = new
      BY SkOthers
    <2> QED
      BY <2>1, <2>2, <2>3, <2>4 DEF SkInv, SkPrepared, skDisk
  <1>5. SkExcluded'
    BY SkOthers DEF SkInv, SkExcluded, skDisk, SkStarts
  <1>6. SkRecorded'
    BY SkOthers DEF SkInv, SkRecorded
  <1> QED
    BY <1>1, <1>2, <1>3, <1>4, <1>5, <1>6 DEF SkInv

\* A step of a start that prepares its workspace: what it owes for the workspace and for the
\* exclude file.
LEMMA SkWriteKeeps ==
    ASSUME SkInv, NEW g \in SkStarts, skRun[g].at \in SkPreparing,
           NEW new \in SkRecords, skRun' = [skRun EXCEPT ![g] = new],
           new.at \in SkPreparing \cup {"prepared"}, new.has = skRun[g].has,
           UNCHANGED <<skRoots, skMu, skEnv, skProc, skBound>>, skCut \subseteq skCut',
           skLinks' \in [SkPlaces -> SUBSET SkSkills], skManifest' \in [SkPlaces -> SkManifests],
           skExclude' \subseteq SkLines,
           \A p \in SkPlaces \ {Where(g)} : skLinks'[p] = skLinks[p] /\ skManifest'[p] = skManifest[p],
           skManifest'[Where(g)].is # "whole" => skManifest'[Where(g)].names = {},
           Where(g) \notin skCut =>
               /\ new.at \in {"link", "manifest"} \/ skLinks'[Where(g)] \subseteq skManifest'[Where(g)].names
               /\ new.at = "link" =>
                    /\ skLinks'[Where(g)] \subseteq new.has /\ new.todo \subseteq new.has
                    /\ new.has \ new.todo \subseteq skLinks'[Where(g)]
               /\ new.at = "manifest" => skLinks'[Where(g)] = new.has
               /\ new.at \in {"exclude", "fill", "prepared"} /\ new.on => skLinks'[Where(g)] = new.has,
           SkExcluded'
    PROVE  SkInv'
  <1>0. /\ Where(g)' = Where(g) /\ Where(g) \in SkPlaces
        /\ skRun'[g] = new /\ skProc[g].env = NoStart
        /\ \A h \in SkStarts : skRun'[h].at \in {"link", "manifest"} => skRun'[h].at \in SkPreparing
    BY SkOthers DEF Where, Skills, SkInv, SkTurns, SkPreparing
  <1>1. \A h \in SkStarts \ {g} : skRun'[h] = skRun[h] /\ Where(h)' = Where(h) /\ Skills(h)' = Skills(h)
    BY SkOthers DEF Skills
  <1>2. \A h \in SkStarts \ {g} : skRun[h].at \notin SkPreparing \cup {"prepared", "start"}
    BY DEF SkInv, SkTurns
  <1>3. SkTypeOK'
    BY SkOthers DEF SkInv, SkTypeOK
  <1>4. SkTurns'
    BY <1>0, <1>1 DEF SkInv, SkTurns, SkPreparing
  <1>5. SkPlaced'
    <2>1. ASSUME NEW p \in SkPlaces \ skCut, p # Where(g)
          PROVE  \/ skLinks'[p] \subseteq skManifest'[p].names
                 \/ \E h \in SkStarts : skRun'[h].at \in {"link", "manifest"} /\ Where(h)' = p
      BY <1>1, <2>1 DEF SkInv, SkPlaced
    <2> QED
      BY <1>0, <2>1 DEF SkInv, SkPlaced
  <1>6. SkPrepared'
    <2>1. ASSUME NEW h \in SkStarts \ {g}, Where(h) \notin skCut
          PROVE  /\ skRun[h].at \notin {"link", "manifest", "exclude", "fill", "prepared", "start"}
                 /\ skProc[h].env # NoStart /\ skRun[h].on => skProc[h].skills = Skills(h)
      BY <1>2, <2>1 DEF SkInv, SkPrepared, SkPreparing
    <2>2. new.at # "start" /\ Skills(g)' = new.has
      BY <1>0 DEF SkPreparing, Skills
    <2> QED
      BY <1>0, <1>1, <2>1, <2>2 DEF SkPrepared
  <1>7. SkRecorded'
    BY <1>0, <1>1 DEF SkInv, SkRecorded, SkPreparing
  <1> QED
    BY <1>3, <1>4, <1>5, <1>6, <1>7 DEF SkInv

\* The preparation fails.  What it has cut short is known, and otherwise the workspace holds
\* no more than its manifest names, and the exclude file is untouched.
LEMMA SkCutKeeps ==
    ASSUME SkInv, NEW g \in SkStarts, skRun[g].at \in SkPreparing \cup {"prepared"},
           StartFails(g), skCut \subseteq skCut',
           UNCHANGED <<skRoots, skEnv, skManifest, skProc, skBound>>,
           skLinks' \in [SkPlaces -> SUBSET SkSkills], skExclude' \subseteq SkLines,
           \A p \in SkPlaces \ {Where(g)} : skLinks'[p] = skLinks[p],
           \/ Where(g) \in skCut'
           \/ skRun[g].at \notin {"link", "manifest"} /\ skLinks'[Where(g)] \subseteq skLinks[Where(g)],
           ExcludeFile \in skCut' \/ (skRun[g].at # "fill" /\ UNCHANGED skExclude)
    PROVE  SkInv'
  <1>1. PICK new \in SkRecords :
          /\ skRun' = [skRun EXCEPT ![g] = new]
          /\ new.on = FALSE /\ new.at \in {"record", "ended"}
          /\ new.at = "record" => g \in SkCrons /\ (new.out = "notfound" => ~new.worked)
    BY SkFailed, SkRunOver, Zenon DEF StartFails
  <1>2. /\ skRun'[g] = new /\ skRun' \in [SkStarts -> SkRecords] /\ skProc[g].env = NoStart
        /\ skMu = g
    BY <1>1, SkOthers DEF SkInv, SkTurns, SkPreparing
  <1>3. \A h \in SkStarts \ {g} : skRun'[h] = skRun[h] /\ Where(h)' = Where(h) /\ Skills(h)' = Skills(h)
    BY <1>1, SkOthers DEF Skills
  <1>4. \A h \in SkStarts \ {g} : skRun[h].at \notin SkPreparing \cup {"prepared", "start"}
    BY <1>2 DEF SkInv, SkTurns
  <1>5. SkTypeOK'
    BY <1>2 DEF SkInv, SkTypeOK
  <1>6. SkTurns'
    BY <1>1, <1>2, <1>3, <1>4 DEF SkInv, SkTurns, SkPreparing
  <1>7. SkPlaced'
    <2>1. \A h \in SkStarts : skRun[h].at \in {"link", "manifest"} => h = g
      BY <1>4 DEF SkPreparing
    <2>2. ASSUME NEW p \in SkPlaces \ skCut'
          PROVE  skLinks'[p] \subseteq skManifest[p].names
      <3>1. p \in SkPlaces \ skCut
        BY <2>2
      <3>2. CASE p = Where(g)
        BY <2>1, <2>2, <3>1, <3>2 DEF SkInv, SkPlaced
      <3>3. CASE p # Where(g)
        BY <2>1, <2>2, <3>1, <3>3 DEF SkInv, SkPlaced
      <3> QED
        BY <3>2, <3>3
    <2> QED
      BY <2>2 DEF SkInv, SkPlaced
  <1>8. SkPrepared'
    BY <1>1, <1>2, <1>3, <1>4 DEF SkInv, SkPrepared, SkPreparing
  <1>9. SkExcluded'
    BY <1>1, <1>2, <1>3, <1>4 DEF SkInv, SkExcluded, SkStarts, SkPreparing
  <1>10. SkRecorded'
    BY <1>1, <1>2, <1>3 DEF SkInv, SkRecorded
  <1> QED
    BY <1>5, <1>6, <1>7, <1>8, <1>9, <1>10 DEF SkInv

\* The skills of a workspace are written step by step.
LEMMA SkWritingKeeps ==
    ASSUME SkInv, NEW g \in SkStarts,
           SkReconcile(g) \/ SkLink(g) \/ SkManifestOpen(g) \/ SkManifestWrite(g)
    PROVE  SkInv'
  <1> DEFINE W == Where(g)
             run == skRun[g]
  <1>0. /\ SkTypeOK /\ W \in SkPlaces /\ run \in SkRecords /\ Skills(g) = run.has
        /\ skLinks[W] \in SUBSET SkSkills /\ skManifest[W] \in SkManifests
        /\ run.has \in SUBSET SkSkills /\ run.todo \in SUBSET SkSkills
        /\ skManifest[W].names \in SUBSET SkSkills
    BY SkPlaceIn DEF SkInv, SkTypeOK, Where, Skills, SkRecords, SkManifests
  <1>6. /\ skLinks \in [SkPlaces -> SUBSET SkSkills] /\ skManifest \in [SkPlaces -> SkManifests]
        /\ skExclude \subseteq SkLines
        /\ skManifest[W].is # "whole" => skManifest[W].names = {}
    BY <1>0 DEF SkTypeOK, SkInv, SkPlaced
  <1>1. ASSUME UNCHANGED skExclude, UNCHANGED skCut, NEW new \in SkRecords,
               skRun' = [skRun EXCEPT ![g] = new], run.at # "fill",
               new.at \in {"link", "manifest", "exclude", "prepared"}, new.at = "prepared" => g \notin SkJobs
        PROVE  SkExcluded'
    BY <1>1, SkOthers DEF SkInv, SkExcluded, SkStarts
  <1>2. CASE SkReconcile(g)
    <2>1. CASE /\ skLinks' = [skLinks EXCEPT ![W] = @ \ Stale(g)]
               /\ skRun' = [skRun EXCEPT ![g].at = "link", ![g].todo = Skills(g)]
               /\ UNCHANGED skMu
      <3> DEFINE new == [run EXCEPT !.at = "link", !.todo = Skills(g)]
      <3>1. /\ new \in SkRecords /\ new.at = "link" /\ new.has = run.has /\ new.todo = run.has
        BY <1>0 DEF SkRecords, SkLabels, SkPreparing
      <3>2. skRun' = [skRun EXCEPT ![g] = new] /\ run.at = "reconcile"
        BY <1>0, <1>2, <2>1 DEF SkReconcile, SkAt, SkTypeOK, SkRecords
      <3>6. UNCHANGED <<skRoots, skMu, skEnv, skManifest, skExclude, skProc, skBound, skCut>>
        BY <1>2, <2>1 DEF SkReconcile
      <3> HIDE DEF new
      <3>3. /\ skLinks' \in [SkPlaces -> SUBSET SkSkills] /\ skLinks'[W] = skLinks[W] \ Stale(g)
            /\ \A p \in SkPlaces \ {W} : skLinks'[p] = skLinks[p]
        BY <1>0, <1>2, <2>1 DEF SkReconcile, SkTypeOK
      <3>4. W \notin skCut => skLinks'[W] \subseteq run.has
        <4>1. skMu = g /\ \A h \in SkStarts : skRun[h].at \in {"link", "manifest"} => skMu = h
          BY <3>2 DEF SkInv, SkTurns, SkPreparing
        <4>2. W \notin skCut => skLinks[W] \subseteq skManifest[W].names
          BY <1>0, <3>2, <4>1 DEF SkInv, SkPlaced
        <4>3. skManifest[W].is # "whole" => skManifest[W].names = {}
          BY <1>0 DEF SkInv, SkPlaced
        <4> QED
          BY <1>0, <3>3, <4>2, <4>3 DEF Stale
      <3>5. SkExcluded'
        BY <1>1, <1>2, <2>1, <3>1, <3>2 DEF SkReconcile
      <3> QED
        BY <1>0, <1>6, <3>6, <3>1, <3>2, <3>3, <3>4, <3>5, SkWriteKeeps DEF SkPreparing
    <2>2. ASSUME NEW gone \in SUBSET Stale(g), skLinks' = [skLinks EXCEPT ![W] = @ \ gone], StartFails(g)
          PROVE  SkInv'
      <3>1. /\ skLinks' \in [SkPlaces -> SUBSET SkSkills] /\ skLinks'[W] \subseteq skLinks[W]
            /\ \A p \in SkPlaces \ {W} : skLinks'[p] = skLinks[p]
        BY <1>0, <2>2 DEF SkTypeOK
      <3>2. run.at = "reconcile" /\ UNCHANGED <<skRoots, skEnv, skManifest, skExclude, skProc, skBound, skCut>>
        BY <1>2 DEF SkReconcile, SkAt
      <3>3. run.at \in SkPreparing /\ run.at \notin {"link", "manifest", "fill"}
        BY <3>2 DEF SkPreparing
      <3> HIDE DEF W, run
      <3> QED
        BY <1>6, <2>2, <3>1, <3>2, <3>3, SkCutKeeps DEF W, run
    <2> QED
      BY <1>2, <2>1, <2>2 DEF SkReconcile
  <1>3. CASE SkLink(g)
    <2>0. run.at = "link" /\ UNCHANGED <<skRoots, skEnv, skManifest, skExclude, skProc, skBound>>
      BY <1>3 DEF SkLink, SkAt
    <2>1. ASSUME NEW n \in run.todo, skLinks' = [skLinks EXCEPT ![W] = @ \cup {n}],
                 skRun' = [skRun EXCEPT ![g].todo = @ \ {n}], UNCHANGED <<skMu, skCut>>
          PROVE  SkInv'
      <3> DEFINE new == [run EXCEPT !.todo = @ \ {n}]
      <3>1. new \in SkRecords /\ new.at = "link" /\ new.has = run.has /\ new.todo = run.todo \ {n}
        BY <1>0, <2>0 DEF SkRecords
      <3>2. skRun' = [skRun EXCEPT ![g] = new]
        BY <1>0, <2>1 DEF SkTypeOK
      <3> HIDE DEF new
      <3>3. SkExcluded'
        BY <1>1, <2>0, <2>1, <3>1, <3>2
      <3>4. /\ skLinks' \in [SkPlaces -> SUBSET SkSkills] /\ skLinks'[W] = skLinks[W] \cup {n}
            /\ \A p \in SkPlaces \ {W} : skLinks'[p] = skLinks[p]
        BY <1>0, <2>1 DEF SkTypeOK
      <3>5. W \notin skCut =>
              skLinks'[W] \subseteq new.has \cup {n} /\ new.has \ new.todo \subseteq skLinks'[W]
        BY <1>0, <2>0, <3>1, <3>4 DEF SkInv, SkPrepared
      <3>6. W \notin skCut => n \in run.has /\ run.todo \subseteq run.has
        BY <1>0, <2>0, <2>1 DEF SkInv, SkPrepared
      <3>7. W \notin skCut =>
              /\ skLinks'[W] \subseteq new.has /\ new.todo \subseteq new.has
              /\ new.has \ new.todo \subseteq skLinks'[W]
        BY <3>1, <3>5, <3>6
      <3>8. UNCHANGED <<skRoots, skMu, skEnv, skManifest, skExclude, skProc, skBound, skCut>>
        BY <2>0, <2>1
      <3>9. run.at \in SkPreparing /\ new.at \in SkPreparing
        BY <2>0, <3>1 DEF SkPreparing
      <3> HIDE DEF W, run
      <3> QED
        BY <1>0, <1>6, <3>1, <3>2, <3>3, <3>4, <3>7, <3>8, <3>9, SkWriteKeeps DEF W, run
    <2>2. ASSUME NEW n \in run.todo, NEW left \in {{}, {n}},
                 skLinks' = [skLinks EXCEPT ![W] = (@ \ {n}) \cup left],
                 StartFails(g), skCut' = skCut \cup {W}
          PROVE  SkInv'
      <3>1. /\ skLinks' \in [SkPlaces -> SUBSET SkSkills]
            /\ \A p \in SkPlaces \ {W} : skLinks'[p] = skLinks[p]
        BY <1>0, <2>2 DEF SkTypeOK
      <3>2. run.at \in SkPreparing /\ run.at # "fill" /\ W \in skCut' /\ skCut \subseteq skCut'
        BY <2>0, <2>2 DEF SkPreparing
      <3> HIDE DEF W, run
      <3> QED
        BY <1>6, <2>0, <2>2, <3>1, <3>2, SkCutKeeps DEF W, run
    <2> QED
      BY <1>3, <2>1, <2>2 DEF SkLink
  <1>4. CASE SkManifestOpen(g)
    <2> DEFINE new == [run EXCEPT !.at = "manifest"]
    <2>1. new \in SkRecords /\ new.at = "manifest" /\ new.has = run.has
      BY <1>0 DEF SkRecords, SkLabels, SkPreparing
    <2>2. skRun' = [skRun EXCEPT ![g] = new] /\ run.at = "link" /\ run.todo = {}
      BY <1>0, <1>4 DEF SkManifestOpen, SkGoes, SkAt, SkTypeOK
    <2> HIDE DEF new
    <2>3. SkExcluded'
      BY <1>1, <1>4, <2>1, <2>2 DEF SkManifestOpen
    <2>4. /\ skManifest' \in [SkPlaces -> SkManifests]
          /\ skManifest'[W] = [is |-> "torn", names |-> {}]
          /\ \A p \in SkPlaces \ {W} : skManifest'[p] = skManifest[p]
      BY <1>0, <1>4 DEF SkManifestOpen, SkTypeOK, SkManifests
    <2>5. W \notin skCut => skLinks[W] = run.has
      BY <1>0, <2>2 DEF SkInv, SkPrepared
    <2> QED
      BY <1>0, <1>4, <2>1, <2>2, <2>3, <2>4, <2>5, SkWriteKeeps
         DEF SkManifestOpen, SkPreparing, SkTypeOK
  <1>5. CASE SkManifestWrite(g)
    <2>0. run.at = "manifest" /\ UNCHANGED <<skRoots, skEnv, skLinks, skExclude, skProc, skBound>>
      BY <1>5 DEF SkManifestWrite, SkAt
    <2>1. ASSUME skManifest' = [skManifest EXCEPT ![W] = [is |-> "whole", names |-> Skills(g)]],
                 SkGoes(g, IF g \in SkJobs THEN "exclude" ELSE "prepared"), UNCHANGED <<skMu, skCut>>
          PROVE  SkInv'
      <3> DEFINE label == IF g \in SkJobs THEN "exclude" ELSE "prepared"
                 new == [run EXCEPT !.at = label]
      <3>1. /\ new \in SkRecords /\ new.has = run.has
            /\ new.at = label
        BY <1>0 DEF SkRecords, SkLabels, SkPreparing
      <3>2. skRun' = [skRun EXCEPT ![g] = new]
        BY <1>0, <2>1 DEF SkGoes, SkTypeOK
      <3> HIDE DEF new
      <3>3. SkExcluded'
        BY <1>1, <2>0, <2>1, <3>1, <3>2
      <3>4. /\ skManifest' \in [SkPlaces -> SkManifests]
            /\ skManifest'[W] = [is |-> "whole", names |-> run.has]
            /\ \A p \in SkPlaces \ {W} : skManifest'[p] = skManifest[p]
        BY <1>0, <2>1 DEF SkTypeOK, SkManifests
      <3>5. W \notin skCut => skLinks[W] = run.has
        BY <1>0, <2>0 DEF SkInv, SkPrepared
      <3> QED
        BY <1>0, <2>0, <2>1, <3>1, <3>2, <3>3, <3>4, <3>5, SkWriteKeeps
           DEF SkPreparing, SkTypeOK
    <2>2. ASSUME StartFails(g), skCut' = skCut \cup {W}, UNCHANGED skManifest
          PROVE  SkInv'
      <3>1. run.at \in SkPreparing /\ run.at # "fill" /\ W \in skCut' /\ skCut \subseteq skCut'
        BY <2>0, <2>2 DEF SkPreparing
      <3> HIDE DEF W, run
      <3> QED
        BY <1>6, <2>0, <2>2, <3>1, SkCutKeeps DEF W, run
    <2> QED
      BY <1>5, <2>1, <2>2 DEF SkManifestWrite
  <1> QED
    BY <1>2, <1>3, <1>4, <1>5

\* The exclude file of the repository is read, emptied and filled.
LEMMA SkExcludeKeeps ==
    ASSUME SkInv, NEW g \in SkStarts, SkExcludeOpen(g) \/ SkExcludeFill(g), UNCHANGED skMu
    PROVE  SkInv'
  <1> DEFINE W == Where(g)
             run == skRun[g]
  <1>0. /\ SkTypeOK /\ W \in SkPlaces /\ run \in SkRecords /\ Skills(g) = run.has
        /\ skExclude \subseteq SkLines /\ run.read \subseteq SkLines
        /\ skLinks \in [SkPlaces -> SUBSET SkSkills] /\ skManifest \in [SkPlaces -> SkManifests]
        /\ skManifest[W].is # "whole" => skManifest[W].names = {}
    BY SkPlaceIn DEF SkInv, SkTypeOK, Where, Skills, SkRecords, SkPlaced
  <1>1. run.at \in {"exclude", "fill"}
        /\ UNCHANGED <<skRoots, skMu, skEnv, skLinks, skManifest, skProc, skBound>>
        /\ run.at \in SkPreparing /\ skMu = g /\ g # NoStart
    <2>1. run.at \in {"exclude", "fill"}
          /\ UNCHANGED <<skRoots, skMu, skEnv, skLinks, skManifest, skProc, skBound>>
      BY DEF SkExcludeOpen, SkExcludeFill, SkAt
    <2> QED
      BY <2>1, SessionStartAssumption DEF SkInv, SkTurns, SkPreparing
  <1>2. PICK new \in SkRecords :
          /\ skRun' = [skRun EXCEPT ![g] = new] /\ new.has = run.has /\ new.on = run.on
          /\ skCut \subseteq skCut'
          /\ \/ /\ run.at = "exclude" /\ new.at = "prepared" /\ (SkillLine \in skExclude \/ Unasked \in skCut')
                /\ UNCHANGED skExclude
             \/ /\ run.at = "exclude" /\ new.at = "fill" /\ new.read = skExclude
                /\ SkillLine \notin skExclude /\ skExclude' = {}
             \/ /\ run.at = "fill" /\ new.at = "prepared"
                /\ skExclude' = run.read \cup {SkillLine}
    <2> DEFINE ready == [run EXCEPT !.at = "prepared"]
               filling == [run EXCEPT !.at = "fill", !.read = skExclude]
    <2>1. /\ ready \in SkRecords /\ ready.at = "prepared" /\ ready.has = run.has /\ ready.on = run.on
          /\ filling \in SkRecords /\ filling.at = "fill" /\ filling.has = run.has
          /\ filling.on = run.on /\ filling.read = skExclude
      BY <1>0 DEF SkRecords, SkLabels, SkPreparing
    <2>2. ~StartFails(g)
      BY <1>1 DEF StartFails
    <2>3. CASE SkExcludeFill(g)
      <3>1. run.at = "fill" /\ SkGoes(g, "prepared") /\ skExclude' = run.read \cup {SkillLine} /\ UNCHANGED skCut
        BY <2>2, <2>3 DEF SkExcludeFill, SkAt, Excluded
      <3>2. skRun' = [skRun EXCEPT ![g] = ready]
        BY <1>0, <3>1 DEF SkGoes, SkTypeOK
      <3> HIDE DEF ready, filling
      <3> QED
        BY <2>1, <3>1, <3>2
    <2>4. CASE SkExcludeOpen(g)
      <3>1. run.at = "exclude"
        BY <2>4 DEF SkExcludeOpen, SkAt
      <3>2. CASE /\ SkGoes(g, "prepared") /\ UNCHANGED skExclude
                 /\ (SkillLine \in skExclude \/ Unasked \in skCut') /\ skCut \subseteq skCut'
        <4>1. skRun' = [skRun EXCEPT ![g] = ready]
          BY <1>0, <3>2 DEF SkGoes, SkTypeOK
        <4> HIDE DEF ready, filling
        <4> QED
          BY <2>1, <3>1, <3>2, <4>1
      <3>3. CASE /\ SkillLine \notin skExclude /\ skExclude' = {} /\ UNCHANGED skCut
                 /\ skRun' = [skRun EXCEPT ![g].read = skExclude, ![g].at = "fill"]
        <4>1. skRun' = [skRun EXCEPT ![g] = filling]
          BY <1>0, <3>3 DEF SkTypeOK, SkRecords
        <4> HIDE DEF ready, filling
        <4> QED
          BY <2>1, <3>1, <3>3, <4>1
      <3> QED
        BY <2>4, <3>2, <3>3 DEF SkExcludeOpen
    <2> QED
      BY <2>3, <2>4
  <1>3. \A h \in SkStarts \ {g} : skRun[h].at \notin SkPreparing /\ skRun'[h] = skRun[h]
    BY <1>1, <1>2, SkOthers DEF SkInv, SkTurns, SkPreparing
  <1>4. skRun'[g] = new
    BY <1>2, SkOthers
  <1>5. SkExcluded'
    <2> SUFFICES ASSUME ExcludeFile \notin skCut
                 PROVE  /\ UserLine \in skExclude' \/ \E h \in SkStarts : skRun'[h].at = "fill"
                        /\ \A h \in SkStarts : skRun'[h].at = "fill" => UserLine \in skRun'[h].read
                        /\ Unasked \notin skCut' =>
                             \A h \in SkJobs :
                               skRun'[h].on /\ skRun'[h].at \in {"prepared", "start", "send", "turn", "ended"} =>
                                   SkillLine \in skExclude'
      BY <1>2 DEF SkExcluded
    <2>1. \A h \in SkStarts : skRun[h].at = "fill" => h = g
      BY <1>3 DEF SkPreparing
    <2>2. run.at = "fill" => UserLine \in run.read
      BY DEF SkInv, SkExcluded
    <2>3. run.at = "exclude" => UserLine \in skExclude
      BY <2>1 DEF SkInv, SkExcluded
    <2>4. \A h \in SkStarts \ {g} : skRun'[h].at # "fill"
      BY <1>3 DEF SkPreparing
    <2>5. \A h \in SkJobs : h \in SkStarts
      BY DEF SkStarts
    <2>6. ASSUME Unasked \notin skCut', NEW h \in SkJobs, skRun'[h].on,
                 skRun'[h].at \in {"prepared", "start", "send", "turn", "ended"}
          PROVE  SkillLine \in skExclude'
      <3>1. CASE h = g
        BY <1>2, <1>4, <2>6, <3>1
      <3>2. CASE h # g
        BY <1>2, <1>3, <2>5, <2>6, <3>2 DEF SkInv, SkExcluded
      <3> QED
        BY <3>1, <3>2
    <2> QED
      BY <1>2, <1>4, <2>2, <2>3, <2>4, <2>6
  <1>6. Where(g) \notin skCut =>
          /\ skLinks'[Where(g)] \subseteq skManifest'[Where(g)].names
          /\ new.on => skLinks'[Where(g)] = new.has
    <2>1. skMu = g /\ \A h \in SkStarts : skRun[h].at \in {"link", "manifest"} => skMu = h
      BY <1>1 DEF SkInv, SkTurns, SkPreparing
    <2> QED
      BY <1>0, <1>1, <1>2, <2>1 DEF SkInv, SkPlaced, SkPrepared
  <1>7. run.at \in SkPreparing /\ new.at \in SkPreparing \cup {"prepared"}
        /\ new.at \notin {"link", "manifest"} /\ skExclude' \subseteq SkLines
    BY <1>0, <1>1, <1>2 DEF SkPreparing, SkLines
  <1> HIDE DEF W, run
  <1> QED
    BY <1>0, <1>1, <1>2, <1>5, <1>6, <1>7, SkWriteKeeps DEF W, run

\* A preparation fails before it writes, or while it writes the exclude file.
LEMMA SkFailureKeeps ==
    ASSUME SkInv, NEW g \in SkStarts,
           SkUnprepared(g) \/ (SkExcludeFill(g) /\ skMu' # skMu)
    PROVE  SkInv'
  <1> DEFINE W == Where(g)
             at == skRun[g].at
  <1>0. /\ W \in SkPlaces /\ skExclude \subseteq SkLines /\ skRun[g].read \subseteq SkLines
        /\ skLinks \in [SkPlaces -> SUBSET SkSkills]
    BY SkPlaceIn DEF SkInv, SkTypeOK, Where, Skills, SkRecords
  <1>1. CASE SkUnprepared(g)
    <2>1. /\ at \in SkPreparing \cup {"prepared"} /\ at \notin {"manifest", "fill"}
          /\ StartFails(g) /\ skCut \subseteq skCut' /\ (at = "link" => W \in skCut')
          /\ UNCHANGED <<skRoots, skEnv, skLinks, skManifest, skExclude, skProc, skBound>>
      BY <1>1 DEF SkUnprepared, SkAt, SkPreparing, skDisk
    <2> HIDE DEF W, at
    <2> QED
      BY <1>0, <2>1, SkCutKeeps DEF W, at
  <1>2. CASE SkExcludeFill(g) /\ skMu' # skMu
    <2>1. /\ at = "fill" /\ StartFails(g) /\ skCut' = skCut \cup {ExcludeFile}
          /\ skExclude' \in SUBSET (skRun[g].read \cup {SkillLine})
          /\ UNCHANGED <<skRoots, skEnv, skLinks, skManifest, skProc, skBound>>
      BY <1>2 DEF SkExcludeFill, SkAt, Excluded
    <2>2. /\ at \in SkPreparing /\ at \notin {"link", "manifest"} /\ skExclude' \subseteq SkLines
          /\ ExcludeFile \in skCut' /\ skCut \subseteq skCut'
      BY <1>0, <2>1 DEF SkPreparing, SkLines
    <2> HIDE DEF W, at
    <2> QED
      BY <1>0, <2>1, <2>2, SkCutKeeps DEF W, at
  <1> QED
    BY <1>1, <1>2

\* What a start does without touching the disk.
LEMMA SkQuietSteps ==
    ASSUME SkInv, NEW g \in SkStarts,
           SkAsk(g) \/ SkNoTree(g) \/ SkLock(g) \/ SkSetEnv(g) \/ SkWork(g) \/ SkRecord(g)
    PROVE  SkInv'
  <1> DEFINE run == skRun[g]
  <1>0. /\ SkTypeOK /\ run \in SkRecords /\ skBound \in SkIds \cup {NoSkillId}
        /\ skRoots \in [on : BOOLEAN, has : SUBSET SkSkills]
        /\ run.at \in {"new", "asked", "prepared", "record"} => skProc[g].env = NoStart
        /\ UNCHANGED <<skDisk, skRoots, skProc, skCut>>
    BY DEF SkInv, SkTypeOK, SkTurns, SkAsk, SkNoTree, SkLock, SkSetEnv, SkWork, SkRecord
  <1>1. CASE SkAsk(g)
    <2>1. PICK inherited \in SkIds \cup {NoSkillId} :
            skRun' = [skRun EXCEPT ![g] = [run EXCEPT !.at = "asked", !.id = ResumeId(g, inherited)]]
      BY <1>0, <1>1 DEF SkAsk, SkTypeOK, SkRecords
    <2> DEFINE new == [run EXCEPT !.at = "asked", !.id = ResumeId(g, inherited)]
    <2>2. new \in SkRecords /\ new.at = "asked"
      BY <1>0 DEF SkRecords, SkLabels, ResumeId
    <2>3. run.at = "new" /\ UNCHANGED <<skMu, skEnv, skBound>> /\ skRun' = [skRun EXCEPT ![g] = new]
      BY <1>1, <2>1 DEF SkAsk, SkAt
    <2> HIDE DEF new
    <2> QED
      BY <1>0, <2>2, <2>3, SkQuietKeeps DEF SkPreparing
  <1>2. CASE SkNoTree(g)
    <2>1. skRun' = [skRun EXCEPT ![g] = Over("error")] /\ run.at = "asked"
          /\ UNCHANGED <<skMu, skEnv, skBound>>
      BY <1>2 DEF SkNoTree, SkAt
    <2>2. Over("error") \in SkRecords /\ Over("error").at = "ended" /\ Over("error").on = FALSE
      BY SkConstants DEF SkOuts
    <2> QED
      BY <1>0, <2>1, <2>2, SkQuietKeeps DEF SkPreparing
  <1>3. CASE SkLock(g)
    <2> DEFINE has == IF skRoots.on THEN skRoots.has ELSE {}
               label == IF skRoots.on THEN "reconcile" ELSE "prepared"
               new == [run EXCEPT !.has = has, !.on = skRoots.on, !.at = label]
    <2>1. has \in SUBSET SkSkills /\ skRoots.on \in BOOLEAN /\ label \in SkLabels
      BY <1>0 DEF SkLabels, SkPreparing
    <2>2. /\ new \in SkRecords /\ new.on = skRoots.on /\ new.at = label
      BY <1>0, <2>1 DEF SkRecords
    <2>3. skRun' = [skRun EXCEPT ![g] = new]
      BY <1>0, <1>3 DEF SkLock, SkTypeOK, SkRecords
    <2>4. run.at = "asked" /\ skMu' = g /\ skMu = NoStart /\ UNCHANGED <<skEnv, skBound>>
      BY <1>3 DEF SkLock, SkAt, LockFree
    <2>5. new.at \in {"reconcile", "prepared"} /\ (new.at = "prepared" => ~new.on)
      BY <2>2
    <2> HIDE DEF new
    <2> QED
      BY <1>0, <2>3, <2>2, <2>4, <2>5, SkQuietKeeps DEF SkPreparing
  <1>4. CASE SkSetEnv(g)
    <2> DEFINE new == [run EXCEPT !.at = "start"]
    <2>1. new \in SkRecords /\ new.at = "start" /\ new.on = run.on /\ new.has = run.has
      BY <1>0 DEF SkRecords, SkLabels
    <2>2. skRun' = [skRun EXCEPT ![g] = new] /\ run.at = "prepared" /\ skEnv' = g
          /\ UNCHANGED <<skMu, skBound>>
      BY <1>0, <1>4 DEF SkSetEnv, SkGoes, SkAt, SkTypeOK
    <2>3. skMu = g
      BY <2>2 DEF SkInv, SkTurns
    <2> HIDE DEF new
    <2> QED
      BY <1>0, <2>1, <2>2, <2>3, SkQuietKeeps DEF SkPreparing
  <1>5. CASE SkWork(g)
    <2> DEFINE new == [run EXCEPT !.worked = TRUE]
    <2>1. new \in SkRecords /\ new.at = "turn" /\ new.on = run.on /\ new.has = run.has
      BY <1>0, <1>5 DEF SkRecords, SkWork, SkAt
    <2>2. skRun' = [skRun EXCEPT ![g] = new] /\ run.at = "turn" /\ UNCHANGED <<skMu, skEnv, skBound>>
      BY <1>0, <1>5 DEF SkWork, SkAt, SkTypeOK
    <2> HIDE DEF new
    <2> QED
      BY <1>0, <2>1, <2>2, SkQuietKeeps DEF SkPreparing
  <1>6. CASE SkRecord(g)
    <2> DEFINE over == Over(run.out)
    <2>1. over \in SkRecords /\ over.at = "ended" /\ over.on = FALSE
      BY <1>0, SkConstants DEF SkRecords
    <2>2. skRun' = [skRun EXCEPT ![g] = over] /\ run.at = "record" /\ UNCHANGED <<skMu, skEnv>>
      BY <1>6 DEF SkRecord, SkAt
    <2>3. skBound' \in SkIds \cup {NoSkillId}
      BY <1>0, <1>6 DEF SkRecord, SkRecords
    <2> HIDE DEF over
    <2> QED
      BY <1>0, <2>1, <2>2, <2>3, SkQuietKeeps DEF SkPreparing
  <1> QED
    BY <1>1, <1>2, <1>3, <1>4, <1>5, <1>6

\* The prompt is sent, and the turn ends.
LEMMA SkTurnKeeps ==
    ASSUME SkInv, NEW g \in SkStarts, SkSend(g) \/ SkTurnEnds(g)
    PROVE  SkInv'
  <1> DEFINE run == skRun[g]
  <1>0. /\ SkTypeOK /\ run \in SkRecords /\ skBound' \in SkIds \cup {NoSkillId}
        /\ skRoots' \in [on : BOOLEAN, has : SUBSET SkSkills]
        /\ run.at \in {"send", "turn"}
        /\ UNCHANGED <<skDisk, skMu, skEnv, skCut>>
    BY DEF SkInv, SkTypeOK, SkSend, SkTurnEnds, SkAt
  <1>1. ASSUME Closes(g), NEW out \in SkOuts, NEW id \in SkIds \cup {NoSkillId}, RunOver(g, out, id),
               out = "notfound" => ~run.worked
        PROVE  SkInv'
    <2>1. PICK new \in SkRecords :
            /\ skRun' = [skRun EXCEPT ![g] = new]
            /\ new.on = FALSE /\ new.at \in {"record", "ended"}
            /\ new.at = "record" => g \in SkCrons /\ (new.out = "notfound" => ~new.worked)
      BY <1>1, SkRunOver
    <2>2. skProc' = [skProc EXCEPT ![g] = NoProcess] /\ skProc'[g].env = NoStart
      BY <1>0, <1>1, SkConstants DEF Closes, SkTypeOK
    <2> QED
      BY <1>0, <2>1, <2>2, SkQuietKeeps DEF SkPreparing
  <1>2. ASSUME SkGoes(g, "turn"), UNCHANGED skProc, run.at = "send"
        PROVE  SkInv'
    <2> DEFINE new == [run EXCEPT !.at = "turn"]
    <2>1. new \in SkRecords /\ new.at = "turn" /\ new.on = run.on /\ new.has = run.has
      BY <1>0 DEF SkRecords, SkLabels
    <2>2. skRun' = [skRun EXCEPT ![g] = new]
      BY <1>0, <1>2 DEF SkGoes, SkTypeOK
    <2> HIDE DEF new
    <2> QED
      BY <1>0, <1>2, <2>1, <2>2, SkQuietKeeps DEF SkPreparing
  <1>3. CASE SkSend(g)
    <2>1. \/ SkGoes(g, "turn") /\ UNCHANGED skProc /\ run.at = "send"
          \/ Closes(g) /\ \E typed \in BOOLEAN : RunOver(g, Failed(g, typed), NoSkillId)
          \/ Closes(g) /\ RunOver(g, "cancelled", NoSkillId)
      BY <1>3 DEF SkSend, SkAt
    <2> QED
      BY <1>1, <1>2, <2>1, SkFailed DEF SkOuts
  <1>4. CASE SkTurnEnds(g)
    <2>1. PICK id \in SkIds \cup {NoSkillId} :
            \/ \E out \in {"ok", Exited(g)} : RunOver(g, out, id)
            \/ RunOver(g, "cancelled", id)
            \/ RunOver(g, "refused", id)
            \/ \E typed \in BOOLEAN : RunOver(g, Failed(g, typed), id)
      BY <1>4 DEF SkTurnEnds
    <2>2. Closes(g)
      BY <1>4 DEF SkTurnEnds
    <2>3. {"ok", Exited(g), "cancelled", "refused"} \subseteq SkOuts \ {"notfound"}
      BY DEF Exited, SkOuts
    <2> QED
      BY <1>1, <2>1, <2>2, <2>3, SkFailed
  <1> QED
    BY <1>3, <1>4

\* The process starts in the environment of its start, or the start fails.
LEMMA SkStartKeeps ==
    ASSUME SkInv, NEW g \in SkStarts, SkStart(g)
    PROVE  SkInv'
  <1> DEFINE run == skRun[g]
             W == Where(g)
             process == [env |-> skEnv, skills |-> skLinks[W]]
  <1>0. /\ SkTypeOK /\ run \in SkRecords /\ run.at = "start" /\ skMu = g /\ skEnv = g
        /\ skProc[g].env = NoStart /\ skMu' = NoStart
        /\ UNCHANGED <<skRoots, skEnv, skDisk, skBound, skCut>>
        /\ W \in SkPlaces /\ Skills(g) = run.has /\ skLinks[W] \in SUBSET SkSkills
    <2>1. run.at = "start" /\ skMu' = NoStart /\ UNCHANGED <<skRoots, skEnv, skDisk, skBound, skCut>>
      BY DEF SkStart, SkAt, StartFails
    <2>2. SkTypeOK /\ run \in SkRecords /\ W \in SkPlaces /\ Skills(g) = run.has /\ skLinks[W] \in SUBSET SkSkills
      BY SkPlaceIn DEF SkInv, SkTypeOK, Where, Skills, SkRecords
    <2>3. skMu = g /\ skEnv = g /\ skProc[g].env = NoStart
      BY <2>1 DEF SkInv, SkTurns
    <2> QED
      BY <2>1, <2>2, <2>3
  <1>1. CASE StartFails(g) /\ UNCHANGED skProc
    <2>1. PICK new \in SkRecords :
            /\ skRun' = [skRun EXCEPT ![g] = new]
            /\ new.on = FALSE /\ new.at \in {"record", "ended"}
            /\ new.at = "record" => g \in SkCrons /\ (new.out = "notfound" => ~new.worked)
      BY <1>1, SkFailed, SkRunOver, Zenon DEF StartFails
    <2>2. skBound \in SkIds \cup {NoSkillId} /\ skRoots \in [on : BOOLEAN, has : SUBSET SkSkills]
      BY <1>0 DEF SkTypeOK
    <2> QED
      BY <1>0, <1>1, <2>1, <2>2, SkQuietKeeps DEF SkPreparing
  <1>2. CASE /\ skProc' = [skProc EXCEPT ![g] = process]
             /\ SkGoes(g, IF g \in SkChats THEN "ended" ELSE "send")
    <2> DEFINE label == IF g \in SkChats THEN "ended" ELSE "send"
               new == [run EXCEPT !.at = label]
    <2>1. /\ new \in SkRecords /\ new.has = run.has /\ new.on = run.on
          /\ new.at \in {"ended", "send"}
      BY <1>0 DEF SkRecords, SkLabels
    <2>2. skRun' = [skRun EXCEPT ![g] = new]
      BY <1>0, <1>2 DEF SkGoes, SkTypeOK
    <2> HIDE DEF new
    <2>3. /\ skRun' \in [SkStarts -> SkRecords] /\ skRun'[g] = new
          /\ W' = W /\ Skills(g)' = run.has
          /\ \A h \in SkStarts \ {g} :
               skRun'[h] = skRun[h] /\ Where(h)' = Where(h) /\ Skills(h)' = Skills(h)
      BY <2>1, <2>2, SkOthers DEF Where, Skills
    <2>4. process \in SkProcesses /\ process.env = g /\ process.skills = skLinks[W]
      BY <1>0 DEF SkProcesses
    <2> HIDE DEF process
    <2>5. /\ skProc' \in [SkStarts -> SkProcesses] /\ skProc'[g] = process
          /\ \A h \in SkStarts \ {g} : skProc'[h] = skProc[h]
      BY <1>0, <1>2, <2>4 DEF SkTypeOK
    <2>6. \A h \in SkStarts \ {g} : skRun[h].at \notin SkPreparing \cup {"prepared", "start"}
      BY <1>0 DEF SkInv, SkTurns
    <2>7. SkTypeOK'
      BY <1>0, <2>3, <2>5 DEF SkTypeOK, skDisk
    <2>8. SkTurns'
      BY <1>0, <2>1, <2>3, <2>4, <2>5, <2>6 DEF SkInv, SkTurns, SkPreparing
    <2>9. SkPlaced'
      BY <1>0, <2>3, <2>6 DEF SkInv, SkPlaced, SkPreparing, skDisk
    <2>10. SkPrepared'
      <3>1. W \notin skCut /\ run.on => skLinks[W] = run.has
        BY <1>0 DEF SkInv, SkPrepared
      <3>2. ASSUME NEW h \in SkStarts \ {g}, Where(h) \notin skCut
            PROVE  skProc[h].env # NoStart /\ skRun[h].on => skProc[h].skills = Skills(h)
        BY <3>2 DEF SkInv, SkPrepared
      <3> QED
        BY <1>0, <2>1, <2>3, <2>4, <2>5, <2>6, <3>1, <3>2 DEF SkPrepared, SkPreparing, skDisk
    <2>11. SkExcluded'
      BY <1>0, <2>1, <2>3, <2>6 DEF SkInv, SkExcluded, SkStarts, SkPreparing, skDisk
    <2>12. SkRecorded'
      BY <2>1, <2>3 DEF SkInv, SkRecorded
    <2> QED
      BY <2>7, <2>8, <2>9, <2>10, <2>11, <2>12 DEF SkInv
  <1> QED
    BY <1>1, <1>2 DEF SkStart

\* After a crash nothing runs, and what was being written may be cut short.
LEMMA SkCrashKeeps ==
    ASSUME SkInv, SkCrash
    PROVE  SkInv'
  <1>0. /\ SkTypeOK /\ UNCHANGED <<skRoots, skDisk, skBound>>
        /\ skProc' = [g \in SkStarts |-> NoProcess]
        /\ skRun' = [g \in SkStarts |-> IF SkAt(g, "new") THEN NewRun ELSE Over(skRun[g].out)]
        /\ skCut' = skCut \cup {Where(g) : g \in {h \in SkStarts : SkAt(h, "link") \/ SkAt(h, "manifest")}}
                          \cup {ExcludeFile : g \in {h \in SkStarts : SkAt(h, "fill")}}
    BY DEF SkCrash, SkInv
  <1>1. ASSUME NEW g \in SkStarts
        PROVE  /\ skRun'[g] \in SkRecords /\ skRun'[g].at \in {"new", "ended"} /\ skRun'[g].on = FALSE
               /\ skProc'[g] \in SkProcesses /\ skProc'[g].env = NoStart
    <2>1. skRun[g].out \in SkOuts
      BY <1>0 DEF SkTypeOK, SkRecords
    <2> QED
      BY <1>0, <2>1, SkConstants
  <1>2. SkTypeOK'
    BY <1>0, <1>1 DEF SkTypeOK, skDisk
  <1>3. SkTurns' /\ SkRecorded' /\ SkPrepared'
    BY <1>1 DEF SkTurns, SkRecorded, SkPrepared, SkPreparing
  <1>4. SkPlaced'
    <2>1. ASSUME NEW p \in SkPlaces \ skCut'
          PROVE  skLinks[p] \subseteq skManifest[p].names
      BY <1>0, <2>1 DEF SkInv, SkPlaced, SkAt
    <2> QED
      BY <1>0, <2>1 DEF SkInv, SkPlaced, skDisk
  <1>5. SkExcluded'
    <2>1. ExcludeFile \notin skCut' => ExcludeFile \notin skCut /\ \A g \in SkStarts : skRun[g].at # "fill"
      BY <1>0 DEF SkAt
    <2> QED
      BY <1>0, <1>1, <2>1 DEF SkInv, SkExcluded, SkStarts, skDisk
  <1> QED
    BY <1>2, <1>3, <1>4, <1>5 DEF SkInv

\* Every step of a start keeps the invariant.
LEMMA SkStepKeeps ==
    ASSUME SkInv, NEW g \in SkStarts, SkStep(g)
    PROVE  SkInv'
  <1>1. CASE SkExcludeOpen(g) \/ SkExcludeFill(g)
    <2>1. SkExcludeOpen(g) => UNCHANGED skMu
      BY DEF SkExcludeOpen
    <2>2. CASE UNCHANGED skMu
      BY <1>1, <2>2, SkExcludeKeeps
    <2>3. CASE skMu' # skMu
      BY <1>1, <2>1, <2>3, SkFailureKeeps
    <2> QED
      BY <2>2, <2>3
  <1>2. CASE SkAsk(g) \/ SkNoTree(g) \/ SkLock(g) \/ SkSetEnv(g) \/ SkWork(g) \/ SkRecord(g)
    BY <1>2, SkQuietSteps
  <1>3. CASE SkReconcile(g) \/ SkLink(g) \/ SkManifestOpen(g) \/ SkManifestWrite(g)
    BY <1>3, SkWritingKeeps
  <1>4. CASE SkUnprepared(g)
    BY <1>4, SkFailureKeeps
  <1>5. CASE SkStart(g)
    BY <1>5, SkStartKeeps
  <1>6. CASE SkSend(g) \/ SkTurnEnds(g)
    BY <1>6, SkTurnKeeps
  <1> QED
    BY <1>1, <1>2, <1>3, <1>4, <1>5, <1>6 DEF SkStep

\* Every step keeps the invariant.
LEMMA SkNextKeeps == SkInv /\ [SkNext]_skVars => SkInv'
  <1> SUFFICES ASSUME SkInv, [SkNext]_skVars
               PROVE  SkInv'
    OBVIOUS
  <1>1. ASSUME NEW g \in SkStarts, SkStep(g)
        PROVE  SkInv'
    BY <1>1, SkStepKeeps
  <1>2. CASE SkRebind \/ SkConfigure
    <2>1. UNCHANGED <<skMu, skEnv, skRun, skDisk, skProc, skCut>>
      BY <1>2 DEF SkRebind, SkConfigure
    <2>2. skBound' \in SkIds \cup {NoSkillId} /\ skRoots' \in [on : BOOLEAN, has : SUBSET SkSkills]
      BY <1>2 DEF SkRebind, SkConfigure, SkInv, SkTypeOK
    <2> QED
      BY <2>1, <2>2 DEF SkInv, SkTypeOK, SkTurns, SkPlaced, SkPrepared, SkExcluded, SkRecorded, Where,
                        Skills, skDisk
  <1>3. CASE UNCHANGED skVars
    BY <1>3 DEF skVars, skDisk, SkInv, SkTypeOK, SkTurns, SkPlaced, SkPrepared, SkExcluded, SkRecorded,
                Where, Skills
  <1> QED
    BY <1>1, <1>2, <1>3, SkCrashKeeps DEF SkNext

\* No start of any kind is under way at first, and the workspaces are empty.
LEMMA SkInitKeeps == SkInit => SkInv
  <1> SUFFICES ASSUME SkInit
               PROVE  SkInv
    OBVIOUS
  <1>1. SkTypeOK
    BY SkConstants DEF SkInit, SkTypeOK, SkLines
  <1>2. SkTurns /\ SkPlaced /\ SkPrepared /\ SkExcluded /\ SkRecorded
    BY SkConstants DEF SkInit, SkTurns, SkPlaced, SkPrepared, SkExcluded, SkRecorded, SkPreparing, SkStarts
  <1> QED
    BY <1>1, <1>2 DEF SkInv

\* Every session starts in the environment that was prepared for it and with the skills that
\* were configured, and the exclude file keeps everyone's lines.
THEOREM StartsAsPrepared == SkSpec => []StartAsConfigured
  <1>1. SkInv => StartAsConfigured
    <2> SUFFICES ASSUME SkInv
                 PROVE  StartAsConfigured
      OBVIOUS
    <2>1. SessionGetsOwnEnv
      BY DEF SkInv, SkTurns, SessionGetsOwnEnv
    <2>2. SkillsAsConfigured
      BY DEF SkInv, SkPrepared, SkillsAsConfigured
    <2>3. ExcludeKept
      BY DEF SkInv, SkTurns, SkExcluded, ExcludeKept, SkAt, SkStarts
    <2> QED
      BY <2>1, <2>2, <2>3 DEF StartAsConfigured
  <1> QED
    BY <1>1, SkInitKeeps, SkNextKeeps, PTL DEF SkSpec

\* A cron job gives up its session only when the run that ends did no work.
THEOREM ContextOutlivesErrors == SkSpec => CronContextKept
  <1>1. SkInv /\ [SkNext]_skVars =>
          [skBound # NoSkillId /\ skBound' = NoSkillId
             => \E g \in SkCrons : SkAt(g, "record") /\ ~SkAt(g, "record")' /\ ~skRun[g].worked]_skVars
    <2> SUFFICES ASSUME SkInv, SkNext, skBound # NoSkillId, skBound' = NoSkillId
                 PROVE  \E g \in SkCrons : SkAt(g, "record") /\ ~SkAt(g, "record")' /\ ~skRun[g].worked
      BY DEF skVars
    <2>1. NoSkillId \notin SkIds
      BY SessionStartAssumption
    <2>2. ~SkRebind /\ ~SkConfigure /\ ~SkCrash
      BY <2>1 DEF SkRebind, SkConfigure, SkCrash
    <2>3. PICK g \in SkStarts : SkRecord(g)
      BY <2>2 DEF SkNext, SkStep, SkAsk, SkNoTree, SkLock, SkUnprepared, SkReconcile, SkLink, SkManifestOpen,
                  SkManifestWrite, SkExcludeOpen, SkExcludeFill, SkSetEnv, SkStart, SkSend, SkWork,
                  SkTurnEnds
    <2>4. SkAt(g, "record") /\ skRun[g].out = "notfound" /\ skRun' = [skRun EXCEPT ![g] = Over(skRun[g].out)]
      BY <2>3 DEF SkRecord
    <2>5. g \in SkCrons /\ ~skRun[g].worked
      BY <2>4 DEF SkInv, SkRecorded, SkAt
    <2>6. skRun'[g].at = "ended"
      BY <2>4, SkConstants DEF SkInv, SkTypeOK, SkOuts
    <2> QED
      BY <2>4, <2>5, <2>6 DEF SkAt
  <1> QED
    BY <1>1, SkInitKeeps, SkNextKeeps, PTL DEF SkSpec, CronContextKept

-----------------------------------------------------------------------------
(* Workspace: the branches at the origin keep their commits. *)

WsLabels == {"idle", "resolve", "path", "repo", "list", "add", "pin", "branch", "head", "report", "read",
             "remove", "drop", "end", "status", "remote", "ancestor", "lease", "pushnew", "push", "look",
             "clone"}
WsKinds == {"none", "setup", "cleanup", "keep", "finalize", "push", "delete", "look", "clone"}
WsCommits == SUBSET (WsChanges \cup {0})
WsTrees == [there : BOOLEAN, on : WsBranches \cup {NoBranch}, at : WsCommits]
WsRecords ==
    [op : WsKinds, path : WsPaths \cup {NoHolder}, branch : WsBranches \cup {NoBranch}, at : WsLabels,
     saw : WsCommits, new : BOOLEAN, fresh : BOOLEAN, head : WsCommits]

\* Requests for a worktree have its path, and those about a branch have that.
WsAddressed(r) ==
    /\ r.op \notin {"none", "clone"} => r.path \in WsPaths
    /\ r.op \in {"setup", "finalize", "push", "delete"} => r.branch \in WsBranches

WsTypeOK ==
    /\ wsMain \in WsCommits /\ wsTrack \in WsCommits /\ wsBase \in WsCommits
    /\ wsRemote \in [WsBranches -> WsCommits]
    /\ wsLocal \in [WsBranches -> WsCommits]
    /\ wsTree \in [WsPaths -> WsTrees]
    /\ wsOp \in [WsOps -> WsRecords]
    /\ \A o \in WsOps : WsAddressed(wsOp[o])

\* The steps that are taken with the lock of the repository.
InRepo(r) ==
    \/ r.op = "setup" /\ r.at \in {"list", "add", "pin", "branch", "head", "report"}
    \/ r.op \in {"cleanup", "keep"} /\ r.at \in {"remove", "drop", "end"}
    \/ r.op = "finalize" /\ r.at \in {"status", "remote", "ancestor", "lease", "pushnew", "end"}
    \/ r.op = "clone" /\ r.at \in {"clone", "end"}

\* No branch is checked out twice, and a worktree that is gone has none.
WsOnePlace ==
    /\ \A p \in WsPaths : wsTree[p].on # NoBranch => wsTree[p].there
    /\ \A p, q \in WsPaths : wsTree[p].on # NoBranch /\ wsTree[p].on = wsTree[q].on => p = q

\* A setup that pins its branch is the only one to use it.
WsPinning(r) ==
    r.op = "setup" /\ r.at \in {"pin", "branch"} =>
        wsTree[r.path].there /\ \A q \in WsPaths : wsTree[q].on # r.branch

\* What is pushed with the lease contains what was seen at the origin.
WsLeased(o, r) ==
    r.op = "finalize" /\ r.at = "lease" => o \in wsRewritten \/ r.saw \subseteq WsHead(r.path)

WsInv ==
    /\ WsTypeOK /\ WsOnePlace
    /\ \A o \in WsOps : InRepo(wsOp[o]) => wsRepoLock = o
    /\ \A o \in WsOps : WsPinning(wsOp[o])
    /\ \A o \in WsOps : WsLeased(o, wsOp[o])

\* Only the label of the goroutine changes.
LEMMA WsGoesTo ==
    ASSUME WsInv, NEW o \in WsOps, NEW label \in WsLabels, WsGoes(o, label)
    PROVE  \E new \in WsRecords :
             /\ wsOp' = [wsOp EXCEPT ![o] = new] /\ new.at = label
             /\ new.op = wsOp[o].op /\ new.path = wsOp[o].path /\ new.branch = wsOp[o].branch
             /\ new.saw = wsOp[o].saw /\ WsAddressed(new)
  <1> DEFINE op == wsOp[o]
             new == [op EXCEPT !.at = label]
  <1>1. op \in WsRecords /\ WsAddressed(op)
    BY DEF WsInv, WsTypeOK
  <1>2. /\ new \in WsRecords /\ new.at = label
        /\ new.op = op.op /\ new.path = op.path /\ new.branch = op.branch /\ new.saw = op.saw
    BY <1>1 DEF WsRecords
  <1>3. wsOp' = [wsOp EXCEPT ![o] = new]
    BY DEF WsGoes
  <1> HIDE DEF new
  <1> QED
    BY <1>1, <1>2, <1>3 DEF WsAddressed

\* A step of o that leaves worktrees and local branches alone.
LEMMA WsQuietKeeps ==
    ASSUME WsInv, NEW o \in WsOps, NEW new \in WsRecords, wsOp' = [wsOp EXCEPT ![o] = new],
           WsAddressed(new), UNCHANGED <<wsLocal, wsTree>>,
           wsMain' \in WsCommits, wsTrack' \in WsCommits, wsBase' \in WsCommits,
           wsRemote' \in [WsBranches -> WsCommits],
           wsRewritten' = wsRewritten \/ (wsRewritten' = wsRewritten \ {o} /\ new.at # "lease"),
           InRepo(new) => wsRepoLock' = o,
           wsRepoLock' = wsRepoLock \/ wsRepoLock \in {o, NoHolder},
           WsPinning(new), WsLeased(o, new)
    PROVE  WsInv'
  <1>1. /\ wsOp' \in [WsOps -> WsRecords] /\ wsOp'[o] = new
        /\ \A h \in WsOps \ {o} : wsOp'[h] = wsOp[h]
    BY DEF WsInv, WsTypeOK
  <1>2. WsTypeOK'
    BY <1>1 DEF WsInv, WsTypeOK, WsAddressed
  <1>3. WsOnePlace'
    BY DEF WsInv, WsOnePlace
  <1>4. \A h \in WsOps : InRepo(wsOp'[h]) => wsRepoLock' = h
    BY <1>1, WorkspaceAssumption DEF WsInv
  <1>5. \A h \in WsOps : WsPinning(wsOp[h])'
    BY <1>1 DEF WsInv, WsPinning
  <1>6. ASSUME NEW h \in WsOps
        PROVE  WsLeased(h, wsOp[h])'
    <2>1. WsLeased(h, wsOp'[h])
      BY <1>1 DEF WsInv
    <2>2. \A p : WsHead(p)' = WsHead(p)
      BY DEF WsHead
    <2> QED
      BY <1>1, <2>1, <2>2 DEF WsLeased
  <1> QED
    BY <1>2, <1>3, <1>4, <1>5, <1>6 DEF WsInv, InRepo

\* The label moves on, and neither worktrees nor local branches change.
LEMMA WsLabelKeeps ==
    ASSUME WsInv, NEW o \in WsOps, NEW label \in WsLabels, WsGoes(o, label),
           UNCHANGED <<wsLocal, wsTree, wsMain, wsBase, wsRewritten>>,
           wsTrack' \in WsCommits, wsRemote' \in [WsBranches -> WsCommits],
           label \notin {"pin", "branch"},
           label = "lease" /\ wsOp[o].op = "finalize" => wsOp[o].saw \subseteq WsHead(wsOp[o].path),
           InRepo(wsOp[o]) \/ wsRepoLock' = o \/ ~InRepo([op |-> wsOp[o].op, at |-> label]),
           wsRepoLock' = wsRepoLock \/ wsRepoLock = NoHolder
    PROVE  WsInv'
  <1>1. PICK new \in WsRecords :
          /\ wsOp' = [wsOp EXCEPT ![o] = new] /\ new.at = label
          /\ new.op = wsOp[o].op /\ new.path = wsOp[o].path /\ new.branch = wsOp[o].branch
          /\ new.saw = wsOp[o].saw /\ WsAddressed(new)
    BY WsGoesTo
  <1>2. WsPinning(new) /\ WsLeased(o, new)
    BY <1>1 DEF WsPinning, WsLeased
  <1>3. InRepo(new) => wsRepoLock' = o
    <2>1. InRepo(new) = InRepo([op |-> wsOp[o].op, at |-> label])
      BY <1>1 DEF InRepo
    <2>2. InRepo(wsOp[o]) => wsRepoLock = o /\ o # NoHolder
      BY WorkspaceAssumption DEF WsInv
    <2> QED
      BY <2>1, <2>2
  <1>4. wsMain' \in WsCommits /\ wsBase' \in WsCommits
    BY DEF WsInv, WsTypeOK
  <1> QED
    BY <1>1, <1>2, <1>3, <1>4, WsQuietKeeps

\* A request arrives.
LEMMA WsAskKeeps ==
    ASSUME WsInv, NEW o \in WsOps, NEW kind \in WsKinds \ {"none"}, NEW p \in WsPaths \cup {NoHolder},
           NEW b \in WsBranches \cup {NoBranch}, NEW label \in {"resolve", "path", "repo", "list"},
           kind # "clone" => p \in WsPaths,
           kind \in {"setup", "finalize", "push", "delete"} => b \in WsBranches,
           label = "list" => kind = "delete",
           WsAsk(o, kind, p, b, label)
    PROVE  WsInv'
  <1> DEFINE new == [WsIdle EXCEPT !.op = kind, !.path = p, !.branch = b, !.at = label]
  <1>1. /\ new \in WsRecords /\ new.at = label /\ new.op = kind /\ new.path = p /\ new.branch = b
    BY DEF WsIdle, WsRecords, WsLabels, WsKinds, WsCommits
  <1>2. wsOp' = [wsOp EXCEPT ![o] = new] /\ wsRewritten' = wsRewritten \ {o} /\ UNCHANGED <<wsGit, wsLocks>>
    BY DEF WsAsk
  <1> HIDE DEF new
  <1>3. ~InRepo(new) /\ WsPinning(new) /\ WsLeased(o, new) /\ WsAddressed(new) /\ new.at # "lease"
    BY <1>1 DEF InRepo, WsPinning, WsLeased, WsAddressed
  <1>4. /\ wsMain' \in WsCommits /\ wsTrack' \in WsCommits /\ wsBase' \in WsCommits
        /\ wsRemote' \in [WsBranches -> WsCommits]
        /\ UNCHANGED <<wsLocal, wsTree, wsRepoLock>>
    BY <1>2 DEF wsGit, wsLocks, WsInv, WsTypeOK
  <1> QED
    BY <1>1, <1>2, <1>3, <1>4, WsQuietKeeps

\* Whatever is asked for.
LEMMA WsAsksKeep ==
    ASSUME WsInv, NEW o \in WsOps, WsAsks(o)
    PROVE  WsInv'
  <1>1. CASE AskCheckout(o)
    BY <1>1, WsAskKeeps DEF AskCheckout, WsKinds
  <1>2. ASSUME NEW p \in WsPaths, AskSnapshot(o, p) \/ \E keep \in BOOLEAN : AskCleanup(o, p, keep)
        PROVE  WsInv'
    BY <1>2, WsAskKeeps DEF AskSnapshot, AskCleanup, WsKinds
  <1>3. ASSUME NEW p \in WsPaths, NEW b \in WsBranches,
               AskSetup(o, p, b) \/ AskFinalize(o, p, b) \/ AskPushRef(o, p, b) \/ AskDeleteRemote(o, p, b)
        PROVE  WsInv'
    BY <1>3, WsAskKeeps DEF AskSetup, AskFinalize, AskPushRef, AskDeleteRemote, WsKinds
  <1> QED
    BY <1>1, <1>2, <1>3 DEF WsAsks

\* An operation returns, or a git command of it fails.
LEMMA WsReturnKeeps ==
    ASSUME WsInv, NEW o \in WsOps, WsReturns(o) \/ GitFails(o)
    PROVE  WsInv'
  <1>1. /\ WsGoes(o, "idle") /\ UNCHANGED <<wsLocal, wsTree, wsMain, wsTrack, wsBase, wsRemote, wsRewritten>>
        /\ wsRepoLock' = IF wsRepoLock = o THEN NoHolder ELSE wsRepoLock
    BY DEF WsReturns, GitFails, WsGoes, wsGit
  <1>2. PICK new \in WsRecords : wsOp' = [wsOp EXCEPT ![o] = new] /\ new.at = "idle" /\ WsAddressed(new)
    BY <1>1, WsGoesTo DEF WsLabels
  <1>3. ~InRepo(new) /\ WsPinning(new) /\ WsLeased(o, new)
    BY <1>2 DEF InRepo, WsPinning, WsLeased
  <1>4. /\ wsMain' \in WsCommits /\ wsTrack' \in WsCommits /\ wsBase' \in WsCommits
        /\ wsRemote' \in [WsBranches -> WsCommits]
    BY <1>1 DEF WsInv, WsTypeOK
  <1> QED
    BY <1>1, <1>2, <1>3, <1>4, WsQuietKeeps

\* A goroutine gets a lock.
LEMMA WsTakesKeeps ==
    ASSUME WsInv, NEW o \in WsOps, NEW next \in {"repo", "read", "push", "look", "list", "remove", "status", "clone"},
           \/ TakesPathLock(o, next) /\ next \in {"repo", "read", "push", "look"}
           \/ TakesRepoLock(o, next)
    PROVE  WsInv'
  <1>1. /\ WsGoes(o, next) /\ UNCHANGED <<wsLocal, wsTree, wsMain, wsTrack, wsBase, wsRemote, wsRewritten>>
        /\ next \in WsLabels \ {"pin", "branch", "lease"}
    BY DEF TakesPathLock, TakesRepoLock, wsGit, WsLabels
  <1>2. /\ wsRepoLock' = wsRepoLock \/ wsRepoLock = NoHolder
        /\ wsRepoLock' = o \/ ~InRepo([op |-> wsOp[o].op, at |-> next])
    BY DEF TakesPathLock, TakesRepoLock, InRepo
  <1>3. wsTrack' \in WsCommits /\ wsRemote' \in [WsBranches -> WsCommits]
    BY <1>1 DEF WsInv, WsTypeOK
  <1> QED
    BY <1>1, <1>2, <1>3, WsLabelKeeps

\* The head of a worktree is a commit.
LEMMA WsHeadIn ==
    ASSUME WsInv, NEW p \in WsPaths
    PROVE  WsHead(p) \in WsCommits
  BY DEF WsHead, WsInv, WsTypeOK, WsTrees

\* A setup and a push read what they need.
LEMMA WsReadsKeep ==
    ASSUME WsInv, NEW o \in WsOps, SetupResolves(o) \/ SetupLists(o) \/ SetupHead(o) \/ PushLists(o)
                                   \/ CleanupReads(o)
    PROVE  WsInv'
  <1> DEFINE op == wsOp[o]
  <1>0. /\ op \in WsRecords /\ WsAddressed(op) /\ WsTypeOK /\ UNCHANGED <<wsLocal, wsTree, wsMain, wsBase>>
        /\ InRepo(op) => wsRepoLock = o
    BY DEF WsInv, WsTypeOK, SetupResolves, SetupLists, SetupHead, PushLists, CleanupReads, WsReturns,
           TakesPathLock, TakesRepoLock, wsGit
  <1>1. ASSUME NEW new \in WsRecords, wsOp' = [wsOp EXCEPT ![o] = new], UNCHANGED <<wsRemote, wsRepoLock, wsRewritten>>,
               wsTrack' \in WsCommits, new.op = op.op, new.path = op.path,
               new.branch = op.branch \/ op.op \in {"cleanup", "keep"},
               new.at \notin {"pin", "branch", "lease"}, InRepo(new) => InRepo(op)
        PROVE  WsInv'
    <2>1. WsAddressed(new) /\ WsPinning(new) /\ WsLeased(o, new)
      BY <1>0, <1>1 DEF WsAddressed, WsPinning, WsLeased
    <2>2. wsMain' \in WsCommits /\ wsBase' \in WsCommits /\ wsRemote' \in [WsBranches -> WsCommits]
      BY <1>0, <1>1 DEF WsTypeOK
    <2> QED
      BY <1>0, <1>1, <2>1, <2>2, WsQuietKeeps
  <1>2. CASE SetupResolves(o)
    <2> DEFINE fetched == [op EXCEPT !.at = "path", !.saw = wsMain, !.fresh = TRUE]
               stale == [op EXCEPT !.at = "path", !.saw = wsBase]
    <2>1. /\ fetched \in WsRecords /\ fetched.op = op.op /\ fetched.path = op.path
          /\ fetched.branch = op.branch /\ fetched.at = "path"
          /\ stale \in WsRecords /\ stale.op = op.op /\ stale.path = op.path
          /\ stale.branch = op.branch /\ stale.at = "path"
      BY <1>0 DEF WsRecords, WsLabels, WsTypeOK
    <2>2. \/ wsTrack' = wsMain /\ wsOp' = [wsOp EXCEPT ![o] = fetched]
          \/ wsTrack' = wsTrack /\ wsOp' = [wsOp EXCEPT ![o] = stale]
      BY <1>0, <1>2 DEF SetupResolves, WsTypeOK, WsRecords
    <2>3. wsTrack' \in WsCommits /\ UNCHANGED <<wsRemote, wsRepoLock, wsRewritten>>
      BY <1>0, <1>2 DEF SetupResolves, WsTypeOK, wsLocks
    <2> HIDE DEF fetched, stale
    <2> QED
      BY <1>1, <2>1, <2>2, <2>3 DEF InRepo
  <1>3. CASE SetupLists(o)
    <2> DEFINE absent == (wsLocal[op.branch] = Missing)
               new == [op EXCEPT !.at = "add", !.new = absent]
    <2>1. /\ new \in WsRecords /\ new.op = op.op /\ new.path = op.path /\ new.branch = op.branch
          /\ new.at = "add"
      BY <1>0 DEF WsRecords, WsLabels
    <2>2. CASE wsTree[op.path].there
      BY <1>3, <2>2, WsReturnKeeps DEF SetupLists
    <2>3. CASE ~wsTree[op.path].there
      <3>1. wsOp' = [wsOp EXCEPT ![o] = new] /\ op.op = "setup" /\ op.at = "list"
            /\ UNCHANGED <<wsTrack, wsRemote, wsRepoLock, wsRewritten>>
        BY <1>0, <1>3, <2>3 DEF SetupLists, WsAt, WsTypeOK, WsRecords, wsGit, wsLocks
      <3>2. wsTrack' \in WsCommits
        BY <1>0, <3>1 DEF WsTypeOK
      <3> HIDE DEF new
      <3> QED
        BY <1>1, <2>1, <3>1, <3>2 DEF InRepo
    <2> QED
      BY <2>2, <2>3
  <1>4. CASE SetupHead(o)
    <2> DEFINE new == [op EXCEPT !.at = "report", !.head = WsHead(op.path)]
    <2>1. op.op = "setup" /\ op.at = "head" /\ UNCHANGED <<wsTrack, wsRemote, wsRepoLock, wsRewritten>>
      BY <1>4 DEF SetupHead, WsAt, wsGit, wsLocks
    <2>2. WsHead(op.path) \in WsCommits
      BY <1>0, <2>1, WsHeadIn DEF WsAddressed
    <2>3. /\ new \in WsRecords /\ new.op = op.op /\ new.path = op.path /\ new.branch = op.branch
          /\ new.at = "report"
      BY <1>0, <2>2 DEF WsRecords, WsLabels
    <2>4. wsOp' = [wsOp EXCEPT ![o] = new] /\ wsTrack' \in WsCommits
      BY <1>0, <1>4, <2>1 DEF SetupHead, WsTypeOK, WsRecords
    <2> HIDE DEF new
    <2> QED
      BY <1>1, <2>1, <2>3, <2>4 DEF InRepo
  <1>5. CASE PushLists(o)
    <2> DEFINE tip == wsRemote[op.branch]
               label == IF tip = Missing THEN "pushnew" ELSE "ancestor"
               new == [op EXCEPT !.saw = tip, !.at = label]
    <2>1. op.op = "finalize" /\ op.at = "remote" /\ UNCHANGED <<wsTrack, wsRemote, wsRepoLock, wsRewritten>>
      BY <1>5 DEF PushLists, WsAt, wsGit, wsLocks
    <2>2. tip \in WsCommits /\ label \in {"pushnew", "ancestor"}
      BY <1>0, <2>1 DEF WsAddressed, WsTypeOK
    <2>3. /\ new \in WsRecords /\ new.op = op.op /\ new.path = op.path /\ new.branch = op.branch
          /\ new.at \in {"pushnew", "ancestor"}
      BY <1>0, <2>2 DEF WsRecords, WsLabels
    <2>4. wsOp' = [wsOp EXCEPT ![o] = new] /\ wsTrack' \in WsCommits
      BY <1>0, <1>5, <2>1 DEF PushLists, WsTypeOK, WsRecords
    <2> HIDE DEF new
    <2> QED
      BY <1>1, <2>1, <2>3, <2>4 DEF InRepo
  <1>6. CASE CleanupReads(o)
    <2> DEFINE new == [op EXCEPT !.at = "repo", !.branch = wsTree[op.path].on]
    <2>0. op.op \in {"cleanup", "keep"}
      BY <1>6 DEF CleanupReads, Cleaning
    <2>1. CASE /\ op.at = "read" /\ wsTree[op.path].there
               /\ wsOp' = [wsOp EXCEPT ![o].at = "repo", ![o].branch = wsTree[wsOp[o].path].on]
               /\ UNCHANGED <<wsGit, wsLocks, wsRewritten, wsCounts>>
      <3>1. wsTree[op.path].on \in WsBranches \cup {NoBranch}
        BY <1>0, <2>0 DEF WsAddressed, WsTypeOK, WsTrees
      <3>2. new \in WsRecords /\ new.op = op.op /\ new.path = op.path /\ new.at = "repo"
        BY <1>0, <3>1 DEF WsRecords, WsLabels
      <3>3. wsOp' = [wsOp EXCEPT ![o] = new] /\ wsTrack' \in WsCommits
            /\ UNCHANGED <<wsRemote, wsRepoLock, wsRewritten>>
        BY <1>0, <2>1 DEF WsTypeOK, WsRecords, wsGit, wsLocks
      <3> HIDE DEF new
      <3> QED
        BY <1>1, <2>0, <3>2, <3>3 DEF InRepo
    <2> QED
      BY <1>6, <2>1, WsReturnKeeps, WsTakesKeeps DEF CleanupReads
  <1> QED
    BY <1>2, <1>3, <1>4, <1>5, <1>6

\* A git command of one goroutine, under the lock of the repository, changes worktrees or
\* local branches: no push and no other setup is under way.
LEMMA WsGitKeeps ==
    ASSUME WsInv, NEW o \in WsOps, InRepo(wsOp[o]), NEW label \in WsLabels, WsGoes(o, label),
           UNCHANGED <<wsMain, wsTrack, wsBase, wsRemote, wsRepoLock, wsRewritten>>,
           wsLocal' \in [WsBranches -> WsCommits], wsTree' \in [WsPaths -> WsTrees],
           label # "lease", InRepo([op |-> wsOp[o].op, at |-> label]), WsOnePlace',
           wsOp[o].op = "setup" /\ label \in {"pin", "branch"} =>
               /\ wsTree'[wsOp[o].path].there
               /\ \A q \in WsPaths : wsTree'[q].on # wsOp[o].branch
    PROVE  WsInv'
  <1>1. PICK new \in WsRecords :
          /\ wsOp' = [wsOp EXCEPT ![o] = new] /\ new.at = label
          /\ new.op = wsOp[o].op /\ new.path = wsOp[o].path /\ new.branch = wsOp[o].branch
          /\ WsAddressed(new)
    BY WsGoesTo
  <1>2. /\ wsOp' \in [WsOps -> WsRecords] /\ wsOp'[o] = new
        /\ \A h \in WsOps \ {o} : wsOp'[h] = wsOp[h]
    BY <1>1 DEF WsInv, WsTypeOK
  <1>3. wsRepoLock = o /\ \A h \in WsOps \ {o} : ~InRepo(wsOp[h])
    BY DEF WsInv
  <1>4. WsTypeOK'
    BY <1>1, <1>2 DEF WsInv, WsTypeOK, WsAddressed
  <1>5. \A h \in WsOps : InRepo(wsOp'[h]) => wsRepoLock' = h
    BY <1>2, <1>3
  <1>6. ASSUME NEW h \in WsOps
        PROVE  WsPinning(wsOp[h])' /\ WsLeased(h, wsOp[h])'
    <2>1. CASE h = o
      BY <1>1, <1>2, <2>1 DEF WsPinning, WsLeased
    <2>2. CASE h # o
      BY <1>2, <1>3, <2>2 DEF WsPinning, WsLeased, InRepo
    <2> QED
      BY <2>1, <2>2
  <1> QED
    BY <1>4, <1>5, <1>6 DEF WsInv, InRepo

\* HEAD of a worktree moves: the commits of the others stay, and nothing is checked out.
LEMMA WsMoves ==
    ASSUME WsInv, NEW p \in WsPaths, NEW c \in WsCommits, MovesTo(p, c)
    PROVE  /\ wsLocal' \in [WsBranches -> WsCommits] /\ wsTree' \in [WsPaths -> WsTrees]
           /\ \A q \in WsPaths : wsTree'[q].on = wsTree[q].on /\ wsTree'[q].there = wsTree[q].there
           /\ WsHead(p)' = c
           /\ \A q \in WsPaths \ {p} : WsHead(q)' = WsHead(q)
  <1> DEFINE tree == wsTree[p]
             new == [tree EXCEPT !.at = c]
  <1>1. tree \in WsTrees
    BY DEF WsInv, WsTypeOK
  <1>2. CASE tree.on = NoBranch
    <2>1. wsTree' = [wsTree EXCEPT ![p] = new] /\ UNCHANGED wsLocal
      BY <1>2 DEF MovesTo
    <2>2. new \in WsTrees /\ new.on = tree.on /\ new.there = tree.there /\ new.at = c
      BY <1>1 DEF WsTrees
    <2> HIDE DEF new
    <2> QED
      BY <1>2, <2>1, <2>2 DEF WsInv, WsTypeOK, WsHead
  <1>3. CASE tree.on # NoBranch
    <2>1. wsLocal' = [wsLocal EXCEPT ![tree.on] = c] /\ UNCHANGED wsTree
      BY <1>3 DEF MovesTo
    <2>2. tree.on \in WsBranches /\ \A q \in WsPaths \ {p} : wsTree[q].on # tree.on
      BY <1>1, <1>3 DEF WsTrees, WsInv, WsOnePlace
    <2>3. \A q \in WsPaths : wsTree[q].on \in WsBranches \cup {NoBranch}
      BY DEF WsInv, WsTypeOK, WsTrees
    <2> QED
      BY <1>3, <2>1, <2>2, <2>3 DEF WsInv, WsTypeOK, WsHead
  <1> QED
    BY <1>2, <1>3

\* A setup adds its worktree and pins the branch.
LEMMA WsSetupGitKeeps ==
    ASSUME WsInv, NEW o \in WsOps, SetupAdds(o) \/ SetupPins(o)
    PROVE  WsInv'
  <1> DEFINE op == wsOp[o]
             p == op.path
             b == op.branch
  <1>0. /\ op \in WsRecords /\ p \in WsPaths /\ b \in WsBranches /\ WsTypeOK /\ WsOnePlace
        /\ op.op = "setup" /\ b # NoBranch
        /\ UNCHANGED <<wsMain, wsTrack, wsBase, wsRemote, wsRepoLock, wsRewritten>>
        /\ \A q \in WsPaths : wsTree[q] \in WsTrees
    BY WorkspaceAssumption DEF WsInv, WsTypeOK, WsAddressed, SetupAdds, SetupPins, WsAt, wsLocks
  <1>1. ASSUME NEW tree \in WsTrees, wsTree' = [wsTree EXCEPT ![p] = tree], SetupAdds(o), UNCHANGED wsLocal,
               tree.there, NEW label \in {"pin", "head"}, WsGoes(o, label),
               \/ tree.on = NoBranch
               \/ tree.on = b /\ label = "head"
        PROVE  WsInv'
    <2>1. \A q \in WsPaths : wsTree[q].on # b
      BY <1>0, <1>1 DEF SetupAdds, CheckedOut, WsOnePlace
    <2>2. /\ wsTree' \in [WsPaths -> WsTrees] /\ wsTree'[p] = tree
          /\ \A q \in WsPaths \ {p} : wsTree'[q] = wsTree[q]
      BY <1>0, <1>1 DEF WsTypeOK
    <2>3. WsOnePlace'
      BY <1>0, <1>1, <2>1, <2>2 DEF WsOnePlace
    <2>4. InRepo(op) /\ InRepo([op |-> op.op, at |-> label]) /\ label \in WsLabels
      BY <1>0, <1>1 DEF SetupAdds, WsAt, InRepo, WsLabels
    <2>5. label = "pin" => wsTree'[p].there /\ \A q \in WsPaths : wsTree'[q].on # b
      BY <1>0, <1>1, <2>1, <2>2
    <2>6. wsLocal' \in [WsBranches -> WsCommits]
      BY <1>0, <1>1 DEF WsTypeOK
    <2> QED
      BY <1>0, <1>1, <2>2, <2>3, <2>4, <2>5, <2>6, WsGitKeeps
  <1>2. CASE SetupAdds(o)
    <2> DEFINE fresh == [there |-> TRUE, on |-> NoBranch, at |-> IF op.fresh THEN wsTrack ELSE wsBase]
               old == [there |-> TRUE, on |-> b, at |-> {}]
    <2>1. /\ fresh \in WsTrees /\ fresh.there /\ fresh.on = NoBranch
          /\ old \in WsTrees /\ old.there /\ old.on = b
      BY <1>0 DEF WsTrees, WsTypeOK, WsCommits
    <2>2. \/ wsTree' = [wsTree EXCEPT ![p] = fresh] /\ WsGoes(o, "pin")
          \/ wsTree' = [wsTree EXCEPT ![p] = old] /\ WsGoes(o, "head")
      BY <1>2 DEF SetupAdds
    <2>3. UNCHANGED wsLocal
      BY <1>2 DEF SetupAdds
    <2> HIDE DEF fresh, old
    <2> QED
      BY <1>1, <1>2, <2>1, <2>2, <2>3
  <1>3. CASE SetupPins(o)
    <2>0. /\ InRepo(op) /\ wsTree[p].there /\ \A q \in WsPaths : wsTree[q].on # b
          /\ op.saw \in WsCommits
      BY <1>0, <1>3 DEF SetupPins, WsAt, InRepo, WsInv, WsPinning, WsRecords
    <2> DEFINE detached == [wsTree[p] EXCEPT !.at = op.saw]
               attached == [wsTree[p] EXCEPT !.on = b]
    <2>1. /\ detached \in WsTrees /\ detached.there /\ detached.on = wsTree[p].on
          /\ attached \in WsTrees /\ attached.there /\ attached.on = b
      BY <1>0, <2>0 DEF WsTrees
    <2>2. \/ wsTree' = [wsTree EXCEPT ![p] = detached] /\ WsGoes(o, "branch") /\ UNCHANGED wsLocal
          \/ /\ wsTree' = [wsTree EXCEPT ![p] = attached] /\ WsGoes(o, "head")
             /\ wsLocal' = [wsLocal EXCEPT ![b] = op.saw]
      BY <1>3 DEF SetupPins
    <2>3. wsLocal' \in [WsBranches -> WsCommits]
      BY <1>0, <2>0, <2>2 DEF WsTypeOK
    <2> HIDE DEF detached, attached
    <2>4. CASE wsTree' = [wsTree EXCEPT ![p] = detached] /\ WsGoes(o, "branch")
      <3>1. /\ wsTree' \in [WsPaths -> WsTrees] /\ wsTree'[p] = detached
            /\ \A q \in WsPaths \ {p} : wsTree'[q] = wsTree[q]
        BY <1>0, <2>1, <2>4 DEF WsTypeOK
      <3>2. WsOnePlace' /\ wsTree'[p].there /\ \A q \in WsPaths : wsTree'[q].on # b
        BY <1>0, <2>0, <2>1, <3>1 DEF WsOnePlace
      <3>3. InRepo([op |-> op.op, at |-> "branch"]) /\ "branch" \in WsLabels
        BY <1>0 DEF InRepo, WsLabels
      <3> QED
        BY <1>0, <2>0, <2>3, <2>4, <3>1, <3>2, <3>3, WsGitKeeps
    <2>5. CASE wsTree' = [wsTree EXCEPT ![p] = attached] /\ WsGoes(o, "head")
      <3>1. /\ wsTree' \in [WsPaths -> WsTrees] /\ wsTree'[p] = attached
            /\ \A q \in WsPaths \ {p} : wsTree'[q] = wsTree[q]
        BY <1>0, <2>1, <2>5 DEF WsTypeOK
      <3>2. WsOnePlace'
        BY <1>0, <2>0, <2>1, <3>1 DEF WsOnePlace
      <3>3. InRepo([op |-> op.op, at |-> "head"]) /\ "head" \in WsLabels
        BY <1>0 DEF InRepo, WsLabels
      <3> QED
        BY <1>0, <2>0, <2>3, <2>5, <3>1, <3>2, <3>3, WsGitKeeps
    <2> QED
      BY <2>2, <2>4, <2>5
  <1> QED
    BY <1>2, <1>3

\* A clean-up removes its worktree and the branch that nobody uses any more.
LEMMA WsCleanupKeeps ==
    ASSUME WsInv, NEW o \in WsOps, CleanupRemoves(o)
    PROVE  WsInv'
  <1> DEFINE op == wsOp[o]
             p == op.path
             b == op.branch
  <1>0. /\ op \in WsRecords /\ p \in WsPaths /\ WsTypeOK /\ WsOnePlace /\ op.op \in {"cleanup", "keep"}
        /\ \A q \in WsPaths : wsTree[q] \in WsTrees
    BY DEF WsInv, WsTypeOK, WsAddressed, CleanupRemoves, Cleaning
  <1>1. CASE op.at = "remove" /\ ~WsReturns(o)
    <2>1. PICK label \in {"drop", "end"} : WsGoes(o, label)
      BY <1>1 DEF CleanupRemoves
    <2>2. wsTree' = [wsTree EXCEPT ![p] = NoTree]
          /\ UNCHANGED <<wsLocal, wsMain, wsTrack, wsBase, wsRemote, wsRepoLock, wsRewritten>>
      BY <1>1 DEF CleanupRemoves, wsLocks
    <2>3. NoTree \in WsTrees /\ NoTree.on = NoBranch
      BY DEF NoTree, WsTrees, WsCommits
    <2>4. wsTree' \in [WsPaths -> WsTrees] /\ WsOnePlace' /\ wsLocal' \in [WsBranches -> WsCommits]
      BY <1>0, <2>2, <2>3 DEF WsTypeOK, WsOnePlace
    <2>5. InRepo(op) /\ InRepo([op |-> op.op, at |-> label]) /\ label \in WsLabels
      BY <1>0, <1>1 DEF InRepo, WsLabels
    <2> QED
      BY <1>0, <2>1, <2>2, <2>4, <2>5, WsGitKeeps
  <1>2. CASE op.at = "drop" /\ ~WsReturns(o)
    <2>1. WsGoes(o, "end") /\ (wsLocal' = wsLocal \/ wsLocal' = [wsLocal EXCEPT ![b] = Missing])
          /\ UNCHANGED <<wsTree, wsMain, wsTrack, wsBase, wsRemote, wsRepoLock, wsRewritten>>
      BY <1>2 DEF CleanupRemoves, wsLocks
    <2>2. wsTree' \in [WsPaths -> WsTrees] /\ WsOnePlace' /\ wsLocal' \in [WsBranches -> WsCommits]
      BY <1>0, <2>1 DEF WsTypeOK, WsOnePlace, Missing, WsCommits
    <2>3. InRepo(op) /\ InRepo([op |-> op.op, at |-> "end"]) /\ "end" \in WsLabels
      BY <1>0, <1>2 DEF InRepo, WsLabels
    <2> QED
      BY <1>0, <2>1, <2>2, <2>3, WsGitKeeps
  <1> QED
    BY <1>1, <1>2, WsReturnKeeps DEF CleanupRemoves

\* A finalize commits what is left in its worktree.
LEMMA WsCommitKeeps ==
    ASSUME WsInv, NEW o \in WsOps, FinalizeCommits(o)
    PROVE  WsInv'
  <1> DEFINE op == wsOp[o]
             p == op.path
  <1>0. /\ p \in WsPaths /\ WsTypeOK /\ op.op = "finalize" /\ op.at = "status"
    BY DEF WsInv, WsTypeOK, WsAddressed, FinalizeCommits, WsAt
  <1>1. CASE WsGoes(o, "remote") /\ UNCHANGED <<wsGit, wsLocks, wsRewritten, wsCounts>>
    <2>1. UNCHANGED <<wsLocal, wsTree, wsMain, wsBase, wsRewritten>> /\ wsRepoLock' = wsRepoLock
          /\ wsTrack' \in WsCommits /\ wsRemote' \in [WsBranches -> WsCommits]
      BY <1>0, <1>1 DEF wsGit, wsLocks, WsTypeOK
    <2>2. InRepo(op) /\ "remote" \in WsLabels
      BY <1>0 DEF InRepo, WsLabels
    <2> QED
      BY <1>1, <2>1, <2>2, WsLabelKeeps
  <1>2. CASE CommitOn(p) /\ WsGoes(o, "remote") /\ UNCHANGED <<wsLocks, wsRewritten>>
    <2>1. PICK c \in WsChanges : MovesTo(p, WsHead(p) \cup {c})
      BY <1>2 DEF CommitOn
    <2>2. WsHead(p) \cup {c} \in WsCommits
      BY <1>0, WsHeadIn DEF WsCommits
    <2>3. /\ wsLocal' \in [WsBranches -> WsCommits] /\ wsTree' \in [WsPaths -> WsTrees]
          /\ \A q \in WsPaths : wsTree'[q].on = wsTree[q].on /\ wsTree'[q].there = wsTree[q].there
      BY <1>0, <2>1, <2>2, WsMoves
    <2>4. WsOnePlace'
      BY <2>3 DEF WsInv, WsOnePlace
    <2>5. InRepo(op) /\ InRepo([op |-> op.op, at |-> "remote"]) /\ "remote" \in WsLabels
      BY <1>0 DEF InRepo, WsLabels
    <2>6. UNCHANGED <<wsMain, wsTrack, wsBase, wsRemote, wsRepoLock, wsRewritten>>
      BY <1>2, <2>1 DEF MovesTo, wsLocks
    <2> QED
      BY <1>0, <1>2, <2>3, <2>4, <2>5, <2>6, WsGitKeeps
  <1> QED
    BY <1>0, <1>1, <1>2, WsReturnKeeps DEF FinalizeCommits

\* What reaches the origin, and the steps that only move on.
LEMMA WsPushKeeps ==
    ASSUME WsInv, NEW o \in WsOps,
           \/ PushTests(o) \/ FinalizePushes(o) \/ PushRefSteps(o) \/ DeleteRemoteSteps(o)
           \/ SnapshotSteps(o) \/ CheckoutSteps(o)
    PROVE  WsInv'
  <1> DEFINE op == wsOp[o]
             b == op.branch
  <1>0. /\ WsTypeOK /\ WsAddressed(op)
        /\ \A p \in WsPaths : WsHead(p) \in WsCommits
    BY WsHeadIn DEF WsInv, WsTypeOK
  <1>1. ASSUME NEW label \in {"lease", "end", "drop"}, WsGoes(o, label),
               UNCHANGED <<wsLocal, wsTree, wsMain, wsBase, wsRewritten, wsRepoLock>>,
               wsTrack' \in WsCommits, wsRemote' \in [WsBranches -> WsCommits],
               label = "lease" => op.saw \subseteq WsHead(op.path) /\ op.op = "finalize",
               \/ op.op = "finalize" /\ op.at \in {"ancestor", "lease", "pushnew"}
               \/ op.op = "clone" /\ op.at = "clone"
               \/ op.op \in {"push", "delete"}
        PROVE  WsInv'
    <2>1. label \in WsLabels /\ label \notin {"pin", "branch"}
      BY DEF WsLabels
    <2>2. InRepo(op) \/ wsRepoLock' = o \/ ~InRepo([op |-> op.op, at |-> label])
      BY <1>1 DEF InRepo
    <2> QED
      BY <1>1, <2>1, <2>2, WsLabelKeeps
  <1>2. ASSUME NEW accepted \in BOOLEAN, Pushed(o, b, accepted), b \in WsBranches, op.path \in WsPaths,
               \/ op.op = "finalize" /\ op.at \in {"lease", "pushnew"}
               \/ op.op = "push"
        PROVE  WsInv'
    <2>1. WsGoes(o, "end") /\ UNCHANGED <<wsLocal, wsTree, wsMain, wsTrack, wsBase, wsRewritten, wsRepoLock>>
      BY <1>2 DEF Pushed, wsLocks
    <2>2. wsRemote' \in [WsBranches -> WsCommits] /\ wsTrack' \in WsCommits
      BY <1>0, <1>2, <2>1 DEF Pushed, WsTypeOK
    <2> QED
      BY <1>1, <1>2, <2>1, <2>2
  <1>3. CASE PushTests(o)
    <2>1. CASE /\ WsGoes(o, "lease") /\ UNCHANGED <<wsGit, wsLocks, wsRewritten, wsCounts>>
               /\ op.saw \subseteq WsHead(op.path)
      <3>1. /\ UNCHANGED <<wsLocal, wsTree, wsMain, wsBase, wsRewritten, wsRepoLock>>
            /\ wsTrack' \in WsCommits /\ wsRemote' \in [WsBranches -> WsCommits]
        BY <1>0, <2>1 DEF wsGit, wsLocks, WsTypeOK
      <3>2. op.op = "finalize" /\ op.at = "ancestor"
        BY <1>3 DEF PushTests, WsAt
      <3> QED
        BY <1>1, <2>1, <3>1, <3>2
    <2> QED
      BY <1>3, <2>1, WsReturnKeeps DEF PushTests
  <1>4. CASE FinalizePushes(o)
    <2>1. op.op = "finalize" /\ op.at \in {"lease", "pushnew"}
      BY <1>4 DEF FinalizePushes, WsAt
    <2>2. b \in WsBranches /\ op.path \in WsPaths
      BY <1>0, <2>1 DEF WsAddressed
    <2>3. \/ Pushed(o, b, wsRemote[b] = op.saw)
          \/ Pushed(o, b, FastForward(b, op.path))
      BY <1>4 DEF FinalizePushes
    <2>4. (wsRemote[b] = op.saw) \in BOOLEAN /\ FastForward(b, op.path) \in BOOLEAN
      BY DEF FastForward
    <2> QED
      BY <1>2, <2>1, <2>2, <2>3, <2>4
  <1>5. CASE PushRefSteps(o)
    <2>1. op.op = "push" /\ b \in WsBranches /\ op.path \in WsPaths
      BY <1>0, <1>5 DEF PushRefSteps, WsAt, WsAddressed
    <2>2. FastForward(b, op.path) \in BOOLEAN
      BY DEF FastForward
    <2>3. CASE Pushed(o, b, FastForward(b, op.path))
      BY <1>2, <2>1, <2>2, <2>3
    <2>4. CASE TakesPathLock(o, "push")
      BY <2>4, WsTakesKeeps
    <2> QED
      BY <1>5, <2>3, <2>4, WsReturnKeeps DEF PushRefSteps
  <1>6. CASE DeleteRemoteSteps(o)
    <2>1. op.op = "delete" /\ b \in WsBranches
      BY <1>0, <1>6 DEF DeleteRemoteSteps, WsAt, WsAddressed
    <2>2. CASE /\ WsGoes(o, "drop")
               /\ UNCHANGED <<wsGit, wsLocks, wsRewritten, wsCounts>>
      <3>1. /\ UNCHANGED <<wsLocal, wsTree, wsMain, wsBase, wsRewritten, wsRepoLock>>
            /\ wsTrack' \in WsCommits /\ wsRemote' \in [WsBranches -> WsCommits]
        BY <1>0, <2>2 DEF wsGit, wsLocks, WsTypeOK
      <3> QED
        BY <1>1, <2>1, <2>2, <3>1
    <2>3. CASE /\ WsGoes(o, "end") /\ wsRemote' = [wsRemote EXCEPT ![b] = Missing]
               /\ UNCHANGED <<wsRepo, wsMain, wsTrack, wsBase, wsLocal, wsTree, wsLocks, wsRewritten, wsCounts>>
      <3>1. /\ UNCHANGED <<wsLocal, wsTree, wsMain, wsBase, wsRewritten, wsRepoLock>>
            /\ wsTrack' \in WsCommits /\ wsRemote' \in [WsBranches -> WsCommits]
        BY <1>0, <2>3 DEF wsLocks, WsTypeOK, Missing, WsCommits
      <3> QED
        BY <1>1, <2>1, <2>3, <3>1
    <2> QED
      BY <1>6, <2>2, <2>3, WsReturnKeeps DEF DeleteRemoteSteps
  <1>7. CASE SnapshotSteps(o)
    BY <1>7, WsTakesKeeps, WsReturnKeeps DEF SnapshotSteps
  <1>8. CASE CheckoutSteps(o)
    <2>1. CASE /\ WsAt(o, "clone", "clone") /\ wsTrack' = wsMain /\ WsGoes(o, "end")
               /\ UNCHANGED <<wsMain, wsBase, wsRemote, wsLocal, wsTree, wsLocks, wsRewritten, wsCounts>>
      <3>1. /\ UNCHANGED <<wsLocal, wsTree, wsMain, wsBase, wsRewritten, wsRepoLock>>
            /\ wsTrack' \in WsCommits /\ wsRemote' \in [WsBranches -> WsCommits]
            /\ op.op = "clone" /\ op.at = "clone"
        BY <1>0, <2>1 DEF wsLocks, WsTypeOK, WsAt
      <3> QED
        BY <1>1, <2>1, <3>1
    <2> QED
      BY <1>8, <2>1, WsTakesKeeps, WsReturnKeeps DEF CheckoutSteps
  <1> QED
    BY <1>3, <1>4, <1>5, <1>6, <1>7, <1>8

\* What agents do in their worktrees, and others at the origin.
LEMMA WsOutsideKeeps ==
    ASSUME WsInv, (\E p \in WsPaths : AgentCommits(p) \/ AgentRewrites(p)) \/ OthersPush
    PROVE  WsInv'
  <1>1. ASSUME NEW p \in WsPaths, NEW c \in WsCommits, MovesTo(p, c), UNCHANGED <<wsOp, wsRepoLock>>,
               \A o \in WsOps : wsOp[o].op = "setup" /\ wsOp[o].path = p => wsOp[o].at = "idle",
               wsRewritten \subseteq wsRewritten',
               \/ WsHead(p) \subseteq c
               \/ \A o \in WsOps : WsAt(o, "finalize", "lease") /\ wsOp[o].path = p => o \in wsRewritten'
        PROVE  WsInv'
    <2>1. /\ wsLocal' \in [WsBranches -> WsCommits] /\ wsTree' \in [WsPaths -> WsTrees]
          /\ \A q \in WsPaths : wsTree'[q].on = wsTree[q].on /\ wsTree'[q].there = wsTree[q].there
          /\ WsHead(p)' = c
          /\ \A q \in WsPaths \ {p} : WsHead(q)' = WsHead(q)
      BY <1>1, WsMoves
    <2>2. UNCHANGED <<wsMain, wsTrack, wsBase, wsRemote>>
      BY <1>1 DEF MovesTo
    <2>3. WsTypeOK'
      BY <1>1, <2>1, <2>2 DEF WsInv, WsTypeOK, WsAddressed
    <2>4. WsOnePlace'
      BY <2>1 DEF WsInv, WsOnePlace
    <2>5. ASSUME NEW o \in WsOps
          PROVE  WsPinning(wsOp[o])'
      <3>1. WsPinning(wsOp[o]) /\ WsAddressed(wsOp[o])
        BY DEF WsInv, WsTypeOK
      <3> QED
        BY <1>1, <2>1, <3>1 DEF WsPinning, WsAddressed
    <2>6. ASSUME NEW o \in WsOps
          PROVE  WsLeased(o, wsOp[o])'
      <3>1. WsLeased(o, wsOp[o]) /\ WsAddressed(wsOp[o])
        BY DEF WsInv, WsTypeOK
      <3> QED
        BY <1>1, <2>1, <3>1 DEF WsLeased, WsAddressed, WsAt
    <2> QED
      BY <1>1, <2>3, <2>4, <2>5, <2>6 DEF WsInv, InRepo
  <1>2. ASSUME NEW p \in WsPaths, AgentCommits(p)
        PROVE  WsInv'
    <2>1. PICK c \in WsChanges : MovesTo(p, WsHead(p) \cup {c})
      BY <1>2 DEF AgentCommits, CommitOn
    <2>2. WsHead(p) \cup {c} \in WsCommits
      BY WsHeadIn DEF WsCommits
    <2> QED
      BY <1>1, <1>2, <2>1, <2>2 DEF AgentCommits, AgentWorks, wsLocks
  <1>3. ASSUME NEW p \in WsPaths, AgentRewrites(p)
        PROVE  WsInv'
    <2>1. PICK c \in WsHead(p) : MovesTo(p, WsHead(p) \ {c})
      BY <1>3 DEF AgentRewrites
    <2>2. WsHead(p) \ {c} \in WsCommits
      BY WsHeadIn DEF WsCommits
    <2> QED
      BY <1>1, <1>3, <2>1, <2>2 DEF AgentRewrites, AgentWorks, wsLocks
  <1>4. CASE OthersPush
    <2>1. wsMain' \in WsCommits /\ wsRemote' \in [WsBranches -> WsCommits]
      <3>1. PICK c \in WsChanges :
              \/ wsMain' = wsMain \cup {c} /\ UNCHANGED wsRemote
              \/ /\ \E b \in WsBranches : wsRemote' = [wsRemote EXCEPT ![b] = @ \cup {c}]
                 /\ UNCHANGED wsMain
        BY <1>4 DEF OthersPush
      <3>2. wsMain \in WsCommits /\ wsRemote \in [WsBranches -> WsCommits]
        BY DEF WsInv, WsTypeOK
      <3> QED
        BY <3>1, <3>2 DEF WsCommits
    <2>2. UNCHANGED <<wsTrack, wsBase, wsLocal, wsTree, wsRepoLock, wsOp, wsRewritten>>
      BY <1>4 DEF OthersPush, wsLocks
    <2> QED
      BY <2>1, <2>2 DEF WsInv, WsTypeOK, WsOnePlace, WsPinning, WsLeased, WsHead, InRepo, WsAddressed
  <1> QED
    BY <1>2, <1>3, <1>4

\* Every step keeps the invariant.
LEMMA WsNextKeeps == WsInv /\ [WsNext]_wsVars => WsInv'
  <1> SUFFICES ASSUME WsInv, [WsNext]_wsVars
               PROVE  WsInv'
    OBVIOUS
  <1>1. ASSUME NEW o \in WsOps, WsStep(o)
        PROVE  WsInv'
    <2>1. CASE SetupStep(o)
      BY <2>1, WsReadsKeep, WsTakesKeeps, WsSetupGitKeeps, WsReturnKeeps
         DEF SetupStep, SetupLocks, SetupEnds, SetupRefused
    <2>2. CASE FinalizeSteps(o)
      BY <2>2, WsTakesKeeps, WsCommitKeeps, WsReadsKeep, WsPushKeeps, WsReturnKeeps DEF FinalizeSteps
    <2> QED
      BY <1>1, <2>1, <2>2, WsReadsKeep, WsCleanupKeeps, WsPushKeeps DEF WsStep
  <1>2. CASE UNCHANGED wsVars
    BY <1>2 DEF wsVars, wsGit, wsLocks, WsInv, WsTypeOK, WsOnePlace, WsPinning, WsLeased, WsHead, InRepo,
                WsAddressed
  <1> QED
    BY <1>1, <1>2, WsAsksKeep, WsReturnKeeps, WsOutsideKeeps DEF WsNext

\* What moves a branch at the origin: pushes with and without the lease, deletions and others.
LEMMA WsRemoteMoves ==
    ASSUME WsInv, WsNext, NEW b \in WsBranches
    PROVE  \/ wsRemote'[b] = wsRemote[b] \/ wsRemote[b] = Missing \/ wsRemote'[b] = Missing
           \/ wsRemote[b] \subseteq wsRemote'[b]
           \/ \E o \in wsRewritten : WsAt(o, "finalize", "lease") /\ wsOp[o].branch = b
  <1>0. wsRemote \in [WsBranches -> WsCommits]
    BY DEF WsInv, WsTypeOK
  <1>1. CASE OthersPush
    BY <1>0, <1>1 DEF OthersPush
  <1>2. ASSUME NEW o \in WsOps, FinalizePushes(o) \/ PushRefSteps(o) \/ DeleteRemoteSteps(o), wsRemote' # wsRemote,
               wsRemote[b] # Missing, wsRemote'[b] # Missing
        PROVE  \/ wsRemote[b] \subseteq wsRemote'[b]
               \/ o \in wsRewritten /\ WsAt(o, "finalize", "lease") /\ wsOp[o].branch = b
    <2> DEFINE op == wsOp[o]
               head == WsHead(op.path)
    <2>1. ASSUME NEW accepted \in BOOLEAN, Pushed(o, op.branch, accepted),
                 accepted /\ op.branch = b =>
                     \/ wsRemote[b] \subseteq head
                     \/ o \in wsRewritten /\ WsAt(o, "finalize", "lease")
          PROVE  \/ wsRemote[b] \subseteq wsRemote'[b]
                 \/ o \in wsRewritten /\ WsAt(o, "finalize", "lease") /\ op.branch = b
      BY <1>0, <2>1 DEF Pushed
    <2>2. CASE WsAt(o, "finalize", "lease") /\ Pushed(o, op.branch, wsRemote[op.branch] = op.saw)
      <3>1. o \in wsRewritten \/ op.saw \subseteq head
        BY <2>2 DEF WsInv, WsLeased, WsAt
      <3>2. (wsRemote[op.branch] = op.saw) \in BOOLEAN
        OBVIOUS
      <3> QED
        BY <2>1, <2>2, <3>1, <3>2
    <2>3. CASE Pushed(o, op.branch, FastForward(op.branch, op.path))
      <3>1. FastForward(op.branch, op.path) \in BOOLEAN
        BY DEF FastForward
      <3>2. FastForward(op.branch, op.path) /\ op.branch = b => wsRemote[b] \subseteq head
        BY <1>2 DEF FastForward
      <3> QED
        BY <2>1, <2>3, <3>1, <3>2
    <2>4. CASE wsRemote' = [wsRemote EXCEPT ![op.branch] = Missing]
      BY <1>0, <1>2, <2>4
    <2>5. \/ WsAt(o, "finalize", "lease") /\ Pushed(o, op.branch, wsRemote[op.branch] = op.saw)
          \/ Pushed(o, op.branch, FastForward(op.branch, op.path))
          \/ wsRemote' = [wsRemote EXCEPT ![op.branch] = Missing]
          \/ wsRemote' = wsRemote
      BY <1>2 DEF FinalizePushes, PushRefSteps, DeleteRemoteSteps, TakesPathLock, WsReturns, wsGit
    <2> QED
      BY <1>2, <2>2, <2>3, <2>4, <2>5
  <1>3. ASSUME NEW o \in WsOps, WsStep(o) \/ WsAsks(o) \/ GitFails(o),
               ~(FinalizePushes(o) \/ PushRefSteps(o) \/ DeleteRemoteSteps(o))
        PROVE  UNCHANGED wsRemote
    <2>1. WsAsks(o) \/ GitFails(o) => UNCHANGED wsRemote
      BY DEF WsAsks, AskCheckout, AskSnapshot, AskCleanup, AskSetup, AskFinalize, AskPushRef, AskDeleteRemote,
             WsAsk, GitFails, wsGit
    <2>2. SetupStep(o) => UNCHANGED wsRemote
      BY DEF SetupStep, SetupResolves, SetupLocks, SetupLists, SetupAdds, SetupPins, SetupHead, SetupEnds,
             SetupRefused, WsReturns, TakesRepoLock, TakesPathLock, wsGit
    <2>3. CleanupReads(o) \/ CleanupRemoves(o) \/ SnapshotSteps(o) \/ CheckoutSteps(o) => UNCHANGED wsRemote
      BY DEF CleanupReads, CleanupRemoves, SnapshotSteps, CheckoutSteps, WsReturns, TakesRepoLock,
             TakesPathLock, wsGit
    <2>4. FinalizeSteps(o) => UNCHANGED wsRemote
      BY <1>3 DEF FinalizeSteps, FinalizeCommits, CommitOn, MovesTo, PushLists, PushTests, WsReturns,
                  TakesRepoLock, wsGit
    <2> QED
      BY <1>3, <2>1, <2>2, <2>3, <2>4 DEF WsStep
  <1>4. (\E p \in WsPaths : AgentCommits(p) \/ AgentRewrites(p)) => UNCHANGED wsRemote
    BY DEF AgentCommits, AgentRewrites, CommitOn, MovesTo
  <1>5. ASSUME NEW o \in WsOps, WsAsks(o) \/ WsStep(o) \/ GitFails(o)
        PROVE  \/ wsRemote' = wsRemote \/ wsRemote[b] = Missing \/ wsRemote'[b] = Missing
               \/ wsRemote[b] \subseteq wsRemote'[b]
               \/ o \in wsRewritten /\ WsAt(o, "finalize", "lease") /\ wsOp[o].branch = b
    BY <1>2, <1>3, <1>5
  <1> QED
    BY <1>1, <1>4, <1>5 DEF WsNext

\* At first there are no worktrees, no requests and no branches at the origin.
LEMMA WsInitKeeps == WsInit => WsInv
  <1> SUFFICES ASSUME WsInit
               PROVE  WsInv
    OBVIOUS
  <1>1. WsIdle \in WsRecords /\ WsIdle.op = "none" /\ NoTree \in WsTrees /\ NoTree.on = NoBranch
    BY DEF WsIdle, WsRecords, WsKinds, WsLabels, WsCommits, NoTree, WsTrees
  <1>2. {} \in WsCommits /\ Missing \in WsCommits
    BY DEF WsCommits, Missing
  <1> QED
    BY <1>1, <1>2 DEF WsInit, WsInv, WsTypeOK, WsAddressed, WsOnePlace, InRepo, WsPinning, WsLeased

\* A branch at the origin loses commits to no push, but for the one that the lease forces after
\* the agent has rewritten its HEAD.
THEOREM RemoteIsKept == WsSpec => RemoteKeepsCommits
  <1> DEFINE Kept ==
        \A b \in WsBranches :
           wsRemote[b] # Missing /\ wsRemote'[b] # Missing =>
               \/ wsRemote[b] \subseteq wsRemote'[b]
               \/ \E o \in wsRewritten : WsAt(o, "finalize", "lease") /\ wsOp[o].branch = b
  <1>1. WsInv /\ [WsNext]_wsVars => [Kept]_wsVars
    BY WsRemoteMoves
  <1>2. RemoteKeepsCommits <=> [][Kept]_wsVars
    BY PTL DEF RemoteKeepsCommits
  <1> HIDE DEF Kept
  <1> QED
    BY <1>1, <1>2, WsInitKeeps, WsNextKeeps, PTL DEF WsSpec

-----------------------------------------------------------------------------
(* WorkerLink: the gateway hears how a job ended, or a report of it was lost. *)

\* The gateway has heard of the end of the job, or a report of it failed.
LinkHeard(t) == linkTold[t] \in LinkTerminal \/ t \in linkLost

LinkTypeOK ==
    /\ linkWatch \in [LinkTasks -> {"off", "on", "ending"}]
    /\ linkAssign \in [LinkTasks -> {"none", "ack", "done"}]
    /\ linkSeen \in [LinkTasks -> LinkTerminal \cup {"none", "queued", "running"}]
    /\ linkTold \in [LinkTasks -> LinkTerminal \cup {"none"}]
    /\ linkJob \in [LinkTasks -> LinkTerminal \cup {"none", "queued", "running"}]

\* A watcher ends, and a terminal status counts as reported, only if it was heard of; after
\* the handler of the assignment is done there is a watcher until then.
LinkInv ==
    /\ LinkTypeOK
    /\ \A t \in LinkTasks :
         /\ linkWatch[t] = "ending" => LinkHeard(t)
         /\ linkSeen[t] \in LinkTerminal => LinkHeard(t)
         /\ linkWatch[t] = "off" /\ linkAssign[t] = "done" /\ linkStop = "no" => LinkHeard(t)

\* A step that concerns no job keeps what is known of the jobs.
LEMMA LinkQuietKeeps ==
    ASSUME LinkInv, UNCHANGED linkJobs, linkStop' = linkStop \/ linkStop' # "no"
    PROVE  LinkInv'
  BY DEF LinkInv, LinkTypeOK, LinkHeard, linkJobs

\* Every step keeps the invariant.
LEMMA LinkNextKeeps == LinkInv /\ [LinkNext]_linkVars => LinkInv'
  <1> SUFFICES ASSUME LinkInv, [LinkNext]_linkVars
               PROVE  LinkInv'
    OBVIOUS
  <1> USE DEF LinkTerminal
  <1>0. LinkTypeOK
    BY DEF LinkInv
  <1>1. CASE LinkDial \/ LinkSessionStep \/ GatewayAnswers \/ ReaderAnswers
    BY <1>1, LinkQuietKeeps
       DEF LinkDial, LinkSessionStep, LinkDialFails, LinkBackoff, LinkAsk, LinkSend, LinkReceive, LinkLoop,
           GatewayAnswers, ReaderAnswers, linkCounts
  <1>2. ASSUME NEW l \in Links, LinkBreaks(l) \/ ReaderFails(l)
        PROVE  LinkInv'
    BY <1>2, LinkQuietKeeps DEF LinkBreaks, ReaderFails, linkCounts
  <1>3. CASE LinkCancelContext
    BY <1>3, LinkQuietKeeps DEF LinkCancelContext
  <1>4. CASE LinkStop
    BY <1>4 DEF LinkStop, LinkInv, LinkTypeOK, LinkHeard
  <1>5. ASSUME NEW t \in LinkTasks, AssignTask(t)
        PROVE  LinkInv'
    BY <1>5 DEF AssignTask, LinkInv, LinkTypeOK, LinkHeard, linkCounts
  <1>6. ASSUME NEW t \in LinkTasks, CancelTask(t) \/ LinkJobRuns(t)
        PROVE  LinkInv'
    <2>1. UNCHANGED <<linkAssign, linkWatch, linkSeen, linkTold, linkLost, linkStop>>
      BY <1>6 DEF CancelTask, LinkJobRuns, linkCounts
    <2>2. linkJob' \in [LinkTasks -> LinkTerminal \cup {"none", "queued", "running"}]
      <3>1. CASE CancelTask(t)
        BY <1>0, <3>1 DEF CancelTask, LinkTypeOK
      <3>2. CASE LinkJobRuns(t)
        BY <1>0, <3>2 DEF LinkJobRuns, LinkTypeOK
      <3> QED
        BY <1>6, <3>1, <3>2
    <2> QED
      BY <2>1, <2>2 DEF LinkInv, LinkTypeOK, LinkHeard
  <1>7. ASSUME NEW t \in LinkTasks, AssignWatches(t)
        PROVE  LinkInv'
    BY <1>7 DEF AssignWatches, EnsureWatcher, LinkInv, LinkTypeOK, LinkHeard, linkCounts
  <1>8. ASSUME NEW t \in LinkTasks, CancelWatches(t)
        PROVE  LinkInv'
    BY <1>8 DEF CancelWatches, EnsureWatcher, LinkInv, LinkTypeOK, LinkHeard, linkCounts
  <1>9. ASSUME NEW t \in LinkTasks, WatchJob(t)
        PROVE  LinkInv'
    <2>1. /\ linkSeen' = [linkSeen EXCEPT ![t] = linkJob[t]]
          /\ UNCHANGED <<linkJob, linkAssign, linkStop>>
          /\ linkWatch[t] = "on"
      BY <1>9 DEF WatchJob, linkCounts
    <2>2. \/ /\ linkJob[t] \in LinkTerminal /\ linkTold' = [linkTold EXCEPT ![t] = linkJob[t]]
             /\ linkWatch' = [linkWatch EXCEPT ![t] = "ending"] /\ UNCHANGED linkLost
          \/ /\ linkJob[t] \notin LinkTerminal /\ UNCHANGED <<linkTold, linkLost>>
             /\ linkWatch' = [linkWatch EXCEPT ![t] = "on"]
          \/ /\ UNCHANGED linkTold /\ linkLost' = linkLost \cup {t}
             /\ \E w \in {"on", "ending"} : linkWatch' = [linkWatch EXCEPT ![t] = w]
      BY <1>9 DEF WatchJob
    <2>3. LinkTypeOK'
      BY <1>0, <2>1, <2>2 DEF LinkTypeOK
    <2> QED
      BY <2>1, <2>2, <2>3 DEF LinkInv, LinkTypeOK, LinkHeard
  <1>10. ASSUME NEW t \in LinkTasks, WatchEnds(t)
         PROVE  LinkInv'
    BY <1>10 DEF WatchEnds, LinkInv, LinkTypeOK, LinkHeard, linkCounts
  <1>11. CASE UNCHANGED linkVars
    BY <1>11, LinkQuietKeeps DEF linkVars, linkCounts
  <1> QED
    BY <1>1, <1>2, <1>3, <1>4, <1>5, <1>6, <1>7, <1>8, <1>9, <1>10, <1>11 DEF LinkNext, LinkTaskStep

\* The gateway hears how a job ended, unless a report of the job failed or went nowhere.
THEOREM ResultsAreHeard == LinkSpec => []ResultLostOnlyWithLink
  <1>1. LinkInit => LinkInv
    BY DEF LinkInit, LinkFresh, LinkInv, LinkTypeOK, LinkTerminal
  <1>2. LinkInv => ResultLostOnlyWithLink
    BY DEF LinkInv, LinkHeard, ResultLostOnlyWithLink
  <1> QED
    BY <1>1, <1>2, LinkNextKeeps, PTL DEF LinkSpec
-----------------------------------------------------------------------------
(* AgentSessions: a turn reads its own events, and readers find the channel open. *)

AsPlaces == {"idle", "drained", "checked", "launched", "waiting"}
AsKinds == {"note", "result", "error"}
EventsFor(turns) == [type : AsKinds, turn : turns]

\* What Claude Code prints for prompt t and before the first one, without early results.
Printed(t) == [type : AsKinds, turn : {0, t}] \ {Event("result", 0)}
Resumes == [resuming : BOOLEAN, work : BOOLEAN, failed : BOOLEAN, early : BOOLEAN]

AsTypeOK ==
    /\ asKind \in AgentKinds
    /\ asTurn \in [no : 0 .. AgentTurns, at : AsPlaces]
    /\ asTurn.at # "idle" => asTurn.no \in AgentTurnNos
    /\ asReader \in [AgentTurnNos -> {"none", "reading", "waiting", "done"}]
    /\ asProc \in [AgentTurnNos -> {"none", "running", "ok", "failed"}]
    /\ asTodo \in [AgentTurnNos -> Seq(EventsFor(0 .. AgentTurns))]
    /\ asChan \in Seq(EventsFor(0 .. AgentTurns))
    /\ asPend \in Seq(0 .. AgentTurns)
    /\ asTook \in [AgentTurnNos -> SUBSET (0 .. AgentTurns)]
    /\ asInbox \in 0 .. AgentTurns /\ asServes \in 0 .. AgentTurns /\ asResume \in Resumes

\* Claude Code has one process and its reader, and closes its channel without a helper.
OneReader ==
    OneProcess =>
        /\ \A p \in AgentTurnNos \ {1} : asReader[p] = "none"
        /\ asTurn.at # "launched"
        /\ asCloser = "none"

\* Who has closed the channel, and that nobody it knew of still reads.
ClosedForReason ==
    /\ ~asOpen =>
         \/ OneProcess /\ NoneAtWork
         \/ asKind = "iflow" /\ asClose = "returned"
         \/ ~OneProcess /\ asCloser = "over"
    /\ asCloser = "over" /\ ~NoneAtWork => asLateAdd
    /\ asClose \in {"no", "asked"} => asCloser = "none"

\* With a process per turn: what is on its way was printed for no later turn than the
\* present one, and for no other one when the turn found nobody at work and no text left.
OwnEvents ==
    ~OneProcess =>
        /\ asChan \in Seq(EventsFor(1 .. asTurn.no))
        /\ asPend \in Seq(1 .. asTurn.no)
        /\ \A p \in AgentTurnNos : asTodo[p] \in Seq(EventsFor(1 .. asTurn.no))
        /\ \A p \in AgentTurnNos : p > asTurn.no => asReader[p] = "none" /\ asTodo[p] = <<>>
        /\ asTurn.no > 0 /\ asTurn.no \notin asOverlap =>
             /\ \A p \in AgentTurnNos : p < asTurn.no => ~AtWork(p)
             /\ asChan \in Seq(EventsFor({asTurn.no}))
             /\ asPend \in Seq({asTurn.no})
             /\ asTodo[asTurn.no] \in Seq(EventsFor({asTurn.no}))

\* The engine can send again.
AtRest == asTurn.at \in {"drained", "checked"} \/ (asTurn.at = "idle" /\ asClose = "no")

\* With one process, while no early result was passed on: the newest prompt that was written is
\* the one the process works on or has answered, or it has yet to read it; a result is its
\* answer, with nothing behind it; and nothing is on its way once the engine can send again.
ClaudeRuns ==
    /\ asSaid \subseteq 1 .. asInbox /\ asServes \in {0, asInbox} \cup asSaid
    /\ asInbox \in asSaid \cup {0} => asServes = asInbox
    /\ asInbox <= asTurn.no /\ (asTurn.at \in {"drained", "checked"} => asInbox < asTurn.no)
    /\ Len(asTodo[1]) <= 1
    /\ \A i \in 1 .. Len(asTodo[1]) : asTodo[1][i].type = "result" => asInbox \in asSaid
    /\ \A i \in 1 .. Len(asChan) :
         asChan[i].type = "result" => asInbox \in asSaid /\ i = Len(asChan) /\ asTodo[1] = <<>>
    /\ AtRest => asInbox = 0 \/ (asInbox \in asSaid /\ asChan = <<>> /\ asTodo[1] = <<>>)

ClaudeEvents ==
    OneProcess /\ ~asResume.early =>
        /\ asChan \in Seq(Printed(asInbox))
        /\ asTodo[1] \in Seq(Printed(asInbox))
        /\ asTurn.at = "waiting" => asInbox = asTurn.no
        /\ asProc[1] = "running" => ClaudeRuns

AsInv ==
    /\ AsTypeOK /\ OneReader
    /\ ClosedForReason /\ SendsOnOpenChannel
    /\ OwnEvents /\ ClaudeEvents /\ ForeignEvents

\* The turns are numbered from one.
LEMMA FirstTurn == 1 \in AgentTurnNos /\ AgentTurns \in Nat /\ AgentTurnNos \subseteq 0 .. AgentTurns
  BY AgentAssumption DEF AgentTurnNos

\* A queue of members of a set is a queue of members of a larger one.
LEMMA SeqGrows ==
    ASSUME NEW S, NEW T, S \subseteq T, NEW s \in Seq(S)
    PROVE  s \in Seq(T)
  OBVIOUS

\* One event for a turn, and the texts of the buffer sent as notes.
LEMMA OneEvent ==
    ASSUME NEW T, NEW t \in T
    PROVE  /\ Note(t) \in Seq(EventsFor(T))
           /\ Result(t) \in Seq(EventsFor(T))
           /\ Failure(t) \in Seq(EventsFor(T))
  BY DEF Note, Result, Failure, Event, EventsFor, AsKinds

\* A flushed buffer is a queue of notes for the turns of its texts.
LEMMA FlushedOf ==
    ASSUME NEW T, asPend \in Seq(T)
    PROVE  Flushed \in Seq(EventsFor(T))
<1>1. \A i \in 1 .. Len(asPend) : Event("note", asPend[i]) \in EventsFor(T)
  BY DEF Event, EventsFor, AsKinds
<1>2. Len(asPend) \in Nat
  OBVIOUS
<1> QED
  BY <1>1, <1>2 DEF Flushed

\* The lines of the adapters with a process per turn: the reader of turn t sends events for
\* turns whose texts it holds, or for its own.
LEMMA LinesOfTurns ==
    ASSUME AsTypeOK, ~OneProcess, AgentLine
    PROVE  \E t \in AgentTurnNos :
             /\ asReader[t] = "reading"
             /\ \E events : asTodo' = [asTodo EXCEPT ![t] = events]
             /\ \A T : asPend \in Seq(T) /\ t \in T =>
                    asTodo'[t] \in Seq(EventsFor(T)) /\ asPend' \in Seq(T)
             /\ UNCHANGED <<asHeld, asProc, asServes, asFlags, asWire, asReader, asShut, asTurn, asHist, asResume>>
<1>1. PICK t \in AgentTurnNos :
        CodexLine(t) \/ GeminiLine(t) \/ CursorLine(t) \/ QoderLine(t) \/ OpencodeLine(t) \/ IflowLine(t)
  BY DEF AgentLine, ClaudeLine
<1>2. UNCHANGED asResume
  BY <1>1 DEF CodexLine, GeminiLine, CursorLine, QoderLine, OpencodeLine, IflowLine, NoTimer
<1>3. /\ asReader[t] = "reading"
      /\ \E events, pend, last : Line(t, t, events, pend, last)
  BY <1>1, Zenon DEF CodexLine, CodexItem, GeminiLine, CursorLine, QoderLine, OpencodeLine, IflowLine,
     BufferText, SendNote, Line
<1>4. ASSUME NEW T, asPend \in Seq(T), t \in T
      PROVE  asTodo'[t] \in Seq(EventsFor(T)) /\ asPend' \in Seq(T)
  <2> DEFINE Fits(events, pend) == events \in Seq(EventsFor(T)) /\ pend \in Seq(T)
  <2>1. ASSUME NEW events, NEW pend, NEW last, Fits(events, pend), Line(t, t, events, pend, last)
        PROVE  asTodo'[t] \in Seq(EventsFor(T)) /\ asPend' \in Seq(T)
    BY <2>1 DEF Line, AsTypeOK
  <2>2. /\ <<>> \in Seq(T) /\ <<>> \in Seq(EventsFor(T)) /\ Append(asPend, t) \in Seq(T)
        /\ Note(t) \in Seq(EventsFor(T)) /\ Result(t) \in Seq(EventsFor(T)) /\ Failure(t) \in Seq(EventsFor(T))
        /\ Flushed \in Seq(EventsFor(T))
    BY <1>4, OneEvent, FlushedOf
  <2>3. \A e : e \in Seq(EventsFor(T)) => Flushed \o e \in Seq(EventsFor(T))
    BY <2>2
  <2> HIDE DEF Fits
  <2>4. /\ Fits(<<>>, <<>>) /\ Fits(<<>>, asPend) /\ Fits(<<>>, Append(asPend, t)) /\ Fits(Flushed, <<>>)
        /\ Fits(Note(t), asPend) /\ Fits(Result(t), asPend) /\ Fits(Failure(t), asPend)
        /\ Fits(Flushed \o Note(t), <<>>) /\ Fits(Flushed \o Result(t), <<>>) /\ Fits(Flushed \o Failure(t), <<>>)
    BY <1>4, <2>2, <2>3 DEF Fits
  <2>5. \E events, pend, last : Fits(events, pend) /\ Line(t, t, events, pend, last)
    <3>1. CASE CodexLine(t)
      BY <3>1, <2>4, Zenon DEF CodexLine, CodexItem, BufferText, SendNote
    <3>2. CASE GeminiLine(t)
      BY <3>2, <2>4, Zenon DEF GeminiLine, BufferText, SendNote
    <3>3. CASE CursorLine(t)
      BY <3>3, <2>4, Zenon DEF CursorLine, BufferText, SendNote
    <3>4. CASE QoderLine(t) \/ OpencodeLine(t) \/ IflowLine(t)
      BY <3>4, <2>4, Zenon DEF QoderLine, OpencodeLine, IflowLine, SendNote
    <3> QED
      BY <1>1, <3>1, <3>2, <3>3, <3>4
  <2> QED
    BY <2>1, <2>5
<1>5. /\ \E events : asTodo' = [asTodo EXCEPT ![t] = events]
      /\ UNCHANGED <<asHeld, asProc, asServes, asFlags, asWire, asReader, asShut, asTurn, asHist>>
  BY <1>3, Zenon DEF Line
<1> QED
  BY <1>2, <1>3, <1>4, <1>5

\* A line of Claude Code is the reader's of its one process.  Unless a result that was printed
\* before the first prompt was passed on, only an answer is a result, and the last line.
LEMMA LinesOfClaude ==
    ASSUME AsTypeOK, OneProcess, AgentLine
    PROVE  /\ asReader[1] = "reading" /\ asTodo[1] = <<>> /\ asProc[1] = "running"
           /\ asServes \notin asSaid
           /\ asTodo'[1] \in Seq(EventsFor(0 .. AgentTurns))
           /\ asTodo' = [asTodo EXCEPT ![1] = asTodo'[1]]
           /\ UNCHANGED <<asHeld, asProc, asServes, asFlags, asWire, asReader, asPend, asShut, asTurn, asHist>>
           /\ asResume' \in Resumes /\ (asResume.early => asResume'.early)
           /\ \/ /\ asTodo'[1] \in {<<>>, Note(asServes), Failure(asServes)}
                 /\ asSaid' = asSaid \/ (asServes > 0 /\ asSaid' = asSaid \cup {asServes})
              \/ asServes > 0 /\ asTodo'[1] = Result(asServes) /\ asSaid' = asSaid \cup {asServes}
              \/ asResume'.early
<1>1. ClaudeLine
  BY DEF AgentLine, OneProcess, CodexLine, GeminiLine, CursorLine, QoderLine, OpencodeLine, IflowLine
<1> DEFINE t == asServes
<1>2. t \in 0 .. AgentTurns /\ 1 \in AgentTurnNos /\ asResume \in Resumes
  BY FirstTurn DEF AsTypeOK
<1>3. /\ Note(t) \in Seq(EventsFor(0 .. AgentTurns)) /\ Result(t) \in Seq(EventsFor(0 .. AgentTurns))
      /\ Failure(t) \in Seq(EventsFor(0 .. AgentTurns)) /\ <<>> \in Seq(EventsFor(0 .. AgentTurns))
  <2>1. \A T : <<>> \in Seq(T)
    OBVIOUS
  <2>2. /\ Note(t) \in Seq(EventsFor(0 .. AgentTurns)) /\ Result(t) \in Seq(EventsFor(0 .. AgentTurns))
        /\ Failure(t) \in Seq(EventsFor(0 .. AgentTurns))
    BY <1>2, OneEvent, Zenon
  <2> QED
    BY <2>1, <2>2, Zenon
<1> DEFINE After(events) ==
             /\ asReader[1] = "reading" /\ asTodo[1] = <<>> /\ asProc[1] = "running"
             /\ asServes \notin asSaid
             /\ asTodo' = [asTodo EXCEPT ![1] = events] /\ asTodo'[1] = events
             /\ UNCHANGED <<asHeld, asProc, asServes, asFlags, asWire, asReader, asPend, asShut, asTurn, asHist>>
<1>4. ASSUME NEW events, NEW last, Line(1, t, events, asPend, last)
      PROVE  After(events) /\ asSaid' = (IF last THEN asSaid \cup {t} ELSE asSaid)
  BY <1>2, <1>4 DEF Line, AsTypeOK
<1> HIDE DEF After
<1>5. PICK events, last :
        /\ Line(1, t, events, asPend, last)
        /\ asResume' \in Resumes /\ (asResume.early => asResume'.early)
        /\ \/ events \in {<<>>, Note(t), Failure(t)} /\ (last => t > 0)
           \/ events = Result(t) /\ ((t > 0 /\ last) \/ asResume'.early)
  <2>1. CASE ClaudeNote(t)
    <3>1. PICK events \in {Note(t), <<>>} : Line(1, t, events, asPend, FALSE)
      BY <2>1 DEF ClaudeNote
    <3>2. asResume' \in Resumes /\ asResume'.early = asResume.early
      BY <1>2, <2>1 DEF ClaudeNote, Resumes
    <3> QED
      BY <3>1, <3>2
  <2>2. CASE ClaudeResult(t)
    <3>1. CASE Line(1, t, <<>>, asPend, FALSE) /\ UNCHANGED asResume
      BY <1>2, <3>1
    <3>2. CASE /\ Line(1, t, Result(t), asPend, t > 0)
               /\ asResume' = [asResume EXCEPT !.resuming = FALSE, !.early = @ \/ t = 0]
      <4>1. asResume' \in Resumes /\ asResume'.early = (asResume.early \/ t = 0)
        BY <1>2, <3>2 DEF Resumes
      <4>2. t > 0 \/ asResume'.early
        <5>1. t > 0 \/ t = 0
          BY <1>2, FirstTurn
        <5>2. t = 0 => asResume'.early
          BY <4>1, Zenon
        <5> QED
          BY <5>1, <5>2
      <4>3. (asResume.early => asResume'.early) /\ ((t > 0) => t > 0)
        BY <4>1, Zenon
      <4> QED
        BY <3>2, <4>1, <4>2, <4>3, Zenon
    <3> QED
      BY <2>2, <3>1, <3>2 DEF ClaudeResult
  <2>3. CASE ClaudeError(t)
    <3>1. Line(1, t, Failure(t), asPend, t > 0)
      BY <2>3 DEF ClaudeError
    <3>2. asResume' \in Resumes /\ asResume'.early = asResume.early
      BY <1>2, <2>3 DEF ClaudeError, Resumes
    <3>3. (asResume.early => asResume'.early) /\ ((t > 0) => t > 0)
      BY <3>2, Zenon
    <3> QED
      BY <3>1, <3>2, <3>3, Zenon
  <2> QED
    BY <1>1, <2>1, <2>2, <2>3 DEF ClaudeLine
<1>6. After(events) /\ asSaid' = (IF last THEN asSaid \cup {t} ELSE asSaid)
  BY <1>4, <1>5
<1>7. asTodo'[1] = events /\ events \in Seq(EventsFor(0 .. AgentTurns))
  BY <1>3, <1>5, <1>6 DEF After
<1> QED
  BY <1>5, <1>6, <1>7 DEF After

\* The end of the output: what the reader has yet to send.
LEMMA EndsOfReaders ==
    ASSUME AsTypeOK, NEW p \in AgentTurnNos, OutputEnds(p) \/ IflowEnds(p)
    PROVE  /\ asReader[p] = "reading" /\ asProc[p] # "running"
           /\ asReader' = [asReader EXCEPT ![p] = "waiting"]
           /\ asTodo' = [asTodo EXCEPT ![p] = asTodo'[p]]
           /\ UNCHANGED <<asProgram, asKind, asCancelled, asBusy, asInbox, asWire, asPend, asTimer, asResume,
                          asShut, asTurn, asHist>>
           /\ \A T : (IF OneProcess THEN asInbox ELSE p) \in T => asTodo'[p] \in Seq(EventsFor(T))
           /\ OneProcess => asTodo'[p] \in {<<>>, Failure(asInbox)}
<1> DEFINE t == IF OneProcess THEN asInbox ELSE p
           Ends == {<<>>, Result(t), Failure(t)}
<1>1. PICK events \in Ends : ReaderAtEnd(p, events) /\ (OneProcess => events \in {<<>>, Failure(asInbox)})
  <2>1. CASE OutputEnds(p)
    BY <2>1 DEF OutputEnds
  <2>2. CASE IflowEnds(p)
    BY <2>2 DEF IflowEnds, OneProcess
  <2> QED
    BY <2>1, <2>2
<1>2. asTodo' = [asTodo EXCEPT ![p] = events] /\ asTodo'[p] = events
  BY <1>1 DEF ReaderAtEnd, AsTypeOK
<1>3. \A T : t \in T => events \in Seq(EventsFor(T))
  <2> SUFFICES ASSUME NEW T, t \in T PROVE events \in Seq(EventsFor(T))
    OBVIOUS
  <2>1. <<>> \in Seq(EventsFor(T)) /\ Result(t) \in Seq(EventsFor(T)) /\ Failure(t) \in Seq(EventsFor(T))
    BY OneEvent
  <2> QED
    BY <2>1
<1>4. OneProcess => events \in {<<>>, Failure(asInbox)}
  BY <1>1
<1> QED
  BY <1>1, <1>2, <1>3, <1>4 DEF ReaderAtEnd

\* Every step keeps the types.
LEMMA AsTypeStep == AsTypeOK /\ OneReader /\ [AgentNext]_asVars => AsTypeOK'
<1> SUFFICES ASSUME AsTypeOK, OneReader, [AgentNext]_asVars PROVE AsTypeOK'
  OBVIOUS
<1> USE FirstTurn
<1>1. CASE EngineStep
  <2>1. CASE EngineDrains
    BY <2>1 DEF EngineDrains, DrainEvents, AsTypeOK, asVars, asProgram, asFlags, asRead, AsPlaces, AgentTurnNos
  <2>2. CASE EngineTakes
    <3>1. Head(asChan) \in EventsFor(0 .. AgentTurns) /\ Tail(asChan) \in Seq(EventsFor(0 .. AgentTurns))
      BY <2>2 DEF EngineTakes, AsTypeOK
    <3>2. Head(asChan).turn \in 0 .. AgentTurns
      BY <3>1 DEF EventsFor
    <3>3. asTurn' \in [no : 0 .. AgentTurns, at : AsPlaces] /\ asTurn'.at \in {"idle", "waiting"} /\ asTurn'.no = asTurn.no
      BY <2>2 DEF EngineTakes, EngineAt, AsTypeOK, AsPlaces
    <3>4. asTurn.no \in AgentTurnNos
      BY <2>2 DEF EngineTakes, AsTypeOK
    <3> QED
      BY <2>2, <3>1, <3>2, <3>3, <3>4 DEF EngineTakes, AsTypeOK, asProgram, asFlags, asRead
  <2>3. CASE EngineLeaves
    BY <2>3 DEF EngineLeaves, EngineAt, AsTypeOK, AsPlaces, asProgram, asFlags, asWire, asRead, asHist
  <2> QED
    BY <1>1, <2>1, <2>2, <2>3 DEF EngineStep, EngineSeesClosed, EngineStopped, EngineTimesOut
<1>2. CASE SendStep
  <2>1. CASE SendChecks
    BY <2>1 DEF SendChecks, EngineAt, AsTypeOK, AsPlaces, asProgram, asWire, asRead, asHist
  <2>2. CASE ClaudeSend
    BY <2>2 DEF ClaudeSend, EngineAt, AsTypeOK, AsPlaces, AgentTurnNos, asProgram, asWire, asRead, asHist
  <2>3. CASE Launch
    BY <2>3 DEF Launch, LaunchFails, EngineAt, AsTypeOK, AsPlaces, asWire, asRead, asHist
  <2>4. CASE SendReads
    BY <2>4 DEF SendReads, EngineAt, AsTypeOK, AsPlaces, asProgram, asFlags, asWire
  <2> QED
    BY <1>2, <2>1, <2>2, <2>3, <2>4
    DEF SendStep, CodexSend, GeminiSend, CursorSend, QoderSend, OpencodeSend, IflowSend
<1>3. CASE CloseAsked
  BY <1>3 DEF CloseAsked, AsTypeOK, asProgram, asFlags, asWire, asRead, asHist
<1>4. CASE CloseStep
  <2>1. CASE ClaudeClose \/ CloseBegins \/ CloserDone
    BY <2>1 DEF ClaudeClose, CloseBegins, CloserDone, AsTypeOK, asProgram, asFlags, asWire, asRead, asHist
  <2>2. CASE \E gaveUp : CloseReturns(gaveUp)
    BY <2>2 DEF CloseReturns, AsTypeOK, asProgram, asFlags, asRead, asHist
  <2>3. CASE CodexKillsGroup
    BY <2>3 DEF CodexKillsGroup, AsTypeOK, asFlags, asWire, asRead, asHist
  <2> QED
    BY <1>4, <2>1, <2>2, <2>3
    DEF CloseStep, CodexClose, GeminiClose, CursorClose, QoderClose, OpencodeClose, IflowClose
<1>5. CASE AgentLine
  <2>1. CASE OneProcess
    <3>1. asTodo' \in [AgentTurnNos -> Seq(EventsFor(0 .. AgentTurns))]
      BY <1>5, <2>1, LinesOfClaude DEF AsTypeOK
    <3> QED
      BY <1>5, <2>1, <3>1, LinesOfClaude DEF AsTypeOK, asFlags, asWire, asHist
  <2>2. CASE ~OneProcess
    <3>1. PICK t \in AgentTurnNos :
             /\ \E events : asTodo' = [asTodo EXCEPT ![t] = events]
             /\ \A T : asPend \in Seq(T) /\ t \in T =>
                    asTodo'[t] \in Seq(EventsFor(T)) /\ asPend' \in Seq(T)
             /\ UNCHANGED <<asHeld, asProc, asServes, asFlags, asWire, asReader, asShut, asTurn, asHist, asResume>>
      BY <1>5, <2>2, LinesOfTurns
    <3>2. asPend \in Seq(0 .. AgentTurns) /\ t \in 0 .. AgentTurns
      BY DEF AsTypeOK
    <3>3. asTodo'[t] \in Seq(EventsFor(0 .. AgentTurns)) /\ asPend' \in Seq(0 .. AgentTurns)
      BY <3>1, <3>2
    <3>4. asTodo' \in [AgentTurnNos -> Seq(EventsFor(0 .. AgentTurns))]
      BY <3>1, <3>3 DEF AsTypeOK
    <3> QED
      BY <3>1, <3>3, <3>4 DEF AsTypeOK, asFlags, asWire, asHist
  <2> QED
    BY <2>1, <2>2
<1>6. CASE ClaudeReadsPrompt
  BY <1>6 DEF ClaudeReadsPrompt, AsTypeOK, asFlags, asWire, asRead, asHist
<1>7. ASSUME NEW p \in AgentTurnNos, IflowTimer(p) \/ ProcessEnds(p) \/ ReaderStep(p)
      PROVE  AsTypeOK'
  <2>1. CASE IflowTimer(p) \/ ProcessEnds(p)
    BY <2>1 DEF IflowTimer, ProcessEnds, AsTypeOK, asFlags, asWire, asRead, asHist
  <2>2. CASE ReaderSends(p)
    <3>1. Head(asTodo[p]) \in EventsFor(0 .. AgentTurns) /\ Tail(asTodo[p]) \in Seq(EventsFor(0 .. AgentTurns))
      BY <2>2 DEF ReaderSends, AsTypeOK
    <3>2. asChan' \in Seq(EventsFor(0 .. AgentTurns))
      <4> DEFINE e == Head(asTodo[p])
      <4>1. asChan' = Append(asChan, e) \/ asChan' = asChan
        BY <2>2 DEF ReaderSends
      <4>2. asChan \in Seq(EventsFor(0 .. AgentTurns))
        BY DEF AsTypeOK
      <4>3. e \in EventsFor(0 .. AgentTurns)
        BY <3>1
      <4> HIDE DEF e
      <4> QED
        BY <4>1, <4>2, <4>3
    <3> QED
      BY <2>2, <3>1, <3>2 DEF ReaderSends, AsTypeOK, asProgram, asFlags, asHist
  <2>3. CASE ReaderDrops(p)
    BY <2>3 DEF ReaderDrops, AsTypeOK, asProgram, asFlags, asWire, asHist
  <2>4. CASE OutputEnds(p) \/ IflowEnds(p)
    <3>1. asTodo'[p] \in Seq(EventsFor(0 .. AgentTurns)) /\ asReader' = [asReader EXCEPT ![p] = "waiting"]
          /\ asTodo' = [asTodo EXCEPT ![p] = asTodo'[p]]
      <4>1. (IF OneProcess THEN asInbox ELSE p) \in 0 .. AgentTurns
        BY DEF AsTypeOK
      <4> QED
        BY <2>4, <4>1, EndsOfReaders
    <3>2. UNCHANGED <<asProgram, asKind, asInbox, asWire, asPend, asResume, asShut, asTurn, asHist>>
      BY <2>4, EndsOfReaders
    <3> QED
      BY <3>1, <3>2 DEF AsTypeOK, asProgram, asWire, asHist
  <2>5. CASE ReaderDone(p)
    BY <2>5 DEF ReaderDone, AsTypeOK, asProgram, asHist
  <2> QED
    BY <1>7, <2>1, <2>2, <2>3, <2>4, <2>5 DEF ReaderStep
<1>8. CASE UNCHANGED asVars
  BY <1>8 DEF asVars, AsTypeOK, asProgram, asFlags, asWire, asRead, asHist
<1> QED
  BY <1>1, <1>2, <1>3, <1>4, <1>5, <1>6, <1>7, <1>8 DEF AgentNext

\* What the state of the channel depends on.
asGate == <<asKind, asOpen, asReader, asClose, asCloser, asLateAdd, asPanic>>
OpenForReaders == OneReader /\ ClosedForReason /\ SendsOnOpenChannel

\* A step that leaves the gate, or takes Close further, keeps what is known of the channel.
LEMMA GateKept ==
    ASSUME OpenForReaders, UNCHANGED <<asKind, asOpen, asReader, asCloser, asLateAdd, asPanic>>,
           asClose = "returned" => asClose' = "returned",
           asClose' \in {"no", "asked"} => asClose \in {"no", "asked"},
           asTurn'.at = asTurn.at \/ asTurn'.at # "launched"
    PROVE  OpenForReaders'
  BY Zenon DEF OpenForReaders, OneReader, ClosedForReason, SendsOnOpenChannel, OneProcess, NoneAtWork, AtWork

\* Every step keeps it.
LEMMA GateStep == AsTypeOK /\ OpenForReaders /\ [AgentNext]_asVars => OpenForReaders'
<1> SUFFICES ASSUME AsTypeOK, OpenForReaders, [AgentNext]_asVars PROVE OpenForReaders'
  OBVIOUS
<1>1. CASE EngineStep
  <2>1. CASE EngineDrains
    BY <2>1, GateKept DEF EngineDrains, asFlags, asRead, asShut
  <2>2. CASE EngineTakes
    BY <2>2, GateKept DEF EngineTakes, EngineAt, EngineAsks, AsTypeOK, asFlags, asRead, asShut
  <2>3. CASE EngineLeaves
    BY <2>3, GateKept DEF EngineLeaves, EngineAt, EngineAsks, AsTypeOK, asFlags, asRead, asWire, asHist
  <2> QED
    BY <1>1, <2>1, <2>2, <2>3 DEF EngineStep, EngineSeesClosed, EngineStopped, EngineTimesOut
<1>2. CASE SendStep
  <2>1. CASE SendChecks \/ ClaudeSend
    BY <2>1, GateKept DEF SendChecks, ClaudeSend, EngineAt, AsTypeOK, asFlags, asRead, asWire, asHist, asShut
  <2>2. CASE ~OneProcess /\ Launch
    <3>1. UNCHANGED asGate
      BY <2>2 DEF Launch, asFlags, asRead, asWire, asHist, asShut, asGate
    <3> QED
      BY <2>2, <3>1, Zenon DEF asGate, OpenForReaders, OneReader, ClosedForReason, SendsOnOpenChannel,
         OneProcess, NoneAtWork, AtWork
  <2>3. CASE SendReads
    <3>1. ~OneProcess
      BY <2>3 DEF SendReads, OpenForReaders, OneReader
    <3>2. UNCHANGED <<asKind, asOpen, asClose, asCloser, asPanic>> /\ asLateAdd' = (asLateAdd \/ asCloser = "over")
      BY <2>3 DEF SendReads, asFlags, asWire, asShut
    <3> QED
      BY <3>1, <3>2 DEF OpenForReaders, OneReader, ClosedForReason, SendsOnOpenChannel, OneProcess
  <2> QED
    BY <1>2, <2>1, <2>2, <2>3
    DEF SendStep, OneProcess, CodexSend, GeminiSend, CursorSend, QoderSend, OpencodeSend, IflowSend
<1>3. CASE CloseAsked
  BY <1>3, GateKept DEF CloseAsked, asFlags, asWire, asRead, asHist
<1>4. CASE CloseStep
  <2>1. CASE ClaudeClose
    BY <2>1, GateKept DEF ClaudeClose, asWire, asRead, asHist
  <2>2. CASE CloseBegins
    <3>1. /\ ~OneProcess /\ asClose = "asked"
          /\ UNCHANGED <<asKind, asOpen, asReader, asLateAdd, asPanic>> /\ asCloser' = "waiting"
          /\ asClose' = "waiting"
      BY <2>2 DEF CloseBegins, asWire, asRead, asHist
    <3> QED
      BY <3>1 DEF OpenForReaders, OneReader, ClosedForReason, SendsOnOpenChannel, OneProcess, NoneAtWork, AtWork
  <2>3. CASE CloserDone
    <3>1. /\ asCloser = "waiting" /\ NoneAtWork /\ asCloser' = "over"
          /\ asOpen' = (asOpen /\ asKind = "iflow")
          /\ UNCHANGED <<asKind, asReader, asClose, asLateAdd, asPanic>>
      BY <2>3 DEF CloserDone, asFlags, asRead, asHist
    <3>2. NoneAtWork'
      BY <3>1 DEF NoneAtWork, AtWork
    <3> QED
      BY <3>1, <3>2 DEF OpenForReaders, OneReader, ClosedForReason, SendsOnOpenChannel, OneProcess
  <2>4. CASE \E gaveUp : CloseReturns(gaveUp)
    <3>1. /\ ~OneProcess /\ asClose' = "returned"
          /\ asOpen' = (asOpen /\ asKind # "iflow")
          /\ UNCHANGED <<asKind, asReader, asCloser, asLateAdd, asPanic>>
      BY <2>4 DEF CloseReturns, asFlags, asRead, asHist
    <3>2. NoneAtWork' <=> NoneAtWork
      BY <3>1 DEF NoneAtWork, AtWork
    <3> QED
      BY <3>1, <3>2 DEF OpenForReaders, OneReader, ClosedForReason, SendsOnOpenChannel, OneProcess
  <2>5. CASE CodexKillsGroup
    BY <2>5, GateKept DEF CodexKillsGroup, asFlags, asWire, asRead, asHist
  <2> QED
    BY <1>4, <2>1, <2>2, <2>3, <2>4, <2>5
    DEF CloseStep, CodexClose, GeminiClose, CursorClose, QoderClose, OpencodeClose, IflowClose
<1>5. CASE AgentLine
  <2>1. UNCHANGED <<asFlags, asWire, asReader, asShut, asTurn, asHist>>
    <3>1. CASE OneProcess
      BY <1>5, <3>1, LinesOfClaude
    <3>2. CASE ~OneProcess
      BY <1>5, <3>2, LinesOfTurns
    <3> QED
      BY <3>1, <3>2
  <2> QED
    BY <2>1, GateKept DEF asFlags, asWire, asHist, asShut
<1>6. CASE ClaudeReadsPrompt
  BY <1>6, GateKept DEF ClaudeReadsPrompt, asFlags, asWire, asRead, asHist, asShut
<1>7. ASSUME NEW p \in AgentTurnNos, IflowTimer(p) \/ ProcessEnds(p) \/ ReaderStep(p)
      PROVE  OpenForReaders'
  <2>1. CASE IflowTimer(p) \/ ProcessEnds(p) \/ ReaderDrops(p)
    BY <2>1, GateKept DEF IflowTimer, ProcessEnds, ReaderDrops, asFlags, asWire, asRead, asHist, asShut
  <2>2. CASE ReaderSends(p)
    <3>1. UNCHANGED <<asKind, asOpen, asReader, asClose, asCloser, asLateAdd, asTurn>> /\ ~NoneAtWork
      BY <2>2 DEF ReaderSends, NoneAtWork, asFlags, asHist, asShut
    <3>2. asPanic' = asPanic \/ ~asOpen
      BY <2>2 DEF ReaderSends
    <3>3. CASE asPanic' = asPanic
      BY <3>1, <3>3, GateKept
    <3>4. CASE ~asOpen
      <4>1. asLateAdd \/ (asKind = "iflow" /\ asClose = "returned")
        BY <3>1, <3>4 DEF OpenForReaders, ClosedForReason
      <4> QED
        BY <3>1, <4>1, Zenon DEF OpenForReaders, OneReader, ClosedForReason, SendsOnOpenChannel, OneProcess,
           NoneAtWork, AtWork
    <3> QED
      BY <3>2, <3>3, <3>4
  <2>3. CASE OutputEnds(p) \/ IflowEnds(p) \/ ReaderDone(p)
    <3>1. /\ asReader[p] \in {"reading", "waiting"}
          /\ \E how \in {"waiting", "done"} : asReader' = [asReader EXCEPT ![p] = how]
          /\ UNCHANGED <<asKind, asClose, asCloser, asLateAdd, asPanic, asTurn>>
          /\ ~asOpen' => ~asOpen \/ (asReader'[p] = "done" /\ OneProcess)
      <4>1. CASE ReaderDone(p)
        BY <4>1 DEF ReaderDone, AsTypeOK, asHist, asShut
      <4>2. CASE OutputEnds(p) \/ IflowEnds(p)
        BY <4>2, EndsOfReaders DEF asWire, asHist, asShut
      <4> QED
        BY <2>3, <4>1, <4>2
    <3>2. \A q \in AgentTurnNos : AtWork(q)' => AtWork(q)
      BY <3>1 DEF AtWork, AsTypeOK
    <3>3. NoneAtWork => NoneAtWork'
      BY <3>2 DEF NoneAtWork
    <3>4. OneReader'
      BY <3>1 DEF OpenForReaders, OneReader, OneProcess, AsTypeOK
    <3>5. ~asOpen' => ~asOpen \/ (OneProcess /\ NoneAtWork')
      <4>1. CASE OneProcess /\ asReader'[p] = "done"
        <5>1. p = 1
          BY <3>1, <4>1 DEF OpenForReaders, OneReader
        <5>2. \A q \in AgentTurnNos \ {1} : asReader'[q] = "none"
          BY <3>4, <3>1, <4>1 DEF OneReader, OneProcess
        <5> QED
          BY <4>1, <5>1, <5>2 DEF NoneAtWork, AtWork
      <4> QED
        BY <3>1, <4>1
    <3> QED
      BY <3>1, <3>3, <3>4, <3>5 DEF OpenForReaders, ClosedForReason, SendsOnOpenChannel, OneProcess
  <2> QED
    BY <1>7, <2>1, <2>2, <2>3 DEF ReaderStep
<1>8. CASE UNCHANGED asVars
  BY <1>8, GateKept DEF asVars, asFlags, asWire, asRead, asHist, asShut
<1> QED
  BY <1>1, <1>2, <1>3, <1>4, <1>5, <1>6, <1>7, <1>8 DEF AgentNext

\* Events for some turns are events for more turns.
LEMMA EventsGrow ==
    ASSUME NEW S, NEW T, S \subseteq T, NEW s \in Seq(EventsFor(S))
    PROVE  s \in Seq(EventsFor(T))
<1>1. EventsFor(S) \subseteq EventsFor(T)
  BY DEF EventsFor
<1> QED
  BY <1>1, SeqGrows

\* The first of a queue, the rest of it, and a queue with one event more.
LEMMA QueueParts ==
    ASSUME NEW E, NEW s \in Seq(E), s # <<>>
    PROVE  /\ Head(s) \in E /\ Tail(s) \in Seq(E)
           /\ \A F : \A q \in Seq(F) : E \subseteq F => Append(q, Head(s)) \in Seq(F)
<1>1. Head(s) \in E /\ Tail(s) \in Seq(E)
  OBVIOUS
<1>2. ASSUME NEW F, NEW q \in Seq(F), E \subseteq F
      PROVE  Append(q, Head(s)) \in Seq(F)
  <2>1. Head(s) \in F
    BY <1>1, <1>2
  <2> QED
    BY <2>1
<1> QED
  BY <1>1, <1>2

OwnOnly == OwnEvents /\ ForeignEvents

\* A step that takes nothing, sends nothing and starts no turn and no reader.
LEMMA OwnKept ==
    ASSUME OwnOnly, ~OneProcess,
           UNCHANGED <<asKind, asChan, asPend, asOverlap, asTook>>,
           asTurn'.no = asTurn.no, asTurn.no \in 0 .. AgentTurns,
           \A p \in AgentTurnNos : asTodo'[p] = asTodo[p] \/ asTodo'[p] = <<>>,
           \A p \in AgentTurnNos : AtWork(p)' => AtWork(p),
           \A p \in AgentTurnNos : asReader[p] = "none" => asReader'[p] = "none"
    PROVE  OwnOnly'
<1>1. ForeignEvents'
  BY DEF OwnOnly, ForeignEvents, OneProcess
<1> DEFINE n == asTurn.no
<1>2. ~OneProcess'
  BY DEF OneProcess
<1>3. /\ asChan' \in Seq(EventsFor(1 .. n)) /\ asPend' \in Seq(1 .. n)
      /\ \A p \in AgentTurnNos : asTodo'[p] \in Seq(EventsFor(1 .. n))
      /\ \A p \in AgentTurnNos : p > n => asReader'[p] = "none" /\ asTodo'[p] = <<>>
  <2>1. <<>> \in Seq(EventsFor(1 .. n))
    OBVIOUS
  <2> QED
    BY <2>1 DEF OwnOnly, OwnEvents
<1>4. ASSUME n > 0, n \notin asOverlap
      PROVE  /\ \A p \in AgentTurnNos : p < n => ~AtWork(p)'
             /\ asChan' \in Seq(EventsFor({n})) /\ asPend' \in Seq({n})
             /\ asTodo'[n] \in Seq(EventsFor({n}))
  <2>1. <<>> \in Seq(EventsFor({n})) /\ n \in AgentTurnNos
    BY <1>4, FirstTurn DEF AgentTurnNos
  <2> QED
    BY <1>4, <2>1 DEF OwnOnly, OwnEvents
<1> QED
  BY <1>1, <1>2, <1>3, <1>4 DEF OwnOnly, OwnEvents

\* Every step of an adapter with a process per turn keeps a turn to its own events.
LEMMA OwnStep ==
    ASSUME AsTypeOK, OwnOnly, ~OneProcess, [AgentNext]_asVars
    PROVE  OwnOnly'
<1> DEFINE n == asTurn.no
<1> USE FirstTurn
<1>0. /\ n \in 0 .. AgentTurns /\ n \in Nat
      /\ asTurn.at # "idle" => n \in AgentTurnNos /\ n > 0
  BY DEF AsTypeOK, AgentTurnNos
<1>9. /\ asChan \in Seq(EventsFor(1 .. n)) /\ asPend \in Seq(1 .. n)
      /\ \A p \in AgentTurnNos : asTodo[p] \in Seq(EventsFor(1 .. n))
      /\ \A p \in AgentTurnNos : p > n => asReader[p] = "none" /\ asTodo[p] = <<>>
      /\ \A p \in AgentTurnNos : p \in Nat /\ p >= 1
  BY DEF OwnOnly, OwnEvents, AgentTurnNos
<1>1. CASE EngineStep
  <2>1. CASE EngineDrains
    <3>1. /\ asTurn'.no = n + 1 /\ n + 1 \in AgentTurnNos /\ asChan' = <<>>
          /\ UNCHANGED <<asKind, asReader, asTodo, asPend, asTook>>
          /\ asOverlap' = IF ~NoneAtWork \/ asPend # <<>> THEN asOverlap \cup {n + 1} ELSE asOverlap
      <4>1. n + 1 \in AgentTurnNos
        BY <2>1, <1>0 DEF EngineDrains, AgentTurnNos
      <4> QED
        BY <2>1, <4>1 DEF EngineDrains, DrainEvents, asFlags, asRead
    <3>2. 1 .. n \subseteq 1 .. (n + 1)
      BY <1>0
    <3>3. asPend' \in Seq(1 .. (n + 1)) /\ asChan' \in Seq(EventsFor(1 .. (n + 1)))
          /\ \A p \in AgentTurnNos : asTodo'[p] \in Seq(EventsFor(1 .. (n + 1)))
      <4>1. asPend \in Seq(1 .. n) /\ \A p \in AgentTurnNos : asTodo[p] \in Seq(EventsFor(1 .. n))
        BY DEF OwnOnly, OwnEvents
      <4>2. asPend \in Seq(1 .. (n + 1))
        BY <4>1, <3>2, SeqGrows
      <4>3. ASSUME NEW p \in AgentTurnNos PROVE asTodo[p] \in Seq(EventsFor(1 .. (n + 1)))
        BY <4>1, <3>2, EventsGrow
      <4>4. <<>> \in Seq(EventsFor(1 .. (n + 1)))
        OBVIOUS
      <4> QED
        BY <3>1, <4>2, <4>3, <4>4
    <3>4. \A p \in AgentTurnNos : p > n + 1 => asReader'[p] = "none" /\ asTodo'[p] = <<>>
      BY <3>1, <1>0 DEF OwnOnly, OwnEvents, AgentTurnNos
    <3>5. ASSUME n + 1 \notin asOverlap'
          PROVE  /\ \A p \in AgentTurnNos : p < n + 1 => ~AtWork(p)'
                 /\ asChan' \in Seq(EventsFor({n + 1})) /\ asPend' \in Seq({n + 1})
                 /\ asTodo'[n + 1] \in Seq(EventsFor({n + 1}))
      <4>1. NoneAtWork /\ asPend' = <<>>
        BY <3>1, <3>5
      <4>2. asTodo'[n + 1] = <<>>
        BY <3>1, <1>0 DEF OwnOnly, OwnEvents
      <4>3. <<>> \in Seq(EventsFor({n + 1})) /\ <<>> \in Seq({n + 1})
        OBVIOUS
      <4> QED
        BY <3>1, <4>1, <4>2, <4>3 DEF NoneAtWork, AtWork
    <3>6. ForeignEvents'
      <4>1. asOverlap \subseteq asOverlap'
        BY <3>1
      <4> QED
        BY <3>1, <4>1 DEF OwnOnly, ForeignEvents, OneProcess
    <3> QED
      BY <3>1, <3>3, <3>4, <3>5, <3>6 DEF OwnOnly, OwnEvents
  <2>2. CASE EngineTakes
    <3> DEFINE e == Head(asChan)
    <3>1. /\ asTurn'.no = n /\ n \in AgentTurnNos /\ n > 0 /\ asChan # <<>> /\ asChan' = Tail(asChan)
          /\ asTook' = [asTook EXCEPT ![n] = @ \cup {e.turn}]
          /\ UNCHANGED <<asKind, asReader, asTodo, asPend, asOverlap>>
      BY <2>2, <1>0 DEF EngineTakes, EngineAt, AsTypeOK, asFlags, asRead
    <3>2. asChan \in Seq(EventsFor(1 .. n)) /\ (n \notin asOverlap => asChan \in Seq(EventsFor({n})))
      BY <3>1 DEF OwnOnly, OwnEvents
    <3>3. /\ asChan' \in Seq(EventsFor(1 .. n)) /\ e \in EventsFor(1 .. n)
          /\ n \notin asOverlap => asChan' \in Seq(EventsFor({n})) /\ e \in EventsFor({n})
      BY <3>1, <3>2, QueueParts
    <3>4. e.turn \in 1 .. n /\ (e.turn # n => n \in asOverlap)
      BY <3>3 DEF EventsFor
    <3> HIDE DEF e
    <3>5. OwnEvents'
      BY <3>1, <3>3 DEF OwnOnly, OwnEvents, OneProcess, AtWork
    <3>6. ForeignEvents'
      <4> SUFFICES ASSUME NEW t \in AgentTurnNos, NEW m \in asTook'[t], m # t
                   PROVE  m < t /\ t \in asOverlap
        BY <3>1 DEF ForeignEvents, OneProcess
      <4>1. asTook'[t] = IF t = n THEN asTook[t] \cup {e.turn} ELSE asTook[t]
        BY <3>1 DEF AsTypeOK
      <4>2. CASE m \in asTook[t]
        BY <4>2 DEF OwnOnly, ForeignEvents
      <4>3. CASE t = n /\ m = e.turn
        BY <3>4, <4>3, <1>0
      <4> QED
        BY <4>1, <4>2, <4>3
    <3> QED
      BY <3>5, <3>6 DEF OwnOnly
  <2>3. CASE EngineLeaves
    <3>1. /\ asTurn'.no = n
          /\ UNCHANGED <<asKind, asChan, asPend, asOverlap, asTook, asReader, asTodo>>
      BY <2>3 DEF EngineLeaves, EngineAt, AsTypeOK, asFlags, asWire, asRead, asHist
    <3> QED
      BY <3>1, <1>0, OwnKept DEF AtWork
  <2> QED
    BY <1>1, <2>1, <2>2, <2>3 DEF EngineStep, EngineSeesClosed, EngineStopped, EngineTimesOut
<1>2. CASE SendStep
  <2>1. CASE SendChecks \/ ClaudeSend \/ Launch
    <3>1. asTurn'.no = n
      BY <2>1 DEF SendChecks, ClaudeSend, Launch, LaunchFails, EngineAt, AsTypeOK
    <3>2. UNCHANGED <<asKind, asChan, asPend, asOverlap, asTook, asReader, asTodo>>
      BY <2>1 DEF SendChecks, ClaudeSend, Launch, asWire, asRead, asHist
    <3> QED
      BY <3>1, <3>2, <1>0, OwnKept DEF AtWork
  <2>2. CASE SendReads
    <3>1. /\ asTurn'.no = n /\ n \in AgentTurnNos
          /\ asReader' = [asReader EXCEPT ![n] = "reading"]
          /\ UNCHANGED <<asKind, asChan, asPend, asOverlap, asTook, asTodo>>
      BY <2>2, <1>0 DEF SendReads, EngineAt, AsTypeOK, asFlags, asWire
    <3>2. \A p \in AgentTurnNos : p # n => asReader'[p] = asReader[p]
      BY <3>1 DEF AsTypeOK
    <3>3. ForeignEvents'
      BY <3>1 DEF OwnOnly, ForeignEvents, OneProcess
    <3>4. /\ \A p \in AgentTurnNos : p < n => p # n
          /\ \A p \in AgentTurnNos : p > n => p # n
      BY <1>0 DEF AgentTurnNos
    <3>5. \A p \in AgentTurnNos : p # n => (AtWork(p)' <=> AtWork(p))
      BY <3>1, <3>2 DEF AtWork
    <3>6. OwnEvents'
      BY ONLY OwnOnly, <3>1, <3>2, <3>4, <3>5, Zenon DEF OwnOnly, OwnEvents, OneProcess
    <3> QED
      BY <3>3, <3>6 DEF OwnOnly
  <2> QED
    BY <1>2, <2>1, <2>2 DEF SendStep, CodexSend, GeminiSend, CursorSend, QoderSend, OpencodeSend, IflowSend
<1>3. CASE CloseAsked \/ CloseStep
  <2>1. UNCHANGED <<asKind, asChan, asPend, asOverlap, asTook, asReader, asTodo, asTurn>>
    BY <1>3 DEF CloseAsked, CloseStep, ClaudeClose, CloseBegins, CloserDone, CloseReturns, CodexKillsGroup,
       CodexClose, GeminiClose, CursorClose, QoderClose, OpencodeClose, IflowClose,
       asFlags, asWire, asRead, asHist
  <2> QED
    BY <2>1, <1>0, OwnKept DEF AtWork
<1>4. CASE AgentLine
  <2>1. PICK t \in AgentTurnNos :
           /\ asReader[t] = "reading"
           /\ \E events : asTodo' = [asTodo EXCEPT ![t] = events]
           /\ \A T : asPend \in Seq(T) /\ t \in T =>
                  asTodo'[t] \in Seq(EventsFor(T)) /\ asPend' \in Seq(T)
           /\ UNCHANGED <<asFlags, asWire, asReader, asTurn, asHist>>
    BY <1>4, LinesOfTurns
  <2>2. t <= n /\ t \in 1 .. n /\ AtWork(t)
    BY <2>1, <1>0 DEF OwnOnly, OwnEvents, AgentTurnNos, AtWork
  <2>3. \A p \in AgentTurnNos : p # t => asTodo'[p] = asTodo[p]
    BY <2>1 DEF AsTypeOK
  <2>4. asTodo'[t] \in Seq(EventsFor(1 .. n)) /\ asPend' \in Seq(1 .. n)
    BY <2>1, <2>2 DEF OwnOnly, OwnEvents
  <2>5. ASSUME n > 0, n \notin asOverlap
        PROVE  t = n /\ asTodo'[t] \in Seq(EventsFor({n})) /\ asPend' \in Seq({n})
    <3>1. asPend \in Seq({n}) /\ t = n
      BY <2>2, <2>5, <1>0 DEF OwnOnly, OwnEvents
    <3> QED
      BY <2>1, <3>1
  <2>6. UNCHANGED <<asKind, asChan, asTurn, asReader, asOverlap, asTook>>
    BY <2>1 DEF asFlags, asWire, asHist
  <2>7. ForeignEvents'
    BY <2>6 DEF OwnOnly, ForeignEvents, OneProcess
  <2>8. /\ \A p \in AgentTurnNos : asTodo'[p] \in Seq(EventsFor(1 .. n))
        /\ \A p \in AgentTurnNos : p > n => asTodo'[p] = <<>>
    <3>1. \A p \in AgentTurnNos : asTodo'[p] \in Seq(EventsFor(1 .. n))
      BY <2>3, <2>4, <1>9
    <3>2. \A p \in AgentTurnNos : p > n => p # t
      BY <2>2, <1>0, <1>9
    <3> QED
      BY <2>3, <3>1, <3>2, <1>9
  <2> QED
    BY <2>4, <2>5, <2>6, <2>7, <2>8 DEF OwnOnly, OwnEvents, OneProcess, AtWork
<1>5. CASE ClaudeReadsPrompt
  BY <1>5 DEF ClaudeReadsPrompt
<1>6. ASSUME NEW p \in AgentTurnNos, IflowTimer(p) \/ ProcessEnds(p) \/ ReaderStep(p)
      PROVE  OwnOnly'
  <2>1. CASE IflowTimer(p) \/ ProcessEnds(p)
    <3>1. UNCHANGED <<asKind, asChan, asPend, asOverlap, asTook, asReader, asTodo, asTurn>>
      BY <2>1 DEF IflowTimer, ProcessEnds, asFlags, asWire, asRead, asHist
    <3> QED
      BY <3>1, <1>0, OwnKept DEF AtWork
  <2>2. CASE ReaderSends(p)
    <3> DEFINE e == Head(asTodo[p])
    <3>1. /\ asTodo[p] # <<>> /\ asTodo' = [asTodo EXCEPT ![p] = Tail(asTodo[p])]
          /\ asChan' = Append(asChan, e) \/ asChan' = asChan
          /\ AtWork(p)
          /\ UNCHANGED <<asKind, asPend, asOverlap, asTook, asReader, asTurn>>
      BY <2>2 DEF ReaderSends, asFlags, asHist
    <3>2. /\ \A q \in AgentTurnNos : q # p => asTodo'[q] = asTodo[q]
          /\ asTodo'[p] = Tail(asTodo[p])
      BY <3>1 DEF AsTypeOK
    <3>3. p <= n
      BY <3>1, <1>0 DEF OwnOnly, OwnEvents, AgentTurnNos
    <3>4. asTodo'[p] \in Seq(EventsFor(1 .. n)) /\ asChan' \in Seq(EventsFor(1 .. n))
      <4>1. asTodo[p] \in Seq(EventsFor(1 .. n)) /\ asChan \in Seq(EventsFor(1 .. n))
        BY DEF OwnOnly, OwnEvents
      <4>2. Append(asChan, e) \in Seq(EventsFor(1 .. n)) /\ Tail(asTodo[p]) \in Seq(EventsFor(1 .. n))
        BY <3>1, <4>1, QueueParts
      <4> QED
        BY <3>1, <3>2, <4>1, <4>2
    <3>5. ASSUME n > 0, n \notin asOverlap
          PROVE  p = n /\ asTodo'[p] \in Seq(EventsFor({n})) /\ asChan' \in Seq(EventsFor({n}))
      <4>1. p = n
        BY <3>1, <3>3, <3>5, <1>0 DEF OwnOnly, OwnEvents, AgentTurnNos
      <4>2. asTodo[p] \in Seq(EventsFor({n})) /\ asChan \in Seq(EventsFor({n}))
        BY <3>5, <4>1 DEF OwnOnly, OwnEvents
      <4>3. Append(asChan, e) \in Seq(EventsFor({n})) /\ Tail(asTodo[p]) \in Seq(EventsFor({n}))
        BY <3>1, <4>2, QueueParts
      <4> QED
        BY <3>1, <3>2, <4>1, <4>2, <4>3
    <3>6. ForeignEvents'
      BY <3>1 DEF OwnOnly, ForeignEvents, OneProcess
    <3>7. /\ \A q \in AgentTurnNos : asTodo'[q] \in Seq(EventsFor(1 .. n))
          /\ \A q \in AgentTurnNos : q > n => asTodo'[q] = <<>>
      <4>1. \A q \in AgentTurnNos : asTodo'[q] \in Seq(EventsFor(1 .. n))
        BY <3>2, <3>4, <1>9
      <4>2. \A q \in AgentTurnNos : q > n => q # p
        BY <3>3, <1>0, <1>9
      <4> QED
        BY <3>2, <4>1, <4>2, <1>9
    <3> HIDE DEF e
    <3> QED
      BY <3>1, <3>4, <3>5, <3>6, <3>7 DEF OwnOnly, OwnEvents, OneProcess, AtWork
  <2>3. CASE ReaderDrops(p)
    <3>1. /\ UNCHANGED <<asKind, asChan, asPend, asOverlap, asTook, asReader, asTurn>>
          /\ asTodo' = [asTodo EXCEPT ![p] = <<>>]
      BY <2>3 DEF ReaderDrops, asFlags, asWire, asHist
    <3>2. \A q \in AgentTurnNos : asTodo'[q] = asTodo[q] \/ asTodo'[q] = <<>>
      BY <3>1 DEF AsTypeOK
    <3> QED
      BY <3>1, <3>2, <1>0, OwnKept DEF AtWork
  <2>4. CASE OutputEnds(p) \/ IflowEnds(p)
    <3>1. /\ asReader[p] = "reading" /\ asReader' = [asReader EXCEPT ![p] = "waiting"]
          /\ asTodo' = [asTodo EXCEPT ![p] = asTodo'[p]]
          /\ \A T : p \in T => asTodo'[p] \in Seq(EventsFor(T))
          /\ UNCHANGED <<asKind, asChan, asPend, asOverlap, asTook, asTurn>>
      BY <2>4, EndsOfReaders DEF asWire, asHist
    <3>2. /\ \A q \in AgentTurnNos : q # p => asTodo'[q] = asTodo[q] /\ asReader'[q] = asReader[q]
          /\ AtWork(p)
      BY <3>1 DEF AsTypeOK, AtWork
    <3>3. p <= n /\ p \in 1 .. n
      <4>1. ~(p > n)
        BY <3>1, <1>9
      <4>2. p \in Nat /\ p >= 1 /\ n \in Nat
        BY ONLY <1>0, <1>9
      <4> HIDE DEF n
      <4> QED
        BY ONLY <4>1, <4>2
    <3>4. asTodo'[p] \in Seq(EventsFor(1 .. n)) /\ (p = n => asTodo'[p] \in Seq(EventsFor({n})))
      BY <3>1, <3>3
    <3>5. ForeignEvents'
      BY <3>1 DEF OwnOnly, ForeignEvents, OneProcess
    <3>6. n > 0 /\ n \notin asOverlap => p = n
      BY <3>2, <3>3, <1>0 DEF OwnOnly, OwnEvents, AgentTurnNos
    <3>7. /\ \A q \in AgentTurnNos : asTodo'[q] \in Seq(EventsFor(1 .. n))
          /\ \A q \in AgentTurnNos : q > n => asTodo'[q] = <<>> /\ asReader'[q] = "none"
      <4>1. \A q \in AgentTurnNos : asTodo'[q] \in Seq(EventsFor(1 .. n))
        BY <3>2, <3>4, <1>9
      <4>2. \A q \in AgentTurnNos : q > n => q # p
        BY <3>3, <1>0, <1>9
      <4> QED
        BY <3>2, <4>1, <4>2, <1>9
    <3> QED
      BY <3>1, <3>2, <3>4, <3>5, <3>6, <3>7, <1>0 DEF OwnOnly, OwnEvents, OneProcess, AtWork
  <2>5. CASE ReaderDone(p)
    <3>1. /\ UNCHANGED <<asKind, asChan, asPend, asOverlap, asTook, asTodo, asTurn>>
          /\ asReader[p] = "waiting" /\ asReader' = [asReader EXCEPT ![p] = "done"]
      BY <2>5 DEF ReaderDone, asHist
    <3>2. \A q \in AgentTurnNos : /\ AtWork(q)' => AtWork(q)
                                  /\ asReader[q] = "none" => asReader'[q] = "none"
      BY <3>1 DEF AsTypeOK, AtWork
    <3> QED
      BY <3>1, <3>2, <1>0, OwnKept
  <2> QED
    BY <1>6, <2>1, <2>2, <2>3, <2>4, <2>5 DEF ReaderStep
<1>7. CASE UNCHANGED asVars
  <2>1. UNCHANGED <<asKind, asChan, asPend, asOverlap, asTook, asReader, asTodo, asTurn>>
    BY <1>7 DEF asVars, asFlags, asWire, asRead, asHist
  <2> QED
    BY <2>1, <1>0, OwnKept DEF AtWork
<1> QED
  BY <1>1, <1>2, <1>3, <1>4, <1>5, <1>6, <1>7 DEF AgentNext

ClaudeOnly == ClaudeEvents /\ ForeignEvents

\* Lines that Claude Code prints are among what may be on the way.
LEMMA PrintedLines ==
    ASSUME NEW t \in Nat, NEW s \in {0, t}
    PROVE  /\ <<>> \in Seq(Printed(t)) /\ Note(s) \in Seq(Printed(t)) /\ Failure(s) \in Seq(Printed(t))
           /\ s > 0 => Result(s) \in Seq(Printed(t))
           /\ Len(Note(s)) = 1 /\ Len(Failure(s)) = 1 /\ Len(Result(s)) = 1
           /\ Note(s)[1].type # "result" /\ Failure(s)[1].type # "result"
<1>1. /\ Event("note", s) \in Printed(t) /\ Event("error", s) \in Printed(t)
      /\ s > 0 => Event("result", s) \in Printed(t)
  BY DEF Event, Printed, AsKinds
<1>2. Event("note", s).type # "result" /\ Event("error", s).type # "result"
  BY DEF Event
<1> QED
  BY <1>1, <1>2 DEF Note, Result, Failure

\* A step that takes nothing, prints nothing and sends nothing.
LEMMA ClaudeKept ==
    ASSUME ClaudeOnly, OneProcess, asResume'.early = asResume.early,
           UNCHANGED <<asKind, asChan, asInbox, asTook>>,
           asTodo'[1] = asTodo[1] \/ asTodo'[1] = <<>>,
           asProc'[1] = "running" => asProc[1] = "running" /\ asSaid' = asSaid /\ asServes' \in {asServes, asInbox},
           asTurn'.no = asTurn.no, asTurn'.at = "waiting" => asTurn.at = "waiting",
           asTurn'.at \in {"drained", "checked"} => asTurn.at \in {"drained", "checked"},
           asProc'[1] = "running" /\ AtRest' => AtRest
    PROVE  ClaudeOnly'
<1>1. ForeignEvents' /\ OneProcess'
  BY DEF ClaudeOnly, ForeignEvents, OneProcess
<1>2. ASSUME ~asResume.early
      PROVE  /\ asChan' \in Seq(Printed(asInbox')) /\ asTodo'[1] \in Seq(Printed(asInbox'))
             /\ asTurn'.at = "waiting" => asInbox' = asTurn'.no
             /\ asProc'[1] = "running" => ClaudeRuns'
  <2>1. /\ asChan \in Seq(Printed(asInbox)) /\ asTodo[1] \in Seq(Printed(asInbox))
        /\ asTurn.at = "waiting" => asInbox = asTurn.no
        /\ asProc[1] = "running" => ClaudeRuns
    BY <1>2 DEF ClaudeOnly, ClaudeEvents
  <2>2. asTodo'[1] \in Seq(Printed(asInbox))
    <3>1. \A T : <<>> \in Seq(T)
      OBVIOUS
    <3> QED
      BY <2>1, <3>1, Zenon
  <2>3. ASSUME asProc'[1] = "running" PROVE ClaudeRuns'
    <3>1. ClaudeRuns /\ asProc[1] = "running"
      BY <2>1, <2>3
    <3>2. /\ asSaid' \subseteq 1 .. asInbox' /\ asServes' \in {0, asInbox'} \cup asSaid'
          /\ asInbox' \in asSaid' \cup {0} => asServes' = asInbox'
          /\ asInbox' <= asTurn'.no /\ (asTurn'.at \in {"drained", "checked"} => asInbox' < asTurn'.no)
      BY <2>3, <3>1 DEF ClaudeRuns
    <3>3. /\ Len(asTodo'[1]) <= 1
          /\ \A i \in 1 .. Len(asTodo'[1]) : asTodo'[1][i].type = "result" => asInbox' \in asSaid'
      BY <2>3, <3>1 DEF ClaudeRuns
    <3>4. \A i \in 1 .. Len(asChan') :
            asChan'[i].type = "result" => asInbox' \in asSaid' /\ i = Len(asChan') /\ asTodo'[1] = <<>>
      BY <2>3, <3>1 DEF ClaudeRuns
    <3>5. AtRest' => asInbox' = 0 \/ (asInbox' \in asSaid' /\ asChan' = <<>> /\ asTodo'[1] = <<>>)
      BY <2>3, <3>1 DEF ClaudeRuns
    <3> QED
      BY <3>2, <3>3, <3>4, <3>5 DEF ClaudeRuns
  <2> QED
    BY <2>1, <2>2, <2>3
<1> QED
  BY <1>1, <1>2 DEF ClaudeOnly, ClaudeEvents

\* A queue of one event is empty without it.
LEMMA ShortQueue ==
    ASSUME NEW T, NEW q \in Seq(T), Len(q) <= 1, q # <<>>
    PROVE  Len(q) = 1 /\ Tail(q) = <<>> /\ Head(q) = q[1]
<1>0. Len(q) \in Nat /\ Len(q) # 0
  OBVIOUS
<1>1. Len(q) = 1
  BY <1>0
<1>2. Tail(q) \in Seq(T) /\ Len(Tail(q)) = 0
  BY <1>1
<1>3. Tail(q) = <<>>
  BY <1>2
<1> QED
  BY <1>1, <1>3

\* Every step of Claude Code keeps a turn to its own events and to those before the first prompt,
\* or passes on a result that came too early.
LEMMA ClaudeStep ==
    ASSUME AsTypeOK, OneReader, ClaudeOnly, OneProcess, [AgentNext]_asVars
    PROVE  ClaudeOnly'
<1> DEFINE n == asTurn.no
<1> USE FirstTurn
<1>0. n \in 0 .. AgentTurns /\ n \in Nat /\ (asTurn.at # "idle" => n \in AgentTurnNos)
      /\ asInbox \in 0 .. AgentTurns /\ asInbox \in Nat /\ asServes \in Nat
  BY DEF AsTypeOK, AgentTurnNos
<1>9. ~asResume.early =>
        /\ asChan \in Seq(Printed(asInbox)) /\ asTodo[1] \in Seq(Printed(asInbox))
        /\ asTurn.at = "waiting" => asInbox = n
        /\ asProc[1] = "running" => ClaudeRuns
  BY DEF ClaudeOnly, ClaudeEvents
<1>10. ~asResume.early => \A t \in AgentTurnNos : asTook[t] \subseteq {0, t}
  BY DEF ClaudeOnly, ForeignEvents
<1>1. CASE EngineStep
  <2>1. CASE EngineDrains
    <3>1. /\ asTurn'.no = n + 1 /\ asTurn'.at = "drained" /\ asChan' = <<>> /\ AtRest
          /\ UNCHANGED <<asKind, asTodo, asTook, asProc, asServes, asSaid, asInbox, asResume>>
      BY <2>1 DEF EngineDrains, DrainEvents, asFlags, asRead, asProgram, AtRest
    <3>2. Len(<<>>) = 0 /\ <<>> \in Seq(Printed(asInbox)) /\ asInbox <= n => asInbox < n + 1
      BY <1>0
    <3>3. ForeignEvents' /\ (OneProcess <=> OneProcess')
      BY <3>1 DEF ClaudeOnly, ForeignEvents, OneProcess
    <3>4. ASSUME ~asResume.early, asProc[1] = "running" PROVE ClaudeRuns'
      <4>1. ClaudeRuns
        BY <1>9, <3>4
      <4>2. asInbox' <= asTurn'.no /\ asInbox' < asTurn'.no
        BY <1>0, <3>1, <4>1 DEF ClaudeRuns
      <4>3. asInbox' = 0 \/ (asInbox' \in asSaid' /\ asChan' = <<>> /\ asTodo'[1] = <<>>)
        BY <3>1, <4>1 DEF ClaudeRuns
      <4>4. \A i \in 1 .. Len(asChan') : FALSE
        BY <3>1
      <4> QED
        BY <3>1, <4>1, <4>2, <4>3, <4>4 DEF ClaudeRuns
    <3> QED
      BY <3>1, <3>2, <3>3, <3>4, <1>9 DEF ClaudeOnly, ClaudeEvents
  <2>2. CASE EngineTakes
    <3> DEFINE e == Head(asChan)
    <3>1. /\ asTurn.at = "waiting" /\ asTurn'.no = n /\ n \in AgentTurnNos /\ asChan # <<>> /\ asChan' = Tail(asChan)
          /\ asTook' = [asTook EXCEPT ![n] = @ \cup {e.turn}]
          /\ asTurn'.at = (IF e.type = "note" THEN "waiting" ELSE "idle")
          /\ e.type = "error" => asClose' # "no"
          /\ UNCHANGED <<asKind, asTodo, asProc, asServes, asSaid, asInbox, asResume>>
      BY <2>2, <1>0 DEF EngineTakes, EngineAt, EngineAsks, AsTypeOK, asFlags, asRead, asProgram
    <3>2. OneProcess <=> OneProcess'
      BY <3>1 DEF OneProcess
    <3>3. CASE asResume.early
      BY <3>1, <3>2, <3>3 DEF ClaudeOnly, ClaudeEvents, ForeignEvents
    <3>4. CASE ~asResume.early
      <4>1. e \in Printed(n) /\ asChan' \in Seq(Printed(n)) /\ asInbox = n /\ asTodo[1] \in Seq(Printed(n))
        BY <3>1, <3>4, <1>9, QueueParts
      <4>2. e.turn \in {0, n} /\ e.type \in AsKinds
        BY <4>1 DEF Printed
      <4>3. \A t \in AgentTurnNos : asTook'[t] \subseteq {0, t}
        <5> HIDE DEF e
        <5> QED
          BY <3>1, <3>4, <4>2, <1>10 DEF AsTypeOK
      <4>4. asTurn'.at = "waiting" => asInbox' = asTurn'.no
        BY <3>1, <4>1
      <4>5. ASSUME asProc[1] = "running" PROVE ClaudeRuns'
        <5>1. ClaudeRuns
          BY <1>9, <3>4, <4>5
        <5>2. /\ Len(asChan) \in Nat /\ Len(asChan) >= 1 /\ Len(asChan') = Len(asChan) - 1
              /\ asChan[1] = e /\ \A i \in 1 .. Len(asChan') : asChan'[i] = asChan[i + 1] /\ i + 1 \in 1 .. Len(asChan)
          BY <3>1, <3>4, <1>9
        <5>3. \A i \in 1 .. Len(asChan') :
                asChan'[i].type = "result" => asInbox' \in asSaid' /\ i = Len(asChan') /\ asTodo'[1] = <<>>
          <6> SUFFICES ASSUME NEW i \in 1 .. Len(asChan'), asChan'[i].type = "result"
                       PROVE  asInbox' \in asSaid' /\ i = Len(asChan') /\ asTodo'[1] = <<>>
            OBVIOUS
          <6>1. i + 1 \in 1 .. Len(asChan) /\ asChan[i + 1].type = "result"
            BY <5>2
          <6>2. asInbox \in asSaid /\ i + 1 = Len(asChan) /\ asTodo[1] = <<>>
            BY <5>1, <6>1 DEF ClaudeRuns
          <6>3. i = Len(asChan')
            BY <5>2, <6>2
          <6> QED
            BY <3>1, <6>2, <6>3
        <5>4. AtRest' => e.type = "result"
          BY <3>1, <4>2 DEF AtRest, AsKinds
        <5>5. e.type = "result" => asInbox \in asSaid /\ 1 = Len(asChan) /\ asTodo[1] = <<>>
          BY <5>1, <5>2 DEF ClaudeRuns
        <5>6. Len(asChan) = 1 => asChan' = <<>>
          BY <4>1, <5>2
        <5>7. AtRest' => asInbox' \in asSaid' /\ asChan' = <<>> /\ asTodo'[1] = <<>>
          BY <3>1, <5>4, <5>5, <5>6
        <5>8. asTurn'.at \notin {"drained", "checked"}
          BY <3>1
        <5> QED
          BY <3>1, <5>1, <5>3, <5>7, <5>8 DEF ClaudeRuns
      <4>6. ForeignEvents'
        BY <3>2, <4>3 DEF ForeignEvents
      <4> QED
        BY <3>1, <3>2, <4>1, <4>4, <4>5, <4>6 DEF ClaudeOnly, ClaudeEvents
    <3> QED
      BY <3>3, <3>4
  <2>3. CASE EngineLeaves
    <3>1. /\ asTurn'.no = n /\ asTurn'.at = "idle" /\ asClose' # "no"
          /\ UNCHANGED <<asKind, asChan, asTook, asTodo, asProc, asServes, asSaid, asInbox, asResume>>
      BY <2>3 DEF EngineLeaves, EngineAsks, EngineAt, AsTypeOK, asFlags, asWire, asRead, asHist, asProgram
    <3> QED
      BY <3>1, ClaudeKept DEF AtRest
  <2> QED
    BY <1>1, <2>1, <2>2, <2>3 DEF EngineStep, EngineSeesClosed, EngineStopped, EngineTimesOut
<1>2. CASE SendStep
  <2>1. CASE SendChecks
    <3>1. /\ asTurn'.no = n /\ asTurn'.at \in {"checked", "idle"} /\ asTurn.at = "drained"
          /\ UNCHANGED <<asKind, asChan, asTook, asTodo, asProc, asServes, asSaid, asInbox, asResume>>
      BY <2>1 DEF SendChecks, EngineAt, AsTypeOK, asWire, asRead, asHist, asProgram
    <3> QED
      BY <3>1, ClaudeKept DEF AtRest
  <2>2. CASE ClaudeSend
    <3>1. /\ asTurn'.no = n /\ asTurn.at = "checked"
          /\ UNCHANGED <<asKind, asChan, asTook, asTodo, asProc, asServes, asSaid, asResume>>
          /\ asProc[1] = "running" => asTurn'.at = "waiting" /\ asInbox' = n
          /\ asProc[1] # "running" => asTurn'.at = "idle" /\ asInbox' = asInbox
      BY <2>2 DEF ClaudeSend, EngineAt, AsTypeOK, asWire, asRead, asHist, asProgram
    <3>2. CASE asProc[1] # "running"
      BY <3>1, <3>2, ClaudeKept DEF AtRest
    <3>3. CASE asProc[1] = "running" /\ ~asResume.early
      <4>1. ClaudeRuns /\ AtRest
        BY <1>9, <3>1, <3>3 DEF AtRest
      <4>2. ASSUME asInbox # 0 PROVE asChan = <<>> /\ asTodo[1] = <<>>
        BY <4>1, <4>2 DEF ClaudeRuns
      <4>3. Printed(0) \subseteq Printed(n) /\ <<>> \in Seq(Printed(n))
        BY DEF Printed
      <4>4. asChan' \in Seq(Printed(asInbox')) /\ asTodo'[1] \in Seq(Printed(asInbox'))
        BY <1>9, <3>1, <3>3, <4>2, <4>3, SeqGrows
      <4>5. asInbox < n /\ asServes \in {0} \cup asSaid /\ asSaid \subseteq 1 .. asInbox
        BY <3>1, <4>1 DEF ClaudeRuns
      <4>6. n \notin asSaid \cup {0} /\ asSaid \subseteq 1 .. n
        BY <1>0, <4>5
      <4>7. \A i \in 1 .. Len(asChan) : asChan[i].type # "result"
        <5>1. CASE asInbox # 0
          BY <4>2, <5>1
        <5>2. CASE asInbox = 0
          BY <4>1, <4>5, <5>2 DEF ClaudeRuns
        <5> QED
          BY <5>1, <5>2
      <4>8. Len(asTodo[1]) <= 1 /\ \A i \in 1 .. Len(asTodo[1]) : asTodo[1][i].type # "result"
        <5>1. CASE asInbox # 0
          BY <4>2, <5>1
        <5>2. CASE asInbox = 0
          BY <4>1, <4>5, <5>2 DEF ClaudeRuns
        <5> QED
          BY <5>1, <5>2
      <4>9. ~AtRest' /\ asTurn'.at \notin {"drained", "checked"} /\ asInbox' = n /\ asInbox' <= asTurn'.no
        BY <1>0, <3>1, <3>3 DEF AtRest
      <4>10. ClaudeRuns'
        BY <3>1, <4>5, <4>6, <4>7, <4>8, <4>9 DEF ClaudeRuns
      <4>11. ForeignEvents' /\ (OneProcess <=> OneProcess')
        BY <3>1 DEF ClaudeOnly, ForeignEvents, OneProcess
      <4> QED
        BY <3>1, <3>3, <4>4, <4>9, <4>10, <4>11 DEF ClaudeOnly, ClaudeEvents
    <3>4. CASE asResume.early
      BY <3>1, <3>4 DEF ClaudeOnly, ClaudeEvents, ForeignEvents, OneProcess
    <3> QED
      BY <3>2, <3>3, <3>4
  <2> QED
    BY <1>2, <2>1, <2>2
    DEF SendStep, OneReader, OneProcess, CodexSend, GeminiSend, CursorSend, QoderSend, OpencodeSend, IflowSend,
        SendReads
<1>3. CASE CloseAsked \/ CloseStep
  <2>1. CloseAsked \/ ClaudeClose \/ CloserDone
    BY <1>3 DEF CloseStep, OneProcess, CloseBegins, CodexClose, CodexKillsGroup, GeminiClose, CursorClose,
       QoderClose, OpencodeClose, IflowClose
  <2>2. UNCHANGED <<asKind, asChan, asTook, asTodo, asProc, asServes, asSaid, asInbox, asResume, asTurn>>
    BY <2>1 DEF CloseAsked, ClaudeClose, CloserDone, asFlags, asWire, asRead, asHist, asProgram
  <2>3. asClose' = "no" => asClose = "no"
    BY <2>1 DEF CloseAsked, ClaudeClose, CloserDone
  <2> QED
    BY <2>2, <2>3, ClaudeKept DEF AtRest
<1>4. CASE AgentLine
  <2> DEFINE t == asServes
  <2>1. /\ asTodo[1] = <<>> /\ asProc[1] = "running" /\ t \notin asSaid
        /\ UNCHANGED <<asProc, asServes, asFlags, asWire, asShut, asTurn, asHist>>
        /\ asResume.early => asResume'.early
        /\ \/ /\ asTodo'[1] \in {<<>>, Note(t), Failure(t)}
              /\ asSaid' = asSaid \/ (t > 0 /\ asSaid' = asSaid \cup {t})
           \/ t > 0 /\ asTodo'[1] = Result(t) /\ asSaid' = asSaid \cup {t}
           \/ asResume'.early
    BY <1>4, LinesOfClaude
  <2>2. UNCHANGED <<asKind, asChan, asInbox, asTook, asClose, asTurn>> /\ (AtRest' <=> AtRest)
    BY <2>1 DEF asFlags, asWire, asHist, asShut, AtRest
  <2>3. ForeignEvents' /\ (OneProcess <=> OneProcess')
    BY <2>1, <2>2 DEF ClaudeOnly, ForeignEvents, OneProcess
  <2>4. CASE ~asResume'.early
    <3>1. ClaudeRuns /\ ~asResume.early
      BY <1>9, <2>1, <2>4
    <3>2. t \in {0, asInbox} /\ asSaid' \subseteq 1 .. asInbox /\ asSaid \subseteq asSaid'
          /\ asSaid' \subseteq asSaid \cup {t} /\ asSaid' \subseteq Nat \ {0}
      <4>1. asSaid \subseteq 1 .. asInbox /\ t \in {0, asInbox}
        BY <2>1, <3>1 DEF ClaudeRuns
      <4>2. asSaid' = asSaid \/ (t > 0 /\ asSaid' = asSaid \cup {t})
        BY <2>1, <2>4
      <4>3. t > 0 => t \in 1 .. asInbox
        BY <1>0, <4>1
      <4>4. asSaid' \subseteq 1 .. asInbox /\ asSaid \subseteq asSaid' /\ asSaid' \subseteq asSaid \cup {t}
        BY <4>1, <4>2, <4>3, Zenon
      <4>5. 1 .. asInbox \subseteq Nat \ {0}
        BY <1>0
      <4> QED
        BY <4>1, <4>4, <4>5
    <3>3. asInbox \notin asSaid
      BY <2>1, <3>1 DEF ClaudeRuns
    <3>4. \A i \in 1 .. Len(asChan) : asChan[i].type # "result"
      BY <3>1, <3>3 DEF ClaudeRuns
    <3>5. AtRest => asInbox = 0
      BY <3>1, <3>3 DEF ClaudeRuns
    <3>6. /\ <<>> \in Seq(Printed(asInbox)) /\ Note(t) \in Seq(Printed(asInbox)) /\ Failure(t) \in Seq(Printed(asInbox))
          /\ t > 0 => Result(t) \in Seq(Printed(asInbox))
          /\ Len(Note(t)) = 1 /\ Len(Failure(t)) = 1 /\ Len(Result(t)) = 1
          /\ Note(t)[1].type # "result" /\ Failure(t)[1].type # "result"
      BY <1>0, <3>2, PrintedLines
    <3>7. asTodo'[1] \in Seq(Printed(asInbox)) /\ Len(asTodo'[1]) <= 1
      <4>1. asTodo'[1] \in {<<>>, Note(t), Failure(t)} \/ (t > 0 /\ asTodo'[1] = Result(t))
        BY <2>1, <2>4
      <4>2. asTodo'[1] \in Seq(Printed(asInbox))
        BY <3>6, <4>1
      <4>3. Len(asTodo'[1]) \in {0, 1}
        <5>1. Len(<<>>) = 0
          OBVIOUS
        <5> QED
          BY <3>6, <4>1, <5>1
      <4>4. \A k \in {0, 1} : k <= 1
        OBVIOUS
      <4> QED
        BY <4>2, <4>3, <4>4, Zenon
    <3>8. \A i \in 1 .. Len(asTodo'[1]) : asTodo'[1][i].type = "result" => asInbox \in asSaid'
      <4>1. CASE t > 0 /\ asTodo'[1] = Result(t) /\ asSaid' = asSaid \cup {t}
        BY <1>0, <3>2, <4>1
      <4>2. CASE asTodo'[1] = <<>>
        BY <4>2
      <4>3. CASE asTodo'[1] \in {Note(t), Failure(t)}
        <5>1. Len(asTodo'[1]) = 1 /\ asTodo'[1][1].type # "result"
          BY <3>6, <4>3
        <5> QED
          BY <5>1
      <4> QED
        BY <2>1, <2>4, <4>1, <4>2, <4>3
    <3>9. asInbox \in asSaid' \cup {0} => t = asInbox
      BY <1>0, <3>1, <3>2, <3>3 DEF ClaudeRuns
    <3>10. asServes' \in {0, asInbox} \cup asSaid' /\ asServes' = t
      BY <2>1, <3>2
    <3>11. asInbox <= asTurn.no /\ (asTurn.at \in {"drained", "checked"} => asInbox < asTurn.no)
      BY <3>1 DEF ClaudeRuns
    <3>12. ClaudeRuns'
      BY <2>2, <3>2, <3>4, <3>5, <3>7, <3>8, <3>9, <3>10, <3>11 DEF ClaudeRuns
    <3> QED
      BY <2>2, <2>3, <2>4, <3>1, <3>7, <3>12, <1>9 DEF ClaudeOnly, ClaudeEvents
  <2> QED
    BY <2>3, <2>4 DEF ClaudeOnly, ClaudeEvents
<1>5. CASE ClaudeReadsPrompt
  <2>1. /\ UNCHANGED <<asKind, asChan, asTook, asTodo, asProc, asSaid, asInbox, asResume, asTurn, asClose>>
        /\ asServes' = asInbox
    BY <1>5 DEF ClaudeReadsPrompt, asFlags, asWire, asRead, asHist, asShut
  <2> QED
    BY <2>1, ClaudeKept DEF AtRest
<1>6. ASSUME NEW p \in AgentTurnNos, IflowTimer(p) \/ ProcessEnds(p) \/ ReaderStep(p)
      PROVE  ClaudeOnly'
  <2>1. CASE IflowTimer(p) \/ ProcessEnds(p)
    <3>1. UNCHANGED <<asKind, asChan, asTook, asTodo, asServes, asSaid, asInbox, asResume, asTurn, asClose>>
      BY <2>1 DEF IflowTimer, ProcessEnds, asFlags, asWire, asRead, asHist, asShut
    <3>2. asProc'[1] = "running" => asProc[1] = "running"
      BY <2>1 DEF IflowTimer, ProcessEnds, AsTypeOK
    <3> QED
      BY <3>1, <3>2, ClaudeKept DEF AtRest
  <2>2. CASE ReaderSends(p)
    <3> DEFINE e == Head(asTodo[1])
    <3>1. p = 1
      BY <2>2 DEF ReaderSends, AtWork, OneReader
    <3>2. /\ asTodo[1] # <<>> /\ asTodo'[1] = Tail(asTodo[1])
          /\ asChan' = Append(asChan, e) \/ asChan' = asChan
          /\ UNCHANGED <<asKind, asTook, asServes, asSaid, asInbox, asResume, asTurn, asClose, asProc>>
      BY <2>2, <3>1 DEF ReaderSends, AsTypeOK, asFlags, asHist, asShut, asProgram
    <3>3. ForeignEvents' /\ (OneProcess <=> OneProcess')
      BY <3>2 DEF ClaudeOnly, ForeignEvents, OneProcess
    <3>4. CASE ~asResume.early
      <4>1. asTodo'[1] \in Seq(Printed(asInbox)) /\ Append(asChan, e) \in Seq(Printed(asInbox))
        BY <3>2, <3>4, <1>9, QueueParts
      <4>2. asChan' \in Seq(Printed(asInbox))
        BY <3>2, <3>4, <4>1, <1>9
      <4>3. ASSUME asProc[1] = "running" PROVE ClaudeRuns'
        <5>1. ClaudeRuns
          BY <1>9, <3>4, <4>3
        <5>2. Len(asTodo[1]) = 1 /\ asTodo'[1] = <<>> /\ e = asTodo[1][1]
          <6>1. asTodo[1] \in Seq(Printed(asInbox)) /\ Len(asTodo[1]) <= 1
            BY <1>9, <3>4, <5>1 DEF ClaudeRuns
          <6> QED
            BY <3>2, <6>1, ShortQueue
        <5>3. e.type = "result" => asInbox \in asSaid
          BY <5>1, <5>2 DEF ClaudeRuns
        <5>4. \A i \in 1 .. Len(asChan) : asChan[i].type # "result"
          BY <3>2, <5>1 DEF ClaudeRuns
        <5>5. \A i \in 1 .. Len(asChan') : asChan'[i].type = "result" => asInbox \in asSaid /\ i = Len(asChan')
          <6>1. CASE asChan' = asChan
            BY <5>4, <6>1
          <6>2. CASE asChan' = Append(asChan, e)
            <7> HIDE DEF e
            <7>1. /\ Len(asChan) \in Nat /\ Len(asChan') = Len(asChan) + 1 /\ asChan'[Len(asChan) + 1] = e
                  /\ \A i \in 1 .. Len(asChan) : asChan'[i] = asChan[i]
              BY <1>9, <3>4, <6>2
            <7> QED
              BY <5>3, <5>4, <7>1
          <6> QED
            BY <3>2, <6>1, <6>2
        <5>6. AtRest' => asInbox = 0
          BY <3>2, <5>1 DEF ClaudeRuns, AtRest
        <5>7. Len(asTodo'[1]) <= 1 /\ \A i \in 1 .. Len(asTodo'[1]) : FALSE
          BY <5>2
        <5>8. /\ asSaid' \subseteq 1 .. asInbox' /\ asServes' \in {0, asInbox'} \cup asSaid'
              /\ asInbox' \in asSaid' \cup {0} => asServes' = asInbox'
              /\ asInbox' <= asTurn'.no /\ (asTurn'.at \in {"drained", "checked"} => asInbox' < asTurn'.no)
          BY <3>2, <5>1 DEF ClaudeRuns
        <5>9. \A i \in 1 .. Len(asChan') :
                asChan'[i].type = "result" => asInbox' \in asSaid' /\ i = Len(asChan') /\ asTodo'[1] = <<>>
          BY <3>2, <5>2, <5>5
        <5> HIDE DEF e
        <5> QED
          BY <3>2, <5>6, <5>7, <5>8, <5>9 DEF ClaudeRuns
      <4> HIDE DEF e
      <4> QED
        BY <3>2, <3>3, <3>4, <4>1, <4>2, <4>3, <1>9 DEF ClaudeOnly, ClaudeEvents
    <3>5. CASE asResume.early
      BY <3>2, <3>3, <3>5 DEF ClaudeOnly, ClaudeEvents
    <3> QED
      BY <3>4, <3>5
  <2>3. CASE ReaderDrops(p)
    <3>1. /\ UNCHANGED <<asKind, asChan, asTook, asServes, asSaid, asInbox, asResume, asTurn, asClose, asProc>>
          /\ asTodo'[1] = asTodo[1] \/ asTodo'[1] = <<>>
      BY <2>3 DEF ReaderDrops, AsTypeOK, asFlags, asWire, asHist, asShut, asProgram
    <3> QED
      BY <3>1, ClaudeKept DEF AtRest
  <2>4. CASE OutputEnds(p) \/ IflowEnds(p)
    <3>1. /\ asReader[p] = "reading" /\ asProc[p] # "running"
          /\ asTodo'[p] \in {<<>>, Failure(asInbox)}
          /\ UNCHANGED <<asKind, asChan, asTook, asServes, asSaid, asInbox, asResume, asTurn, asProc>>
      BY <2>4, EndsOfReaders DEF asWire, asHist, asProgram
    <3>2. p = 1
      BY <3>1 DEF OneReader
    <3>3. ForeignEvents' /\ (OneProcess <=> OneProcess')
      BY <3>1 DEF ClaudeOnly, ForeignEvents, OneProcess
    <3>4. asTodo'[1] \in Seq(Printed(asInbox))
      BY <1>0, <3>1, <3>2, PrintedLines
    <3> QED
      BY <3>1, <3>2, <3>3, <3>4 DEF ClaudeOnly, ClaudeEvents
  <2>5. CASE ReaderDone(p)
    <3>1. UNCHANGED <<asKind, asChan, asTook, asTodo, asServes, asSaid, asInbox, asResume, asTurn, asClose, asProc>>
      BY <2>5 DEF ReaderDone, asHist, asShut, asProgram
    <3> QED
      BY <3>1, ClaudeKept DEF AtRest
  <2> QED
    BY <1>6, <2>1, <2>2, <2>3, <2>4, <2>5 DEF ReaderStep
<1>7. CASE UNCHANGED asVars
  <2>1. UNCHANGED <<asKind, asChan, asTook, asTodo, asServes, asSaid, asInbox, asResume, asTurn, asClose, asProc>>
    BY <1>7 DEF asVars, asFlags, asWire, asRead, asHist, asProgram, asShut
  <2> QED
    BY <2>1, ClaudeKept DEF AtRest
<1> QED
  BY <1>1, <1>2, <1>3, <1>4, <1>5, <1>6, <1>7 DEF AgentNext

\* It holds at the start.
LEMMA AsStart == AgentInit => AsInv
<1> SUFFICES ASSUME AgentInit PROVE AsInv
  OBVIOUS
<1> USE FirstTurn
<1>1. /\ <<>> \in Seq(0 .. AgentTurns) /\ \A T : <<>> \in Seq(EventsFor(T))
      /\ <<>> \in Seq(Printed(0)) /\ <<>> \in Seq(1 .. 0) /\ Len(<<>>) = 0
  <2>1. \A T : <<>> \in Seq(T)
    OBVIOUS
  <2>2. Len(<<>>) = 0
    OBVIOUS
  <2> QED
    BY <2>1, <2>2, Zenon
<1>2. AsTypeOK
  <2>1. asResume \in Resumes
    <3>1. PICK resuming \in {FALSE, OneProcess} :
            asResume = [resuming |-> resuming, work |-> FALSE, failed |-> FALSE, early |-> FALSE]
      BY DEF AgentInit
    <3>2. resuming \in BOOLEAN
      BY <3>1 DEF OneProcess
    <3> QED
      BY <3>1, <3>2 DEF Resumes
  <2> QED
    BY <1>1, <2>1 DEF AgentInit, AsTypeOK, AsPlaces
<1>3. OneReader /\ ClosedForReason /\ SendsOnOpenChannel /\ ForeignEvents
  BY DEF AgentInit, OneReader, ClosedForReason, SendsOnOpenChannel, ForeignEvents
<1>4. OwnEvents
  BY <1>1 DEF AgentInit, OwnEvents, AgentTurnNos
<1>5. ClaudeEvents
  BY <1>1 DEF AgentInit, ClaudeEvents, ClaudeRuns
<1> QED
  BY <1>2, <1>3, <1>4, <1>5 DEF AsInv

\* Every step keeps it.
LEMMA AsKept == AsInv /\ [AgentNext]_asVars => AsInv'
<1> SUFFICES ASSUME AsInv, [AgentNext]_asVars PROVE AsInv'
  OBVIOUS
<1>1. AsTypeOK' /\ OpenForReaders'
  BY AsTypeStep, GateStep DEF AsInv, OpenForReaders
<1>2. OneProcess' <=> OneProcess
  <2>1. UNCHANGED asKind
    <3>1. CASE AgentLine
      BY <3>1, LinesOfClaude, LinesOfTurns DEF AsInv, asFlags
    <3>2. CASE ~AgentLine
      BY <3>2 DEF AgentNext, EngineStep, EngineDrains, EngineTakes, EngineSeesClosed, EngineStopped, EngineTimesOut,
         EngineLeaves, SendStep, SendChecks, ClaudeSend, CodexSend, GeminiSend, CursorSend, QoderSend,
         OpencodeSend, IflowSend, Launch, SendReads, CloseAsked, CloseStep, ClaudeClose, CloseBegins, CloserDone,
         CodexClose, CodexKillsGroup, GeminiClose, CursorClose, QoderClose, OpencodeClose, IflowClose,
         CloseReturns, ClaudeReadsPrompt, IflowTimer, ProcessEnds, ReaderStep, ReaderSends, ReaderDrops,
         OutputEnds, IflowEnds, ReaderAtEnd, ReaderDone, asVars, asFlags
    <3> QED
      BY <3>1, <3>2
  <2> QED
    BY <2>1 DEF OneProcess
<1>3. CASE OneProcess
  <2>1. ClaudeOnly'
    BY <1>3, ClaudeStep DEF AsInv, ClaudeOnly
  <2> QED
    BY <1>1, <1>2, <1>3, <2>1 DEF AsInv, OpenForReaders, ClaudeOnly, OwnEvents
<1>4. CASE ~OneProcess
  <2>1. OwnOnly'
    BY <1>4, OwnStep DEF AsInv, OwnOnly
  <2> QED
    BY <1>1, <1>2, <1>4, <2>1 DEF AsInv, OpenForReaders, OwnOnly, ClaudeEvents
<1> QED
  BY <1>3, <1>4

\* A turn takes from the event channel what was printed for it, and readers find the channel
\* open (drainEvents, readLoop and Close of the adapters), for every adapter, number of
\* prompts, capacity and amount of output, with the exceptions the property names.
THEOREM ChannelIsSafe == AgentSpec => []EventChannelSafe
<1>1. AsInv => EventChannelSafe
  BY DEF AsInv, EventChannelSafe
<1> QED
  BY <1>1, AsStart, AsKept, PTL DEF AgentSpec
=============================================================================
