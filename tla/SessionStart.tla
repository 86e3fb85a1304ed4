------------------------------ MODULE SessionStart ------------------------------
(* How an engine starts agent sessions, and the turns that own their session:   *)
(* jobs and isolated cron runs.  A start prepares the skills of its workspace    *)
(* on disk (links, manifest, the exclude file of the repository), hands its      *)
(* environment to the one agent object of the project and starts a process.     *)
(* Jobs work in injected worktrees, the others in a workspace per session key    *)
(* and set of skills.  A repository belongs to one project.                      *)
EXTENDS Integers, FiniteSets

CONSTANTS
    SkJobs, SkCrons, SkChats,  \* starts of jobs, of runs of one cron job, of chats
    SkSkills,                  \* skills that the configured roots may hold
    SkIds,                     \* agent session ids
    NoStart, NoSkillId,
    MaxAtOnce,                 \* starts under way at one time
    MaxTroubles                \* configuration changes, rebinds, faults and crashes

SkStarts == SkJobs \cup SkCrons \cup SkChats

ASSUME SessionStartAssumption ==
    /\ NoStart \notin SkStarts /\ NoSkillId \notin SkIds
    /\ {MaxAtOnce, MaxTroubles} \subseteq Nat

VARIABLES
    skRoots,    \* managedSkillEnabled and what the roots hold
    skMu,       \* agentStartMu
    skEnv,      \* whose environment the agent object has
    skMeta,     \* keys of preparedSkillMeta
    skRun,      \* per start: where it is, what it read, what came of it
    skLinks,    \* per workspace: names of skills in its target directory
    skManifest, \* per workspace: skills-manifest.json
    skExclude,  \* info/exclude of the repository
    skProc,     \* per start: its process
    skBound,    \* agent_session_id of the cron job
    skCut,      \* history: workspaces and exclude file where a write was cut short, or Unasked
    skLeft      \* troubles that may still come

skDisk == <<skLinks, skManifest, skExclude>>
skVars == <<skRoots, skMu, skEnv, skMeta, skRun, skDisk, skProc, skBound, skCut, skLeft>>

\* Jobs take turns in one worktree; a cron job and a chat have a session key each,
\* and a workspace for every set of skills.
Key(g) == IF g \in SkCrons THEN "cron" ELSE IF g \in SkChats THEN "chat" ELSE g
Tree == <<{}, "tree">>
ExcludeFile == <<{}, "exclude">>
\* In skCut: a job has gone on although git did not say where the exclude file is.
Unasked == <<{}, "git">>
SkPlaces == {Tree} \cup ((SUBSET SkSkills) \X {"cron", "chat"})
Place(g, skills) == IF g \in SkJobs THEN Tree ELSE <<skills, Key(g)>>

NoManifest == [is |-> "none", names |-> {}]
\* One line stands for the two patterns of the project.
UserLine == "user"
SkillLine == "skills"

NewRun == [at |-> "new", has |-> {}, todo |-> {}, read |-> {}, on |-> FALSE,
           id |-> NoSkillId, worked |-> FALSE, out |-> "none"]
NoProcess == [env |-> NoStart, skills |-> {}]
\* What a run leaves behind when it is over.
Over(out) == [NewRun EXCEPT !.at = "ended", !.out = out]

SkInit ==
    /\ skRoots \in [on : {TRUE}, has : SUBSET SkSkills]
    /\ skMu = NoStart /\ skEnv = NoStart
    /\ skMeta = {}
    /\ skRun = [g \in SkStarts |-> NewRun]
    /\ skLinks = [p \in SkPlaces |-> {}]
    /\ skManifest = [p \in SkPlaces |-> NoManifest]
    /\ skExclude = {UserLine}
    /\ skProc = [g \in SkStarts |-> NoProcess]
    /\ skBound = NoSkillId
    /\ skCut = {}
    /\ skLeft = MaxTroubles

-----------------------------------------------------------------------------
SkAt(g, label) == skRun[g].at = label
SkGoes(g, label) == skRun' = [skRun EXCEPT ![g].at = label]
Skills(g) == skRun[g].has
Where(g) == Place(g, Skills(g))
SkFault == skLeft > 0 /\ skLeft' = skLeft - 1
NoFault == UNCHANGED skLeft

\* A failed resume counts as a stale session only if the agent did no work.
\* A plausible bug: the work is not looked at.
Failed_Worked(g, typed) == IF typed /\ skRun[g].id # NoSkillId THEN "notfound" ELSE "error"
Failed(g, typed) ==
    IF typed /\ skRun[g].id # NoSkillId /\ ~skRun[g].worked THEN "notfound" ELSE "error"

\* The run is over with this outcome and session id; a cron run has its job to update.
RunOver(g, out, id) ==
    skRun' = [skRun EXCEPT ![g] = IF g \in SkCrons
                                  THEN [Over(out) EXCEPT !.at = "record", !.id = id, !.worked = skRun[g].worked]
                                  ELSE Over(out)]

\* startAgentSession returns an error and its deferred unlock runs.
StartFails(g) ==
    /\ \E typed \in BOOLEAN : RunOver(g, Failed(g, typed), NoSkillId)
    /\ skMu' = NoStart

\* The slot of the project (jobs), the gate of the chat (cron runs) and
\* interactiveMu (starts of chats) admit one at a time.
Underway == {g \in SkStarts : ~SkAt(g, "new") /\ ~SkAt(g, "ended")}
Alike == {SkJobs, SkCrons, SkChats}
Admitted(g) == \A same \in Alike : g \in same => Underway \cap same = {}

\* A cron run resumes the session of its job or, the first time, that of the chat.
ResumeId(g, inherited) ==
    IF g \notin SkCrons THEN NoSkillId
    ELSE IF skBound # NoSkillId THEN skBound ELSE inherited

SkAsk(g) ==
    /\ SkAt(g, "new") /\ Admitted(g) /\ Cardinality(Underway) < MaxAtOnce
    /\ \E inherited \in SkIds \cup {NoSkillId} :
        skRun' = [skRun EXCEPT ![g].at = "asked", ![g].id = ResumeId(g, inherited)]
    /\ UNCHANGED <<skRoots, skMu, skEnv, skMeta, skDisk, skProc, skBound, skCut, skLeft>>

\* The worktree of a job is not there.
SkNoTree(g) ==
    /\ SkAt(g, "asked") /\ g \in SkJobs
    /\ SkFault
    /\ skRun' = [skRun EXCEPT ![g] = Over("error")]
    /\ UNCHANGED <<skRoots, skMu, skEnv, skMeta, skDisk, skProc, skBound, skCut>>

LockFree == skMu = NoStart

SkLock(g) ==
    /\ SkAt(g, "asked") /\ LockFree
    /\ skMu' = g
    /\ skRun' = [skRun EXCEPT ![g].has = IF skRoots.on THEN skRoots.has ELSE {},
                              ![g].on = skRoots.on,
                              ![g].at = IF skRoots.on THEN "reconcile" ELSE "prepared"]
    /\ UNCHANGED <<skRoots, skEnv, skMeta, skDisk, skProc, skBound, skCut, skLeft>>

\* The preparation fails and has written nothing: the skill roots cannot be read, a directory
\* cannot be made, the manifest cannot be opened, the exclude file cannot be read or opened.
SkUnprepared(g) ==
    /\ \/ SkAt(g, "reconcile") \/ SkAt(g, "exclude")
       \/ SkAt(g, "link") /\ skRun[g].todo = {}
       \/ SkAt(g, "prepared") /\ g \notin SkJobs /\ skRun[g].on
    /\ SkFault /\ StartFails(g)
    /\ skCut' = IF SkAt(g, "link") THEN skCut \cup {Where(g)} ELSE skCut
    /\ UNCHANGED <<skRoots, skEnv, skMeta, skDisk, skProc, skBound>>

\* What the last manifest names and the roots no longer have is removed, or some of it when
\* RemoveAll fails.
\* A plausible bug: it stays.
Stale_Never(g) == {}
Stale(g) ==
    IF skManifest[Where(g)].is = "whole" THEN skManifest[Where(g)].names \ Skills(g) ELSE {}

SkReconcile(g) ==
    /\ SkAt(g, "reconcile")
    /\ \/ /\ skLinks' = [skLinks EXCEPT ![Where(g)] = @ \ Stale(g)]
          /\ skRun' = [skRun EXCEPT ![g].at = "link", ![g].todo = Skills(g)]
          /\ NoFault /\ UNCHANGED skMu
       \/ /\ \E gone \in SUBSET Stale(g) : skLinks' = [skLinks EXCEPT ![Where(g)] = @ \ gone]
          /\ SkFault /\ StartFails(g)
    /\ UNCHANGED <<skRoots, skEnv, skMeta, skManifest, skExclude, skProc, skBound, skCut>>

\* One skill is linked anew, or copied where links are refused.
SkLink(g) ==
    /\ SkAt(g, "link")
    /\ \E n \in skRun[g].todo :
        \/ /\ skLinks' = [skLinks EXCEPT ![Where(g)] = @ \cup {n}]
           /\ skRun' = [skRun EXCEPT ![g].todo = @ \ {n}]
           /\ NoFault /\ UNCHANGED <<skMu, skCut>>
        \* It was removed and cannot be put back, or not all of it.
        \/ /\ \E left \in {{}, {n}} : skLinks' = [skLinks EXCEPT ![Where(g)] = (@ \ {n}) \cup left]
           /\ SkFault /\ StartFails(g)
           /\ skCut' = skCut \cup {Where(g)}
    /\ UNCHANGED <<skRoots, skEnv, skMeta, skManifest, skExclude, skProc, skBound>>

\* os.WriteFile empties the manifest before it fills it.
SkManifestOpen(g) ==
    /\ SkAt(g, "link") /\ skRun[g].todo = {}
    /\ skManifest' = [skManifest EXCEPT ![Where(g)] = [is |-> "torn", names |-> {}]]
    /\ SkGoes(g, "manifest")
    /\ UNCHANGED <<skRoots, skMu, skEnv, skMeta, skLinks, skExclude, skProc, skBound, skCut, skLeft>>

SkManifestWrite(g) ==
    /\ SkAt(g, "manifest")
    /\ \/ /\ skManifest' = [skManifest EXCEPT ![Where(g)] = [is |-> "whole", names |-> Skills(g)]]
          /\ SkGoes(g, IF g \in SkJobs THEN "exclude" ELSE "prepared")
          /\ NoFault /\ UNCHANGED <<skMu, skCut>>
       \/ /\ SkFault /\ StartFails(g)
          /\ skCut' = skCut \cup {Where(g)}
          /\ UNCHANGED skManifest
    /\ UNCHANGED <<skRoots, skEnv, skMeta, skLinks, skExclude, skProc, skBound>>

\* The lines of the exclude file are read.  Nothing to add ends the preparation, and so does
\* a git that does not say where the file is; otherwise os.WriteFile empties the file before
\* it fills it.
SkExcludeOpen(g) ==
    /\ SkAt(g, "exclude")
    /\ \/ /\ SkillLine \in skExclude
          /\ SkGoes(g, "prepared")
          /\ NoFault /\ UNCHANGED <<skExclude, skCut>>
       \/ /\ SkillLine \notin skExclude
          /\ skExclude' = {}
          /\ skRun' = [skRun EXCEPT ![g].read = skExclude, ![g].at = "fill"]
          /\ NoFault /\ UNCHANGED skCut
       \/ /\ SkFault /\ SkGoes(g, "prepared")
          /\ skCut' = skCut \cup {Unasked}
          /\ UNCHANGED skExclude
    /\ UNCHANGED <<skRoots, skMu, skEnv, skMeta, skLinks, skManifest, skProc, skBound>>

Excluded(g) == skRun[g].read \cup {SkillLine}

\* The write may end early, with only some of the lines in the file.
SkExcludeFill(g) ==
    /\ SkAt(g, "fill")
    /\ \/ /\ skExclude' = Excluded(g)
          /\ SkGoes(g, "prepared")
          /\ NoFault /\ UNCHANGED <<skMu, skCut>>
       \/ /\ skExclude' \in SUBSET Excluded(g)
          /\ SkFault /\ StartFails(g)
          /\ skCut' = skCut \cup {ExcludeFile}
    /\ UNCHANGED <<skRoots, skEnv, skMeta, skLinks, skManifest, skProc, skBound>>

\* storePreparedSkillMeta and SetSessionEnv
SkSetEnv(g) ==
    /\ SkAt(g, "prepared")
    /\ skMeta' = IF skRun[g].on THEN skMeta \cup {Key(g)} ELSE skMeta \ {Key(g)}
    /\ skEnv' = g
    /\ SkGoes(g, "start")
    /\ UNCHANGED <<skRoots, skMu, skDisk, skProc, skBound, skCut, skLeft>>

\* The process gets the environment that the agent object has, and the skills
\* that are in its workspace.  That of a chat is on its own from then on.  A failed
\* start leaves the description behind.
SkStart(g) ==
    /\ SkAt(g, "start")
    /\ \/ /\ skProc' = [skProc EXCEPT ![g] = [env |-> skEnv, skills |-> skLinks[Where(g)]]]
          /\ SkGoes(g, IF g \in SkChats THEN "ended" ELSE "send")
          /\ skMu' = NoStart
          /\ NoFault
       \/ /\ SkFault /\ StartFails(g)
          /\ UNCHANGED skProc
    /\ UNCHANGED <<skRoots, skEnv, skMeta, skDisk, skBound, skCut>>

\* The run returns, and its deferred Close ends the process.
Closes(g) == skProc' = [skProc EXCEPT ![g] = NoProcess]

\* Run takes the description of the skills and sends the prompt; a cron run waits
\* for Send no longer than for its deadline.
SkSend(g) ==
    /\ SkAt(g, "send")
    /\ skMeta' = IF g \in SkJobs THEN skMeta \ {Key(g)} ELSE skMeta
    /\ \/ SkGoes(g, "turn") /\ NoFault /\ UNCHANGED skProc
       \/ /\ SkFault /\ Closes(g)
          /\ \E typed \in BOOLEAN : RunOver(g, Failed(g, typed), NoSkillId)
       \/ /\ g \in SkCrons
          /\ SkFault /\ Closes(g)
          /\ RunOver(g, "cancelled", NoSkillId)
    /\ UNCHANGED <<skRoots, skMu, skEnv, skDisk, skBound, skCut>>

\* An event with text, or for a cron run any sign of work
SkWork(g) ==
    /\ SkAt(g, "turn") /\ ~skRun[g].worked
    /\ skRun' = [skRun EXCEPT ![g].worked = TRUE]
    /\ UNCHANGED <<skRoots, skMu, skEnv, skMeta, skDisk, skProc, skBound, skCut, skLeft>>

\* A closed channel is a success for a cron run, and for a job that has some text.
Exited(g) == IF g \in SkCrons \/ skRun[g].worked THEN "ok" ELSE "error"

\* A result, an error, a permission request, the end of the process or of the context
SkTurnEnds(g) ==
    /\ SkAt(g, "turn")
    /\ Closes(g)
    /\ \E id \in SkIds \cup {NoSkillId} :
        \/ \E out \in {"ok", Exited(g)} : RunOver(g, out, id) /\ NoFault
        \/ SkFault /\ RunOver(g, "cancelled", id)
        \/ SkFault /\ RunOver(g, "refused", id)
        \/ SkFault /\ \E typed \in BOOLEAN : RunOver(g, Failed(g, typed), id)
    /\ UNCHANGED <<skRoots, skMu, skEnv, skMeta, skDisk, skBound, skCut>>

\* runCronIsolatedTurn drops a stale id or keeps the one the run ended with.
SkRecord(g) ==
    /\ SkAt(g, "record")
    /\ skBound' = IF skRun[g].out = "notfound" THEN NoSkillId
                  ELSE IF skRun[g].id # NoSkillId THEN skRun[g].id ELSE skBound
    /\ skRun' = [skRun EXCEPT ![g] = Over(skRun[g].out)]
    /\ UNCHANGED <<skRoots, skMu, skEnv, skMeta, skDisk, skProc, skCut, skLeft>>

\* /cron session
SkRebind ==
    /\ skLeft > 0
    /\ \E id \in SkIds : skBound' = id
    /\ skLeft' = skLeft - 1
    /\ UNCHANGED <<skRoots, skMu, skEnv, skMeta, skRun, skDisk, skProc, skCut>>

\* A reload of the configuration, or an edit of the skill directories
SkConfigure ==
    /\ skLeft > 0
    /\ skRoots' \in [on : BOOLEAN, has : SUBSET SkSkills]
    /\ skLeft' = skLeft - 1
    /\ UNCHANGED <<skMu, skEnv, skMeta, skRun, skDisk, skProc, skBound, skCut>>

\* The service dies and starts again: what is on disk stays as it is.
SkCrash ==
    /\ skLeft > 0
    /\ skLeft' = skLeft - 1
    /\ skCut' = skCut \cup {Where(g) : g \in {h \in SkStarts : SkAt(h, "link") \/ SkAt(h, "manifest")}}
                     \cup {ExcludeFile : g \in {h \in SkStarts : SkAt(h, "fill")}}
    /\ skRun' = [g \in SkStarts |-> IF SkAt(g, "new") THEN NewRun ELSE Over(skRun[g].out)]
    /\ skMu' = NoStart /\ skEnv' = NoStart /\ skMeta' = {}
    /\ skProc' = [g \in SkStarts |-> NoProcess]
    /\ UNCHANGED <<skRoots, skDisk, skBound>>

SkStep(g) ==
    \/ SkAsk(g) \/ SkNoTree(g) \/ SkLock(g) \/ SkUnprepared(g) \/ SkReconcile(g)
    \/ SkLink(g) \/ SkManifestOpen(g) \/ SkManifestWrite(g)
    \/ SkExcludeOpen(g) \/ SkExcludeFill(g)
    \/ SkSetEnv(g) \/ SkStart(g) \/ SkSend(g) \/ SkWork(g) \/ SkTurnEnds(g) \/ SkRecord(g)

SkNext == SkRebind \/ SkConfigure \/ SkCrash \/ \E g \in SkStarts : SkStep(g)

SkSpec == SkInit /\ [][SkNext]_skVars

-----------------------------------------------------------------------------
\* The agent object of a project has one environment for all its sessions, set just
\* before the start: no job, cron run or chat starts with the session key, worktree
\* or skills of another (startAgentSession, SetSessionEnv, StartSession).
SessionGetsOwnEnv == \A g \in SkStarts : skProc[g].env \in {NoStart, g}

\* A session starts with exactly the skills that were configured when it was
\* prepared, whatever earlier sessions of the worktree were given, unless a
\* preparation there was cut short: a torn manifest, or one older than the links,
\* lets a dropped skill stay (materializeNativeSkillsWorkspace).
SkillsAsConfigured ==
    \A g \in SkStarts :
        skProc[g].env # NoStart /\ skRun[g].on /\ Where(g) \notin skCut
            => skProc[g].skills = Skills(g)

\* Outside the two steps of a write the user's lines are in info/exclude, and so are the
\* patterns for every job with skills (ensureGitExcludePatterns).  The file is rewritten in
\* place: once an error or a crash has cut that write short, the lines that were not written
\* are lost, and later jobs only add their own.  A job also goes on without its patterns when
\* git does not say where the file is (ensureManagedWorkspaceGitExclude).
ExcludeKept ==
    ExcludeFile \notin skCut /\ ~(\E g \in SkStarts : SkAt(g, "fill")) =>
        /\ UserLine \in skExclude
        /\ Unasked \notin skCut =>
             \A g \in SkJobs : skRun[g].on /\ skProc[g].env # NoStart => SkillLine \in skExclude

\* A cron job loses its accumulated agent session only at the end of a run in which
\* the agent did nothing: an error about a missing file in the middle of the work
\* is not taken for a missing session (cronResumeError, runCronIsolatedTurn).
CronContextKept ==
    [][skBound # NoSkillId /\ skBound' = NoSkillId
        => \E g \in SkCrons : SkAt(g, "record") /\ ~SkAt(g, "record")' /\ ~skRun[g].worked]_skVars

\* A session starts in the environment that was prepared for it, from the skills that are
\* configured, in a repository whose exclude file has the lines of everyone, except in what a
\* write that was cut short has left behind: such a workspace, and such an exclude file.
StartAsConfigured == SessionGetsOwnEnv /\ SkillsAsConfigured /\ ExcludeKept
=============================================================================
