----------------------------- MODULE MCSafetyWork -----------------------------
(* Seven more modules that share no state, side by side as in MCSafety: jobs and *)
(* their gateway, reviews, agent sessions and worktrees, and the binary of the   *)
(* service.                                                                      *)
EXTENDS JobManager, WorkerLink, ReviewFlow, AgentSessions, Workspace,
        SessionStart, SelfUpdate, TLC

VARIABLE part

Parts == {"jobs", "link", "review", "agents", "worktrees", "starts", "binary"}

\* The modules that are not picked start in one way only.
OneStart ==
    /\ part # "agents" => asKind = "codex" /\ ~asHeld
    /\ part # "worktrees" => wsRepo = "none"
    /\ part # "starts" => skRoots.has = {}

MCInit ==
    /\ part \in Parts
    /\ Init /\ LinkInit /\ RvInit /\ AgentInit
    /\ WsInit /\ SkInit /\ SuInit
    /\ OneStart

\* A step of the module p, and of no other.
Only(p) ==
    /\ part = p
    /\ UNCHANGED part
    /\ IF p = "jobs" THEN TRUE ELSE UNCHANGED vars
    /\ IF p = "link" THEN TRUE ELSE UNCHANGED linkVars
    /\ IF p = "review" THEN TRUE ELSE UNCHANGED rvVars
    /\ IF p = "agents" THEN TRUE ELSE UNCHANGED asVars
    /\ IF p = "worktrees" THEN TRUE ELSE UNCHANGED wsVars
    /\ IF p = "starts" THEN TRUE ELSE UNCHANGED skVars
    /\ IF p = "binary" THEN TRUE ELSE UNCHANGED suVars

MCNext ==
    \/ Only("jobs") /\ Next
    \/ Only("link") /\ LinkNext
    \/ Only("review") /\ RvNext
    \/ Only("agents") /\ AgentNext
    \/ Only("worktrees") /\ WsNext
    \/ Only("starts") /\ SkNext
    \/ Only("binary") /\ SuNext

MCSpec ==
    MCInit /\ [][MCNext]_<<part, vars, linkVars, rvVars, asVars, wsVars, skVars, suVars>>
=============================================================================
