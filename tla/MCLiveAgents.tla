----------------------------- MODULE MCLiveAgents -----------------------------
(* Three modules that share no state, side by side in one run of TLC that       *)
(* checks liveness, as in MCLiveWork: the processes of the agents, their        *)
(* worktrees and the turn locks.                                                *)
EXTENDS AgentSessions, Workspace, AgentTurnLock, TLC

VARIABLE part

Parts == {"agents", "worktrees", "locks"}

MCInit ==
    /\ part \in Parts
    \* The modules that are not picked start in one way, in which they have nothing to do.
    /\ AgentInit /\ WsInit /\ Init
    /\ part # "agents" => asKind = "codex" /\ ~asHeld
    /\ part # "worktrees" => wsRepo = "none"

\* A step of the module p, and of no other.
Only(p) ==
    /\ part = p
    /\ UNCHANGED part
    /\ IF p = "agents" THEN TRUE ELSE UNCHANGED asVars
    /\ IF p = "worktrees" THEN TRUE ELSE UNCHANGED wsVars
    /\ IF p = "locks" THEN TRUE ELSE UNCHANGED vars

MCNext ==
    \/ Only("agents") /\ AgentNext
    \/ Only("worktrees") /\ WsNext
    \/ Only("locks") /\ Next

\* AgentFairness, WsFairness and FairSpec, each for its own part.
AgentsFair ==
    /\ WF_asVars(part = "agents" /\ SendStep) /\ WF_asVars(part = "agents" /\ CloseStep)
    /\ WF_asVars(part = "agents" /\ (EngineTakes \/ EngineSeesClosed))
    /\ \A p \in AgentTurnNos : /\ WF_asVars(part = "agents" /\ ReaderStep(p))
                               /\ WF_asVars(part = "agents" /\ ProcessEnds(p))

WorktreesFair == \A o \in WsOps : WF_wsVars(part = "worktrees" /\ WsStep(o))

LocksFair ==
    \A a \in Actors : WF_vars(part = "locks" /\ Step(a)) /\ SF_vars(part = "locks" /\ TakeSem(a))

MCSpec ==
    /\ MCInit /\ [][MCNext]_<<part, asVars, wsVars, vars>>
    /\ AgentsFair /\ WorktreesFair /\ LocksFair
=============================================================================
