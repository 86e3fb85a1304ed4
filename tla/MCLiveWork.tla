------------------------------ MODULE MCLiveWork ------------------------------
(* Five modules that share no state, side by side in one run of TLC that checks *)
(* liveness: a behaviour is one of the module that its first state picks, under *)
(* the fairness of that module, and the others stay as they start.              *)
EXTENDS JobManager, WorkerLink, ReviewFlow, AgentUpgrade, Gateway, TLC

CONSTANTS a1, s1

\* A session of an agent.
MCTargets == <<a1>>
MCAgentOf == s1 :> a1

VARIABLE part

Parts == {"jobs", "link", "review", "upgrade", "gateway"}

MCInit ==
    /\ part \in Parts
    \* The modules that are not picked start in one way, in which they have nothing to do.
    /\ Init /\ RvInit /\ UpInit /\ GwInit
    /\ IF part = "link" THEN LinkInit ELSE LinkFresh /\ linkStage = Heartbeat
    /\ part # "upgrade" => upCfg = CHOOSE c \in UpConfigs : ~c.enabled

\* A step of the module p, and of no other.
Only(p) ==
    /\ part = p
    /\ UNCHANGED part
    /\ IF p = "jobs" THEN TRUE ELSE UNCHANGED vars
    /\ IF p = "link" THEN TRUE ELSE UNCHANGED linkVars
    /\ IF p = "review" THEN TRUE ELSE UNCHANGED rvVars
    /\ IF p = "upgrade" THEN TRUE ELSE UNCHANGED upVars
    /\ IF p = "gateway" THEN TRUE ELSE UNCHANGED gwVars

MCNext ==
    \/ Only("jobs") /\ Next
    \/ Only("link") /\ LinkNext
    \/ Only("review") /\ RvNext
    \/ Only("upgrade") /\ UpNext
    \/ Only("gateway") /\ GwNext

\* FairSpec, LinkFairness, RvFairness, UpFairness and GwFairness, each for its own part.
JobsFair ==
    /\ \A j \in Jobs : /\ WF_vars(part = "jobs" /\ RunJob(j))
                       /\ WF_vars(part = "jobs" /\ CancelContext(j))
                       /\ SF_vars(part = "jobs" /\ Finish(j))
    /\ \A p \in Projects : WF_vars(part = "jobs" /\ p \notin registered /\ RegisterProject(p))

LinkFair ==
    /\ WF_linkVars(part = "link" /\ LinkSessionStep) /\ SF_linkVars(part = "link" /\ LinkDial)
    /\ WF_linkVars(part = "link" /\ GatewayAnswers) /\ WF_linkVars(part = "link" /\ ReaderAnswers)
    /\ \A l \in Links : WF_linkVars(part = "link" /\ ReaderFails(l))

ReviewFair ==
    /\ \A v \in Reviews : /\ WF_rvVars(part = "review" /\ ReviewStep(v))
                          /\ SF_rvVars(part = "review" /\ RvAcquire(v))
    /\ WF_rvVars(part = "review" /\ RvUserStep)

UpgradeFair ==
    /\ WF_upVars(part = "upgrade" /\ UpLoopStep) /\ WF_upVars(part = "upgrade" /\ LoopTimer)
    /\ \A r \in Runners : WF_upVars(part = "upgrade" /\ UpRunStep(r))

GatewayFair ==
    /\ \A i \in ReaderIds :
         WF_gwVars(part = "gateway" /\ \E r \in gwReaders : r.id = i /\ Reading(r))
    /\ WF_gwVars(part = "gateway" /\ Reconnecting)
    /\ WF_gwVars(part = "gateway" /\ Beating)

MCSpec ==
    /\ MCInit /\ [][MCNext]_<<part, vars, linkVars, rvVars, upVars, gwVars>>
    /\ JobsFair /\ LinkFair /\ ReviewFair /\ UpgradeFair /\ GatewayFair
=============================================================================
