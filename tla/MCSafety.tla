------------------------------- MODULE MCSafety -------------------------------
(* Nine modules that share no state, side by side in one run of TLC: a           *)
(* behaviour is one of the module that its first state picks, and the others    *)
(* stay as they start.  The states of the run are those of nine runs together.   *)
EXTENDS CronScheduler, TurnEvents, StreamPreview, SessionStore, AgentUpgrade,
        Intake, Delivery, Gateway, ConfigFile, TLC

CONSTANTS a1, s1

\* A session of an agent.
MCTargets == <<a1>>
MCAgentOf == s1 :> a1

VARIABLE part

Parts == {"cron", "events", "preview", "store", "upgrade", "intake", "delivery", "gateway", "config"}

\* The modules that are not picked start in one way only.
OneStart ==
    /\ part # "cron" => \A j \in CronIds : cronStore[j] = CronUnborn
    /\ part # "preview" => pvCleans
    /\ part # "upgrade" => upCfg = CHOOSE c \in UpConfigs : TRUE
    /\ part # "delivery" => dvOf = "telegram"

MCInit ==
    /\ part \in Parts
    /\ CronInit /\ EvInit /\ PvInit /\ SsInit
    /\ UpInit /\ InInit /\ DvInit /\ GwInit /\ CfInit
    /\ OneStart

\* A step of the module p, and of no other.
Only(p) ==
    /\ part = p
    /\ UNCHANGED part
    /\ IF p = "cron" THEN TRUE ELSE UNCHANGED cronVars
    /\ IF p = "events" THEN TRUE ELSE UNCHANGED evVars
    /\ IF p = "preview" THEN TRUE ELSE UNCHANGED pvVars
    /\ IF p = "store" THEN TRUE ELSE UNCHANGED ssVars
    /\ IF p = "upgrade" THEN TRUE ELSE UNCHANGED upVars
    /\ IF p = "intake" THEN TRUE ELSE UNCHANGED inVars
    /\ IF p = "delivery" THEN TRUE ELSE UNCHANGED dvVars
    /\ IF p = "gateway" THEN TRUE ELSE UNCHANGED gwVars
    /\ IF p = "config" THEN TRUE ELSE UNCHANGED cfVars

MCNext ==
    \/ Only("cron") /\ CronNext
    \/ Only("events") /\ EvNext
    \/ Only("preview") /\ PvNext
    \/ Only("store") /\ SsNext
    \/ Only("upgrade") /\ UpNext
    \/ Only("intake") /\ InNext
    \/ Only("delivery") /\ DvNext
    \/ Only("gateway") /\ GwNext
    \/ Only("config") /\ CfNext

MCSpec ==
    MCInit /\ [][MCNext]_<<part, cronVars, evVars, pvVars, ssVars, upVars, inVars, dvVars, gwVars, cfVars>>
=============================================================================
