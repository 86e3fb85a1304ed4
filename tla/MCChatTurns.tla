----------------------------- MODULE MCChatTurns -----------------------------
(* Small chats for TLC; every config gives the sets of work as model values. *)
EXTENDS ChatTurns, TLC

\* chats.cfg takes three kinds of chats in one run, by the constraint OneKind; they have
\* their first states in common.  Of the work and of the budgets of the config, each kind
\* leaves something alone.
LeavesAlone(work, spared) ==
  /\ \A m \in work : pc[m] = "new"
  /\ \A what \in spared :
       budget[what] = [switches |-> MaxSwitches, stops |-> MaxStops, edits |-> MaxEdits,
                       deaths |-> MaxDeaths, faults |-> MaxFaults][what]

\* All users but one.
OtherUsers == Users \ {CHOOSE u \in Users : TRUE}

\* Prompts of two users and cron runs on one queue, with edits and failed starts.
Queueing == LeavesAlone(Commands \cup Compactions, {"stops", "deaths"})

\* Prompts, commands and cron runs while sessions are switched and stopped, with all of
\* these but one at a time.
Switching ==
  /\ LeavesAlone(Compactions, {"edits", "deaths", "faults"})
  /\ \/ LeavesAlone(Commands \cup CronRuns, {})
     \/ LeavesAlone(OtherUsers \cup Commands, {})
     \/ LeavesAlone(OtherUsers \cup CronRuns, {})
     \/ LeavesAlone(OtherUsers, {"switches"})
     \/ LeavesAlone(OtherUsers, {"stops"})

\* Prompts, commands and /compress with agents that die and fail to start.
Dying == LeavesAlone(OtherUsers \cup CronRuns, {"switches", "edits"})

OneKind == Queueing \/ Switching \/ Dying
=============================================================================
