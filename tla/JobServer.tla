------------------------------ MODULE JobServer ------------------------------
(* What the job manager promises to whoever starts jobs, over restarts of the  *)
(* process: a job that was accepted is worked on at most once, one job of a    *)
(* project at a time, and what has ended stays so.                             *)

CONSTANTS Jobs, Projects, None

VARIABLES
    life,          \* new, accepted, working, ended
    owner          \* the project of a job that is not new

Lives == {"new", "accepted", "working", "ended"}

ServerInit == life = [j \in Jobs |-> "new"] /\ owner = [j \in Jobs |-> None]

Accept(j, p) ==
    /\ life[j] = "new"
    /\ life' = [life EXCEPT ![j] = "accepted"]
    /\ owner' = [owner EXCEPT ![j] = p]

Begin(j) ==
    /\ life[j] = "accepted"
    /\ \A k \in Jobs : owner[k] = owner[j] => life[k] # "working"
    /\ life' = [life EXCEPT ![j] = "working"]
    /\ UNCHANGED owner

\* The work ends, or the job is given up before it began.
End(j) ==
    /\ life[j] \in {"accepted", "working"}
    /\ life' = [life EXCEPT ![j] = "ended"]
    /\ UNCHANGED owner

\* The process ends: no work survives it, and jobs in W had been given up.
Die(W) ==
    /\ \A j \in W : life[j] = "accepted"
    /\ life' = [j \in Jobs |-> IF life[j] = "working" \/ j \in W THEN "ended" ELSE life[j]]
    /\ UNCHANGED owner

ServerNext ==
    \/ \E j \in Jobs, p \in Projects : Accept(j, p)
    \/ \E j \in Jobs : Begin(j) \/ End(j)
    \/ \E W \in SUBSET Jobs : Die(W)

ServerSpec == ServerInit /\ [][ServerNext]_<<life, owner>>
=============================================================================
