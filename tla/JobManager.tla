----------------------------- MODULE JobManager -----------------------------
(* The job manager: jobs that a worker server or the HTTP API starts, one      *)
(* queue and at most one running job per project, one file per job.           *)
(*                                                                            *)
(* An action is one critical section of jm.mu with the saves made inside it,  *)
(* or one save made outside.  A save writes a temporary file and renames it,  *)
(* so it happens or, at most MaxFaults times, fails and leaves the old file.  *)
EXTENDS Integers, Sequences, FiniteSets

CONSTANTS
    Jobs,          \* the job ids that newJobID may draw, random and unordered
    Projects,
    MaxCancels,    \* bound: calls of Cancel that find a job to cancel
    MaxCrashes,    \* bound: ends of the process
    MaxFaults,     \* bound: saves that fail
    None

ASSUME JobAssumption == IsFiniteSet(Jobs) /\ None \notin Jobs
ASSUME ProjectAssumption == None \notin Projects
ASSUME BoundAssumption ==
    MaxCancels \in Nat /\ MaxCrashes \in Nat /\ MaxFaults \in Nat

VARIABLES
    up,            \* the process runs and NewJobManager has returned
    registered,    \* jm.runners: the projects with a runner
    project,       \* Job.Project
    mem,           \* jm.jobs: what the manager has in memory of each job
    queue,         \* jm.queues
    running,       \* jm.running
    ctx,           \* managed.ctx: none before dispatch, live, cancelled, deadline
    pc,            \* where the goroutine of runJob stands
    clone,         \* the copy it took under the lock and saves outside
    stopping,      \* jobs whose Cancel has unlocked and not yet called cancel()
    disk,          \* the files
    ran,           \* history: jobs whose runner was called, in any process
    unsaved,       \* history: jobs of this process whose last locked save failed
    cancels, crashes, faults

slots == <<queue, running, ctx, pc>>
files == <<disk, faults>>
vars == <<up, registered, project, mem, queue, running, ctx, pc, clone, stopping,
          disk, ran, unsaved, cancels, crashes, faults>>

Terminal == {"completed", "failed", "cancelled", "timed_out", "orphaned"}
Statuses == {"none", "queued", "running"} \cup Terminal

\* The part of a Job that matters: Status, and whether StartedAt and FinishedAt are set.
Records == [status : Statuses, started : BOOLEAN, finished : BOOLEAN]
Absent == [status |-> "none", started |-> FALSE, finished |-> FALSE]
Fresh == [status |-> "queued", started |-> FALSE, finished |-> FALSE]

Init ==
    /\ up = TRUE
    /\ registered = {}
    /\ project = [j \in Jobs |-> None]
    /\ mem = [j \in Jobs |-> Absent]
    /\ queue = [p \in Projects |-> <<>>]
    /\ running = [p \in Projects |-> None]
    /\ ctx = [j \in Jobs |-> "none"]
    /\ pc = [j \in Jobs |-> "idle"]
    /\ clone = [j \in Jobs |-> Absent]
    /\ stopping = {}
    /\ disk = [j \in Jobs |-> Absent]
    /\ ran = {}
    /\ unsaved = {}
    /\ cancels = 0
    /\ crashes = 0
    /\ faults = 0

-----------------------------------------------------------------------------
Saved(j, r) == disk' = [disk EXCEPT ![j] = r] /\ UNCHANGED faults
NotSaved == faults < MaxFaults /\ faults' = faults + 1 /\ UNCHANGED disk

\* Job j becomes r under the lock: if the save fails, it is failed in memory only.
Settle(j, r) ==
    \/ /\ Saved(j, r)
       /\ mem' = [mem EXCEPT ![j] = r]
       /\ unsaved' = unsaved \ {j}
    \/ /\ NotSaved
       /\ mem' = [mem EXCEPT ![j] = [r EXCEPT !.status = "failed"]]
       /\ unsaved' = unsaved \cup {j}

\* The positions of q from which project p can be served (a job has a runner as
\* soon as its project has).
Ready(p, q, m) == {i \in DOMAIN q : m[q[i]].status = "queued" /\ p \in registered'}

\* prepareNextJobLocked for a project with this slot and queue, and the go
\* statement that follows; at are the other goroutines after the step.
DispatchNext(p, slot, q, m, at) ==
    \/ /\ slot # None
       /\ queue' = [queue EXCEPT ![p] = q]
       /\ running' = [running EXCEPT ![p] = slot]
       /\ pc' = at
       /\ UNCHANGED ctx
    \/ /\ slot = None
       /\ Ready(p, q, m) = {}
       /\ queue' = [queue EXCEPT ![p] = <<>>]
       /\ running' = [running EXCEPT ![p] = None]
       /\ pc' = at
       /\ UNCHANGED ctx
    \/ /\ slot = None
       /\ \E i \in Ready(p, q, m) :
            /\ \A k \in Ready(p, q, m) : i <= k
            /\ queue' = [queue EXCEPT ![p] = SubSeq(q, i + 1, Len(q))]
            /\ running' = [running EXCEPT ![p] = q[i]]
            /\ pc' = [at EXCEPT ![q[i]] = "spawned"]
            /\ ctx' = [ctx EXCEPT ![q[i]] = "live"]

-----------------------------------------------------------------------------
\* At start-up, and again when an engine is registered with the API server.
RegisterProject(p) ==
    /\ up
    /\ registered' = registered \cup {p}
    /\ DispatchNext(p, running[p], queue[p], mem, pc)
    /\ UNCHANGED <<up, project, mem, clone, stopping, files, ran, unsaved, cancels, crashes>>

\* A Start whose save fails changes nothing and returns the error.
Start(p, j) ==
    /\ up
    /\ p \in registered
    /\ mem[j] = Absent /\ disk[j] = Absent
    /\ Saved(j, Fresh)
    /\ mem' = [mem EXCEPT ![j] = Fresh]
    /\ project' = [project EXCEPT ![j] = p]
    /\ UNCHANGED registered
    /\ DispatchNext(p, running[p], Append(queue[p], j), mem', pc)
    /\ UNCHANGED <<up, clone, stopping, ran, unsaved, cancels, crashes>>

\* The code filters q; j is in it at most once (QueueExact).
Without(q, j) ==
    IF \E i \in DOMAIN q : q[i] = j
    THEN LET i == CHOOSE i \in DOMAIN q : q[i] = j
         IN  SubSeq(q, 1, i - 1) \o SubSeq(q, i + 1, Len(q))
    ELSE q

Cancelled(r) ==
    [r EXCEPT !.status = "cancelled",
              !.finished = r.finished \/ r.status = "queued" \/ ~r.started]

Cancel(j) ==
    /\ up
    /\ mem[j].status \in {"queued", "running"}
    /\ cancels < MaxCancels
    /\ cancels' = cancels + 1
    /\ queue' = [queue EXCEPT ![project[j]] = Without(@, j)]
    /\ Settle(j, Cancelled(mem[j]))
    /\ stopping' = IF ctx[j] = "none" THEN stopping ELSE stopping \cup {j}
    /\ UNCHANGED <<up, registered, project, running, ctx, pc, clone, ran, crashes>>

\* The call of cancel() after the unlock.
CancelContext(j) ==
    /\ j \in stopping
    /\ stopping' = stopping \ {j}
    /\ ctx' = [ctx EXCEPT ![j] = IF @ = "live" THEN "cancelled" ELSE @]
    /\ UNCHANGED <<up, registered, project, mem, queue, running, pc, clone, files, ran,
                   unsaved, cancels, crashes>>

\* A job may have a timeout; it runs from the dispatch on.
Expire(j) ==
    /\ ctx[j] = "live"
    /\ pc[j] # "idle"
    /\ ctx' = [ctx EXCEPT ![j] = "deadline"]
    /\ UNCHANGED <<up, registered, project, mem, queue, running, pc, clone, stopping, files,
                   ran, unsaved, cancels, crashes>>

-----------------------------------------------------------------------------
Begun(r) == [r EXCEPT !.status = "running", !.started = TRUE]

\* Mutants of RunBegin: a cancelled job keeps the slot; a cancelled job runs.
RunBegin_KeepsSlot(j) ==
    /\ pc[j] = "spawned"
    /\ \/ /\ mem[j].status \in Terminal
          /\ pc' = [pc EXCEPT ![j] = "idle"]
          /\ UNCHANGED <<mem, clone>>
       \/ /\ mem[j].status \notin Terminal
          /\ mem' = [mem EXCEPT ![j] = Begun(@)]
          /\ clone' = [clone EXCEPT ![j] = mem'[j]]
          /\ pc' = [pc EXCEPT ![j] = "save"]
    /\ UNCHANGED <<up, registered, project, queue, running, ctx, stopping, files, ran, unsaved,
                   cancels, crashes>>

\* The first critical section of runJob.  A job cancelled in the meantime frees
\* the slot of its project and dispatches nothing.
RunBegin(j) ==
    /\ pc[j] = "spawned"
    /\ \/ /\ mem[j].status \in Terminal
          /\ running' = [running EXCEPT ![project[j]] = IF @ = j THEN None ELSE @]
          /\ pc' = [pc EXCEPT ![j] = "idle"]
          /\ UNCHANGED <<mem, clone>>
       \/ /\ mem[j].status \notin Terminal
          /\ mem' = [mem EXCEPT ![j] = Begun(@)]
          /\ clone' = [clone EXCEPT ![j] = mem'[j]]
          /\ pc' = [pc EXCEPT ![j] = "save"]
          /\ UNCHANGED running
    /\ UNCHANGED <<up, registered, project, queue, ctx, stopping, files, ran, unsaved,
                   cancels, crashes>>

\* Mutant of SaveRunning: a failed save is only logged, as that of an event is.
SaveRunning_Logged(j) ==
    /\ pc[j] = "save"
    /\ Saved(j, clone[j]) \/ NotSaved
    /\ pc' = [pc EXCEPT ![j] = "run"]
    /\ ran' = ran \cup {j}
    /\ UNCHANGED <<up, registered, project, mem, queue, running, ctx, clone, stopping,
                   unsaved, cancels, crashes>>

\* The running job is saved outside the lock; then the runner is called.
SaveRunning(j) ==
    /\ pc[j] = "save"
    /\ \/ /\ Saved(j, clone[j])
          /\ pc' = [pc EXCEPT ![j] = "run"]
          /\ ran' = ran \cup {j}
       \/ /\ NotSaved
          /\ pc' = [pc EXCEPT ![j] = "refused"]
          /\ UNCHANGED ran
    /\ UNCHANGED <<up, registered, project, mem, queue, running, ctx, clone, stopping,
                   unsaved, cancels, crashes>>

\* An event of the agent or the snapshot after the run, recorded under the lock...
RecordEvent(j) ==
    /\ pc[j] = "run"
    /\ clone' = [clone EXCEPT ![j] = mem[j]]
    /\ pc' = [pc EXCEPT ![j] = "event"]
    /\ UNCHANGED <<up, registered, project, mem, queue, running, ctx, stopping, files, ran,
                   unsaved, cancels, crashes>>

\* ... and saved outside it; a failure is only logged.
SaveEvent(j) ==
    /\ pc[j] = "event"
    /\ Saved(j, clone[j]) \/ NotSaved
    /\ pc' = [pc EXCEPT ![j] = "run"]
    /\ UNCHANGED <<up, registered, project, mem, queue, running, ctx, clone, stopping, ran,
                   unsaved, cancels, crashes>>

\* What the closure of runJob makes of the end of the run.
Outcomes(c) ==
    CASE c = "deadline"  -> {"timed_out"}
      [] c = "cancelled" -> {"cancelled"}
      [] OTHER           -> {"completed", "failed"}

\* Mutant of FinishJob: nothing is saved.
FinishJob_Unsaved(j, r) ==
    LET p == project[j]
        free == running[p] = j
        at == [pc EXCEPT ![j] = "idle"]
    IN  /\ mem' = [mem EXCEPT ![j] = r]
        /\ UNCHANGED <<registered, files, unsaved>>
        /\ \/ free /\ DispatchNext(p, None, queue[p], mem', at)
           \/ ~free /\ pc' = at /\ UNCHANGED <<queue, running, ctx>>
        /\ UNCHANGED <<up, project, clone, stopping, ran, cancels, crashes>>

\* finishJob with the record that mutate leaves.
FinishJob(j, r) ==
    LET p == project[j]
        free == running[p] = j
        at == [pc EXCEPT ![j] = "idle"]
    IN  /\ Settle(j, r)
        /\ UNCHANGED registered
        /\ \/ free /\ DispatchNext(p, None, queue[p], mem', at)
           \/ ~free /\ pc' = at /\ UNCHANGED <<queue, running, ctx>>
        /\ UNCHANGED <<up, project, clone, stopping, ran, cancels, crashes>>

Ended(r, s) == [r EXCEPT !.status = s, !.finished = TRUE]

Finish(j) ==
    /\ pc[j] = "run"
    /\ \E s \in Outcomes(ctx[j]) : FinishJob(j, Ended(mem[j], s))

\* The runner was not called because the save failed; FinishedAt is not set.
FinishRefused(j) ==
    /\ pc[j] = "refused"
    /\ FinishJob(j, [mem[j] EXCEPT !.status = "failed"])

-----------------------------------------------------------------------------
\* The process ends, in whatever way: nothing waits for jobs.
Crash ==
    /\ up
    /\ crashes < MaxCrashes
    /\ crashes' = crashes + 1
    /\ up' = FALSE
    /\ registered' = {}
    /\ mem' = [j \in Jobs |-> Absent]
    /\ queue' = [p \in Projects |-> <<>>]
    /\ running' = [p \in Projects |-> None]
    /\ ctx' = [j \in Jobs |-> "none"]
    /\ pc' = [j \in Jobs |-> "idle"]
    /\ clone' = [j \in Jobs |-> Absent]
    /\ stopping' = {}
    /\ unsaved' = {}
    /\ UNCHANGED <<project, files, ran, cancels>>

\* What load makes of a file.
Reloaded(r) ==
    IF r.status \in {"none"} \cup Terminal \/ (r.status = "queued" /\ ~r.started)
    THEN r
    ELSE Ended(r, "orphaned")

\* The sequences that have every element of S exactly once.
Orders(S) ==
    {q \in [1 .. Cardinality(S) -> S] :
        /\ \A j \in S : \E i \in DOMAIN q : q[i] = j
        /\ \A i, k \in DOMAIN q : q[i] = q[k] => i = k}

\* NewJobManager with load.  Files come in the order of their random names.  A load that
\* fails leaves no manager and may have saved some orphans, which are loaded as they are.
Load ==
    /\ ~up
    /\ up' = TRUE
    /\ mem' = [j \in Jobs |-> Reloaded(disk[j])]
    /\ disk' = mem'
    /\ LET Waiting(p) == {j \in Jobs : project[j] = p /\ mem'[j].status = "queued"}
       IN  queue' \in {f \in [Projects -> UNION {Orders(Waiting(p)) : p \in Projects}] :
                        \A p \in Projects : f[p] \in Orders(Waiting(p))}
    /\ UNCHANGED <<registered, project, running, ctx, pc, clone, stopping, ran, unsaved,
                   cancels, crashes, faults>>

RunJob(j) == RunBegin(j) \/ SaveRunning(j) \/ SaveEvent(j) \/ FinishRefused(j)

Next ==
    \/ \E p \in Projects : RegisterProject(p)
    \/ \E p \in Projects, j \in Jobs : Start(p, j)
    \/ \E j \in Jobs : Cancel(j) \/ CancelContext(j) \/ Expire(j)
    \/ \E j \in Jobs : RunJob(j) \/ RecordEvent(j) \/ Finish(j)
    \/ Crash
    \/ Load

Spec == Init /\ [][Next]_vars

\* Started goroutines run, a process that starts registers its projects, and a
\* run ends however many events it reports.
FairSpec ==
    /\ Spec
    /\ \A j \in Jobs : WF_vars(RunJob(j)) /\ WF_vars(CancelContext(j)) /\ SF_vars(Finish(j))
    /\ \A p \in Projects : WF_vars(p \notin registered /\ RegisterProject(p))
-----------------------------------------------------------------------------
Contexts == {"none", "live", "cancelled", "deadline"}
Labels == {"idle", "spawned", "save", "refused", "run", "event"}

\* Every variable has its type, and every job that the manager or a file knows has a
\* project (Start sets Job.Project before it saves).
TypeOK ==
    /\ up \in BOOLEAN
    /\ registered \in SUBSET Projects
    /\ project \in [Jobs -> Projects \cup {None}]
    /\ mem \in [Jobs -> Records]
    /\ queue \in [Projects -> Seq(Jobs)]
    /\ running \in [Projects -> Jobs \cup {None}]
    /\ ctx \in [Jobs -> Contexts]
    /\ pc \in [Jobs -> Labels]
    /\ clone \in [Jobs -> Records]
    /\ stopping \in SUBSET Jobs
    /\ disk \in [Jobs -> Records]
    /\ ran \in SUBSET Jobs
    /\ unsaved \in SUBSET Jobs
    /\ cancels \in 0 .. MaxCancels /\ crashes \in 0 .. MaxCrashes /\ faults \in 0 .. MaxFaults
    /\ \A j \in Jobs :
         mem[j].status # "none" \/ disk[j].status # "none" => project[j] \in Projects

\* The slot of a project names the one job of the project that a runJob goroutine works
\* on: prepareNextJobLocked, runJob and finishJob, which fill and clear it in different
\* critical sections, neither leak it nor give it away while the job is at work.
SlotExact ==
    \A p \in Projects, j \in Jobs :
        running[p] = j <=> project[j] = p /\ pc[j] # "idle"

\* Each queued job that no goroutine has is in the queue of its project, once, and nothing
\* else is: Cancel and load keep jm.queues and the statuses of jm.jobs together.
QueueExact ==
    \A p \in Projects :
        /\ \A j \in Jobs :
             (\E i \in DOMAIN queue[p] : queue[p][i] = j)
                 <=> project[j] = p /\ mem[j].status = "queued" /\ pc[j] = "idle"
        /\ \A i, k \in DOMAIN queue[p] : queue[p][i] = queue[p][k] => i = k

\* A project with a runner, with jobs that wait and with none at work.
Stalled(p) == p \in registered /\ running[p] = None /\ queue[p] # <<>>

\* Jobs wait for an idle project only where runJob found its job cancelled between its
\* dispatch and its start, and returned without dispatching the next one.
StallOnlyByEarlyCancel ==
    \A p \in Projects :
        Stalled(p) => \E j \in Jobs : /\ project[j] = p
                                      /\ ctx[j] # "none"
                                      /\ mem[j].finished /\ ~mem[j].started

\* "Persist the terminal state before unlocking" (finishJob): a job with FinishedAt has
\* the same state in its file, unless the manager saw that save fail; no late save of
\* runJob or recordJobEvent undoes it.
FinalIsDurable ==
    \A j \in Jobs : mem[j].finished /\ j \notin unsaved => disk[j] = mem[j]

\* A file that says how its job finished is never changed again, in this process or
\* after a restart.
FinalRecordStays ==
    [][\A j \in Jobs : disk[j].finished => disk'[j] = disk[j]]_vars

\* No runner is called twice for one job, restarts included, and none for a job whose
\* file says that it was cancelled in the queue: runJob saves the running job first.
RunsOnce ==
    [][\A j \in Jobs : pc[j] = "save" /\ pc'[j] = "run"
                           => j \notin ran /\ ~disk[j].finished]_vars

\* A queued job gets its turn and reaches a terminal state, unless the process ends or
\* the queue of its project stalls.
JobsSettle ==
    \A j \in Jobs :
        mem[j].status = "queued" ~>
            \/ ~up \/ (project[j] \in Projects /\ Stalled(project[j]))
            \/ mem[j].status \in Terminal /\ pc[j] = "idle"

\* The life of a job as its file and its goroutine show it: a goroutine that has taken a
\* job and not yet saved it as running has not begun to work.
Working(j) == pc[j] \in {"run", "event"}
Waits(j) == pc[j] = "save" \/ ~(disk[j].started \/ disk[j].finished)

Life(j) ==
    IF disk[j] = Absent THEN "new"
    ELSE IF Working(j) THEN "working"
    ELSE IF Waits(j) THEN "accepted"
    ELSE "ended"

Server == INSTANCE JobServer WITH life <- [j \in Jobs |-> Life(j)], owner <- project

\* The manager, with its queues, slots, late saves, failed saves, cancels and restarts, is
\* a serial server per project that accepts each job once and works on it at most once.
ImplementsServer == Server!ServerSpec
=============================================================================
