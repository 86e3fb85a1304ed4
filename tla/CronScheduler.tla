---------------------------- MODULE CronScheduler ----------------------------
(* The cron store and the scheduler.  The store (jobs and their file) has one *)
(* mutex, the scheduler (cs.entries and the entries of the cron library) has  *)
(* another, and every operation takes the two in turn: what a caller does is  *)
(* a short program, and each action below is one critical section of it.     *)
(*                                                                            *)
(* The store hands out pointers to its jobs: a caller that looked a job up    *)
(* before it was removed still reads the fields it had.                      *)
EXTENDS Integers

CONSTANTS
    CronIds,       \* the job ids; they are random and not drawn twice
    CronCallers,   \* goroutines that serve commands, card buttons and API calls
    CronSpecs,     \* cron expressions and loop intervals that parse
    CronNos,       \* numbers of library entries
    MaxCronCalls,  \* bound: operations asked for
    MaxCronFaults, \* bound: saves of the store that fail
    MaxCronCrashes \* bound: ends of the process

ASSUME CronAssumption ==
    /\ 0 \notin CronIds /\ 0 \notin CronNos
    /\ {MaxCronCalls, MaxCronFaults, MaxCronCrashes} \subseteq Nat

VARIABLES
    cronStore,     \* CronStore.jobs: a record per id, new, kept or gone
    cronFile,      \* what jobs.json holds
    cronEntries,   \* cs.entries: the library entry of a job, 0 for none
    cronLib,       \* the entries of the cron library
    cronAt,        \* what each caller is doing: operation, job and next step
    cronStart,     \* jobs that Start has listed and not yet looked at
    cronRun,       \* per job: its firing (one at a time here; see the README)
    cronUp,        \* the process runs
    cronDirty,     \* history: the last save failed
    cronSkewed,    \* history: jobs with an enabling and a disabling operation at once
    cronCalls, cronFaults, cronCrashes

cronShelf == <<cronStore, cronFile, cronDirty, cronFaults>>
cronTimer == <<cronEntries, cronLib>>
cronBounds == <<cronUp, cronCalls, cronCrashes>>
cronVars == <<cronStore, cronFile, cronEntries, cronLib, cronAt, cronStart, cronRun, cronUp,
              cronDirty, cronSkewed, cronCalls, cronFaults, cronCrashes>>

CronIdle == [op |-> "none", id |-> 0, at |-> "idle", spec |-> 0]
CronUnborn == [state |-> "new", enabled |-> FALSE, spec |-> 0]

\* The process is about to start, with whatever jobs an earlier one left in the file.
CronInit ==
    /\ cronStore \in [CronIds -> {CronUnborn} \cup [state : {"kept"}, enabled : BOOLEAN, spec : CronSpecs]]
    /\ cronFile = cronStore
    /\ cronEntries = [id \in CronIds |-> 0]
    /\ cronLib = {}
    /\ cronAt = [c \in CronCallers |-> CronIdle]
    /\ cronStart = {}
    /\ cronRun = [id \in CronIds |-> "none"]
    /\ cronUp = FALSE
    /\ cronDirty = FALSE
    /\ cronSkewed = {}
    /\ cronCalls = 0 /\ cronFaults = 0 /\ cronCrashes = 0

-----------------------------------------------------------------------------
Kept(id) == cronStore[id].state = "kept"

\* The store with job id turned into r, under s.mu, and the save of the whole list; a
\* failed save is logged and the list in memory stays as it is.
CronSave(id, r) ==
    /\ cronStore' = [cronStore EXCEPT ![id] = r]
    /\ \/ cronFile' = cronStore' /\ cronDirty' = FALSE /\ UNCHANGED cronFaults
       \/ /\ cronFaults < MaxCronFaults
          /\ cronFaults' = cronFaults + 1
          /\ cronDirty' = TRUE
          /\ UNCHANGED cronFile

CronGoes(c, label) == cronAt' = [cronAt EXCEPT ![c].at = label]
Returns(c) == cronAt' = [cronAt EXCEPT ![c] = CronIdle]

\* cs.cron.Remove and delete(cs.entries, id), if there is an entry.
Unschedule(id) ==
    /\ cronLib' = {e \in cronLib : e.no # cronEntries[id]}
    /\ cronEntries' = [cronEntries EXCEPT ![id] = 0]

\* A fresh entry for job id, beside the entries in rest.
NewEntry(id, rest) ==
    \E no \in CronNos :
        /\ \A e \in rest : e.no # no
        /\ cronLib' = rest \cup {[no |-> no, job |-> id, spec |-> cronStore[id].spec]}
        /\ cronEntries' = [cronEntries EXCEPT ![id] = no]

\* Mutant of Reschedule: the old entry is not removed from the library.
Reschedule_Adds(id) == NewEntry(id, cronLib)

\* scheduleJob: the entry is made with the schedule that the job has at this moment.
\* The library counts its entries up; here a number is free again once its entry is gone.
Reschedule(id) == NewEntry(id, {e \in cronLib : e.no # cronEntries[id]})

-----------------------------------------------------------------------------
Enabling == {"add", "enable", "turnon", "edit"}
Disabling == {"disable", "turnoff", "remove"}

\* The jobs with an enabling and a disabling operation under way, Start and the pause
\* of a loop by its own run included.
Clashing ==
    {id \in CronIds :
        /\ id \in cronStart' \/ \E c \in CronCallers : cronAt'[c].id = id /\ cronAt'[c].op \in Enabling
        /\ cronRun'[id] = "pause" \/ \E c \in CronCallers : cronAt'[c].id = id /\ cronAt'[c].op \in Disabling}

\* The jobs that AddJob keeps in memory but cannot save.
AddUnsaved ==
    {id \in CronIds : cronStore[id].state = "new" /\ cronStore'[id].state = "kept" /\ cronDirty'}

\* A caller begins operation op on job id.
CronBeginOp(c, op, id, label, spec) ==
    /\ cronUp
    /\ cronAt[c] = CronIdle
    /\ cronCalls < MaxCronCalls
    /\ cronCalls' = cronCalls + 1
    /\ cronAt' = [cronAt EXCEPT ![c] = [op |-> op, id |-> id, at |-> label, spec |-> spec]]
    /\ UNCHANGED <<cronShelf, cronTimer, cronStart, cronRun, cronUp, cronCrashes>>

CronFirstStep(op) ==
    CASE op \in {"enable", "disable"} -> "toggle"
      [] OTHER                        -> "clear"

\* /cron add, /loop <interval>, a pending loop or the API, once validateCronJob and the
\* parser have accepted the job.
CronAskAdd(c, id, spec) ==
    /\ cronStore[id].state = "new"
    /\ \A d \in CronCallers : cronAt[d].id # id
    /\ CronBeginOp(c, "add", id, "add", spec)

\* A card button: the job is looked up, then the operation of the scheduler is called.
CronAskButton(c, op, id) ==
    /\ Kept(id)
    /\ op \in {"enable", "disable", "remove"}
    /\ CronBeginOp(c, op, id, CronFirstStep(op), 0)

\* The API calls RemoveJob with whatever id it is given.
CronAskDelete(c, id) == CronBeginOp(c, "remove", id, "clear", 0)

\* UpdateJob looks the job up and validates a changed copy of it.
CronAskEdit(c, op, id, spec) ==
    /\ op \in {"edit", "turnon", "turnoff"}
    /\ Kept(id)
    /\ op = "edit" \/ spec = cronStore[id].spec
    /\ CronBeginOp(c, op, id, "clear", spec)

-----------------------------------------------------------------------------
\* CronStore.Add; if its save fails AddJob returns the error and does not schedule.
CronAdd(c) ==
    /\ cronAt[c].at = "add"
    /\ CronSave(cronAt[c].id, [state |-> "kept", enabled |-> TRUE, spec |-> cronAt[c].spec])
    /\ \/ ~cronDirty' /\ CronGoes(c, "schedule")
       \/ cronDirty' /\ Returns(c)
    /\ UNCHANGED <<cronTimer, cronStart, cronRun, cronBounds>>

\* EnableJob and DisableJob begin with SetEnabled, which fails if the job is gone.
CronToggle(c) ==
    LET id == cronAt[c].id
        on == cronAt[c].op = "enable"
    IN  /\ cronAt[c].at = "toggle"
        /\ \/ /\ Kept(id)
              /\ CronSave(id, [cronStore[id] EXCEPT !.enabled = on])
              /\ CronGoes(c, IF on THEN "get" ELSE "clear")
           \/ ~Kept(id) /\ Returns(c) /\ UNCHANGED cronShelf
        /\ UNCHANGED <<cronTimer, cronStart, cronRun, cronBounds>>

\* The critical section of DisableJob, RemoveJob and UpdateJob that drops the entry.
CronClear(c) ==
    /\ cronAt[c].at = "clear"
    /\ Unschedule(cronAt[c].id)
    /\ CASE cronAt[c].op = "disable" -> Returns(c)
         [] cronAt[c].op = "remove"  -> CronGoes(c, "drop")
         [] OTHER                    -> CronGoes(c, "update")
    /\ UNCHANGED <<cronShelf, cronStart, cronRun, cronBounds>>

\* CronStore.Remove.
CronDrop(c) ==
    LET id == cronAt[c].id
    IN  /\ cronAt[c].at = "drop"
        /\ \/ Kept(id) /\ CronSave(id, [cronStore[id] EXCEPT !.state = "gone"])
           \/ ~Kept(id) /\ UNCHANGED cronShelf
        /\ Returns(c)
        /\ UNCHANGED <<cronTimer, cronStart, cronRun, cronBounds>>

CronUpdated(r, op, spec) ==
    CASE op = "edit"   -> [r EXCEPT !.spec = spec]
      [] op = "turnon" -> [r EXCEPT !.enabled = TRUE]
      [] OTHER         -> [r EXCEPT !.enabled = FALSE]

\* CronStore.Update.
CronUpdate(c) ==
    LET id == cronAt[c].id
    IN  /\ cronAt[c].at = "update"
        /\ \/ /\ Kept(id)
              /\ CronSave(id, CronUpdated(cronStore[id], cronAt[c].op, cronAt[c].spec))
              /\ CronGoes(c, "get")
           \/ ~Kept(id) /\ Returns(c) /\ UNCHANGED cronShelf
        /\ UNCHANGED <<cronTimer, cronStart, cronRun, cronBounds>>

\* Mutant of CronGet: an edited job is scheduled whether it is enabled or not.
CronGet_Unasked(c) ==
    LET id == cronAt[c].id
    IN  /\ cronAt[c].at = "get"
        /\ IF Kept(id) THEN CronGoes(c, "schedule") ELSE Returns(c)
        /\ UNCHANGED <<cronShelf, cronTimer, cronStart, cronRun, cronBounds>>

\* EnableJob and UpdateJob read the job again; UpdateJob also asks whether it is enabled.
CronGet(c) ==
    LET id == cronAt[c].id
    IN  /\ cronAt[c].at = "get"
        /\ IF Kept(id) /\ (cronAt[c].op = "enable" \/ cronStore[id].enabled)
           THEN CronGoes(c, "schedule")
           ELSE Returns(c)
        /\ UNCHANGED <<cronShelf, cronTimer, cronStart, cronRun, cronBounds>>

CronSchedule(c) ==
    /\ cronAt[c].at = "schedule"
    /\ Reschedule(cronAt[c].id)
    /\ Returns(c)
    /\ UNCHANGED <<cronShelf, cronStart, cronRun, cronBounds>>

-----------------------------------------------------------------------------
\* An entry fires: executeJob looks the job up, and runs it if it is enabled, or leaves
\* it to the prompt queue of its chat when that is busy.
CronFire(id) ==
    /\ cronUp
    /\ \E e \in cronLib : e.job = id
    /\ cronRun[id] = "none"
    /\ Kept(id) /\ cronStore[id].enabled
    /\ \E at \in {"run", "queued"} : cronRun' = [cronRun EXCEPT ![id] = at]
    /\ UNCHANGED <<cronShelf, cronTimer, cronAt, cronStart, cronBounds>>

\* startQueuedCronRun looks the job up once more and drops the item if it is not enabled.
CronDequeue(id) ==
    /\ cronRun[id] = "queued"
    /\ cronRun' = [cronRun EXCEPT ![id] = IF Kept(id) /\ cronStore[id].enabled THEN "run" ELSE "none"]
    /\ UNCHANGED <<cronShelf, cronTimer, cronAt, cronStart, cronBounds>>

\* The run ends.  The agent of a loop may have asked for a pause: DisableJob, called
\* by the run, and only then MarkRun.
CronRunEnds(id) ==
    /\ cronRun[id] = "run"
    /\ \/ /\ Kept(id)
          /\ CronSave(id, [cronStore[id] EXCEPT !.enabled = FALSE])
          /\ cronRun' = [cronRun EXCEPT ![id] = "pause"]
       \/ /\ cronRun' = [cronRun EXCEPT ![id] = "mark"]
          /\ UNCHANGED cronShelf
    /\ UNCHANGED <<cronTimer, cronAt, cronStart, cronBounds>>

CronPause(id) ==
    /\ cronRun[id] = "pause"
    /\ Unschedule(id)
    /\ cronRun' = [cronRun EXCEPT ![id] = "mark"]
    /\ UNCHANGED <<cronShelf, cronAt, cronStart, cronBounds>>

\* MarkRun: nothing that is modelled of the job changes, but the list is saved.
CronMarkRun(id) ==
    /\ cronRun[id] = "mark"
    /\ \/ Kept(id) /\ CronSave(id, cronStore[id])
       \/ ~Kept(id) /\ UNCHANGED cronShelf
    /\ cronRun' = [cronRun EXCEPT ![id] = "none"]
    /\ UNCHANGED <<cronTimer, cronAt, cronStart, cronBounds>>

-----------------------------------------------------------------------------
CronCrash ==
    /\ cronUp
    /\ cronCrashes < MaxCronCrashes
    /\ cronCrashes' = cronCrashes + 1
    /\ cronUp' = FALSE
    /\ cronEntries' = [id \in CronIds |-> 0]
    /\ cronLib' = {}
    /\ cronAt' = [c \in CronCallers |-> CronIdle]
    /\ cronStart' = {}
    /\ cronRun' = [id \in CronIds |-> "none"]
    /\ cronDirty' = FALSE
    /\ cronStore' = cronFile
    /\ UNCHANGED <<cronFile, cronFaults, cronCalls>>

\* NewCronStore has loaded the file; the platforms are up and take commands when Start
\* lists the jobs.
CronRestart ==
    /\ ~cronUp
    /\ cronUp' = TRUE
    /\ cronStart' = {id \in CronIds : Kept(id)}
    /\ UNCHANGED <<cronShelf, cronTimer, cronAt, cronRun, cronCalls, cronCrashes>>

\* Start looks at the next of the jobs it listed, which may be gone by now.
CronStartOne(id) ==
    /\ id \in cronStart
    /\ cronStart' = cronStart \ {id}
    /\ \/ cronStore[id].enabled /\ Reschedule(id)
       \/ ~cronStore[id].enabled /\ UNCHANGED cronTimer
    /\ UNCHANGED <<cronShelf, cronAt, cronRun, cronBounds>>

CronCaller(c) ==
    \/ CronAdd(c) \/ CronToggle(c) \/ CronClear(c) \/ CronDrop(c)
    \/ CronUpdate(c) \/ CronGet(c) \/ CronSchedule(c)

CronNext ==
    /\ \/ \E c \in CronCallers, id \in CronIds, spec \in CronSpecs : CronAskAdd(c, id, spec)
       \/ \E c \in CronCallers, id \in CronIds, op \in Enabling \cup Disabling :
            \/ CronAskButton(c, op, id)
            \/ \E spec \in CronSpecs : CronAskEdit(c, op, id, spec)
       \/ \E c \in CronCallers, id \in CronIds : CronAskDelete(c, id)
       \/ \E c \in CronCallers : CronCaller(c)
       \/ \E id \in CronIds :
            \/ CronFire(id) \/ CronDequeue(id) \/ CronRunEnds(id) \/ CronPause(id)
            \/ CronMarkRun(id) \/ CronStartOne(id)
       \/ CronCrash
       \/ CronRestart
    /\ cronSkewed' = IF cronUp' THEN cronSkewed \cup Clashing \cup AddUnsaved ELSE {}

CronSpec == CronInit /\ [][CronNext]_cronVars

-----------------------------------------------------------------------------
\* Nobody works on the entry of this job.
CronAtRest(id) ==
    /\ cronUp
    /\ id \notin cronStart
    /\ cronRun[id] # "pause"
    /\ \A c \in CronCallers : cronAt[c].id # id

\* The entries of the cron library are those that cs.entries names, and each fires its
\* own job: no entry leaks, which nothing could remove and which would fire its job a
\* second time, whatever operations overlap (scheduleJob, DisableJob, RemoveJob, UpdateJob).
CronOneEntry ==
    /\ \A e \in cronLib : cronEntries[e.job] = e.no
    /\ \A id \in CronIds :
         cronEntries[id] # 0 => \E e \in cronLib : e.no = cronEntries[id] /\ e.job = id

\* An enabled job has an entry with its present schedule, and no other job has one: over
\* edits that overlap, failed saves, firings that pause their loop, and restarts.  The two
\* exceptions are those of the code: an enabling and a disabling operation on one
\* job that overlapped, and a job whose Add could not be saved.
CronScheduleExact ==
    \A id \in CronIds :
        CronAtRest(id) /\ id \notin cronSkewed =>
            IF Kept(id) /\ cronStore[id].enabled
            THEN \E e \in cronLib : e.job = id /\ e.spec = cronStore[id].spec
            ELSE cronEntries[id] = 0
=============================================================================
