------------------------ MODULE CronScheduler_proofs ------------------------
(* The entries of the scheduler and of the cron library agree, and they agree *)
(* with the jobs of the store, for any number of jobs, callers and operations. *)
EXTENDS CronScheduler, TLAPS

\* Callers work on jobs, and know one whenever they are not idle.
Ops == {"none", "add", "enable", "turnon", "edit", "disable", "turnoff", "remove"}
Labels == {"idle", "add", "toggle", "clear", "drop", "update", "get", "schedule"}
CallerStates == [op : Ops, id : CronIds \cup {0}, at : Labels, spec : CronSpecs \cup {0}]

CallerTypes ==
    /\ cronAt \in [CronCallers -> CallerStates]
    /\ \A c \in CronCallers : cronAt[c].at # "idle" => cronAt[c].id \in CronIds

\* CronOneEntry with its types, and with numbers that are not given twice: otherwise the
\* removal of one job's entry could take another job's.
EntryInv ==
    /\ cronEntries \in [CronIds -> CronNos \cup {0}]
    /\ \A e \in cronLib : e.no \in CronNos /\ e.job \in CronIds
    /\ \A e, f \in cronLib : e.no = f.no => e = f
    /\ CronOneEntry

CronInv == CallerTypes /\ EntryInv

LEMMA CronInitInv == CronInit => CronInv
<1> SUFFICES ASSUME CronInit PROVE CronInv
  OBVIOUS
<1>1. CallerTypes
  <2>1. CronIdle \in CallerStates /\ CronIdle.at = "idle"
    BY DEF CronIdle, CallerStates, Ops, Labels
  <2>2. cronAt = [c \in CronCallers |-> CronIdle]
    BY DEF CronInit
  <2> QED BY <2>1, <2>2 DEF CallerTypes
<1>2. cronEntries = [id \in CronIds |-> 0] /\ cronLib = {}
  BY DEF CronInit
<1> QED BY <1>1, <1>2 DEF CronInv, EntryInv, CronOneEntry

\* The critical section that drops the entry of a job.
LEMMA UnscheduleKeeps ==
  ASSUME EntryInv, NEW id \in CronIds, Unschedule(id)
  PROVE  EntryInv'
<1>1. cronLib' = {e \in cronLib : e.no # cronEntries[id]}
  BY DEF Unschedule
<1>2. cronEntries' = [cronEntries EXCEPT ![id] = 0]
  BY DEF Unschedule
<1>3. cronEntries' \in [CronIds -> CronNos \cup {0}]
  BY <1>2 DEF EntryInv
<1>4. \A e \in cronLib' : cronEntries'[e.job] = e.no
  BY <1>1, <1>2 DEF EntryInv, CronOneEntry
<1>5. ASSUME NEW k \in CronIds, cronEntries'[k] # 0
      PROVE  \E e \in cronLib' : e.no = cronEntries'[k] /\ e.job = k
  <2>1. k # id /\ cronEntries'[k] = cronEntries[k]
    BY <1>2, <1>5 DEF EntryInv
  <2>2. PICK e \in cronLib : e.no = cronEntries[k] /\ e.job = k
    BY <1>5, <2>1 DEF EntryInv, CronOneEntry
  <2>3. e.no # cronEntries[id]
    <3>1. SUFFICES ASSUME e.no = cronEntries[id] PROVE FALSE
      OBVIOUS
    <3>2. cronEntries[id] # 0
      BY <1>5, <2>1, <2>2, <3>1
    <3>3. PICK f \in cronLib : f.no = cronEntries[id] /\ f.job = id
      BY <3>2 DEF EntryInv, CronOneEntry
    <3> QED BY <2>1, <2>2, <3>1, <3>3 DEF EntryInv
  <2> QED BY <1>1, <2>1, <2>2, <2>3
<1> QED BY <1>1, <1>3, <1>4, <1>5 DEF EntryInv, CronOneEntry

\* scheduleJob.
LEMMA RescheduleKeeps ==
  ASSUME EntryInv, NEW id \in CronIds, Reschedule(id)
  PROVE  EntryInv'
<1> DEFINE rest == {e \in cronLib : e.no # cronEntries[id]}
<1>1. PICK no \in CronNos :
        /\ \A e \in rest : e.no # no
        /\ cronLib' = rest \cup {[no |-> no, job |-> id, spec |-> cronStore[id].spec]}
        /\ cronEntries' = [cronEntries EXCEPT ![id] = no]
  BY DEF Reschedule, NewEntry
<1>2. cronEntries' \in [CronIds -> CronNos \cup {0}]
  BY <1>1 DEF EntryInv
<1>3. \A e \in cronLib' : e.no \in CronNos /\ e.job \in CronIds
  BY <1>1 DEF EntryInv
<1>4. \A e, f \in cronLib' : e.no = f.no => e = f
  BY <1>1 DEF EntryInv
<1>5. \A e \in cronLib' : cronEntries'[e.job] = e.no
  BY <1>1 DEF EntryInv, CronOneEntry
<1>6. ASSUME NEW k \in CronIds, cronEntries'[k] # 0
      PROVE  \E e \in cronLib' : e.no = cronEntries'[k] /\ e.job = k
  <2>1. CASE k = id
    <3>1. cronEntries'[k] = no
      BY <1>1, <2>1 DEF EntryInv
    <3>2. [no |-> no, job |-> id, spec |-> cronStore[id].spec] \in cronLib'
      BY <1>1
    <3> QED BY <2>1, <3>1, <3>2
  <2>2. CASE k # id
    <3>1. cronEntries'[k] = cronEntries[k]
      BY <1>1, <2>2 DEF EntryInv
    <3>2. PICK e \in cronLib : e.no = cronEntries[k] /\ e.job = k
      BY <1>6, <3>1 DEF EntryInv, CronOneEntry
    <3>3. e.no # cronEntries[id]
      <4>1. SUFFICES ASSUME e.no = cronEntries[id] PROVE FALSE
        OBVIOUS
      <4>2. cronEntries[id] # 0
        BY <1>6, <3>1, <3>2, <4>1
      <4>3. PICK f \in cronLib : f.no = cronEntries[id] /\ f.job = id
        BY <4>2 DEF EntryInv, CronOneEntry
      <4> QED BY <2>2, <3>2, <4>1, <4>3 DEF EntryInv
    <3> QED BY <1>1, <3>1, <3>2, <3>3
  <2> QED BY <2>1, <2>2
<1> QED BY <1>2, <1>3, <1>4, <1>5, <1>6 DEF EntryInv, CronOneEntry

LEMMA TimerUntouched ==
  ASSUME EntryInv, UNCHANGED cronTimer
  PROVE  EntryInv'
  BY DEF EntryInv, CronOneEntry, cronTimer

LEMMA CronStep == CronInv /\ [CronNext]_cronVars => CronInv'
<1> SUFFICES ASSUME CronInv, [CronNext]_cronVars PROVE CronInv'
  OBVIOUS
<1> USE DEF CronInv
<1>1. ASSUME NEW c \in CronCallers, NEW id \in CronIds, NEW op \in Ops,
             NEW spec \in CronSpecs \cup {0},
             NEW label \in Labels, CronBeginOp(c, op, id, label, spec)
      PROVE  CronInv'
  <2>1. CallerTypes'
    BY <1>1 DEF CallerTypes, CallerStates, CronBeginOp
  <2> QED BY <1>1, <2>1, TimerUntouched DEF CronBeginOp
<1>2. ASSUME NEW c \in CronCallers, CronCaller(c)
      PROVE  CronInv'
  <2>0. cronAt[c].at # "idle" /\ cronAt[c].id \in CronIds
    BY <1>2 DEF CronCaller, CronAdd, CronToggle, CronClear, CronDrop, CronUpdate, CronGet,
                CronSchedule, CallerTypes
  <2>1. Returns(c) \/ \E label \in {"schedule", "get", "clear", "drop", "update"} : CronGoes(c, label)
    BY <1>2 DEF CronCaller, CronAdd, CronToggle, CronClear, CronDrop, CronUpdate, CronGet, CronSchedule
  <2>2. CallerTypes'
    <3>1. CASE Returns(c)
      <4>1. CronIdle \in CallerStates /\ CronIdle.at = "idle"
        BY DEF CronIdle, CallerStates, Ops, Labels
      <4> QED BY <3>1, <4>1 DEF CallerTypes, Returns
    <3>2. ASSUME NEW label \in Labels, CronGoes(c, label) PROVE CallerTypes'
      BY <2>0, <3>2 DEF CallerTypes, CallerStates, CronGoes
    <3> QED BY <2>1, <3>1, <3>2 DEF Labels
  <2>3. CASE CronClear(c)
    BY <2>0, <2>2, <2>3, UnscheduleKeeps DEF CronClear
  <2>4. CASE CronSchedule(c)
    BY <2>0, <2>2, <2>4, RescheduleKeeps DEF CronSchedule
  <2>5. CASE CronAdd(c) \/ CronToggle(c) \/ CronDrop(c) \/ CronUpdate(c) \/ CronGet(c)
    <3>1. UNCHANGED cronTimer
      BY <2>5 DEF CronAdd, CronToggle, CronDrop, CronUpdate, CronGet
    <3> QED BY <2>2, <3>1, TimerUntouched
  <2> QED BY <1>2, <2>3, <2>4, <2>5 DEF CronCaller
<1>3. ASSUME NEW id \in CronIds,
             CronFire(id) \/ CronDequeue(id) \/ CronRunEnds(id) \/ CronMarkRun(id)
      PROVE  CronInv'
  <2>1. UNCHANGED <<cronTimer, cronAt>>
    BY <1>3 DEF CronFire, CronDequeue, CronRunEnds, CronMarkRun
  <2> QED BY <2>1, TimerUntouched DEF CallerTypes
<1>4. ASSUME NEW id \in CronIds, CronPause(id)
      PROVE  CronInv'
  <2>1. UNCHANGED cronAt
    BY <1>4 DEF CronPause
  <2> QED BY <1>4, <2>1, UnscheduleKeeps DEF CronPause, CallerTypes
<1>5. ASSUME NEW id \in CronIds, CronStartOne(id)
      PROVE  CronInv'
  <2>1. UNCHANGED cronAt
    BY <1>5 DEF CronStartOne
  <2>2. EntryInv'
    BY <1>5, RescheduleKeeps, TimerUntouched DEF CronStartOne
  <2> QED BY <2>1, <2>2 DEF CallerTypes
<1>6. CASE CronCrash
  <2>1. CronIdle \in CallerStates /\ CronIdle.at = "idle"
    BY DEF CronIdle, CallerStates, Ops, Labels
  <2>2. CallerTypes'
    BY <1>6, <2>1 DEF CronCrash, CallerTypes
  <2>3. cronEntries' = [id \in CronIds |-> 0] /\ cronLib' = {}
    BY <1>6 DEF CronCrash
  <2> QED BY <2>2, <2>3 DEF EntryInv, CronOneEntry
<1>7. CASE CronRestart
  BY <1>7, TimerUntouched DEF CronRestart, CallerTypes
<1>8. CASE UNCHANGED cronVars
  BY <1>8, TimerUntouched DEF cronVars, cronTimer, CallerTypes
<1>9. ASSUME NEW c \in CronCallers, NEW id \in CronIds, NEW spec \in CronSpecs,
             CronAskAdd(c, id, spec)
      PROVE  CronInv'
  BY <1>9, <1>1 DEF CronAskAdd, Ops, Labels
<1>10. ASSUME NEW c \in CronCallers, NEW id \in CronIds, CronAskDelete(c, id)
       PROVE  CronInv'
  BY <1>10, <1>1 DEF CronAskDelete, Ops, Labels
<1>11. ASSUME NEW c \in CronCallers, NEW id \in CronIds, NEW op \in Enabling \cup Disabling,
              \/ CronAskButton(c, op, id)
              \/ \E spec \in CronSpecs : CronAskEdit(c, op, id, spec)
       PROVE  CronInv'
  <2>1. op \in Ops
    BY DEF Ops, Enabling, Disabling
  <2>2. CASE CronAskButton(c, op, id)
    BY <2>1, <2>2, <1>1 DEF CronAskButton, CronFirstStep, Ops, Labels
  <2>3. CASE \E spec \in CronSpecs : CronAskEdit(c, op, id, spec)
    BY <2>1, <2>3, <1>1 DEF CronAskEdit, Ops, Labels
  <2> QED BY <1>11, <2>2, <2>3
<1>12. CASE CronNext
  <2>1. \/ \E c \in CronCallers, id \in CronIds, spec \in CronSpecs : CronAskAdd(c, id, spec)
        \/ \E c \in CronCallers, id \in CronIds, op \in Enabling \cup Disabling :
             \/ CronAskButton(c, op, id)
             \/ \E spec \in CronSpecs : CronAskEdit(c, op, id, spec)
        \/ \E c \in CronCallers, id \in CronIds : CronAskDelete(c, id)
        \/ \E c \in CronCallers : CronCaller(c)
        \/ \E id \in CronIds :
             \/ CronFire(id) \/ CronDequeue(id) \/ CronRunEnds(id) \/ CronMarkRun(id)
             \/ CronPause(id)
             \/ CronStartOne(id)
        \/ CronCrash
        \/ CronRestart
    BY <1>12 DEF CronNext
  <2> QED BY <2>1, <1>2, <1>3, <1>4, <1>5, <1>6, <1>7, <1>9, <1>10, <1>11
<1> QED BY <1>8, <1>12

\* No entry of the cron library leaks: every one is the entry that cs.entries names for
\* its job, so each enabled job fires once per tick (scheduleJob, RemoveJob, DisableJob,
\* UpdateJob, Start).
THEOREM OneEntry == CronSpec => []CronOneEntry
<1>1. CronInv => CronOneEntry
  BY DEF CronInv, EntryInv
<1> QED BY CronInitInv, CronStep, <1>1, PTL DEF CronSpec

-----------------------------------------------------------------------------
(* The schedule: an enabled job has an entry with its present schedule.      *)

Jobs == [state : {"new", "kept", "gone"}, enabled : BOOLEAN, spec : CronSpecs \cup {0}]
Runs == {"none", "run", "queued", "pause", "mark"}

\* The steps of each operation.
StepsOf ==
    [op \in Ops |->
        CASE op = "add"     -> {"add", "schedule"}
          [] op = "enable"  -> {"toggle", "get", "schedule"}
          [] op = "disable" -> {"toggle", "clear"}
          [] op = "remove"  -> {"clear", "drop"}
          [] op = "none"    -> {}
          [] OTHER          -> {"clear", "update", "get", "schedule"}]

InStep == \A c \in CronCallers : cronAt[c].at # "idle" => cronAt[c].at \in StepsOf[cronAt[c].op]

Does(c, id, ops, label) == cronAt[c].at = label /\ cronAt[c].id = id /\ cronAt[c].op \in ops
SomeDoes(id, ops, label) == \E c \in CronCallers : Does(c, id, ops, label)

\* A job that is being added is new, and nobody else adds it.
AddsNew ==
    \A c \in CronCallers :
        cronAt[c].at = "add" =>
            /\ cronStore[cronAt[c].id].state = "new"
            /\ \A d \in CronCallers : cronAt[d].at = "add" /\ cronAt[d].id = cronAt[c].id => d = c

\* Nothing is under way while the process is down.
DownIsQuiet ==
    ~cronUp => /\ cronAt = [c \in CronCallers |-> CronIdle]
               /\ cronStart = {} /\ cronSkewed = {}
               /\ \A id \in CronIds : cronRun[id] = "none" /\ cronEntries[id] = 0

Due(id) == Kept(id) /\ cronStore[id].enabled
HasEntry(id) == \E e \in cronLib : e.job = id /\ e.spec = cronStore[id].spec

\* Whoever works on a job that is due and has no entry will schedule it or make it undue.
WillFit(id) ==
    \/ id \in cronStart
    \/ SomeDoes(id, Enabling, "update") \/ SomeDoes(id, Enabling, "get")
    \/ SomeDoes(id, Enabling, "schedule")
    \/ SomeDoes(id, {"turnoff"}, "update") \/ SomeDoes(id, {"remove"}, "drop")

\* Whoever works on a job that is not due and has an entry will drop it.
WillDrop(id) == cronRun[id] = "pause" \/ SomeDoes(id, {"disable"}, "clear")

Enabled(id) == id \in cronStart \/ \E c \in CronCallers : cronAt[c].id = id /\ cronAt[c].op \in Enabling
Disabled(id) == cronRun[id] = "pause" \/ \E c \in CronCallers : cronAt[c].id = id /\ cronAt[c].op \in Disabling

\* What is known of a job on which no enabling and disabling operations overlapped.
JobExact(id) ==
    /\ ~(Enabled(id) /\ Disabled(id))
    /\ Due(id) => HasEntry(id) \/ WillFit(id)
    /\ ~Due(id) => cronEntries[id] = 0 \/ WillDrop(id)
    /\ id \in cronStart => Kept(id)
    /\ SomeDoes(id, Enabling, "schedule") => Due(id)
    /\ SomeDoes(id, {"enable", "turnon"}, "get") => Due(id)
    /\ ~SomeDoes(id, Disabling, "schedule")
    /\ SomeDoes(id, {"turnoff"}, "get") \/ WillDrop(id) => ~Due(id)
    /\ SomeDoes(id, {"turnoff"}, "update") \/ SomeDoes(id, {"remove"}, "drop") => cronEntries[id] = 0

ScheduleInv ==
    /\ CronInv
    /\ cronRun \in [CronIds -> Runs]
    /\ cronStore \in [CronIds -> Jobs] /\ cronFile \in [CronIds -> Jobs]
    /\ InStep /\ AddsNew /\ DownIsQuiet
    /\ cronUp => \A id \in CronIds \ cronSkewed : JobExact(id)

\* A caller that is not yet at a step that counts for job k.
Waits(d, k) ==
    \/ cronAt[d].id # k \/ cronAt[d].at \in {"idle", "add", "toggle"}
    \/ cronAt[d].at = "clear" /\ cronAt[d].op # "disable"

\* A step that leaves the work on job k as it was.
LEMMA SameWork ==
    ASSUME NEW k, NEW ops, NEW label \in {"update", "get", "schedule", "drop"},
           \A d \in CronCallers : cronAt'[d] = cronAt[d] \/ (Waits(d, k) /\ Waits(d, k)')
    PROVE  /\ SomeDoes(k, ops, label)' <=> SomeDoes(k, ops, label)
           /\ SomeDoes(k, {"disable"}, "clear")' <=> SomeDoes(k, {"disable"}, "clear")
<1>1. ASSUME NEW d \in CronCallers
      PROVE  /\ Does(d, k, ops, label)' <=> Does(d, k, ops, label)
             /\ Does(d, k, {"disable"}, "clear")' <=> Does(d, k, {"disable"}, "clear")
  <2>1. CASE cronAt'[d] = cronAt[d]
    BY <2>1 DEF Does
  <2>2. CASE Waits(d, k) /\ Waits(d, k)'
    BY <2>2 DEF Does, Waits
  <2> QED BY <2>1, <2>2
<1> QED BY <1>1 DEF SomeDoes

LEMMA Unaffected ==
    ASSUME NEW k, JobExact(k), ~(Enabled(k) /\ Disabled(k))',
           \A d \in CronCallers : cronAt'[d] = cronAt[d] \/ (Waits(d, k) /\ Waits(d, k)'),
           cronStore'[k] = cronStore[k], HasEntry(k) => HasEntry(k)',
           cronEntries[k] = 0 => cronEntries'[k] = 0,
           k \in cronStart' <=> k \in cronStart,
           cronRun'[k] = "pause" <=> cronRun[k] = "pause"
    PROVE  JobExact(k)'
<1>1. /\ Due(k)' <=> Due(k)
      /\ Kept(k)' <=> Kept(k)
  BY DEF Due, Kept
<1>2. WillFit(k)' <=> WillFit(k)
  BY SameWork DEF WillFit
<1>3. WillDrop(k)' <=> WillDrop(k)
  BY SameWork DEF WillDrop
<1>4. /\ SomeDoes(k, Enabling, "schedule")' <=> SomeDoes(k, Enabling, "schedule")
      /\ SomeDoes(k, {"enable", "turnon"}, "get")' <=> SomeDoes(k, {"enable", "turnon"}, "get")
      /\ SomeDoes(k, Disabling, "schedule")' <=> SomeDoes(k, Disabling, "schedule")
      /\ SomeDoes(k, {"turnoff"}, "get")' <=> SomeDoes(k, {"turnoff"}, "get")
      /\ SomeDoes(k, {"turnoff"}, "update")' <=> SomeDoes(k, {"turnoff"}, "update")
      /\ SomeDoes(k, {"remove"}, "drop")' <=> SomeDoes(k, {"remove"}, "drop")
  BY SameWork
<1> QED BY <1>1, <1>2, <1>3, <1>4 DEF JobExact

\* The entry of one job may go, and a new one come, without a change for the others.
LEMMA OtherEntries ==
    ASSUME EntryInv, NEW id \in CronIds, NEW k \in CronIds \ {id},
           Unschedule(id) \/ Reschedule(id) \/ UNCHANGED cronTimer,
           cronStore'[k] = cronStore[k]
    PROVE  (HasEntry(k) => HasEntry(k)') /\ cronEntries'[k] = cronEntries[k]
<1>1. cronEntries'[k] = cronEntries[k]
  BY DEF EntryInv, Unschedule, Reschedule, NewEntry, cronTimer
<1>2. ASSUME NEW e \in cronLib, e.job = k PROVE e \in cronLib'
  <2>1. e.no # cronEntries[id]
    <3>1. SUFFICES ASSUME e.no = cronEntries[id] PROVE FALSE
      OBVIOUS
    <3>2. cronEntries[id] # 0
      BY <3>1, CronAssumption DEF EntryInv
    <3>3. PICK f \in cronLib : f.no = cronEntries[id] /\ f.job = id
      BY <3>2 DEF EntryInv, CronOneEntry
    <3> QED BY <1>2, <3>1, <3>3 DEF EntryInv
  <2> QED BY <2>1 DEF Unschedule, Reschedule, NewEntry, cronTimer
<1> QED BY <1>1, <1>2 DEF HasEntry

\* The new entry has the present schedule of its job.
LEMMA EntryFits ==
    ASSUME NEW id, Reschedule(id), cronStore'[id] = cronStore[id]
    PROVE  HasEntry(id)'
<1>1. PICK no \in CronNos :
        cronLib' = {e \in cronLib : e.no # cronEntries[id]}
                     \cup {[no |-> no, job |-> id, spec |-> cronStore[id].spec]}
  BY DEF Reschedule, NewEntry
<1> DEFINE e == [no |-> no, job |-> id, spec |-> cronStore[id].spec]
<1>2. e \in cronLib' /\ e.job = id /\ e.spec = cronStore'[id].spec
  BY <1>1
<1> QED BY <1>2 DEF HasEntry

\* The work of one caller on its job.
WorkOn(c, k) ==
    /\ cronAt[c].id = k
    /\ \A d \in CronCallers \ {c} : cronAt'[d] = cronAt[d]

LEMMA OthersDo ==
    ASSUME NEW c \in CronCallers, NEW k, WorkOn(c, k), NEW ops, NEW label
    PROVE  /\ SomeDoes(k, ops, label)' <=>
                Does(c, k, ops, label)' \/ \E d \in CronCallers \ {c} : Does(d, k, ops, label)
           /\ SomeDoes(k, ops, label) <=>
                Does(c, k, ops, label) \/ \E d \in CronCallers \ {c} : Does(d, k, ops, label)
<1>1. \A d \in CronCallers \ {c} : Does(d, k, ops, label)' <=> Does(d, k, ops, label)
  BY DEF WorkOn, Does
<1> QED BY <1>1 DEF SomeDoes

\* A step of caller c on its own job, from its step to another or to its end.
LEMMA OwnStep ==
    ASSUME ScheduleInv, NEW c \in CronCallers, CronCaller(c)
    PROVE  /\ cronAt[c].id \in CronIds /\ cronAt[c].op \in Ops \ {"none"}
           /\ cronAt[c].at \in StepsOf[cronAt[c].op]
           /\ WorkOn(c, cronAt[c].id)
           /\ UNCHANGED <<cronStart, cronRun, cronUp>>
           /\ \A label : CronGoes(c, label) =>
                cronAt'[c].id = cronAt[c].id /\ cronAt'[c].op = cronAt[c].op /\ cronAt'[c].at = label
           /\ Returns(c) => cronAt'[c].at = "idle"
<1>1. cronAt[c].at # "idle"
  BY DEF CronCaller, CronAdd, CronToggle, CronClear, CronDrop, CronUpdate, CronGet, CronSchedule
<1>2. cronAt[c].id \in CronIds /\ cronAt[c].at \in StepsOf[cronAt[c].op] /\ cronAt[c].op \in Ops
  BY <1>1 DEF ScheduleInv, CronInv, CallerTypes, CallerStates, InStep
<1>3. cronAt[c].op # "none"
  BY <1>2 DEF StepsOf, Ops
<1>4. Returns(c) \/ \E label : CronGoes(c, label)
  BY DEF CronCaller, CronAdd, CronToggle, CronClear, CronDrop, CronUpdate, CronGet, CronSchedule
<1>5. cronAt \in [CronCallers -> CallerStates]
  BY DEF ScheduleInv, CronInv, CallerTypes
<1>6. \A d \in CronCallers \ {c} : cronAt'[d] = cronAt[d]
  BY <1>4, <1>5 DEF Returns, CronGoes
<1>7. \A label : CronGoes(c, label) =>
        cronAt'[c].id = cronAt[c].id /\ cronAt'[c].op = cronAt[c].op /\ cronAt'[c].at = label
  BY <1>5 DEF CronGoes, CallerStates
<1>8. Returns(c) => cronAt'[c].at = "idle"
  BY <1>5 DEF Returns, CronIdle
<1>9. UNCHANGED <<cronStart, cronRun, cronUp>>
  BY DEF CronCaller, CronAdd, CronToggle, CronClear, CronDrop, CronUpdate, CronGet, CronSchedule,
         cronBounds
<1> QED BY <1>2, <1>3, <1>6, <1>7, <1>8, <1>9 DEF WorkOn

\* What each label says of the operation.
LEMMA StepFacts ==
    ASSUME NEW op \in Ops, NEW label \in StepsOf[op]
    PROVE  /\ label = "add" => op = "add"
           /\ label = "toggle" => op \in {"enable", "disable"}
           /\ label = "clear" => op \in {"disable", "remove", "turnon", "turnoff", "edit"}
           /\ label = "drop" => op = "remove"
           /\ label = "update" => op \in {"turnon", "turnoff", "edit"}
           /\ label = "get" => op \in {"enable", "turnon", "turnoff", "edit"}
           /\ label = "schedule" => op \in {"add", "enable", "turnon", "turnoff", "edit"}
  BY DEF StepsOf, Ops

\* What a step of a caller takes away from the work on its job and what it adds.
LEMMA WorkMoves ==
    ASSUME NEW c \in CronCallers, NEW k, WorkOn(c, k),
           cronAt'[c].at = "idle" \/ (cronAt'[c].id = k /\ cronAt'[c].op = cronAt[c].op),
           NEW ops, NEW label \in Labels \ {"idle"}
    PROVE  /\ SomeDoes(k, ops, label)' =>
                SomeDoes(k, ops, label) \/ (cronAt'[c].at = label /\ cronAt[c].op \in ops)
           /\ SomeDoes(k, ops, label) =>
                SomeDoes(k, ops, label)' \/ (cronAt[c].at = label /\ cronAt[c].op \in ops)
           /\ cronAt'[c].at = label /\ cronAt[c].op \in ops => SomeDoes(k, ops, label)'
           /\ cronAt[c].at = label /\ cronAt[c].op \in ops => SomeDoes(k, ops, label)
<1>1. /\ cronAt'[c].at = label /\ cronAt[c].op \in ops => Does(c, k, ops, label)'
      /\ Does(c, k, ops, label)' => cronAt'[c].at = label /\ cronAt[c].op \in ops
  BY DEF Does, Labels
<1>2. Does(c, k, ops, label) <=> cronAt[c].at = label /\ cronAt[c].op \in ops
  BY DEF Does, WorkOn
<1> QED BY <1>1, <1>2, OthersDo DEF SomeDoes

\* CronClear on its own job.
LEMMA ClearExact ==
    ASSUME ScheduleInv, NEW c \in CronCallers, NEW k \in CronIds, JobExact(k), CronClear(c),
           cronAt[c].id = k, ~(Enabled(k) /\ Disabled(k))'
    PROVE  JobExact(k)'
<1> DEFINE op == cronAt[c].op
<1>1. /\ op \in {"disable", "remove", "turnon", "turnoff", "edit"}
      /\ WorkOn(c, k) /\ UNCHANGED <<cronStart, cronRun, cronUp, cronStore>>
      /\ cronAt'[c].at = "idle" \/ (cronAt'[c].id = k /\ cronAt'[c].op = op)
      /\ cronAt[c].at = "clear"
      /\ op = "disable" => cronAt'[c].at = "idle"
      /\ op = "remove" => cronAt'[c].at = "drop"
      /\ op \in {"turnon", "turnoff", "edit"} => cronAt'[c].at = "update"
  BY OwnStep, StepFacts DEF CronCaller, CronClear, cronShelf
<1>2. cronEntries'[k] = 0
  BY DEF CronClear, Unschedule, ScheduleInv, CronInv, EntryInv
<1>3. /\ Due(k)' <=> Due(k)
      /\ Kept(k)' <=> Kept(k)
      /\ k \in cronStart' <=> k \in cronStart
  BY <1>1 DEF Due, Kept
<1> HIDE DEF op
<1>4. ASSUME Due(k) PROVE WillFit(k)'
  <2>1. op # "disable"
    BY <1>1, <1>4, WorkMoves DEF op, JobExact, WillDrop, Labels
  <2> QED BY <1>1, <2>1, WorkMoves DEF op, WillFit, Labels, Enabling
<1>5. /\ SomeDoes(k, Enabling, "schedule")' => SomeDoes(k, Enabling, "schedule")
      /\ SomeDoes(k, {"enable", "turnon"}, "get")' => SomeDoes(k, {"enable", "turnon"}, "get")
      /\ SomeDoes(k, Disabling, "schedule")' => SomeDoes(k, Disabling, "schedule")
      /\ SomeDoes(k, {"turnoff"}, "get")' => SomeDoes(k, {"turnoff"}, "get")
      /\ SomeDoes(k, {"disable"}, "clear")' => SomeDoes(k, {"disable"}, "clear")
  BY <1>1, WorkMoves DEF op, Labels
<1>6. WillDrop(k)' => WillDrop(k)
  BY <1>1, <1>5 DEF WillDrop
<1> QED BY <1>2, <1>3, <1>4, <1>5, <1>6 DEF JobExact

LEMMA SaveFacts ==
    ASSUME cronStore \in [CronIds -> Jobs], NEW k \in CronIds, NEW r \in Jobs, CronSave(k, r)
    PROVE  /\ cronStore' \in [CronIds -> Jobs] /\ cronStore'[k] = r
           /\ \A i \in CronIds \ {k} : cronStore'[i] = cronStore[i]
           /\ cronFile' \in {cronFile, cronStore'}
           /\ cronDirty' = FALSE \/ cronDirty' = TRUE
  BY DEF CronSave

\* Only enabling operations are under way on the job of an enabling caller, and only
\* disabling ones on that of a disabling caller.
NoDisabling(k) ==
    /\ ~WillDrop(k) /\ ~SomeDoes(k, {"turnoff"}, "update") /\ ~SomeDoes(k, {"remove"}, "drop")
    /\ ~SomeDoes(k, {"turnoff"}, "get") /\ ~SomeDoes(k, Disabling, "schedule")
NoEnabling(k) ==
    /\ k \notin cronStart /\ ~SomeDoes(k, Enabling, "schedule")
    /\ ~SomeDoes(k, {"enable", "turnon"}, "get") /\ ~SomeDoes(k, Enabling, "get")
    /\ ~SomeDoes(k, Enabling, "update")

LEMMA EnablingAlone ==
    ASSUME NEW k
    PROVE  (~Disabled(k) => NoDisabling(k)) /\ (~Disabled(k) => NoDisabling(k))'
  BY DEF Disabled, NoDisabling, WillDrop, SomeDoes, Does, Disabling

LEMMA DisablingAlone ==
    ASSUME NEW k
    PROVE  (~Enabled(k) => NoEnabling(k)) /\ (~Enabled(k) => NoEnabling(k))'
  BY DEF Enabled, NoEnabling, SomeDoes, Does, Enabling

LEMMA JobFields ==
    ASSUME NEW j \in Jobs, NEW b \in BOOLEAN, NEW s \in CronSpecs \cup {0}
    PROVE  /\ [j EXCEPT !.enabled = b] \in Jobs /\ [j EXCEPT !.enabled = b].state = j.state
           /\ [j EXCEPT !.enabled = b].enabled = b
           /\ [j EXCEPT !.state = "gone"] \in Jobs /\ [j EXCEPT !.state = "gone"].state = "gone"
           /\ [j EXCEPT !.spec = s] \in Jobs /\ [j EXCEPT !.spec = s].state = j.state
           /\ [j EXCEPT !.spec = s].enabled = j.enabled
  BY DEF Jobs

\* The first operation of enable and disable.
LEMMA ToggleExact ==
    ASSUME ScheduleInv, NEW c \in CronCallers, NEW k \in CronIds, JobExact(k), CronToggle(c),
           cronAt[c].id = k, ~(Enabled(k) /\ Disabled(k))'
    PROVE  JobExact(k)'
<1> DEFINE op == cronAt[c].op
<1>1. /\ op \in {"enable", "disable"}
      /\ WorkOn(c, k) /\ UNCHANGED <<cronStart, cronRun, cronUp, cronEntries, cronLib>>
      /\ cronAt'[c].at = "idle" \/ (cronAt'[c].id = k /\ cronAt'[c].op = op)
      /\ cronAt[c].at = "toggle"
  BY OwnStep, StepFacts DEF CronCaller, CronToggle, cronTimer
<1>2. CASE ~Kept(k)
  <2>1. UNCHANGED cronStore /\ cronAt'[c].at = "idle"
    BY <1>2, OwnStep DEF CronCaller, CronToggle, cronShelf
  <2>2. \A d \in CronCallers : cronAt'[d] = cronAt[d] \/ (Waits(d, k) /\ Waits(d, k)')
    BY <1>1, <2>1 DEF Waits, WorkOn
  <2> QED BY <1>1, <2>1, <2>2, Unaffected DEF HasEntry
<1>3. CASE Kept(k)
  <2> DEFINE r == [cronStore[k] EXCEPT !.enabled = (op = "enable")]
  <2>1. /\ CronSave(k, r) /\ cronAt'[c].at = IF op = "enable" THEN "get" ELSE "clear"
    BY <1>3, OwnStep DEF CronCaller, CronToggle
  <2>2. r \in Jobs /\ cronStore \in [CronIds -> Jobs]
    BY JobFields DEF ScheduleInv
  <2>3. cronStore'[k] = r
    BY <2>1, <2>2, SaveFacts
  <2>4. cronStore'[k].state = "kept" /\ cronStore'[k].enabled = (op = "enable")
    BY <1>3, <2>2, <2>3, JobFields DEF Kept
  <2>5. Kept(k)' /\ (Due(k)' <=> op = "enable")
    BY <2>4 DEF Kept, Due
  <2> HIDE DEF op, r
  <2>6. CASE op = "enable"
    <3>1. SomeDoes(k, Enabling, "get")'
      BY <1>1, <2>1, <2>6, WorkMoves DEF op, Enabling, Labels
    <3>2. ~Disabled(k)'
      BY <1>1, <2>1, <2>6 DEF Enabled, Enabling
    <3> QED BY <2>5, <2>6, <3>1, <3>2, EnablingAlone DEF JobExact, WillFit, NoDisabling
  <2>7. CASE op = "disable"
    <3>1. SomeDoes(k, {"disable"}, "clear")'
      BY <1>1, <2>1, <2>7, WorkMoves DEF op, Labels
    <3>2. ~Enabled(k)'
      BY <1>1, <2>1, <2>7 DEF Disabled, Disabling
    <3>3. NoEnabling(k)'
      BY <3>2, DisablingAlone
    <3>4. /\ SomeDoes(k, Disabling, "schedule")' => SomeDoes(k, Disabling, "schedule")
          /\ SomeDoes(k, {"turnoff"}, "update")' => SomeDoes(k, {"turnoff"}, "update")
          /\ SomeDoes(k, {"remove"}, "drop")' => SomeDoes(k, {"remove"}, "drop")
      BY <1>1, <2>1, <2>7, WorkMoves DEF op, Labels
    <3> QED BY <1>1, <2>5, <2>7, <3>1, <3>3, <3>4 DEF JobExact, WillDrop, NoEnabling
  <2> QED BY <1>1, <2>6, <2>7
<1> QED BY <1>2, <1>3

\* A job that was added and saved is due, and the next step of its caller schedules it.
LEMMA AddExact ==
    ASSUME ScheduleInv, NEW c \in CronCallers, NEW k \in CronIds, JobExact(k), CronAdd(c),
           cronAt[c].id = k, ~(Enabled(k) /\ Disabled(k))', k \notin AddUnsaved
    PROVE  JobExact(k)'
<1> DEFINE r == [state |-> "kept", enabled |-> TRUE, spec |-> cronAt[c].spec]
<1>1. /\ cronAt[c].op = "add" /\ cronAt[c].at = "add" /\ cronStore[k].state = "new"
      /\ WorkOn(c, k) /\ UNCHANGED <<cronStart, cronRun, cronUp, cronEntries, cronLib>>
  BY OwnStep, StepFacts DEF CronCaller, CronAdd, cronTimer, ScheduleInv, AddsNew
<1>2. r \in Jobs
  BY DEF Jobs, ScheduleInv, CronInv, CallerTypes, CallerStates
<1>3. CronSave(k, r) /\ cronStore'[k] = r
  BY <1>2, SaveFacts DEF CronAdd, ScheduleInv
<1>4. Due(k)'
  BY <1>3 DEF Due, Kept
<1>5. ~cronDirty'
  BY <1>1, <1>4 DEF AddUnsaved, Due, Kept
<1>6. cronAt'[c].at = "schedule" /\ cronAt'[c].id = k /\ cronAt'[c].op = "add"
  BY <1>1, <1>5, OwnStep DEF CronAdd, CronCaller
<1>7. SomeDoes(k, Enabling, "schedule")' /\ ~Disabled(k)'
  BY <1>6 DEF SomeDoes, Does, Enabling, Enabled
<1> QED BY <1>4, <1>7, EnablingAlone DEF JobExact, WillFit, NoDisabling, Due

\* The last step of RemoveJob.
LEMMA DropExact ==
    ASSUME ScheduleInv, NEW c \in CronCallers, NEW k \in CronIds, JobExact(k), CronDrop(c),
           cronAt[c].id = k, ~(Enabled(k) /\ Disabled(k))'
    PROVE  JobExact(k)'
<1>1. /\ cronAt[c].op = "remove" /\ cronAt[c].at = "drop" /\ cronAt'[c].at = "idle"
      /\ WorkOn(c, k) /\ UNCHANGED <<cronStart, cronRun, cronUp, cronEntries, cronLib>>
  BY OwnStep, StepFacts DEF CronCaller, CronDrop, cronTimer
<1>2. ~Kept(k)'
  <2>1. [cronStore[k] EXCEPT !.state = "gone"] \in Jobs
        /\ [cronStore[k] EXCEPT !.state = "gone"].state = "gone"
    BY JobFields DEF ScheduleInv, Jobs
  <2> QED BY <2>1, SaveFacts DEF CronDrop, Kept, ScheduleInv, cronShelf
<1>3. cronEntries'[k] = 0
  BY <1>1 DEF JobExact, SomeDoes, Does
<1>4. NoEnabling(k)
  BY <1>1, DisablingAlone DEF JobExact, Disabled, Disabling
<1>5. /\ SomeDoes(k, Enabling, "schedule")' => SomeDoes(k, Enabling, "schedule")
      /\ SomeDoes(k, {"enable", "turnon"}, "get")' => SomeDoes(k, {"enable", "turnon"}, "get")
      /\ SomeDoes(k, Disabling, "schedule")' => SomeDoes(k, Disabling, "schedule")
  BY <1>1, WorkMoves DEF Labels
<1> QED BY <1>1, <1>2, <1>3, <1>4, <1>5 DEF JobExact, NoEnabling, Due

\* The store is updated by UpdateJob, between the removal of the entry and its return.
LEMMA UpdateExact ==
    ASSUME ScheduleInv, NEW c \in CronCallers, NEW k \in CronIds, JobExact(k), CronUpdate(c),
           cronAt[c].id = k, ~(Enabled(k) /\ Disabled(k))'
    PROVE  JobExact(k)'
<1> DEFINE op == cronAt[c].op
<1>1. /\ op \in {"turnon", "turnoff", "edit"} /\ cronAt[c].at = "update"
      /\ WorkOn(c, k) /\ UNCHANGED <<cronStart, cronRun, cronUp, cronEntries, cronLib>>
      /\ cronAt'[c].at = "idle" \/ (cronAt'[c].id = k /\ cronAt'[c].op = op)
      /\ cronAt'[c].at = IF Kept(k) THEN "get" ELSE "idle"
  BY OwnStep, StepFacts DEF CronCaller, CronUpdate, cronTimer
<1>2. /\ op = "turnoff" => cronEntries[k] = 0 /\ NoEnabling(k)
      /\ op # "turnoff" => NoDisabling(k)
  <2>1. op = "turnoff" => SomeDoes(k, {"turnoff"}, "update") /\ Disabled(k)
    BY <1>1 DEF SomeDoes, Does, Disabled, Disabling
  <2>2. op # "turnoff" => Enabled(k)
    BY <1>1 DEF Enabled, Enabling
  <2> QED BY <2>1, <2>2, EnablingAlone, DisablingAlone DEF JobExact
<1>3. /\ SomeDoes(k, Enabling, "schedule")' => SomeDoes(k, Enabling, "schedule")
      /\ SomeDoes(k, Disabling, "schedule")' => SomeDoes(k, Disabling, "schedule")
      /\ SomeDoes(k, {"turnoff"}, "update")' => SomeDoes(k, {"turnoff"}, "update")
      /\ SomeDoes(k, {"remove"}, "drop")' => SomeDoes(k, {"remove"}, "drop")
      /\ SomeDoes(k, {"disable"}, "clear")' => SomeDoes(k, {"disable"}, "clear")
      /\ SomeDoes(k, {"enable", "turnon"}, "get")' =>
           SomeDoes(k, {"enable", "turnon"}, "get") \/ (op = "turnon" /\ Kept(k))
      /\ SomeDoes(k, {"turnoff"}, "get")' =>
           SomeDoes(k, {"turnoff"}, "get") \/ (op = "turnoff" /\ Kept(k))
      /\ Kept(k) /\ op # "turnoff" => SomeDoes(k, Enabling, "get")'
  BY <1>1, WorkMoves DEF Labels, Enabling
<1>4. WillDrop(k)' => WillDrop(k)
  BY <1>1, <1>3 DEF WillDrop
<1>5. CASE ~Kept(k)
  <2>1. UNCHANGED cronStore
    BY <1>5 DEF CronUpdate, cronShelf
  <2>2. ~Due(k) /\ ~Due(k)' /\ ~Kept(k)'
    BY <1>5, <2>1 DEF Due, Kept
  <2>3. /\ k \notin cronStart' /\ ~SomeDoes(k, Enabling, "schedule")'
        /\ ~SomeDoes(k, {"enable", "turnon"}, "get")' /\ ~SomeDoes(k, Disabling, "schedule")'
    BY <1>1, <1>3, <1>5, <2>2 DEF JobExact
  <2>4. /\ cronEntries'[k] = 0 \/ WillDrop(k)'
        /\ SomeDoes(k, {"turnoff"}, "update")' \/ SomeDoes(k, {"remove"}, "drop")' => cronEntries'[k] = 0
    <3>1. WillDrop(k) => WillDrop(k)'
      <4>1. SomeDoes(k, {"disable"}, "clear") => SomeDoes(k, {"disable"}, "clear")'
        BY <1>1, WorkMoves DEF Labels
      <4> QED BY <1>1, <4>1 DEF WillDrop
    <3> QED BY <1>1, <1>3, <2>2, <3>1 DEF JobExact
  <2> QED BY <2>2, <2>3, <2>4 DEF JobExact
<1>6. CASE Kept(k)
  <2> DEFINE r == CronUpdated(cronStore[k], op, cronAt[c].spec)
  <2>1. CronSave(k, r)
    BY <1>6 DEF CronUpdate
  <2>2. /\ r \in Jobs /\ r.state = "kept"
        /\ r.enabled = (IF op = "edit" THEN cronStore[k].enabled ELSE op = "turnon")
    <3>1. cronStore[k] \in Jobs /\ cronAt[c].spec \in CronSpecs \cup {0}
      BY DEF ScheduleInv, CronInv, CallerTypes, CallerStates
    <3> DEFINE j == cronStore[k]
               s == cronAt[c].spec
    <3>2. j.state = "kept" /\ j.enabled \in BOOLEAN
      BY <1>6, <3>1 DEF Kept, Jobs
    <3>3. CASE op = "edit"
      <4>1. r = [j EXCEPT !.spec = s]
        BY <3>3 DEF CronUpdated
      <4> HIDE DEF j, s, r, op
      <4> QED BY ZenonT(40), <3>1, <3>2, <3>3, <4>1, JobFields DEF j, s
    <3>4. CASE op = "turnon"
      <4>1. r = [j EXCEPT !.enabled = TRUE]
        BY <3>4 DEF CronUpdated
      <4> HIDE DEF j, r, op
      <4> QED BY ZenonT(40), <3>1, <3>2, <3>4, <4>1, JobFields DEF j
    <3>5. CASE op = "turnoff"
      <4>1. r = [j EXCEPT !.enabled = FALSE]
        BY <3>5 DEF CronUpdated
      <4> HIDE DEF j, r, op
      <4> QED BY ZenonT(40), <3>1, <3>2, <3>5, <4>1, JobFields DEF j
    <3> QED BY <1>1, <3>3, <3>4, <3>5
  <2>3. cronStore'[k] = r
    BY <2>1, <2>2, SaveFacts DEF ScheduleInv
  <2>4. Kept(k)' /\ (Due(k)' <=> IF op = "edit" THEN Due(k) ELSE op = "turnon")
    BY <1>1, <1>6, <2>2, <2>3 DEF Kept, Due
  <2> HIDE DEF op
  <2>5. CASE op = "turnoff"
    BY <1>1, <1>2, <1>3, <2>4, <2>5 DEF JobExact, NoEnabling
  <2>6. CASE op # "turnoff"
    <3>1. Due(k)' => WillFit(k)'
      BY <1>3, <1>6, <2>6 DEF WillFit
    <3>2. Due(k) => Due(k)'
      BY <1>1, <2>4, <2>6
    <3>3. ~Due(k)' => cronEntries'[k] = 0
      BY <1>1, <1>2, <2>4, <2>6, <3>2 DEF JobExact, NoDisabling
    <3> QED BY <1>1, <1>2, <1>3, <1>4, <2>4, <2>6, <3>1, <3>2, <3>3 DEF JobExact, NoDisabling
  <2> QED BY <2>5, <2>6
<1> QED BY <1>5, <1>6

\* The job is read again: a disabling caller finds it disabled, an enabling one may not.
LEMMA GetExact ==
    ASSUME ScheduleInv, NEW c \in CronCallers, NEW k \in CronIds, JobExact(k), CronGet(c),
           cronAt[c].id = k, ~(Enabled(k) /\ Disabled(k))'
    PROVE  JobExact(k)'
<1> DEFINE op == cronAt[c].op
           Goes == Kept(k) /\ (op = "enable" \/ cronStore[k].enabled)
<1>1. /\ op \in {"enable", "turnon", "turnoff", "edit"} /\ cronAt[c].at = "get"
      /\ WorkOn(c, k)
      /\ UNCHANGED <<cronStart, cronRun, cronUp, cronEntries, cronLib, cronStore>>
      /\ cronAt'[c].at = "idle" \/ (cronAt'[c].id = k /\ cronAt'[c].op = op)
      /\ cronAt'[c].at = IF Goes THEN "schedule" ELSE "idle"
  BY OwnStep, StepFacts DEF CronCaller, CronGet, cronTimer, cronShelf
<1>2. /\ op = "turnoff" => ~Due(k) /\ ~Goes
      /\ Goes <=> Due(k)
  <2>1. op = "turnoff" => ~Due(k)
    BY <1>1, WorkMoves DEF JobExact, SomeDoes, Does
  <2>2. op = "enable" => Due(k)
    BY <1>1 DEF JobExact, SomeDoes, Does
  <2> QED BY <2>1, <2>2 DEF Due
<1> HIDE DEF op, Goes
<1>3. /\ SomeDoes(k, Enabling, "schedule")' => SomeDoes(k, Enabling, "schedule") \/ Goes
      /\ SomeDoes(k, Enabling, "schedule") => SomeDoes(k, Enabling, "schedule")'
      /\ Goes => SomeDoes(k, Enabling, "schedule")'
      /\ SomeDoes(k, Enabling, "update") => SomeDoes(k, Enabling, "update")'
      /\ SomeDoes(k, {"remove"}, "drop") => SomeDoes(k, {"remove"}, "drop")'
      /\ SomeDoes(k, {"turnoff"}, "update") => SomeDoes(k, {"turnoff"}, "update")'
      /\ SomeDoes(k, Disabling, "schedule")' => SomeDoes(k, Disabling, "schedule")
      /\ SomeDoes(k, {"turnoff"}, "update")' => SomeDoes(k, {"turnoff"}, "update")
      /\ SomeDoes(k, {"remove"}, "drop")' => SomeDoes(k, {"remove"}, "drop")
      /\ SomeDoes(k, {"disable"}, "clear")' <=> SomeDoes(k, {"disable"}, "clear")
      /\ SomeDoes(k, {"enable", "turnon"}, "get")' => SomeDoes(k, {"enable", "turnon"}, "get")
      /\ SomeDoes(k, {"turnoff"}, "get")' => SomeDoes(k, {"turnoff"}, "get")
  BY <1>1, <1>2, WorkMoves DEF op, Labels, Enabling, Disabling
<1>4. /\ Due(k)' <=> Due(k)
      /\ Kept(k)' <=> Kept(k)
      /\ HasEntry(k)' <=> HasEntry(k)
      /\ WillDrop(k)' <=> WillDrop(k)
  BY <1>1, <1>3 DEF Due, Kept, HasEntry, WillDrop
<1>5. Due(k)' => HasEntry(k)' \/ WillFit(k)'
  BY <1>2, <1>3, <1>4 DEF WillFit
<1> QED BY <1>1, <1>2, <1>3, <1>4, <1>5 DEF JobExact

\* scheduleJob by a caller whose job is due.
LEMMA ScheduleExact ==
    ASSUME ScheduleInv, NEW c \in CronCallers, NEW k \in CronIds, JobExact(k), CronSchedule(c),
           cronAt[c].id = k, ~(Enabled(k) /\ Disabled(k))'
    PROVE  JobExact(k)'
<1> DEFINE op == cronAt[c].op
<1>1. /\ op \in {"add", "enable", "turnon", "turnoff", "edit"} /\ cronAt[c].at = "schedule"
      /\ WorkOn(c, k) /\ UNCHANGED <<cronStart, cronRun, cronUp, cronStore>>
      /\ cronAt'[c].at = "idle"
  BY OwnStep, StepFacts DEF CronCaller, CronSchedule, cronShelf
<1>2. HasEntry(k)'
  BY <1>1, EntryFits DEF CronSchedule
<1>3. op \in Enabling
  BY <1>1 DEF JobExact, SomeDoes, Does, Enabling, Disabling
<1>4. Due(k) /\ NoDisabling(k)
  <2>1. SomeDoes(k, Enabling, "schedule") /\ Enabled(k)
    BY <1>1, <1>3 DEF SomeDoes, Does, Enabled
  <2> QED BY <2>1, EnablingAlone DEF JobExact
<1>5. /\ SomeDoes(k, {"disable"}, "clear")' => SomeDoes(k, {"disable"}, "clear")
      /\ SomeDoes(k, {"turnoff"}, "get")' => SomeDoes(k, {"turnoff"}, "get")
      /\ SomeDoes(k, {"turnoff"}, "update")' => SomeDoes(k, {"turnoff"}, "update")
      /\ SomeDoes(k, {"remove"}, "drop")' => SomeDoes(k, {"remove"}, "drop")
      /\ SomeDoes(k, Disabling, "schedule")' => SomeDoes(k, Disabling, "schedule")
  BY <1>1, WorkMoves DEF Labels
<1>6. Due(k)' /\ Kept(k)' /\ (WillDrop(k)' => WillDrop(k))
  BY <1>1, <1>4, <1>5 DEF Due, Kept, WillDrop
<1> QED BY <1>2, <1>4, <1>5, <1>6 DEF JobExact, NoDisabling

\* The run of a loop that pauses it has disabled it before it drops its entry.
LEMMA RunExact ==
    ASSUME ScheduleInv, NEW k \in CronIds, JobExact(k),
           CronPause(k) \/ (CronRunEnds(k) /\ cronRun'[k] = "pause"),
           ~(Enabled(k) /\ Disabled(k))'
    PROVE  JobExact(k)'
<1>1. UNCHANGED <<cronAt, cronStart>> /\ \A d \in CronCallers : cronAt'[d] = cronAt[d]
  BY DEF CronPause, CronRunEnds
<1>2. /\ NoEnabling(k) <=> NoEnabling(k)'
      /\ SomeDoes(k, {"turnoff"}, "get") <=> SomeDoes(k, {"turnoff"}, "get")'
      /\ SomeDoes(k, {"turnoff"}, "update")' <=> SomeDoes(k, {"turnoff"}, "update")
      /\ SomeDoes(k, {"remove"}, "drop")' <=> SomeDoes(k, {"remove"}, "drop")
      /\ SomeDoes(k, Disabling, "schedule")' <=> SomeDoes(k, Disabling, "schedule")
  BY <1>1 DEF NoEnabling, SomeDoes, Does
<1>3. CASE CronPause(k)
  <2>1. cronRun[k] = "pause" /\ UNCHANGED cronStore /\ Unschedule(k)
    BY <1>3 DEF CronPause, cronShelf
  <2>2. cronEntries'[k] = 0
    BY <2>1 DEF Unschedule, ScheduleInv, CronInv, EntryInv
  <2>3. ~Due(k) /\ ~Due(k)' /\ NoEnabling(k)
    <3>1. WillDrop(k) /\ Disabled(k)
      BY <2>1 DEF WillDrop, Disabled
    <3> QED BY <2>1, <3>1, DisablingAlone DEF JobExact, Due, Kept
  <2> QED BY <1>2, <2>2, <2>3 DEF JobExact, NoEnabling
<1>4. CASE CronRunEnds(k) /\ cronRun'[k] = "pause"
  <2> DEFINE r == [cronStore[k] EXCEPT !.enabled = FALSE]
  <2>1. CronSave(k, r) /\ UNCHANGED <<cronEntries, cronLib>>
    BY <1>4 DEF CronRunEnds, ScheduleInv, Runs, cronTimer
  <2>2. r \in Jobs /\ r.enabled = FALSE
    BY JobFields DEF ScheduleInv
  <2>3. ~Due(k)'
    BY <2>1, <2>2, SaveFacts DEF Due, ScheduleInv
  <2>4. NoEnabling(k)' /\ WillDrop(k)'
    BY <1>4, DisablingAlone DEF Disabled, WillDrop
  <2> QED BY <1>2, <2>1, <2>3, <2>4 DEF JobExact, NoEnabling
<1> QED BY <1>3, <1>4

\* Start looks at a job that it has listed.
LEMMA StartExact ==
    ASSUME ScheduleInv, NEW k \in CronIds, JobExact(k), CronStartOne(k),
           ~(Enabled(k) /\ Disabled(k))'
    PROVE  JobExact(k)'
<1>1. /\ UNCHANGED <<cronAt, cronRun, cronStore>> /\ \A d \in CronCallers : cronAt'[d] = cronAt[d]
      /\ k \in cronStart /\ k \notin cronStart'
  BY DEF CronStartOne, cronShelf
<1>2. Kept(k) /\ NoDisabling(k)
  BY <1>1, EnablingAlone DEF JobExact, Enabled
<1>3. NoDisabling(k)' /\ (Due(k)' <=> Due(k))
  BY <1>1, <1>2 DEF NoDisabling, WillDrop, SomeDoes, Does, Due, Kept
<1>4. /\ SomeDoes(k, Enabling, "schedule")' <=> SomeDoes(k, Enabling, "schedule")
      /\ SomeDoes(k, {"enable", "turnon"}, "get")' <=> SomeDoes(k, {"enable", "turnon"}, "get")
  BY <1>1 DEF SomeDoes, Does
<1>5. CASE cronStore[k].enabled /\ Reschedule(k)
  BY <1>1, <1>2, <1>3, <1>4, <1>5, EntryFits DEF JobExact, NoDisabling, Due
<1>6. CASE ~cronStore[k].enabled /\ UNCHANGED cronTimer
  <2>1. cronEntries'[k] = 0 /\ ~Due(k)
    BY <1>2, <1>6 DEF JobExact, NoDisabling, Due, cronTimer
  <2> QED BY <1>1, <1>3, <1>4, <2>1 DEF JobExact, NoDisabling
<1> QED BY <1>5, <1>6 DEF CronStartOne

-----------------------------------------------------------------------------
\* A caller begins an operation with its first step.
Begins(c, op, id, label, spec) ==
    /\ CronBeginOp(c, op, id, label, spec)
    /\ op \in Ops \ {"none"} /\ label \in StepsOf[op] /\ label \in {"add", "toggle", "clear"}
    /\ label = "clear" => op # "disable"
    /\ label = "add" => cronStore[id].state = "new" /\ \A d \in CronCallers : cronAt[d].id # id

SomeBegins ==
    \E c \in CronCallers, id \in CronIds, op \in Ops, label \in Labels, spec \in CronSpecs \cup {0} :
        Begins(c, op, id, label, spec)

\* The firings and runs of a job.
OfRun(id) == CronFire(id) \/ CronDequeue(id) \/ CronRunEnds(id) \/ CronMarkRun(id)

LEMMA StepsFit ==
    /\ "add" \in StepsOf["add"] /\ "toggle" \in StepsOf["enable"]
    /\ "toggle" \in StepsOf["disable"] /\ "clear" \in StepsOf["remove"]
    /\ \A op \in {"edit", "turnon", "turnoff"} : "clear" \in StepsOf[op]
  BY DEF StepsOf, Ops

LEMMA NextCases ==
    ASSUME CronNext
    PROVE  \/ SomeBegins
           \/ \E c \in CronCallers : CronCaller(c)
           \/ \E id \in CronIds : OfRun(id) \/ CronPause(id) \/ CronStartOne(id)
           \/ CronCrash \/ CronRestart
<1>1. ASSUME NEW c \in CronCallers, NEW id \in CronIds, NEW spec \in CronSpecs, CronAskAdd(c, id, spec)
      PROVE  SomeBegins
  <2>1. Begins(c, "add", id, "add", spec)
    BY <1>1, StepsFit DEF CronAskAdd, Begins, Ops
  <2> QED BY <2>1 DEF SomeBegins, Ops, Labels
<1>2. ASSUME NEW c \in CronCallers, NEW id \in CronIds, NEW op, CronAskButton(c, op, id)
      PROVE  SomeBegins
  <2>1. CASE op = "remove"
    <3>1. Begins(c, "remove", id, "clear", 0)
      BY <1>2, <2>1, StepsFit DEF CronAskButton, CronFirstStep, Begins, Ops
    <3> QED BY <3>1 DEF SomeBegins, Ops, Labels
  <2>2. CASE op \in {"enable", "disable"}
    <3>1. Begins(c, op, id, "toggle", 0)
      BY <1>2, <2>2, StepsFit DEF CronAskButton, CronFirstStep, Begins, Ops
    <3> QED BY <2>2, <3>1 DEF SomeBegins, Ops, Labels
  <2> QED BY <1>2, <2>1, <2>2 DEF CronAskButton
<1>3. ASSUME NEW c \in CronCallers, NEW id \in CronIds, NEW op, NEW spec \in CronSpecs,
             CronAskEdit(c, op, id, spec)
      PROVE  SomeBegins
  <2>1. op \in {"edit", "turnon", "turnoff"} /\ op \in Ops
    BY <1>3 DEF CronAskEdit, Ops
  <2>2. Begins(c, op, id, "clear", spec)
    BY <1>3, <2>1, StepsFit DEF CronAskEdit, Begins
  <2> QED BY <2>1, <2>2 DEF SomeBegins, Labels
<1>4. ASSUME NEW c \in CronCallers, NEW id \in CronIds, CronAskDelete(c, id)
      PROVE  SomeBegins
  <2>1. Begins(c, "remove", id, "clear", 0)
    BY <1>4, StepsFit DEF CronAskDelete, Begins, Ops
  <2> QED BY <2>1 DEF SomeBegins, Ops, Labels
<1> QED BY <1>1, <1>2, <1>3, <1>4 DEF CronNext, OfRun

\* A save of job k that was not new.
SavesOld(k) == \E r \in Jobs : r.state # "new" /\ Kept(k) /\ CronSave(k, r)

\* What the callers and the runs of a job do to the store.
LEMMA Saves ==
    ASSUME ScheduleInv
    PROVE  /\ \A c \in CronCallers : CronCaller(c) =>
                \/ UNCHANGED cronShelf
                \/ SavesOld(cronAt[c].id)
                \/ CronAdd(c) /\ \E r \in Jobs : r.state = "kept" /\ CronSave(cronAt[c].id, r)
           /\ \A k \in CronIds : OfRun(k) => UNCHANGED cronShelf \/ SavesOld(k)
<1>1. ASSUME NEW k \in CronIds, Kept(k)
      PROVE  /\ cronStore[k] \in Jobs /\ [cronStore[k] EXCEPT !.state = "gone"] \in Jobs
             /\ \A b \in BOOLEAN : [cronStore[k] EXCEPT !.enabled = b] \in Jobs
             /\ \A s \in CronSpecs \cup {0} : [cronStore[k] EXCEPT !.spec = s] \in Jobs
             /\ cronStore[k].state = "kept" /\ [cronStore[k] EXCEPT !.state = "gone"].state = "gone"
             /\ \A b \in BOOLEAN : [cronStore[k] EXCEPT !.enabled = b].state = "kept"
             /\ \A s \in CronSpecs \cup {0} : [cronStore[k] EXCEPT !.spec = s].state = "kept"
  <2> DEFINE j == cronStore[k]
  <2>1. j \in Jobs /\ j.state = "kept"
    BY <1>1 DEF ScheduleInv, Kept
  <2> HIDE DEF j
  <2>2. \A b \in BOOLEAN : [j EXCEPT !.enabled = b] \in Jobs /\ [j EXCEPT !.enabled = b].state = "kept"
    BY <2>1 DEF Jobs
  <2>3. \A s \in CronSpecs \cup {0} : [j EXCEPT !.spec = s] \in Jobs /\ [j EXCEPT !.spec = s].state = "kept"
    BY <2>1 DEF Jobs
  <2>4. [j EXCEPT !.state = "gone"] \in Jobs /\ [j EXCEPT !.state = "gone"].state = "gone"
    BY <2>1 DEF Jobs
  <2> QED BY <2>1, <2>2, <2>3, <2>4 DEF j
<1>2. ASSUME NEW c \in CronCallers, CronCaller(c)
      PROVE  \/ UNCHANGED cronShelf
             \/ SavesOld(cronAt[c].id)
             \/ CronAdd(c) /\ \E r \in Jobs : r.state = "kept" /\ CronSave(cronAt[c].id, r)
  <2> DEFINE k == cronAt[c].id
  <2>1. k \in CronIds /\ cronAt[c].spec \in CronSpecs \cup {0}
    BY <1>2, OwnStep DEF ScheduleInv, CronInv, CallerTypes, CallerStates
  <2>2. CASE CronAdd(c)
    <3>1. [state |-> "kept", enabled |-> TRUE, spec |-> cronAt[c].spec] \in Jobs
      BY <2>1 DEF Jobs
    <3> QED BY <2>2, <3>1 DEF CronAdd
  <2>3. CASE CronToggle(c)
    BY <1>1, <2>1, <2>3 DEF CronToggle, SavesOld
  <2>4. CASE CronDrop(c)
    BY <1>1, <2>1, <2>4 DEF CronDrop, SavesOld
  <2>5. CASE CronUpdate(c)
    <3>1. CASE ~Kept(k)
      BY <2>5, <3>1 DEF CronUpdate
    <3>2. CASE Kept(k)
      <4> DEFINE r == CronUpdated(cronStore[k], cronAt[c].op, cronAt[c].spec)
      <4>1. r \in Jobs /\ r.state # "new"
        BY <1>1, <2>1, <3>2 DEF CronUpdated
      <4> QED BY <2>5, <3>2, <4>1 DEF CronUpdate, SavesOld
    <3> QED BY <3>1, <3>2
  <2>6. CASE CronClear(c) \/ CronGet(c) \/ CronSchedule(c)
    BY <2>6 DEF CronClear, CronGet, CronSchedule
  <2> QED BY <1>2, <2>2, <2>3, <2>4, <2>5, <2>6 DEF CronCaller
<1>3. ASSUME NEW k \in CronIds, OfRun(k)
      PROVE  UNCHANGED cronShelf \/ SavesOld(k)
  BY <1>1, <1>3 DEF OfRun, CronFire, CronDequeue, CronRunEnds, CronMarkRun, SavesOld
<1> QED BY <1>2, <1>3

LEMMA StoreStep ==
    ASSUME ScheduleInv, CronNext
    PROVE  /\ cronStore' \in [CronIds -> Jobs] /\ cronFile' \in [CronIds -> Jobs]
           /\ cronRun' \in [CronIds -> {"none", "run", "queued", "pause", "mark"}]
<1>1. \/ UNCHANGED cronShelf
      \/ \E k \in CronIds, r \in Jobs : CronSave(k, r)
      \/ CronCrash
  <2>1. \A c \in CronCallers : CronCaller(c) => cronAt[c].id \in CronIds
    BY OwnStep
  <2> QED BY <2>1, NextCases, Saves DEF SomeBegins, Begins, CronBeginOp, CronPause, CronStartOne,
                                        CronRestart, SavesOld
<1>2. cronStore' \in [CronIds -> Jobs] /\ cronFile' \in [CronIds -> Jobs]
  <2>1. CASE \E k \in CronIds, r \in Jobs : CronSave(k, r)
    BY <2>1, SaveFacts DEF ScheduleInv
  <2>2. CASE UNCHANGED cronShelf \/ CronCrash
    BY <2>2 DEF ScheduleInv, cronShelf, CronCrash
  <2> QED BY <1>1, <2>1, <2>2
<1>3. cronRun' \in [CronIds -> Runs]
  <2>1. CASE CronCrash
    BY <2>1 DEF CronCrash, Runs
  <2>2. CASE \E k \in CronIds : OfRun(k) \/ CronPause(k)
    BY <2>2 DEF OfRun, CronPause, CronFire, CronDequeue, CronRunEnds, CronMarkRun, ScheduleInv, Runs
  <2>3. CASE UNCHANGED cronRun
    BY <2>3 DEF ScheduleInv
  <2>4. \A c \in CronCallers : CronCaller(c) => UNCHANGED cronRun
    BY OwnStep
  <2> QED BY <2>1, <2>2, <2>3, <2>4, NextCases DEF SomeBegins, Begins, CronBeginOp, CronStartOne,
                                                  CronRestart
<1> QED BY <1>2, <1>3 DEF Runs

\* What a step does to the callers.
LEMMA Callers ==
    ASSUME ScheduleInv, CronNext
    PROVE  \/ UNCHANGED cronAt
           \/ cronAt' = [c \in CronCallers |-> CronIdle]
           \/ \E c \in CronCallers : CronCaller(c)
           \/ SomeBegins
  BY NextCases DEF OfRun, CronPause, CronFire, CronDequeue, CronRunEnds, CronMarkRun, CronStartOne,
                   CronRestart, CronCrash

LEMMA InStepStep ==
    ASSUME ScheduleInv, CronNext
    PROVE  InStep'
<1>1. CASE SomeBegins
  <2>1. PICK c \in CronCallers, id \in CronIds, op \in Ops, label \in Labels, spec \in CronSpecs \cup {0} :
          Begins(c, op, id, label, spec)
    BY <1>1 DEF SomeBegins
  <2> DEFINE r == [op |-> op, id |-> id, at |-> label, spec |-> spec]
  <2>2. cronAt' = [cronAt EXCEPT ![c] = r] /\ r.at \in StepsOf[r.op]
    BY <2>1 DEF Begins, CronBeginOp
  <2> HIDE DEF r
  <2> QED BY <2>2 DEF InStep, ScheduleInv, CronInv, CallerTypes
<1>2. ASSUME NEW c \in CronCallers, CronCaller(c)
      PROVE  InStep'
  <2>1. cronAt'[c].at = "idle" \/ cronAt'[c].at \in StepsOf[cronAt'[c].op]
    <3> DEFINE op == cronAt[c].op
    <3>1. /\ op \in Ops /\ cronAt[c].at \in StepsOf[op]
          /\ \A label : CronGoes(c, label) => cronAt'[c].op = op /\ cronAt'[c].at = label
          /\ Returns(c) => cronAt'[c].at = "idle"
      BY <1>2, OwnStep
    <3>2. \/ Returns(c)
          \/ CronGoes(c, "schedule") /\ op \in {"add", "enable", "turnon", "turnoff", "edit"}
          \/ CronGoes(c, "get") /\ op \in {"enable", "turnon", "turnoff", "edit"}
          \/ CronGoes(c, "clear") /\ op = "disable"
          \/ CronGoes(c, "drop") /\ op = "remove"
          \/ CronGoes(c, "update") /\ op \in {"turnon", "turnoff", "edit"}
      BY <1>2, <3>1, StepFacts DEF CronCaller, CronAdd, CronToggle, CronClear, CronDrop, CronUpdate,
                                   CronGet, CronSchedule
    <3>3. /\ op \in {"add", "enable", "turnon", "turnoff", "edit"} => "schedule" \in StepsOf[op]
          /\ op \in {"enable", "turnon", "turnoff", "edit"} => "get" \in StepsOf[op]
          /\ op = "disable" => "clear" \in StepsOf[op]
          /\ op = "remove" => "drop" \in StepsOf[op]
          /\ op \in {"turnon", "turnoff", "edit"} => "update" \in StepsOf[op]
      BY DEF StepsOf, Ops
    <3> HIDE DEF op
    <3> QED BY <3>1, <3>2, <3>3
  <2>2. \A d \in CronCallers \ {c} : cronAt'[d] = cronAt[d]
    BY <1>2, OwnStep DEF WorkOn
  <2> QED BY <2>1, <2>2 DEF InStep, ScheduleInv
<1>3. CASE UNCHANGED cronAt \/ cronAt' = [c \in CronCallers |-> CronIdle]
  BY <1>3 DEF InStep, ScheduleInv, CronIdle
<1> QED BY <1>1, <1>2, <1>3, Callers

LEMMA AddsNewStep ==
    ASSUME ScheduleInv, CronNext
    PROVE  AddsNew'
<1>0. AddsNew
  BY DEF ScheduleInv
<1>1. CASE SomeBegins
  <2>1. PICK c \in CronCallers, id \in CronIds, op \in Ops, label \in Labels, spec \in CronSpecs \cup {0} :
          Begins(c, op, id, label, spec)
    BY <1>1 DEF SomeBegins
  <2> DEFINE r == [op |-> op, id |-> id, at |-> label, spec |-> spec]
  <2>2. /\ cronAt' = [cronAt EXCEPT ![c] = r] /\ r.at = label /\ r.id = id /\ cronStore' = cronStore
        /\ label = "add" => cronStore[id].state = "new" /\ \A d \in CronCallers : cronAt[d].id # id
    BY <2>1 DEF Begins, CronBeginOp, cronShelf
  <2>3. cronAt'[c] = r /\ \A d \in CronCallers \ {c} : cronAt'[d] = cronAt[d]
    BY <2>2 DEF ScheduleInv, CronInv, CallerTypes
  <2> HIDE DEF r
  <2> QED BY <1>0, <2>2, <2>3 DEF AddsNew
<1>2. ASSUME NEW c \in CronCallers, CronCaller(c)
      PROVE  AddsNew'
  <2>1. /\ cronAt'[c].at # "add" /\ cronAt[c].id \in CronIds
        /\ \A d \in CronCallers \ {c} : cronAt'[d] = cronAt[d]
    <3>1. Returns(c) \/ \E label \in Labels \ {"add"} : CronGoes(c, label)
      BY <1>2 DEF CronCaller, CronAdd, CronToggle, CronClear, CronDrop, CronUpdate, CronGet,
                  CronSchedule, Labels
    <3> QED BY <1>2, <3>1, OwnStep DEF WorkOn
  <2>2. ASSUME NEW d \in CronCallers \ {c}, cronAt[d].at = "add"
        PROVE  cronStore'[cronAt[d].id].state = "new"
    <3>0. cronAt[d].id \in CronIds /\ cronStore[cronAt[d].id].state = "new"
      BY <1>0, <2>2 DEF AddsNew, ScheduleInv, CronInv, CallerTypes
    <3>1. CASE UNCHANGED cronShelf
      BY <3>0, <3>1 DEF cronShelf
    <3>2. CASE SavesOld(cronAt[c].id)
      <4>1. cronAt[d].id # cronAt[c].id
        BY <3>0, <3>2 DEF SavesOld, Kept
      <4> QED BY ZenonT(40), <2>1, <3>0, <3>2, <4>1, SaveFacts DEF SavesOld, ScheduleInv
    <3>3. CASE CronAdd(c) /\ \E r \in Jobs : r.state = "kept" /\ CronSave(cronAt[c].id, r)
      <4>1. cronAt[d].id # cronAt[c].id
        BY <1>0, <2>2, <3>3 DEF AddsNew, CronAdd
      <4> QED BY ZenonT(40), <2>1, <3>0, <3>3, <4>1, SaveFacts DEF ScheduleInv
    <3> QED BY <1>2, <3>1, <3>2, <3>3, Saves
  <2> QED BY <1>0, <2>1, <2>2 DEF AddsNew
<1>3. CASE cronAt' = [c \in CronCallers |-> CronIdle]
  BY <1>3 DEF AddsNew, CronIdle
<1>4. ASSUME NEW k \in CronIds, OfRun(k)
      PROVE  AddsNew'
  <2>1. UNCHANGED cronAt
    BY <1>4 DEF OfRun, CronFire, CronDequeue, CronRunEnds, CronMarkRun
  <2>2. ASSUME NEW d \in CronCallers, cronAt[d].at = "add"
        PROVE  cronStore'[cronAt[d].id].state = "new"
    <3>0. cronAt[d].id \in CronIds /\ cronStore[cronAt[d].id].state = "new"
      BY <1>0, <2>2 DEF AddsNew, ScheduleInv, CronInv, CallerTypes
    <3>1. CASE UNCHANGED cronShelf
      BY <3>0, <3>1 DEF cronShelf
    <3>2. CASE SavesOld(k)
      <4>1. cronAt[d].id # k
        BY <3>0, <3>2 DEF SavesOld, Kept
      <4> QED BY <3>0, <3>2, <4>1, SaveFacts DEF SavesOld, ScheduleInv
    <3> QED BY <1>4, <3>1, <3>2, Saves
  <2> QED BY <1>0, <2>1, <2>2 DEF AddsNew
<1>5. CASE UNCHANGED <<cronAt, cronShelf>>
  BY <1>0, <1>5 DEF AddsNew, cronShelf
<1>6. \/ CronCrash /\ cronAt' = [c \in CronCallers |-> CronIdle]
      \/ UNCHANGED <<cronAt, cronShelf>>
      \/ \E k \in CronIds : OfRun(k)
      \/ SomeBegins \/ \E c \in CronCallers : CronCaller(c)
  BY NextCases DEF CronCrash, CronRestart, CronPause, CronStartOne
<1> QED BY <1>1, <1>2, <1>3, <1>4, <1>5, <1>6

\* The process goes up with CronRestart and down with CronCrash, and does nothing between.
LEMMA UpAndDown ==
    ASSUME ScheduleInv, CronNext
    PROVE  /\ ~cronUp /\ cronUp' => CronRestart
           /\ ~cronUp' => CronCrash
           /\ cronUp /\ cronUp' => ~CronCrash /\ ~CronRestart
<1>1. ~cronUp => /\ ~SomeBegins /\ \A c \in CronCallers : ~CronCaller(c)
                 /\ \A k \in CronIds : ~OfRun(k) /\ ~CronPause(k) /\ ~CronStartOne(k)
  <2>1. ASSUME ~cronUp
        PROVE  /\ ~SomeBegins /\ \A c \in CronCallers : cronAt[c].at = "idle"
               /\ cronStart = {} /\ \A k \in CronIds : cronRun[k] = "none"
    BY <2>1 DEF ScheduleInv, DownIsQuiet, SomeBegins, Begins, CronBeginOp, CronIdle
  <2> QED BY <2>1 DEF CronCaller, CronAdd, CronToggle, CronClear, CronDrop, CronUpdate, CronGet,
                      CronSchedule, OfRun, CronFire, CronDequeue, CronRunEnds, CronMarkRun,
                      CronPause, CronStartOne
<1>2. SomeBegins => UNCHANGED cronUp
  BY DEF SomeBegins, Begins, CronBeginOp
<1>3. \A c \in CronCallers : CronCaller(c) => UNCHANGED cronUp
  BY OwnStep
<1>4. \A k \in CronIds : OfRun(k) \/ CronPause(k) \/ CronStartOne(k) => UNCHANGED cronUp
  BY DEF OfRun, CronFire, CronDequeue, CronRunEnds, CronMarkRun, CronPause, CronStartOne, cronBounds
<1>5. (CronCrash => cronUp /\ ~cronUp') /\ (CronRestart => ~cronUp /\ cronUp')
  BY DEF CronCrash, CronRestart
<1> QED BY <1>1, <1>2, <1>3, <1>4, <1>5, NextCases

LEMMA QuietStep ==
    ASSUME ScheduleInv, CronNext
    PROVE  DownIsQuiet'
<1> SUFFICES ASSUME ~cronUp' PROVE DownIsQuiet'
  BY DEF DownIsQuiet
<1>1. CronCrash
  BY UpAndDown
<1>2. cronSkewed' = {}
  BY DEF CronNext
<1> QED BY <1>1, <1>2 DEF CronCrash, DownIsQuiet

\* Every step keeps what is known of a job, if no opposed operations overlap on it.
LEMMA ExactStep ==
    ASSUME ScheduleInv, CronNext, cronUp', NEW k \in CronIds, k \notin cronSkewed'
    PROVE  JobExact(k)'
<1>1. k \notin cronSkewed /\ k \notin Clashing /\ k \notin AddUnsaved
  BY DEF CronNext
<1>2. ~(Enabled(k) /\ Disabled(k))'
  BY <1>1 DEF Clashing, Enabled, Disabled
<1>3. CASE ~cronUp
  <2>1. CronRestart /\ cronAt = [c \in CronCallers |-> CronIdle] /\ cronEntries[k] = 0
        /\ cronRun[k] = "none"
    BY <1>3, UpAndDown DEF ScheduleInv, DownIsQuiet
  <2>2. /\ cronStart' = {id \in CronIds : Kept(id)} /\ cronEntries'[k] = 0 /\ cronRun'[k] = "none"
        /\ cronStore' = cronStore /\ \A d \in CronCallers : cronAt'[d].at = "idle"
    BY <2>1 DEF CronRestart, cronTimer, cronShelf, CronIdle
  <2>3. \A ops : \A label \in Labels \ {"idle"} : ~SomeDoes(k, ops, label)'
    BY <2>2 DEF SomeDoes, Does
  <2>4. k \in cronStart' <=> Kept(k)'
    BY <2>2 DEF Kept
  <2> QED BY <1>2, <2>2, <2>3, <2>4 DEF JobExact, WillFit, WillDrop, Labels, Due
<1>4. CASE cronUp
  <2>1. JobExact(k) /\ EntryInv /\ CallerTypes
    BY <1>1, <1>4 DEF ScheduleInv, CronInv
  <2>2. CASE SomeBegins
    <3>1. PICK c \in CronCallers, id \in CronIds, op \in Ops, label \in Labels,
               spec \in CronSpecs \cup {0} : Begins(c, op, id, label, spec)
      BY <2>2 DEF SomeBegins
    <3> DEFINE r == [op |-> op, id |-> id, at |-> label, spec |-> spec]
    <3>2. /\ cronAt' = [cronAt EXCEPT ![c] = r] /\ cronAt[c].at = "idle"
          /\ r.at = label /\ r.op = op /\ label \in {"add", "toggle", "clear"}
          /\ label = "clear" => op # "disable"
          /\ UNCHANGED <<cronStore, cronEntries, cronLib, cronStart, cronRun>>
      BY <3>1 DEF Begins, CronBeginOp, CronIdle, cronShelf, cronTimer
    <3> HIDE DEF r
    <3>3. \A d \in CronCallers : cronAt'[d] = cronAt[d] \/ (Waits(d, k) /\ Waits(d, k)')
      BY <2>1, <3>2 DEF CallerTypes, Waits
    <3> QED BY <1>2, <2>1, <3>2, <3>3, Unaffected DEF HasEntry
  <2>3. ASSUME NEW c \in CronCallers, CronCaller(c)
        PROVE  JobExact(k)'
    <3>1. CASE cronAt[c].id = k
      BY <1>1, <1>2, <2>1, <2>3, <3>1, AddExact, ToggleExact, ClearExact, DropExact, UpdateExact,
         GetExact, ScheduleExact DEF CronCaller
    <3>2. CASE cronAt[c].id # k
      <4>1. /\ cronAt[c].id \in CronIds /\ UNCHANGED <<cronStart, cronRun>>
            /\ \A d \in CronCallers \ {c} : cronAt'[d] = cronAt[d]
            /\ cronAt'[c].id = cronAt[c].id \/ cronAt'[c].at = "idle"
        <5>1. Returns(c) \/ \E label : CronGoes(c, label)
          BY <2>3 DEF CronCaller, CronAdd, CronToggle, CronClear, CronDrop, CronUpdate, CronGet,
                      CronSchedule
        <5> QED BY <2>3, <5>1, OwnStep DEF WorkOn
      <4>2. \A d \in CronCallers : cronAt'[d] = cronAt[d] \/ (Waits(d, k) /\ Waits(d, k)')
        BY <3>2, <4>1 DEF Waits
      <4>3. cronStore'[k] = cronStore[k]
        BY ZenonT(40), <2>3, <3>2, <4>1, Saves, SaveFacts DEF SavesOld, cronShelf, ScheduleInv
      <4>4. Unschedule(cronAt[c].id) \/ Reschedule(cronAt[c].id) \/ UNCHANGED cronTimer
        BY <2>3 DEF CronCaller, CronAdd, CronToggle, CronClear, CronDrop, CronUpdate, CronGet,
                    CronSchedule
      <4>5. (HasEntry(k) => HasEntry(k)') /\ cronEntries'[k] = cronEntries[k]
        BY <2>1, <3>2, <4>1, <4>3, <4>4, OtherEntries
      <4> QED BY <1>2, <2>1, <4>1, <4>2, <4>3, <4>5, Unaffected
    <3> QED BY <3>1, <3>2
  <2>4. ASSUME NEW id \in CronIds, OfRun(id) \/ CronPause(id) \/ CronStartOne(id)
        PROVE  JobExact(k)'
    <3>1. CASE id = k /\ (CronPause(k) \/ (CronRunEnds(k) /\ cronRun'[k] = "pause"))
      BY <1>2, <2>1, <3>1, RunExact
    <3>2. CASE id = k /\ CronStartOne(k)
      BY <1>2, <2>1, <3>2, StartExact
    <3>3. CASE id = k /\ OfRun(k) /\ cronRun'[k] # "pause"
      <4>1. /\ UNCHANGED <<cronAt, cronStart, cronEntries, cronLib>> /\ cronRun[k] # "pause"
            /\ cronStore'[k] = cronStore[k]
        <5>1. UNCHANGED cronShelf \/ (Kept(k) /\ CronSave(k, cronStore[k]))
          BY <3>3 DEF OfRun, CronFire, CronDequeue, CronRunEnds, CronMarkRun, ScheduleInv, Runs
        <5>2. cronStore'[k] = cronStore[k]
          BY <5>1, SaveFacts DEF cronShelf, ScheduleInv
        <5> QED BY <3>3, <5>2 DEF OfRun, CronFire, CronDequeue, CronRunEnds, CronMarkRun, cronTimer
      <4> QED BY <1>2, <2>1, <3>3, <4>1, Unaffected DEF HasEntry
    <3>4. CASE id # k
      <4>1. UNCHANGED cronAt /\ cronRun'[k] = cronRun[k] /\ (k \in cronStart' <=> k \in cronStart)
        BY <2>4, <3>4 DEF OfRun, CronFire, CronDequeue, CronRunEnds, CronMarkRun, CronPause,
                         CronStartOne, ScheduleInv
      <4>2. cronStore'[k] = cronStore[k]
        <5>1. UNCHANGED cronShelf \/ SavesOld(id)
          BY <2>4, Saves DEF CronPause, CronStartOne
        <5> QED BY <3>4, <5>1, SaveFacts DEF SavesOld, cronShelf, ScheduleInv
      <4>3. Unschedule(id) \/ Reschedule(id) \/ UNCHANGED cronTimer
        BY <2>4 DEF OfRun, CronFire, CronDequeue, CronRunEnds, CronMarkRun, CronPause, CronStartOne
      <4>4. (HasEntry(k) => HasEntry(k)') /\ cronEntries'[k] = cronEntries[k]
        BY <2>1, <3>4, <4>2, <4>3, OtherEntries
      <4> QED BY <1>2, <2>1, <4>1, <4>2, <4>4, Unaffected
    <3>5. OfRun(k) /\ cronRun'[k] = "pause" => CronRunEnds(k)
      BY DEF OfRun, CronFire, CronDequeue, CronMarkRun, ScheduleInv
    <3> QED
      <4>1. CASE id # k
        BY <3>4, <4>1
      <4>2. CASE id = k
        <5>1. OfRun(k) \/ CronPause(k) \/ CronStartOne(k)
          BY <2>4, <4>2
        <5> QED BY ONLY <3>1, <3>2, <3>3, <3>5, <4>2, <5>1, Zenon
      <4> QED BY <4>1, <4>2
  <2> QED BY <1>4, <2>2, <2>3, <2>4, NextCases, UpAndDown
<1> QED BY <1>3, <1>4

LEMMA ScheduleInit == CronInit => ScheduleInv
<1> SUFFICES ASSUME CronInit PROVE ScheduleInv
  OBVIOUS
<1>1. cronStore \in [CronIds -> Jobs] /\ cronFile \in [CronIds -> Jobs]
  <2>1. CronUnborn \in Jobs /\ [state : {"kept"}, enabled : BOOLEAN, spec : CronSpecs] \subseteq Jobs
    BY DEF CronUnborn, Jobs
  <2> QED BY <2>1 DEF CronInit
<1>2. cronRun \in [CronIds -> Runs]
  BY DEF CronInit, Runs
<1>3. InStep /\ AddsNew /\ DownIsQuiet /\ ~cronUp
  BY DEF CronInit, InStep, AddsNew, DownIsQuiet, CronIdle
<1> QED BY <1>1, <1>2, <1>3, CronInitInv DEF ScheduleInv

LEMMA ScheduleStep == ScheduleInv /\ [CronNext]_cronVars => ScheduleInv'
<1>1. ASSUME ScheduleInv, CronNext
      PROVE  ScheduleInv'
  <2>1. CronInv'
    BY <1>1, CronStep DEF ScheduleInv
  <2> QED BY <1>1, <2>1, StoreStep, InStepStep, AddsNewStep, QuietStep, ExactStep DEF ScheduleInv, Runs
<1>2. ASSUME ScheduleInv, UNCHANGED cronVars
      PROVE  ScheduleInv'
  <2>1. CronInv'
    BY <1>2, CronStep DEF ScheduleInv
  <2>2. \A k \in CronIds : JobExact(k)' <=> JobExact(k)
    BY <1>2 DEF JobExact, Enabled, Disabled, Due, Kept, HasEntry, WillFit, WillDrop, SomeDoes, Does,
                cronVars
  <2> QED BY <1>2, <2>1, <2>2 DEF ScheduleInv, InStep, AddsNew, DownIsQuiet, cronVars
<1> QED BY <1>1, <1>2

\* A job on which nobody works has an entry with its present schedule when it is enabled and
\* none when it is not, whatever edits, toggles, firings, failed saves and restarts came
\* before, unless an enabling and a disabling operation on it overlapped or its first save
\* failed (AddJob, UpdateJob, EnableJob, DisableJob, RemoveJob, Start).
THEOREM ScheduleIsExact == CronSpec => []CronScheduleExact
<1>1. ScheduleInv => CronScheduleExact
  <2> SUFFICES ASSUME ScheduleInv, NEW k \in CronIds, CronAtRest(k), k \notin cronSkewed
               PROVE  IF Due(k) THEN HasEntry(k) ELSE cronEntries[k] = 0
    BY DEF CronScheduleExact, Due, HasEntry
  <2>1. JobExact(k)
    BY DEF ScheduleInv, CronAtRest
  <2>2. ~WillFit(k) /\ ~WillDrop(k)
    BY DEF CronAtRest, WillFit, WillDrop, SomeDoes, Does
  <2> QED BY <2>1, <2>2 DEF JobExact
<1> QED BY ScheduleInit, ScheduleStep, <1>1, PTL DEF CronSpec
=============================================================================
