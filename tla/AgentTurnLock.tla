---------------------------- MODULE AgentTurnLock ----------------------------
(***************************************************************************)
(* The locks that keep two turns of one Engine from writing the same agent *)
(* transcript (agent session id): the reference-counted lock table         *)
(* agentSessionTurns with one semaphore per id, and agentSessionBindMu,    *)
(* which a turn that does not know its id yet holds exclusively until its  *)
(* agent announces one (core/engine.go, agentSessionTurnGuard).            *)
(*                                                                         *)
(* The clients are the turns of the chats, the relay requests              *)
(* (HandleRelay), and the cron prompt runs (runCronIsolatedTurn); /attach, *)
(* /dir, /model and /effort change the id of a session under them.         *)
(***************************************************************************)
EXTENDS Naturals, FiniteSets

CONSTANTS
  Chats,        \* local sessions of chats; each runs one turn at a time (ChatTurns)
  Relays,       \* relay requests: they share one session that nothing serializes
  Crons,        \* cron prompt jobs
  RelaySession, \* the session of the relay requests
  Ids,          \* agent session ids; every fresh agent process takes a new one
  Locks,        \* agentSessionTurnLock objects
  MaxEdits,     \* bound on /attach, /dir, /model and /effort
  None

Actors == Chats \cup Relays \cup Crons
Sessions == Chats \cup {RelaySession}

ASSUME ActorAssumption ==
  /\ Chats \cap Relays = {} /\ Chats \cap Crons = {} /\ Relays \cap Crons = {}
  /\ IsFiniteSet(Actors)
  /\ RelaySession \notin Chats
  /\ None \notin Actors \cup Ids \cup Locks
  /\ MaxEdits \in Nat

VARIABLES
  pc,      \* where each turn is
  sess,    \* the session it works on
  key,     \* the id whose lock it wants, or has
  lock,    \* the lock object it has retained
  file,    \* the transcript that its agent process writes
  id,      \* Session.AgentSessionID
  live,    \* transcript of the live agent process of a chat
  job,     \* CronJob.AgentSessionID
  disk,    \* the transcripts that exist (ListAllSessions)
  seen,    \* those whose process reports them as CurrentSessionID
  bind,    \* the exclusive holder of agentSessionBindMu
  readers, \* its shared holders
  table,   \* agentSessionTurns
  refs,    \* agentSessionTurnLock.refs
  sem,     \* who filled agentSessionTurnLock.sem
  edits    \* what is left of MaxEdits

mutex    == <<bind, readers>>
locks    == <<lock, table, refs, sem>>
sessions == <<id, live, job, edits>>
store    == <<disk, seen>>
vars     == <<pc, sess, key, file, mutex, locks, sessions, store>>

WaitLabels == {"wantBind", "wantShared", "wantSem", "wait1", "wait2"}
Labels == {"idle", "retain", "start", "started", "bind1", "toSend", "sent", "bind2",
           "ending", "unref"} \cup WaitLabels

Init ==
  /\ pc = [a \in Actors |-> "idle"]
  /\ sess = [a \in Actors |-> RelaySession]
  /\ key = [a \in Actors |-> None]
  /\ lock = [a \in Actors |-> None]
  /\ file = [a \in Actors |-> None]
  /\ id = [s \in Sessions |-> None]
  /\ live = [s \in Chats |-> None]
  /\ job = [c \in Crons |-> None]
  /\ disk = {} /\ seen = {}
  /\ bind = None /\ readers = {}
  /\ table = [i \in Ids |-> None]
  /\ refs = [l \in Locks |-> 0]
  /\ sem = [l \in Locks |-> None]
  /\ edits = MaxEdits

HoldsSem(a) == lock[a] # None /\ sem[lock[a]] = a

-----------------------------------------------------------------------------
(* The lock table.                                                         *)

\* retainAgentSessionTurnLock.  An object without references is garbage: the new
\* one may be any of those.
RetainLock(a, i) ==
  \/ /\ table[i] # None
     /\ lock' = [lock EXCEPT ![a] = table[i]]
     /\ refs' = [refs EXCEPT ![table[i]] = @ + 1]
     /\ UNCHANGED <<table, sem>>
  \/ /\ table[i] = None
     /\ \E l \in Locks :
          /\ refs[l] = 0
          /\ lock' = [lock EXCEPT ![a] = l]
          /\ table' = [table EXCEPT ![i] = l]
          /\ refs' = [refs EXCEPT ![l] = 1]
          /\ sem' = [sem EXCEPT ![l] = None]

\* Mutant of ReleaseRef: the entry goes with the first reference.
ReleaseRef_DeletesEarly(a) ==
  /\ refs' = [refs EXCEPT ![lock[a]] = @ - 1]
  /\ table' = [table EXCEPT ![key[a]] = None]
  /\ lock' = [lock EXCEPT ![a] = None]
  /\ UNCHANGED sem

\* releaseAgentSessionTurnRef: the entry goes with the last reference.
ReleaseRef(a) ==
  /\ refs' = [refs EXCEPT ![lock[a]] = @ - 1]
  /\ table' = IF refs[lock[a]] = 1 THEN [table EXCEPT ![key[a]] = None] ELSE table
  /\ lock' = [lock EXCEPT ![a] = None]
  /\ UNCHANGED sem

\* agentSessionBindMu.Unlock(), if the guard still has it
ReleaseBind(a) == bind' = IF bind = a THEN None ELSE bind

-----------------------------------------------------------------------------
(* lockAgentSessionTurn, and what runCronIsolatedTurn does in its place.   *)

\* A chat session is busy while its turn or a cron run in its chat goes on.
Busy(c) == pc[c] # "idle" \/ \E k \in Crons : pc[k] # "idle" /\ sess[k] = c

\* agentSessionTurnIdentity: an id decides whether the turn is known or fresh.
BeginTurn(a) ==
  /\ pc[a] = "idle" /\ a \in Chats \cup Relays
  /\ a \in Chats => ~Busy(a)
  /\ LET s == IF a \in Chats THEN a ELSE RelaySession
     IN /\ sess' = [sess EXCEPT ![a] = s]
        /\ key' = [key EXCEPT ![a] = id[s]]
        /\ pc' = [pc EXCEPT ![a] = IF id[s] = None THEN "wantBind" ELSE "wantShared"]
  /\ UNCHANGED <<file, mutex, locks, sessions, store>>

\* A cron run resumes its own id, at first the one of its chat, unless the job wants
\* a new session per run.  It takes no part in agentSessionBindMu, and no lock at all
\* without an id.
BeginCron(k) ==
  /\ pc[k] = "idle" /\ k \in Crons
  /\ \E c \in Chats, newPerRun \in BOOLEAN :
       LET resume == IF newPerRun THEN None
                     ELSE IF job[k] # None THEN job[k] ELSE id[c]
       IN /\ ~Busy(c)
          /\ sess' = [sess EXCEPT ![k] = c]
          /\ key' = [key EXCEPT ![k] = resume]
          /\ pc' = [pc EXCEPT ![k] = IF resume = None THEN "start" ELSE "retain"]
  /\ UNCHANGED <<file, mutex, locks, sessions, store>>

\* lockAgentSessionBind(ctx, true)
LockBind(a) ==
  /\ pc[a] = "wantBind" /\ bind = None /\ readers = {}
  /\ bind' = a
  /\ pc' = [pc EXCEPT ![a] = "start"]
  /\ UNCHANGED <<readers, sess, key, file, locks, sessions, store>>

\* lockAgentSessionBind(ctx, false)
LockShared(a) ==
  /\ pc[a] = "wantShared" /\ bind = None
  /\ readers' = readers \cup {a}
  /\ pc' = [pc EXCEPT ![a] = "retain"]
  /\ UNCHANGED <<bind, sess, key, file, locks, sessions, store>>

\* retain the lock of the id, then agentSessionBindMu.RUnlock()
Retain(a) ==
  /\ pc[a] = "retain"
  /\ RetainLock(a, key[a])
  /\ readers' = readers \ {a}
  /\ pc' = [pc EXCEPT ![a] = "wantSem"]
  /\ UNCHANGED <<bind, sess, key, file, sessions, store>>

\* waitAgentSessionTurnLock: lock.sem <- struct{}{}
TakeSem(a) ==
  /\ pc[a] \in {"wantSem", "wait1", "wait2"} /\ sem[lock[a]] = None
  /\ sem' = [sem EXCEPT ![lock[a]] = a]
  /\ pc' = [pc EXCEPT ![a] = IF @ = "wantSem" THEN "start"
                            ELSE IF @ = "wait1" THEN "toSend" ELSE "sent"]
  /\ UNCHANGED <<lock, table, refs, sess, key, file, mutex, sessions, store>>

\* Mutant of CancelWait: the reference of a cancelled waiter is not given back.
CancelWait_KeepsRef(a) ==
  /\ pc[a] \in WaitLabels /\ a \notin Chats
  /\ lock' = [lock EXCEPT ![a] = None]
  /\ pc' = [pc EXCEPT ![a] = "idle"]
  /\ file' = [file EXCEPT ![a] = None]
  /\ UNCHANGED <<table, refs, sem, sess, key, mutex, sessions, store>>

\* The context of a relay request or cron run ends while it waits for a lock.
CancelWait(a) ==
  /\ pc[a] \in WaitLabels /\ a \notin Chats
  /\ IF lock[a] = None THEN UNCHANGED locks ELSE ReleaseRef(a)
  /\ pc' = [pc EXCEPT ![a] = "idle"]
  /\ file' = [file EXCEPT ![a] = None]
  /\ UNCHANGED <<sess, key, mutex, sessions, store>>

-----------------------------------------------------------------------------
(* The turn under its lock.                                                *)

\* The id that the agent process is started with: read again, after the wait.
Resumed(a) == IF a \in Crons THEN key[a] ELSE id[sess[a]]

\* The ids that no fresh process can get.
Used == disk \cup {live[c] : c \in Chats} \cup {file[a] : a \in Actors}

\* A chat reuses its live process; a process that resumes an id reports it from the
\* start (CurrentSessionID), a fresh one with its first event.
StartAgent(a) ==
  /\ pc[a] = "start"
  /\ \/ /\ a \in Chats /\ live[a] # None
        /\ file' = [file EXCEPT ![a] = live[a]]
        /\ UNCHANGED <<live, store>>
     \/ /\ a \in Chats => live[a] = None
        /\ \E i \in Ids :
             /\ i = Resumed(a) \/ (Resumed(a) = None /\ i \notin Used)
             /\ file' = [file EXCEPT ![a] = i]
             /\ seen' = IF i = Resumed(a) THEN seen \cup {i} ELSE seen
             /\ live' = [c \in Chats |-> IF c = a THEN i ELSE live[c]]
             /\ UNCHANGED disk
  /\ pc' = [pc EXCEPT ![a] = "started"]
  /\ UNCHANGED <<sess, key, mutex, locks, id, job, edits>>

\* A failure takes the process of the chat (cleanupInteractiveTurn), and perhaps the id
\* of its session with it; a cron job drops the id that it could not resume.
Fails(a) ==
  \/ /\ a \in Chats /\ live[a] = file[a]
     /\ live' = [live EXCEPT ![a] = None]
     /\ id' \in {id, [id EXCEPT ![sess[a]] = None]}
     /\ UNCHANGED job
  \/ /\ a \in Crons
     /\ job' = [job EXCEPT ![a] = None]
     /\ UNCHANGED <<id, live>>

\* The agent does not start, or Send fails.
TurnAborts(a) ==
  /\ pc[a] \in {"start", "toSend"}
  /\ pc' = [pc EXCEPT ![a] = "ending"]
  /\ Fails(a) \/ UNCHANGED <<id, live, job>>
  /\ UNCHANGED <<sess, key, file, mutex, locks, edits, store>>

\* Send finds the process dead: the turn starts another one, under the same guard.
\* (It does so once; how often does not matter here.)
Restarts(a) ==
  /\ pc[a] = "toSend" /\ a \in Chats /\ live[a] \in {file[a], None}
  /\ live' = [live EXCEPT ![a] = None]
  /\ pc' = [pc EXCEPT ![a] = "start"]
  /\ UNCHANGED <<sess, key, file, mutex, locks, id, job, edits, store>>

\* bindAgentSessionID with the id the process reports: before Send if it is known,
\* else with an event of the turn.  A session that has an id keeps it.
BindId(a) ==
  /\ a \notin Crons
  /\ \/ pc[a] = "started" /\ file[a] \in seen
     \/ pc[a] = "sent" /\ (~HoldsSem(a) \/ id[sess[a]] = None)
  /\ seen' = seen \cup {file[a]}
  /\ id' = [id EXCEPT ![sess[a]] = IF @ = None THEN file[a] ELSE @]
  /\ pc' = [pc EXCEPT ![a] = IF @ = "started" THEN "bind1" ELSE "bind2"]
  /\ UNCHANGED <<sess, key, file, mutex, locks, live, job, edits, disk>>

\* agentSessionTurnGuard.Bind: nothing if the turn has a lock; else retain the lock
\* of the id, give agentSessionBindMu back, and wait for the semaphore.
GuardBind(a) ==
  /\ pc[a] \in {"bind1", "bind2"}
  /\ IF HoldsSem(a)
       THEN /\ pc' = [pc EXCEPT ![a] = IF @ = "bind1" THEN "toSend" ELSE "sent"]
            /\ UNCHANGED <<key, bind, locks>>
       ELSE /\ RetainLock(a, file[a])
            /\ key' = [key EXCEPT ![a] = file[a]]
            /\ ReleaseBind(a)
            /\ pc' = [pc EXCEPT ![a] = IF @ = "bind1" THEN "wait1" ELSE "wait2"]
  /\ UNCHANGED <<sess, file, readers, sessions, store>>

\* Bind("") changes nothing; a cron run binds nothing.
NothingToBind(a) ==
  /\ pc[a] = "started" /\ (a \in Crons \/ file[a] \notin seen)
  /\ pc' = [pc EXCEPT ![a] = "toSend"]
  /\ UNCHANGED <<sess, key, file, mutex, locks, sessions, store>>

\* The first prompt creates the transcript.
Send(a) ==
  /\ pc[a] = "toSend"
  /\ disk' = disk \cup {file[a]}
  /\ pc' = [pc EXCEPT ![a] = "sent"]
  /\ UNCHANGED <<sess, key, file, mutex, locks, sessions, seen>>

\* The turn ends: with a result, which reports the id of the process, or with a
\* failure.  A cron run records the last id of its agent.
TurnEnds(a) ==
  /\ pc[a] = "sent"
  /\ pc' = [pc EXCEPT ![a] = "ending"]
  /\ \/ /\ a \in Chats /\ live[a] = file[a] => file[a] \in seen
        /\ UNCHANGED <<id, live, job>>
     \/ Fails(a)
     \/ /\ a \in Crons
        /\ job' = [job EXCEPT ![a] = file[a]]
        /\ UNCHANGED <<id, live>>
  /\ UNCHANGED <<sess, key, file, mutex, locks, edits, store>>

\* Mutants of Unlock: the semaphore, or agentSessionBindMu, is not given back.
Unlock_KeepsSem(a) ==
  /\ pc[a] = "ending"
  /\ pc' = [pc EXCEPT ![a] = IF HoldsSem(a) THEN "unref" ELSE "idle"]
  /\ file' = [file EXCEPT ![a] = None]
  /\ ReleaseBind(a)
  /\ UNCHANGED <<sem, lock, table, refs, sess, key, readers, sessions, store>>

\* agentSessionTurnGuard.Unlock: drain the semaphore, or release agentSessionBindMu.
Unlock(a) ==
  /\ pc[a] = "ending"
  /\ IF HoldsSem(a) THEN /\ sem' = [sem EXCEPT ![lock[a]] = None]
                         /\ pc' = [pc EXCEPT ![a] = "unref"]
                    ELSE /\ pc' = [pc EXCEPT ![a] = "idle"]
                         /\ UNCHANGED sem
  /\ file' = [file EXCEPT ![a] = None]
  /\ ReleaseBind(a)
  /\ UNCHANGED <<lock, table, refs, sess, key, readers, sessions, store>>

\* ... and give the reference back.
Unref(a) ==
  /\ pc[a] = "unref"
  /\ ReleaseRef(a)
  /\ pc' = [pc EXCEPT ![a] = "idle"]
  /\ UNCHANGED <<sess, key, file, mutex, sessions, store>>

-----------------------------------------------------------------------------
(* Commands that change the id of a session; they look at no lock.         *)

\* attachSessionByID: unless the live process of another chat reports the id.
Attach(c, i) ==
  /\ edits > 0 /\ i \in disk /\ id[c] # i
  /\ ~\E d \in Chats \ {c} : live[d] = i /\ i \in seen
  /\ id' = [id EXCEPT ![c] = i]
  /\ live' = [live EXCEPT ![c] = None]
  /\ edits' = edits - 1
  /\ UNCHANGED <<pc, sess, key, file, mutex, locks, job, store>>

\* cmdDir, cmdModel, cmdEffort
Reset(c) ==
  /\ edits > 0
  /\ id' = [id EXCEPT ![c] = None]
  /\ live' = [live EXCEPT ![c] = None]
  /\ edits' = edits - 1
  /\ UNCHANGED <<pc, sess, key, file, mutex, locks, job, store>>

Step(a) ==
  \/ LockBind(a) \/ LockShared(a) \/ Retain(a)
  \/ StartAgent(a) \/ TurnAborts(a) \/ Restarts(a) \/ BindId(a) \/ GuardBind(a)
  \/ NothingToBind(a) \/ Send(a) \/ TurnEnds(a) \/ Unlock(a) \/ Unref(a)

Next == \/ \E a \in Actors : \/ BeginTurn(a) \/ BeginCron(a) \/ CancelWait(a)
                             \/ Step(a) \/ TakeSem(a)
        \/ \E c \in Chats : Reset(c) \/ \E i \in Ids : Attach(c, i)

Spec == Init /\ [][Next]_vars

\* A turn that can go on does, and ends; the runtime serves blocked channel senders in
\* FIFO order, which makes the semaphores strongly fair.
FairSpec ==
  /\ Spec
  /\ \A a \in Actors : WF_vars(Step(a)) /\ SF_vars(TakeSem(a))

-----------------------------------------------------------------------------
(* Correctness.                                                            *)

\* Every variable has its type.
TypeOK ==
  /\ pc \in [Actors -> Labels]
  /\ sess \in [Actors -> Sessions]
  /\ key \in [Actors -> Ids \cup {None}]
  /\ lock \in [Actors -> Locks \cup {None}]
  /\ file \in [Actors -> Ids \cup {None}]
  /\ id \in [Sessions -> Ids \cup {None}]
  /\ live \in [Chats -> Ids \cup {None}]
  /\ job \in [Crons -> Ids \cup {None}]
  /\ disk \in SUBSET Ids /\ seen \in SUBSET Ids
  /\ bind \in Actors \cup {None} /\ readers \in SUBSET Actors
  /\ table \in [Ids -> Locks \cup {None}]
  /\ refs \in [Locks -> Nat]
  /\ sem \in [Locks -> Actors \cup {None}]
  /\ edits \in Nat

\* However turns come, are cancelled and end, and entries are deleted and made
\* again: two turns never hold the lock of one id, through one object or two.
TurnLockExclusive ==
  \A a, b \in Actors : HoldsSem(a) /\ HoldsSem(b) /\ key[a] = key[b] => a = b

\* A lock object counts the turns that retained it, and stays in the table until
\* none is left: no waiter is stranded on an object that new turns do not find, and
\* no entry leaks.
Retainers(l) == {a \in Actors : lock[a] = l}
LockTableExact ==
  /\ \A l \in Locks : refs[l] = Cardinality(Retainers(l))
  /\ \A a \in Actors : lock[a] # None => table[key[a]] = lock[a]
  /\ \A i \in Ids : table[i] # None => refs[table[i]] > 0

\* The turn's process is at work on its transcript; closing the process of a chat
\* (cleanupInteractiveState) stops it.
Writing(a) == /\ pc[a] \in {"sent", "bind2", "wait2"}
              /\ a \in Chats => live[a] = file[a]
Overlap(a, b) == a # b /\ Writing(a) /\ Writing(b) /\ file[a] = file[b]

\* "Block known-ID turns so no one can race it": while a fresh turn holds
\* agentSessionBindMu, no turn that took the lock of its transcript's id writes
\* there.  Cron runs do: they skip agentSessionBindMu.  So does a turn that /attach
\* moved to this id after it had taken the lock of another one.
KnownTurnsBlocked ==
  \A a, b \in Actors : bind = a /\ Overlap(a, b) => b \in Crons \/ key[b] # file[b]

\* The guard "downgrades to a per-ID lock as soon as Bind sees the real ID", so that
\* no known-ID turn can race a fresh one: turns never write one transcript at once.
SingleWriter == \A a, b \in Actors : ~Overlap(a, b)

\* Turns of relay requests and of chats whose ids nobody edits overlap only while
\* one of them is inside Bind.
OverlapOnlyInBind ==
  edits = MaxEdits =>
    \A a, b \in Actors \ Crons : Overlap(a, b) => "wait2" \in {pc[a], pc[b]}

\* A turn that waits for the semaphore of an id gets it: no cycle through
\* agentSessionBindMu, which Bind gives back before it waits.
SemWaitersServed ==
  \A a \in Actors : pc[a] \in {"wantSem", "wait1", "wait2"} ~>
                      pc[a] \notin {"wantSem", "wait1", "wait2"}

\* A fresh turn gives agentSessionBindMu back, so it cannot keep all known turns
\* of the engine out for ever.
BindReleased == \A a \in Actors : bind = a ~> bind # a
=============================================================================
