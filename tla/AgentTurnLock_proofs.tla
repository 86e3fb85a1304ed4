------------------------ MODULE AgentTurnLock_proofs ------------------------
(***************************************************************************)
(* The lock table of AgentTurnLock is exact and its locks are exclusive,   *)
(* for any number of turns, ids and lock objects.                          *)
(***************************************************************************)
EXTENDS AgentTurnLock, FiniteSetTheorems, TLAPS

Retaining == {"wantSem", "wait1", "wait2", "unref"}
Unlocked  == {"idle", "wantBind", "wantShared", "retain"}
WithAgent == {"started", "bind1", "wait1", "toSend", "sent", "bind2", "wait2"}

\* The types of what the table is made of.
TableTypes ==
  /\ key \in [Actors -> Ids \cup {None}]
  /\ lock \in [Actors -> Locks \cup {None}]
  /\ table \in [Ids -> Locks \cup {None}]
  /\ refs \in [Locks -> Nat]
  /\ sem \in [Locks -> Actors \cup {None}]

RefsCounted == \A l \in Locks : refs[l] = Cardinality(Retainers(l))
LockFound   == \A a \in Actors : lock[a] # None => key[a] \in Ids /\ table[key[a]] = lock[a]
EntryUsed   == \A i \in Ids : table[i] # None => refs[table[i]] > 0
EntriesDiffer == \A i, j \in Ids : table[i] = table[j] /\ table[i] # None => i = j
SemRetained == \A l \in Locks : sem[l] # None => lock[sem[l]] = l

\* The data of the locks is consistent, whatever the turns are doing.
TableInv == /\ TableTypes
            /\ RefsCounted /\ LockFound /\ EntryUsed /\ EntriesDiffer /\ SemRetained

\* What a turn holds at each place of its way.
TurnInv(a) ==
  /\ pc[a] \in Retaining => lock[a] # None /\ ~HoldsSem(a)
  /\ pc[a] \in Unlocked => lock[a] = None
  /\ pc[a] \notin Retaining => lock[a] = None \/ HoldsSem(a)
  /\ pc[a] \in {"wantShared", "retain"} => key[a] \in Ids
  /\ pc[a] \in WithAgent => file[a] \in Ids

IInv == TypeOK /\ TableInv /\ \A a \in Actors : TurnInv(a)

-----------------------------------------------------------------------------
(* The two operations on the table.                                        *)

LEMMA RetainersFinite ==
  ASSUME NEW l
  PROVE  IsFiniteSet(Retainers(l)) /\ IsFiniteSet(Retainers(l)')
<1>1. IsFiniteSet(Actors)
  BY ActorAssumption
<1>2. Retainers(l) \subseteq Actors /\ Retainers(l)' \subseteq Actors
  BY DEF Retainers
<1> QED
  BY <1>1, <1>2, FS_Subset

\* A reference count of zero means that nobody has the lock object.
LEMMA NoRefsNoRetainers ==
  ASSUME TableInv, NEW l \in Locks, refs[l] = 0, NEW a \in Actors
  PROVE  lock[a] # l
<1>1. Cardinality(Retainers(l)) = 0
  BY DEF TableInv, RefsCounted
<1>2. Retainers(l) = {}
  BY <1>1, RetainersFinite, FS_EmptySet
<1> QED
  BY <1>2 DEF Retainers

\* Retaining the lock of an id keeps the table consistent.
LEMMA RetainKeeps ==
  ASSUME TableInv, NEW a \in Actors, NEW i \in Ids, lock[a] = None,
         RetainLock(a, i), key' = [key EXCEPT ![a] = i]
  PROVE  /\ TableInv'
         /\ lock'[a] \in Locks /\ sem'[lock'[a]] # a
         /\ \A b \in Actors \ {a} : lock'[b] = lock[b]
         /\ \A b \in Actors : lock[b] # None => sem'[lock[b]] = sem[lock[b]]
<1> USE ActorAssumption
<1>0. None \notin Locks /\ None \notin Ids /\ None \notin Actors
  OBVIOUS
<1>1. PICK l \in Locks :
        /\ lock' = [lock EXCEPT ![a] = l]
        /\ refs' = [refs EXCEPT ![l] = @ + 1]
        /\ table' = [table EXCEPT ![i] = l]
        /\ sem' = IF table[i] = None THEN [sem EXCEPT ![l] = None] ELSE sem
        /\ table[i] = None => refs[l] = 0
        /\ table[i] # None => l = table[i]
  <2>1. CASE table[i] # None
    BY <2>1 DEF RetainLock, TableInv, TableTypes
  <2>2. CASE table[i] = None
    BY <2>2 DEF RetainLock, TableInv, TableTypes
  <2> QED
    BY <2>1, <2>2
<1>2. table[i] = None => \A b \in Actors : lock[b] # l
  BY <1>1, NoRefsNoRetainers
<1>3. sem[l] # a
  BY <1>0 DEF TableInv, TableTypes, SemRetained
<1>4. TableTypes'
  BY <1>1 DEF TableInv, TableTypes
<1>5. RefsCounted'
  <2> SUFFICES ASSUME NEW m \in Locks
               PROVE  refs'[m] = Cardinality(Retainers(m)')
    BY DEF RefsCounted
  <2>1. CASE m = l
    <3>1. Retainers(l)' = Retainers(l) \cup {a} /\ a \notin Retainers(l)
      BY <1>0, <1>1 DEF Retainers, TableInv, TableTypes
    <3>2. Cardinality(Retainers(l)') = Cardinality(Retainers(l)) + 1
      BY <3>1, RetainersFinite, FS_AddElement
    <3> QED
      BY <1>1, <2>1, <3>2 DEF TableInv, TableTypes, RefsCounted
  <2>2. CASE m # l
    <3>1. Retainers(m)' = Retainers(m)
      BY <1>0, <1>1, <2>2 DEF Retainers, TableInv, TableTypes
    <3> QED
      BY <1>1, <2>2, <3>1 DEF TableInv, TableTypes, RefsCounted
  <2> QED
    BY <2>1, <2>2
<1>6. LockFound'
  BY <1>0, <1>1 DEF TableInv, TableTypes, LockFound
<1>7. EntryUsed'
  BY <1>0, <1>1 DEF TableInv, TableTypes, EntryUsed
<1>8. EntriesDiffer'
  <2>1. table[i] = None => \A j \in Ids : table[j] # l
    BY <1>0, <1>1 DEF TableInv, TableTypes, EntryUsed
  <2> QED
    BY <1>0, <1>1, <2>1 DEF TableInv, TableTypes, EntriesDiffer
<1>9. SemRetained'
  <2> SUFFICES ASSUME NEW m \in Locks, sem'[m] # None
               PROVE  lock'[sem'[m]] = m
    BY DEF SemRetained
  <2>1. sem'[m] = sem[m]
    BY <1>1 DEF TableInv, TableTypes
  <2>2. sem[m] \in Actors /\ lock[sem[m]] = m
    BY <2>1 DEF TableInv, TableTypes, SemRetained
  <2>3. sem[m] # a
    BY <1>0, <2>2
  <2> QED
    BY <1>1, <2>1, <2>2, <2>3 DEF TableInv, TableTypes
<1>10. /\ lock'[a] \in Locks /\ sem'[lock'[a]] # a
       /\ \A b \in Actors \ {a} : lock'[b] = lock[b]
  BY <1>0, <1>1, <1>3 DEF TableInv, TableTypes
<1>11. \A b \in Actors : lock[b] # None => sem'[lock[b]] = sem[lock[b]]
  BY <1>1, <1>2 DEF TableInv, TableTypes
<1> QED
  BY <1>4, <1>5, <1>6, <1>7, <1>8, <1>9, <1>10, <1>11 DEF TableInv

\* Giving a reference back keeps the table consistent.
LEMMA ReleaseKeeps ==
  ASSUME TableInv, NEW a \in Actors, lock[a] # None, ~HoldsSem(a),
         ReleaseRef(a), UNCHANGED key
  PROVE  /\ TableInv'
         /\ lock'[a] = None
         /\ \A b \in Actors \ {a} : lock'[b] = lock[b]
         /\ sem' = sem
<1> USE ActorAssumption
<1>0. None \notin Locks /\ None \notin Ids /\ None \notin Actors
  OBVIOUS
<1>l. PICK l \in Locks : l = lock[a]
  BY DEF TableInv, TableTypes
<1>1. /\ key[a] \in Ids /\ table[key[a]] = l
      /\ refs[l] \in Nat /\ refs[l] > 0
  BY <1>0, <1>l DEF TableInv, TableTypes, LockFound, EntryUsed
<1>2. /\ lock' = [lock EXCEPT ![a] = None]
      /\ refs' = [refs EXCEPT ![l] = @ - 1]
      /\ table' = IF refs[l] = 1 THEN [table EXCEPT ![key[a]] = None] ELSE table
      /\ sem' = sem
  BY <1>l DEF ReleaseRef
<1>3. TableTypes'
  BY <1>0, <1>l, <1>1, <1>2 DEF TableInv, TableTypes
<1>4. a \in Retainers(l)
  BY <1>l DEF Retainers
<1>5. Retainers(l)' = Retainers(l) \ {a}
  BY <1>0, <1>l, <1>2 DEF Retainers, TableInv, TableTypes
<1>6. Cardinality(Retainers(l)') = refs[l] - 1
  <2>1. Cardinality(Retainers(l)') = Cardinality(Retainers(l)) - 1
    BY <1>4, <1>5, RetainersFinite, FS_RemoveElement
  <2> QED
    BY <1>0, <1>l, <2>1 DEF TableInv, RefsCounted
<1>7. RefsCounted'
  <2> SUFFICES ASSUME NEW m \in Locks
               PROVE  refs'[m] = Cardinality(Retainers(m)')
    BY DEF RefsCounted
  <2>1. CASE m = l
    BY <1>2, <1>6, <2>1 DEF TableInv, TableTypes
  <2>2. CASE m # l
    <3>1. Retainers(m)' = Retainers(m)
      BY <1>0, <1>l, <1>2, <2>2 DEF Retainers, TableInv, TableTypes
    <3> QED
      BY <1>2, <2>2, <3>1 DEF TableInv, TableTypes, RefsCounted
  <2> QED
    BY <2>1, <2>2
<1>8. LockFound'
  <2> SUFFICES ASSUME NEW b \in Actors, lock'[b] # None
               PROVE  key'[b] \in Ids /\ table'[key'[b]] = lock'[b]
    BY DEF LockFound
  <2>1. b # a /\ lock'[b] = lock[b] /\ key'[b] = key[b]
    BY <1>2 DEF TableInv, TableTypes
  <2>2. key[b] \in Ids /\ table[key[b]] = lock[b]
    BY <2>1 DEF TableInv, LockFound
  <2>3. CASE refs[l] # 1
    BY <1>2, <2>1, <2>2, <2>3
  <2>4. CASE refs[l] = 1
    <3>1. Retainers(l)' = {}
      BY <1>6, <2>4, RetainersFinite, FS_EmptySet
    <3>2. lock[b] # l
      BY <2>1, <3>1 DEF Retainers
    <3>3. key[b] # key[a]
      BY <1>1, <2>2, <3>2
    <3> QED
      BY <1>1, <1>2, <2>1, <2>2, <3>3 DEF TableInv, TableTypes
  <2> QED
    BY <2>3, <2>4
<1>9. EntryUsed'
  <2> SUFFICES ASSUME NEW i \in Ids, table'[i] # None
               PROVE  refs'[table'[i]] > 0
    BY DEF EntryUsed
  <2>1. table'[i] = table[i] /\ table[i] \in Locks /\ refs[table[i]] > 0
    BY <1>0, <1>l, <1>1, <1>2 DEF TableInv, TableTypes, EntryUsed
  <2>2. table[i] = l => refs[l] # 1
    BY <1>0, <1>l, <1>1, <1>2 DEF TableInv, TableTypes, EntriesDiffer
  <2> QED
    BY <1>1, <1>2, <2>1, <2>2 DEF TableInv, TableTypes
<1>10. EntriesDiffer'
  BY <1>0, <1>l, <1>1, <1>2 DEF TableInv, TableTypes, EntriesDiffer
<1>11. SemRetained'
  BY <1>0, <1>l, <1>2 DEF TableInv, TableTypes, SemRetained, HoldsSem
<1> QED
  BY <1>2, <1>3, <1>7, <1>8, <1>9, <1>10, <1>11 DEF TableInv, TableTypes

-----------------------------------------------------------------------------
(* The steps of the turns.                                                 *)

\* A step that leaves the locks alone keeps the table consistent, even if it sets
\* the id that a turn without a lock is interested in.
LEMMA LocksUntouched ==
  ASSUME TableInv, UNCHANGED locks, key' \in [Actors -> Ids \cup {None}],
         \A b \in Actors : lock[b] # None => key'[b] = key[b]
  PROVE  TableInv'
<1>1. \A l \in Locks : Retainers(l)' = Retainers(l)
  BY DEF Retainers, locks
<1>2. RefsCounted'
  BY <1>1 DEF TableInv, RefsCounted, locks
<1> QED
  BY <1>2 DEF TableInv, TableTypes, LockFound, EntryUsed, EntriesDiffer, SemRetained, locks

\* A step of turn a changes nothing for another turn.
LEMMA OthersUntouched ==
  ASSUME NEW a, NEW b \in Actors, a # b, TurnInv(b),
         pc'[b] = pc[b], key'[b] = key[b], file'[b] = file[b], lock'[b] = lock[b],
         lock[b] # None => (sem'[lock[b]] = b <=> sem[lock[b]] = b)
  PROVE  TurnInv(b)'
BY DEF TurnInv, HoldsSem

LEMMA InitIInv == Init => IInv
<1> SUFFICES ASSUME Init PROVE IInv
  OBVIOUS
<1> USE ActorAssumption
<1>1. TypeOK
  BY DEF Init, TypeOK, Labels, Sessions
<1>2. \A l \in Locks : Retainers(l) = {}
  BY DEF Init, Retainers
<1>3. RefsCounted
  BY <1>2, FS_EmptySet DEF Init, RefsCounted
<1>4. TableInv
  BY <1>1, <1>3 DEF Init, TypeOK, TableInv, TableTypes, LockFound, EntryUsed,
                    EntriesDiffer, SemRetained
<1>5. \A a \in Actors : TurnInv(a)
  BY DEF Init, TurnInv, Retaining, Unlocked, WithAgent, HoldsSem
<1> QED
  BY <1>1, <1>4, <1>5 DEF IInv

\* Turns that neither retain nor release a lock, nor fill or drain a semaphore.
LEMMA QuietStep ==
  ASSUME IInv, NEW a \in Actors,
         \/ BeginTurn(a) \/ BeginCron(a) \/ LockBind(a) \/ LockShared(a)
         \/ StartAgent(a) \/ TurnAborts(a) \/ Restarts(a) \/ BindId(a) \/ NothingToBind(a)
         \/ Send(a) \/ TurnEnds(a)
  PROVE  IInv'
<1> USE ActorAssumption DEF IInv
<1> USE DEF Labels, WaitLabels, Sessions, mutex, locks, sessions, store,
            Retaining, Unlocked, WithAgent
<1>1. CASE BeginTurn(a)
  <2>1. TypeOK'
    BY <1>1 DEF BeginTurn, TypeOK
  <2>2. TableInv'
    BY <1>1, <2>1, LocksUntouched DEF BeginTurn, TypeOK, TurnInv
  <2>3. TurnInv(a)'
    BY <1>1 DEF BeginTurn, TypeOK, TurnInv, HoldsSem
  <2>4. \A b \in Actors \ {a} : TurnInv(b)'
    BY <1>1, OthersUntouched DEF BeginTurn, TypeOK
  <2> QED
    BY <2>1, <2>2, <2>3, <2>4
<1>2. CASE BeginCron(a)
  <2>1. TypeOK'
    BY <1>2 DEF BeginCron, TypeOK
  <2>2. TableInv'
    BY <1>2, <2>1, LocksUntouched DEF BeginCron, TypeOK, TurnInv
  <2>3. TurnInv(a)'
    BY <1>2 DEF BeginCron, TypeOK, TurnInv, HoldsSem
  <2>4. \A b \in Actors \ {a} : TurnInv(b)'
    BY ZenonT(40), <1>2, OthersUntouched DEF BeginCron, TypeOK
  <2> QED
    BY <2>1, <2>2, <2>3, <2>4
<1>3. CASE LockBind(a)
  <2>1. TypeOK'
    BY <1>3 DEF LockBind, TypeOK
  <2>2. TableInv'
    BY <1>3, <2>1, LocksUntouched DEF LockBind, TypeOK
  <2>3. TurnInv(a)'
    BY <1>3 DEF LockBind, TypeOK, TurnInv, HoldsSem
  <2>4. \A b \in Actors \ {a} : TurnInv(b)'
    BY <1>3, OthersUntouched DEF LockBind, TypeOK
  <2> QED
    BY <2>1, <2>2, <2>3, <2>4
<1>4. CASE LockShared(a)
  <2>1. TypeOK'
    BY <1>4 DEF LockShared, TypeOK
  <2>2. TableInv'
    BY <1>4, <2>1, LocksUntouched DEF LockShared, TypeOK
  <2>3. TurnInv(a)'
    <3>1. key[a] \in Ids
      BY <1>4 DEF LockShared, TurnInv
    <3> QED
      BY <1>4, <3>1 DEF LockShared, TypeOK, TurnInv, HoldsSem
  <2>4. \A b \in Actors \ {a} : TurnInv(b)'
    BY <1>4, OthersUntouched DEF LockShared, TypeOK
  <2> QED
    BY <2>1, <2>2, <2>3, <2>4
<1>5. CASE StartAgent(a)
  <2>1. PICK i \in Ids : file' = [file EXCEPT ![a] = i]
    BY <1>5 DEF StartAgent, TypeOK
  <2>2. TypeOK'
    <3>1. /\ pc' = [pc EXCEPT ![a] = "started"]
          /\ UNCHANGED <<sess, key, mutex, locks, id, job, edits, disk>>
      BY <1>5 DEF StartAgent
    <3>2. live' \in [Chats -> Ids \cup {None}]
      BY <1>5 DEF StartAgent, TypeOK
    <3>3. seen' \in SUBSET Ids
      BY <1>5 DEF StartAgent, TypeOK
    <3>4. file' \in [Actors -> Ids \cup {None}]
      BY <2>1 DEF TypeOK
    <3> QED
      BY <3>1, <3>2, <3>3, <3>4 DEF TypeOK
  <2>3. TableInv'
    BY <1>5, <2>2, LocksUntouched DEF StartAgent, TypeOK
  <2>4. TurnInv(a)'
    BY <1>5, <2>1 DEF StartAgent, TypeOK, TurnInv, HoldsSem
  <2>5. \A b \in Actors \ {a} : TurnInv(b)'
    BY <1>5, <2>1, OthersUntouched DEF StartAgent, TypeOK
  <2> QED
    BY <2>2, <2>3, <2>4, <2>5
<1>6. CASE TurnAborts(a) \/ TurnEnds(a)
  <2>1. /\ pc' = [pc EXCEPT ![a] = "ending"] /\ pc[a] \in {"start", "toSend", "sent"}
        /\ UNCHANGED <<sess, key, file, mutex, locks, edits, store>>
    BY <1>6 DEF TurnAborts, TurnEnds
  <2>2. /\ id' \in [Sessions -> Ids \cup {None}]
        /\ live' \in [Chats -> Ids \cup {None}]
        /\ job' \in [Crons -> Ids \cup {None}]
    BY <1>6 DEF TurnAborts, TurnEnds, Fails, TypeOK
  <2>3. TypeOK'
    BY <2>1, <2>2 DEF TypeOK
  <2>4. TableInv'
    BY <2>1, <2>3, LocksUntouched DEF TypeOK
  <2>5. TurnInv(a)'
    BY <2>1 DEF TypeOK, TurnInv, HoldsSem
  <2>6. \A b \in Actors \ {a} : TurnInv(b)'
    BY <2>1, OthersUntouched DEF TypeOK
  <2> QED
    BY <2>3, <2>4, <2>5, <2>6
<1>7. CASE NothingToBind(a)
  <2>1. TypeOK'
    BY <1>7 DEF NothingToBind, TypeOK
  <2>2. TableInv'
    BY <1>7, <2>1, LocksUntouched DEF NothingToBind, TypeOK
  <2>3. TurnInv(a)'
    BY <1>7 DEF NothingToBind, TypeOK, TurnInv, HoldsSem
  <2>4. \A b \in Actors \ {a} : TurnInv(b)'
    BY <1>7, OthersUntouched DEF NothingToBind, TypeOK
  <2> QED
    BY <2>1, <2>2, <2>3, <2>4
<1>8. CASE Send(a)
  <2>1. TypeOK'
    BY <1>8 DEF Send, TypeOK, TurnInv
  <2>2. TableInv'
    BY <1>8, <2>1, LocksUntouched DEF Send, TypeOK
  <2>3. TurnInv(a)'
    BY <1>8 DEF Send, TypeOK, TurnInv, HoldsSem
  <2>4. \A b \in Actors \ {a} : TurnInv(b)'
    BY <1>8, OthersUntouched DEF Send, TypeOK
  <2> QED
    BY <2>1, <2>2, <2>3, <2>4
<1>9. CASE BindId(a)
  <2>1. file[a] \in Ids
    BY <1>9 DEF BindId, TurnInv
  <2>2. TypeOK'
    BY <1>9, <2>1 DEF BindId, TypeOK
  <2>3. TableInv'
    BY <1>9, <2>2, LocksUntouched DEF BindId, TypeOK
  <2>4. TurnInv(a)'
    BY <1>9 DEF BindId, TypeOK, TurnInv, HoldsSem
  <2>5. \A b \in Actors \ {a} : TurnInv(b)'
    BY <1>9, OthersUntouched DEF BindId, TypeOK
  <2> QED
    BY <2>2, <2>3, <2>4, <2>5
<1>10. CASE Restarts(a)
  <2>1. TypeOK'
    BY <1>10 DEF Restarts, TypeOK
  <2>2. TableInv'
    BY <1>10, <2>1, LocksUntouched DEF Restarts, TypeOK
  <2>3. TurnInv(a)'
    BY <1>10 DEF Restarts, TypeOK, TurnInv, HoldsSem
  <2>4. \A b \in Actors \ {a} : TurnInv(b)'
    BY <1>10, OthersUntouched DEF Restarts, TypeOK
  <2> QED
    BY <2>1, <2>2, <2>3, <2>4
<1> QED
  BY <1>1, <1>2, <1>3, <1>4, <1>5, <1>6, <1>7, <1>8, <1>9, <1>10

\* Turns that retain or release a lock, or fill or drain a semaphore.
LEMMA LockStep ==
  ASSUME IInv, NEW a \in Actors,
         \/ Retain(a) \/ TakeSem(a) \/ CancelWait(a) \/ GuardBind(a)
         \/ Unlock(a) \/ Unref(a)
  PROVE  IInv'
<1> USE ActorAssumption DEF IInv
<1> USE DEF Labels, WaitLabels, Sessions, mutex, locks, sessions, store,
            Retaining, Unlocked, WithAgent
<1>0. None \notin Locks /\ None \notin Ids /\ None \notin Actors
  OBVIOUS
<1>1. CASE Retain(a)
  <2>1. /\ lock[a] = None /\ key[a] \in Ids /\ RetainLock(a, key[a])
        /\ key' = [key EXCEPT ![a] = key[a]]
    BY <1>1 DEF Retain, TurnInv, TypeOK
  <2>2. /\ TableInv'
        /\ lock'[a] \in Locks /\ sem'[lock'[a]] # a
        /\ \A b \in Actors \ {a} : lock'[b] = lock[b]
        /\ \A b \in Actors : lock[b] # None => sem'[lock[b]] = sem[lock[b]]
    BY <2>1, RetainKeeps
  <2>3. TypeOK'
    BY <1>1, <2>2 DEF Retain, TypeOK, TableInv, TableTypes
  <2>4. TurnInv(a)'
    BY <1>0, <1>1, <2>2 DEF Retain, TypeOK, TurnInv, HoldsSem
  <2>5. \A b \in Actors \ {a} : TurnInv(b)'
    BY <1>1, <2>2, OthersUntouched DEF Retain, TypeOK
  <2> QED
    BY <2>2, <2>3, <2>4, <2>5
<1>2. CASE TakeSem(a)
  <2>1. /\ lock[a] \in Locks /\ sem[lock[a]] = None
        /\ sem' = [sem EXCEPT ![lock[a]] = a]
        /\ UNCHANGED <<lock, table, refs, sess, key, file, mutex, sessions, store>>
    BY <1>2 DEF TakeSem, TurnInv, TypeOK
  <2>2. \A l \in Locks : Retainers(l)' = Retainers(l)
    BY <2>1 DEF Retainers
  <2>3. RefsCounted'
    BY <2>1, <2>2 DEF TableInv, RefsCounted
  <2>4. TableInv'
    BY <1>0, <2>1, <2>3 DEF TableInv, TableTypes, LockFound, EntryUsed, EntriesDiffer,
                            SemRetained
  <2>5. pc' \in [Actors -> Labels] /\ pc'[a] \in {"start", "toSend", "sent"}
        /\ (pc'[a] \in WithAgent => pc[a] \in WithAgent)
    BY <1>2 DEF TakeSem, TypeOK
  <2>6. TypeOK'
    BY <2>1, <2>4, <2>5 DEF TypeOK, TableInv, TableTypes
  <2>7. TurnInv(a)'
    BY <1>0, <2>1, <2>5 DEF TurnInv, HoldsSem, TypeOK
  <2>8. \A b \in Actors \ {a} : TurnInv(b)'
    <3> SUFFICES ASSUME NEW b \in Actors, b # a PROVE TurnInv(b)'
      OBVIOUS
    <3>1. pc'[b] = pc[b]
      BY <1>2 DEF TakeSem, TypeOK
    <3>2. lock[b] # None => (sem'[lock[b]] = b <=> sem[lock[b]] = b)
      BY <1>0, <2>1 DEF TypeOK
    <3> QED
      BY <2>1, <3>1, <3>2, OthersUntouched
  <2> QED
    BY <2>4, <2>6, <2>7, <2>8
<1>3. CASE CancelWait(a)
  <2>1. /\ pc' = [pc EXCEPT ![a] = "idle"]
        /\ file' = [file EXCEPT ![a] = None]
        /\ UNCHANGED <<sess, key, mutex, sessions, store>>
    BY <1>3 DEF CancelWait
  <2>2. /\ TableInv' /\ lock'[a] = None
        /\ \A b \in Actors \ {a} : lock'[b] = lock[b]
        /\ sem' = sem
    <3>1. CASE lock[a] = None
      BY <1>3, <2>1, <3>1, LocksUntouched DEF CancelWait, TypeOK
    <3>2. CASE lock[a] # None
      BY <1>3, <2>1, <3>2, ReleaseKeeps DEF CancelWait, TurnInv
    <3> QED
      BY <3>1, <3>2
  <2>3. TypeOK'
    BY <2>1, <2>2 DEF TypeOK, TableInv, TableTypes
  <2>4. TurnInv(a)'
    BY <2>1, <2>2 DEF TurnInv, HoldsSem, TypeOK
  <2>5. \A b \in Actors \ {a} : TurnInv(b)'
    BY <2>1, <2>2, OthersUntouched DEF TypeOK
  <2> QED
    BY <2>2, <2>3, <2>4, <2>5
<1>4. CASE GuardBind(a) /\ HoldsSem(a)
  <2>1. /\ pc[a] \in {"bind1", "bind2"}
        /\ pc' = [pc EXCEPT ![a] = IF @ = "bind1" THEN "toSend" ELSE "sent"]
        /\ UNCHANGED <<key, bind, locks, sess, file, readers, sessions, store>>
    BY <1>4 DEF GuardBind
  <2>2. TypeOK'
    BY <2>1 DEF TypeOK
  <2>3. TableInv'
    BY <2>1, LocksUntouched DEF TypeOK
  <2>4. TurnInv(a)'
    BY <1>4, <2>1 DEF TurnInv, HoldsSem, TypeOK
  <2>5. \A b \in Actors \ {a} : TurnInv(b)'
    BY <2>1, OthersUntouched DEF TypeOK
  <2> QED
    BY <2>2, <2>3, <2>4, <2>5
<1>5. CASE GuardBind(a) /\ ~HoldsSem(a)
  <2>1. /\ pc[a] \in {"bind1", "bind2"} /\ lock[a] = None /\ file[a] \in Ids
        /\ RetainLock(a, file[a])
        /\ key' = [key EXCEPT ![a] = file[a]]
        /\ pc' = [pc EXCEPT ![a] = IF @ = "bind1" THEN "wait1" ELSE "wait2"]
        /\ bind' \in {bind, None}
        /\ UNCHANGED <<sess, file, readers, sessions, store>>
    BY <1>5 DEF GuardBind, ReleaseBind, TurnInv
  <2>2. /\ TableInv'
        /\ lock'[a] \in Locks /\ sem'[lock'[a]] # a
        /\ \A b \in Actors \ {a} : lock'[b] = lock[b]
        /\ \A b \in Actors : lock[b] # None => sem'[lock[b]] = sem[lock[b]]
    BY <2>1, RetainKeeps
  <2>3. TypeOK'
    BY <2>1, <2>2 DEF TypeOK, TableInv, TableTypes
  <2>4. TurnInv(a)'
    BY <1>0, <2>1, <2>2 DEF TurnInv, HoldsSem, TypeOK
  <2>5. \A b \in Actors \ {a} : TurnInv(b)'
    BY <2>1, <2>2, OthersUntouched DEF TypeOK
  <2> QED
    BY <2>2, <2>3, <2>4, <2>5
<1>6. CASE Unlock(a)
  <2>1. /\ file' = [file EXCEPT ![a] = None]
        /\ bind' \in {bind, None}
        /\ UNCHANGED <<lock, table, refs, sess, key, readers, sessions, store>>
    BY <1>6 DEF Unlock, ReleaseBind
  <2>2. lock[a] # None => lock[a] \in Locks /\ sem[lock[a]] = a
    BY <1>6 DEF Unlock, TurnInv, HoldsSem, TypeOK
  <2>3. /\ sem' = IF lock[a] = None THEN sem ELSE [sem EXCEPT ![lock[a]] = None]
        /\ pc' = [pc EXCEPT ![a] = IF lock[a] = None THEN "idle" ELSE "unref"]
    BY <1>6, <2>2 DEF Unlock, HoldsSem
  <2>4. \A l \in Locks : Retainers(l)' = Retainers(l)
    BY <2>1 DEF Retainers
  <2>5. RefsCounted'
    BY <2>1, <2>4 DEF TableInv, RefsCounted
  <2>6. TableInv'
    BY <1>0, <2>1, <2>2, <2>3, <2>5 DEF TableInv, TableTypes, LockFound, EntryUsed,
                                        EntriesDiffer, SemRetained
  <2>7. TypeOK'
    BY <2>1, <2>3, <2>6 DEF TypeOK, TableInv, TableTypes
  <2>8. TurnInv(a)'
    BY <1>0, <2>1, <2>2, <2>3 DEF TurnInv, HoldsSem, TypeOK
  <2>9. \A b \in Actors \ {a} : TurnInv(b)'
    <3> SUFFICES ASSUME NEW b \in Actors, b # a PROVE TurnInv(b)'
      OBVIOUS
    <3>1. pc'[b] = pc[b] /\ file'[b] = file[b]
      BY <2>1, <2>3 DEF TypeOK
    <3>2. lock[b] # None => (sem'[lock[b]] = b <=> sem[lock[b]] = b)
      BY <1>0, <2>2, <2>3 DEF TypeOK
    <3> QED
      BY <2>1, <3>1, <3>2, OthersUntouched
  <2> QED
    BY <2>6, <2>7, <2>8, <2>9
<1>7. CASE Unref(a)
  <2>1. /\ pc' = [pc EXCEPT ![a] = "idle"]
        /\ UNCHANGED <<sess, key, file, mutex, sessions, store>>
    BY <1>7 DEF Unref
  <2>2. /\ TableInv' /\ lock'[a] = None
        /\ \A b \in Actors \ {a} : lock'[b] = lock[b]
        /\ sem' = sem
    BY <1>7, <2>1, ReleaseKeeps DEF Unref, TurnInv
  <2>3. TypeOK'
    BY <2>1, <2>2 DEF TypeOK, TableInv, TableTypes
  <2>4. TurnInv(a)'
    BY <2>1, <2>2 DEF TurnInv, HoldsSem, TypeOK
  <2>5. \A b \in Actors \ {a} : TurnInv(b)'
    BY <2>1, <2>2, OthersUntouched DEF TypeOK
  <2> QED
    BY <2>2, <2>3, <2>4, <2>5
<1> QED
  BY <1>1, <1>2, <1>3, <1>4, <1>5, <1>6, <1>7

\* Commands touch neither the locks nor the turns.
LEMMA CommandStep ==
  ASSUME IInv, NEW c \in Chats, Reset(c) \/ \E i \in Ids : Attach(c, i)
  PROVE  IInv'
<1> USE DEF IInv
<1>1. /\ UNCHANGED <<pc, sess, key, file, mutex, locks, job, store>>
      /\ id' \in [Sessions -> Ids \cup {None}]
      /\ live' \in [Chats -> Ids \cup {None}]
      /\ edits' \in Nat
  BY DEF Reset, Attach, TypeOK, Sessions
<1>2. TypeOK'
  BY <1>1 DEF TypeOK, mutex, locks, store
<1>3. TableInv'
  BY <1>1, LocksUntouched DEF TypeOK
<1>4. \A a \in Actors : TurnInv(a)'
  BY <1>1 DEF TurnInv, HoldsSem, locks
<1> QED
  BY <1>2, <1>3, <1>4

-----------------------------------------------------------------------------
(* The theorems.                                                           *)

LEMMA NextIInv == IInv /\ [Next]_vars => IInv'
<1> SUFFICES ASSUME IInv, [Next]_vars PROVE IInv'
  OBVIOUS
<1>1. ASSUME NEW a \in Actors,
             BeginTurn(a) \/ BeginCron(a) \/ CancelWait(a) \/ Step(a) \/ TakeSem(a)
      PROVE  IInv'
  BY <1>1, QuietStep, LockStep DEF Step
<1>2. ASSUME NEW c \in Chats, Reset(c) \/ \E i \in Ids : Attach(c, i)
      PROVE  IInv'
  BY <1>2, CommandStep
<1>3. CASE UNCHANGED vars
  BY <1>3 DEF vars, mutex, locks, sessions, store, IInv, TypeOK, TableInv, TableTypes,
              RefsCounted, Retainers, LockFound, EntryUsed, EntriesDiffer, SemRetained,
              TurnInv, HoldsSem
<1> QED
  BY <1>1, <1>2, <1>3 DEF Next

LEMMA Invariance == Spec => []IInv
BY InitIInv, NextIInv, PTL DEF Spec

\* Every variable keeps its type.
THEOREM TypeCorrect == Spec => []TypeOK
<1>1. IInv => TypeOK
  BY DEF IInv
<1> QED
  BY <1>1, Invariance, PTL

\* The reference counts of retainAgentSessionTurnLock and releaseAgentSessionTurnRef
\* are exact, and every turn finds in the table the lock object it has retained.
THEOREM LockTable == Spec => []LockTableExact
<1>1. IInv => LockTableExact
  BY DEF IInv, TableInv, RefsCounted, LockFound, EntryUsed, LockTableExact
<1> QED
  BY <1>1, Invariance, PTL

\* Two turns never hold the lock of one agent session id.
THEOREM Exclusion == Spec => []TurnLockExclusive
<1>1. IInv => TurnLockExclusive
  BY DEF IInv, TableInv, LockFound, HoldsSem, TurnLockExclusive
<1> QED
  BY <1>1, Invariance, PTL
=============================================================================
