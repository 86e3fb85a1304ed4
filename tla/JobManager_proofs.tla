-------------------------- MODULE JobManager_proofs --------------------------
(* What holds of JobManager for all sets of jobs and projects and all bounds. *)
EXTENDS JobManager, FiniteSetTheorems, SequenceTheorems, TLAPS

\* SlotExact and QueueExact of given values, for the state in the middle of a
\* critical section, before prepareNextJobLocked.
SlotsOK(prj, slot, at) ==
    \A p \in Projects, j \in Jobs : slot[p] = j <=> prj[j] = p /\ at[j] # "idle"

QueuesOK(prj, m, qs, at) ==
    \A p \in Projects :
        /\ \A j \in Jobs :
             (\E i \in DOMAIN qs[p] : qs[p][i] = j)
                 <=> prj[j] = p /\ m[j].status = "queued" /\ at[j] = "idle"
        /\ \A i, k \in DOMAIN qs[p] : qs[p][i] = qs[p][k] => i = k

\* A project with a job at work has a runner, and nothing works while the process is down.
Served ==
    /\ \A p \in Projects : running[p] # None => p \in registered
    /\ \A j \in Jobs : pc[j] # "idle" => up /\ mem[j].status # "none"
    /\ ~up => \A p \in Projects : running[p] = None

\* The invariant: where each job is.
PlaceInv == TypeOK /\ SlotExact /\ QueueExact /\ Served

-----------------------------------------------------------------------------
(* The dispatch: from exact slots and queues to exact slots and queues. *)

\* A nonempty queue has a first job, and its tail is the queue shifted by one.
LEMMA RestOfQueue ==
    ASSUME NEW q \in Seq(Jobs), q # <<>>
    PROVE  /\ 1 \in DOMAIN q /\ q[1] \in Jobs
           /\ SubSeq(q, 2, Len(q)) \in Seq(Jobs)
           /\ DOMAIN SubSeq(q, 2, Len(q)) = 1 .. Len(q) - 1
           /\ \A i \in 1 .. Len(q) - 1 : SubSeq(q, 2, Len(q))[i] = q[i + 1]
           /\ DOMAIN q = 1 .. Len(q) /\ Len(q) \in Nat
  <1>1. Len(q) \in Nat /\ Len(q) > 0 /\ DOMAIN q = 1 .. Len(q)
    OBVIOUS
  <1>2. QED
    BY <1>1

\* What a dispatch of project p finds in the middle of a critical section.
DispatchPre(p, slot, q, m, at, prj) ==
    /\ p \in Projects /\ slot \in Jobs \cup {None} /\ q \in Seq(Jobs)
    /\ m \in [Jobs -> Records] /\ at \in [Jobs -> Labels]
    /\ TypeOK /\ p \in registered'
    /\ SlotsOK(prj, [running EXCEPT ![p] = slot], at)
    /\ QueuesOK(prj, m, [queue EXCEPT ![p] = q], at)
    /\ DispatchNext(p, slot, q, m, at)

\* What it leaves: slots and queues are exact, it started queued jobs only, and no queue
\* waits behind an empty slot.
DispatchPost(p, m, at, prj) ==
    /\ queue' \in [Projects -> Seq(Jobs)]
    /\ running' \in [Projects -> Jobs \cup {None}]
    /\ ctx' \in [Jobs -> Contexts]
    /\ pc' \in [Jobs -> Labels]
    /\ SlotsOK(prj, running', pc')
    /\ QueuesOK(prj, m, queue', pc')
    /\ \A x \in Projects : x # p => running'[x] = running[x] /\ queue'[x] = queue[x]
    /\ running'[p] = None => queue'[p] = <<>>
    /\ \A j \in Jobs : \/ pc'[j] = at[j] /\ ctx'[j] = ctx[j]
                       \/ /\ pc'[j] = "spawned" /\ m[j].status = "queued"
                          /\ ctx'[j] = "live" /\ at[j] = "idle"

\* prepareNextJobLocked leaves what DispatchPost says.
LEMMA DispatchKeeps ==
    ASSUME NEW p, NEW slot, NEW q, NEW m, NEW at, NEW prj,
           DispatchPre(p, slot, q, m, at, prj)
    PROVE  DispatchPost(p, m, at, prj)
  <1> USE DEF DispatchPre, DispatchPost
  <1> DEFINE qs == [queue EXCEPT ![p] = q]
             rs == [running EXCEPT ![p] = slot]
  <1> USE JobAssumption, ProjectAssumption
  <1>0. /\ queue \in [Projects -> Seq(Jobs)] /\ running \in [Projects -> Jobs \cup {None}]
        /\ ctx \in [Jobs -> Contexts]
    BY DEF TypeOK
  <1>1. CASE slot # None /\ queue' = qs /\ running' = rs /\ pc' = at /\ UNCHANGED ctx
    BY <1>0, <1>1
  <1>2. qs[p] = q /\ rs[p] = slot /\ <<>> \in Seq(Jobs)
    BY <1>0
  <1>3. \A i \in DOMAIN q : q[i] \in Jobs /\ m[q[i]].status = "queued" /\ prj[q[i]] = p /\ at[q[i]] = "idle"
    BY <1>2 DEF QueuesOK
  <1>4. Ready(p, q, m) = DOMAIN q
    BY <1>3 DEF Ready
  <1>5. CASE slot = None /\ Ready(p, q, m) = {} /\ queue' = [queue EXCEPT ![p] = <<>>]
             /\ running' = [running EXCEPT ![p] = None] /\ pc' = at /\ UNCHANGED ctx
    <2>1. q = <<>>
      BY <1>4, <1>5, RestOfQueue
    <2>2. queue' = qs /\ running' = rs
      BY <1>5, <2>1
    <2> QED
      BY <1>0, <1>2, <1>5, <2>1, <2>2
  <1>6. ASSUME NEW i \in Ready(p, q, m),
               slot = None, \A k \in Ready(p, q, m) : i <= k,
               queue' = [queue EXCEPT ![p] = SubSeq(q, i + 1, Len(q))],
               running' = [running EXCEPT ![p] = q[i]],
               pc' = [at EXCEPT ![q[i]] = "spawned"],
               ctx' = [ctx EXCEPT ![q[i]] = "live"]
        PROVE  DispatchPost(p, m, at, prj)
    <2>1. q # <<>> /\ i \in DOMAIN q
      BY <1>4, <1>6
    <2> DEFINE rest == SubSeq(q, 2, Len(q))
               h == q[1]
    <2>2. /\ 1 \in DOMAIN q /\ h \in Jobs /\ rest \in Seq(Jobs)
          /\ DOMAIN rest = 1 .. Len(q) - 1
          /\ \A k \in 1 .. Len(q) - 1 : rest[k] = q[k + 1]
          /\ DOMAIN q = 1 .. Len(q) /\ Len(q) \in Nat
      BY <2>1, RestOfQueue
    <2>3. i = 1
      BY <1>4, <1>6, <2>1, <2>2
    <2>4. /\ queue' = [queue EXCEPT ![p] = rest] /\ running' = [running EXCEPT ![p] = h]
          /\ pc' = [at EXCEPT ![h] = "spawned"] /\ ctx' = [ctx EXCEPT ![h] = "live"]
      BY <1>6, <2>3
    <2>5. m[h].status = "queued" /\ prj[h] = p /\ at[h] = "idle" /\ h # None
      BY <1>3, <2>2
    <2> HIDE DEF rest, h
    <2>6. /\ queue' \in [Projects -> Seq(Jobs)] /\ running' \in [Projects -> Jobs \cup {None}]
          /\ ctx' \in [Jobs -> Contexts] /\ pc' \in [Jobs -> Labels]
      BY <1>0, <2>2, <2>4 DEF Contexts, Labels
    <2>7. SlotsOK(prj, running', pc')
      <3> SUFFICES ASSUME NEW x \in Projects, NEW j \in Jobs
                   PROVE  running'[x] = j <=> prj[j] = x /\ pc'[j] # "idle"
        BY DEF SlotsOK
      <3>1. rs[x] = j <=> prj[j] = x /\ at[j] # "idle"
        BY DEF SlotsOK
      <3> QED
        BY <1>0, <1>6, <2>2, <2>4, <2>5, <3>1
    <2>8. QueuesOK(prj, m, queue', pc')
      <3> SUFFICES ASSUME NEW x \in Projects
                   PROVE  /\ \A j \in Jobs :
                               (\E k \in DOMAIN queue'[x] : queue'[x][k] = j)
                                   <=> prj[j] = x /\ m[j].status = "queued" /\ pc'[j] = "idle"
                          /\ \A k, n \in DOMAIN queue'[x] : queue'[x][k] = queue'[x][n] => k = n
        BY DEF QueuesOK
      <3>1. /\ \A j \in Jobs : (\E k \in DOMAIN qs[x] : qs[x][k] = j)
                                   <=> prj[j] = x /\ m[j].status = "queued" /\ at[j] = "idle"
            /\ \A k, n \in DOMAIN qs[x] : qs[x][k] = qs[x][n] => k = n
        BY DEF QueuesOK
      <3>2. CASE x # p
        <4>1. queue'[x] = queue[x] /\ qs[x] = queue[x]
          BY <1>0, <2>4, <3>2
        <4>2. \A j \in Jobs : prj[j] = x => pc'[j] = at[j]
          BY <2>2, <2>4, <2>5, <3>2
        <4> QED
          BY <3>1, <4>1, <4>2
      <3>3. CASE x = p
        <4>1. queue'[x] = rest /\ qs[x] = q
          BY <1>0, <2>4, <3>3
        <4>2. \A k \in DOMAIN rest : k + 1 \in DOMAIN q /\ rest[k] = q[k + 1]
          BY <2>2
        <4>3. \A k \in DOMAIN q : k = 1 \/ (k - 1 \in DOMAIN rest /\ q[k] = rest[k - 1])
          <5> SUFFICES ASSUME NEW k \in DOMAIN q, k # 1
                       PROVE  k - 1 \in DOMAIN rest /\ q[k] = rest[k - 1]
            OBVIOUS
          <5>1. k - 1 \in DOMAIN rest /\ (k - 1) + 1 = k
            BY <2>2
          <5> QED
            BY ONLY <4>2, <5>1, Zenon
        <4>4. \A k, n \in DOMAIN rest : rest[k] = rest[n] => k = n
          <5>1. \A k, n \in DOMAIN rest : k + 1 = n + 1 => k = n
            BY <2>2
          <5>2. \A k, n \in DOMAIN q : q[k] = q[n] => k = n
            BY <3>1, <4>1
          <5>3. \A k, n \in DOMAIN rest : rest[k] = rest[n] => k + 1 = n + 1
            BY ONLY <4>2, <5>2, Zenon
          <5> QED
            BY <5>1, <5>3
        <4>5. ASSUME NEW j \in Jobs
              PROVE  (\E k \in DOMAIN rest : rest[k] = j)
                         <=> (\E k \in DOMAIN q : q[k] = j) /\ j # h
          <5>1. ASSUME NEW k \in DOMAIN rest, rest[k] = j
                PROVE  (\E n \in DOMAIN q : q[n] = j) /\ j # h
            <6>1. k + 1 \in DOMAIN q /\ q[k + 1] = j
              BY <4>2, <5>1
            <6>2. k + 1 # 1 /\ 1 \in DOMAIN q
              BY <2>2, <5>1
            <6>3. \A n, l \in DOMAIN q : q[n] = q[l] => n = l
              BY <3>1, <4>1
            <6> QED
              BY ONLY <6>1, <6>2, <6>3, Zenon DEF h
          <5>2. ASSUME NEW k \in DOMAIN q, q[k] = j, j # h
                PROVE  \E n \in DOMAIN rest : rest[n] = j
            BY <4>3, <5>2 DEF h
          <5> QED
            BY <5>1, <5>2
        <4>6. \A j \in Jobs : pc'[j] = "idle" <=> at[j] = "idle" /\ j # h
          BY <2>2, <2>4, <2>5
        <4> QED
          BY <3>1, <3>3, <4>1, <4>4, <4>5, <4>6
      <3> QED
        BY <3>2, <3>3
    <2> QED
      BY <1>0, <2>2, <2>4, <2>5, <2>6, <2>7, <2>8
  <1> HIDE DEF DispatchPost
  <1> QED
    BY <1>1, <1>5, <1>6 DEF DispatchNext

-----------------------------------------------------------------------------
(* The other helpers. *)

\* Settle changes the record of one job, in memory and perhaps in its file.
LEMMA SettleKeeps ==
    ASSUME TypeOK, NEW j \in Jobs, NEW r \in Records, Settle(j, r)
    PROVE  /\ mem' \in [Jobs -> Records] /\ disk' \in [Jobs -> Records]
           /\ unsaved' \in SUBSET Jobs /\ faults' \in 0 .. MaxFaults
           /\ mem'[j].started = r.started /\ mem'[j].finished = r.finished
           /\ \/ mem'[j] = r /\ disk'[j] = r /\ unsaved' = unsaved \ {j}
              \/ /\ mem'[j].status = "failed" /\ disk'[j] = disk[j]
                 /\ unsaved' = unsaved \cup {j}
           /\ \A k \in Jobs : k # j => mem'[k] = mem[k] /\ disk'[k] = disk[k]
  <1>0. mem \in [Jobs -> Records] /\ disk \in [Jobs -> Records] /\ unsaved \in SUBSET Jobs
        /\ faults \in 0 .. MaxFaults
    BY DEF TypeOK
  <1>1. CASE Saved(j, r) /\ mem' = [mem EXCEPT ![j] = r] /\ unsaved' = unsaved \ {j}
    BY <1>0, <1>1 DEF Saved
  <1>2. CASE /\ NotSaved /\ mem' = [mem EXCEPT ![j] = [r EXCEPT !.status = "failed"]]
             /\ unsaved' = unsaved \cup {j}
    <2>1. [r EXCEPT !.status = "failed"] \in Records
      BY DEF Records, Statuses, Terminal
    <2>2. /\ [r EXCEPT !.status = "failed"].status = "failed"
          /\ [r EXCEPT !.status = "failed"].started = r.started
          /\ [r EXCEPT !.status = "failed"].finished = r.finished
      BY DEF Records
    <2>3. faults' \in 0 .. MaxFaults /\ disk' = disk
      BY <1>0, <1>2, BoundAssumption DEF NotSaved
    <2> QED
      BY <1>0, <1>2, <2>1, <2>2, <2>3
  <1> QED
    BY <1>1, <1>2 DEF Settle

\* Without removes j from a sequence that has it at most once and keeps everything else.
LEMMA WithoutKeeps ==
    ASSUME NEW q \in Seq(Jobs), NEW j \in Jobs,
           \A i, k \in DOMAIN q : q[i] = q[k] => i = k
    PROVE  /\ Without(q, j) \in Seq(Jobs)
           /\ \A x \in Jobs : (\E i \in DOMAIN Without(q, j) : Without(q, j)[i] = x)
                                  <=> (\E i \in DOMAIN q : q[i] = x) /\ x # j
           /\ \A i, k \in DOMAIN Without(q, j) : Without(q, j)[i] = Without(q, j)[k] => i = k
  <1>0. DOMAIN q = 1 .. Len(q) /\ Len(q) \in Nat /\ \A i \in 1 .. Len(q) : q[i] \in Jobs
    OBVIOUS
  <1>1. CASE ~\E i \in DOMAIN q : q[i] = j
    BY <1>1 DEF Without
  <1>2. CASE \E i \in DOMAIN q : q[i] = j
    <2> DEFINE n == CHOOSE i \in DOMAIN q : q[i] = j
               w == SubSeq(q, 1, n - 1) \o SubSeq(q, n + 1, Len(q))
    <2>1. n \in 1 .. Len(q) /\ q[n] = j
      BY <1>0, <1>2
    <2>2. Without(q, j) = w
      BY <1>2 DEF Without
    <2> HIDE DEF n
    <2>3. /\ SubSeq(q, 1, n - 1) \in Seq(Jobs) /\ Len(SubSeq(q, 1, n - 1)) = n - 1
          /\ \A i \in 1 .. n - 1 : SubSeq(q, 1, n - 1)[i] = q[i]
      BY <1>0, <2>1
    <2>4. /\ SubSeq(q, n + 1, Len(q)) \in Seq(Jobs) /\ Len(SubSeq(q, n + 1, Len(q))) = Len(q) - n
          /\ \A i \in 1 .. Len(q) - n : SubSeq(q, n + 1, Len(q))[i] = q[i + n]
      <3> DEFINE right == SubSeq(q, n + 1, Len(q))
      <3>1. n + 1 \in Int /\ Len(q) \in Int /\ \A i \in n + 1 .. Len(q) : q[i] \in Jobs
        BY <1>0, <2>1
      <3>2. /\ right \in Seq(Jobs)
            /\ Len(right) = IF n + 1 <= Len(q) THEN Len(q) - (n + 1) + 1 ELSE 0
            /\ \A i \in 1 .. Len(q) - (n + 1) + 1 : right[i] = q[(n + 1) + i - 1]
        BY <3>1, SubSeqProperties
      <3> HIDE DEF right
      <3>3. Len(right) = Len(q) - n
        <4>1. n \in Int /\ Len(q) \in Int /\ n <= Len(q)
          BY <1>0, <2>1
        <4>2. Len(right) = IF n + 1 <= Len(q) THEN Len(q) - (n + 1) + 1 ELSE 0
          BY <3>2
        <4> QED
          BY <4>1, <4>2
      <3>4. ASSUME NEW i \in 1 .. Len(q) - n
            PROVE  right[i] = q[i + n]
        <4>1. (n + 1) + i - 1 = i + n /\ i \in 1 .. Len(q) - (n + 1) + 1
          BY <1>0, <2>1
        <4> QED
          BY <3>2, <4>1
      <3> QED
        BY <3>2, <3>3, <3>4 DEF right
    <2>5. /\ w \in Seq(Jobs) /\ DOMAIN w = 1 .. Len(q) - 1
          /\ \A i \in 1 .. n - 1 : w[i] = q[i]
          /\ \A i \in n .. Len(q) - 1 : w[i] = q[i + 1]
      <3> DEFINE left == SubSeq(q, 1, n - 1)
                 right == SubSeq(q, n + 1, Len(q))
      <3>1. /\ left \in Seq(Jobs) /\ Len(left) = n - 1
            /\ right \in Seq(Jobs) /\ Len(right) = Len(q) - n
            /\ \A i \in 1 .. n - 1 : left[i] = q[i]
            /\ \A i \in 1 .. Len(q) - n : right[i] = q[i + n]
        BY <2>3, <2>4
      <3> HIDE DEF left, right
      <3> DEFINE both == left \o right
      <3>2. /\ both \in Seq(Jobs)
            /\ Len(both) = Len(left) + Len(right)
            /\ \A i \in 1 .. Len(left) + Len(right) :
                 both[i] = IF i <= Len(left) THEN left[i] ELSE right[i - Len(left)]
        BY <3>1, ConcatProperties
      <3> HIDE DEF both
      <3>3. DOMAIN both = 1 .. Len(q) - 1
        <4>1. DOMAIN both = 1 .. Len(both)
          BY <3>2
        <4>2. Len(left) + Len(right) = Len(q) - 1
          BY <1>0, <2>1, <3>1
        <4> QED
          BY <3>2, <4>1, <4>2
      <3>4. ASSUME NEW i \in 1 .. n - 1
            PROVE  both[i] = q[i]
        <4>1. i \in 1 .. (n - 1) + (Len(q) - n) /\ i <= n - 1
          BY <1>0, <2>1
        <4> QED
          BY <3>1, <3>2, <4>1
      <3>5. ASSUME NEW i \in n .. Len(q) - 1
            PROVE  both[i] = q[i + 1]
        <4>1. i - (n - 1) \in 1 .. Len(q) - n /\ i - (n - 1) + n = i + 1
              /\ i \in 1 .. (n - 1) + (Len(q) - n) /\ ~(i <= n - 1)
          BY <1>0, <2>1
        <4> QED
          BY <3>1, <3>2, <4>1
      <3> QED
        BY <3>2, <3>3, <3>4, <3>5 DEF both, left, right
    <2> HIDE DEF w
    <2>6. \A i \in DOMAIN w : /\ i < n => i \in DOMAIN q /\ w[i] = q[i]
                              /\ i >= n => i + 1 \in DOMAIN q /\ w[i] = q[i + 1]
      BY <1>0, <2>1, <2>5
    <2>7. \A i \in DOMAIN q : /\ i < n => i \in DOMAIN w /\ w[i] = q[i]
                              /\ i > n => i - 1 \in DOMAIN w /\ w[i - 1] = q[i]
      BY <1>0, <2>1, <2>5
    <2>8. \A i, k \in DOMAIN w : w[i] = w[k] => i = k
      <3> SUFFICES ASSUME NEW i \in DOMAIN w, NEW k \in DOMAIN w, w[i] = w[k]
                   PROVE  i = k
        OBVIOUS
      <3>1. i \in Int /\ k \in Int /\ n \in Int
        BY <1>0, <2>1, <2>5
      <3> QED
        BY <2>6, <3>1
    <2>9. ASSUME NEW i \in DOMAIN w
          PROVE  (\E k \in DOMAIN q : q[k] = w[i]) /\ w[i] # j
      <3>1. i \in Int /\ n \in Int /\ n \in DOMAIN q
        BY <1>0, <2>1, <2>5
      <3> QED
        BY <2>1, <2>6, <3>1
    <2>10. ASSUME NEW i \in DOMAIN q, q[i] # j
           PROVE  \E k \in DOMAIN w : w[k] = q[i]
      <3>1. i \in Int /\ n \in Int /\ i # n
        BY <1>0, <2>1, <2>10
      <3> QED
        BY <2>7, <3>1
    <2> QED
      BY <2>2, <2>5, <2>8, <2>9, <2>10
  <1> QED
    BY <1>1, <1>2

\* Appending a job that is not in a queue adds exactly that job.
LEMMA AppendOnce ==
    ASSUME NEW q \in Seq(Jobs), NEW j \in Jobs,
           \A i, k \in DOMAIN q : q[i] = q[k] => i = k,
           ~\E i \in DOMAIN q : q[i] = j
    PROVE  /\ Append(q, j) \in Seq(Jobs)
           /\ \A x \in Jobs : (\E i \in DOMAIN Append(q, j) : Append(q, j)[i] = x)
                                  <=> (\E i \in DOMAIN q : q[i] = x) \/ x = j
           /\ \A i, k \in DOMAIN Append(q, j) : Append(q, j)[i] = Append(q, j)[k] => i = k
  <1>1. /\ Append(q, j) \in Seq(Jobs) /\ DOMAIN Append(q, j) = 1 .. Len(q) + 1
        /\ DOMAIN q = 1 .. Len(q) /\ Len(q) \in Nat
        /\ \A i \in 1 .. Len(q) : Append(q, j)[i] = q[i]
        /\ Append(q, j)[Len(q) + 1] = j
    OBVIOUS
  <1>2. \A i \in DOMAIN Append(q, j) :
            (i \in DOMAIN q /\ Append(q, j)[i] = q[i]) \/ (i = Len(q) + 1 /\ Append(q, j)[i] = j)
    BY <1>1
  <1>3. \A i \in DOMAIN q : i \in DOMAIN Append(q, j) /\ Append(q, j)[i] = q[i]
    BY <1>1
  <1>4. Len(q) + 1 \in DOMAIN Append(q, j)
    BY <1>1
  <1> QED
    BY <1>1, <1>2, <1>3, <1>4

-----------------------------------------------------------------------------
(* Each action keeps PlaceInv. *)

\* At start-up there are no jobs, and slots and queues are empty.
THEOREM InitPlace == Init => PlaceInv
  <1> SUFFICES ASSUME Init
               PROVE  PlaceInv
    OBVIOUS
  <1> USE JobAssumption, ProjectAssumption, BoundAssumption DEF Init
  <1>1. TypeOK
    BY DEF TypeOK, Records, Statuses, Terminal, Absent, Contexts, Labels
  <1>2. SlotExact
    BY DEF SlotExact
  <1>3. QueueExact
    BY DEF QueueExact, Absent
  <1>4. Served
    BY DEF Served
  <1> QED
    BY <1>1, <1>2, <1>3, <1>4 DEF PlaceInv

\* A step that leaves queues, slots, memory and registrations alone, and neither starts
\* nor ends a goroutine.
LEMMA QuietKeepsPlaces ==
    ASSUME PlaceInv, TypeOK', UNCHANGED <<up, registered, project, mem, queue, running>>,
           \A j \in Jobs : pc'[j] = "idle" <=> pc[j] = "idle"
    PROVE  PlaceInv'
  <1>1. SlotExact'
    BY DEF PlaceInv, SlotExact
  <1>2. QueueExact'
    BY DEF PlaceInv, QueueExact
  <1>3. Served'
    BY DEF PlaceInv, Served
  <1> QED
    BY <1>1, <1>2, <1>3 DEF PlaceInv

\* A step that ends in the dispatch of project p.
DispatchStep(p, slot, q, at) ==
    /\ PlaceInv /\ up /\ up' = up /\ registered \subseteq registered'
    /\ \A j \in Jobs : at[j] # "idle" => mem'[j].status # "none"
    /\ DispatchPre(p, slot, q, mem', at, project')

\* A critical section that ends with a dispatch keeps the invariant.
LEMMA DispatchKeepsPlaces ==
    ASSUME NEW p, NEW slot, NEW q, NEW at, DispatchStep(p, slot, q, at)
    PROVE  /\ DispatchPost(p, mem', at, project')
           /\ SlotExact' /\ QueueExact' /\ Served'
  <1>0. DispatchPre(p, slot, q, mem', at, project') /\ p \in Projects /\ p \in registered'
    BY DEF DispatchStep, DispatchPre
  <1>1. DispatchPost(p, mem', at, project')
    BY <1>0, DispatchKeeps
  <1>2. SlotExact'
    BY <1>1 DEF DispatchPost, SlotExact, SlotsOK
  <1>3. QueueExact'
    BY <1>1 DEF DispatchPost, QueueExact, QueuesOK
  <1>4. Served'
    <2>1. \A x \in Projects : running'[x] # None => x \in registered'
      BY <1>0, <1>1 DEF DispatchStep, DispatchPost, PlaceInv, Served
    <2>2. \A j \in Jobs : pc'[j] # "idle" => up' /\ mem'[j].status # "none"
      BY <1>1 DEF DispatchStep, DispatchPost
    <2> QED
      BY <2>1, <2>2 DEF DispatchStep, Served
  <1> QED
    BY <1>1, <1>2, <1>3, <1>4

\* RegisterProject keeps slots and queues exact.
LEMMA RegisterKeepsPlaces ==
    ASSUME PlaceInv, NEW p \in Projects, RegisterProject(p)
    PROVE  PlaceInv' /\ DispatchPost(p, mem', pc, project')
  <1> USE DEF RegisterProject
  <1>1. /\ running[p] \in Jobs \cup {None} /\ queue[p] \in Seq(Jobs)
        /\ mem \in [Jobs -> Records] /\ pc \in [Jobs -> Labels]
        /\ project \in [Jobs -> Projects \cup {None}]
        /\ [running EXCEPT ![p] = running[p]] = running
        /\ [queue EXCEPT ![p] = queue[p]] = queue
    BY DEF PlaceInv, TypeOK
  <1>2. SlotsOK(project', running, pc) /\ QueuesOK(project', mem', queue, pc)
    BY DEF PlaceInv, SlotExact, QueueExact, SlotsOK, QueuesOK
  <1>3. /\ SlotsOK(project', [running EXCEPT ![p] = running[p]], pc)
        /\ QueuesOK(project', mem', [queue EXCEPT ![p] = queue[p]], pc)
        /\ \A j \in Jobs : pc[j] # "idle" => mem'[j].status # "none"
        /\ DispatchNext(p, running[p], queue[p], mem', pc)
        /\ mem' \in [Jobs -> Records] /\ up /\ up' = up
        /\ p \in registered' /\ registered \subseteq registered'
    BY <1>1, <1>2 DEF PlaceInv, Served
  <1>4. DispatchStep(p, running[p], queue[p], pc)
    BY <1>1, <1>3 DEF DispatchStep, DispatchPre, PlaceInv
  <1> HIDE DEF RegisterProject
  <1>5. DispatchPost(p, mem', pc, project') /\ SlotExact' /\ QueueExact' /\ Served'
    BY <1>4, DispatchKeepsPlaces
  <1>6. TypeOK'
    BY <1>5 DEF RegisterProject, DispatchPost, PlaceInv, TypeOK, files
  <1> QED
    BY <1>5, <1>6 DEF PlaceInv

\* Start puts the new job in the queue of its project, or in its slot.
LEMMA StartKeepsPlaces ==
    ASSUME PlaceInv, NEW p \in Projects, NEW j \in Jobs, Start(p, j)
    PROVE  PlaceInv' /\ DispatchPost(p, mem', pc, project')
  <1> USE JobAssumption, ProjectAssumption DEF Start, Saved
  <1>0. TypeOK /\ SlotExact /\ QueueExact /\ Served
    BY DEF PlaceInv
  <1>1. /\ running[p] \in Jobs \cup {None} /\ queue[p] \in Seq(Jobs)
        /\ pc \in [Jobs -> Labels] /\ mem \in [Jobs -> Records]
        /\ [running EXCEPT ![p] = running[p]] = running
        /\ disk \in [Jobs -> Records] /\ project \in [Jobs -> Projects \cup {None}]
        /\ queue \in [Projects -> Seq(Jobs)]
    BY <1>0 DEF TypeOK
  <1>2. Fresh \in Records /\ Fresh.status = "queued" /\ Absent.status = "none"
    BY DEF Fresh, Absent, Records, Statuses
  <1>3. /\ mem' \in [Jobs -> Records] /\ disk' \in [Jobs -> Records]
        /\ project' \in [Jobs -> Projects \cup {None}]
        /\ mem'[j] = Fresh /\ project'[j] = p /\ disk'[j] = Fresh
        /\ \A k \in Jobs : k # j => mem'[k] = mem[k] /\ project'[k] = project[k] /\ disk'[k] = disk[k]
    BY <1>1, <1>2
  <1>4. pc[j] = "idle"
    BY <1>0, <1>2 DEF Served
  <1>5. SlotsOK(project', [running EXCEPT ![p] = running[p]], pc)
    BY <1>0, <1>1, <1>3, <1>4 DEF SlotExact, SlotsOK
  <1>6. \A x \in Projects : ~\E i \in DOMAIN queue[x] : queue[x][i] = j
    BY <1>0, <1>2 DEF QueueExact
  <1> DEFINE q == Append(queue[p], j)
  <1>7. /\ q \in Seq(Jobs)
        /\ \A x \in Jobs : (\E i \in DOMAIN q : q[i] = x)
                               <=> (\E i \in DOMAIN queue[p] : queue[p][i] = x) \/ x = j
        /\ \A i, k \in DOMAIN q : q[i] = q[k] => i = k
    BY <1>0, <1>1, <1>6, AppendOnce DEF QueueExact
  <1> HIDE DEF q
  <1>8. QueuesOK(project', mem', [queue EXCEPT ![p] = q], pc)
    <2> SUFFICES ASSUME NEW x \in Projects
                 PROVE  /\ \A k \in Jobs :
                             (\E i \in DOMAIN [queue EXCEPT ![p] = q][x] :
                                 [queue EXCEPT ![p] = q][x][i] = k)
                               <=> project'[k] = x /\ mem'[k].status = "queued" /\ pc[k] = "idle"
                        /\ \A i, k \in DOMAIN [queue EXCEPT ![p] = q][x] :
                             [queue EXCEPT ![p] = q][x][i] = [queue EXCEPT ![p] = q][x][k] => i = k
      BY DEF QueuesOK
    <2>1. /\ \A k \in Jobs : (\E i \in DOMAIN queue[x] : queue[x][i] = k)
                <=> project[k] = x /\ mem[k].status = "queued" /\ pc[k] = "idle"
          /\ \A i, k \in DOMAIN queue[x] : queue[x][i] = queue[x][k] => i = k
      BY <1>0 DEF QueueExact
    <2>2. CASE x = p
      <3>1. [queue EXCEPT ![p] = q][x] = q
        BY <1>1, <2>2
      <3>2. \A k \in Jobs : (\E i \in DOMAIN q : q[i] = k)
                <=> project'[k] = x /\ mem'[k].status = "queued" /\ pc[k] = "idle"
        BY <1>2, <1>3, <1>4, <1>7, <2>1, <2>2
      <3> QED
        BY <1>7, <3>1, <3>2
    <2>3. CASE x # p
      <3>1. [queue EXCEPT ![p] = q][x] = queue[x]
        BY <1>1, <2>3
      <3>2. \A k \in Jobs : (\E i \in DOMAIN queue[x] : queue[x][i] = k)
                <=> project'[k] = x /\ mem'[k].status = "queued" /\ pc[k] = "idle"
        BY <1>3, <1>6, <2>1, <2>3
      <3> QED
        BY <2>1, <3>1, <3>2
    <2> QED
      BY <2>2, <2>3
  <1>9. \A k \in Jobs : pc[k] # "idle" => mem'[k].status # "none"
    BY <1>0, <1>3, <1>4 DEF Served
  <1>10. /\ DispatchNext(p, running[p], q, mem', pc) /\ up /\ up' = up
         /\ p \in registered' /\ registered \subseteq registered'
    BY DEF q
  <1>11. DispatchStep(p, running[p], q, pc)
    BY <1>0, <1>1, <1>3, <1>5, <1>7, <1>8, <1>9, <1>10 DEF DispatchStep, DispatchPre, PlaceInv
  <1>12. DispatchPost(p, mem', pc, project') /\ SlotExact' /\ QueueExact' /\ Served'
    BY <1>11, DispatchKeepsPlaces
  <1>13. TypeOK'
    BY <1>0, <1>3, <1>12 DEF DispatchPost, TypeOK
  <1> QED
    BY <1>12, <1>13 DEF PlaceInv

\* Cancel takes a waiting job out of its queue and leaves the slots.
LEMMA CancelKeepsPlaces ==
    ASSUME PlaceInv, NEW j \in Jobs, Cancel(j)
    PROVE  PlaceInv'
  <1> USE JobAssumption, ProjectAssumption DEF Cancel
  <1>0. TypeOK /\ SlotExact /\ QueueExact /\ Served
    BY DEF PlaceInv
  <1>1. /\ mem[j] \in Records /\ mem[j].status \in {"queued", "running"}
        /\ queue \in [Projects -> Seq(Jobs)] /\ project[j] \in Projects
        /\ queue[project[j]] \in Seq(Jobs)
    BY <1>0 DEF TypeOK
  <1>2. Cancelled(mem[j]) \in Records /\ Cancelled(mem[j]).status = "cancelled"
    BY <1>1 DEF Cancelled, Records, Statuses, Terminal
  <1> DEFINE r == Cancelled(mem[j])
             w == Without(queue[project[j]], j)
  <1>3. Settle(j, r) /\ queue' = [queue EXCEPT ![project[j]] = w]
    OBVIOUS
  <1> HIDE DEF r, w
  <1>4. /\ mem' \in [Jobs -> Records] /\ disk' \in [Jobs -> Records]
        /\ unsaved' \in SUBSET Jobs /\ faults' \in 0 .. MaxFaults
        /\ mem'[j].status \in {"cancelled", "failed"}
        /\ \A k \in Jobs : k # j => mem'[k] = mem[k] /\ disk'[k] = disk[k]
    BY <1>0, <1>2, <1>3, SettleKeeps DEF r
  <1>5. /\ w \in Seq(Jobs)
        /\ \A x \in Jobs : (\E i \in DOMAIN w : w[i] = x)
                               <=> (\E i \in DOMAIN queue[project[j]] : queue[project[j]][i] = x) /\ x # j
        /\ \A i, k \in DOMAIN w : w[i] = w[k] => i = k
    BY <1>0, <1>1, WithoutKeeps DEF w, QueueExact
  <1>6. TypeOK'
    <2>1. queue' \in [Projects -> Seq(Jobs)]
      BY <1>1, <1>3, <1>5
    <2>2. stopping' \in SUBSET Jobs /\ cancels' \in 0 .. MaxCancels
      BY <1>0, BoundAssumption DEF TypeOK
    <2>3. \A k \in Jobs : mem'[k].status # "none" \/ disk'[k].status # "none" => project'[k] \in Projects
      BY <1>0, <1>1, <1>4 DEF TypeOK
    <2> QED
      BY <1>0, <1>4, <2>1, <2>2, <2>3 DEF TypeOK
  <1>7. SlotExact'
    BY <1>0 DEF SlotExact
  <1>8. QueueExact'
    <2> SUFFICES ASSUME NEW x \in Projects
                 PROVE  /\ \A k \in Jobs :
                             (\E i \in DOMAIN queue'[x] : queue'[x][i] = k)
                               <=> project[k] = x /\ mem'[k].status = "queued" /\ pc[k] = "idle"
                        /\ \A i, k \in DOMAIN queue'[x] : queue'[x][i] = queue'[x][k] => i = k
      BY DEF QueueExact
    <2>1. /\ \A k \in Jobs : (\E i \in DOMAIN queue[x] : queue[x][i] = k)
                <=> project[k] = x /\ mem[k].status = "queued" /\ pc[k] = "idle"
          /\ \A i, k \in DOMAIN queue[x] : queue[x][i] = queue[x][k] => i = k
      BY <1>0 DEF QueueExact
    <2>2. CASE x = project[j]
      <3>1. queue'[x] = w
        BY <1>1, <1>3, <2>2
      <3>2. \A k \in Jobs : (\E i \in DOMAIN w : w[i] = k)
                <=> project[k] = x /\ mem'[k].status = "queued" /\ pc[k] = "idle"
        BY <1>4, <1>5, <2>1, <2>2
      <3> QED
        BY <1>5, <3>1, <3>2
    <2>3. CASE x # project[j]
      <3>1. queue'[x] = queue[x]
        BY <1>1, <1>3, <2>3
      <3>2. \A k \in Jobs : (\E i \in DOMAIN queue[x] : queue[x][i] = k)
                <=> project[k] = x /\ mem'[k].status = "queued" /\ pc[k] = "idle"
        BY <1>4, <2>1, <2>3
      <3> QED
        BY <2>1, <3>1, <3>2
    <2> QED
      BY <2>2, <2>3
  <1>9. Served'
    <2>1. \A k \in Jobs : pc[k] # "idle" => up /\ mem'[k].status # "none"
      BY <1>0, <1>4 DEF Served
    <2> QED
      BY <1>0, <2>1 DEF Served
  <1> QED
    BY <1>6, <1>7, <1>8, <1>9 DEF PlaceInv

\* A step that neither queues, starts nor ends a job leaves the queues exact.
LEMMA QueuesUntouched ==
    ASSUME QueueExact, UNCHANGED <<queue, project>>,
           \A k \in Jobs : mem'[k].status = "queued" /\ pc'[k] = "idle"
                               <=> mem[k].status = "queued" /\ pc[k] = "idle"
    PROVE  QueueExact'
  <1> SUFFICES ASSUME NEW p \in Projects
               PROVE  /\ \A j \in Jobs :
                           (\E i \in DOMAIN queue[p] : queue[p][i] = j)
                               <=> project[j] = p /\ mem'[j].status = "queued" /\ pc'[j] = "idle"
                      /\ \A i, k \in DOMAIN queue[p] : queue[p][i] = queue[p][k] => i = k
    BY DEF QueueExact
  <1>1. /\ \A j \in Jobs : (\E i \in DOMAIN queue[p] : queue[p][i] = j)
                <=> project[j] = p /\ mem[j].status = "queued" /\ pc[j] = "idle"
        /\ \A i, k \in DOMAIN queue[p] : queue[p][i] = queue[p][k] => i = k
    BY DEF QueueExact
  <1> QED
    BY <1>1

\* runJob's first critical section frees the slot exactly when it gives the job up.
LEMMA RunBeginKeepsPlaces ==
    ASSUME PlaceInv, NEW j \in Jobs, RunBegin(j)
    PROVE  PlaceInv'
  <1> USE JobAssumption, ProjectAssumption DEF RunBegin, files
  <1>0. TypeOK /\ SlotExact /\ QueueExact /\ Served
    BY DEF PlaceInv
  <1>1. /\ mem \in [Jobs -> Records] /\ pc \in [Jobs -> Labels] /\ pc[j] = "spawned"
        /\ running \in [Projects -> Jobs \cup {None}] /\ clone \in [Jobs -> Records]
        /\ mem[j].status # "none" /\ project[j] \in Projects
    BY <1>0 DEF TypeOK, Served
  <1>2. running[project[j]] = j
    BY <1>0, <1>1 DEF SlotExact
  <1>3. CASE mem[j].status \in Terminal
    <2>1. /\ running' = [running EXCEPT ![project[j]] = None]
          /\ pc' = [pc EXCEPT ![j] = "idle"] /\ UNCHANGED <<mem, clone>>
      BY <1>1, <1>2, <1>3
    <2>2. TypeOK'
      BY <1>0, <1>1, <2>1 DEF TypeOK, Labels
    <2>3. SlotExact'
      <3> SUFFICES ASSUME NEW p \in Projects, NEW k \in Jobs
                   PROVE  running'[p] = k <=> project[k] = p /\ pc'[k] # "idle"
        BY DEF SlotExact
      <3>1. running[p] = k <=> project[k] = p /\ pc[k] # "idle"
        BY <1>0 DEF SlotExact
      <3>2. running[project[j]] = k <=> project[k] = project[j] /\ pc[k] # "idle"
        BY <1>0, <1>1 DEF SlotExact
      <3> QED
        BY <1>1, <1>2, <2>1, <3>1, <3>2
    <2>4. QueueExact'
      <3>1. mem[j].status # "queued" /\ \A k \in Jobs : k # j => pc'[k] = pc[k]
        BY <1>1, <1>3, <2>1 DEF Terminal
      <3>2. \A k \in Jobs : mem'[k].status = "queued" /\ pc'[k] = "idle"
                                <=> mem[k].status = "queued" /\ pc[k] = "idle"
        BY <1>1, <2>1, <3>1
      <3> QED
        BY <1>0, <3>2, QueuesUntouched
    <2>5. Served'
      BY <1>0, <1>1, <2>1 DEF Served
    <2> QED
      BY <2>2, <2>3, <2>4, <2>5 DEF PlaceInv
  <1>4. CASE mem[j].status \notin Terminal
    <2>1. /\ mem' = [mem EXCEPT ![j] = Begun(mem[j])]
          /\ clone' = [clone EXCEPT ![j] = mem'[j]]
          /\ pc' = [pc EXCEPT ![j] = "save"] /\ UNCHANGED running
      BY <1>4
    <2>2. /\ mem' \in [Jobs -> Records] /\ mem'[j].status = "running"
          /\ \A k \in Jobs : k # j => mem'[k] = mem[k] /\ pc'[k] = pc[k]
          /\ clone' \in [Jobs -> Records] /\ pc' \in [Jobs -> Labels] /\ pc'[j] = "save"
      <3>1. mem[j] \in Records
        BY <1>1
      <3>2. Begun(mem[j]) \in Records /\ Begun(mem[j]).status = "running"
        BY <3>1 DEF Begun, Records, Statuses
      <3> QED
        BY <1>1, <2>1, <3>2 DEF Labels
    <2>3. TypeOK'
      BY <1>0, <1>1, <2>1, <2>2 DEF TypeOK
    <2>4. SlotExact'
      BY <1>0, <1>1, <2>1, <2>2 DEF SlotExact
    <2>5. QueueExact'
      <3>1. \A k \in Jobs : mem'[k].status = "queued" /\ pc'[k] = "idle"
                                <=> mem[k].status = "queued" /\ pc[k] = "idle"
        BY <1>1, <2>2
      <3> QED
        BY <1>0, <3>1, QueuesUntouched
    <2>6. Served'
      BY <1>0, <1>1, <2>1, <2>2 DEF Served
    <2> QED
      BY <2>3, <2>4, <2>5, <2>6 DEF PlaceInv
  <1> QED
    BY <1>3, <1>4

\* finishJob with a record that is neither queued nor absent.
LEMMA FinishJobKeepsPlaces ==
    ASSUME PlaceInv, NEW j \in Jobs, NEW r \in Records,
           pc[j] # "idle", r.status \notin {"none", "queued"},
           FinishJob(j, r)
    PROVE  PlaceInv' /\ DispatchPost(project[j], mem', [pc EXCEPT ![j] = "idle"], project')
  <1> USE JobAssumption, ProjectAssumption
  <1> DEFINE p == project[j]
             at == [pc EXCEPT ![j] = "idle"]
  <1>0. TypeOK /\ SlotExact /\ QueueExact /\ Served
    BY DEF PlaceInv
  <1>1. /\ p \in Projects /\ pc \in [Jobs -> Labels] /\ up
        /\ queue[p] \in Seq(Jobs) /\ [queue EXCEPT ![p] = queue[p]] = queue
        /\ running \in [Projects -> Jobs \cup {None}]
    BY <1>0 DEF TypeOK, Served
  <1>2. running[p] = j
    BY <1>0, <1>1 DEF SlotExact
  <1>3. /\ Settle(j, r) /\ DispatchNext(p, None, queue[p], mem', at)
        /\ UNCHANGED <<registered, up, project, clone, stopping, ran, cancels, crashes>>
    BY <1>2 DEF FinishJob
  <1>4. /\ mem' \in [Jobs -> Records] /\ disk' \in [Jobs -> Records]
        /\ unsaved' \in SUBSET Jobs /\ faults' \in 0 .. MaxFaults
        /\ mem'[j].status \notin {"none", "queued"}
        /\ \A k \in Jobs : k # j => mem'[k] = mem[k] /\ disk'[k] = disk[k]
    BY <1>0, <1>3, SettleKeeps
  <1>5. /\ at \in [Jobs -> Labels] /\ at[j] = "idle"
        /\ \A k \in Jobs : k # j => at[k] = pc[k]
    BY <1>1 DEF Labels
  <1>6. p \in registered
    BY <1>0, <1>1, <1>2 DEF Served
  <1> HIDE DEF at
  <1>7. SlotsOK(project', [running EXCEPT ![p] = None], at)
    <2> SUFFICES ASSUME NEW x \in Projects, NEW k \in Jobs
                 PROVE  [running EXCEPT ![p] = None][x] = k <=> project[k] = x /\ at[k] # "idle"
      BY <1>3 DEF SlotsOK
    <2>1. /\ running[x] = k <=> project[k] = x /\ pc[k] # "idle"
          /\ running[p] = k <=> project[k] = p /\ pc[k] # "idle"
      BY <1>0, <1>1 DEF SlotExact
    <2> QED
      BY <1>1, <1>2, <1>5, <2>1
  <1>8. QueuesOK(project', mem', [queue EXCEPT ![p] = queue[p]], at)
    <2>1. \A k \in Jobs : mem'[k].status = "queued" /\ at[k] = "idle"
                              <=> mem[k].status = "queued" /\ pc[k] = "idle"
      BY <1>4, <1>5
    <2> SUFFICES ASSUME NEW x \in Projects
                 PROVE  /\ \A k \in Jobs :
                             (\E i \in DOMAIN queue[x] : queue[x][i] = k)
                                 <=> project[k] = x /\ mem'[k].status = "queued" /\ at[k] = "idle"
                        /\ \A i, k \in DOMAIN queue[x] : queue[x][i] = queue[x][k] => i = k
      BY <1>1, <1>3 DEF QueuesOK
    <2>2. /\ \A k \in Jobs : (\E i \in DOMAIN queue[x] : queue[x][i] = k)
                <=> project[k] = x /\ mem[k].status = "queued" /\ pc[k] = "idle"
          /\ \A i, k \in DOMAIN queue[x] : queue[x][i] = queue[x][k] => i = k
      BY <1>0 DEF QueueExact
    <2> QED
      BY <2>1, <2>2
  <1>9. \A k \in Jobs : at[k] # "idle" => mem'[k].status # "none"
    BY <1>0, <1>4, <1>5 DEF Served
  <1>10. DispatchStep(p, None, queue[p], at)
    BY <1>0, <1>1, <1>3, <1>4, <1>5, <1>6, <1>7, <1>8, <1>9 DEF DispatchStep, DispatchPre, PlaceInv
  <1>11. DispatchPost(p, mem', at, project') /\ SlotExact' /\ QueueExact' /\ Served'
    BY <1>10, DispatchKeepsPlaces
  <1>12. TypeOK'
    <2>1. \A k \in Jobs : mem'[k].status # "none" \/ disk'[k].status # "none"
                              => project'[k] \in Projects
      BY <1>0, <1>1, <1>3, <1>4 DEF TypeOK
    <2> QED
      BY <1>0, <1>3, <1>4, <1>11, <2>1 DEF DispatchPost, TypeOK
  <1> QED
    BY <1>11, <1>12 DEF PlaceInv, at

\* The end of a run, called or refused, frees the slot and dispatches.
LEMMA FinishKeepsPlaces ==
    ASSUME PlaceInv, NEW j \in Jobs, Finish(j) \/ FinishRefused(j)
    PROVE  PlaceInv' /\ DispatchPost(project[j], mem', [pc EXCEPT ![j] = "idle"], project')
  <1>1. mem[j] \in Records
    BY DEF PlaceInv, TypeOK
  <1>2. ASSUME NEW s \in Outcomes(ctx[j]), pc[j] = "run",
               FinishJob(j, Ended(mem[j], s))
        PROVE  PlaceInv' /\ DispatchPost(project[j], mem', [pc EXCEPT ![j] = "idle"], project')
    <2>1. s \in {"timed_out", "cancelled", "completed", "failed"}
      BY DEF Outcomes
    <2>2. Ended(mem[j], s) \in Records /\ Ended(mem[j], s).status = s
      BY <1>1, <2>1 DEF Ended, Records, Statuses, Terminal
    <2> QED
      BY <1>2, <2>1, <2>2, FinishJobKeepsPlaces
  <1>3. CASE FinishRefused(j)
    <2>1. /\ [mem[j] EXCEPT !.status = "failed"] \in Records
          /\ [mem[j] EXCEPT !.status = "failed"].status \notin {"none", "queued"}
      BY <1>1 DEF Records, Statuses, Terminal
    <2> QED
      BY <1>3, <2>1, FinishJobKeepsPlaces DEF FinishRefused
  <1> QED
    BY <1>2, <1>3 DEF Finish

\* Nothing is at work or in a queue after the end of the process.
LEMMA CrashKeepsPlaces ==
    ASSUME PlaceInv, Crash
    PROVE  PlaceInv'
  <1> USE JobAssumption, ProjectAssumption, BoundAssumption DEF Crash, files
  <1>1. TypeOK'
    <2>1. Absent \in Records /\ Absent.status = "none"
      BY DEF Absent, Records, Statuses
    <2>2. mem' \in [Jobs -> Records] /\ clone' \in [Jobs -> Records]
      BY <2>1
    <2>3. \A j \in Jobs : mem'[j].status # "none" \/ disk'[j].status # "none"
                              => project'[j] \in Projects
      BY <2>1 DEF PlaceInv, TypeOK
    <2>4. /\ queue' \in [Projects -> Seq(Jobs)] /\ running' \in [Projects -> Jobs \cup {None}]
          /\ ctx' \in [Jobs -> Contexts] /\ pc' \in [Jobs -> Labels]
      BY DEF Contexts, Labels
    <2>5. crashes' \in 0 .. MaxCrashes
      BY DEF PlaceInv, TypeOK
    <2> QED
      BY <2>2, <2>3, <2>4, <2>5 DEF PlaceInv, TypeOK
  <1>2. SlotExact'
    BY DEF SlotExact
  <1>3. QueueExact'
    BY DEF QueueExact, Absent
  <1>4. Served'
    BY DEF Served
  <1> QED
    BY <1>1, <1>2, <1>3, <1>4 DEF PlaceInv

\* load makes an orphan of what was at work and keeps every other record.
LEMMA ReloadedRecord ==
    ASSUME NEW r \in Records
    PROVE  /\ Reloaded(r) \in Records
           /\ Reloaded(r).started = r.started
           /\ Reloaded(r).status = "none" => r.status = "none"
           /\ \/ Reloaded(r) = r
              \/ Reloaded(r).status = "orphaned" /\ Reloaded(r).finished
           /\ r.status \in Terminal => Reloaded(r) = r
           /\ Reloaded(r).status = "queued" => ~r.started
           /\ Reloaded(r).status # "running"
  <1>1. /\ Ended(r, "orphaned") \in Records /\ Ended(r, "orphaned").status = "orphaned"
        /\ Ended(r, "orphaned").finished /\ Ended(r, "orphaned").started = r.started
    BY DEF Ended, Records, Statuses, Terminal
  <1>2. r.status \in Statuses
    BY DEF Records
  <1> QED
    BY <1>1, <1>2 DEF Reloaded, Statuses, Terminal

\* An order of a finite set of jobs is a queue with each of them once.
LEMMA OrderOfSet ==
    ASSUME NEW S \in SUBSET Jobs, NEW q \in Orders(S)
    PROVE  /\ q \in Seq(Jobs)
           /\ \A j \in Jobs : (\E i \in DOMAIN q : q[i] = j) <=> j \in S
           /\ \A i, k \in DOMAIN q : q[i] = q[k] => i = k
  <1>1. Cardinality(S) \in Nat
    BY JobAssumption, FS_Subset, FS_CardinalityType
  <1>2. /\ q \in [1 .. Cardinality(S) -> S]
        /\ \A j \in S : \E i \in DOMAIN q : q[i] = j
        /\ \A i, k \in DOMAIN q : q[i] = q[k] => i = k
    BY DEF Orders
  <1>3. q \in Seq(S)
    BY <1>1, <1>2
  <1> QED
    BY <1>2, <1>3

\* load puts exactly the waiting jobs into the queues of their projects.
LEMMA LoadKeepsPlaces ==
    ASSUME PlaceInv, Load
    PROVE  PlaceInv'
  <1> USE JobAssumption, ProjectAssumption DEF Load
  <1>0. TypeOK /\ SlotExact /\ QueueExact /\ Served
    BY DEF PlaceInv
  <1>1. /\ disk \in [Jobs -> Records] /\ ~up
        /\ \A j \in Jobs : disk[j] \in Records
    BY <1>0 DEF TypeOK
  <1>2. /\ mem' \in [Jobs -> Records] /\ disk' = mem'
        /\ \A j \in Jobs : mem'[j] = Reloaded(disk[j])
        /\ \A j \in Jobs : disk[j].status = "none" => mem'[j].status = "none"
    <2>1. \A j \in Jobs : Reloaded(disk[j]) \in Records
      BY <1>1, ReloadedRecord
    <2>2. \A j \in Jobs : disk[j].status = "none" => Reloaded(disk[j]).status = "none"
      BY DEF Reloaded
    <2> QED
      BY <2>1, <2>2
  <1> DEFINE Waiting(p) == {j \in Jobs : project[j] = p /\ mem'[j].status = "queued"}
  <1>3. \A p \in Projects : queue'[p] \in Orders(Waiting(p))
    OBVIOUS
  <1>4. \A p \in Projects : Waiting(p) \in SUBSET Jobs
    OBVIOUS
  <1> HIDE DEF Waiting
  <1>5. \A p \in Projects :
            /\ queue'[p] \in Seq(Jobs)
            /\ \A j \in Jobs : (\E i \in DOMAIN queue'[p] : queue'[p][i] = j) <=> j \in Waiting(p)
            /\ \A i, k \in DOMAIN queue'[p] : queue'[p][i] = queue'[p][k] => i = k
    BY <1>3, <1>4, OrderOfSet
  <1>6. \A j \in Jobs : pc[j] = "idle"
    BY <1>0, <1>1 DEF Served
  <1>7. QueueExact'
    BY <1>5, <1>6 DEF QueueExact, Waiting
  <1>8. SlotExact'
    BY <1>0 DEF SlotExact
  <1>9. Served'
    BY <1>0, <1>6 DEF Served
  <1>10. TypeOK'
    <2>1. queue' \in [Projects -> Seq(Jobs)]
      <3>1. queue' \in [Projects -> UNION {Orders({j \in Jobs : project[j] = p /\ mem'[j].status = "queued"}) : p \in Projects}]
        OBVIOUS
      <3> QED
        BY <1>5, <3>1
    <2>2. \A j \in Jobs : mem'[j].status # "none" \/ disk'[j].status # "none" => project[j] \in Projects
      BY <1>0, <1>2 DEF TypeOK
    <2> QED
      BY <1>0, <1>2, <2>1, <2>2 DEF TypeOK
  <1> QED
    BY <1>7, <1>8, <1>9, <1>10 DEF PlaceInv

\* The steps of a goroutine that saves, of a cancel() call and of a timer.
LEMMA QuietActionsKeepPlaces ==
    ASSUME PlaceInv, NEW j \in Jobs,
           \/ CancelContext(j) \/ Expire(j) \/ SaveRunning(j) \/ RecordEvent(j) \/ SaveEvent(j)
    PROVE  PlaceInv'
  <1> USE BoundAssumption DEF files
  <1>0. TypeOK /\ Served
    BY DEF PlaceInv
  <1>1. CASE CancelContext(j) \/ Expire(j)
    <2>1. TypeOK'
      BY <1>0, <1>1 DEF CancelContext, Expire, TypeOK, Contexts
    <2> QED
      BY <1>1, <2>1, QuietKeepsPlaces DEF CancelContext, Expire
  <1>2. CASE SaveRunning(j) \/ SaveEvent(j)
    <2>1. pc[j] \in {"save", "event"} /\ pc' \in [Jobs -> Labels] /\ pc'[j] # "idle"
          /\ \A k \in Jobs : k # j => pc'[k] = pc[k]
      BY <1>0, <1>2 DEF SaveRunning, SaveEvent, TypeOK, Labels
    <2>2. project[j] \in Projects
      BY <1>0, <2>1 DEF Served, TypeOK
    <2>3. /\ disk' \in [Jobs -> Records] /\ faults' \in 0 .. MaxFaults
          /\ \A k \in Jobs : k # j => disk'[k] = disk[k]
      <3>1. Saved(j, clone[j]) \/ NotSaved
        BY <1>2 DEF SaveRunning, SaveEvent
      <3> QED
        BY <1>0, <3>1 DEF Saved, NotSaved, TypeOK
    <2>4. ran' \in SUBSET Jobs
      BY <1>0, <1>2 DEF SaveRunning, SaveEvent, TypeOK
    <2>5. UNCHANGED <<up, registered, project, mem, queue, running, ctx, clone, stopping,
                      unsaved, cancels, crashes>>
      BY <1>2 DEF SaveRunning, SaveEvent
    <2>6. TypeOK'
      <3>1. \A k \in Jobs : mem'[k].status # "none" \/ disk'[k].status # "none"
                                => project'[k] \in Projects
        BY <1>0, <2>2, <2>3, <2>5 DEF TypeOK
      <3> QED
        BY <1>0, <2>1, <2>3, <2>4, <2>5, <3>1 DEF TypeOK
    <2> QED
      BY <2>1, <2>5, <2>6, QuietKeepsPlaces
  <1>3. CASE RecordEvent(j)
    <2>1. TypeOK'
      BY <1>0, <1>3 DEF RecordEvent, TypeOK, Labels
    <2>2. \A k \in Jobs : pc'[k] = "idle" <=> pc[k] = "idle"
      BY <1>0, <1>3 DEF RecordEvent, TypeOK
    <2> QED
      BY <1>3, <2>1, <2>2, QuietKeepsPlaces DEF RecordEvent
  <1> QED
    BY <1>1, <1>2, <1>3

\* Every step keeps slots and queues exact.
THEOREM NextPlace == PlaceInv /\ [Next]_vars => PlaceInv'
  <1> SUFFICES ASSUME PlaceInv, [Next]_vars
               PROVE  PlaceInv'
    OBVIOUS
  <1>1. CASE \E p \in Projects : RegisterProject(p)
    BY <1>1, RegisterKeepsPlaces
  <1>2. CASE \E p \in Projects, j \in Jobs : Start(p, j)
    BY <1>2, StartKeepsPlaces
  <1>3. CASE \E j \in Jobs : Cancel(j) \/ CancelContext(j) \/ Expire(j)
    BY <1>3, CancelKeepsPlaces, QuietActionsKeepPlaces
  <1>4. CASE \E j \in Jobs : RunJob(j) \/ RecordEvent(j) \/ Finish(j)
    BY <1>4, RunBeginKeepsPlaces, QuietActionsKeepPlaces, FinishKeepsPlaces DEF RunJob
  <1>5. CASE Crash
    BY <1>5, CrashKeepsPlaces
  <1>6. CASE Load
    BY <1>6, LoadKeepsPlaces
  <1>7. CASE UNCHANGED vars
    <2>1. TypeOK'
      BY <1>7 DEF PlaceInv, TypeOK, vars
    <2> QED
      BY <1>7, <2>1, QuietKeepsPlaces DEF vars
  <1> QED
    BY <1>1, <1>2, <1>3, <1>4, <1>5, <1>6, <1>7 DEF Next

\* Slots and queues are exact in every reachable state.
THEOREM Places == Spec => []PlaceInv
  BY InitPlace, NextPlace, PTL DEF Spec

\* Every variable keeps its type, and every known job has a project.
THEOREM TypeCorrect == Spec => []TypeOK
  <1>1. PlaceInv => TypeOK
    BY DEF PlaceInv
  <1> QED
    BY <1>1, Places, PTL

\* The slot of a project is taken by job j exactly while a goroutine of runJob has j.
THEOREM Slots == Spec => []SlotExact
  <1>1. PlaceInv => SlotExact
    BY DEF PlaceInv
  <1> QED
    BY <1>1, Places, PTL

\* The queue of a project has each of its waiting jobs once, and nothing else.
THEOREM Queues == Spec => []QueueExact
  <1>1. PlaceInv => QueueExact
    BY DEF PlaceInv
  <1> QED
    BY <1>1, Places, PTL

-----------------------------------------------------------------------------
(* Memory, files and runs. *)

\* What holds of one job: finished means terminal; a goroutine works on a job that is
\* started and not finished, and so is the copy it will save; a file that says how the
\* job finished agrees with memory, and memory with the file unless a save failed;
\* a job whose runner was called says in memory and in its file that it was started.
RecordOK(j) ==
    /\ mem[j].finished => mem[j].status \in Terminal
    /\ disk[j].finished => disk[j].status \in Terminal
    /\ mem[j].status = "queued" => ~mem[j].started
    /\ mem[j].status = "running" => mem[j].started /\ ~mem[j].finished
    /\ pc[j] = "spawned" => /\ ~mem[j].started
                            /\ mem[j].status \in Terminal => mem[j].finished
    /\ pc[j] \in {"save", "refused", "run", "event"} => mem[j].started /\ ~mem[j].finished
    /\ pc[j] \in {"save", "event"} => clone[j].started /\ ~clone[j].finished
    /\ pc[j] # "idle" => ctx[j] # "none"
    /\ up /\ disk[j].finished => mem[j] = disk[j]
    /\ mem[j].finished /\ j \notin unsaved => disk[j] = mem[j]
    /\ j \in ran => disk[j].started
    /\ up /\ j \in ran => mem[j].started
    /\ pc[j] \in {"spawned", "save"} => j \notin ran

RecordInv == \A j \in Jobs : RecordOK(j)

\* RecordOK of a job that a step does not touch.
LEMMA RecordUntouched ==
    ASSUME NEW k \in Jobs, RecordOK(k), up' => up,
           mem'[k] = mem[k], disk'[k] = disk[k], clone'[k] = clone[k], pc'[k] = pc[k],
           ctx'[k] = "none" => ctx[k] = "none",
           k \in ran' <=> k \in ran, k \in unsaved' <=> k \in unsaved
    PROVE  RecordOK(k)'
  BY DEF RecordOK

\* RecordOK of a waiting job that a step dispatches.
LEMMA RecordDispatched ==
    ASSUME NEW k \in Jobs, RecordOK(k), up,
           mem'[k] = mem[k], disk'[k] = disk[k], clone'[k] = clone[k],
           mem[k].status = "queued", pc'[k] = "spawned", ctx'[k] = "live",
           k \in ran' <=> k \in ran, k \in unsaved' <=> k \in unsaved
    PROVE  RecordOK(k)'
  BY DEF RecordOK, Terminal

\* At start-up memory and files know no job.
LEMMA InitRecords == Init => RecordInv
  BY DEF Init, RecordInv, RecordOK, Absent

\* RegisterProject changes no record.
LEMMA RegisterKeepsRecords ==
    ASSUME PlaceInv, RecordInv, NEW p \in Projects, RegisterProject(p)
    PROVE  RecordInv'
  <1>1. DispatchPost(p, mem', pc, project')
    BY RegisterKeepsPlaces
  <1>2. UNCHANGED <<mem, disk, clone, ran, unsaved, up>> /\ up
    BY DEF RegisterProject, files
  <1> SUFFICES ASSUME NEW k \in Jobs
               PROVE  RecordOK(k)'
    BY DEF RecordInv
  <1>3. RecordOK(k)
    BY DEF RecordInv
  <1>4. \/ pc'[k] = pc[k] /\ ctx'[k] = ctx[k]
        \/ pc'[k] = "spawned" /\ mem'[k].status = "queued" /\ ctx'[k] = "live"
    BY <1>1 DEF DispatchPost
  <1> QED
    BY <1>2, <1>3, <1>4, RecordUntouched, RecordDispatched

\* Start saves the new job before anything can run it.
LEMMA StartKeepsRecords ==
    ASSUME PlaceInv, RecordInv, NEW p \in Projects, NEW j \in Jobs, Start(p, j)
    PROVE  RecordInv'
  <1>1. DispatchPost(p, mem', pc, project')
    BY StartKeepsPlaces
  <1>2. /\ UNCHANGED <<clone, ran, unsaved, up>> /\ up
        /\ mem[j] = Absent /\ disk[j] = Absent
        /\ mem' = [mem EXCEPT ![j] = Fresh] /\ disk' = [disk EXCEPT ![j] = Fresh]
    BY DEF Start, Saved
  <1>3. mem \in [Jobs -> Records] /\ disk \in [Jobs -> Records]
    BY DEF PlaceInv, TypeOK
  <1> SUFFICES ASSUME NEW k \in Jobs
               PROVE  RecordOK(k)'
    BY DEF RecordInv
  <1>4. RecordOK(k)
    BY DEF RecordInv
  <1>5. \/ pc'[k] = pc[k] /\ ctx'[k] = ctx[k]
        \/ /\ pc'[k] = "spawned" /\ mem'[k].status = "queued" /\ ctx'[k] = "live"
           /\ pc[k] = "idle"
    BY <1>1 DEF DispatchPost
  <1>6. CASE k # j
    <2>1. mem'[k] = mem[k] /\ disk'[k] = disk[k]
      BY <1>2, <1>3, <1>6
    <2> QED
      BY <1>2, <1>4, <1>5, <2>1, RecordUntouched, RecordDispatched
  <1>7. CASE k = j
    <2>1. mem'[k] = Fresh /\ disk'[k] = Fresh
      BY <1>2, <1>3, <1>7
    <2>2. pc[k] = "idle"
      BY <1>2, <1>7 DEF PlaceInv, Served, Absent
    <2>3. k \notin ran
      BY <1>2, <1>4, <1>7 DEF RecordOK, Absent
    <2> QED
      BY <1>2, <1>5, <2>1, <2>2, <2>3 DEF RecordOK, Fresh, Terminal
  <1> QED
    BY <1>6, <1>7

\* Cancel finds no finished job, and saves what it leaves under the lock.
LEMMA CancelKeepsRecords ==
    ASSUME PlaceInv, RecordInv, NEW j \in Jobs, Cancel(j)
    PROVE  RecordInv'
  <1> DEFINE r == Cancelled(mem[j])
  <1>1. /\ mem[j] \in Records /\ mem[j].status \in {"queued", "running"} /\ up
        /\ UNCHANGED <<up, pc, clone, ran, ctx>> /\ TypeOK
    BY DEF Cancel, PlaceInv, TypeOK
  <1>2. /\ r \in Records /\ r.status = "cancelled" /\ r.started = mem[j].started
        /\ r.finished = (mem[j].finished \/ mem[j].status = "queued" \/ ~mem[j].started)
    BY <1>1 DEF Cancelled, Records, Statuses, Terminal
  <1>3. Settle(j, r)
    BY DEF Cancel
  <1> HIDE DEF r
  <1>4. /\ mem' \in [Jobs -> Records]
        /\ mem'[j].started = r.started /\ mem'[j].finished = r.finished
        /\ \/ mem'[j] = r /\ disk'[j] = r /\ unsaved' = unsaved \ {j}
           \/ /\ mem'[j].status = "failed" /\ disk'[j] = disk[j]
              /\ unsaved' = unsaved \cup {j}
        /\ \A k \in Jobs : k # j => mem'[k] = mem[k] /\ disk'[k] = disk[k]
    BY <1>1, <1>2, <1>3, SettleKeeps
  <1> SUFFICES ASSUME NEW k \in Jobs
               PROVE  RecordOK(k)'
    BY DEF RecordInv
  <1>5. RecordOK(k)
    BY DEF RecordInv
  <1>6. CASE k # j
    <2>1. k \in unsaved' <=> k \in unsaved
      BY <1>4, <1>6
    <2> QED
      BY <1>1, <1>4, <1>5, <1>6, <2>1, RecordUntouched
  <1>7. CASE k = j
    <2>1. ~disk[j].finished
      BY <1>1, <1>5, <1>7 DEF RecordOK, Terminal
    <2>2. CASE mem'[j] = r /\ disk'[j] = r
      BY <1>1, <1>2, <1>4, <1>5, <1>7, <2>2 DEF RecordOK, Terminal
    <2>3. CASE mem'[j].status = "failed" /\ disk'[j] = disk[j] /\ unsaved' = unsaved \cup {j}
      BY <1>1, <1>2, <1>4, <1>5, <1>7, <2>1, <2>3 DEF RecordOK, Terminal
    <2> QED
      BY <1>4, <2>2, <2>3
  <1> QED
    BY <1>6, <1>7

\* finishJob, which saves under the lock, leaves memory and file agreed or the job unsaved.
LEMMA FinishJobKeepsRecords ==
    ASSUME PlaceInv, RecordInv, NEW j \in Jobs, NEW r \in Records,
           pc[j] \in {"refused", "run"}, r.status \in Terminal, r.started = mem[j].started,
           FinishJob(j, r)
    PROVE  RecordInv'
  <1> DEFINE at == [pc EXCEPT ![j] = "idle"]
  <1>0. TypeOK /\ pc \in [Jobs -> Labels] /\ up
    BY DEF PlaceInv, TypeOK, Served
  <1>1. DispatchPost(project[j], mem', at, project')
    BY FinishJobKeepsPlaces DEF Terminal
  <1>2. UNCHANGED <<up, clone, ran>> /\ Settle(j, r)
    BY DEF FinishJob
  <1>3. /\ mem'[j].started = r.started /\ mem'[j].finished = r.finished
        /\ \/ mem'[j] = r /\ disk'[j] = r /\ unsaved' = unsaved \ {j}
           \/ /\ mem'[j].status = "failed" /\ disk'[j] = disk[j]
              /\ unsaved' = unsaved \cup {j}
        /\ \A k \in Jobs : k # j => mem'[k] = mem[k] /\ disk'[k] = disk[k]
    BY <1>0, <1>2, SettleKeeps
  <1>4. at[j] = "idle" /\ \A k \in Jobs : k # j => at[k] = pc[k]
    BY <1>0
  <1> HIDE DEF at
  <1> SUFFICES ASSUME NEW k \in Jobs
               PROVE  RecordOK(k)'
    BY DEF RecordInv
  <1>5. RecordOK(k)
    BY DEF RecordInv
  <1>6. \/ pc'[k] = at[k] /\ ctx'[k] = ctx[k]
        \/ pc'[k] = "spawned" /\ mem'[k].status = "queued" /\ ctx'[k] = "live"
    BY <1>1 DEF DispatchPost
  <1>7. CASE k # j
    <2>1. k \in unsaved' <=> k \in unsaved
      BY <1>3, <1>7
    <2> QED
      BY <1>0, <1>2, <1>3, <1>4, <1>5, <1>6, <1>7, <2>1, RecordUntouched, RecordDispatched
  <1>8. CASE k = j
    <2>1. pc'[j] = "idle"
      BY <1>3, <1>4, <1>6, <1>8 DEF Terminal
    <2>2. mem[j].started /\ ~mem[j].finished /\ ~disk[j].finished
      BY <1>0, <1>5, <1>8 DEF RecordOK
    <2>3. CASE mem'[j] = r /\ disk'[j] = r
      BY <1>2, <1>8, <2>1, <2>2, <2>3 DEF RecordOK, Terminal
    <2>4. CASE mem'[j].status = "failed" /\ disk'[j] = disk[j] /\ unsaved' = unsaved \cup {j}
      BY <1>2, <1>3, <1>5, <1>8, <2>1, <2>2, <2>4 DEF RecordOK, Terminal
    <2> QED
      BY <1>3, <2>3, <2>4
  <1> QED
    BY <1>7, <1>8

\* Both uses of finishJob satisfy what FinishJobKeepsRecords assumes.
LEMMA FinishKeepsRecords ==
    ASSUME PlaceInv, RecordInv, NEW j \in Jobs, Finish(j) \/ FinishRefused(j)
    PROVE  RecordInv'
  <1>0. mem[j] \in Records
    BY DEF PlaceInv, TypeOK
  <1>1. ASSUME NEW s \in Outcomes(ctx[j]), pc[j] = "run", FinishJob(j, Ended(mem[j], s))
        PROVE  RecordInv'
    <2>1. s \in Terminal
      BY DEF Outcomes, Terminal
    <2>2. /\ Ended(mem[j], s) \in Records /\ Ended(mem[j], s).status \in Terminal
          /\ Ended(mem[j], s).started = mem[j].started
      BY <1>0, <2>1 DEF Ended, Records, Statuses
    <2> QED
      BY <1>1, <2>2, FinishJobKeepsRecords
  <1>2. CASE FinishRefused(j)
    <2> DEFINE r == [mem[j] EXCEPT !.status = "failed"]
    <2>1. r \in Records /\ r.status \in Terminal /\ r.started = mem[j].started
      BY <1>0 DEF Records, Statuses, Terminal
    <2>2. pc[j] = "refused" /\ FinishJob(j, r)
      BY <1>2 DEF FinishRefused
    <2> HIDE DEF r
    <2> QED
      BY <2>1, <2>2, FinishJobKeepsRecords
  <1> QED
    BY <1>1, <1>2 DEF Finish

\* Only a job that is not terminal, hence not finished, begins to run.
LEMMA RunBeginKeepsRecords ==
    ASSUME PlaceInv, RecordInv, NEW j \in Jobs, RunBegin(j)
    PROVE  RecordInv'
  <1>0. /\ TypeOK /\ mem \in [Jobs -> Records] /\ clone \in [Jobs -> Records]
        /\ pc \in [Jobs -> Labels] /\ up /\ pc[j] = "spawned"
        /\ UNCHANGED <<up, disk, ctx, ran, unsaved>>
    BY DEF PlaceInv, TypeOK, Served, RunBegin, files
  <1> SUFFICES ASSUME NEW k \in Jobs
               PROVE  RecordOK(k)'
    BY DEF RecordInv
  <1>1. RecordOK(k)
    BY DEF RecordInv
  <1>2. CASE mem[j].status \in Terminal /\ pc' = [pc EXCEPT ![j] = "idle"] /\ UNCHANGED <<mem, clone>>
    BY <1>0, <1>1, <1>2 DEF RecordOK
  <1>3. CASE /\ mem[j].status \notin Terminal
             /\ mem' = [mem EXCEPT ![j] = Begun(@)]
             /\ clone' = [clone EXCEPT ![j] = mem'[j]]
             /\ pc' = [pc EXCEPT ![j] = "save"]
    <2>1. CASE k # j
      BY <1>0, <1>1, <1>3, <2>1, RecordUntouched
    <2>2. CASE k = j
      <3>1. /\ mem'[j] = Begun(mem[j]) /\ clone'[j] = Begun(mem[j]) /\ pc'[j] = "save"
        BY <1>0, <1>3
      <3>2. /\ Begun(mem[j]).status = "running" /\ Begun(mem[j]).started
            /\ Begun(mem[j]).finished = mem[j].finished
        BY <1>0 DEF Begun, Records
      <3>3. ~mem[j].finished /\ ~disk[j].finished /\ j \notin ran
        BY <1>0, <1>1, <1>3, <2>2 DEF RecordOK
      <3> QED
        BY <1>0, <1>1, <2>2, <3>1, <3>2, <3>3 DEF RecordOK, Terminal
    <2> QED
      BY <2>1, <2>2
  <1> QED
    BY <1>2, <1>3 DEF RunBegin

\* The copies saved outside the lock are of jobs that have not finished since.
LEMMA SavesKeepRecords ==
    ASSUME PlaceInv, RecordInv, NEW j \in Jobs, SaveRunning(j) \/ SaveEvent(j)
    PROVE  RecordInv'
  <1>0. /\ TypeOK /\ disk \in [Jobs -> Records] /\ pc \in [Jobs -> Labels] /\ up
        /\ pc[j] \in {"save", "event"}
        /\ UNCHANGED <<up, mem, ctx, clone, unsaved>>
    BY DEF PlaceInv, TypeOK, Served, SaveRunning, SaveEvent
  <1> SUFFICES ASSUME NEW k \in Jobs
               PROVE  RecordOK(k)'
    BY DEF RecordInv
  <1>1. RecordOK(k)
    BY DEF RecordInv
  <1>2. /\ \A i \in Jobs : i # j => disk'[i] = disk[i] /\ pc'[i] = pc[i]
        /\ disk'[j] = clone[j] \/ disk'[j] = disk[j]
        /\ pc'[j] \in {"run", "refused"}
    BY <1>0 DEF SaveRunning, SaveEvent, Saved, NotSaved
  <1>3. CASE k # j
    <2>1. k \in ran' <=> k \in ran
      BY <1>3 DEF SaveRunning, SaveEvent
    <2> QED
      BY <1>0, <1>1, <1>2, <1>3, <2>1, RecordUntouched
  <1>4. CASE k = j
    <2>1. mem[j].started /\ ~mem[j].finished /\ clone[j].started /\ ~clone[j].finished
          /\ ctx[j] # "none" /\ ~disk[j].finished
      BY <1>0, <1>1, <1>4 DEF RecordOK
    <2>2. j \in ran' => disk'[j].started
      BY <1>0, <1>1, <1>4, <2>1 DEF SaveRunning, SaveEvent, Saved, NotSaved, RecordOK
    <2> QED
      BY <1>0, <1>1, <1>2, <1>4, <2>1, <2>2 DEF RecordOK
  <1> QED
    BY <1>3, <1>4

\* Recording an event, cancelling a context and a timer change no record.
LEMMA StepsKeepRecords ==
    ASSUME PlaceInv, RecordInv, NEW j \in Jobs,
           RecordEvent(j) \/ CancelContext(j) \/ Expire(j)
    PROVE  RecordInv'
  <1>0. /\ TypeOK /\ ctx \in [Jobs -> Contexts] /\ clone \in [Jobs -> Records]
        /\ pc \in [Jobs -> Labels]
        /\ UNCHANGED <<up, mem, disk, ran, unsaved>>
    BY DEF PlaceInv, TypeOK, RecordEvent, CancelContext, Expire, files
  <1> SUFFICES ASSUME NEW k \in Jobs
               PROVE  RecordOK(k)'
    BY DEF RecordInv
  <1>1. RecordOK(k)
    BY DEF RecordInv
  <1>2. CASE CancelContext(j) \/ Expire(j)
    <2>1. ctx'[k] = "none" => ctx[k] = "none"
      BY <1>0, <1>2 DEF CancelContext, Expire
    <2> QED
      BY <1>0, <1>1, <1>2, <2>1, RecordUntouched DEF CancelContext, Expire
  <1>3. CASE RecordEvent(j) /\ k # j
    BY <1>0, <1>1, <1>3, RecordUntouched DEF RecordEvent
  <1>4. CASE RecordEvent(j) /\ k = j
    BY <1>0, <1>1, <1>4 DEF RecordEvent, RecordOK
  <1> QED
    BY <1>2, <1>3, <1>4

\* A crash forgets memory and keeps the files.
LEMMA CrashKeepsRecords ==
    ASSUME RecordInv, Crash
    PROVE  RecordInv'
  BY DEF RecordInv, RecordOK, Crash, Absent, files

\* load leaves memory and files equal.
LEMMA LoadKeepsRecords ==
    ASSUME PlaceInv, RecordInv, Load
    PROVE  RecordInv'
  <1>0. /\ disk \in [Jobs -> Records] /\ ~up /\ disk' = mem'
        /\ \A j \in Jobs : pc[j] = "idle" /\ mem'[j] = Reloaded(disk[j])
        /\ UNCHANGED <<pc, ran, unsaved, ctx, clone>>
    BY DEF PlaceInv, TypeOK, Served, Load
  <1> SUFFICES ASSUME NEW k \in Jobs
               PROVE  RecordOK(k)'
    BY DEF RecordInv
  <1>1. RecordOK(k)
    BY DEF RecordInv
  <1>2. disk[k] \in Records /\ mem'[k] = Reloaded(disk[k]) /\ disk'[k] = mem'[k] /\ pc'[k] = "idle"
    BY <1>0
  <1>3. /\ mem'[k].started = disk[k].started
        /\ mem'[k].finished => mem'[k].status \in Terminal
        /\ mem'[k].status = "queued" => ~mem'[k].started
        /\ mem'[k].status # "running"
    <2>1. CASE Reloaded(disk[k]) = disk[k]
      BY <1>1, <1>2, <2>1, ReloadedRecord DEF RecordOK
    <2>2. CASE Reloaded(disk[k]) = Ended(disk[k], "orphaned")
      BY <1>2, <2>2 DEF Ended, Records, Terminal
    <2> QED
      BY <2>1, <2>2 DEF Reloaded
  <1> QED
    BY <1>0, <1>1, <1>2, <1>3 DEF RecordOK

\* Every step keeps what RecordInv says of memory, files and runs.
THEOREM NextRecords == PlaceInv /\ RecordInv /\ [Next]_vars => RecordInv'
  <1> SUFFICES ASSUME PlaceInv, RecordInv, [Next]_vars
               PROVE  RecordInv'
    OBVIOUS
  <1>1. CASE \E p \in Projects : RegisterProject(p)
    BY <1>1, RegisterKeepsRecords
  <1>2. CASE \E p \in Projects, j \in Jobs : Start(p, j)
    BY <1>2, StartKeepsRecords
  <1>3. CASE \E j \in Jobs : Cancel(j) \/ CancelContext(j) \/ Expire(j)
    BY <1>3, CancelKeepsRecords, StepsKeepRecords
  <1>4. CASE \E j \in Jobs : RunJob(j) \/ RecordEvent(j) \/ Finish(j)
    BY <1>4, RunBeginKeepsRecords, SavesKeepRecords, StepsKeepRecords, FinishKeepsRecords
       DEF RunJob
  <1>5. CASE Crash
    BY <1>5, CrashKeepsRecords
  <1>6. CASE Load
    BY <1>6, LoadKeepsRecords
  <1>7. CASE UNCHANGED vars
    BY <1>7 DEF vars, RecordInv, RecordOK
  <1> QED
    BY <1>1, <1>2, <1>3, <1>4, <1>5, <1>6, <1>7 DEF Next

\* RecordInv holds in every reachable state.
THEOREM RecordsAgree == Spec => [](PlaceInv /\ RecordInv)
  BY InitPlace, InitRecords, NextPlace, NextRecords, PTL DEF Spec

\* A finished job has the same state in its file, unless the manager saw the save fail.
THEOREM Durable == Spec => []FinalIsDurable
  <1>1. RecordInv => FinalIsDurable
    BY DEF RecordInv, RecordOK, FinalIsDurable
  <1> QED
    BY <1>1, RecordsAgree, PTL
\* A file that says how its job finished is changed by no step.
THEOREM FinalStays == Spec => FinalRecordStays
  <1>1. PlaceInv /\ RecordInv /\ [Next]_vars
            => [\A j \in Jobs : disk[j].finished => disk'[j] = disk[j]]_vars
    <2> SUFFICES ASSUME PlaceInv, RecordInv, [Next]_vars, NEW k \in Jobs, disk[k].finished
                 PROVE  disk'[k] = disk[k]
      OBVIOUS
    <2>0. TypeOK /\ RecordOK(k) /\ disk \in [Jobs -> Records]
      BY DEF PlaceInv, RecordInv, TypeOK
    <2>1. disk[k].status \in Terminal /\ (up => mem[k] = disk[k])
      BY <2>0 DEF RecordOK
    <2>2. CASE \E p \in Projects : RegisterProject(p)
      BY <2>2 DEF RegisterProject, files
    <2>3. ASSUME NEW p \in Projects, NEW j \in Jobs, Start(p, j)
          PROVE  disk'[k] = disk[k]
      BY <2>0, <2>3 DEF Start, Saved, Absent
    <2>4. ASSUME NEW j \in Jobs, Cancel(j)
          PROVE  disk'[k] = disk[k]
      <3>1. j # k
        BY <2>1, <2>4 DEF Cancel, Terminal
      <3> QED
        BY <2>0, <2>4, <3>1 DEF Cancel, Settle, Saved, NotSaved
    <2>5. ASSUME NEW j \in Jobs, SaveRunning(j) \/ SaveEvent(j)
          PROVE  disk'[k] = disk[k]
      <3>1. j # k
        BY <2>0, <2>1, <2>5 DEF SaveRunning, SaveEvent, RecordOK, PlaceInv, Served
      <3> QED
        BY <2>0, <2>5, <3>1 DEF SaveRunning, SaveEvent, Saved, NotSaved
    <2>6. ASSUME NEW j \in Jobs, Finish(j) \/ FinishRefused(j)
          PROVE  disk'[k] = disk[k]
      <3>1. j # k
        BY <2>0, <2>1, <2>6 DEF Finish, FinishRefused, RecordOK, PlaceInv, Served
      <3>2. \A r : FinishJob(j, r) => disk'[k] = disk[k]
        BY <2>0, <3>1 DEF FinishJob, Settle, Saved, NotSaved
      <3> QED
        BY <2>6, <3>2 DEF Finish, FinishRefused
    <2>7. CASE Load
      BY <2>0, <2>1, <2>7 DEF Load, Reloaded
    <2>8. CASE \E j \in Jobs : CancelContext(j) \/ Expire(j) \/ RunBegin(j) \/ RecordEvent(j)
      BY <2>8 DEF CancelContext, Expire, RunBegin, RecordEvent, files
    <2>9. CASE Crash \/ UNCHANGED vars
      BY <2>9 DEF Crash, vars, files
    <2> QED
      BY <2>2, <2>3, <2>4, <2>5, <2>6, <2>7, <2>8, <2>9 DEF Next, RunJob
  <1> QED
    BY <1>1, RecordsAgree, PTL DEF Spec, FinalRecordStays

\* No runner is called twice for one job, and none for a job whose file says it finished.
THEOREM AtMostOnce == Spec => RunsOnce
  <1>1. PlaceInv /\ RecordInv /\ [Next]_vars
            => [\A j \in Jobs : pc[j] = "save" /\ pc'[j] = "run"
                                    => j \notin ran /\ ~disk[j].finished]_vars
    BY DEF RecordInv, RecordOK, PlaceInv, Served
  <1> QED
    BY <1>1, RecordsAgree, PTL DEF Spec, RunsOnce

-----------------------------------------------------------------------------
(* The stall of a queue. *)

\* Job j of project p was cancelled between its dispatch and its start.
EarlyCancelled(p, j) ==
    project[j] = p /\ ctx[j] # "none" /\ mem[j].finished /\ ~mem[j].started

\* The excuse for a stall, and that no project has a runner while the process is down.
StallInv ==
    /\ \A p \in Projects : Stalled(p) => \E j \in Jobs : EarlyCancelled(p, j)
    /\ ~up => registered = {}

\* Within one process a job cancelled before its start stays so.
LEMMA WitnessStays ==
    ASSUME PlaceInv, RecordInv, [Next]_vars, ~Crash, ~Load,
           NEW p \in Projects, NEW k \in Jobs, EarlyCancelled(p, k)
    PROVE  EarlyCancelled(p, k)'
  <1>0. /\ TypeOK /\ RecordOK(k) /\ mem \in [Jobs -> Records] /\ project \in [Jobs -> Projects \cup {None}]
        /\ mem[k].finished /\ ~mem[k].started /\ mem[k].status \in Terminal
        /\ ctx \in [Jobs -> Contexts] /\ ctx[k] # "none" /\ project[k] = p
    BY DEF PlaceInv, RecordInv, TypeOK, RecordOK, EarlyCancelled
  <1> SUFFICES project'[k] = project[k] /\ mem'[k] = mem[k] /\ ctx'[k] # "none"
    BY <1>0 DEF EarlyCancelled
  <1>1. ASSUME NEW x, NEW m, NEW at, NEW prj, DispatchPost(x, m, at, prj)
        PROVE  ctx'[k] # "none"
    BY <1>0, <1>1 DEF DispatchPost
  <1>2. ASSUME NEW x \in Projects, RegisterProject(x)
        PROVE  project'[k] = project[k] /\ mem'[k] = mem[k] /\ ctx'[k] # "none"
    BY <1>0, <1>1, <1>2, RegisterKeepsPlaces DEF RegisterProject
  <1>3. ASSUME NEW x \in Projects, NEW j \in Jobs, Start(x, j)
        PROVE  project'[k] = project[k] /\ mem'[k] = mem[k] /\ ctx'[k] # "none"
    <2>1. j # k
      BY <1>0, <1>3 DEF Start, Absent
    <2>2. project'[k] = project[k] /\ mem'[k] = mem[k]
      BY <1>0, <1>3, <2>1 DEF Start
    <2> QED
      BY <1>1, <1>3, <2>2, StartKeepsPlaces
  <1>4. ASSUME NEW j \in Jobs, Cancel(j)
        PROVE  project'[k] = project[k] /\ mem'[k] = mem[k] /\ ctx'[k] # "none"
    <2>1. j # k
      BY <1>0, <1>4 DEF Cancel, Terminal
    <2>2. mem'[k] = mem[k]
      BY <1>0, <1>4, <2>1 DEF Cancel, Settle
    <2> QED
      BY <1>0, <1>4, <2>2 DEF Cancel
  <1>5. ASSUME NEW j \in Jobs, CancelContext(j) \/ Expire(j)
        PROVE  project'[k] = project[k] /\ mem'[k] = mem[k] /\ ctx'[k] # "none"
    BY <1>0, <1>5 DEF CancelContext, Expire
  <1>6. ASSUME NEW j \in Jobs, RunBegin(j)
        PROVE  project'[k] = project[k] /\ mem'[k] = mem[k] /\ ctx'[k] # "none"
    BY <1>0, <1>6 DEF RunBegin
  <1>7. ASSUME NEW j \in Jobs, SaveRunning(j) \/ SaveEvent(j) \/ RecordEvent(j)
        PROVE  project'[k] = project[k] /\ mem'[k] = mem[k] /\ ctx'[k] # "none"
    BY <1>0, <1>7 DEF SaveRunning, SaveEvent, RecordEvent
  <1>8. ASSUME NEW j \in Jobs, Finish(j) \/ FinishRefused(j)
        PROVE  project'[k] = project[k] /\ mem'[k] = mem[k] /\ ctx'[k] # "none"
    <2>1. j # k
      BY <1>0, <1>8 DEF Finish, FinishRefused, RecordOK
    <2>2. \A r : FinishJob(j, r) => project'[k] = project[k] /\ mem'[k] = mem[k]
      BY <1>0, <2>1 DEF FinishJob, Settle
    <2>3. ctx'[k] # "none"
      BY <1>1, <1>8, FinishKeepsPlaces
    <2> QED
      BY <1>8, <2>2, <2>3 DEF Finish, FinishRefused
  <1>9. CASE UNCHANGED vars
    BY <1>0, <1>9 DEF vars
  <1> QED
    BY <1>2, <1>3, <1>4, <1>5, <1>6, <1>7, <1>8, <1>9 DEF Next, RunJob

\* A queue begins to stall only in RunBegin, at a job cancelled before its start.
LEMMA StallBegins ==
    ASSUME PlaceInv, RecordInv, StallInv, [Next]_vars, ~Crash, ~Load,
           NEW p \in Projects, Stalled(p)'
    PROVE  Stalled(p) \/ \E j \in Jobs : EarlyCancelled(p, j)'
  <1>0. /\ TypeOK /\ queue \in [Projects -> Seq(Jobs)] /\ running \in [Projects -> Jobs \cup {None}]
        /\ project \in [Jobs -> Projects \cup {None}]
    BY DEF PlaceInv, TypeOK
  <1>1. ASSUME NEW x, NEW m, NEW at, NEW prj, DispatchPost(x, m, at, prj),
               \A y \in Projects : y # x => (y \in registered' <=> y \in registered)
        PROVE  Stalled(p)
    BY <1>1 DEF DispatchPost, Stalled
  <1>2. ASSUME NEW x \in Projects, RegisterProject(x)
        PROVE  Stalled(p)
    <2>1. \A y \in Projects : y # x => (y \in registered' <=> y \in registered)
      BY <1>2 DEF RegisterProject
    <2> QED
      BY <1>1, <1>2, <2>1, RegisterKeepsPlaces
  <1>3. ASSUME NEW x \in Projects, NEW j \in Jobs, Start(x, j)
        PROVE  Stalled(p)
    <2>1. registered' = registered
      BY <1>3 DEF Start
    <2> QED
      BY <1>1, <1>3, <2>1, StartKeepsPlaces
  <1>4. ASSUME NEW j \in Jobs, Cancel(j)
        PROVE  Stalled(p)
    <2>1. Without(<<>>, j) = <<>>
      BY DEF Without
    <2> QED
      BY <1>0, <1>4, <2>1 DEF Cancel, Stalled
  <1>5. ASSUME NEW j \in Jobs, RunBegin(j)
        PROVE  Stalled(p) \/ EarlyCancelled(p, j)'
    <2>0. RecordOK(j)
      BY DEF RecordInv
    <2>1. CASE running' = [running EXCEPT ![project[j]] = IF @ = j THEN None ELSE @] /\ UNCHANGED mem
               /\ mem[j].status \in Terminal
      <3>1. CASE p = project[j]
        BY <1>5, <2>0, <2>1, <3>1 DEF RunBegin, EarlyCancelled, RecordOK
      <3>2. CASE p # project[j]
        BY <1>0, <1>5, <2>1, <3>2 DEF RunBegin, Stalled
      <3> QED
        BY <3>1, <3>2
    <2>2. CASE UNCHANGED running
      BY <1>5, <2>2 DEF RunBegin, Stalled
    <2> QED
      BY <1>5, <2>1, <2>2 DEF RunBegin
  <1>6. ASSUME NEW j \in Jobs, Finish(j) \/ FinishRefused(j)
        PROVE  Stalled(p)
    <2>1. registered' = registered
      BY <1>6 DEF Finish, FinishRefused, FinishJob
    <2> QED
      BY <1>1, <1>6, <2>1, FinishKeepsPlaces
  <1>7. ASSUME NEW j \in Jobs,
               CancelContext(j) \/ Expire(j) \/ SaveRunning(j) \/ SaveEvent(j) \/ RecordEvent(j)
        PROVE  Stalled(p)
    BY <1>7 DEF CancelContext, Expire, SaveRunning, SaveEvent, RecordEvent, Stalled
  <1>8. CASE UNCHANGED vars
    BY <1>8 DEF vars, Stalled
  <1> QED
    BY <1>2, <1>3, <1>4, <1>5, <1>6, <1>7, <1>8 DEF Next, RunJob

\* Every step keeps the excuse of every stall.
LEMMA NextStall == PlaceInv /\ RecordInv /\ StallInv /\ [Next]_vars => StallInv'
  <1> SUFFICES ASSUME PlaceInv, RecordInv, StallInv, [Next]_vars
               PROVE  StallInv'
    OBVIOUS
  <1>1. CASE Crash \/ Load
    BY <1>1 DEF Crash, Load, StallInv, Stalled
  <1>2. CASE ~Crash /\ ~Load
    <2>1. \A p \in Projects : Stalled(p)' => \E j \in Jobs : EarlyCancelled(p, j)'
      BY <1>2, StallBegins, WitnessStays DEF StallInv
    <2>2. ~up' => registered' = {}
      <3>1. CASE \E p \in Projects : RegisterProject(p)
        BY <3>1 DEF RegisterProject
      <3>2. ASSUME NEW j \in Jobs, Finish(j) \/ FinishRefused(j)
            PROVE  UNCHANGED <<up, registered>>
        <4>1. \A r : FinishJob(j, r) => UNCHANGED <<up, registered>>
          BY DEF FinishJob
        <4> QED
          BY <3>2, <4>1 DEF Finish, FinishRefused
      <3>3. CASE \E j \in Jobs : RunBegin(j) \/ SaveRunning(j) \/ SaveEvent(j)
        BY <3>3 DEF RunBegin, SaveRunning, SaveEvent, StallInv
      <3>4. CASE \E j \in Jobs : RecordEvent(j) \/ Cancel(j) \/ CancelContext(j) \/ Expire(j)
        BY <3>4 DEF RecordEvent, Cancel, CancelContext, Expire, StallInv
      <3>5. CASE UNCHANGED vars \/ \E p \in Projects, j \in Jobs : Start(p, j)
        BY <3>5 DEF vars, Start, StallInv
      <3> QED
        BY <1>2, <3>1, <3>2, <3>3, <3>4, <3>5 DEF Next, RunJob, StallInv
    <2> QED
      BY <2>1, <2>2 DEF StallInv
  <1> QED
    BY <1>1, <1>2

\* The queue of an idle project waits only after a cancellation between dispatch and start.
THEOREM StallsExcused == Spec => []StallOnlyByEarlyCancel
  <1>1. Init => StallInv
    BY DEF Init, StallInv, Stalled
  <1>2. StallInv => StallOnlyByEarlyCancel
    BY DEF StallInv, StallOnlyByEarlyCancel, EarlyCancelled
  <1> QED
    BY <1>1, <1>2, RecordsAgree, NextStall, PTL DEF Spec

-----------------------------------------------------------------------------
(* The refinement: the manager is a serial server per project. *)

\* What ties the lives of the jobs to memory: a job in memory has a file, a job whose
\* runner works has a file that says so, and memory knows of every start in a file.
LifeOK(j) ==
    /\ mem[j].status # "none" => disk[j] # Absent
    /\ Working(j) => disk[j].started
    /\ up /\ disk[j].started => mem[j].started

LifeInv == \A j \in Jobs : LifeOK(j)

\* A step of the server, or none, under the mapping.
ServerStep == [Server!ServerNext]_<<[j \in Jobs |-> Life(j)], project>>

\* LifeOK and the life of a job that a step leaves where it was, or only dispatches.
LEMMA LifeUntouched ==
    ASSUME NEW k \in Jobs, LifeOK(k), up' => up, mem'[k] = mem[k], disk'[k] = disk[k],
           pc'[k] = pc[k] \/ (pc[k] \in {"idle", "spawned"} /\ pc'[k] \in {"idle", "spawned"})
    PROVE  LifeOK(k)' /\ Life(k)' = Life(k)
  BY DEF LifeOK, Life, Working, Waits

\* A step that moves no job is no step of the server.
LEMMA NobodyMoves ==
    ASSUME project' = project, \A k \in Jobs : Life(k)' = Life(k)
    PROVE  ServerStep
  <1>1. [j \in Jobs |-> Life(j)]' = [j \in Jobs |-> Life(j)]
    OBVIOUS
  <1> QED
    BY <1>1 DEF ServerStep

\* A step that ends one job is the End of the server.
LEMMA OneEnds ==
    ASSUME project' = project, NEW j \in Jobs, Life(j) \in {"accepted", "working"},
           Life(j)' = "ended", \A k \in Jobs : k # j => Life(k)' = Life(k)
    PROVE  ServerStep
  <1>1. [k \in Jobs |-> Life(k)]' = [[k \in Jobs |-> Life(k)] EXCEPT ![j] = "ended"]
    OBVIOUS
  <1>2. Server!End(j)
    BY <1>1 DEF Server!End
  <1> QED
    BY <1>2 DEF ServerStep, Server!ServerNext

\* A step in which jobs that work or wait end together is the Die of the server.
LEMMA SomeDie ==
    ASSUME project' = project,
           \A k \in Jobs : \/ Life(k)' = Life(k) /\ Life(k) # "working"
                           \/ Life(k)' = "ended" /\ Life(k) \in {"accepted", "working"}
    PROVE  ServerStep
  <1> DEFINE W == {k \in Jobs : Life(k) = "accepted" /\ Life(k)' = "ended"}
             before == [k \in Jobs |-> Life(k)]
  <1>1. W \in SUBSET Jobs
    OBVIOUS
  <1>2. \A k \in W : before[k] = "accepted"
    OBVIOUS
  <1>3. before' = [k \in Jobs |-> IF before[k] = "working" \/ k \in W THEN "ended" ELSE before[k]]
    <2>1. ASSUME NEW k \in Jobs
          PROVE  Life(k)' = IF Life(k) = "working" \/ k \in W THEN "ended" ELSE Life(k)
      OBVIOUS
    <2> QED
      BY <2>1
  <1>4. Server!Die(W)
    BY <1>2, <1>3 DEF Server!Die
  <1> HIDE DEF W
  <1> QED
    BY <1>1, <1>4 DEF ServerStep, Server!ServerNext

\* RegisterProject dispatches at most.
LEMMA RegisterLives ==
    ASSUME PlaceInv, LifeInv, NEW p \in Projects, RegisterProject(p)
    PROVE  LifeInv' /\ ServerStep
  <1>1. DispatchPost(p, mem', pc, project')
    BY RegisterKeepsPlaces
  <1>2. UNCHANGED <<mem, disk, up, project>>
    BY DEF RegisterProject, files
  <1>3. ASSUME NEW k \in Jobs
        PROVE  LifeOK(k)' /\ Life(k)' = Life(k)
    <2>1. pc'[k] = pc[k] \/ (pc[k] = "idle" /\ pc'[k] = "spawned")
      BY <1>1 DEF DispatchPost
    <2> QED
      BY <1>2, <2>1, LifeUntouched DEF LifeInv
  <1> QED
    BY <1>2, <1>3, NobodyMoves DEF LifeInv

\* Start is the Accept of the server, whether or not it dispatches the job.
LEMMA StartLives ==
    ASSUME PlaceInv, LifeInv, NEW p \in Projects, NEW j \in Jobs, Start(p, j)
    PROVE  LifeInv' /\ ServerStep
  <1>1. DispatchPost(p, mem', pc, project')
    BY StartKeepsPlaces
  <1>2. /\ UNCHANGED up /\ mem[j] = Absent /\ disk[j] = Absent
        /\ mem' = [mem EXCEPT ![j] = Fresh] /\ disk' = [disk EXCEPT ![j] = Fresh]
        /\ project' = [project EXCEPT ![j] = p]
    BY DEF Start, Saved
  <1>3. mem \in [Jobs -> Records] /\ disk \in [Jobs -> Records]
    BY DEF PlaceInv, TypeOK
  <1>4. ASSUME NEW k \in Jobs, k # j
        PROVE  LifeOK(k)' /\ Life(k)' = Life(k)
    <2>1. pc'[k] = pc[k] \/ (pc[k] = "idle" /\ pc'[k] = "spawned")
      BY <1>1 DEF DispatchPost
    <2> QED
      BY <1>2, <1>3, <1>4, <2>1, LifeUntouched DEF LifeInv
  <1>5. LifeOK(j)' /\ Life(j) = "new" /\ Life(j)' = "accepted"
    <2>1. pc[j] = "idle"
      BY <1>2 DEF PlaceInv, Served, Absent
    <2>2. pc'[j] \in {"idle", "spawned"}
      BY <1>1, <2>1 DEF DispatchPost
    <2>3. mem'[j] = Fresh /\ disk'[j] = Fresh
      BY <1>2, <1>3
    <2>4. Fresh # Absent /\ ~Fresh.started /\ ~Fresh.finished
      BY DEF Fresh, Absent
    <2> QED
      BY <1>2, <2>2, <2>3, <2>4 DEF LifeOK, Life, Working, Waits
  <1>6. [k \in Jobs |-> Life(k)]' = [[k \in Jobs |-> Life(k)] EXCEPT ![j] = "accepted"]
    BY <1>4, <1>5
  <1>7. Server!Accept(j, p)
    BY <1>2, <1>5, <1>6 DEF Server!Accept
  <1> QED
    BY <1>4, <1>5, <1>7 DEF LifeInv, ServerStep, Server!ServerNext

\* A Cancel that is saved ends a job that no goroutine works on; any other moves no job.
LEMMA CancelLives ==
    ASSUME PlaceInv, RecordInv, LifeInv, NEW j \in Jobs, Cancel(j)
    PROVE  LifeInv' /\ ServerStep
  <1> DEFINE r == Cancelled(mem[j])
  <1>0. /\ mem[j] \in Records /\ mem[j].status \in {"queued", "running"} /\ up /\ TypeOK
        /\ UNCHANGED <<up, pc, project>> /\ RecordOK(j) /\ LifeOK(j) /\ disk[j] \in Records
    BY DEF Cancel, PlaceInv, TypeOK, RecordInv, LifeInv
  <1>1. /\ r \in Records /\ r.status = "cancelled" /\ r.started = mem[j].started
        /\ r.finished = (mem[j].finished \/ mem[j].status = "queued" \/ ~mem[j].started)
    BY <1>0 DEF Cancelled, Records, Statuses, Terminal
  <1>2. Settle(j, r)
    BY DEF Cancel
  <1> HIDE DEF r
  <1>3. /\ mem'[j].started = r.started
        /\ disk'[j] = r \/ disk'[j] = disk[j]
        /\ \A k \in Jobs : k # j => mem'[k] = mem[k] /\ disk'[k] = disk[k]
    BY <1>0, <1>1, <1>2, SettleKeeps
  <1>4. ASSUME NEW k \in Jobs, k # j
        PROVE  LifeOK(k)' /\ Life(k)' = Life(k)
    BY <1>0, <1>3, <1>4, LifeUntouched DEF LifeInv
  <1>5. /\ disk[j] # Absent /\ r # Absent /\ disk'[j] # Absent
        /\ r.started \/ r.finished
    <2>1. mem[j].status # "none" /\ Absent.status = "none"
      BY <1>0 DEF Absent
    <2>2. disk[j] # Absent /\ r # Absent
      BY <1>0, <1>1, <2>1 DEF LifeOK
    <2>3. r.started \/ r.finished
      BY <1>0, <1>1 DEF Records
    <2> QED
      BY <1>3, <2>2, <2>3
  <1>6. LifeOK(j)'
    <2>1. Working(j)' => disk'[j].started
      BY <1>0, <1>1, <1>3 DEF LifeOK, RecordOK, Working
    <2>2. disk'[j].started => mem'[j].started
      BY <1>0, <1>1, <1>3 DEF LifeOK
    <2> QED
      BY <1>5, <2>1, <2>2 DEF LifeOK
  <1>7. Life(j)' = Life(j) \/ (Life(j) \in {"accepted", "working"} /\ Life(j)' = "ended")
    <2>1. CASE disk'[j] = disk[j]
      BY <1>0, <2>1 DEF Life, Working, Waits
    <2>2. CASE disk'[j] = r
      BY <1>0, <1>5, <2>2 DEF Life, Working, Waits
    <2> QED
      BY <1>3, <2>1, <2>2
  <1> QED
    BY <1>0, <1>4, <1>6, <1>7, NobodyMoves, OneEnds DEF LifeInv

\* The first critical section of runJob moves no job: it has not saved anything.
LEMMA RunBeginLives ==
    ASSUME PlaceInv, RecordInv, LifeInv, NEW j \in Jobs, RunBegin(j)
    PROVE  LifeInv' /\ ServerStep
  <1>0. /\ mem \in [Jobs -> Records] /\ pc \in [Jobs -> Labels] /\ up /\ pc[j] = "spawned"
        /\ UNCHANGED <<up, disk, project>> /\ RecordOK(j) /\ LifeOK(j)
        /\ mem[j].status # "none"
    BY DEF PlaceInv, TypeOK, Served, RunBegin, files, RecordInv, LifeInv
  <1>1. ASSUME NEW k \in Jobs, k # j
        PROVE  LifeOK(k)' /\ Life(k)' = Life(k)
    <2>1. mem'[k] = mem[k] /\ disk'[k] = disk[k] /\ pc'[k] = pc[k]
      BY <1>0, <1>1 DEF RunBegin
    <2> QED
      BY <1>0, <2>1, LifeUntouched DEF LifeInv
  <1>2. LifeOK(j)' /\ Life(j)' = Life(j)
    <2>1. CASE pc'[j] = "idle" /\ mem'[j] = mem[j]
      BY <1>0, <2>1, LifeUntouched
    <2>2. CASE pc'[j] = "save" /\ mem[j].status \notin Terminal /\ mem'[j] = Begun(mem[j])
      <3>1. Begun(mem[j]).started
        BY <1>0 DEF Begun, Records
      <3>2. ~disk[j].started /\ ~disk[j].finished /\ disk[j] # Absent
        BY <1>0, <2>2 DEF RecordOK, LifeOK
      <3> QED
        BY <1>0, <2>2, <3>1, <3>2 DEF LifeOK, Life, Working, Waits
    <2> QED
      BY <1>0, <2>1, <2>2 DEF RunBegin
  <1> QED
    BY <1>0, <1>1, <1>2, NobodyMoves DEF LifeInv

\* The save of the running job is the Begin of the server; one that fails moves no job, or
\* ends one that a Cancel had already given up.
LEMMA SaveRunningLives ==
    ASSUME PlaceInv, RecordInv, LifeInv, NEW j \in Jobs, SaveRunning(j)
    PROVE  LifeInv' /\ ServerStep
  <1>0. /\ disk \in [Jobs -> Records] /\ pc \in [Jobs -> Labels] /\ up /\ pc[j] = "save"
        /\ UNCHANGED <<up, mem, project>> /\ RecordOK(j) /\ LifeOK(j)
        /\ mem[j].status # "none" /\ disk[j] # Absent
    BY DEF PlaceInv, TypeOK, Served, SaveRunning, RecordInv, LifeInv, LifeOK
  <1>1. ASSUME NEW k \in Jobs, k # j
        PROVE  LifeOK(k)' /\ Life(k)' = Life(k)
    <2>1. disk'[k] = disk[k] /\ pc'[k] = pc[k]
      BY <1>0, <1>1 DEF SaveRunning, Saved, NotSaved
    <2> QED
      BY <1>0, <2>1, LifeUntouched DEF LifeInv
  <1>2. Life(j) = "accepted"
    BY <1>0 DEF Life, Working, Waits
  <1>3. CASE pc'[j] = "run" /\ disk'[j] = clone[j]
    <2>1. clone[j].started /\ clone[j] # Absent /\ mem[j].started
      BY <1>0 DEF RecordOK, Absent
    <2>2. LifeOK(j)' /\ Life(j)' = "working"
      BY <1>0, <1>3, <2>1 DEF LifeOK, Life, Working
    <2>3. ASSUME NEW k \in Jobs, project[k] = project[j]
          PROVE  Life(k) # "working"
      <3>1. project[j] \in Projects
        BY <1>0 DEF PlaceInv, TypeOK
      <3>2. running[project[j]] = j
        BY <1>0, <3>1 DEF PlaceInv, SlotExact
      <3>3. CASE Working(k)
        <4>1. running[project[j]] = k
          BY <2>3, <3>1, <3>3 DEF PlaceInv, SlotExact, Working
        <4> QED
          BY <1>0, <3>2, <3>3, <4>1 DEF Working
      <3> QED
        BY <3>3 DEF Life
    <2>4. [k \in Jobs |-> Life(k)]' = [[k \in Jobs |-> Life(k)] EXCEPT ![j] = "working"]
      BY <1>1, <2>2
    <2>5. Server!Begin(j)
      BY <1>0, <1>2, <2>3, <2>4 DEF Server!Begin
    <2> QED
      BY <1>1, <2>2, <2>5 DEF LifeInv, ServerStep, Server!ServerNext
  <1>4. CASE pc'[j] = "refused" /\ disk'[j] = disk[j]
    <2>1. LifeOK(j)' /\ Life(j)' \in {"accepted", "ended"}
      BY <1>0, <1>4 DEF LifeOK, Life, Working, Waits
    <2> QED
      BY <1>0, <1>1, <1>2, <2>1, NobodyMoves, OneEnds DEF LifeInv
  <1> QED
    BY <1>0, <1>3, <1>4 DEF SaveRunning, Saved, NotSaved

\* Events and contexts of a job at work move no job.
LEMMA EventLives ==
    ASSUME PlaceInv, RecordInv, LifeInv, NEW j \in Jobs,
           RecordEvent(j) \/ SaveEvent(j) \/ CancelContext(j) \/ Expire(j)
    PROVE  LifeInv' /\ ServerStep
  <1>0. /\ disk \in [Jobs -> Records] /\ pc \in [Jobs -> Labels]
        /\ UNCHANGED <<up, mem, project>> /\ RecordOK(j) /\ LifeOK(j)
    BY DEF PlaceInv, TypeOK, RecordEvent, SaveEvent, CancelContext, Expire, RecordInv, LifeInv
  <1>1. ASSUME NEW k \in Jobs, disk'[k] = disk[k], pc'[k] = pc[k]
        PROVE  LifeOK(k)' /\ Life(k)' = Life(k)
    BY <1>0, <1>1, LifeUntouched DEF LifeInv
  <1>2. ASSUME NEW k \in Jobs, k # j
        PROVE  disk'[k] = disk[k] /\ pc'[k] = pc[k]
    BY <1>0, <1>2 DEF RecordEvent, SaveEvent, Saved, NotSaved, CancelContext, Expire, files
  <1>3. LifeOK(j)' /\ Life(j)' = Life(j)
    <2>1. CASE RecordEvent(j)
      <3>1. pc[j] = "run" /\ pc'[j] = "event" /\ disk'[j] = disk[j]
        BY <1>0, <2>1 DEF RecordEvent, files
      <3> QED
        BY <1>0, <3>1 DEF LifeOK, Life, Working
    <2>2. CASE SaveEvent(j)
      <3>1. pc[j] = "event" /\ pc'[j] = "run" /\ disk'[j] \in {clone[j], disk[j]}
        BY <1>0, <2>2 DEF SaveEvent, Saved, NotSaved
      <3>2. clone[j].started /\ mem[j].started /\ disk[j].started
        BY <1>0, <3>1 DEF RecordOK, LifeOK, Working
      <3> QED
        BY <1>0, <3>1, <3>2 DEF LifeOK, Life, Working, Absent
    <2>3. CASE CancelContext(j) \/ Expire(j)
      BY <1>1, <2>3 DEF CancelContext, Expire, files
    <2> QED
      BY <2>1, <2>2, <2>3
  <1> QED
    BY <1>0, <1>1, <1>2, <1>3, NobodyMoves DEF LifeInv

\* finishJob ends the job, unless its runner was never called and the save fails; the
\* dispatch that follows moves no job.
LEMMA FinishJobLives ==
    ASSUME PlaceInv, RecordInv, LifeInv, NEW j \in Jobs, NEW r \in Records,
           pc[j] \in {"refused", "run"}, r.status \in Terminal, r.started = mem[j].started,
           FinishJob(j, r)
    PROVE  LifeInv' /\ ServerStep
  <1> DEFINE at == [pc EXCEPT ![j] = "idle"]
  <1>0. /\ TypeOK /\ pc \in [Jobs -> Labels] /\ up /\ disk \in [Jobs -> Records]
        /\ UNCHANGED <<up, project>> /\ RecordOK(j) /\ LifeOK(j)
        /\ disk[j] # Absent
    BY DEF PlaceInv, TypeOK, Served, FinishJob, RecordInv, LifeInv, LifeOK
  <1>1. DispatchPost(project[j], mem', at, project')
    BY FinishJobKeepsPlaces DEF Terminal
  <1>2. /\ mem'[j].started = r.started /\ mem'[j].status \in Terminal
        /\ disk'[j] = r \/ disk'[j] = disk[j]
        /\ \A k \in Jobs : k # j => mem'[k] = mem[k] /\ disk'[k] = disk[k]
    <2>1. Settle(j, r)
      BY DEF FinishJob
    <2> QED
      BY <1>0, <2>1, SettleKeeps DEF Terminal
  <1>3. at[j] = "idle" /\ \A k \in Jobs : k # j => at[k] = pc[k]
    BY <1>0
  <1> HIDE DEF at
  <1>4. ASSUME NEW k \in Jobs, k # j
        PROVE  LifeOK(k)' /\ Life(k)' = Life(k)
    <2>1. pc'[k] = pc[k] \/ (pc[k] = "idle" /\ pc'[k] = "spawned")
      BY <1>1, <1>3, <1>4 DEF DispatchPost
    <2> QED
      BY <1>0, <1>2, <1>4, <2>1, LifeUntouched DEF LifeInv
  <1>5. pc'[j] = "idle"
    BY <1>1, <1>2, <1>3 DEF DispatchPost, Terminal
  <1>6. mem[j].started /\ r.started /\ r # Absent
    BY <1>0 DEF RecordOK, Absent
  <1>7. LifeOK(j)'
    BY <1>0, <1>2, <1>5, <1>6 DEF LifeOK, Working
  <1>8. Life(j)' = Life(j) \/ (Life(j) \in {"accepted", "working"} /\ Life(j)' = "ended")
    BY <1>0, <1>2, <1>5, <1>6 DEF LifeOK, Life, Working, Waits
  <1> QED
    BY <1>0, <1>4, <1>7, <1>8, NobodyMoves, OneEnds DEF LifeInv

\* Both uses of finishJob satisfy what FinishJobLives assumes.
LEMMA FinishLives ==
    ASSUME PlaceInv, RecordInv, LifeInv, NEW j \in Jobs, Finish(j) \/ FinishRefused(j)
    PROVE  LifeInv' /\ ServerStep
  <1>0. mem[j] \in Records
    BY DEF PlaceInv, TypeOK
  <1>1. ASSUME NEW s \in Outcomes(ctx[j]), pc[j] = "run", FinishJob(j, Ended(mem[j], s))
        PROVE  LifeInv' /\ ServerStep
    <2>1. s \in Terminal
      BY DEF Outcomes, Terminal
    <2>2. /\ Ended(mem[j], s) \in Records /\ Ended(mem[j], s).status \in Terminal
          /\ Ended(mem[j], s).started = mem[j].started
      BY <1>0, <2>1 DEF Ended, Records, Statuses
    <2> QED
      BY <1>1, <2>2, FinishJobLives
  <1>2. CASE FinishRefused(j)
    <2> DEFINE r == [mem[j] EXCEPT !.status = "failed"]
    <2>1. r \in Records /\ r.status \in Terminal /\ r.started = mem[j].started
      BY <1>0 DEF Records, Statuses, Terminal
    <2>2. pc[j] = "refused" /\ FinishJob(j, r)
      BY <1>2 DEF FinishRefused
    <2> HIDE DEF r
    <2> QED
      BY <2>1, <2>2, FinishJobLives
  <1> QED
    BY <1>1, <1>2 DEF Finish

\* The end of the process is the Die of the server: what worked ends, and so does a job in
\* its first save whose file was final.
LEMMA CrashLives ==
    ASSUME PlaceInv, LifeInv, Crash
    PROVE  LifeInv' /\ ServerStep
  <1>1. /\ UNCHANGED <<disk, project>> /\ ~up'
        /\ \A k \in Jobs : mem'[k] = Absent /\ pc'[k] = "idle"
    BY DEF Crash, files
  <1>2. ASSUME NEW k \in Jobs
        PROVE  /\ LifeOK(k)'
               /\ \/ Life(k)' = Life(k) /\ Life(k) # "working"
                  \/ Life(k)' = "ended" /\ Life(k) \in {"accepted", "working"}
    <2>1. LifeOK(k)'
      BY <1>1 DEF LifeOK, Working, Absent
    <2>2. LifeOK(k)
      BY DEF LifeInv
    <2> QED
      BY <1>1, <2>1, <2>2 DEF LifeOK, Life, Working, Waits
  <1> QED
    BY <1>1, <1>2, SomeDie DEF LifeInv

\* load brings no ended job back: it ends jobs that waited, or moves none.
LEMMA LoadLives ==
    ASSUME PlaceInv, LifeInv, Load
    PROVE  LifeInv' /\ ServerStep
  <1>1. /\ disk \in [Jobs -> Records] /\ ~up /\ disk' = mem' /\ UNCHANGED <<pc, project>>
        /\ \A k \in Jobs : pc[k] = "idle" /\ mem'[k] = Reloaded(disk[k])
    BY DEF PlaceInv, TypeOK, Served, Load
  <1>2. ASSUME NEW k \in Jobs
        PROVE  /\ LifeOK(k)'
               /\ \/ Life(k)' = Life(k) /\ Life(k) # "working"
                  \/ Life(k)' = "ended" /\ Life(k) \in {"accepted", "working"}
    <2>0. /\ mem'[k] = Reloaded(disk[k]) /\ disk'[k] = mem'[k] /\ pc[k] = "idle"
          /\ pc'[k] = "idle" /\ disk[k] \in Records
      BY <1>1
    <2>1. LifeOK(k)'
      BY <2>0 DEF LifeOK, Working, Absent
    <2>2. Life(k) # "working" /\ ~Working(k) /\ ~Working(k)'
      BY <2>0 DEF Life, Working
    <2>3. CASE Reloaded(disk[k]) = disk[k]
      BY <2>0, <2>1, <2>2, <2>3 DEF Life, Waits
    <2>4. CASE Reloaded(disk[k]) = Ended(disk[k], "orphaned") /\ disk[k].status # "none"
      <3>1. disk'[k].finished /\ disk'[k] # Absent /\ disk[k] # Absent
        <4>1. disk'[k].finished
          BY <2>0, <2>4 DEF Ended, Records
        <4>2. Absent.status = "none" /\ ~Absent.finished
          BY DEF Absent
        <4> QED
          BY <2>4, <4>1, <4>2
      <3>2. Life(k)' = "ended" /\ Life(k) \in {"accepted", "ended"}
        BY <2>0, <2>2, <3>1 DEF Life, Waits
      <3> QED
        BY <2>1, <2>2, <3>2
    <2> QED
      BY <2>3, <2>4 DEF Reloaded
  <1> QED
    BY <1>1, <1>2, SomeDie DEF LifeInv

\* Every step of the manager is a step of the server or none.
THEOREM NextServes ==
    PlaceInv /\ RecordInv /\ LifeInv /\ [Next]_vars => LifeInv' /\ ServerStep
  <1> SUFFICES ASSUME PlaceInv, RecordInv, LifeInv, [Next]_vars
               PROVE  LifeInv' /\ ServerStep
    OBVIOUS
  <1>1. CASE \E p \in Projects : RegisterProject(p)
    BY <1>1, RegisterLives
  <1>2. CASE \E p \in Projects, j \in Jobs : Start(p, j)
    BY <1>2, StartLives
  <1>3. CASE \E j \in Jobs : Cancel(j) \/ CancelContext(j) \/ Expire(j)
    BY <1>3, CancelLives, EventLives
  <1>4. CASE \E j \in Jobs : RunJob(j) \/ RecordEvent(j) \/ Finish(j)
    BY <1>4, RunBeginLives, SaveRunningLives, EventLives, FinishLives DEF RunJob
  <1>5. CASE Crash
    BY <1>5, CrashLives
  <1>6. CASE Load
    BY <1>6, LoadLives
  <1>7. CASE UNCHANGED vars
    <2>1. \A k \in Jobs : LifeOK(k)' /\ Life(k)' = Life(k)
      BY <1>7 DEF vars, LifeInv, LifeOK, Life, Working, Waits
    <2> QED
      BY <1>7, <2>1, NobodyMoves DEF vars, LifeInv
  <1> QED
    BY <1>1, <1>2, <1>3, <1>4, <1>5, <1>6, <1>7 DEF Next

\* The job manager, with its queues, slots, late and failed saves, cancels and restarts,
\* implements JobServer: each job accepted once, worked on at most once, and one job of a
\* project at a time.
THEOREM Refines == Spec => ImplementsServer
  <1>1. Init => LifeInv
    BY DEF Init, LifeInv, LifeOK, Absent, Working
  <1>2. Init => Server!ServerInit
    BY DEF Init, Server!ServerInit, Life
  <1>3. Spec => []LifeInv
    BY <1>1, RecordsAgree, NextServes, PTL DEF Spec
  <1> QED
    BY <1>2, <1>3, RecordsAgree, NextServes, PTL
       DEF Spec, ImplementsServer, Server!ServerSpec, ServerStep
=============================================================================
