-------------------------- MODULE ChatTurns_proofs ---------------------------
(***************************************************************************)
(* What holds of ChatTurns for any amount of work, any number of sessions  *)
(* and any bounds: its types; its sessions stay serial; one message at a   *)
(* time holds the gate of the queue and the queue lists those that wait;   *)
(* what was queued reaches the active session; prompts start in the order  *)
(* in which they came.                                                     *)
(***************************************************************************)
EXTENDS ChatTurns, FiniteSetTheorems, SequenceTheorems, TLAPS

-----------------------------------------------------------------------------
(* Types.                                                                  *)

PcType == pc \in [Work -> Labels]
TurnTypes ==
  /\ sess \in [Work -> Sessions]
  /\ snap \in [Work -> Work \cup {None}]
  /\ unlocking \in SUBSET Work
StoreTypes == known \in Sessions /\ active \in 1..known
BusyType == busy \in [Sessions -> BOOLEAN]
GateType == running \in BOOLEAN
QueueTypes == items \in Seq(Work) /\ order \in Seq(Work) /\ drains \in Nat
AgentTypes ==
  /\ use \in [Work -> Procs \cup {NoState}]
  /\ conv \in [Sessions -> Work \cup {None}]
  /\ istate \in Procs \cup {NoState, NilAgent}
  /\ proc \in [Procs -> ProcTuple]
CommandTypes ==
  /\ trans \in Work \cup {None, Switcher}
  /\ sw \in SwitchState /\ stop \in StopState
  /\ budget \in [{"switches", "stops", "edits", "deaths", "faults"} -> Nat]
  /\ forced \in SUBSET Sessions /\ straddled \in SUBSET Work

\* /new and /switch go to a session that exists, or to the next one.
SwitchTarget ==
  sw.at \in {"cleanup", "switch"} =>
    sw.to \in 1..known \/ (sw.new /\ sw.to = known + 1)

\* A turn that is about to send, or has sent, knows its process.
UseKnown ==
  \A m \in Work : pc[m] \in {"haveState", "lastTry", "sent"} => use[m] \in Procs

TypeInv ==
  /\ PcType /\ TurnTypes /\ StoreTypes /\ BusyType /\ GateType /\ QueueTypes
  /\ AgentTypes /\ CommandTypes
  /\ SwitchTarget /\ UseKnown

\* The active session and the next new one are sessions.
LEMMA SessionFacts ==
  ASSUME StoreTypes
  PROVE  /\ active \in Sessions /\ known \in Nat /\ 1..known \subseteq Sessions
         /\ known < MaxSessions => known + 1 \in Sessions
  BY BoundAssumption DEF StoreTypes, Sessions

\* What the queue operations do to the sequences and to the number of drains.
LEMMA QueueFacts ==
  ASSUME QueueTypes
  PROVE  /\ \A m \in Work : /\ Append(items, m) \in Seq(Work)
                            /\ <<m>> \o items \in Seq(Work)
                            /\ Append(order, m) \in Seq(Work)
         /\ items # <<>> => Tail(items) \in Seq(Work)
         /\ drains + 1 \in Nat /\ (drains > 0 => drains - 1 \in Nat)
  BY DEF QueueTypes

\* Deleting an item leaves a sequence of the same kind.
LEMMA RemoveAtSeq ==
  ASSUME NEW S, NEW q \in Seq(S), NEW i \in DOMAIN q
  PROVE  RemoveAt(q, i) \in Seq(S)
<1>1. Len(q) \in Nat /\ i \in 1..Len(q) /\ \A k \in 1..Len(q) : q[k] \in S
  OBVIOUS
<1>2. SubSeq(q, 1, i - 1) \in Seq(S)
  BY <1>1, SubSeqProperties
<1>3. SubSeq(q, i + 1, Len(q)) \in Seq(S)
  BY <1>1, SubSeqProperties
<1> QED
  BY <1>2, <1>3, ConcatProperties DEF RemoveAt

\* Moving an item up or down.
LEMMA SwapSeq ==
  ASSUME NEW S, NEW q \in Seq(S), NEW i \in DOMAIN q, NEW j \in DOMAIN q
  PROVE  [q EXCEPT ![i] = q[j], ![j] = q[i]] \in Seq(S)
<1>1. DOMAIN q = 1..Len(q) /\ q[i] \in S /\ q[j] \in S
  OBVIOUS
<1>2. [q EXCEPT ![i] = q[j]] \in Seq(S) /\ Len([q EXCEPT ![i] = q[j]]) = Len(q)
  BY <1>1, ExceptSeq
<1> QED
  BY <1>1, <1>2, ExceptSeq

\* Cancelling all items but some.
LEMMA KeepSeq ==
  ASSUME NEW S, NEW q \in Seq(S), NEW K \in SUBSET DOMAIN q,
         NEW f \in [1..Cardinality(K) -> K]
  PROVE  [i \in DOMAIN f |-> q[f[i]]] \in Seq(S)
<1>1. Len(q) \in Nat /\ DOMAIN q = 1..Len(q) /\ \A k \in DOMAIN q : q[k] \in S
  OBVIOUS
<1>2. IsFiniteSet(DOMAIN q)
  BY <1>1, FS_Interval
<1>3. Cardinality(K) \in Nat
  BY <1>2, FS_Subset, FS_CardinalityType
<1> QED
  BY <1>1, <1>3

\* Setting or clearing the flag of a session.
LEMMA BusyFacts ==
  ASSUME BusyType, NEW s \in Sessions
  PROVE  /\ busy' = [busy EXCEPT ![s] = TRUE] => BusyType'
         /\ busy' = [busy EXCEPT ![s] = FALSE] => BusyType'
<1>1. busy' = [busy EXCEPT ![s] = TRUE] => BusyType'
  BY DEF BusyType
<1>2. busy' = [busy EXCEPT ![s] = FALSE] => BusyType'
  BY DEF BusyType
<1> QED
  BY <1>1, <1>2

\* A handler that reads a message keeps the types.
LEMMA HandlerTypes ==
  ASSUME TypeInv, NEW m \in Work,
         \/ Arrive(m) \/ TryLockSession(m) \/ EnqueueBehindBusy(m)
           \/ BeginOrEnqueue(m) \/ HandlerUnlock(m) \/ RefuseFull(m)
           \/ PassUpgradeGate(m) \/ MarkRunning(m)
  PROVE  TypeInv'
<1> USE WorkAssumption, SessionFacts
    DEF TypeInv, vars, gate, store, agent, turn, cmds, hist, Alive,
        CleanupTurn, CleanupState, Accept, Spend, PutLast,
        ReleaseTransition, Gated, Full, Queueable, Arrive,
        TryLockSession, EnqueueBehindBusy, BeginOrEnqueue, HandlerUnlock,
        RefuseFull, PassUpgradeGate, MarkRunning
<1>1. PcType'
  BY SMTT(20) DEF PcType, Labels, Arriving, Starting, Holding, Waiting, Finished
<1>2. TurnTypes'
  BY SMTT(20) DEF TurnTypes, AgentTypes
<1>3. StoreTypes' /\ SwitchTarget'
  BY SMTT(20) DEF StoreTypes, SwitchTarget, CommandTypes, SwitchState, Idle
<1>4. BusyType'
  BY SMTT(20), BusyFacts DEF BusyType, TurnTypes, CommandTypes, StopState, Idle
<1>5. GateType'
  BY Zenon DEF GateType
<1>6. QueueTypes'
  <2>1. items' \in Seq(Work)
    <3>1. items' = items \/ items' = Append(items, m)
      BY SMTT(20)
    <3> QED
      BY <3>1, QueueFacts DEF QueueTypes
  <2>2. order' \in Seq(Work)
    <3>1. order' = order \/ order' = Append(order, m)
      BY SMTT(20)
    <3> QED
      BY <3>1, QueueFacts DEF QueueTypes
  <2>3. drains' \in Nat
    BY SMTT(20), QueueFacts DEF QueueTypes
  <2> QED
    BY <2>1, <2>2, <2>3 DEF QueueTypes
<1>7. AgentTypes'
  BY SMTT(20) DEF TurnTypes, AgentTypes, NoState, NilAgent,
       Bound, ProcTuple, Procs, UseKnown
<1>8. CommandTypes'
  BY SMTT(20) DEF CommandTypes, SwitchTarget, AgentTypes, SwitchState, StopState, Idle
<1>9. UseKnown'
  BY SMTT(20) DEF UseKnown, PcType, AgentTypes, Procs
<1> QED
  BY <1>1, <1>2, <1>3, <1>4, <1>5, <1>6, <1>7, <1>8, <1>9

\* So does a cron run on its way.
LEMMA CronTypes ==
  ASSUME TypeInv, NEW m \in Work,
         \/ CronBegin(m) \/ CronTryLock(m) \/ CronConvert(m) \/ CronRunEnds(m)
  PROVE  TypeInv'
<1> USE WorkAssumption, SessionFacts
    DEF TypeInv, vars, gate, store, agent, turn, cmds, hist, Alive,
        CleanupTurn, CleanupState, Accept, Spend, PutLast,
        ReleaseTransition, Gated, Full, Queueable, CronBegin,
        CronTryLock, CronConvert, CronRunEnds
<1>1. PcType'
  BY SMTT(20) DEF PcType, Labels, Arriving, Starting, Holding, Waiting, Finished
<1>2. TurnTypes'
  BY SMTT(20) DEF TurnTypes, AgentTypes
<1>3. StoreTypes' /\ SwitchTarget'
  BY SMTT(20) DEF StoreTypes, SwitchTarget, CommandTypes, SwitchState, Idle
<1>4. BusyType'
  BY SMTT(20), BusyFacts DEF BusyType, TurnTypes, CommandTypes, StopState, Idle
<1>5. GateType'
  BY Zenon DEF GateType
<1>6. QueueTypes'
  <2>1. items' \in Seq(Work)
    BY SMTT(60), QueueFacts DEF QueueTypes
  <2>2. order' \in Seq(Work)
    BY SMTT(20), QueueFacts DEF QueueTypes
  <2>3. drains' \in Nat
    BY SMTT(20), QueueFacts DEF QueueTypes
  <2> QED
    BY <2>1, <2>2, <2>3 DEF QueueTypes
<1>7. AgentTypes'
  BY SMTT(20) DEF TurnTypes, AgentTypes, NoState, NilAgent,
       Bound, ProcTuple, Procs, UseKnown
<1>8. CommandTypes'
  BY SMTT(20) DEF CommandTypes, SwitchTarget, AgentTypes, SwitchState, StopState, Idle
<1>9. UseKnown'
  BY SMTT(20) DEF UseKnown, PcType, AgentTypes, Procs
<1> QED
  BY <1>1, <1>2, <1>3, <1>4, <1>5, <1>6, <1>7, <1>8, <1>9

\* So does the start of a dequeued item.
LEMMA StartTypes ==
  ASSUME TypeInv, NEW m \in Work,
         \/ EnterStart(m) \/ CheckItem(m) \/ StartItem(m) \/ RequeueFront(m)
           \/ GiveUp(m) \/ FailItem(m)
  PROVE  TypeInv'
<1> USE WorkAssumption, SessionFacts
    DEF TypeInv, vars, gate, store, agent, turn, cmds, hist, Alive,
        CleanupTurn, CleanupState, Accept, Spend, PutLast,
        ReleaseTransition, Gated, Full, Queueable, EnterStart, CheckItem,
        StartItem, RequeueFront, GiveUp, FailItem
<1>1. PcType'
  BY SMTT(20) DEF PcType, Labels, Arriving, Starting, Holding, Waiting, Finished
<1>2. TurnTypes'
  BY SMTT(20) DEF TurnTypes, AgentTypes
<1>3. StoreTypes' /\ SwitchTarget'
  BY SMTT(20) DEF StoreTypes, SwitchTarget, CommandTypes, SwitchState, Idle
<1>4. BusyType'
  BY SMTT(20), BusyFacts DEF BusyType, TurnTypes, CommandTypes, StopState, Idle
<1>5. GateType'
  BY Zenon DEF GateType
<1>6. QueueTypes'
  <2>1. items' \in Seq(Work)
    <3>1. items' = items \/ items' = <<m>> \o items
      BY SMTT(20)
    <3> QED
      BY <3>1, QueueFacts DEF QueueTypes
  <2>2. order' \in Seq(Work)
    BY SMTT(20), QueueFacts DEF QueueTypes
  <2>3. drains' \in Nat
    BY SMTT(20), QueueFacts DEF QueueTypes
  <2> QED
    BY <2>1, <2>2, <2>3 DEF QueueTypes
<1>7. AgentTypes'
  BY SMTT(20) DEF TurnTypes, AgentTypes, NoState, NilAgent,
       Bound, ProcTuple, Procs, UseKnown
<1>8. CommandTypes'
  BY SMTT(20) DEF CommandTypes, SwitchTarget, AgentTypes, SwitchState, StopState, Idle
<1>9. UseKnown'
  BY SMTT(20) DEF UseKnown, PcType, AgentTypes, Procs
<1> QED
  BY <1>1, <1>2, <1>3, <1>4, <1>5, <1>6, <1>7, <1>8, <1>9

\* So does a turn up to its prompt.
LEMMA SendTypes ==
  ASSUME TypeInv, NEW m \in Work,
         \/ AcquireTurn(m) \/ TakeState(m) \/ SendPrompt(m) \/ SendFails(m)
           \/ SendRestarts(m)
  PROVE  TypeInv'
<1> USE WorkAssumption, SessionFacts
    DEF TypeInv, vars, gate, store, agent, turn, cmds, hist, Alive,
        CleanupTurn, CleanupState, Accept, Spend, PutLast,
        ReleaseTransition, Gated, Full, Queueable, AcquireTurn,
        TakeState, SendPrompt, SendFails, SendRestarts
<1>1. PcType'
  BY SMTT(20) DEF PcType, Labels, Arriving, Starting, Holding, Waiting, Finished
<1>2. TurnTypes'
  BY SMTT(20) DEF TurnTypes, AgentTypes
<1>3. StoreTypes' /\ SwitchTarget'
  BY SMTT(20) DEF StoreTypes, SwitchTarget, CommandTypes, SwitchState, Idle
<1>4. BusyType'
  BY SMTT(20), BusyFacts DEF BusyType, TurnTypes, CommandTypes, StopState, Idle
<1>5. GateType'
  BY Zenon DEF GateType
<1>6. QueueTypes'
  <2>1. items' \in Seq(Work)
    BY SMTT(20), QueueFacts DEF QueueTypes
  <2>2. order' \in Seq(Work)
    BY SMTT(20), QueueFacts DEF QueueTypes
  <2>3. drains' \in Nat
    BY SMTT(20), QueueFacts DEF QueueTypes
  <2> QED
    BY <2>1, <2>2, <2>3 DEF QueueTypes
<1>7. AgentTypes'
  <2> USE DEF TurnTypes, AgentTypes, PcType
  <2>1. CASE AcquireTurn(m)
    BY <2>1
  <2>2. CASE SendPrompt(m)
    <3>1. UNCHANGED <<use, istate, proc>> /\ conv' \in {conv, Bound(m)} /\ use[m] \in Procs
      BY <2>2 DEF UseKnown
    <3>2. proc[use[m]].conv \in Work \cup {None}
      BY <3>1 DEF ProcTuple
    <3>3. Bound(m) \in [Sessions -> Work \cup {None}]
      BY <3>2 DEF Bound
    <3> QED
      BY <3>1, <3>3
  <2>3. CASE SendFails(m) \/ SendRestarts(m)
    BY <2>3, SMTT(20) DEF NoState, ProcTuple, Procs
  <2>4. CASE TakeState(m)
    <3> DEFINE p == <<m, IF pc[m] = "restart" THEN 2 ELSE 1>>
    <3>1. p \in Procs
      BY DEF Procs
    <3>2. use' \in [Work -> Procs \cup {NoState}]
      <4>1. use' = [use EXCEPT ![m] = istate] \/ use' = [use EXCEPT ![m] = p] \/ use' = use
        BY <2>4
      <4>2. use' = [use EXCEPT ![m] = istate] => istate \in Procs \/ use' = [use EXCEPT ![m] = p] \/ use' = use
        BY <2>4
      <4> QED
        BY <3>1, <4>1, <4>2
    <3>3. istate' \in Procs \cup {NoState, NilAgent}
      BY <2>4, <3>1
    <3>4. proc' \in [Procs -> ProcTuple]
      <4> DEFINE r == [st |-> "alive", sess |-> sess[m],
                       conv |-> IF conv[sess[m]] = None THEN m ELSE conv[sess[m]]]
      <4>1. r \in ProcTuple
        BY DEF ProcTuple
      <4>2. proc' = proc \/ proc' = [proc EXCEPT ![p] = r]
        BY <2>4
      <4> HIDE DEF r, p
      <4> QED
        BY <3>1, <4>1, <4>2
    <3>5. conv' = conv
      BY <2>4
    <3> QED
      BY <3>2, <3>3, <3>4, <3>5
  <2> QED
    BY <2>1, <2>2, <2>3, <2>4
<1>8. CommandTypes'
  BY SMTT(20) DEF CommandTypes, SwitchTarget, AgentTypes, SwitchState, StopState, Idle
<1>9. UseKnown'
  BY SMTT(20) DEF UseKnown, PcType, AgentTypes, Procs
<1> QED
  BY <1>1, <1>2, <1>3, <1>4, <1>5, <1>6, <1>7, <1>8, <1>9

\* So does the rest of a turn.
LEMMA EndTypes ==
  ASSUME TypeInv, NEW m \in Work,
         \/ TurnResult(m) \/ TurnFails(m) \/ EndUnlock(m) \/ CompleteTurn(m)
  PROVE  TypeInv'
<1> USE WorkAssumption, SessionFacts
    DEF TypeInv, vars, gate, store, agent, turn, cmds, hist, Alive,
        CleanupTurn, CleanupState, Accept, Spend, PutLast,
        ReleaseTransition, Gated, Full, Queueable, TurnResult, TurnFails,
        EndUnlock, CompleteTurn
<1>1. PcType'
  BY SMTT(20) DEF PcType, Labels, Arriving, Starting, Holding, Waiting, Finished
<1>2. TurnTypes'
  BY SMTT(20) DEF TurnTypes, AgentTypes
<1>3. StoreTypes' /\ SwitchTarget'
  BY SMTT(20) DEF StoreTypes, SwitchTarget, CommandTypes, SwitchState, Idle
<1>4. BusyType'
  BY SMTT(20), BusyFacts DEF BusyType, TurnTypes, CommandTypes, StopState, Idle
<1>5. GateType'
  BY Zenon DEF GateType
<1>6. QueueTypes'
  <2>1. items' \in Seq(Work)
    BY SMTT(20), QueueFacts DEF QueueTypes
  <2>2. order' \in Seq(Work)
    BY SMTT(20), QueueFacts DEF QueueTypes
  <2>3. drains' \in Nat
    BY SMTT(20), QueueFacts DEF QueueTypes
  <2> QED
    BY <2>1, <2>2, <2>3 DEF QueueTypes
<1>7. AgentTypes'
  <2>1. CASE TurnResult(m)
    BY <2>1, SMTT(20) DEF TurnTypes, AgentTypes, Bound, ProcTuple, UseKnown
  <2>2. CASE TurnFails(m)
    <3>1. UNCHANGED <<istate, proc, conv>> \/ \E reset \in BOOLEAN : CleanupTurn(m, reset)
      BY <2>2
    <3>2. use' = use
      BY <2>2
    <3>3. CASE UNCHANGED <<istate, proc, conv>>
      BY <3>2, <3>3 DEF AgentTypes
    <3>4. ASSUME NEW reset \in BOOLEAN, CleanupTurn(m, reset)
          PROVE  AgentTypes'
      BY <3>2, <3>4 DEF TurnTypes, AgentTypes, ProcTuple, NoState
    <3> QED
      BY <3>1, <3>3, <3>4
  <2>3. CASE EndUnlock(m) \/ CompleteTurn(m)
    BY <2>3 DEF AgentTypes
  <2> QED
    BY <2>1, <2>2, <2>3
<1>8. CommandTypes'
  BY SMTT(20) DEF CommandTypes, SwitchTarget, AgentTypes, SwitchState, StopState, Idle
<1>9. UseKnown'
  BY SMTT(20) DEF UseKnown, PcType, AgentTypes, Procs
<1> QED
  BY <1>1, <1>2, <1>3, <1>4, <1>5, <1>6, <1>7, <1>8, <1>9

\* So do /new and /switch.
LEMMA SwitchTypes ==
  ASSUME TypeInv, 
         \/ SwitchBegin \/ SwitchCleanup \/ SwitchSession \/ SwitchCancel
  PROVE  TypeInv'
<1> USE WorkAssumption, SessionFacts
    DEF TypeInv, vars, gate, store, agent, turn, cmds, hist, Alive,
        CleanupTurn, CleanupState, Accept, Spend, PutLast,
        ReleaseTransition, Gated, Full, Queueable, SwitchBegin,
        SwitchCleanup, SwitchSession, SwitchCancel
<1>1. PcType'
  BY SMTT(20) DEF PcType, Labels, Arriving, Starting, Holding, Waiting, Finished
<1>2. TurnTypes'
  BY SMTT(20) DEF TurnTypes, AgentTypes
<1>3. StoreTypes' /\ SwitchTarget'
  BY SMTT(20) DEF StoreTypes, SwitchTarget, CommandTypes, SwitchState, Idle
<1>4. BusyType'
  BY SMTT(20), BusyFacts DEF BusyType, TurnTypes, CommandTypes, StopState, Idle
<1>5. GateType'
  BY Zenon DEF GateType
<1>6. QueueTypes'
  <2>1. items' \in Seq(Work)
    <3>1. CASE SwitchCancel
      <4>1. PICK f \in [1..Cardinality(KeptPositions) -> KeptPositions] :
              items' = [i \in DOMAIN f |-> items[f[i]]]
        BY <3>1
      <4>2. KeptPositions \in SUBSET DOMAIN items
        BY DEF KeptPositions
      <4>3. items \in Seq(Work)
        BY DEF QueueTypes
      <4>4. [i \in DOMAIN f |-> items[f[i]]] \in Seq(Work)
        BY ONLY <4>2, <4>3, KeepSeq,
                f \in [1..Cardinality(KeptPositions) -> KeptPositions]
      <4> QED
        BY <4>1, <4>4
    <3>2. CASE SwitchBegin \/ SwitchCleanup \/ SwitchSession
      BY <3>2 DEF QueueTypes
    <3> QED
      BY <3>1, <3>2
  <2>2. order' \in Seq(Work)
    BY SMTT(20), QueueFacts DEF QueueTypes
  <2>3. drains' \in Nat
    BY SMTT(20), QueueFacts DEF QueueTypes
  <2> QED
    BY <2>1, <2>2, <2>3 DEF QueueTypes
<1>7. AgentTypes'
  BY SMTT(20) DEF TurnTypes, AgentTypes, NoState, NilAgent,
       Bound, ProcTuple, Procs, UseKnown
<1>8. CommandTypes'
  <2>1. CASE SwitchBegin
    <3>1. \/ sw' = [at |-> "cleanup", new |-> TRUE, to |-> known + 1, conv |-> None]
             /\ known + 1 \in Sessions
          \/ \E s \in 1..known :
               sw' = [at |-> "cleanup", new |-> FALSE, to |-> s, conv |-> conv[s]]
      BY <2>1, BoundAssumption DEF StoreTypes, Sessions
    <3>2. sw' \in SwitchState
      <4>1. \E new \in BOOLEAN, to \in Sessions, c \in Work \cup {None} :
              sw' = [at |-> "cleanup", new |-> new, to |-> to, conv |-> c]
        BY <3>1, Zenon DEF AgentTypes
      <4> QED
        BY <4>1 DEF SwitchState
    <3> QED
      BY <2>1, <3>2 DEF CommandTypes
  <2>2. CASE SwitchCleanup \/ SwitchSession \/ SwitchCancel
    BY <2>2, SMTT(20) DEF CommandTypes, SwitchState, StopState, Idle
  <2> QED
    BY <2>1, <2>2
<1>9. UseKnown'
  BY SMTT(20) DEF UseKnown, PcType, AgentTypes, Procs
<1> QED
  BY <1>1, <1>2, <1>3, <1>4, <1>5, <1>6, <1>7, <1>8, <1>9

\* So does /stop.
LEMMA StopTypes ==
  ASSUME TypeInv, 
         \/ StopBegin \/ StopKeepQuiet \/ StopTryLock \/ StopUnlock
           \/ StopSeesGate \/ StopForcesUnlock
  PROVE  TypeInv'
<1> USE WorkAssumption, SessionFacts
    DEF TypeInv, vars, gate, store, agent, turn, cmds, hist, Alive,
        CleanupTurn, CleanupState, Accept, Spend, PutLast,
        ReleaseTransition, Gated, Full, Queueable, StopBegin,
        StopKeepQuiet, StopTryLock, StopUnlock, StopSeesGate,
        StopForcesUnlock
<1>1. PcType'
  BY SMTT(20) DEF PcType, Labels, Arriving, Starting, Holding, Waiting, Finished
<1>2. TurnTypes'
  BY SMTT(20) DEF TurnTypes, AgentTypes
<1>3. StoreTypes' /\ SwitchTarget'
  BY SMTT(20) DEF StoreTypes, SwitchTarget, CommandTypes, SwitchState, Idle
<1>4. BusyType'
  BY SMTT(20), BusyFacts DEF BusyType, TurnTypes, CommandTypes, StopState, Idle
<1>5. GateType'
  BY Zenon DEF GateType
<1>6. QueueTypes'
  <2>1. items' \in Seq(Work)
    BY SMTT(20), QueueFacts DEF QueueTypes
  <2>2. order' \in Seq(Work)
    BY SMTT(20), QueueFacts DEF QueueTypes
  <2>3. drains' \in Nat
    BY SMTT(20), QueueFacts DEF QueueTypes
  <2> QED
    BY <2>1, <2>2, <2>3 DEF QueueTypes
<1>7. AgentTypes'
  BY SMTT(20) DEF TurnTypes, AgentTypes, NoState, NilAgent,
       Bound, ProcTuple, Procs, UseKnown
<1>8. CommandTypes'
  BY SMTT(20) DEF CommandTypes, SwitchTarget, AgentTypes, SwitchState, StopState, Idle
<1>9. UseKnown'
  BY SMTT(20) DEF UseKnown, PcType, AgentTypes, Procs
<1> QED
  BY <1>1, <1>2, <1>3, <1>4, <1>5, <1>6, <1>7, <1>8, <1>9

\* So do the drains, the /queue commands and the death of a process.
LEMMA EditTypes ==
  ASSUME TypeInv, 
         \/ Drain \/ QueueClear \/ QueueDelete \/ QueueMove \/ ProcessDies
  PROVE  TypeInv'
<1> USE WorkAssumption, SessionFacts
    DEF TypeInv, vars, gate, store, agent, turn, cmds, hist, Alive,
        CleanupTurn, CleanupState, Accept, Spend, PutLast,
        ReleaseTransition, Gated, Full, Queueable, Drain, QueueClear,
        QueueDelete, QueueMove, ProcessDies
<1>1. PcType'
  BY SMTT(20) DEF PcType, Labels, Arriving, Starting, Holding, Waiting, Finished
<1>2. TurnTypes'
  BY SMTT(20) DEF TurnTypes, AgentTypes
<1>3. StoreTypes' /\ SwitchTarget'
  BY SMTT(20) DEF StoreTypes, SwitchTarget, CommandTypes, SwitchState, Idle
<1>4. BusyType'
  BY SMTT(20), BusyFacts DEF BusyType, TurnTypes, CommandTypes, StopState, Idle
<1>5. GateType'
  BY Zenon DEF GateType
<1>6. QueueTypes'
  <2>1. items' \in Seq(Work)
    <3>1. CASE QueueDelete
      <4>1. PICK i \in DOMAIN items : items' = RemoveAt(items, i)
        BY <3>1
      <4> QED
        BY <4>1, RemoveAtSeq DEF QueueTypes
    <3>2. CASE QueueMove
      <4>1. PICK i \in DOMAIN items, j \in DOMAIN items :
              items' = [items EXCEPT ![i] = items[j], ![j] = items[i]]
        BY <3>2
      <4> QED
        BY <4>1, SwapSeq DEF QueueTypes
    <3>3. CASE Drain \/ QueueClear \/ ProcessDies
      <4>1. items' = items \/ items' = <<>> \/ (items # <<>> /\ items' = Tail(items))
        BY <3>3, SMTT(20)
      <4>2. <<>> \in Seq(Work)
        OBVIOUS
      <4> QED
        BY <4>1, <4>2, QueueFacts DEF QueueTypes
    <3> QED
      BY <3>1, <3>2, <3>3
  <2>2. order' \in Seq(Work)
    BY SMTT(20), QueueFacts DEF QueueTypes
  <2>3. drains' \in Nat
    BY SMTT(20), QueueFacts DEF QueueTypes
  <2> QED
    BY <2>1, <2>2, <2>3 DEF QueueTypes
<1>7. AgentTypes'
  BY SMTT(20) DEF TurnTypes, AgentTypes, NoState, NilAgent,
       Bound, ProcTuple, Procs, UseKnown
<1>8. CommandTypes'
  BY SMTT(20) DEF CommandTypes, SwitchTarget, AgentTypes, SwitchState, StopState, Idle
<1>9. UseKnown'
  BY SMTT(20) DEF UseKnown, PcType, AgentTypes, Procs
<1> QED
  BY <1>1, <1>2, <1>3, <1>4, <1>5, <1>6, <1>7, <1>8, <1>9

\* The initial state has the types.
LEMMA InitTypes ==
  ASSUME Init
  PROVE  TypeInv
<1> USE WorkAssumption, BoundAssumption DEF Init
<1>1. 1 \in Sessions
  BY DEF Sessions
<1>2. PcType
  BY DEF PcType, Labels
<1>3. TurnTypes /\ StoreTypes /\ QueueTypes
  BY <1>1 DEF TurnTypes, StoreTypes, QueueTypes
<1>4. BusyType
  BY DEF BusyType
<1>5. GateType
  BY DEF GateType
<1>6. AgentTypes
  BY <1>1 DEF AgentTypes, ProcTuple
<1>7. CommandTypes
  BY DEF CommandTypes, SwitchState, StopState
<1>8. SwitchTarget /\ UseKnown
  BY DEF SwitchTarget, UseKnown, Idle
<1> QED
  BY <1>2, <1>3, <1>4, <1>5, <1>6, <1>7, <1>8 DEF TypeInv

\* Every step keeps the types.
LEMMA NextTypes ==
  ASSUME TypeInv, [Next]_vars
  PROVE  TypeInv'
<1>1. ASSUME NEW m \in Work, Handle(m) \/ Step(m) \/ HandlerUnlock(m)
      PROVE  TypeInv'
  BY <1>1, HandlerTypes, CronTypes, StartTypes, SendTypes, EndTypes DEF Handle, Step
<1>2. CASE Drain \/ SwitchStep \/ StopStep \/ Command \/ ProcessDies
  BY <1>2, SwitchTypes, StopTypes, EditTypes DEF SwitchStep, StopStep, Command
<1>3. CASE UNCHANGED vars
  BY <1>3 DEF vars, gate, store, agent, turn, cmds, hist, TypeInv, PcType, TurnTypes,
       StoreTypes, BusyType, GateType, QueueTypes, AgentTypes, CommandTypes,
       SwitchTarget, UseKnown
<1> QED
  BY <1>1, <1>2, <1>3 DEF Next

\* Every variable of a chat keeps its type; in particular /new and /switch only ever
\* activate sessions that exist.
THEOREM TypeCorrect == Spec => []TypeOK
<1>1. TypeInv => TypeOK
  BY DEF TypeInv, TypeOK, PcType, TurnTypes, StoreTypes, BusyType, GateType,
       QueueTypes, AgentTypes, CommandTypes
<1> QED
  BY <1>1, InitTypes, NextTypes, PTL DEF Spec

-----------------------------------------------------------------------------
(* The holders of a session.                                               *)

\* Only the handler of a prompt unlocks a session after it has queued its work.
HandlersQueued == \A m \in unlocking : m \in Users /\ pc[m] \notin {"new", "cronLock"}

\* An unforced session that is held is busy, and held by one.
Guarded ==
  \A s \in Sessions \ forced :
    /\ Holders(s) # {} => busy[s]
    /\ \A a, b \in Holders(s) : a = b

SerialInv == TypeInv /\ HandlersQueued /\ Guarded

\* A step that leaves the flags alone and lets nobody into a session.
Quiet ==
  /\ busy' = busy /\ unlocking' = unlocking /\ forced' = forced
  /\ \A m \in Work : InTurn(m)' => InTurn(m) /\ sess'[m] = sess[m]
  /\ \A m \in unlocking : sess'[m] = sess[m]
  /\ stop'.at = "locked" => stop' = stop

\* What it means to be a holder of a session.
LEMMA HoldersAre ==
  ASSUME NEW s
  PROVE  /\ \A m \in Work : <<"turn", m>> \in Holders(s) <=> InTurn(m) /\ sess[m] = s
         /\ \A m \in unlocking : <<"handler", m>> \in Holders(s) <=> sess[m] = s
         /\ <<"stop", None>> \in Holders(s) <=> stop.at = "locked" /\ stop.sess = s
  BY DEF Holders

\* All that can hold a session after a step.
LEMMA HoldersNext ==
  ASSUME NEW s, NEW H,
         \A m \in Work : InTurn(m)' /\ sess'[m] = s => <<"turn", m>> \in H,
         \A m \in unlocking' : sess'[m] = s => <<"handler", m>> \in H,
         stop'.at = "locked" /\ stop'.sess = s => <<"stop", None>> \in H
  PROVE  Holders(s)' \subseteq H
  BY DEF Holders

\* A quiet step leaves every session with at most its holder.
LEMMA QuietKeeps ==
  ASSUME Guarded, Quiet
  PROVE  Guarded'
<1>1. ASSUME NEW s \in Sessions
      PROVE  Holders(s)' \subseteq Holders(s)
  BY HoldersAre, HoldersNext DEF Quiet
<1> QED
  BY <1>1 DEF Guarded, Quiet

\* TryLock on a free session adds one holder.
LEMMA TakeKeeps ==
  ASSUME Guarded, BusyType, NEW t \in Sessions, NEW h,
         ~busy[t], busy' = [busy EXCEPT ![t] = TRUE], forced' = forced,
         Holders(t)' \subseteq Holders(t) \cup {h},
         \A s \in Sessions \ {t} : Holders(s)' \subseteq Holders(s)
  PROVE  Guarded'
<1>1. t \in forced \/ Holders(t) = {}
  BY DEF Guarded
<1>2. ASSUME NEW s \in Sessions \ forced
      PROVE  (Holders(s)' # {} => busy'[s]) /\ \A a, b \in Holders(s)' : a = b
  <2>1. CASE s = t
    BY <1>1, <2>1 DEF BusyType
  <2>2. CASE s # t
    BY <2>2 DEF Guarded, BusyType
  <2> QED
    BY <2>1, <2>2
<1> QED
  BY <1>2 DEF Guarded

\* Unlock by the holder leaves none.
LEMMA ReleaseKeeps ==
  ASSUME Guarded, BusyType, NEW t \in Sessions, NEW h \in Holders(t),
         busy' = [busy EXCEPT ![t] = FALSE], forced' = forced,
         Holders(t)' \subseteq Holders(t) \ {h},
         \A s \in Sessions \ {t} : Holders(s)' \subseteq Holders(s)
  PROVE  Guarded'
<1>1. t \in forced \/ Holders(t)' = {}
  BY DEF Guarded
<1>2. ASSUME NEW s \in Sessions \ forced
      PROVE  (Holders(s)' # {} => busy'[s]) /\ \A a, b \in Holders(s)' : a = b
  <2>1. CASE s = t
    BY <1>1, <2>1
  <2>2. CASE s # t
    BY <2>2 DEF Guarded, BusyType
  <2> QED
    BY <2>1, <2>2
<1> QED
  BY <1>2 DEF Guarded

\* The turn of a handler becomes its duty to unlock.
LEMMA PassKeeps ==
  ASSUME Guarded, NEW t \in Sessions, NEW h \in Holders(t), NEW g,
         busy' = busy, forced' = forced,
         Holders(t)' \subseteq (Holders(t) \ {h}) \cup {g},
         \A s \in Sessions \ {t} : Holders(s)' \subseteq Holders(s)
  PROVE  Guarded'
<1>1. ASSUME NEW s \in Sessions \ forced
      PROVE  (Holders(s)' # {} => busy'[s]) /\ \A a, b \in Holders(s)' : a = b
  <2>1. CASE s = t
    BY <2>1 DEF Guarded
  <2>2. CASE s # t
    BY <2>2 DEF Guarded
  <2> QED
    BY <2>1, <2>2
<1> QED
  BY <1>1 DEF Guarded

\* The steps of a piece of work that neither take nor give back a session.
LEMMA QuietWork ==
  ASSUME SerialInv, NEW m \in Work,
         \/ Arrive(m) \/ EnqueueBehindBusy(m) \/ PassUpgradeGate(m) \/ MarkRunning(m)
         \/ CronBegin(m) \/ CronConvert(m) \/ CronRunEnds(m) \/ EnterStart(m)
         \/ CheckItem(m) \/ RequeueFront(m) \/ FailItem(m) \/ CompleteTurn(m)
  PROVE  Quiet /\ HandlersQueued'
<1> USE WorkAssumption
    DEF SerialInv, TypeInv, vars, gate, store, agent, turn, cmds, hist, PutLast,
        Queueable,
        Arrive, EnqueueBehindBusy, PassUpgradeGate, MarkRunning, CronBegin,
        CronConvert, CronRunEnds, EnterStart, CheckItem, RequeueFront, FailItem,
        CompleteTurn
<1>1. UNCHANGED <<busy, unlocking, forced, stop>>
  BY SMTT(20)
<1>2. \A w \in Work : InTurn(w)' => InTurn(w) /\ sess'[w] = sess[w]
  BY SMTT(20) DEF InTurn, Holding, Starting, PcType, TurnTypes
<1>3. \A w \in unlocking : /\ sess'[w] = sess[w] /\ w \in Users
                              /\ pc'[w] \notin {"new", "cronLock"}
  BY SMTT(20) DEF HandlersQueued, PcType, TurnTypes
<1> QED
  BY <1>1, <1>2, <1>3 DEF Quiet, HandlersQueued

\* A turn keeps the session until it ends.
LEMMA QuietTurn ==
  ASSUME SerialInv, NEW m \in Work,
         \/ AcquireTurn(m) \/ TakeState(m) \/ SendPrompt(m) \/ SendFails(m)
         \/ SendRestarts(m) \/ TurnResult(m) \/ TurnFails(m)
  PROVE  Quiet /\ HandlersQueued'
<1> USE DEF SerialInv, TypeInv, vars, gate, store, agent, turn, cmds, hist, Alive,
        CleanupTurn, AcquireTurn, TakeState, SendPrompt, SendFails, SendRestarts,
        TurnResult, TurnFails
<1>1. UNCHANGED <<busy, unlocking, forced, stop, sess>>
  BY SMTT(20)
<1>2. \A w \in Work : InTurn(w)' => InTurn(w)
  BY SMTT(20) DEF InTurn, Holding, Starting, PcType
<1>3. (\A w \in Work \ {m} : pc'[w] = pc[w]) /\ pc'[m] \notin {"new", "cronLock"}
  BY SMTT(20) DEF PcType
<1> QED
  BY <1>1, <1>2, <1>3 DEF Quiet, HandlersQueued, TurnTypes

\* Drains, session commands and /queue touch no flag.
LEMMA QuietCommand ==
  ASSUME SerialInv,
         \/ Drain \/ SwitchBegin \/ SwitchCleanup \/ SwitchSession \/ SwitchCancel
         \/ StopBegin \/ StopKeepQuiet \/ StopSeesGate
         \/ QueueClear \/ QueueDelete \/ QueueMove \/ ProcessDies
  PROVE  Quiet /\ HandlersQueued'
<1> USE DEF SerialInv, TypeInv, vars, gate, store, agent, turn, cmds, hist, CleanupState,
        Spend, Drain, SwitchBegin, SwitchCleanup, SwitchSession, SwitchCancel, StopBegin,
        StopKeepQuiet, StopSeesGate, QueueClear, QueueDelete, QueueMove, ProcessDies
<1>1. UNCHANGED <<busy, unlocking, forced, sess>>
  BY SMTT(20)
<1>2. \A w \in Work : InTurn(w)' => InTurn(w)
  BY SMTT(20) DEF InTurn, Holding, Starting, PcType
<1>3. \A w \in unlocking : w \in Users /\ pc'[w] \notin {"new", "cronLock"}
  BY SMTT(20) DEF HandlersQueued, PcType, TurnTypes
<1>4. stop'.at = "locked" => stop' = stop
  BY SMTT(20) DEF Idle, CommandTypes, StopState
<1> QED
  BY <1>1, <1>2, <1>3, <1>4 DEF Quiet, HandlersQueued

\* The tests of the flag by pieces of work.
LEMMA TakeSteps ==
  ASSUME SerialInv, NEW m \in Work,
         TryLockSession(m) \/ CronTryLock(m) \/ StartItem(m)
  PROVE  Guarded' /\ HandlersQueued'
<1> USE WorkAssumption, SessionFacts
    DEF SerialInv, TypeInv, vars, gate, store, agent, turn, cmds, hist,
        TryLockSession, CronTryLock, StartItem
<1>1. UNCHANGED <<unlocking, forced, stop>> /\ sess'[m] \in Sessions
  BY SMTT(20) DEF TurnTypes
<1>2. \A w \in Work \ {m} : pc'[w] = pc[w] /\ sess'[w] = sess[w]
  BY SMTT(20) DEF PcType, TurnTypes
<1>3. ~InTurn(m) /\ pc'[m] \notin {"new", "cronLock"}
  BY SMTT(20) DEF InTurn, Holding, Starting, PcType
<1>4. m \in unlocking => sess'[m] = sess[m]
  BY SMTT(20) DEF HandlersQueued, TurnTypes
<1>5. HandlersQueued'
  BY <1>1, <1>2, <1>3 DEF HandlersQueued, TurnTypes
<1>6. \/ busy' = busy /\ ~InTurn(m)'
      \/ ~busy[sess'[m]] /\ busy' = [busy EXCEPT ![sess'[m]] = TRUE]
  BY SMTT(20) DEF InTurn, Holding, Starting, PcType, TurnTypes
<1>7. CASE busy' = busy /\ ~InTurn(m)'
  <2>1. Quiet
    BY <1>1, <1>2, <1>4, <1>7 DEF Quiet, InTurn, TurnTypes
  <2> QED
    BY <1>5, <2>1, QuietKeeps
<1>8. CASE ~busy[sess'[m]] /\ busy' = [busy EXCEPT ![sess'[m]] = TRUE]
  <2>1. ASSUME NEW s \in Sessions
        PROVE  Holders(s)' \subseteq Holders(s) \cup {<<"turn", m>>}
    BY <1>1, <1>2, <1>4, SMTT(20) DEF Holders, InTurn, TurnTypes
  <2>2. ASSUME NEW s \in Sessions \ {sess'[m]}
        PROVE  Holders(s)' \subseteq Holders(s)
    BY <1>1, <1>2, <1>4, SMTT(20) DEF Holders, InTurn, TurnTypes
  <2> QED
    BY <1>1, <1>5, <1>8, <2>1, <2>2, TakeKeeps
<1> QED
  BY <1>6, <1>7, <1>8

\* Unlock by a turn that ends before or after it ran.
LEMMA ReleaseSteps ==
  ASSUME SerialInv, NEW m \in Work, RefuseFull(m) \/ GiveUp(m) \/ EndUnlock(m)
  PROVE  Guarded' /\ HandlersQueued'
<1> USE DEF SerialInv, TypeInv, vars, gate, store, agent, turn, cmds, hist,
        RefuseFull, GiveUp, EndUnlock
<1>1. UNCHANGED <<unlocking, forced, stop, sess>> /\ sess[m] \in Sessions
  BY SMTT(20) DEF TurnTypes
<1>2. \A w \in Work \ {m} : pc'[w] = pc[w]
  BY SMTT(20) DEF PcType
<1>3. InTurn(m) /\ ~InTurn(m)' /\ pc'[m] \notin {"new", "cronLock"}
  BY SMTT(20) DEF InTurn, Holding, Starting, PcType
<1>4. busy' = [busy EXCEPT ![sess[m]] = FALSE]
  BY SMTT(20)
<1>5. HandlersQueued'
  BY <1>1, <1>2, <1>3 DEF HandlersQueued, TurnTypes
<1>6. <<"turn", m>> \in Holders(sess[m])
  BY <1>3, HoldersAre
<1>7. ASSUME NEW s \in Sessions
      PROVE  Holders(s)' \subseteq Holders(s) \ {<<"turn", m>>}
  BY <1>1, <1>2, <1>3, SMTT(20) DEF Holders, InTurn, TurnTypes
<1> QED
  BY <1>1, <1>4, <1>5, <1>6, <1>7, ReleaseKeeps

\* A prompt takes the gate with its session, or is queued and leaves the handler to unlock.
LEMMA BeginStep ==
  ASSUME SerialInv, NEW m \in Work, BeginOrEnqueue(m)
  PROVE  Guarded' /\ HandlersQueued'
<1> USE DEF SerialInv, TypeInv, vars, gate, store, agent, turn, cmds, hist, BeginOrEnqueue,
        PutLast
<1>1. UNCHANGED <<busy, forced, stop, sess>> /\ sess[m] \in Sessions /\ m \in Users
  BY SMTT(20) DEF TurnTypes
<1>2. \A w \in Work \ {m} : pc'[w] = pc[w]
  BY SMTT(20) DEF PcType
<1>3. InTurn(m) /\ pc'[m] \notin {"new", "cronLock"}
  BY SMTT(20) DEF InTurn, Holding, Starting, PcType
<1>4. unlocking' = unlocking \/ (unlocking' = unlocking \cup {m} /\ ~InTurn(m)')
  BY SMTT(20) DEF InTurn, Holding, Starting, PcType
<1>5. HandlersQueued'
  BY <1>1, <1>2, <1>3, <1>4 DEF HandlersQueued, TurnTypes
<1>6. CASE unlocking' = unlocking
  <2>1. Quiet
    BY <1>1, <1>2, <1>3, <1>6 DEF Quiet, InTurn
  <2> QED
    BY <1>5, <2>1, QuietKeeps
<1>7. CASE unlocking' = unlocking \cup {m} /\ ~InTurn(m)'
  <2>1. <<"turn", m>> \in Holders(sess[m])
    BY <1>3, HoldersAre
  <2>2. Holders(sess[m])' \subseteq
          (Holders(sess[m]) \ {<<"turn", m>>}) \cup {<<"handler", m>>}
    BY <1>1, <1>2, <1>7, SMTT(20) DEF Holders, InTurn, TurnTypes
  <2>3. ASSUME NEW s \in Sessions \ {sess[m]}
        PROVE  Holders(s)' \subseteq Holders(s)
    BY <1>1, <1>2, <1>7, SMTT(20) DEF Holders, InTurn, TurnTypes
  <2> QED
    BY <1>1, <1>5, <2>1, <2>2, <2>3, PassKeeps
<1> QED
  BY <1>4, <1>6, <1>7

\* The handler of a queued prompt unlocks.
LEMMA HandlerStep ==
  ASSUME SerialInv, NEW m \in Work, HandlerUnlock(m)
  PROVE  Guarded' /\ HandlersQueued'
<1> USE DEF SerialInv, TypeInv, vars, gate, store, agent, turn, cmds, hist, HandlerUnlock
<1>1. UNCHANGED <<forced, stop, sess, pc>> /\ sess[m] \in Sessions
  BY DEF TurnTypes
<1>2. <<"handler", m>> \in Holders(sess[m])
  BY HoldersAre
<1>3. ASSUME NEW s \in Sessions
      PROVE  Holders(s)' \subseteq Holders(s) \ {<<"handler", m>>}
  BY <1>1, SMTT(20) DEF Holders, InTurn, TurnTypes
<1>4. busy' = [busy EXCEPT ![sess[m]] = FALSE]
  OBVIOUS
<1>5. HandlersQueued'
  BY <1>1 DEF HandlersQueued
<1> QED
  BY <1>1, <1>2, <1>3, <1>4, <1>5, ReleaseKeeps

\* /stop takes and gives back a free session, or frees one that it does not hold.
LEMMA StopSteps ==
  ASSUME SerialInv, StopTryLock \/ StopUnlock \/ StopForcesUnlock
  PROVE  Guarded' /\ HandlersQueued'
<1> USE DEF SerialInv, TypeInv, vars, gate, store, agent, turn, cmds, hist
<1>1. UNCHANGED <<unlocking, sess, pc>> /\ stop.sess \in Sessions
  BY SMTT(20) DEF StopTryLock, StopUnlock, StopForcesUnlock, CommandTypes, StopState, Idle
<1>2. HandlersQueued'
  BY <1>1 DEF HandlersQueued
<1>3. CASE StopTryLock
  <2>1. CASE busy[stop.sess]
    <3>1. Quiet
      <4>1. stop'.at = "gate" /\ busy' = busy /\ forced' = forced
        BY <1>3, <2>1 DEF StopTryLock, CommandTypes, StopState, Idle
      <4> QED
        BY <1>1, <4>1 DEF Quiet, InTurn
    <3> QED
      BY <1>2, <3>1, QuietKeeps
  <2>2. CASE ~busy[stop.sess]
    <3>1. busy' = [busy EXCEPT ![stop.sess] = TRUE] /\ forced' = forced
      BY <1>3, <2>2 DEF StopTryLock
    <3>2. stop'.sess = stop.sess
      BY <1>3, <2>2 DEF StopTryLock, CommandTypes, StopState, Idle
    <3>3. ASSUME NEW s \in Sessions
          PROVE  Holders(s)' \subseteq Holders(s) \cup {<<"stop", None>>}
      BY <1>1, SMTT(20) DEF Holders, InTurn, TurnTypes
    <3>4. ASSUME NEW s \in Sessions \ {stop.sess}
          PROVE  Holders(s)' \subseteq Holders(s)
      BY <1>1, <3>2, SMTT(20) DEF Holders, InTurn, TurnTypes
    <3>5. Guarded /\ BusyType
      OBVIOUS
    <3>6. Guarded'
      BY ONLY <1>1, <2>2, <3>1, <3>3, <3>4, <3>5, TakeKeeps, Zenon
    <3> QED
      BY <1>2, <3>6
  <2> QED
    BY <2>1, <2>2
<1>4. CASE StopUnlock
  <2>1. busy' = [busy EXCEPT ![stop.sess] = FALSE] /\ forced' = forced
    BY <1>4 DEF StopUnlock
  <2>2. <<"stop", None>> \in Holders(stop.sess)
    BY <1>4, HoldersAre DEF StopUnlock
  <2>3. stop'.at # "locked"
    BY <1>4 DEF StopUnlock, Idle
  <2>4. ASSUME NEW s \in Sessions
        PROVE  Holders(s)' \subseteq Holders(s) \ {<<"stop", None>>}
    BY <1>1, <2>3, SMTT(20) DEF Holders, InTurn, TurnTypes
  <2> QED
    BY <1>1, <1>2, <2>1, <2>2, <2>4, ReleaseKeeps
<1>5. CASE StopForcesUnlock
  <2>1. forced' = forced \cup {stop.sess} /\ busy' = [busy EXCEPT ![stop.sess] = FALSE]
    BY <1>5 DEF StopForcesUnlock
  <2>2. stop'.at # "locked"
    BY <1>5 DEF StopForcesUnlock, Idle
  <2>3. ASSUME NEW s \in Sessions
        PROVE  Holders(s)' \subseteq Holders(s)
    BY <1>1, <2>2, SMTT(20) DEF Holders, InTurn, TurnTypes
  <2>4. \A s \in Sessions \ forced' : busy'[s] = busy[s]
    BY <2>1 DEF BusyType
  <2> QED
    BY <1>2, <2>1, <2>3, <2>4 DEF Guarded
<1> QED
  BY <1>2, <1>3, <1>4, <1>5

\* Every step keeps the sessions serial.
LEMMA NextSerial ==
  ASSUME SerialInv, [Next]_vars
  PROVE  SerialInv'
<1>1. TypeInv'
  BY NextTypes DEF SerialInv
<1>2. ASSUME Quiet
      PROVE  Guarded'
  BY <1>2, QuietKeeps DEF SerialInv
<1>3. ASSUME NEW m \in Work, Handle(m) \/ Step(m) \/ HandlerUnlock(m)
      PROVE  Guarded' /\ HandlersQueued'
  BY <1>2, <1>3, QuietWork, QuietTurn, TakeSteps, ReleaseSteps, BeginStep,
     HandlerStep DEF Handle, Step
<1>4. CASE Drain \/ SwitchStep \/ StopStep \/ Command \/ ProcessDies
  <2>1. Guarded' /\ HandlersQueued'
    BY <1>2, <1>4, QuietCommand, StopSteps DEF SwitchStep, StopStep, Command
  <2> QED
    BY <1>1, <2>1 DEF SerialInv
<1>5. CASE UNCHANGED vars
  <2>1. Quiet /\ HandlersQueued'
    BY <1>5 DEF vars, turn, store, cmds, hist, Quiet, InTurn, SerialInv,
         HandlersQueued
  <2> QED
    BY <1>1, <1>2, <2>1 DEF SerialInv
<1> QED
  BY <1>1, <1>3, <1>4, <1>5 DEF Next, SerialInv

\* Session.busy serializes the turns of a local session, whatever handlers, queue,
\* cron runs, session commands and failures do, except for a session that /stop has
\* unlocked under its holder.
THEOREM Serial == Spec => []SessionSerial
<1>1. Init => SerialInv
  <2> SUFFICES ASSUME Init
               PROVE  SerialInv
    OBVIOUS
  <2>1. TypeInv
    BY InitTypes
  <2>2. HandlersQueued /\ \A s : Holders(s) = {}
    BY DEF Init, HandlersQueued, Holders, InTurn, Holding, Starting, Idle
  <2> QED
    BY <2>1, <2>2 DEF SerialInv, Guarded
<1>2. SerialInv /\ [Next]_vars => SerialInv'
  BY NextSerial
<1>3. SerialInv => SessionSerial
  BY DEF SerialInv, Guarded, SessionSerial
<1> QED
  BY <1>1, <1>2, <1>3, PTL DEF Spec

-----------------------------------------------------------------------------
(* The queue and what waits in it.                                         *)

\* A sequence lists a set: each element once, and nothing else.
Lists(q, Q) ==
  /\ \A i \in DOMAIN q : q[i] \in Q
  /\ \A x \in Q : \E i \in DOMAIN q : q[i] = x
  /\ \A i, j \in DOMAIN q : q[i] = q[j] => i = j

\* An item is put at the end.
LEMMA ListsAppend ==
  ASSUME NEW S, NEW q \in Seq(S), NEW Q, Lists(q, Q), NEW x \in S, x \notin Q
  PROVE  Lists(Append(q, x), Q \cup {x})
<1>1. /\ Len(q) \in Nat /\ DOMAIN q = 1..Len(q)
      /\ DOMAIN Append(q, x) = 1..(Len(q) + 1)
      /\ \A i \in 1..Len(q) : Append(q, x)[i] = q[i]
      /\ Append(q, x)[Len(q) + 1] = x
  BY AppendProperties
<1>2. \A i \in DOMAIN Append(q, x) : i = Len(q) + 1 \/ i \in DOMAIN q
  BY <1>1
<1>3. \A i \in DOMAIN q : i \in DOMAIN Append(q, x) /\ i # Len(q) + 1
  BY <1>1
<1> QED
  BY ONLY <1>1, <1>2, <1>3, Lists(q, Q), x \notin Q DEF Lists

\* An item is put back to the front.
LEMMA ListsFront ==
  ASSUME NEW S, NEW q \in Seq(S), NEW Q, Lists(q, Q), NEW x \in S, x \notin Q
  PROVE  Lists(<<x>> \o q, Q \cup {x})
<1>1. Len(q) \in Nat /\ DOMAIN q = 1..Len(q)
  OBVIOUS
<1>2. <<x>> \in Seq(S) /\ Len(<<x>>) = 1 /\ <<x>>[1] = x
  OBVIOUS
<1>3. /\ DOMAIN (<<x>> \o q) = 1..(Len(q) + 1)
      /\ (<<x>> \o q)[1] = x
      /\ \A i \in 2..(Len(q) + 1) : (<<x>> \o q)[i] = q[i - 1]
  BY <1>1, <1>2, ConcatProperties
<1>4. \A i \in 2..(Len(q) + 1) : i - 1 \in DOMAIN q
  BY <1>1
<1>5. \A i \in DOMAIN q : i + 1 \in 2..(Len(q) + 1) /\ (<<x>> \o q)[i + 1] = q[i]
  BY <1>1, <1>3
<1>6. \A i \in DOMAIN (<<x>> \o q) : i = 1 \/ i \in 2..(Len(q) + 1)
  BY <1>1, <1>3
<1>7. \A i \in DOMAIN (<<x>> \o q) : (<<x>> \o q)[i] \in Q \cup {x}
  BY <1>3, <1>4, <1>6 DEF Lists
<1>8. ASSUME NEW y \in Q \cup {x}
      PROVE  \E i \in DOMAIN (<<x>> \o q) : (<<x>> \o q)[i] = y
  <2>1. CASE y = x
    BY <1>1, <1>3, <2>1
  <2>2. CASE y \in Q
    <3>1. PICK i \in DOMAIN q : q[i] = y
      BY <2>2 DEF Lists
    <3>2. i + 1 \in DOMAIN (<<x>> \o q)
      BY <1>1, <1>3
    <3> QED
      BY <1>5, <3>1, <3>2
  <2> QED
    BY <2>1, <2>2
<1>9. ASSUME NEW i \in DOMAIN (<<x>> \o q), NEW j \in DOMAIN (<<x>> \o q),
             (<<x>> \o q)[i] = (<<x>> \o q)[j]
      PROVE  i = j
  <2>1. CASE i = 1 \/ j = 1
    BY <1>3, <1>4, <1>6, <1>9, <2>1 DEF Lists
  <2>2. CASE i # 1 /\ j # 1
    <3>1. q[i - 1] = q[j - 1] /\ i - 1 \in DOMAIN q /\ j - 1 \in DOMAIN q
      BY <1>3, <1>4, <1>6, <1>9, <2>2
    <3>2. i - 1 = j - 1
      BY <3>1 DEF Lists
    <3> QED
      BY <1>1, <1>3, <3>2
  <2> QED
    BY <2>1, <2>2
<1> QED
  BY <1>7, <1>8, <1>9 DEF Lists

\* The first item leaves.
LEMMA ListsTail ==
  ASSUME NEW S, NEW q \in Seq(S), q # <<>>, NEW Q, Lists(q, Q)
  PROVE  Head(q) \in Q /\ Lists(Tail(q), Q \ {Head(q)})
<1>1. /\ Len(q) \in Nat \ {0} /\ DOMAIN q = 1..Len(q) /\ Head(q) = q[1]
      /\ DOMAIN Tail(q) = 1..(Len(q) - 1)
      /\ \A i \in 1..(Len(q) - 1) : Tail(q)[i] = q[i + 1]
  BY HeadTailProperties, EmptySeq
<1>2. 1 \in DOMAIN q /\ Head(q) \in Q
  BY <1>1 DEF Lists
<1>3. \A i \in DOMAIN Tail(q) : i + 1 \in DOMAIN q /\ i + 1 # 1
  BY <1>1
<1>4. \A i \in DOMAIN q : i # 1 => i - 1 \in DOMAIN Tail(q) /\ Tail(q)[i - 1] = q[i]
  BY <1>1
<1>5. \A i \in DOMAIN Tail(q) : Tail(q)[i] \in Q \ {Head(q)}
  <2> TAKE i \in DOMAIN Tail(q)
  <2>1. Tail(q)[i] = q[i + 1] /\ q[i + 1] \in Q
    BY <1>1, <1>3 DEF Lists
  <2>2. q[i + 1] # q[1]
    BY <1>2, <1>3 DEF Lists
  <2> QED
    BY <1>1, <2>1, <2>2
<1>6. ASSUME NEW x \in Q \ {Head(q)}
      PROVE  \E i \in DOMAIN Tail(q) : Tail(q)[i] = x
  <2>1. PICK i \in DOMAIN q : q[i] = x
    BY DEF Lists
  <2> QED
    BY <1>1, <1>4, <2>1
<1>7. ASSUME NEW i \in DOMAIN Tail(q), NEW j \in DOMAIN Tail(q), Tail(q)[i] = Tail(q)[j]
      PROVE  i = j
  <2>1. i + 1 = j + 1
    BY <1>1, <1>3, <1>7 DEF Lists
  <2> QED
    BY <1>1, <2>1
<1> QED
  BY <1>2, <1>5, <1>6, <1>7 DEF Lists

\* An item of the middle leaves.
LEMMA ListsRemoveAt ==
  ASSUME NEW S, NEW q \in Seq(S), NEW i \in DOMAIN q, NEW Q, Lists(q, Q)
  PROVE  Lists(RemoveAt(q, i), Q \ {q[i]})
<1> DEFINE L == Len(q)
           before == SubSeq(q, 1, i - 1)
           after == SubSeq(q, i + 1, L)
           r == before \o after
           at(k) == IF k < i THEN k ELSE k + 1
<1>1. L \in Nat /\ DOMAIN q = 1..L /\ i \in 1..L /\ \A k \in 1..L : q[k] \in S
  OBVIOUS
<1>2. /\ before \in Seq(S) /\ Len(before) = i - 1
      /\ \A k \in 1..(i - 1) : before[k] = q[k]
  BY <1>1, SubSeqProperties
<1>3. /\ after \in Seq(S) /\ Len(after) = L - i
      /\ \A k \in 1..(L - i) : after[k] = q[i + k]
  BY <1>1, SubSeqProperties
<1> HIDE DEF before, after
<1>4. DOMAIN r = 1..(L - 1) /\ \A k \in 1..(L - 1) : r[k] = q[at(k)]
  <2>1. r \in Seq(S) /\ Len(r) = L - 1
    <3>1. r \in Seq(S) /\ Len(r) = Len(before) + Len(after)
      BY <1>2, <1>3, ConcatProperties
    <3> QED
      BY <1>1, <1>2, <1>3, <3>1
  <2>2. ASSUME NEW k \in 1..(L - 1)
        PROVE  r[k] = q[at(k)]
    <3>1. r[k] = IF k <= i - 1 THEN before[k] ELSE after[k - (i - 1)]
      BY <1>1, <1>2, <1>3, ConcatProperties
    <3>2. CASE k < i
      BY <1>1, <1>2, <3>1, <3>2
    <3>3. CASE ~(k < i)
      <4>1. k - (i - 1) \in 1..(L - i) /\ i + (k - (i - 1)) = k + 1 /\ ~(k <= i - 1)
        BY <1>1, <3>3
      <4>2. after[k - (i - 1)] = q[i + (k - (i - 1))]
        BY <1>3, <4>1
      <4>3. after[k - (i - 1)] = q[k + 1]
        BY ONLY <4>1, <4>2, Zenon
      <4> QED
        BY <3>1, <3>3, <4>1, <4>3
    <3> QED
      BY <3>2, <3>3
  <2> QED
    BY <2>1, <2>2
<1> HIDE DEF r
<1>5. \A k \in DOMAIN r : at(k) \in DOMAIN q /\ at(k) # i
  BY <1>1, <1>4
<1>6. \A k, n \in DOMAIN r : at(k) = at(n) => k = n
  BY <1>1, <1>4
<1>7. \A k \in DOMAIN q : k # i => \E n \in DOMAIN r : at(n) = k
  <2> SUFFICES ASSUME NEW k \in DOMAIN q, k # i
               PROVE  \E n \in DOMAIN r : at(n) = k
    OBVIOUS
  <2>1. CASE k < i
    BY <1>1, <1>4, <2>1
  <2>2. CASE ~(k < i)
    <3>1. k - 1 \in DOMAIN r /\ at(k - 1) = k
      BY <1>1, <1>4, <2>2
    <3> QED
      BY <3>1
  <2> QED
    BY <2>1, <2>2
<1> HIDE DEF at
<1>8. Lists(r, Q \ {q[i]})
  <2>1. \A k \in DOMAIN r : r[k] = q[at(k)]
    BY <1>4
  <2>2. /\ \A k \in DOMAIN q : q[k] \in Q
        /\ \A x \in Q : \E k \in DOMAIN q : q[k] = x
        /\ \A k, n \in DOMAIN q : q[k] = q[n] => k = n
    BY DEF Lists
  <2>3. \A k \in DOMAIN r : r[k] \in Q \ {q[i]}
    BY <1>5, <2>1, <2>2
  <2>4. \A x \in Q \ {q[i]} : \E k \in DOMAIN r : r[k] = x
    BY <1>7, <2>1, <2>2
  <2>5. \A k, n \in DOMAIN r : r[k] = r[n] => k = n
    BY <1>5, <1>6, <2>1, <2>2
  <2> QED
    BY <2>3, <2>4, <2>5 DEF Lists
<1> QED
  BY <1>8 DEF r, before, after, RemoveAt

\* Two items change places.
LEMMA ListsSwap ==
  ASSUME NEW S, NEW q \in Seq(S), NEW i \in DOMAIN q, NEW j \in DOMAIN q, NEW Q,
         Lists(q, Q)
  PROVE  Lists([q EXCEPT ![i] = q[j], ![j] = q[i]], Q)
<1> DEFINE r == [q EXCEPT ![i] = q[j], ![j] = q[i]]
           at(k) == IF k = j THEN i ELSE IF k = i THEN j ELSE k
<1>1. DOMAIN r = DOMAIN q /\ \A k \in DOMAIN q : r[k] = q[at(k)] /\ at(k) \in DOMAIN q
  OBVIOUS
<1>2. \A k \in DOMAIN q : at(at(k)) = k
  OBVIOUS
<1> HIDE DEF r, at
<1> QED
  BY <1>1, <1>2 DEF Lists, r

\* The items at some positions stay, in order.
LEMMA ListsKeep ==
  ASSUME NEW S, NEW q \in Seq(S), NEW Q, Lists(q, Q), NEW K \in SUBSET DOMAIN q,
         NEW f \in [1..Cardinality(K) -> K],
         \A i, j \in DOMAIN f : i < j => f[i] < f[j]
  PROVE  Lists([i \in DOMAIN f |-> q[f[i]]], {q[k] : k \in K})
<1>1. IsFiniteSet(K) /\ Cardinality(K) \in Nat /\ K \subseteq Nat
  <2>1. IsFiniteSet(DOMAIN q)
    BY FS_Interval
  <2> QED
    BY <2>1, FS_Subset, FS_CardinalityType
<1>2. \A i, j \in DOMAIN f : f[i] = f[j] => i = j
  <2> SUFFICES ASSUME NEW i \in DOMAIN f, NEW j \in DOMAIN f, f[i] = f[j], i # j
               PROVE  FALSE
    OBVIOUS
  <2>1. i \in Int /\ j \in Int /\ f[i] \in Int
    BY <1>1
  <2>2. i < j \/ j < i
    BY <2>1
  <2> QED
    BY <2>1, <2>2
<1>3. \A k \in K : \E i \in DOMAIN f : f[i] = k
  <2>1. f \in Injection(1..Cardinality(K), K)
    BY <1>2 DEF Injection, IsInjective
  <2>2. Cardinality(1..Cardinality(K)) = Cardinality(K) /\ IsFiniteSet(1..Cardinality(K))
    BY <1>1, FS_Interval
  <2>3. f \in Surjection(1..Cardinality(K), K)
    BY <1>1, <2>1, <2>2, FS_Injection
  <2> QED
    BY <2>3 DEF Surjection
<1> QED
  BY <1>2, <1>3 DEF Lists

\* The work that waits in the queue.
Waits == {m \in Work : pc[m] = "queued"}

\* The queue lists the work that waits in it.
QueueHolds == Lists(items, Waits)

\* Only prompts and cron runs come to the queue, and /compress ends without the gate.
QueuePath ==
  \A m \in Work :
    /\ pc[m] \in Waiting \cup {"giveUp"} => m \in Queueable
    /\ pc[m] = "sawBusy" => m \in Users
    /\ pc[m] \in {"cronLock", "convert"} => m \in CronRuns
    /\ pc[m] = "unlocked" => m \notin Compactions

GateInv == TypeInv /\ QueuePath /\ QueueHolds /\ GateHeldByOne

\* A step of m leaves the queue alone, or puts m at its end or back to its front.
QueueStep(m) ==
  \/ items' = items /\ Waits' = Waits
  \/ /\ m \in Work \ Waits /\ Waits' = Waits \cup {m}
     /\ items' = Append(items, m) \/ items' = <<m>> \o items

\* As long as there is no command, a step of m leaves gate and gatekeepers alone, takes
\* the free gate for m, or gives back the gate that m has.
GateStep(m) ==
  NoCommandYet' =>
    /\ NoCommandYet
    /\ \/ running' = running /\ Gatekeepers' = Gatekeepers
       \/ ~running /\ running' /\ Gatekeepers' = Gatekeepers \cup {m}
       \/ m \in Gatekeepers /\ ~running' /\ Gatekeepers' = Gatekeepers \ {m}

LEMMA GateStepKeeps ==
  ASSUME GateHeldByOne, NEW m, GateStep(m)
  PROVE  GateHeldByOne'
  BY DEF GateHeldByOne, GateStep

LEMMA QueueStepKeeps ==
  ASSUME QueueTypes, QueueHolds, NEW m \in Work, QueueStep(m)
  PROVE  QueueHolds'
<1>1. CASE items' = items /\ Waits' = Waits
  BY <1>1 DEF QueueHolds, Lists
<1>2. CASE m \in Work \ Waits /\ Waits' = Waits \cup {m} /\ items' = Append(items, m)
  <2>1. Lists(Append(items, m), Waits \cup {m})
    BY <1>2, ListsAppend DEF QueueHolds, QueueTypes
  <2> QED
    BY <1>2, <2>1 DEF QueueHolds, Lists
<1>3. CASE m \in Work \ Waits /\ Waits' = Waits \cup {m} /\ items' = <<m>> \o items
  <2>1. Lists(<<m>> \o items, Waits \cup {m})
    BY <1>3, ListsFront DEF QueueHolds, QueueTypes
  <2> QED
    BY <1>3, <2>1 DEF QueueHolds, Lists
<1> QED
  BY <1>1, <1>2, <1>3 DEF QueueStep

\* What a step has to do to the place of m and to the gate.
LEMMA GateStepIs ==
  ASSUME NEW m \in Work, \A w \in Work \ {m} : pc'[w] = pc[w],
         pc'[m] = "new" => pc[m] = "new",
         NoCommandYet' =>
           \/ running' = running /\ (m \in Gatekeepers' <=> m \in Gatekeepers)
           \/ ~running /\ running' /\ m \in Gatekeepers'
           \/ m \in Gatekeepers /\ ~running' /\ m \notin Gatekeepers'
  PROVE  GateStep(m)
<1>1. NoCommandYet' => NoCommandYet
  BY DEF NoCommandYet, Work
<1>2. \A w \in Work \ {m} : w \in Gatekeepers' <=> w \in Gatekeepers
  BY DEF Gatekeepers
<1>3. Gatekeepers \subseteq Work /\ Gatekeepers' \subseteq Work
  BY DEF Gatekeepers, Work, Queueable
<1>4. m \in Gatekeepers' <=> m \in Gatekeepers => Gatekeepers' = Gatekeepers
  BY <1>2, <1>3
<1>5. m \in Gatekeepers' => Gatekeepers' = Gatekeepers \cup {m}
  BY <1>2, <1>3
<1>6. m \notin Gatekeepers' => Gatekeepers' = Gatekeepers \ {m}
  BY <1>2, <1>3
<1> QED
  BY <1>1, <1>4, <1>5, <1>6 DEF GateStep

\* What a step has to do to the place of m and to the queue.
LEMMA QueueStepIs ==
  ASSUME NEW m \in Work, \A w \in Work \ {m} : pc'[w] = pc[w],
         \/ items' = items /\ (pc'[m] = "queued" <=> pc[m] = "queued")
         \/ /\ items' = Append(items, m) \/ items' = <<m>> \o items
            /\ pc[m] # "queued" /\ pc'[m] = "queued"
  PROVE  QueueStep(m)
  BY DEF QueueStep, Waits

\* A handler, and a cron run on its way.
LEMMA HandlerGate ==
  ASSUME TypeInv, QueuePath, NEW m \in Work,
         \/ Arrive(m) \/ TryLockSession(m) \/ EnqueueBehindBusy(m)
         \/ BeginOrEnqueue(m) \/ HandlerUnlock(m) \/ RefuseFull(m)
         \/ PassUpgradeGate(m) \/ MarkRunning(m)
         \/ CronBegin(m) \/ CronTryLock(m) \/ CronConvert(m) \/ CronRunEnds(m)
  PROVE  QueuePath' /\ QueueStep(m) /\ GateStep(m)
<1> USE WorkAssumption
    DEF TypeInv, PcType, vars, gate, store, agent, turn, cmds, hist, PutLast, Queueable,
        Arrive, TryLockSession, EnqueueBehindBusy, BeginOrEnqueue, HandlerUnlock,
        RefuseFull, PassUpgradeGate, MarkRunning, CronBegin, CronTryLock, CronConvert,
        CronRunEnds
<1>1. \A w \in Work \ {m} : pc'[w] = pc[w]
  BY SMTT(20)
<1>2. pc'[m] = "new" => pc[m] = "new"
  BY SMTT(20)
<1>3. QueuePath'
  BY <1>1, SMTT(20) DEF QueuePath, Waiting
<1>4. \/ items' = items /\ (pc'[m] = "queued" <=> pc[m] = "queued")
      \/ items' = Append(items, m) /\ pc[m] # "queued" /\ pc'[m] = "queued"
  BY SMTT(20) DEF QueuePath, Waiting
<1>5. NoCommandYet' =>
        \/ running' = running /\ (m \in Gatekeepers' <=> m \in Gatekeepers)
        \/ ~running /\ running' /\ m \in Gatekeepers'
        \/ m \in Gatekeepers /\ ~running' /\ m \notin Gatekeepers'
  BY SMTT(20) DEF Gatekeepers, QueuePath, Waiting, Gated, NoCommandYet
<1> QED
  BY ONLY <1>1, <1>2, <1>3, <1>4, <1>5, m \in Work, GateStepIs, QueueStepIs

\* The start of a dequeued item.
LEMMA StartGate ==
  ASSUME TypeInv, QueuePath, NEW m \in Work,
         \/ EnterStart(m) \/ CheckItem(m) \/ StartItem(m) \/ RequeueFront(m)
         \/ GiveUp(m) \/ FailItem(m)
  PROVE  QueuePath' /\ QueueStep(m) /\ GateStep(m)
<1> USE WorkAssumption
    DEF TypeInv, PcType, vars, gate, store, agent, turn, cmds, hist, Queueable,
        EnterStart, CheckItem, StartItem, RequeueFront, GiveUp, FailItem
<1>1. \A w \in Work \ {m} : pc'[w] = pc[w]
  BY SMTT(20)
<1>2. pc'[m] = "new" => pc[m] = "new"
  BY SMTT(20)
<1>3. QueuePath'
  BY <1>1, SMTT(20) DEF QueuePath, Waiting
<1>4. \/ items' = items /\ (pc'[m] = "queued" <=> pc[m] = "queued")
      \/ items' = <<m>> \o items /\ pc[m] # "queued" /\ pc'[m] = "queued"
  BY SMTT(20) DEF QueuePath, Waiting
<1>5. NoCommandYet' =>
        \/ running' = running /\ (m \in Gatekeepers' <=> m \in Gatekeepers)
        \/ ~running /\ running' /\ m \in Gatekeepers'
        \/ m \in Gatekeepers /\ ~running' /\ m \notin Gatekeepers'
  BY SMTT(20) DEF Gatekeepers, QueuePath, Waiting
<1> QED
  BY ONLY <1>1, <1>2, <1>3, <1>4, <1>5, m \in Work, GateStepIs, QueueStepIs

\* A turn that works on its prompt.
LEMMA TurnGate ==
  ASSUME TypeInv, QueuePath, NEW m \in Work,
         \/ AcquireTurn(m) \/ TakeState(m) \/ SendPrompt(m) \/ SendFails(m)
         \/ SendRestarts(m) \/ TurnResult(m) \/ TurnFails(m)
  PROVE  QueuePath' /\ QueueStep(m) /\ GateStep(m)
<1> DEFINE Turning == {"wantTurn", "haveTurn", "haveState", "restart", "lastTry", "sent",
                       "ending"}
<1>1. /\ pc[m] \in Turning
      /\ \E label \in Turning : pc' = [pc EXCEPT ![m] = label]
      /\ UNCHANGED gate
  <2>1. CASE AcquireTurn(m) \/ SendPrompt(m)
    BY <2>1 DEF AcquireTurn, SendPrompt, gate
  <2>2. CASE TakeState(m)
    <3>1. PICK label \in {"lastTry", "haveState", "ending"} : pc' = [pc EXCEPT ![m] = label]
      BY <2>2, Zenon DEF TakeState
    <3>2. pc[m] \in {"haveTurn", "restart"} /\ UNCHANGED gate
      BY <2>2, Zenon DEF TakeState
    <3> QED
      BY <3>1, <3>2
  <2>3. CASE SendFails(m) \/ SendRestarts(m)
    BY <2>3 DEF SendFails, SendRestarts, gate
  <2>4. CASE TurnResult(m) \/ TurnFails(m)
    BY <2>4 DEF TurnResult, TurnFails, gate
  <2> QED
    BY <2>1, <2>2, <2>3, <2>4
<1>2. PICK label \in Turning : pc' = [pc EXCEPT ![m] = label]
  BY <1>1
<1>3. pc'[m] = label /\ \A w \in Work \ {m} : pc'[w] = pc[w]
  BY <1>2 DEF TypeInv, PcType
<1>4. QueuePath'
  BY <1>3 DEF QueuePath, Waiting
<1>5. items' = items /\ pc'[m] # "queued" /\ pc[m] # "queued" /\ pc'[m] # "new"
  BY <1>1, <1>3 DEF gate
<1>6. running' = running /\ (m \in Gatekeepers' <=> m \in Gatekeepers)
  BY <1>1, <1>3 DEF gate, Gatekeepers
<1> QED
  BY ONLY <1>3, <1>4, <1>5, <1>6, m \in Work, GateStepIs, QueueStepIs

\* The end of a turn.
LEMMA EndGate ==
  ASSUME TypeInv, QueuePath, NEW m \in Work, EndUnlock(m) \/ CompleteTurn(m)
  PROVE  QueuePath' /\ QueueStep(m) /\ GateStep(m)
<1> USE WorkAssumption DEF TypeInv, PcType, gate, Queueable, EndUnlock, CompleteTurn
<1>1. \A w \in Work \ {m} : pc'[w] = pc[w]
  BY SMTT(20)
<1>2. pc'[m] # "new" /\ items' = items /\ pc'[m] # "queued" /\ pc[m] # "queued"
  BY SMTT(20)
<1>3. QueuePath'
  BY <1>1, SMTT(20) DEF QueuePath, Waiting
<1>4. NoCommandYet' =>
        \/ running' = running /\ (m \in Gatekeepers' <=> m \in Gatekeepers)
        \/ m \in Gatekeepers /\ ~running' /\ m \notin Gatekeepers'
  BY SMTT(20) DEF Gatekeepers, QueuePath, NoCommandYet, Work
<1> QED
  BY ONLY <1>1, <1>2, <1>3, <1>4, m \in Work, GateStepIs, QueueStepIs

\* A step that takes work out of the queue without starting it.
LEMMA LeavesQueue ==
  ASSUME GateInv, UNCHANGED running,
         \A m \in Work : pc'[m] = pc[m] \/ (pc[m] = "queued" /\ pc'[m] = "cancelled")
  PROVE  QueuePath' /\ GateHeldByOne'
<1>1. QueuePath'
  BY DEF GateInv, QueuePath, Waiting
<1>2. NoCommandYet' => NoCommandYet
  BY DEF NoCommandYet, Work
<1>3. Gatekeepers' = Gatekeepers
  BY DEF Gatekeepers, Queueable, Work
<1> QED
  BY <1>1, <1>2, <1>3 DEF GateInv, GateHeldByOne

\* A drain starts the first item behind an open gate.
LEMMA DrainGate ==
  ASSUME GateInv, Drain
  PROVE  QueuePath' /\ QueueHolds' /\ GateHeldByOne'
<1> USE DEF GateInv, QueueHolds
<1>1. CASE running \/ items = <<>>
  <2>1. UNCHANGED <<pc, items, running>>
    BY <1>1 DEF Drain
  <2> QED
    BY <2>1 DEF QueuePath, Lists, Waits, GateHeldByOne, NoCommandYet, Gatekeepers
<1>2. CASE ~running /\ items # <<>>
  <2>1. PICK m \in Queueable : m = Head(items) /\ pc' = [pc EXCEPT ![m] = "popped"]
    BY <1>2 DEF Drain
  <2>2. items' = Tail(items) /\ running'
    BY <1>2 DEF Drain
  <2>3. m \in Work /\ pc'[m] = "popped" /\ \A w \in Work \ {m} : pc'[w] = pc[w]
    BY <2>1 DEF TypeInv, PcType, Queueable, Work
  <2>4. Head(items) \in Waits /\ Lists(Tail(items), Waits \ {Head(items)})
    BY <1>2, ListsTail DEF TypeInv, QueueTypes
  <2>5. Waits' = Waits \ {m}
    BY <2>3 DEF Waits
  <2>6. QueueHolds'
    BY <2>1, <2>2, <2>4, <2>5 DEF Lists
  <2>7. QueuePath'
    BY <2>1, <2>3 DEF QueuePath
  <2>8. pc[m] = "queued"
    BY <2>1, <2>4 DEF Waits
  <2>9. GateStep(m)
    BY <1>2, <2>1, <2>2, <2>3, <2>8, GateStepIs DEF Gatekeepers
  <2> QED
    BY <2>6, <2>7, <2>9, GateStepKeeps
<1> QED
  BY <1>1, <1>2

\* Commands that do not touch the queue.
LEMMA CommandGate ==
  ASSUME GateInv,
         \/ SwitchBegin \/ SwitchCleanup \/ SwitchSession
         \/ StopBegin \/ StopStep \/ ProcessDies
  PROVE  UNCHANGED <<pc, items, running>>
  BY DEF SwitchBegin, SwitchCleanup, SwitchSession, StopBegin, StopStep, StopKeepQuiet,
       StopTryLock, StopUnlock, StopSeesGate, StopForcesUnlock, ProcessDies, gate

\* /new, /switch and /queue cancel what waits in the queue, or move it.
LEMMA EditGate ==
  ASSUME GateInv, SwitchCancel \/ QueueClear \/ QueueDelete \/ QueueMove
  PROVE  QueuePath' /\ QueueHolds' /\ GateHeldByOne'
<1>0. Lists(items, Waits) /\ items \in Seq(Work)
  BY DEF GateInv, QueueHolds, TypeInv, QueueTypes
<1>1. CASE SwitchCancel
  <2>1. running' = running
    BY <1>1 DEF SwitchCancel
  <2>2. pc' = [m \in Work |-> IF pc[m] = "queued" /\ ~Kept(m) THEN "cancelled" ELSE pc[m]]
    BY <1>1 DEF SwitchCancel
  <2>3. PICK f \in [1..Cardinality(KeptPositions) -> KeptPositions] :
          /\ \A i, j \in DOMAIN f : i < j => f[i] < f[j]
          /\ items' = [i \in DOMAIN f |-> items[f[i]]]
    BY <1>1 DEF SwitchCancel
  <2>4. KeptPositions \in SUBSET DOMAIN items
    BY DEF KeptPositions
  <2>5. Lists([i \in DOMAIN f |-> items[f[i]]], {items[k] : k \in KeptPositions})
    BY ONLY <1>0, <2>3, <2>4, ListsKeep
  <2>6. {items[k] : k \in KeptPositions} = Waits'
    <3>1. Waits' = {m \in Waits : Kept(m)}
      BY <2>2 DEF Waits
    <3>2. {items[k] : k \in KeptPositions} = {m \in Waits : Kept(m)}
      BY <1>0 DEF KeptPositions, Lists
    <3> QED
      BY <3>1, <3>2
  <2>7. QueueHolds'
    BY <2>3, <2>5, <2>6 DEF QueueHolds, Lists
  <2> QED
    BY <2>1, <2>2, <2>7, LeavesQueue
<1>2. CASE QueueClear
  <2>1. /\ items' = <<>> /\ running' = running
        /\ pc' = [m \in Work |-> IF pc[m] = "queued" THEN "cancelled" ELSE pc[m]]
    BY <1>2 DEF QueueClear
  <2>2. QueueHolds'
    BY <2>1 DEF QueueHolds, Lists, Waits
  <2> QED
    BY <2>1, <2>2, LeavesQueue
<1>3. CASE QueueDelete
  <2>1. PICK i \in DOMAIN items : /\ items' = RemoveAt(items, i)
                                  /\ pc' = [pc EXCEPT ![items[i]] = "cancelled"]
    BY <1>3 DEF QueueDelete
  <2>2. running' = running
    BY <1>3 DEF QueueDelete
  <2>3. items[i] \in Work /\ pc[items[i]] = "queued"
    BY <1>0 DEF Lists, Waits
  <2>4. pc'[items[i]] = "cancelled" /\ \A w \in Work \ {items[i]} : pc'[w] = pc[w]
    BY <2>1, <2>3 DEF GateInv, TypeInv, PcType
  <2>5. Lists(RemoveAt(items, i), Waits \ {items[i]})
    BY <1>0, ListsRemoveAt
  <2>6. Waits' = Waits \ {items[i]}
    BY <2>3, <2>4 DEF Waits
  <2>7. QueueHolds'
    BY <2>1, <2>5, <2>6 DEF QueueHolds, Lists
  <2> QED
    BY <2>2, <2>3, <2>4, <2>7, LeavesQueue
<1>4. CASE QueueMove
  <2>1. PICK i \in DOMAIN items, j \in DOMAIN items :
          items' = [items EXCEPT ![i] = items[j], ![j] = items[i]]
    BY <1>4 DEF QueueMove
  <2>2. pc' = pc /\ running' = running
    BY <1>4 DEF QueueMove
  <2>3. Lists([items EXCEPT ![i] = items[j], ![j] = items[i]], Waits)
    BY <1>0, ListsSwap
  <2>4. QueueHolds'
    BY <2>1, <2>2, <2>3 DEF QueueHolds, Lists, Waits
  <2> QED
    BY <2>2, <2>4, LeavesQueue
<1> QED
  BY <1>1, <1>2, <1>3, <1>4

\* Every step keeps the gate with the one that holds it.
LEMMA NextGate ==
  ASSUME GateInv, [Next]_vars
  PROVE  GateInv'
<1>1. TypeInv'
  BY NextTypes DEF GateInv
<1>2. ASSUME NEW m \in Work, Handle(m) \/ Step(m) \/ HandlerUnlock(m)
      PROVE  QueuePath' /\ QueueHolds' /\ GateHeldByOne'
  <2>1. QueuePath' /\ QueueStep(m) /\ GateStep(m)
    BY <1>2, HandlerGate, StartGate, TurnGate, EndGate DEF GateInv, Handle, Step
  <2> QED
    BY <2>1, QueueStepKeeps, GateStepKeeps DEF GateInv, TypeInv
<1>3. ASSUME UNCHANGED <<pc, items, running>>
      PROVE  QueuePath' /\ QueueHolds' /\ GateHeldByOne'
  BY <1>3 DEF GateInv, QueuePath, QueueHolds, Lists, Waits, GateHeldByOne, NoCommandYet,
       Gatekeepers
<1>4. CASE Drain \/ SwitchStep \/ StopStep \/ Command \/ ProcessDies
  <2>1. QueuePath' /\ QueueHolds' /\ GateHeldByOne'
    BY <1>3, <1>4, DrainGate, CommandGate, EditGate DEF SwitchStep, Command
  <2> QED
    BY <1>1, <2>1 DEF GateInv
<1>5. CASE UNCHANGED vars
  <2>1. UNCHANGED <<pc, items, running>>
    BY <1>5 DEF vars, gate
  <2> QED
    BY <1>1, <1>3, <2>1 DEF GateInv
<1> QED
  BY <1>1, <1>2, <1>4, <1>5 DEF Next, GateInv

LEMMA InitGate ==
  ASSUME Init
  PROVE  GateInv
<1>1. TypeInv
  BY InitTypes
<1>2. QueuePath
  BY DEF Init, QueuePath, Waiting
<1>3. QueueHolds
  BY DEF Init, QueueHolds, Lists, Waits
<1>4. Gatekeepers = {}
  BY DEF Init, Gatekeepers, Queueable, Work
<1> QED
  BY <1>1, <1>2, <1>3, <1>4 DEF Init, GateInv, GateHeldByOne

\* Cron turns and user turns of a chat share one queue and one Running gate
\* (promptQueueKey): as long as no direct command sets the gate, it is set exactly while
\* one of them runs, across /new, /switch, /stop, /queue and failures.
THEOREM OneHoldsTheGate == Spec => []GateHeldByOne
<1>1. GateInv => GateHeldByOne
  BY DEF GateInv
<1>2. Init => GateInv
  BY InitGate
<1>3. GateInv /\ [Next]_vars => GateInv'
  BY NextGate
<1> QED
  BY <1>1, <1>2, <1>3, PTL DEF Spec

\* An item is in the queue exactly when its work waits there, and only once, whatever the
\* queue's commands, the retries and the session commands do to it.
THEOREM QueueIsExact == Spec => []QueueMatchesWork
<1>1. GateInv => QueueMatchesWork
  BY DEF GateInv, QueueHolds, Lists, Waits, QueueMatchesWork
<1>2. Init => GateInv
  BY InitGate
<1>3. GateInv /\ [Next]_vars => GateInv'
  BY NextGate
<1> QED
  BY <1>1, <1>2, <1>3, PTL DEF Spec

-----------------------------------------------------------------------------
(* The transition mutex.                                                   *)

\* A dequeued prompt that has the mutex and has not sent or given up: once it is checked,
\* its session is the active one.
InItsTransition(m) ==
  /\ m \in Users
  /\ pc[m] \in {"inTransition", "failItem", "checked", "retry", "giveUp", "wantTurn",
                "haveTurn", "haveState", "restart", "lastTry", "ending"}
  /\ pc[m] \in {"inTransition", "failItem"} \/ sess[m] = active

\* /new and /switch have the mutex from their first step to the last.
TransHolds ==
  /\ sw # Idle <=> trans = Switcher
  /\ \A m \in Work : trans = m => InItsTransition(m)

TransInv == GateInv /\ TransHolds

\* What a step of m has to do to the mutex.
LEMMA TransStepIs ==
  ASSUME TransHolds, NEW m \in Work, UNCHANGED <<sw, active>>,
         \A w \in Work \ {m} : pc'[w] = pc[w] /\ sess'[w] = sess[w],
         \/ trans' = trans /\ (trans = m => InItsTransition(m)')
         \/ trans = m /\ trans' = None
         \/ trans = None /\ trans' = m /\ InItsTransition(m)'
  PROVE  TransHolds'
<1>1. None \notin Work /\ Switcher \notin Work /\ None # Switcher
  BY WorkAssumption
<1>2. \A w \in Work \ {m} : InItsTransition(w) => InItsTransition(w)'
  BY DEF InItsTransition
<1> QED
  BY ONLY <1>1, <1>2, TransHolds, m \in Work, UNCHANGED <<sw, active>>,
          \/ trans' = trans /\ (trans = m => InItsTransition(m)')
          \/ trans = m /\ trans' = None
          \/ trans = None /\ trans' = m /\ InItsTransition(m)'
     DEF TransHolds

\* The steps before a prompt is dequeued have nothing to do with the mutex.
LEMMA HandlerTrans ==
  ASSUME TransInv, NEW m \in Work,
         \/ Arrive(m) \/ TryLockSession(m) \/ EnqueueBehindBusy(m)
         \/ BeginOrEnqueue(m) \/ HandlerUnlock(m) \/ RefuseFull(m)
         \/ PassUpgradeGate(m) \/ MarkRunning(m)
         \/ CronBegin(m) \/ CronTryLock(m) \/ CronConvert(m) \/ CronRunEnds(m)
  PROVE  TransHolds'
<1> USE DEF TransInv, GateInv, TypeInv, PcType, TurnTypes, vars, gate, store, agent, turn,
        cmds, hist, PutLast,
        Arrive, TryLockSession, EnqueueBehindBusy, BeginOrEnqueue, HandlerUnlock,
        RefuseFull, PassUpgradeGate, MarkRunning, CronBegin, CronTryLock, CronConvert,
        CronRunEnds
<1>1. UNCHANGED <<sw, active, trans>>
  BY SMTT(20)
<1>2. \A w \in Work \ {m} : pc'[w] = pc[w] /\ sess'[w] = sess[w]
  BY SMTT(20)
<1>3. \/ pc'[m] = pc[m] /\ sess'[m] = sess[m]
      \/ pc[m] \in {"new", "arrived", "sawBusy", "locked", "full", "gated", "cronLock",
                    "convert", "isolated"}
  BY SMTT(20)
<1>4. TransHolds
  OBVIOUS
<1>5. trans = m => InItsTransition(m)'
  BY ONLY <1>1, <1>3, <1>4, m \in Work DEF TransHolds, InItsTransition
<1> QED
  BY ONLY <1>1, <1>2, <1>4, <1>5, m \in Work, TransStepIs

\* A dequeued prompt takes the mutex and is checked.
LEMMA StartTrans ==
  ASSUME TransInv, NEW m \in Work,
         \/ EnterStart(m) \/ CheckItem(m) \/ StartItem(m) \/ RequeueFront(m)
         \/ GiveUp(m) \/ FailItem(m)
  PROVE  TransHolds'
<1> USE DEF TransInv, GateInv, TypeInv, PcType, TurnTypes, vars, gate, store, agent, turn,
        cmds, hist, EnterStart, CheckItem, StartItem, RequeueFront, GiveUp, FailItem,
        ReleaseTransition
<1>1. UNCHANGED <<sw, active>>
  BY SMTT(20)
<1>2. \A w \in Work \ {m} : pc'[w] = pc[w] /\ sess'[w] = sess[w]
  BY SMTT(20)
<1>3. TransHolds
  OBVIOUS
<1>4. \/ trans' = trans /\ (trans = m => InItsTransition(m)')
      \/ trans = m /\ trans' = None
      \/ trans = None /\ trans' = m /\ InItsTransition(m)'
  <2>1. CASE EnterStart(m)
    BY <2>1, SMTT(20) DEF TransHolds, InItsTransition
  <2>2. CASE CheckItem(m) \/ StartItem(m) \/ GiveUp(m)
    BY <2>2, SMTT(20) DEF TransHolds, InItsTransition
  <2>3. CASE RequeueFront(m) \/ FailItem(m)
    BY <2>3
  <2> QED
    BY <2>1, <2>2, <2>3
<1> QED
  BY ONLY <1>1, <1>2, <1>3, <1>4, m \in Work, TransStepIs

\* The turn gives the mutex back when it has sent its prompt, or when it ends.
LEMMA TurnTrans ==
  ASSUME TransInv, NEW m \in Work,
         \/ AcquireTurn(m) \/ TakeState(m) \/ SendPrompt(m) \/ SendFails(m)
         \/ SendRestarts(m) \/ TurnResult(m) \/ TurnFails(m)
         \/ EndUnlock(m) \/ CompleteTurn(m)
  PROVE  TransHolds'
<1>0. TransHolds /\ pc \in [Work -> Labels]
  BY DEF TransInv, GateInv, TypeInv, PcType
<1>1. ASSUME NEW label \in {"haveTurn", "haveState", "restart", "lastTry", "ending"},
             pc' = [pc EXCEPT ![m] = label], UNCHANGED <<sw, active, trans, sess>>,
             pc[m] \in {"wantTurn", "haveTurn", "haveState", "restart", "lastTry", "sent"}
      PROVE  TransHolds'
  <2>1. pc'[m] = label /\ \A w \in Work \ {m} : pc'[w] = pc[w] /\ sess'[w] = sess[w]
    BY <1>0, <1>1
  <2>2. trans = m => InItsTransition(m)'
    BY <1>0, <1>1, <2>1 DEF TransHolds, InItsTransition
  <2> QED
    BY ONLY <1>0, <1>1, <2>1, <2>2, m \in Work, TransStepIs
<1>2. CASE AcquireTurn(m) \/ SendFails(m) \/ SendRestarts(m)
  BY <1>1, <1>2 DEF AcquireTurn, SendFails, SendRestarts, store, turn, agent, cmds
<1>3. CASE TakeState(m)
  <2>1. PICK label \in {"lastTry", "haveState", "ending"} : pc' = [pc EXCEPT ![m] = label]
    BY <1>3, Zenon DEF TakeState
  <2>2. pc[m] \in {"haveTurn", "restart"} /\ UNCHANGED <<sw, active, trans, sess>>
    BY <1>3 DEF TakeState, store
  <2> QED
    BY <1>1, <2>1, <2>2
<1>4. CASE TurnResult(m) \/ TurnFails(m)
  BY <1>1, <1>4 DEF TurnResult, TurnFails, turn, cmds
<1>5. CASE SendPrompt(m) \/ EndUnlock(m)
  <2>1. UNCHANGED <<sw, active, sess>> /\ \A w \in Work \ {m} : pc'[w] = pc[w] /\ sess'[w] = sess[w]
    BY <1>0, <1>5 DEF SendPrompt, EndUnlock, turn, cmds
  <2>2. \/ trans = m /\ trans' = None
        \/ trans # m /\ trans' = trans
    BY <1>5 DEF SendPrompt, EndUnlock, ReleaseTransition
  <2> QED
    BY ONLY <1>0, <2>1, <2>2, m \in Work, TransStepIs
<1>6. CASE CompleteTurn(m)
  <2>1. /\ UNCHANGED <<sw, active, trans>> /\ pc[m] = "unlocked"
        /\ \A w \in Work \ {m} : pc'[w] = pc[w] /\ sess'[w] = sess[w]
    BY <1>0, <1>6 DEF CompleteTurn, turn, store, cmds
  <2>2. trans # m
    BY <1>0, <2>1 DEF TransHolds, InItsTransition
  <2> QED
    BY ONLY <1>0, <2>1, <2>2, m \in Work, TransStepIs
<1> QED
  BY <1>2, <1>3, <1>4, <1>5, <1>6

\* The commands, the drains and the agent leave a prompt in its transition alone.
LEMMA CommandTrans ==
  ASSUME TransInv, Drain \/ SwitchStep \/ StopStep \/ Command \/ ProcessDies
  PROVE  TransHolds'
<1>0. TransHolds /\ pc \in [Work -> Labels] /\ None # Switcher /\ Switcher \notin Work
      /\ None \notin Work
  BY WorkAssumption DEF TransInv, GateInv, TypeInv, PcType
<1>1. ASSUME UNCHANGED <<sw, active, trans, sess>>,
             \A m \in Work : pc'[m] = pc[m] \/ pc[m] = "queued"
      PROVE  TransHolds'
  BY <1>0, <1>1 DEF TransHolds, InItsTransition
<1>2. CASE Drain
  <2>1. \A m \in Work : pc'[m] = pc[m] \/ m = Head(items)
    BY <1>0, <1>2 DEF Drain
  <2>2. CASE pc' = pc
    BY <1>1, <1>2, <2>2 DEF Drain, turn, store, cmds
  <2>3. CASE pc' # pc
    <3>1. items # <<>>
      BY <1>2, <2>3 DEF Drain
    <3>2. Head(items) \in Waits
      BY <3>1, ListsTail DEF TransInv, GateInv, QueueHolds, TypeInv, QueueTypes
    <3> QED
      BY <1>1, <1>2, <2>1, <3>2 DEF Drain, turn, store, cmds, Waits
  <2> QED
    BY <2>2, <2>3
<1>3. CASE SwitchBegin
  <2>1. trans = None /\ trans' = Switcher /\ sw' # Idle /\ UNCHANGED <<active, pc, sess>>
    BY <1>3 DEF SwitchBegin, Idle, store, turn
  <2> QED
    BY <1>0, <2>1 DEF TransHolds
<1>4. CASE SwitchCleanup \/ SwitchSession
  <2>1. sw.at \in {"cleanup", "switch"} /\ trans' = trans
    BY <1>4 DEF SwitchCleanup, SwitchSession
  <2>2. sw \in SwitchState
    BY DEF TransInv, GateInv, TypeInv, CommandTypes
  <2>3. sw # Idle
    BY <2>1 DEF Idle
  <2>4. sw'.at \in {"switch", "cancel"}
    BY <1>4, <2>1, <2>2 DEF SwitchCleanup, SwitchSession, SwitchState, Idle
  <2>5. sw' # Idle
    BY <2>4 DEF Idle
  <2> QED
    BY <1>0, <2>1, <2>3, <2>5 DEF TransHolds
<1>5. CASE SwitchCancel
  <2>1. sw' = Idle /\ trans' = None
    BY <1>5 DEF SwitchCancel
  <2> QED
    BY <1>0, <2>1 DEF TransHolds
<1>6. CASE StopBegin \/ StopStep \/ ProcessDies
  <2>1. UNCHANGED <<sw, active, trans, sess, pc>>
    BY <1>6 DEF StopBegin, StopStep, StopKeepQuiet, StopTryLock, StopUnlock, StopSeesGate,
         StopForcesUnlock, ProcessDies, store, turn, cmds
  <2> QED
    BY <1>1, <2>1
<1>7. CASE QueueClear \/ QueueMove
  BY <1>1, <1>7 DEF QueueClear, QueueMove, store, turn
<1>8. CASE QueueDelete
  <2>1. PICK i \in DOMAIN items : pc' = [pc EXCEPT ![items[i]] = "cancelled"]
    BY <1>8 DEF QueueDelete
  <2>2. items[i] \in Waits
    BY DEF TransInv, GateInv, QueueHolds, Lists
  <2> QED
    BY <1>0, <1>1, <1>8, <2>1, <2>2 DEF QueueDelete, store, turn, Waits
<1> QED
  BY <1>2, <1>3, <1>4, <1>5, <1>6, <1>7, <1>8 DEF SwitchStep, Command

\* Every step keeps the mutex with its holder.
LEMMA NextTrans ==
  ASSUME TransInv, [Next]_vars
  PROVE  TransInv'
<1>1. GateInv'
  BY NextGate DEF TransInv
<1>2. ASSUME NEW m \in Work, Handle(m) \/ Step(m) \/ HandlerUnlock(m)
      PROVE  TransHolds'
  BY <1>2, HandlerTrans, StartTrans, TurnTrans DEF Handle, Step
<1>3. CASE UNCHANGED vars
  <2>1. UNCHANGED <<sw, trans, pc, sess, active>>
    BY <1>3 DEF vars, turn, store, cmds
  <2>2. TransHolds'
    BY <2>1 DEF TransInv, TransHolds, InItsTransition
  <2> QED
    BY <1>1, <2>2 DEF TransInv
<1> QED
  BY <1>1, <1>2, <1>3, CommandTrans DEF Next, TransInv

\* Only a turn with its process sends a prompt.
LEMMA SentFrom ==
  ASSUME GateInv, [Next]_vars, NEW m \in Work, pc[m] # "sent", pc'[m] = "sent"
  PROVE  pc[m] \in {"haveState", "lastTry"}
<1>0. pc \in [Work -> Labels]
  BY DEF GateInv, TypeInv, PcType
<1>1. ASSUME NEW w \in Work, SendPrompt(w)
      PROVE  pc[m] \in {"haveState", "lastTry"}
  BY <1>0, <1>1 DEF SendPrompt
<1>2. ASSUME NEW w \in Work,
             \/ Arrive(w) \/ TryLockSession(w) \/ EnqueueBehindBusy(w)
             \/ BeginOrEnqueue(w) \/ HandlerUnlock(w) \/ RefuseFull(w)
             \/ PassUpgradeGate(w) \/ MarkRunning(w)
             \/ CronBegin(w) \/ CronTryLock(w) \/ CronConvert(w) \/ CronRunEnds(w)
      PROVE  FALSE
  BY <1>0, <1>2, SMTT(20) DEF Arrive, TryLockSession, EnqueueBehindBusy, BeginOrEnqueue,
       HandlerUnlock, RefuseFull, PassUpgradeGate, MarkRunning, CronBegin, CronTryLock,
       CronConvert, CronRunEnds, PutLast
<1>3. ASSUME NEW w \in Work,
             \/ EnterStart(w) \/ CheckItem(w) \/ StartItem(w) \/ RequeueFront(w)
             \/ GiveUp(w) \/ FailItem(w) \/ EndUnlock(w) \/ CompleteTurn(w)
      PROVE  FALSE
  BY <1>0, <1>3, SMTT(20) DEF EnterStart, CheckItem, StartItem, RequeueFront, GiveUp,
       FailItem, EndUnlock, CompleteTurn
<1>4. ASSUME NEW w \in Work,
             \/ AcquireTurn(w) \/ TakeState(w) \/ SendFails(w) \/ SendRestarts(w)
             \/ TurnResult(w) \/ TurnFails(w)
      PROVE  FALSE
  <2>1. CASE TakeState(w)
    <3>1. PICK label \in {"lastTry", "haveState", "ending"} : pc' = [pc EXCEPT ![w] = label]
      BY <2>1, Zenon DEF TakeState
    <3> QED
      BY <1>0, <3>1
  <2>2. CASE AcquireTurn(w) \/ SendFails(w) \/ SendRestarts(w) \/ TurnResult(w) \/ TurnFails(w)
    BY <1>0, <2>2 DEF AcquireTurn, SendFails, SendRestarts, TurnResult, TurnFails
  <2> QED
    BY <1>4, <2>1, <2>2
<1>5. CASE Drain \/ SwitchStep \/ StopStep \/ Command \/ ProcessDies
  <2>1. CASE Drain \/ SwitchCancel \/ QueueClear \/ QueueDelete
    BY <1>0, <2>1 DEF Drain, SwitchCancel, QueueClear, QueueDelete
  <2>2. CASE SwitchBegin \/ SwitchCleanup \/ SwitchSession \/ StopBegin \/ StopStep
             \/ ProcessDies
    BY <2>2, CommandGate
  <2>3. CASE QueueMove
    BY <2>3 DEF QueueMove
  <2> QED
    BY <1>5, <2>1, <2>2, <2>3 DEF SwitchStep, Command
<1>6. CASE UNCHANGED vars
  BY <1>6 DEF vars
<1> QED
  BY <1>1, <1>2, <1>3, <1>4, <1>5, <1>6 DEF Next, Handle, Step

\* A dequeued prompt reaches the agent while its local session is still the active one:
\* /new and /switch wait for it (lockSessionTransition, signalStarted).
THEOREM QueuedReachActive == Spec => QueuedSendsToActive
<1> DEFINE Sends == \A m \in Users : trans = m /\ pc[m] # "sent" /\ pc'[m] = "sent"
                                        => sess[m] = active
<1>1. Init => TransInv
  BY InitGate, WorkAssumption DEF Init, TransInv, TransHolds
<1>2. TransInv /\ [Next]_vars => TransInv'
  BY NextTrans
<1>3. TransInv /\ [Next]_vars => Sends
  <2> SUFFICES ASSUME TransInv, [Next]_vars, NEW m \in Users,
                      trans = m, pc[m] # "sent", pc'[m] = "sent"
               PROVE  sess[m] = active
    OBVIOUS
  <2>1. m \in Work /\ pc[m] \in {"haveState", "lastTry"}
    BY SentFrom DEF TransInv, Work
  <2> QED
    BY <2>1 DEF TransInv, TransHolds, InItsTransition
<1>4. Sends => [Sends]_vars
  OBVIOUS
<1> QED
  BY <1>1, <1>2, <1>3, PTL DEF Spec, QueuedSendsToActive

-----------------------------------------------------------------------------
(* The order of the prompts.                                               *)

\* The accepted prompts, and which of them was accepted before which.
AcceptedWork == {m \in Work : Accepted(m)}
Precedes == {w \in Work \X Work : Before(w[1], w[2])}

\* Labels of a prompt before it is accepted, and of one that is next to start.
Unaccepted == {"new", "arrived", "sawBusy", "locked"}
Upcoming == {"gated", "popped", "inTransition", "checked", "retry"}

\* Only prompts are accepted, once each.
AcceptedOnce == \A m \in AcceptedWork : m \in Users /\ pc[m] \notin Unaccepted

\* Without commands and edits: nothing that was accepted earlier waits behind the prompt
\* that is next, and the queue is in the order of acceptance.
NextIsFirst ==
  \A a, b \in Users : <<a, b>> \in Precedes /\ pc[b] \in Upcoming => pc[a] \notin Waiting
QueueInOrder ==
  \A i, j \in DOMAIN items : <<items[i], items[j]>> \in Precedes => i < j
InOrder == NoCommandYet /\ budget.edits = MaxEdits => NextIsFirst /\ QueueInOrder

FifoInv == GateInv /\ AcceptedOnce /\ budget.edits <= MaxEdits /\ InOrder

\* What the order of acceptance says, and how a prompt that is accepted changes it.
LEMMA OrderFacts ==
  ASSUME QueueTypes
  PROVE  /\ Precedes \subseteq AcceptedWork \X AcceptedWork
         /\ order' = order => AcceptedWork' = AcceptedWork /\ Precedes' = Precedes
<1>1. \A a, b : Before(a, b) => Accepted(a) /\ Accepted(b)
  BY DEF Before, Accepted
<1>2. order' = order => AcceptedWork' = AcceptedWork /\ Precedes' = Precedes
  BY DEF AcceptedWork, Precedes, Accepted, Before
<1> QED
  BY <1>1, <1>2 DEF AcceptedWork, Precedes

LEMMA OrderGrows ==
  ASSUME QueueTypes, NEW m \in Work, order' = Append(order, m)
  PROVE  /\ AcceptedWork' \subseteq AcceptedWork \cup {m}
         /\ Precedes' \subseteq Precedes \cup (AcceptedWork \X {m})
<1> DEFINE L == Len(order)
<1>1. /\ L \in Nat /\ DOMAIN order = 1..L /\ DOMAIN order' = 1..(L + 1)
      /\ \A i \in 1..L : order'[i] = order[i]
      /\ order'[L + 1] = m
  BY AppendProperties DEF QueueTypes
<1>2. \A i \in DOMAIN order' : i = L + 1 \/ (i \in DOMAIN order /\ order'[i] = order[i])
  BY <1>1
<1>3. \A a \in AcceptedWork' : a \in AcceptedWork \cup {m}
  BY <1>1, <1>2 DEF AcceptedWork, Accepted
<1>4. ASSUME NEW a \in Work, NEW b \in Work, <<a, b>> \in Precedes'
      PROVE  <<a, b>> \in Precedes \cup (AcceptedWork \X {m})
  <2>1. PICK i \in DOMAIN order', j \in DOMAIN order' :
          i < j /\ order'[i] = a /\ order'[j] = b
    BY <1>4 DEF Precedes, Before
  <2>2. i \in DOMAIN order /\ order[i] = a
    BY <1>1, <1>2, <2>1
  <2>3. a \in AcceptedWork
    BY <2>2 DEF AcceptedWork, Accepted
  <2>4. CASE j = L + 1
    BY <1>1, <2>1, <2>3, <2>4
  <2>5. CASE j # L + 1
    <3>1. j \in DOMAIN order /\ order[j] = b
      BY <1>2, <2>1, <2>5
    <3> QED
      BY <2>1, <2>2, <3>1 DEF Precedes, Before
  <2> QED
    BY <2>4, <2>5
<1>5. \A w \in Precedes' : \E a, b \in Work : w = <<a, b>>
  BY DEF Precedes
<1> QED
  BY <1>3, <1>4, <1>5

\* Whoever waits is queued, or has the gate.
LEMMA WaitersAre ==
  ASSUME QueueHolds, NEW a \in Users, pc[a] \in Waiting
  PROVE  (\E i \in DOMAIN items : items[i] = a) \/ a \in Gatekeepers
  BY DEF QueueHolds, Lists, Waits, Waiting, Gatekeepers, Work, Queueable

\* A prompt that is next has the gate.
LEMMA NextHasGate ==
  ASSUME NEW b \in Users, pc[b] \in Upcoming \cup {"giveUp"}
  PROVE  b \in Gatekeepers
  BY DEF Upcoming, Gatekeepers, Queueable

\* A step of m that accepts nothing and leaves the queue alone.
LEMMA FifoPlain ==
  ASSUME FifoInv, NEW m \in Work, \A w \in Work \ {m} : pc'[w] = pc[w],
         UNCHANGED <<items, order>>, budget'.edits = budget.edits,
         NoCommandYet' => NoCommandYet,
         pc'[m] \in Unaccepted => pc[m] \in Unaccepted,
         m \in Users => /\ pc'[m] \in Upcoming => pc[m] \in Upcoming
                        /\ pc'[m] \in Waiting => pc[m] \in Waiting \cup {"giveUp"}
  PROVE  AcceptedOnce' /\ budget'.edits <= MaxEdits /\ InOrder'
<1>1. AcceptedWork' = AcceptedWork /\ Precedes' = Precedes
  BY OrderFacts DEF FifoInv, GateInv, TypeInv
<1>2. AcceptedOnce'
  BY <1>1 DEF FifoInv, AcceptedOnce, AcceptedWork
<1>3. ASSUME NoCommandYet', budget'.edits = MaxEdits
      PROVE  NextIsFirst' /\ QueueInOrder'
  <2>1. NoCommandYet /\ NextIsFirst /\ QueueInOrder /\ GateHeldByOne
    BY <1>3 DEF FifoInv, InOrder, GateInv
  <2>2. QueueInOrder'
    BY <1>1, <2>1 DEF QueueInOrder
  <2>3. ASSUME NEW a \in Users, NEW b \in Users, <<a, b>> \in Precedes,
               pc'[b] \in Upcoming, pc'[a] \in Waiting
        PROVE  FALSE
    <3>1. a \in Work /\ b \in Work
      BY DEF Work
    <3>2. pc[b] \in Upcoming
      BY <2>3, <3>1
    <3>3. pc[a] = "giveUp" /\ a = m
      BY <2>1, <2>3, <3>1, <3>2 DEF NextIsFirst
    <3>4. a = b
      BY <2>1, <3>2, <3>3, NextHasGate DEF GateHeldByOne
    <3> QED
      BY <3>2, <3>3, <3>4 DEF Upcoming
  <2>4. NextIsFirst'
    BY <1>1, <2>3 DEF NextIsFirst
  <2> QED
    BY <2>2, <2>4
<1> QED
  BY <1>2, <1>3 DEF FifoInv, InOrder

\* A prompt is accepted: it takes the free gate, or it is put at the end of the queue.
LEMMA FifoAccept ==
  ASSUME FifoInv, NEW m \in Users, \A w \in Work \ {m} : pc'[w] = pc[w],
         order' = Append(order, m), pc[m] \in Unaccepted, budget'.edits = budget.edits,
         NoCommandYet' => NoCommandYet,
         \/ items' = Append(items, m) /\ pc'[m] = "queued"
         \/ items' = items /\ ~Gated /\ pc'[m] = "gated"
  PROVE  AcceptedOnce' /\ budget'.edits <= MaxEdits /\ InOrder'
<1>0. m \in Work /\ QueueTypes /\ QueueHolds
  BY DEF Work, FifoInv, GateInv, TypeInv
<1>1. /\ AcceptedWork' \subseteq AcceptedWork \cup {m}
      /\ Precedes' \subseteq Precedes \cup (AcceptedWork \X {m})
  BY <1>0, OrderGrows
<1>2. m \notin AcceptedWork /\ Precedes \subseteq AcceptedWork \X AcceptedWork
  BY <1>0, OrderFacts DEF FifoInv, AcceptedOnce
<1>3. AcceptedOnce'
  <2>1. pc'[m] \notin Unaccepted
    BY DEF Unaccepted
  <2> QED
    BY <1>1, <2>1 DEF FifoInv, AcceptedOnce, AcceptedWork
<1>4. \A a, b : <<a, b>> \in Precedes' => a # m /\ (b = m \/ <<a, b>> \in Precedes)
  BY <1>1, <1>2
<1>5. ASSUME NoCommandYet', budget'.edits = MaxEdits
      PROVE  NextIsFirst' /\ QueueInOrder'
  <2>1. NoCommandYet /\ NextIsFirst /\ QueueInOrder /\ GateHeldByOne
    BY <1>5 DEF FifoInv, InOrder, GateInv
  <2>2. ASSUME NEW a \in Users, NEW b \in Users, <<a, b>> \in Precedes',
               pc'[b] \in Upcoming, pc'[a] \in Waiting
        PROVE  FALSE
    <3>1. a \in Work /\ b \in Work /\ a # m /\ pc[a] \in Waiting
      BY <1>4, <2>2 DEF Work
    <3>2. CASE b = m
      <4>1. items = <<>> /\ ~running
        BY <2>2, <3>2 DEF Gated, Upcoming
      <4>2. Gatekeepers = {}
        BY <2>1, <4>1 DEF GateHeldByOne
      <4> QED
        BY <1>0, <3>1, <4>1, <4>2, WaitersAre
    <3>3. CASE b # m
      BY <1>4, <2>1, <2>2, <3>1, <3>3 DEF NextIsFirst
    <3> QED
      BY <3>2, <3>3
  <2>3. NextIsFirst'
    BY <2>2 DEF NextIsFirst
  <2>4. CASE items' = items
    <3>1. items = <<>>
      <4>1. pc'[m] = "gated" \/ items' = Append(items, m)
        OBVIOUS
      <4>2. Append(items, m) # items
        BY <1>0, AppendProperties DEF QueueTypes
      <4> QED
        BY <2>4, <4>1, <4>2 DEF Gated
    <3>2. QueueInOrder'
      BY <2>4, <3>1 DEF QueueInOrder
    <3> QED
      BY <2>3, <3>2
  <2>5. CASE items' = Append(items, m)
    <3> DEFINE L == Len(items)
    <3>1. /\ L \in Nat /\ DOMAIN items = 1..L /\ DOMAIN items' = 1..(L + 1)
          /\ \A i \in 1..L : items'[i] = items[i]
          /\ items'[L + 1] = m
      BY <1>0, <2>5, AppendProperties DEF QueueTypes
    <3>2. \A i \in 1..L : items[i] # m
      BY <1>0, <3>1 DEF QueueHolds, Lists, Waits, Unaccepted
    <3>3. ASSUME NEW i \in DOMAIN items', NEW j \in DOMAIN items',
                 <<items'[i], items'[j]>> \in Precedes'
          PROVE  i < j
      <4>1. items'[i] # m
        BY <1>4, <3>3
      <4>2. i \in 1..L /\ items'[i] = items[i]
        BY <3>1, <4>1
      <4>3. CASE j = L + 1
        BY <3>1, <4>2, <4>3
      <4>4. CASE j # L + 1
        <5>1. j \in 1..L /\ items'[j] = items[j]
          BY <3>1, <4>4
        <5>2. <<items[i], items[j]>> \in Precedes
          BY <1>4, <3>2, <3>3, <4>2, <5>1
        <5> QED
          BY <2>1, <3>1, <4>2, <5>1, <5>2 DEF QueueInOrder
      <4> QED
        BY <4>3, <4>4
    <3>4. QueueInOrder'
      BY <3>3 DEF QueueInOrder
    <3> QED
      BY <2>3, <3>4
  <2> QED
    BY <2>4, <2>5
<1> QED
  BY <1>3, <1>5 DEF FifoInv, InOrder

\* A cron run is put at the end of the queue.
LEMMA FifoCron ==
  ASSUME FifoInv, NEW m \in CronRuns, \A w \in Work \ {m} : pc'[w] = pc[w],
         items' = Append(items, m), order' = order, budget'.edits = budget.edits,
         pc'[m] = "queued", NoCommandYet' => NoCommandYet
  PROVE  AcceptedOnce' /\ budget'.edits <= MaxEdits /\ InOrder'
<1>0. m \in Work /\ m \notin Users /\ QueueTypes
  BY WorkAssumption DEF Work, FifoInv, GateInv, TypeInv
<1>1. /\ AcceptedWork' = AcceptedWork /\ Precedes' = Precedes
      /\ Precedes \subseteq AcceptedWork \X AcceptedWork
  BY <1>0, OrderFacts
<1>2. m \notin AcceptedWork
  BY <1>0 DEF FifoInv, AcceptedOnce
<1>3. AcceptedOnce'
  BY <1>1, <1>2 DEF FifoInv, AcceptedOnce, AcceptedWork
<1>4. ASSUME NoCommandYet', budget'.edits = MaxEdits
      PROVE  NextIsFirst' /\ QueueInOrder'
  <2>1. NoCommandYet /\ NextIsFirst /\ QueueInOrder
    BY <1>4 DEF FifoInv, InOrder
  <2>2. NextIsFirst'
    BY <1>0, <1>1, <2>1 DEF NextIsFirst, Work
  <2> DEFINE L == Len(items)
  <2>3. /\ L \in Nat /\ DOMAIN items = 1..L /\ DOMAIN items' = 1..(L + 1)
        /\ \A i \in 1..L : items'[i] = items[i]
        /\ items'[L + 1] = m
    BY <1>0, AppendProperties DEF QueueTypes
  <2>4. ASSUME NEW i \in DOMAIN items', NEW j \in DOMAIN items',
               <<items'[i], items'[j]>> \in Precedes
        PROVE  i < j
    <3>1. items'[i] # m /\ items'[j] # m
      BY <1>1, <1>2, <2>4
    <3>2. i \in 1..L /\ j \in 1..L /\ items'[i] = items[i] /\ items'[j] = items[j]
      BY <2>3, <3>1
    <3> QED
      BY <2>1, <2>3, <2>4, <3>2 DEF QueueInOrder
  <2>5. QueueInOrder'
    BY <1>1, <2>4 DEF QueueInOrder
  <2> QED
    BY <2>2, <2>5
<1> QED
  BY <1>3, <1>4 DEF FifoInv, InOrder

\* A prompt that found its session busy goes back to the front.
LEMMA FifoRequeue ==
  ASSUME FifoInv, NEW m \in Work, \A w \in Work \ {m} : pc'[w] = pc[w],
         items' = <<m>> \o items, order' = order, budget'.edits = budget.edits,
         pc[m] = "retry", pc'[m] = "queued", NoCommandYet' => NoCommandYet
  PROVE  AcceptedOnce' /\ budget'.edits <= MaxEdits /\ InOrder'
<1>0. QueueTypes /\ QueueHolds
  BY DEF FifoInv, GateInv, TypeInv
<1>1. /\ AcceptedWork' = AcceptedWork /\ Precedes' = Precedes
      /\ Precedes \subseteq AcceptedWork \X AcceptedWork
  BY <1>0, OrderFacts
<1>2. AcceptedOnce'
  BY <1>1 DEF FifoInv, AcceptedOnce, AcceptedWork, Unaccepted
<1>3. ASSUME NoCommandYet', budget'.edits = MaxEdits
      PROVE  NextIsFirst' /\ QueueInOrder'
  <2>1. NoCommandYet /\ NextIsFirst /\ QueueInOrder
    BY <1>3 DEF FifoInv, InOrder
  <2>2. NextIsFirst'
    <3> SUFFICES ASSUME NEW a \in Users, NEW b \in Users, <<a, b>> \in Precedes,
                        pc'[b] \in Upcoming, pc'[a] \in Waiting
                 PROVE  FALSE
      BY <1>1 DEF NextIsFirst
    <3>1. pc[b] \in Upcoming /\ pc[a] \in Waiting
      BY DEF Upcoming, Waiting, Work
    <3> QED
      BY <2>1, <3>1 DEF NextIsFirst
  <2> DEFINE L == Len(items)
  <2>3. /\ L \in Nat /\ DOMAIN items = 1..L /\ DOMAIN items' = 1..(L + 1)
        /\ items'[1] = m
        /\ \A i \in 2..(L + 1) : items'[i] = items[i - 1]
    <3>1. <<m>> \in Seq(Work) /\ Len(<<m>>) = 1 /\ <<m>>[1] = m /\ items \in Seq(Work)
      BY <1>0 DEF QueueTypes
    <3>2. L \in Nat /\ DOMAIN items = 1..L
      BY <3>1
    <3> QED
      BY <3>1, <3>2, ConcatProperties
  <2>4. \A i \in DOMAIN items' : i = 1 \/ (i \in 2..(L + 1) /\ i - 1 \in DOMAIN items)
    BY <2>3
  <2>5. ASSUME NEW i \in DOMAIN items', NEW j \in DOMAIN items',
               <<items'[i], items'[j]>> \in Precedes
        PROVE  i < j
    <3>1. CASE j = 1
      <4>1. m \in Users /\ items'[i] \in Users /\ items'[j] = m
        BY <1>1, <2>3, <2>5, <3>1 DEF FifoInv, AcceptedOnce
      <4>2. pc[items'[i]] \notin Waiting
        BY <2>1, <2>5, <4>1 DEF NextIsFirst, Upcoming
      <4>3. pc[items'[i]] \in {"retry", "queued"}
        BY <1>0, <2>3, <2>4 DEF QueueHolds, Lists, Waits
      <4> QED
        BY <4>2, <4>3 DEF Waiting
    <3>2. CASE j # 1 /\ i = 1
      BY <2>3, <2>4, <3>2
    <3>3. CASE j # 1 /\ i # 1
      <4>1. i - 1 < j - 1
        BY <2>1, <2>3, <2>4, <2>5, <3>3 DEF QueueInOrder
      <4> QED
        BY <2>3, <4>1
    <3> QED
      BY <3>1, <3>2, <3>3
  <2>6. QueueInOrder'
    BY <1>1, <2>5 DEF QueueInOrder
  <2> QED
    BY <2>2, <2>6
<1> QED
  BY <1>2, <1>3 DEF FifoInv, InOrder

\* The first item is started.
LEMMA FifoDrain ==
  ASSUME FifoInv, Drain
  PROVE  AcceptedOnce' /\ budget'.edits <= MaxEdits /\ InOrder'
<1>0. /\ QueueTypes /\ QueueHolds /\ pc \in [Work -> Labels]
      /\ order' = order /\ budget' = budget
  BY DEF FifoInv, GateInv, TypeInv, PcType, Drain, hist, cmds
<1>1. /\ AcceptedWork' = AcceptedWork /\ Precedes' = Precedes
      /\ AcceptedWork \subseteq Work
  BY <1>0, OrderFacts DEF AcceptedWork
<1>2. CASE running \/ items = <<>>
  <2>1. UNCHANGED <<pc, items>>
    BY <1>2 DEF Drain
  <2> QED
    BY <1>0, <1>1, <2>1 DEF FifoInv, AcceptedOnce, InOrder, NoCommandYet, NextIsFirst,
         QueueInOrder
<1>3. CASE ~running /\ items # <<>>
  <2> DEFINE m == Head(items)
             L == Len(items)
  <2>1. pc' = [pc EXCEPT ![m] = "popped"] /\ items' = Tail(items) /\ m \in Queueable
    BY <1>3 DEF Drain
  <2>2. /\ L \in Nat \ {0} /\ DOMAIN items = 1..L /\ m = items[1]
        /\ DOMAIN items' = 1..(L - 1)
        /\ \A i \in 1..(L - 1) : items'[i] = items[i + 1]
    BY <1>0, <1>3, <2>1, HeadTailProperties, EmptySeq DEF QueueTypes
  <2>3. m \in Waits
    BY <1>0, <1>3, ListsTail DEF QueueTypes, QueueHolds
  <2> HIDE DEF m
  <2>4. /\ m \in Work /\ pc[m] = "queued" /\ pc'[m] = "popped"
        /\ \A w \in Work \ {m} : pc'[w] = pc[w]
    BY <1>0, <2>1, <2>3 DEF Waits
  <2>5. AcceptedOnce'
    BY <1>1, <2>4 DEF FifoInv, AcceptedOnce, Unaccepted
  <2>6. ASSUME NoCommandYet', budget'.edits = MaxEdits
        PROVE  NextIsFirst' /\ QueueInOrder'
    <3>1. NoCommandYet
      BY <2>4, <2>6 DEF NoCommandYet, Work
    <3>2. NextIsFirst /\ QueueInOrder /\ Gatekeepers = {}
      BY <1>0, <1>3, <2>6, <3>1 DEF FifoInv, InOrder, GateInv, GateHeldByOne
    <3>3. ASSUME NEW a \in Users, NEW b \in Users, <<a, b>> \in Precedes,
                 pc'[b] \in Upcoming, pc'[a] \in Waiting
          PROVE  FALSE
      <4>1. a \in Work /\ b \in Work /\ pc[a] \in Waiting
        BY <2>4, <3>3 DEF Work, Waiting
      <4>2. PICK i \in DOMAIN items : items[i] = a
        BY <1>0, <3>2, <4>1, WaitersAre
      <4>3. CASE b = m
        <5>1. 1 \in DOMAIN items /\ items[1] = b
          BY <2>2, <4>3
        <5>2. i < 1
          BY <3>2, <3>3, <4>2, <5>1 DEF QueueInOrder
        <5> QED
          BY <2>2, <4>2, <5>2
      <4>4. CASE b # m
        <5>1. pc[b] \in Upcoming
          BY <2>4, <3>3, <4>1, <4>4
        <5> QED
          BY <3>2, <5>1, NextHasGate
      <4> QED
        BY <4>3, <4>4
    <3>4. NextIsFirst'
      BY <1>1, <3>3 DEF NextIsFirst
    <3>5. ASSUME NEW i \in DOMAIN items', NEW j \in DOMAIN items',
                 <<items'[i], items'[j]>> \in Precedes
          PROVE  i < j
      <4>1. i + 1 \in DOMAIN items /\ j + 1 \in DOMAIN items
        BY <2>2
      <4>2. i + 1 < j + 1
        BY <2>2, <3>2, <3>5, <4>1 DEF QueueInOrder
      <4> QED
        BY <2>2, <4>2
    <3>6. QueueInOrder'
      BY <1>1, <3>5 DEF QueueInOrder
    <3> QED
      BY <3>4, <3>6
  <2> QED
    BY <1>0, <2>5, <2>6 DEF FifoInv, InOrder
<1> QED
  BY <1>2, <1>3

\* /new and /switch drop items and keep the others in order.
LEMMA FifoCancel ==
  ASSUME FifoInv, SwitchCancel
  PROVE  AcceptedOnce' /\ budget'.edits <= MaxEdits /\ InOrder'
<1>0. QueueTypes /\ order' = order /\ budget' = budget
  BY DEF FifoInv, GateInv, TypeInv, SwitchCancel, hist
<1>1. AcceptedWork' = AcceptedWork /\ Precedes' = Precedes /\ AcceptedWork \subseteq Work
  BY <1>0, OrderFacts DEF AcceptedWork
<1>2. \A m \in Work : pc'[m] = pc[m] \/ (pc[m] = "queued" /\ pc'[m] = "cancelled")
  BY DEF SwitchCancel
<1>3. AcceptedOnce'
  BY <1>1, <1>2 DEF FifoInv, AcceptedOnce, Unaccepted
<1>4. PICK f \in [1..Cardinality(KeptPositions) -> KeptPositions] :
        /\ \A i, j \in DOMAIN f : i < j => f[i] < f[j]
        /\ items' = [i \in DOMAIN f |-> items[f[i]]]
  BY DEF SwitchCancel
<1>5. KeptPositions \subseteq DOMAIN items /\ DOMAIN items \subseteq Int
  BY <1>0 DEF KeptPositions, QueueTypes
<1>6. Cardinality(KeptPositions) \in Nat
  <2>1. IsFiniteSet(DOMAIN items)
    <3>1. Len(items) \in Nat /\ DOMAIN items = 1..Len(items)
      BY <1>0 DEF QueueTypes
    <3> QED
      BY <3>1, FS_Interval
  <2> QED
    BY <1>5, <2>1, FS_Subset, FS_CardinalityType
<1>7. ASSUME NoCommandYet', budget'.edits = MaxEdits
      PROVE  NextIsFirst' /\ QueueInOrder'
  <2>1. NoCommandYet
    BY <1>2, <1>7 DEF NoCommandYet, Work
  <2>2. NextIsFirst /\ QueueInOrder
    BY <1>0, <1>7, <2>1 DEF FifoInv, InOrder
  <2>3. NextIsFirst'
    <3> SUFFICES ASSUME NEW a \in Users, NEW b \in Users, <<a, b>> \in Precedes,
                        pc'[b] \in Upcoming, pc'[a] \in Waiting
                 PROVE  FALSE
      BY <1>1 DEF NextIsFirst
    <3>1. pc[b] \in Upcoming /\ pc[a] \in Waiting
      BY <1>2 DEF Upcoming, Waiting, Work
    <3> QED
      BY <2>2, <3>1 DEF NextIsFirst
  <2>4. ASSUME NEW i \in DOMAIN items', NEW j \in DOMAIN items',
               <<items'[i], items'[j]>> \in Precedes
        PROVE  i < j
    <3>1. /\ i \in DOMAIN f /\ j \in DOMAIN f /\ i \in Int /\ j \in Int
          /\ items'[i] = items[f[i]] /\ items'[j] = items[f[j]]
          /\ f[i] \in DOMAIN items /\ f[j] \in DOMAIN items
      BY <1>4, <1>5, <1>6
    <3>2. f[i] < f[j] /\ f[i] \in Int /\ f[j] \in Int
      BY <1>5, <2>2, <2>4, <3>1 DEF QueueInOrder
    <3>3. j # i /\ ~(j < i)
      <4>1. ASSUME j < i PROVE FALSE
        <5>1. f[j] < f[i]
          BY <1>4, <3>1, <4>1
        <5> QED
          BY <3>2, <5>1
      <4> QED
        BY <3>2, <4>1
    <3> QED
      BY <3>1, <3>3
  <2>5. QueueInOrder'
    BY <1>1, <2>4 DEF QueueInOrder
  <2> QED
    BY <2>3, <2>5
<1> QED
  BY <1>0, <1>3, <1>7 DEF FifoInv, InOrder

\* A handler, and a cron run on its way.
LEMMA HandlerFifo ==
  ASSUME FifoInv, NEW m \in Work,
         \/ Arrive(m) \/ TryLockSession(m) \/ EnqueueBehindBusy(m)
         \/ BeginOrEnqueue(m) \/ HandlerUnlock(m) \/ RefuseFull(m)
         \/ PassUpgradeGate(m) \/ MarkRunning(m)
         \/ CronBegin(m) \/ CronTryLock(m) \/ CronConvert(m) \/ CronRunEnds(m)
  PROVE  AcceptedOnce' /\ budget'.edits <= MaxEdits /\ InOrder'
<1> USE WorkAssumption
    DEF FifoInv, GateInv, TypeInv, PcType, CommandTypes, vars, gate, store, agent, turn,
        cmds, hist, PutLast, Accept, Spend, Arrive, TryLockSession, EnqueueBehindBusy,
        BeginOrEnqueue, HandlerUnlock, RefuseFull, PassUpgradeGate, MarkRunning, CronBegin,
        CronTryLock, CronConvert, CronRunEnds
<1>1. \A w \in Work \ {m} : pc'[w] = pc[w]
  BY SMTT(20)
<1>2. NoCommandYet' => NoCommandYet
  <2>1. pc'[m] = "new" => pc[m] = "new"
    BY SMTT(20)
  <2> QED
    BY ONLY <1>1, <2>1, m \in Work DEF NoCommandYet, Work
<1>3. budget'.edits = budget.edits
  BY SMTT(20)
<1>4. \/ /\ m \in Users /\ order' = Append(order, m) /\ pc[m] \in Unaccepted
         /\ \/ items' = Append(items, m) /\ pc'[m] = "queued"
            \/ items' = items /\ ~Gated /\ pc'[m] = "gated"
      \/ m \in CronRuns /\ items' = Append(items, m) /\ order' = order /\ pc'[m] = "queued"
      \/ /\ items' = items /\ order' = order
         /\ pc'[m] \in Unaccepted => pc[m] \in Unaccepted
         /\ m \in Users => /\ pc'[m] \in Upcoming => pc[m] \in Upcoming
                           /\ pc'[m] \in Waiting => pc[m] \in Waiting \cup {"giveUp"}
  BY SMTT(20) DEF Unaccepted, Upcoming, Waiting, QueuePath
<1>5. FifoInv
  OBVIOUS
<1> QED
  BY ONLY <1>1, <1>2, <1>3, <1>4, <1>5, m \in Work, FifoAccept, FifoCron, FifoPlain

\* The start of a dequeued item.
LEMMA StartFifo ==
  ASSUME FifoInv, NEW m \in Work,
         \/ EnterStart(m) \/ CheckItem(m) \/ StartItem(m) \/ RequeueFront(m)
         \/ GiveUp(m) \/ FailItem(m)
  PROVE  AcceptedOnce' /\ budget'.edits <= MaxEdits /\ InOrder'
<1> USE WorkAssumption
    DEF FifoInv, GateInv, TypeInv, PcType, CommandTypes, vars, gate, store, agent, turn,
        cmds, hist, Spend, EnterStart, CheckItem, StartItem, RequeueFront, GiveUp, FailItem
<1>1. \A w \in Work \ {m} : pc'[w] = pc[w]
  BY SMTT(20)
<1>2. NoCommandYet' => NoCommandYet
  <2>1. pc'[m] = "new" => pc[m] = "new"
    BY SMTT(20)
  <2> QED
    BY ONLY <1>1, <2>1, m \in Work DEF NoCommandYet, Work
<1>3. budget'.edits = budget.edits
  BY SMTT(20)
<1>4. \/ /\ items' = <<m>> \o items /\ order' = order
         /\ pc[m] = "retry" /\ pc'[m] = "queued"
      \/ /\ items' = items /\ order' = order
         /\ pc'[m] \in Unaccepted => pc[m] \in Unaccepted
         /\ m \in Users => /\ pc'[m] \in Upcoming => pc[m] \in Upcoming
                           /\ pc'[m] \in Waiting => pc[m] \in Waiting \cup {"giveUp"}
  BY SMTT(20) DEF Unaccepted, Upcoming, Waiting
<1>5. FifoInv
  OBVIOUS
<1> QED
  BY ONLY <1>1, <1>2, <1>3, <1>4, <1>5, m \in Work, FifoRequeue, FifoPlain

\* A turn.
LEMMA TurnFifo ==
  ASSUME FifoInv, NEW m \in Work,
         \/ AcquireTurn(m) \/ TakeState(m) \/ SendPrompt(m) \/ SendFails(m)
         \/ SendRestarts(m) \/ TurnResult(m) \/ TurnFails(m)
         \/ EndUnlock(m) \/ CompleteTurn(m)
  PROVE  AcceptedOnce' /\ budget'.edits <= MaxEdits /\ InOrder'
<1>0. pc \in [Work -> Labels] /\ CommandTypes
  BY DEF FifoInv, GateInv, TypeInv, PcType
<1> DEFINE Turning == {"wantTurn", "haveTurn", "haveState", "restart", "lastTry", "sent",
                       "ending", "ran", "unlocked"}
<1>1. /\ \E label \in Turning : pc' = [pc EXCEPT ![m] = label]
      /\ UNCHANGED <<items, order>> /\ budget'.edits = budget.edits
  <2>1. CASE AcquireTurn(m) \/ SendPrompt(m) \/ TurnResult(m)
    BY <2>1 DEF AcquireTurn, SendPrompt, TurnResult, gate, hist, cmds
  <2>2. CASE TakeState(m)
    <3>1. PICK label \in {"lastTry", "haveState", "ending"} : pc' = [pc EXCEPT ![m] = label]
      BY <2>2, Zenon DEF TakeState
    <3>2. UNCHANGED <<items, order>>
      BY <2>2 DEF TakeState, gate
    <3>3. budget' = budget \/ Spend("faults")
      BY <2>2, Zenon DEF TakeState
    <3> QED
      BY <1>0, <3>1, <3>2, <3>3 DEF Spend, CommandTypes
  <2>3. CASE SendFails(m)
    <3>1. UNCHANGED <<items, order>> /\ pc' = [pc EXCEPT ![m] = "ending"]
      BY <2>3 DEF SendFails, gate, hist
    <3>2. budget' = budget \/ Spend("faults")
      BY <2>3, Zenon DEF SendFails
    <3> QED
      BY <1>0, <3>1, <3>2 DEF Spend, CommandTypes
  <2>4. CASE TurnFails(m)
    <3>1. UNCHANGED <<items, order>> /\ pc' = [pc EXCEPT ![m] = "ending"]
      BY <2>4 DEF TurnFails, gate, hist
    <3>2. budget' = budget \/ Spend("faults")
      BY <2>4, Zenon DEF TurnFails
    <3> QED
      BY <1>0, <3>1, <3>2 DEF Spend, CommandTypes
  <2>5. CASE SendRestarts(m)
    BY <2>5 DEF SendRestarts, gate, hist, cmds
  <2>6. CASE EndUnlock(m) \/ CompleteTurn(m)
    BY <2>6 DEF EndUnlock, CompleteTurn, gate, hist, cmds
  <2> QED
    BY <2>1, <2>2, <2>3, <2>4, <2>5, <2>6
<1>2. PICK label \in Turning : pc' = [pc EXCEPT ![m] = label]
  BY <1>1
<1>3. pc'[m] = label /\ \A w \in Work \ {m} : pc'[w] = pc[w]
  BY <1>0, <1>2
<1>4. NoCommandYet' => NoCommandYet
  BY <1>3 DEF NoCommandYet, Work
<1>5. pc'[m] \notin Unaccepted /\ pc'[m] \notin Upcoming /\ pc'[m] \notin Waiting
  BY <1>3 DEF Unaccepted, Upcoming, Waiting
<1> QED
  BY ONLY <1>1, <1>3, <1>4, <1>5, FifoInv, m \in Work, FifoPlain

\* The rest: whoever edits the queue spends a budget, the others leave it alone.
LEMMA CommandFifo ==
  ASSUME FifoInv, StopStep \/ SwitchCleanup \/ SwitchSession \/ Command \/ ProcessDies
  PROVE  AcceptedOnce' /\ budget'.edits <= MaxEdits /\ InOrder'
<1>0. QueueTypes /\ pc \in [Work -> Labels] /\ QueueHolds /\ MaxEdits \in Nat
      /\ budget \in [{"switches", "stops", "edits", "deaths", "faults"} -> Nat]
  BY BoundAssumption DEF FifoInv, GateInv, TypeInv, PcType, CommandTypes
<1>1. order' = order
  BY DEF StopStep, StopKeepQuiet, StopTryLock, StopUnlock, StopSeesGate, StopForcesUnlock,
       SwitchCleanup, SwitchSession, Command, SwitchBegin, StopBegin, QueueClear,
       QueueDelete, QueueMove, ProcessDies, hist
<1>2. AcceptedWork' = AcceptedWork /\ Precedes' = Precedes /\ AcceptedWork \subseteq Work
  BY <1>0, <1>1, OrderFacts DEF AcceptedWork
<1>3. CASE SwitchBegin \/ SwitchCleanup \/ SwitchSession \/ StopBegin \/ StopStep
           \/ ProcessDies
  <2>1. UNCHANGED <<pc, items>>
    BY <1>3, CommandGate DEF FifoInv
  <2>2. budget' = budget \/ Spend("switches") \/ Spend("stops") \/ Spend("deaths")
    BY <1>3 DEF StopStep, StopKeepQuiet, StopTryLock, StopUnlock, StopSeesGate,
         StopForcesUnlock, SwitchCleanup, SwitchSession, SwitchBegin, StopBegin,
         ProcessDies, cmds
  <2>3. budget'.edits = budget.edits
    BY <1>0, <2>2 DEF Spend
  <2> QED
    BY <1>2, <2>1, <2>3 DEF FifoInv, AcceptedOnce, InOrder, NoCommandYet, NextIsFirst,
         QueueInOrder
<1>4. CASE QueueClear \/ QueueDelete \/ QueueMove
  <2>1. budget.edits > 0 /\ budget'.edits = budget.edits - 1
    BY <1>0, <1>4 DEF QueueClear, QueueDelete, QueueMove, Spend
  <2>2. budget'.edits <= MaxEdits /\ budget'.edits # MaxEdits
    BY <1>0, <2>1 DEF FifoInv
  <2>3. \A m \in Work : pc'[m] = pc[m] \/ pc'[m] = "cancelled"
    BY <1>0, <1>4 DEF QueueClear, QueueDelete, QueueMove
  <2>4. AcceptedOnce'
    BY <1>2, <2>3 DEF FifoInv, AcceptedOnce, Unaccepted
  <2> QED
    BY <2>2, <2>4 DEF InOrder
<1> QED
  BY <1>3, <1>4 DEF Command

\* Every step keeps the order.
LEMMA NextFifo ==
  ASSUME FifoInv, [Next]_vars
  PROVE  FifoInv'
<1>1. GateInv'
  BY NextGate DEF FifoInv
<1>2. ASSUME NEW m \in Work, Handle(m) \/ Step(m) \/ HandlerUnlock(m)
      PROVE  AcceptedOnce' /\ budget'.edits <= MaxEdits /\ InOrder'
  BY <1>2, HandlerFifo, StartFifo, TurnFifo DEF Handle, Step
<1>3. CASE Drain \/ SwitchStep \/ StopStep \/ Command \/ ProcessDies
  <2>1. AcceptedOnce' /\ budget'.edits <= MaxEdits /\ InOrder'
    BY <1>3, FifoDrain, FifoCancel, CommandFifo DEF SwitchStep
  <2> QED
    BY <1>1, <2>1 DEF FifoInv
<1>4. CASE UNCHANGED vars
  <2>1. UNCHANGED <<pc, items, order, budget>>
    BY <1>4 DEF vars, gate, hist, cmds
  <2>2. AcceptedWork' = AcceptedWork /\ Precedes' = Precedes
    BY <2>1, OrderFacts DEF FifoInv, GateInv, TypeInv
  <2>3. AcceptedOnce' /\ budget'.edits <= MaxEdits /\ InOrder'
    BY <2>1, <2>2 DEF FifoInv, AcceptedOnce, InOrder, NoCommandYet, NextIsFirst,
         QueueInOrder
  <2> QED
    BY <1>1, <2>3 DEF FifoInv
<1> QED
  BY <1>1, <1>2, <1>3, <1>4 DEF Next, FifoInv

\* A prompt starts from the gate, or from its check.
LEMMA StartsFrom ==
  ASSUME FifoInv, [Next]_vars, NEW b \in Users, Starts(b)
  PROVE  pc[b] \in Upcoming
<1>0. pc \in [Work -> Labels] /\ b \in Work /\ pc[b] # "wantTurn" /\ pc'[b] = "wantTurn"
      /\ b \notin Compactions /\ b \notin Commands
  BY WorkAssumption DEF FifoInv, GateInv, TypeInv, PcType, Starts, Work
<1>1. ASSUME NEW w \in Work,
             \/ Arrive(w) \/ TryLockSession(w) \/ EnqueueBehindBusy(w)
             \/ BeginOrEnqueue(w) \/ HandlerUnlock(w) \/ RefuseFull(w)
             \/ PassUpgradeGate(w) \/ MarkRunning(w)
             \/ CronBegin(w) \/ CronTryLock(w) \/ CronConvert(w) \/ CronRunEnds(w)
      PROVE  pc[b] \in Upcoming
  BY <1>0, <1>1, SMTT(20) DEF Arrive, TryLockSession, EnqueueBehindBusy, BeginOrEnqueue,
       HandlerUnlock, RefuseFull, PassUpgradeGate, MarkRunning, CronBegin, CronTryLock,
       CronConvert, CronRunEnds, PutLast, Upcoming
<1>2. ASSUME NEW w \in Work,
             \/ EnterStart(w) \/ CheckItem(w) \/ StartItem(w) \/ RequeueFront(w)
             \/ GiveUp(w) \/ FailItem(w) \/ EndUnlock(w) \/ CompleteTurn(w)
      PROVE  pc[b] \in Upcoming
  BY <1>0, <1>2, SMTT(20) DEF EnterStart, CheckItem, StartItem, RequeueFront, GiveUp,
       FailItem, EndUnlock, CompleteTurn, Upcoming
<1>3. ASSUME NEW w \in Work,
             \/ AcquireTurn(w) \/ TakeState(w) \/ SendPrompt(w) \/ SendFails(w)
             \/ SendRestarts(w) \/ TurnResult(w) \/ TurnFails(w)
      PROVE  FALSE
  <2>1. CASE TakeState(w)
    <3>1. PICK label \in {"lastTry", "haveState", "ending"} : pc' = [pc EXCEPT ![w] = label]
      BY <2>1, Zenon DEF TakeState
    <3> QED
      BY <1>0, <3>1
  <2>2. CASE AcquireTurn(w) \/ SendPrompt(w) \/ SendFails(w) \/ SendRestarts(w)
             \/ TurnResult(w) \/ TurnFails(w)
    BY <1>0, <2>2 DEF AcquireTurn, SendPrompt, SendFails, SendRestarts, TurnResult, TurnFails
  <2> QED
    BY <1>3, <2>1, <2>2
<1>4. CASE Drain \/ SwitchStep \/ StopStep \/ Command \/ ProcessDies
  <2>1. CASE Drain \/ SwitchCancel \/ QueueClear \/ QueueDelete
    BY <1>0, <2>1 DEF Drain, SwitchCancel, QueueClear, QueueDelete
  <2>2. CASE SwitchBegin \/ SwitchCleanup \/ SwitchSession \/ StopBegin \/ StopStep
             \/ ProcessDies
    BY <1>0, <2>2, CommandGate DEF FifoInv
  <2>3. CASE QueueMove
    BY <1>0, <2>3 DEF QueueMove
  <2> QED
    BY <1>4, <2>1, <2>2, <2>3 DEF SwitchStep, Command
<1>5. CASE UNCHANGED vars
  BY <1>0, <1>5 DEF vars
<1> QED
  BY <1>1, <1>2, <1>3, <1>4, <1>5 DEF Next, Handle, Step

\* "Execute queued prompts in FIFO order by default": a prompt never starts while one that
\* was accepted earlier waits, unless a direct command clears the gate under the prompts
\* or /queue reorders them; retries, failures, switches and cron runs change nothing in it.
THEOREM PromptsAreFifo == Spec => FifoWithoutCommands
<1> DEFINE Ordered == NoCommandYet =>
                        \A a, b \in Users : Starts(b) /\ Before(a, b)
                                              /\ budget.edits = MaxEdits
                                                => pc[a] \notin Waiting
<1>1. Init => FifoInv
  <2> SUFFICES ASSUME Init
               PROVE  FifoInv
    OBVIOUS
  <2>1. GateInv
    BY InitGate
  <2>2. order = <<>> /\ items = <<>> /\ budget.edits = MaxEdits
    BY DEF Init
  <2>3. AcceptedWork = {} /\ Precedes = {}
    BY <2>2 DEF AcceptedWork, Precedes, Accepted, Before
  <2> QED
    BY <2>1, <2>2, <2>3, BoundAssumption DEF FifoInv, AcceptedOnce, InOrder, NextIsFirst, QueueInOrder
<1>2. FifoInv /\ [Next]_vars => FifoInv'
  BY NextFifo
<1>3. FifoInv /\ [Next]_vars => Ordered
  <2> SUFFICES ASSUME FifoInv, [Next]_vars, NoCommandYet, NEW a \in Users, NEW b \in Users,
                      Starts(b), Before(a, b), budget.edits = MaxEdits
               PROVE  pc[a] \notin Waiting
    OBVIOUS
  <2>1. pc[b] \in Upcoming
    BY StartsFrom
  <2>2. <<a, b>> \in Precedes
    BY DEF Precedes, Work
  <2> QED
    BY <2>1, <2>2 DEF FifoInv, InOrder, NextIsFirst
<1>4. Ordered => [Ordered]_vars
  OBVIOUS
<1> QED
  BY <1>1, <1>2, <1>3, PTL DEF Spec, FifoWithoutCommands
=============================================================================
