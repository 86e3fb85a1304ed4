--------------------------- MODULE Platforms_proofs ---------------------------
(* What holds of the connections to the chat services for all bounds.          *)
EXTENDS Gateway, Delivery, SequenceTheorems, TLAPS

-----------------------------------------------------------------------------
(* Gateway: what a resumed session leaves out has been read. *)

GwOps == {"event", "ack", "hello", "ready", "reconnect", "invalid"}
Frames == [op : GwOps, s : Nat]

\* Number s is among those that were read, or an event of the first n frames of q.
ReadOrIn(read, q, n, s) ==
    s \in read \/ \E k \in 1 .. n : q[k].op = "event" /\ q[k].s = s

\* Each event of q has a number of the session and is behind those before it that were
\* not read.
InOrder(read, q, sent) ==
    \A i \in 1 .. Len(q) :
        q[i].op = "event" => /\ q[i].s <= sent
                             /\ \A s \in 2 .. q[i].s : ReadOrIn(read, q, i, s)

\* Every number that was sent was read or is on its way.
AllSent(read, q, sent) == \A s \in 2 .. sent : ReadOrIn(read, q, Len(q), s)

NoEvents(q) == \A i \in 1 .. Len(q) : q[i].op # "event"

\* A READY is the first number of its session.
ReadyIsFirst(q) == \A i \in 1 .. Len(q) : q[i].op = "ready" => q[i].s = 1

\* The frames stay in order when the first one is taken, which is not an event or is read.
LEMMA TakeFirst ==
    ASSUME NEW q \in Seq(Frames), q # <<>>, NEW read, NEW more, read \subseteq more,
           NEW sent \in Nat, q[1].op = "event" => q[1].s \in more
    PROVE  /\ Tail(q) \in Seq(Frames) /\ q[1] \in Frames /\ Head(q) = q[1]
           /\ InOrder(read, q, sent) => InOrder(more, Tail(q), sent)
           /\ AllSent(read, q, sent) => AllSent(more, Tail(q), sent)
           /\ NoEvents(q) => NoEvents(Tail(q))
           /\ ReadyIsFirst(q) => ReadyIsFirst(Tail(q))
  <1> DEFINE t == Tail(q)
  <1>1. /\ t \in Seq(Frames) /\ Len(q) \in Nat \ {0} /\ Len(t) = Len(q) - 1
        /\ \A i \in 1 .. Len(t) : i + 1 \in 1 .. Len(q) /\ t[i] = q[i + 1]
        /\ q[1] \in Frames /\ Head(q) = q[1]
    OBVIOUS
  <1> HIDE DEF t
  <1>2. ASSUME NEW n \in 1 .. Len(q), NEW s, ReadOrIn(read, q, n, s)
        PROVE  ReadOrIn(more, t, n - 1, s)
    <2>1. CASE s \in read
      BY <2>1 DEF ReadOrIn
    <2>2. ASSUME NEW k \in 1 .. n, q[k].op = "event", q[k].s = s
          PROVE  ReadOrIn(more, t, n - 1, s)
      <3>1. CASE k = 1
        BY <2>2, <3>1 DEF ReadOrIn
      <3>2. CASE k # 1
        <4>1. k - 1 \in 1 .. n - 1 /\ k - 1 \in 1 .. Len(t) /\ k - 1 + 1 = k
          BY <1>1, <3>2
        <4>2. t[k - 1] = q[k]
          BY <1>1, <4>1
        <4> QED
          BY <2>2, <4>1, <4>2 DEF ReadOrIn
      <3> QED
        BY <3>1, <3>2
    <2> QED
      BY <1>2, <2>1, <2>2 DEF ReadOrIn
  <1>3. InOrder(read, q, sent) => InOrder(more, t, sent)
    <2> SUFFICES ASSUME InOrder(read, q, sent), NEW i \in 1 .. Len(t), t[i].op = "event"
                 PROVE  t[i].s <= sent /\ \A s \in 2 .. t[i].s : ReadOrIn(more, t, i, s)
      BY DEF InOrder
    <2>1. i + 1 \in 1 .. Len(q) /\ t[i] = q[i + 1] /\ i + 1 - 1 = i
      BY <1>1
    <2>2. q[i + 1].s <= sent /\ \A s \in 2 .. q[i + 1].s : ReadOrIn(read, q, i + 1, s)
      BY <2>1 DEF InOrder
    <2> QED
      BY <1>2, <2>1, <2>2
  <1>4. AllSent(read, q, sent) => AllSent(more, t, sent)
    <2>1. Len(q) \in 1 .. Len(q) /\ Len(t) = Len(q) - 1
      BY <1>1
    <2> QED
      BY <1>2, <2>1 DEF AllSent
  <1>5. (NoEvents(q) => NoEvents(t)) /\ (ReadyIsFirst(q) => ReadyIsFirst(t))
    BY <1>1 DEF NoEvents, ReadyIsFirst
  <1> QED
    BY <1>1, <1>3, <1>4, <1>5 DEF t

\* The frames stay in order when one is added that is no event, or an event behind all
\* numbers before it.
LEMMA AddLast ==
    ASSUME NEW q \in Seq(Frames), NEW f \in Frames, NEW read, NEW sent \in Nat, NEW more \in Nat,
           InOrder(read, q, sent), sent <= more,
           \/ f.op # "event" /\ more = sent
           \/ f.op = "event" /\ f.s = more /\ more = sent + 1 /\ AllSent(read, q, sent)
    PROVE  /\ Append(q, f) \in Seq(Frames)
           /\ InOrder(read, Append(q, f), more)
           /\ AllSent(read, q, sent) => AllSent(read, Append(q, f), more)
           /\ NoEvents(q) /\ f.op # "event" => NoEvents(Append(q, f))
           /\ ReadyIsFirst(q) /\ (f.op = "ready" => f.s = 1) => ReadyIsFirst(Append(q, f))
  <1> DEFINE a == Append(q, f)
             L == Len(q)
  <1>1. /\ a \in Seq(Frames) /\ L \in Nat /\ Len(a) = L + 1 /\ a[L + 1] = f
        /\ \A i \in 1 .. L : a[i] = q[i] /\ q[i] \in Frames
        /\ \A i \in 1 .. L + 1 : i \in 1 .. L \/ i = L + 1
    OBVIOUS
  <1> HIDE DEF a, L
  <1>2. \A n \in 1 .. L : \A s : ReadOrIn(read, q, n, s) => ReadOrIn(read, a, n, s)
    BY <1>1 DEF ReadOrIn
  <1>3. AllSent(read, q, sent) => \A s \in 2 .. more : ReadOrIn(read, a, L + 1, s)
    <2> SUFFICES ASSUME AllSent(read, q, sent), NEW s \in 2 .. more
                 PROVE  ReadOrIn(read, a, L + 1, s)
      OBVIOUS
    <2>1. CASE s \in 2 .. sent
      <3>1. ReadOrIn(read, q, L, s)
        BY <2>1 DEF AllSent, L
      <3> QED
        BY <1>1, <3>1 DEF ReadOrIn
    <2>2. CASE s \notin 2 .. sent
      <3>1. s = more /\ f.op = "event" /\ f.s = more
        BY <2>2
      <3>2. L + 1 \in 1 .. L + 1
        BY <1>1
      <3> QED
        BY <1>1, <3>1, <3>2 DEF ReadOrIn
    <2> QED
      BY <2>1, <2>2
  <1>4. InOrder(read, a, more)
    <2> SUFFICES ASSUME NEW i \in 1 .. L + 1, a[i].op = "event"
                 PROVE  a[i].s <= more /\ \A s \in 2 .. a[i].s : ReadOrIn(read, a, i, s)
      BY <1>1 DEF InOrder
    <2>1. CASE i = L + 1
      BY <1>1, <1>3, <2>1
    <2>2. CASE i \in 1 .. L
      <3>1. a[i] = q[i] /\ q[i].s \in Nat
        BY <1>1, <2>2 DEF Frames
      <3>2. q[i].s <= sent /\ \A s \in 2 .. q[i].s : ReadOrIn(read, q, i, s)
        BY <2>2, <3>1 DEF InOrder, L
      <3> QED
        BY <1>2, <2>2, <3>1, <3>2
    <2> QED
      BY <1>1, <2>1, <2>2
  <1>5. /\ NoEvents(q) /\ f.op # "event" => NoEvents(a)
        /\ ReadyIsFirst(q) /\ (f.op = "ready" => f.s = 1) => ReadyIsFirst(a)
    BY <1>1 DEF NoEvents, ReadyIsFirst, L
  <1> QED
    BY <1>1, <1>3, <1>4, <1>5 DEF a, AllSent

\* What a resumed session is sent, behind frames that are no events: all numbers after seq.
LEMMA SendMissed ==
    ASSUME NEW q \in Seq(Frames), NoEvents(q), ReadyIsFirst(q), NEW read,
           NEW seq \in Nat, NEW sent \in Nat, seq <= sent, \A s \in 2 .. seq : s \in read,
           NEW missed, missed = [i \in 1 .. sent - seq |-> Frame("event", seq + i)]
    PROVE  /\ q \o missed \in Seq(Frames) /\ ReadyIsFirst(q \o missed)
           /\ InOrder(read, q \o missed, sent) /\ AllSent(read, q \o missed, sent)
  <1> DEFINE a == q \o missed
             L == Len(q)
             d == sent - seq
  <1>1. /\ L \in Nat /\ d \in Nat /\ \A i \in 1 .. d : seq + i \in Nat
        /\ \A i \in 1 .. L : q[i] \in Frames
    OBVIOUS
  <1>2. \A i \in 1 .. d : missed[i] \in Frames /\ missed[i].op = "event" /\ missed[i].s = seq + i
    BY <1>1 DEF Frame, Frames, GwOps
  <1>3. missed \in Seq(Frames) /\ Len(missed) = d
    <2>1. missed \in [1 .. d -> Frames]
      BY <1>2
    <2>2. missed \in Seq(Frames)
      BY <1>1, <2>1, SeqDef
    <2>3. Len(missed) \in Nat /\ 1 .. Len(missed) = 1 .. d
      BY <2>1, <2>2, LenProperties
    <2> QED
      BY <1>1, <2>2, <2>3
  <1>4. /\ a \in Seq(Frames) /\ Len(a) = L + d
        /\ \A i \in 1 .. L : a[i] = q[i]
        /\ \A i \in 1 .. L + d : i \notin 1 .. L => a[i] = missed[i - L] /\ i - L \in 1 .. d
    BY <1>1, <1>3
  <1> HIDE DEF a, L, d
  <1>5. \A i \in 1 .. L + d : a[i].op = "event" => i - L \in 1 .. d /\ a[i].s = seq + (i - L)
    BY <1>2, <1>4 DEF NoEvents, L
  <1>6. ASSUME NEW i \in 1 .. d
        PROVE  L + i \in 1 .. L + d /\ a[L + i].op = "event" /\ a[L + i].s = seq + i
    <2>1. L + i \in 1 .. L + d /\ L + i \notin 1 .. L /\ (L + i) - L = i
      BY <1>1
    <2>2. a[L + i] = missed[(L + i) - L]
      BY <1>4, <2>1
    <2> QED
      BY <1>2, <2>1, <2>2
  <1>7. ASSUME NEW n \in 0 .. d, NEW s \in 2 .. seq + n
        PROVE  ReadOrIn(read, a, L + n, s)
    <2>1. CASE s <= seq
      BY <2>1 DEF ReadOrIn
    <2>2. CASE s > seq
      <3>1. s - seq \in 1 .. d /\ s - seq \in 1 .. n /\ L + (s - seq) \in 1 .. L + n
            /\ seq + (s - seq) = s
        BY <1>1, <2>2
      <3> QED
        BY <1>6, <3>1 DEF ReadOrIn
    <2> QED
      BY <1>1, <2>1, <2>2
  <1>8. InOrder(read, a, sent)
    <2> SUFFICES ASSUME NEW i \in 1 .. L + d, a[i].op = "event"
                 PROVE  a[i].s <= sent /\ \A s \in 2 .. a[i].s : ReadOrIn(read, a, i, s)
      BY <1>4 DEF InOrder
    <2>1. i - L \in 0 .. d /\ L + (i - L) = i /\ a[i].s = seq + (i - L) /\ seq + (i - L) <= sent
      BY <1>1, <1>5 DEF d
    <2> QED
      BY <1>7, <2>1
  <1>9. AllSent(read, a, sent)
    <2>1. d \in 0 .. d /\ seq + d = sent /\ Len(a) = L + d
      BY <1>1, <1>4 DEF d
    <2> QED
      BY <1>7, <2>1 DEF AllSent
  <1>10. ReadyIsFirst(a)
    <2> SUFFICES ASSUME NEW i \in 1 .. L + d, a[i].op = "ready"
                 PROVE  a[i].s = 1
      BY <1>4 DEF ReadyIsFirst
    <2>1. CASE i \in 1 .. L
      <3>1. a[i] = q[i]
        BY <1>4, <2>1
      <3> QED
        BY <2>1, <3>1 DEF ReadyIsFirst, L
    <2>2. CASE i \notin 1 .. L
      <3>1. a[i] = missed[i - L] /\ i - L \in 1 .. d
        BY <1>4, <2>2
      <3> QED
        BY <1>2, <3>1
    <2> QED
      BY <2>1, <2>2
  <1> QED
    BY <1>4, <1>8, <1>9, <1>10 DEF a

GwServers == [sid : Nat \ {0}, sent : Nat \ {0}, valid : BOOLEAN, joined : BOOLEAN]

GwTypeOK ==
    /\ gwPipe \in Seq(Frames)
    /\ gwServer \in GwServers
    /\ gwSession \in Nat /\ gwSeq \in Nat

\* The numbers of the gateway's session that a goroutine has read.
WereRead == {s \in Nat : <<gwServer.sid, s>> \in gwTaken}

\* Before a session is resumed or begun.
Unserved == {"top", "dial", "hello", "session"}

\* While p.wsConn serves the session, every number that was sent was read or is on its way;
\* before a session is resumed or begun nothing is; lastSeq stands for numbers that were read.
GwInv ==
    /\ GwTypeOK
    /\ InOrder(WereRead, gwPipe, gwServer.sent) /\ ReadyIsFirst(gwPipe)
    /\ gwServer.joined => gwConn = "open" /\ AllSent(WereRead, gwPipe, gwServer.sent)
    /\ gwPhase \in Unserved => ~gwServer.joined /\ NoEvents(gwPipe)
    /\ gwSession = gwServer.sid =>
         gwSeq <= gwServer.sent /\ \A s \in 2 .. gwSeq : s \in WereRead

\* A step that leaves pipe, numbers and what was read; it may forget the session or close
\* the connection.
LEMMA GwQuietKeeps ==
    ASSUME GwInv, UNCHANGED <<gwPipe, gwSeq, gwTaken>>, gwSession' \in {gwSession, 0},
           gwServer' \in GwServers, gwServer'.sid = gwServer.sid, gwServer'.sent = gwServer.sent,
           gwServer'.joined => gwServer.joined /\ gwConn' = gwConn,
           gwPhase' \in Unserved => gwPhase \in Unserved
    PROVE  GwInv'
  <1>1. WereRead' = WereRead
    BY DEF WereRead
  <1> QED
    BY <1>1 DEF GwInv, GwTypeOK, GwServers

\* A connection that is closed, lost or new has no events on it, and serves no session yet.
LEMMA GwDropKeeps ==
    ASSUME GwInv, UNCHANGED <<gwSeq, gwSession, gwTaken>>,
           gwServer' = [gwServer EXCEPT !.joined = FALSE],
           gwPipe' = <<>> \/ gwPipe' = <<Frame("hello", 0)>>
    PROVE  GwInv'
  <1>1. /\ gwServer'.sid = gwServer.sid /\ gwServer'.sent = gwServer.sent /\ ~gwServer'.joined
        /\ gwServer' \in GwServers
    BY DEF GwInv, GwTypeOK, GwServers
  <1>2. gwPipe' \in Seq(Frames) /\ \A i \in 1 .. Len(gwPipe') : gwPipe'[i].op = "hello"
    <2>1. CASE gwPipe' = <<>>
      BY <2>1
    <2>2. CASE gwPipe' = <<Frame("hello", 0)>>
      <3>1. Frame("hello", 0) \in Frames /\ Frame("hello", 0).op = "hello"
        BY DEF Frame, Frames, GwOps
      <3> QED
        BY <2>2, <3>1
    <2> QED
      BY <2>1, <2>2
  <1>3. WereRead' = WereRead
    BY <1>1 DEF WereRead
  <1> QED
    BY <1>1, <1>2, <1>3 DEF GwInv, GwTypeOK, InOrder, NoEvents, ReadyIsFirst

\* Another frame than an event or READY at the end of the pipe.
LEMMA GwAppendKeeps ==
    ASSUME GwInv, NEW f \in Frames, f.op \notin {"event", "ready"}, gwPipe' = Append(gwPipe, f),
           UNCHANGED <<gwSeq, gwSession, gwTaken, gwConn>>,
           gwServer' = gwServer \/ gwServer' = [gwServer EXCEPT !.joined = FALSE],
           gwPhase' \in Unserved => gwPhase \in Unserved
    PROVE  GwInv'
  <1>1. /\ gwServer'.sid = gwServer.sid /\ gwServer'.sent = gwServer.sent
        /\ gwServer'.joined => gwServer.joined
        /\ gwServer' \in GwServers /\ gwServer.sent \in Nat
    BY DEF GwInv, GwTypeOK, GwServers
  <1>2. WereRead' = WereRead
    BY <1>1 DEF WereRead
  <1>3. /\ gwPipe' \in Seq(Frames) /\ InOrder(WereRead, gwPipe', gwServer.sent)
        /\ AllSent(WereRead, gwPipe, gwServer.sent) => AllSent(WereRead, gwPipe', gwServer.sent)
        /\ NoEvents(gwPipe) => NoEvents(gwPipe')
        /\ ReadyIsFirst(gwPipe')
    BY <1>1, AddLast DEF GwInv, GwTypeOK
  <1> QED
    BY <1>1, <1>2, <1>3 DEF GwInv, GwTypeOK

\* The first frame is taken: an event by a step that reads it and stores its number, or
\* another frame by a step that keeps the numbers, or stores that of READY.
LEMMA GwPopKeeps ==
    ASSUME GwInv, gwPipe # <<>>, gwPipe' = Tail(gwPipe), UNCHANGED <<gwServer, gwConn>>,
           gwTaken \subseteq gwTaken',
           Head(gwPipe).op = "event" => <<gwServer.sid, Head(gwPipe).s>> \in gwTaken',
           \/ gwSession' \in {gwSession, 0} /\ gwSeq' = gwSeq
           \/ /\ gwSession' = gwSession /\ gwSeq' = Head(gwPipe).s
              /\ Head(gwPipe).op \in {"event", "ready"}
           \/ gwSession' = gwServer.sid /\ gwSeq' = Head(gwPipe).s /\ Head(gwPipe).op = "ready",
           gwPhase' \in Unserved => gwPhase \in Unserved
    PROVE  GwInv'
  <1>1. /\ gwServer.sid \in Nat \ {0} /\ gwServer.sent \in Nat \ {0}
        /\ gwSession \in Nat /\ gwSeq \in Nat /\ gwPipe \in Seq(Frames)
    BY DEF GwInv, GwTypeOK, GwServers
  <1>2. Head(gwPipe) = gwPipe[1] /\ gwPipe[1] \in Frames /\ gwPipe[1].s \in Nat /\ 1 \in 1 .. Len(gwPipe)
    <2>1. Head(gwPipe) = gwPipe[1] /\ gwPipe[1] \in Frames /\ 1 \in 1 .. Len(gwPipe)
      BY <1>1
    <2> QED
      BY <2>1 DEF Frames
  <1>3. WereRead \subseteq WereRead' /\ (gwPipe[1].op = "event" => gwPipe[1].s \in WereRead')
    BY <1>2 DEF WereRead
  <1>4. /\ gwPipe' \in Seq(Frames) /\ InOrder(WereRead', gwPipe', gwServer.sent)
        /\ AllSent(WereRead, gwPipe, gwServer.sent) => AllSent(WereRead', gwPipe', gwServer.sent)
        /\ NoEvents(gwPipe) => NoEvents(gwPipe')
        /\ ReadyIsFirst(gwPipe')
    BY <1>1, <1>3, TakeFirst DEF GwInv
  <1>5. gwSession' = gwServer.sid =>
          gwSeq' <= gwServer.sent /\ \A s \in 2 .. gwSeq' : s \in WereRead'
    <2>1. CASE gwSession' \in {gwSession, 0} /\ gwSeq' = gwSeq
      BY <1>1, <1>3, <2>1 DEF GwInv
    <2>2. CASE gwSeq' = gwPipe[1].s /\ gwPipe[1].op = "ready"
      <3>1. gwSeq' = 1
        BY <1>2, <2>2 DEF GwInv, ReadyIsFirst
      <3> QED
        BY <1>1, <3>1
    <2>3. CASE gwSession' = gwSession /\ gwSeq' = gwPipe[1].s /\ gwPipe[1].op = "event"
      <3>1. /\ gwPipe[1].s <= gwServer.sent
            /\ \A s \in 2 .. gwPipe[1].s : ReadOrIn(WereRead, gwPipe, 1, s)
        BY <1>2, <2>3 DEF GwInv, InOrder
      <3>2. \A s \in 2 .. gwPipe[1].s : s \in WereRead'
        BY <1>3, <2>3, <3>1 DEF ReadOrIn
      <3> QED
        BY <2>3, <3>1, <3>2
    <2> QED
      BY <1>2, <2>1, <2>2, <2>3
  <1>6. gwSession' \in Nat /\ gwSeq' \in Nat
    BY <1>1, <1>2
  <1> QED
    BY <1>4, <1>5, <1>6 DEF GwInv, GwTypeOK

\* A new event goes behind those that were not read; what no connection serves is lost to
\* p.wsConn until the session is resumed.
LEMMA GwEmitKeeps ==
    ASSUME GwInv, Emit
    PROVE  GwInv'
  <1>1. /\ gwServer \in GwServers /\ gwServer.sent \in Nat \ {0} /\ gwPipe \in Seq(Frames)
        /\ gwSeq \in Nat
        /\ UNCHANGED <<gwConn, gwSession, gwSeq, gwPhase, gwTaken>>
    BY DEF GwInv, GwTypeOK, GwServers, Emit, gwSide, gwLoop, gwHistory
  <1>2. /\ gwServer'.sid = gwServer.sid /\ gwServer'.sent = gwServer.sent + 1
        /\ gwServer'.joined = gwServer.joined /\ gwServer' \in GwServers
    <2>1. gwServer' = [gwServer EXCEPT !.sent = gwServer.sent + 1] /\ gwServer.sent + 1 \in Nat \ {0}
      BY <1>1 DEF Emit
    <2> QED
      BY <1>1, <2>1 DEF GwServers
  <1>3. WereRead' = WereRead
    BY <1>1, <1>2 DEF WereRead
  <1>4. CASE gwPipe' = gwPipe /\ ~gwServer.joined
    <2>1. InOrder(WereRead, gwPipe, gwServer.sent + 1)
      <3>1. \A i \in 1 .. Len(gwPipe) : gwPipe[i].s \in Nat
        <4>1. \A i \in 1 .. Len(gwPipe) : gwPipe[i] \in Frames
          BY <1>1
        <4> QED
          BY <4>1 DEF Frames
      <3> QED
        BY <1>1, <3>1 DEF GwInv, InOrder
    <2> QED
      BY <1>1, <1>2, <1>3, <1>4, <2>1 DEF GwInv, GwTypeOK
  <1>5. CASE gwServer.joined /\ gwPipe' = Append(gwPipe, Frame("event", gwServer.sent + 1))
    <2>1. /\ Frame("event", gwServer.sent + 1) \in Frames
          /\ Frame("event", gwServer.sent + 1).op = "event"
          /\ Frame("event", gwServer.sent + 1).s = gwServer.sent + 1
      BY <1>1 DEF Frame, Frames, GwOps
    <2>2. /\ gwPipe' \in Seq(Frames) /\ InOrder(WereRead, gwPipe', gwServer.sent + 1)
          /\ AllSent(WereRead, gwPipe', gwServer.sent + 1)
          /\ ReadyIsFirst(gwPipe')
      BY <1>1, <1>5, <2>1, AddLast DEF GwInv
    <2> QED
      BY <1>1, <1>2, <1>3, <1>5, <2>2 DEF GwInv, GwTypeOK
  <1> QED
    BY <1>4, <1>5 DEF Emit, GwInv

\* RESUME: what came after lastSeq is sent again, and what came before it was read.
LEMMA GwResumeKeeps ==
    ASSUME GwInv, Resume
    PROVE  GwInv'
  <1>1. /\ gwServer \in GwServers /\ gwServer.sent \in Nat \ {0} /\ gwPipe \in Seq(Frames)
        /\ gwSeq \in Nat /\ gwPhase = "session" /\ gwPhase' = "start"
        /\ UNCHANGED <<gwConn, gwSession, gwSeq, gwTaken>>
        /\ NoEvents(gwPipe) /\ ~gwServer.joined
    BY DEF GwInv, GwTypeOK, GwServers, Resume, LoopAt, gwSide, gwHistory, Unserved
  <1>2. CASE gwConn = "silent"
    BY <1>1, <1>2, GwQuietKeeps DEF Resume, Unserved
  <1>3. ASSUME gwConn # "silent", gwServer.sid = gwSession, gwServer' = [gwServer EXCEPT !.joined = TRUE],
               gwPipe' = gwPipe \o [i \in 1 .. gwServer.sent - gwSeq |-> Frame("event", gwSeq + i)]
        PROVE  GwInv'
    <2>1. gwSeq <= gwServer.sent /\ \A s \in 2 .. gwSeq : s \in WereRead
      BY <1>3 DEF GwInv
    <2>2. /\ gwPipe' \in Seq(Frames) /\ ReadyIsFirst(gwPipe')
          /\ InOrder(WereRead, gwPipe', gwServer.sent) /\ AllSent(WereRead, gwPipe', gwServer.sent)
      BY <1>1, <1>3, <2>1, SendMissed DEF GwInv
    <2>3. /\ gwServer' \in GwServers /\ gwServer'.sid = gwServer.sid
          /\ gwServer'.sent = gwServer.sent /\ gwConn' = "open"
      BY <1>1, <1>3 DEF GwServers, Resume
    <2>4. WereRead' = WereRead
      BY <1>1, <2>3 DEF WereRead
    <2> QED
      BY <1>1, <2>1, <2>2, <2>3, <2>4 DEF GwInv, GwTypeOK, Unserved
  <1>4. ASSUME gwServer' = [gwServer EXCEPT !.joined = FALSE],
               gwPipe' = gwPipe \o <<Frame("invalid", 0)>>
        PROVE  GwInv'
    <2>1. Frame("invalid", 0) \in Frames /\ Frame("invalid", 0).op = "invalid"
      BY DEF Frame, Frames, GwOps
    <2>2. gwPipe' = Append(gwPipe, Frame("invalid", 0))
      BY <1>1, <1>4, <2>1
    <2> QED
      BY <1>1, <1>4, <2>1, <2>2, GwAppendKeeps DEF Unserved
  <1> QED
    BY <1>2, <1>3, <1>4 DEF Resume

\* IDENTIFY: a new session, whose READY comes first.
LEMMA GwIdentifyKeeps ==
    ASSUME GwInv, Identify
    PROVE  GwInv'
  <1>1. /\ gwServer \in GwServers /\ gwServer.sid \in Nat \ {0} /\ gwPipe \in Seq(Frames)
        /\ gwSeq \in Nat /\ gwPhase = "session" /\ gwPhase' = "ready" /\ gwSession = 0
        /\ UNCHANGED <<gwConn, gwSession, gwSeq, gwTaken>>
        /\ NoEvents(gwPipe) /\ ~gwServer.joined /\ ReadyIsFirst(gwPipe)
    BY DEF GwInv, GwTypeOK, GwServers, Identify, LoopAt, gwSide, gwHistory, Unserved
  <1>2. CASE gwConn = "silent"
    BY <1>1, <1>2, GwQuietKeeps DEF Identify, Unserved
  <1>3. CASE gwConn # "silent"
    <2>1. /\ gwServer' = [sid |-> NextSid, sent |-> 1, valid |-> TRUE, joined |-> TRUE]
          /\ gwPipe' = Append(gwPipe, Frame("ready", 1)) /\ gwConn = "open"
      BY <1>3 DEF Identify
    <2>2. NextSid \in Nat \ {0}
      BY <1>1 DEF NextSid
    <2>3. /\ gwServer' \in GwServers /\ gwServer'.sid \in Nat \ {0} /\ gwServer'.sent = 1
      BY <2>1, <2>2 DEF GwServers
    <2>4. /\ Frame("ready", 1) \in Frames /\ Frame("ready", 1).op = "ready"
          /\ Frame("ready", 1).s = 1
      BY DEF Frame, Frames, GwOps
    <2>5. InOrder(WereRead', gwPipe, 1) /\ AllSent(WereRead', gwPipe, 1)
      BY <1>1 DEF InOrder, NoEvents, AllSent
    <2>6. /\ gwPipe' \in Seq(Frames) /\ InOrder(WereRead', gwPipe', 1)
          /\ AllSent(WereRead', gwPipe', 1) /\ ReadyIsFirst(gwPipe')
      BY <1>1, <2>1, <2>4, <2>5, AddLast
    <2> QED
      BY <1>1, <2>1, <2>3, <2>6 DEF GwInv, GwTypeOK, Unserved
  <1> QED
    BY <1>2, <1>3

\* The goroutines that read keep the numbers and what was read together.
LEMMA GwReadingKeeps ==
    ASSUME GwInv, NEW r \in gwReaders, Reading(r)
    PROVE  GwInv'
  <1>0. gwServer \in GwServers
    BY DEF GwInv, GwTypeOK
  <1>1. CASE Pick(r) \/ HandleEnds(r)
    BY <1>0, <1>1, GwQuietKeeps DEF Pick, HandleEnds, gwSide, gwLoop, gwHistory
  <1>2. CASE ReadFails(r)
    BY <1>0, <1>2, GwQuietKeeps DEF ReadFails, Trigger, Unserved, gwSide, gwHistory
  <1>3. CASE ReadEvent(r)
    BY <1>3, GwPopKeeps DEF ReadEvent, Reads
  <1>4. CASE ReadAck(r)
    BY <1>4, GwPopKeeps DEF ReadAck, Reads, gwSide
  <1>5. CASE ReadForeign(r)
    BY <1>5, GwPopKeeps DEF ReadForeign, Reads
  <1>6. CASE ReadReconnect(r)
    BY <1>6, GwPopKeeps DEF ReadReconnect, Reads, Trigger, Unserved
  <1> QED
    BY <1>1, <1>2, <1>3, <1>4, <1>5, <1>6 DEF Reading

\* reconnectLoop gives the connection up before it makes a new one.
LEMMA GwReconnectingKeeps ==
    ASSUME GwInv, Reconnecting \/ DialFails
    PROVE  GwInv'
  <1>0. gwServer \in GwServers
    BY DEF GwInv, GwTypeOK
  <1>1. CASE CloseOld
    BY <1>1, GwDropKeeps DEF CloseOld, LoopAt, gwSide, gwHistory
  <1>2. CASE LoopTop \/ DialFails
    BY <1>0, <1>2, GwQuietKeeps DEF LoopTop, DialFails, Slept, LoopAt, NextAttempt, Unserved, gwSide, gwHistory
  <1>3. CASE Dial
    <2>1. ~gwServer.joined /\ gwServer = [gwServer EXCEPT !.joined = FALSE]
      BY <1>0, <1>3 DEF Dial, Slept, LoopAt, GwInv, Unserved, GwServers
    <2> QED
      BY <1>3, <2>1, GwDropKeeps DEF Dial, Slept, LoopAt, gwSide, gwHistory
  <1>4. CASE Hello
    BY <1>4, GwPopKeeps DEF Hello, LoopAt, Expected, Unserved, gwSide, gwHistory
  <1>5. CASE WaitFails("hello", "hello") \/ WaitFails("ready", "ready")
    BY <1>5, GwDropKeeps DEF WaitFails, LoopAt, gwSide, gwHistory
  <1>6. CASE SessionFails
    <2>1. ~gwServer.joined
      BY <1>6 DEF SessionFails, LoopAt, GwInv, Unserved
    <2> QED
      BY <1>0, <1>6, <2>1, GwQuietKeeps DEF SessionFails, LoopAt, NextAttempt, Unserved, gwHistory
  <1>7. CASE ReadyComes
    BY <1>7, GwPopKeeps DEF ReadyComes, LoopAt, Expected, Unserved, gwHistory
  <1>8. CASE StartLoops \/ LoopEnds
    BY <1>0, <1>8, GwQuietKeeps DEF StartLoops, LoopEnds, LoopAt, Unserved, gwSide, gwHistory
  <1> QED
    BY <1>1, <1>2, <1>3, <1>4, <1>5, <1>6, <1>7, <1>8, GwResumeKeeps, GwIdentifyKeeps
       DEF Reconnecting

\* Heartbeats, breaks and the stop of the adapter.
LEMMA GwOthersKeep ==
    ASSUME GwInv,
           SessionExpires \/ GwStop \/ Beating \/ \E how \in {"broken", "silent", "asked"} : Break(how)
    PROVE  GwInv'
  <1>0. gwServer \in GwServers
    BY DEF GwInv, GwTypeOK
  <1>1. CASE SessionExpires
    <2>1. gwServer' = [gwServer EXCEPT !.valid = FALSE]
      BY <1>1 DEF SessionExpires
    <2>2. /\ gwServer' \in GwServers /\ gwServer'.sid = gwServer.sid
          /\ gwServer'.sent = gwServer.sent /\ gwServer'.joined = gwServer.joined
      BY <1>0, <2>1 DEF GwServers
    <2> QED
      BY <1>1, <2>2, GwQuietKeeps DEF SessionExpires, gwSide, gwLoop, gwHistory
  <1>2. CASE GwStop
    BY <1>2, GwDropKeeps DEF GwStop, gwSide, gwHistory
  <1>3. CASE BeatSends
    <2>1. CASE gwPipe' = gwPipe
      BY <1>0, <1>3, <2>1, GwQuietKeeps DEF BeatSends, gwSide, gwLoop, gwHistory
    <2>2. CASE gwPipe' = Append(gwPipe, Frame("ack", 0))
      <3>1. Frame("ack", 0) \in Frames /\ Frame("ack", 0).op = "ack"
        BY DEF Frame, Frames, GwOps
      <3> QED
        BY <1>3, <2>2, <3>1, GwAppendKeeps DEF BeatSends, gwSide, gwLoop, gwHistory
    <2> QED
      BY <1>3, <2>1, <2>2 DEF BeatSends
  <1>4. CASE BeatTimesOut
    BY <1>0, <1>4, GwQuietKeeps DEF BeatTimesOut, Trigger, Unserved, gwSide, gwHistory
  <1>5. CASE BeatStops
    BY <1>0, <1>5, GwQuietKeeps DEF BeatStops, gwSide, gwLoop, gwHistory
  <1>6. ASSUME NEW how \in {"broken", "silent", "asked"}, Break(how)
        PROVE  GwInv'
    <2>1. /\ gwServer' = [gwServer EXCEPT !.joined = FALSE]
          /\ UNCHANGED <<gwSeq, gwSession, gwTaken, gwPhase>>
      BY <1>6 DEF Break, gwSide, gwLoop, gwHistory
    <2>2. CASE how = "broken"
      BY <1>6, <2>1, <2>2, GwDropKeeps DEF Break
    <2>3. CASE how = "silent"
      <3>1. /\ gwServer' \in GwServers /\ gwServer'.sid = gwServer.sid
            /\ gwServer'.sent = gwServer.sent /\ ~gwServer'.joined
        BY <1>0, <2>1 DEF GwServers
      <3> QED
        BY <1>6, <2>1, <2>3, <3>1, GwQuietKeeps DEF Break
    <2>4. CASE how = "asked"
      <3>1. Frame("reconnect", 0) \in Frames /\ Frame("reconnect", 0).op = "reconnect"
        BY DEF Frame, Frames, GwOps
      <3> QED
        BY <1>6, <2>1, <2>4, <3>1, GwAppendKeeps DEF Break
    <2> QED
      BY <2>2, <2>3, <2>4
  <1> QED
    BY <1>1, <1>2, <1>3, <1>4, <1>5, <1>6 DEF Beating

\* Every step keeps lastSeq behind what was read.
LEMMA GwNextKeeps == GwInv /\ [GwNext]_gwVars => GwInv'
  <1> SUFFICES ASSUME GwInv, [GwNext]_gwVars
               PROVE  GwInv'
    OBVIOUS
  <1>1. CASE UNCHANGED gwVars
    <2>1. gwServer \in GwServers
      BY DEF GwInv, GwTypeOK
    <2> QED
      BY <1>1, <2>1, GwQuietKeeps DEF gwVars, gwSide, gwLoop, gwHistory
  <1> QED
    BY <1>1, GwEmitKeeps, GwReadingKeeps, GwReconnectingKeeps, GwOthersKeep DEF GwNext

\* A session that can be resumed leaves out only what was read, whichever goroutine read it,
\* however often the connection breaks and whoever asks for the new one.
THEOREM SkipsNothing == GwSpec => []NothingSkipped
  <1>1. GwInit => GwInv
    BY DEF GwInit, GwInv, GwTypeOK, GwServers, InOrder, ReadyIsFirst, AllSent, NoEvents, Unserved
  <1>2. GwInv => NothingSkipped
    <2> SUFFICES ASSUME GwInv, gwSession = gwServer.sid, NEW s \in 2 .. gwServer.sent, s <= gwSeq
                 PROVE  <<gwSession, s>> \in gwTaken
      BY DEF NothingSkipped
    <2>1. gwServer.sent \in Nat /\ gwSeq \in Nat
      BY DEF GwInv, GwTypeOK, GwServers
    <2>2. s \in 2 .. gwSeq
      BY <2>1
    <2> QED
      BY <2>2 DEF GwInv, WereRead
  <1> QED
    BY <1>1, <1>2, GwNextKeeps, PTL DEF GwSpec

-----------------------------------------------------------------------------
(* Delivery: a message is handled once and in order.                       *)

DvItems == [m : Nat, step : {"new", "fetch", "call"}, at : Nat]
DvCalls == [m : Nat, at : Nat, started : Nat, run : Nat]

Ids == 1 .. Len(dvPosts)
Run == dvCount.restarts
IsButton(m) == dvPosts[m].kind = "button"

DvTypeOK ==
    /\ dvOf \in AllAdapters
    /\ dvUp \in BOOLEAN /\ dvClock \in Nat /\ dvStarted \in Nat
    /\ dvPosts \in Seq([kind : {"text", "media", "button"}, born : Nat])
    /\ \A m \in Ids : IsButton(m) => dvOf \in Buttons
    /\ dvBox \subseteq Ids /\ dvFetched \subseteq Ids /\ dvOffset \in Nat
    /\ dvInbox \in Seq(Nat) /\ \A i \in 1 .. Len(dvInbox) : dvInbox[i] \in Ids
    /\ \A m \in DOMAIN dvSeen : dvSeen[m] \in Nat
    /\ dvWork \subseteq DvItems /\ \A w \in dvWork : w.m \in Ids /\ w.at <= dvClock
    /\ dvCount \in [resends : Nat, restarts : Nat]
    /\ dvLog \in Seq(DvCalls)
    /\ \A i \in 1 .. Len(dvLog) : dvLog[i].m \in Ids /\ dvLog[i].at <= dvClock /\ dvLog[i].run <= Run

\* Each adapter has only the queues that it uses, and nothing is in hand while the process
\* is down or has not yet been started again.
DvQueues ==
    /\ dvOf # "telegram" => dvFetched = {}
    /\ dvOf \notin Serial => dvInbox = <<>>
    /\ dvOf \in Serial => \A w, v \in dvWork : w = v
    /\ ~dvUp => /\ dvFetched = {} /\ dvInbox = <<>> /\ dvWork = {}
                /\ \A i \in 1 .. Len(dvLog) : dvLog[i].run < Run

\* What went through the check is not older than the start of its process.
Young(m, started) == IsButton(m) \/ dvPosts[m].born >= started - Grace
NothingOld ==
    /\ \A w \in dvWork : w.step # "new" => Young(w.m, dvStarted)
    /\ \A i \in 1 .. Len(dvLog) : Young(dvLog[i].m, dvLog[i].started)

\* What went through the check at some time is remembered as long as it is younger than TTL.
Checked(w) == w.step # "new" /\ ~IsButton(w.m)
Now(i) == dvLog[i].run = Run
Known(m, at) == dvClock - at <= TTL => m \in DOMAIN dvSeen /\ dvSeen[m] = at
Apart(s, t) == TTL < s - t \/ TTL < t - s
SeenOnce ==
    dvOf \in Remembers =>
        /\ \A w \in dvWork : Checked(w) => Known(w.m, w.at)
        /\ \A i \in 1 .. Len(dvLog) : Now(i) /\ ~IsButton(dvLog[i].m) => Known(dvLog[i].m, dvLog[i].at)
        /\ \A w, v \in dvWork : Checked(w) /\ Checked(v) /\ w.m = v.m /\ w # v => Apart(w.at, v.at)
        /\ \A w \in dvWork : \A i \in 1 .. Len(dvLog) :
             Checked(w) /\ Now(i) /\ w.m = dvLog[i].m => Apart(w.at, dvLog[i].at)
        /\ \A i, j \in 1 .. Len(dvLog) :
             /\ i # j /\ dvLog[i].run = dvLog[j].run
             /\ dvLog[i].m = dvLog[j].m /\ ~IsButton(dvLog[i].m)
             => Apart(dvLog[i].at, dvLog[j].at)

\* What its service does not send again is in one place.
SentOnce(m) == dvOf = "discord" \/ (dvOf = "feishu" /\ IsButton(m))
InOnePlace ==
    /\ \A w \in dvWork : SentOnce(w.m) => w.m \notin dvBox
    /\ \A i \in 1 .. Len(dvLog) : SentOnce(dvLog[i].m) => dvLog[i].m \notin dvBox
    /\ \A w, v \in dvWork : SentOnce(w.m) /\ w.m = v.m => w = v
    /\ \A w \in dvWork : \A i \in 1 .. Len(dvLog) : SentOnce(w.m) => w.m # dvLog[i].m
    /\ \A i, j \in 1 .. Len(dvLog) : i # j /\ SentOnce(dvLog[i].m) => dvLog[i].m # dvLog[j].m

\* Calls, the message in hand, the inbox and what is still to come are in order.
Passed(m) ==
    /\ dvOf = "telegram" => m < dvOffset
    /\ dvOf = "qq" => \A n \in dvBox : m < n
InRow ==
    dvOf \in {"telegram", "qq"} =>
        /\ \A i \in 1 .. Len(dvLog) : Now(i) => Passed(dvLog[i].m)
        /\ \A w \in dvWork : Passed(w.m)
        /\ \A i \in 1 .. Len(dvInbox) : Passed(dvInbox[i])
        /\ \A i, j \in 1 .. Len(dvLog) :
             i < j /\ dvLog[i].run = dvLog[j].run => dvLog[i].m < dvLog[j].m
        /\ \A i \in 1 .. Len(dvLog) : Now(i) =>
             /\ \A w \in dvWork : dvLog[i].m < w.m
             /\ \A j \in 1 .. Len(dvInbox) : dvLog[i].m < dvInbox[j]
        /\ \A w \in dvWork : \A j \in 1 .. Len(dvInbox) : w.m < dvInbox[j]
        /\ \A i, j \in 1 .. Len(dvInbox) : i < j => dvInbox[i] < dvInbox[j]

DvInv == DvTypeOK /\ DvQueues /\ NothingOld /\ SeenOnce /\ InOnePlace /\ InRow

LEMMA DvInitInv == DvInit => DvInv
<1> SUFFICES ASSUME DvInit PROVE DvInv
  OBVIOUS
<1>1. /\ dvOf \in AllAdapters /\ dvUp = FALSE /\ dvClock = 0 /\ dvStarted = 0 /\ dvPosts = <<>>
      /\ dvBox = {} /\ dvOffset = 0 /\ dvFetched = {} /\ dvInbox = <<>> /\ dvSeen = <<>>
      /\ dvWork = {} /\ dvCount = [resends |-> 0, restarts |-> 0] /\ dvLog = <<>>
  BY DeliveryAssumption DEF DvInit
<1>2. \A f : f = <<>> => Len(f) = 0 /\ DOMAIN f = {} /\ 1 .. Len(f) = {} /\ \A S : f \in Seq(S)
  OBVIOUS
<1>3. DvTypeOK
  BY <1>1, <1>2 DEF DvTypeOK, Ids
<1>4. DvQueues /\ NothingOld /\ SeenOnce /\ InOnePlace /\ InRow
  BY <1>1, <1>2 DEF DvQueues, NothingOld, SeenOnce, InOnePlace, InRow
<1> QED BY <1>3, <1>4 DEF DvInv

\* What the steps of the message in hand do to the work and to the calls.
Drops(w) == dvWork' = dvWork \ {w} /\ UNCHANGED dvLog
Proceeds(w) ==
    /\ \E v \in DvItems : v.m = w.m /\ v.step # "new" /\ dvWork' = (dvWork \ {w}) \cup {v}
    /\ UNCHANGED dvLog
Calls(w) ==
    /\ dvWork' = dvWork \ {w}
    /\ dvLog' = Append(dvLog, [m |-> w.m, at |-> w.at, started |-> dvStarted, run |-> Run])
    /\ w.step = "call"

LEMMA HandlingSteps ==
    ASSUME DvTypeOK, NEW w \in dvWork, Handling(w)
    PROVE  /\ Drops(w) \/ Proceeds(w) \/ Calls(w)
           /\ UNCHANGED <<dvOf, dvClock, dvPosts, dvUp, dvStarted, dvOffset, dvFetched, dvBox, dvInbox,
                          dvCount>>
           /\ \A v \in dvWork' \ dvWork : v.m = w.m /\ v.at \in {dvClock, w.at}
<1>0. w \in DvItems /\ dvClock \in Nat
  BY DEF DvTypeOK
<1>1. ASSUME NEW step \in {"fetch", "call"}, NEW at \in {dvClock, w.at}, NEW v,
             v = [w EXCEPT !.step = step, !.at = at]
      PROVE  v \in DvItems /\ v.m = w.m /\ v.step = step /\ v.at = at
  BY <1>0, <1>1 DEF DvItems
<1>2. CASE Check(w)
  <2>1. (\E step \in {"fetch", "call"} : Becomes(w, step)) \/ dvWork' = dvWork \ {w}
    BY <1>2 DEF Check
  <2> QED BY <1>1, <1>2, <2>1 DEF Check, Becomes, Drops, Proceeds, dvService, dvProcess, dvPoll
<1>3. ASSUME NEW found \in BOOLEAN, Fetch(w, found)
      PROVE  /\ Drops(w) \/ Proceeds(w)
             /\ \A v \in dvWork' \ dvWork : v.m = w.m /\ v.at \in {dvClock, w.at}
  <2> DEFINE v == [w EXCEPT !.step = "call"]
  <2>1. v \in DvItems /\ v.m = w.m /\ v.step = "call" /\ v.at = w.at
    BY <1>0 DEF DvItems
  <2>2. dvWork' = dvWork \ {w} \/ dvWork' = (dvWork \ {w}) \cup {v}
    BY <1>3 DEF Fetch
  <2> HIDE DEF v
  <2> QED BY <1>3, <2>1, <2>2 DEF Fetch, Drops, Proceeds
<1>4. CASE AnswerFails(w)
  BY <1>4 DEF AnswerFails, Drops, dvService, dvProcess, dvPoll
<1>5. CASE CallHandler(w)
  BY <1>5 DEF CallHandler, Calls, Run, dvService, dvProcess, dvPoll
<1>6. UNCHANGED <<dvOf, dvClock, dvPosts, dvUp, dvStarted, dvOffset, dvFetched, dvBox, dvInbox, dvCount>>
  BY DEF Handling, Check, AnswerFails, CallHandler, Fetch, dvService, dvProcess, dvPoll
<1> QED BY <1>2, <1>3, <1>4, <1>5, <1>6 DEF Handling

\* A new message in hand.
LEMMA NewItem ==
    ASSUME NEW m \in Nat, dvClock \in Nat
    PROVE  LET v == [m |-> m, step |-> "new", at |-> dvClock]
           IN  v \in DvItems /\ v.m = m /\ v.step = "new" /\ v.at = dvClock
  BY DEF DvItems

\* Nothing but a call changes the calls.
LEMMA CallAppended ==
    ASSUME DvTypeOK, NEW w \in dvWork, Calls(w)
    PROVE  /\ Len(dvLog') = Len(dvLog) + 1 /\ Len(dvLog) \in Nat
           /\ \A i \in 1 .. Len(dvLog) : dvLog'[i] = dvLog[i] /\ i # Len(dvLog) + 1
           /\ dvLog' \in Seq(DvCalls)
           /\ \A i \in 1 .. Len(dvLog') : i \in 1 .. Len(dvLog) \/ i = Len(dvLog')
           /\ LET c == dvLog'[Len(dvLog')]
              IN  c.m = w.m /\ c.at = w.at /\ c.started = dvStarted /\ c.run = Run
<1> DEFINE c == [m |-> w.m, at |-> w.at, started |-> dvStarted, run |-> Run]
<1>1. c \in DvCalls /\ dvLog \in Seq(DvCalls)
  BY DEF DvTypeOK, DvCalls, DvItems, Run
<1>2. dvLog' = Append(dvLog, c)
  BY DEF Calls
<1>3. c.m = w.m /\ c.at = w.at /\ c.started = dvStarted /\ c.run = Run
  OBVIOUS
<1> HIDE DEF c
<1>4. /\ dvLog' \in Seq(DvCalls) /\ Len(dvLog') = Len(dvLog) + 1 /\ Len(dvLog) \in Nat
      /\ \A i \in 1 .. Len(dvLog) : dvLog'[i] = dvLog[i]
      /\ dvLog'[Len(dvLog')] = c
  BY <1>1, <1>2, AppendProperties
<1> QED BY <1>3, <1>4

\* A delivery joins the inbox or the work.
LEMMA DeliveredTo ==
    ASSUME DvTypeOK, NEW m \in Ids, Delivered(m)
    PROVE  /\ dvOf \in Serial =>
                /\ UNCHANGED dvWork /\ dvInbox' \in Seq(Nat) /\ Len(dvInbox') = Len(dvInbox) + 1
                /\ \A i \in 1 .. Len(dvInbox) : dvInbox'[i] = dvInbox[i]
                /\ dvInbox'[Len(dvInbox')] = m /\ Len(dvInbox) \in Nat
           /\ dvOf \notin Serial =>
                /\ UNCHANGED dvInbox
                /\ \E v \in DvItems : /\ v.m = m /\ v.step = "new" /\ v.at = dvClock
                                      /\ dvWork' = dvWork \cup {v}
<1>1. m \in Nat /\ dvInbox \in Seq(Nat) /\ dvClock \in Nat
  BY DEF DvTypeOK, Ids
<1>2. CASE dvOf \in Serial
  <2>1. dvInbox' = Append(dvInbox, m) /\ UNCHANGED dvWork
    BY <1>2 DEF Delivered
  <2> QED BY <1>1, <1>2, <2>1, AppendProperties
<1>3. CASE dvOf \notin Serial
  <2>1. dvWork' = dvWork \cup {[m |-> m, step |-> "new", at |-> dvClock]} /\ UNCHANGED dvInbox
    BY <1>3 DEF Delivered
  <2> QED BY <1>1, <1>3, <2>1, NewItem
<1> QED BY <1>2, <1>3

\* The first of the inbox becomes the message in hand.
LEMMA TakenNext ==
    ASSUME DvTypeOK, TakeNext
    PROVE  /\ Len(dvInbox) \in Nat \ {0} /\ dvInbox' \in Seq(Nat) /\ Len(dvInbox') = Len(dvInbox) - 1
           /\ \A i \in 1 .. Len(dvInbox') : dvInbox'[i] = dvInbox[i + 1]
           /\ dvInbox[1] \in Ids /\ dvWork = {}
           /\ \E v \in DvItems : /\ v.m = dvInbox[1] /\ v.step = "new" /\ v.at = dvClock
                                 /\ dvWork' = {v}
<1>1. dvInbox \in Seq(Nat) /\ dvInbox # <<>> /\ dvClock \in Nat
  BY DEF DvTypeOK, TakeNext
<1>2. /\ Len(dvInbox) \in Nat \ {0} /\ Head(dvInbox) = dvInbox[1]
      /\ Tail(dvInbox) \in Seq(Nat) /\ Len(Tail(dvInbox)) = Len(dvInbox) - 1
      /\ \A i \in 1 .. Len(Tail(dvInbox)) : Tail(dvInbox)[i] = dvInbox[i + 1]
  BY <1>1, EmptySeq, HeadTailProperties
<1>3. dvInbox[1] \in Ids /\ dvInbox[1] \in Nat
  BY <1>2 DEF DvTypeOK, Ids
<1> QED BY <1>1, <1>2, <1>3, NewItem DEF TakeNext

\* The posts so far stay as they are.
LEMMA PostsGrow ==
    ASSUME DvTypeOK, NEW kind \in Kinds, Post(kind)
    PROVE  /\ Len(dvPosts') = Len(dvPosts) + 1 /\ Len(dvPosts) \in Nat
           /\ \A m \in Ids : dvPosts'[m] = dvPosts[m] /\ m \in Ids'
           /\ dvPosts' \in Seq([kind : {"text", "media", "button"}, born : Nat])
           /\ dvPosts'[Len(dvPosts')].kind = kind
           /\ dvBox' \subseteq dvBox \cup {Len(dvPosts')}
           /\ dvBox \subseteq dvBox' /\ Len(dvPosts') \notin Ids /\ Ids' = Ids \cup {Len(dvPosts')}
<1> DEFINE p == [kind |-> kind, born |-> dvClock]
           P == [kind : {"text", "media", "button"}, born : Nat]
<1>1. p \in P /\ p.kind = kind
  BY DEF DvTypeOK, Kinds
<1>2. dvPosts' = Append(dvPosts, p) /\ dvPosts \in Seq(P)
  BY DEF Post, DvTypeOK
<1> HIDE DEF p, P
<1>3. /\ Len(dvPosts') = Len(dvPosts) + 1 /\ Len(dvPosts) \in Nat
      /\ \A m \in 1 .. Len(dvPosts) : dvPosts'[m] = dvPosts[m]
      /\ dvPosts' \in Seq(P) /\ dvPosts'[Len(dvPosts')] = p
  BY <1>1, <1>2, AppendProperties
<1>4. dvBox' \subseteq dvBox \cup {Len(dvPosts')} /\ dvBox \subseteq dvBox'
  BY <1>3 DEF Post
<1> QED BY <1>1, <1>3, <1>4 DEF Ids, P

LEMMA DvTypeStep ==
    ASSUME DvTypeOK, DvNext
    PROVE  DvTypeOK'
<1>0. /\ dvClock \in Nat /\ dvCount \in [resends : Nat, restarts : Nat] /\ Run \in Nat
      /\ \A i \in 1 .. Len(dvLog) : dvLog[i].at \in Nat /\ dvLog[i].run \in Nat
      /\ \A w \in dvWork : w.at \in Nat
  <2>1. dvClock \in Nat /\ dvCount \in [resends : Nat, restarts : Nat] /\ Run \in Nat
    BY DEF DvTypeOK, Run
  <2>2. \A w \in dvWork : w.at \in Nat
    BY DEF DvTypeOK, DvItems
  <2>3. dvLog \in Seq(DvCalls)
    BY DEF DvTypeOK
  <2>4. \A i \in 1 .. Len(dvLog) : dvLog[i] \in DvCalls
    BY <2>3, ElementOfSeq
  <2> QED BY <2>1, <2>2, <2>4 DEF DvCalls
<1>00. /\ dvInbox \in Seq(Nat) /\ \A i \in 1 .. Len(dvInbox) : dvInbox[i] \in Ids
       /\ dvWork \subseteq DvItems /\ \A w \in dvWork : w.m \in Ids /\ w.at <= dvClock
       /\ dvLog \in Seq(DvCalls)
       /\ \A i \in 1 .. Len(dvLog) :
            dvLog[i].m \in Ids /\ dvLog[i].at <= dvClock /\ dvLog[i].run <= Run
  BY DEF DvTypeOK
<1>1. CASE DvTick
  BY <1>0, <1>1 DEF DvTick, DvTypeOK, Ids, Run, IsButton, dvProcess, dvPoll
<1>2. CASE DvCrash
  <2>1. Run' = Run + 1 /\ dvCount' \in [resends : Nat, restarts : Nat]
    BY <1>0, <1>2 DEF DvCrash, Run
  <2>2. /\ dvUp' = FALSE /\ dvOffset' = 0 /\ dvFetched' = {} /\ dvInbox' = <<>> /\ dvSeen' = <<>>
        /\ dvWork' = {} /\ UNCHANGED <<dvOf, dvClock, dvPosts, dvStarted, dvBox, dvLog>>
    BY <1>2 DEF DvCrash, dvService
  <2>3. dvInbox' \in Seq(Nat) /\ Len(dvInbox') = 0 /\ DOMAIN dvSeen' = {}
    BY <2>2
  <2>4. Ids' = Ids /\ (\A m \in Ids : IsButton(m)' <=> IsButton(m)) /\ Buttons' = Buttons
    BY <2>2 DEF Ids, IsButton, Buttons
  <2>5. \A i \in 1 .. Len(dvLog') : dvLog'[i].m \in Ids /\ dvLog'[i].at <= dvClock /\ dvLog'[i].run <= Run'
    <3>1. dvLog' = dvLog
      BY <2>2
    <3>2. ASSUME NEW i \in 1 .. Len(dvLog)
          PROVE  dvLog[i].m \in Ids /\ dvLog[i].at <= dvClock /\ dvLog[i].run <= Run'
      <4>1. dvLog[i].m \in Ids /\ dvLog[i].at <= dvClock /\ dvLog[i].run <= Run
        BY <1>00
      <4>2. Run \in Nat /\ dvLog[i].run \in Nat
        BY <1>0
      <4> QED BY <2>1, <4>1, <4>2
    <3> QED BY <3>1, <3>2
  <2>6. dvOf \in AllAdapters /\ dvBox \subseteq Ids /\ dvStarted \in Nat
        /\ dvPosts \in Seq([kind : {"text", "media", "button"}, born : Nat])
        /\ \A m \in Ids : IsButton(m) => dvOf \in Buttons
    BY DEF DvTypeOK
  <2>7. /\ dvOf' \in AllAdapters /\ dvUp' \in BOOLEAN /\ dvClock' \in Nat /\ dvStarted' \in Nat
        /\ dvPosts' \in Seq([kind : {"text", "media", "button"}, born : Nat])
        /\ dvBox' \subseteq Ids' /\ dvFetched' \subseteq Ids' /\ dvOffset' \in Nat
    BY <1>0, <2>2, <2>4, <2>6
  <2>8. /\ \A m \in Ids' : IsButton(m)' => dvOf' \in Buttons'
        /\ \A i \in 1 .. Len(dvInbox') : dvInbox'[i] \in Ids'
        /\ \A i \in 1 .. Len(dvLog') :
             dvLog'[i].m \in Ids' /\ dvLog'[i].at <= dvClock' /\ dvLog'[i].run <= Run'
    BY <2>2, <2>3, <2>4, <2>5, <2>6
  <2>9. dvLog' \in Seq(DvCalls) /\ dvWork' = {}
    BY <1>00, <2>2
  <2> QED BY <2>1, <2>3, <2>7, <2>8, <2>9 DEF DvTypeOK
<1>3. ASSUME NEW kind \in Kinds, Post(kind) PROVE DvTypeOK'
  <2>1. /\ UNCHANGED <<dvOf, dvClock, dvUp, dvStarted, dvOffset, dvFetched, dvInbox, dvSeen, dvWork,
                       dvCount, dvLog>>
    BY <1>3 DEF Post, dvProcess, dvPoll
  <2>2. \A m \in Ids' : IsButton(m)' => dvOf' \in Buttons'
    BY <1>3, <2>1, PostsGrow DEF DvTypeOK, IsButton, Kinds, Buttons
  <2> QED BY <1>3, <2>1, <2>2, PostsGrow DEF DvTypeOK, Run
<1>4. ASSUME NEW drained \in BOOLEAN, StartAdapter(drained) PROVE DvTypeOK'
  <2>1. dvBox' \subseteq dvBox /\ dvUp' = TRUE /\ dvStarted' = dvClock
        /\ UNCHANGED <<dvOf, dvClock, dvPosts, dvOffset, dvFetched, dvInbox, dvSeen, dvWork, dvCount,
                       dvLog>>
    BY <1>4 DEF StartAdapter, dvService, dvPoll
  <2> QED BY <2>1 DEF DvTypeOK, Ids, IsButton, Run
<1>5. ASSUME NEW m \in Ids, Delivered(m),
             UNCHANGED <<dvOf, dvClock, dvPosts, dvUp, dvStarted, dvSeen, dvLog>>,
             dvBox' \subseteq dvBox, dvFetched' \subseteq dvFetched, dvOffset' \in Nat,
             Run' = Run, dvCount' \in [resends : Nat, restarts : Nat]
      PROVE  DvTypeOK'
  <2>1. dvInbox' \in Seq(Nat) /\ \A i \in 1 .. Len(dvInbox') : dvInbox'[i] \in Ids
    <3>1. CASE dvOf \in Serial
      <4>1. /\ dvInbox' \in Seq(Nat) /\ Len(dvInbox') = Len(dvInbox) + 1 /\ Len(dvInbox) \in Nat
            /\ \A i \in 1 .. Len(dvInbox) : dvInbox'[i] = dvInbox[i]
            /\ dvInbox'[Len(dvInbox')] = m
        BY <1>5, <3>1, DeliveredTo
      <4>2. \A i \in 1 .. Len(dvInbox') : i \in 1 .. Len(dvInbox) \/ i = Len(dvInbox')
        BY <4>1
      <4> QED BY <1>00, <4>1, <4>2
    <3>2. CASE dvOf \notin Serial
      BY <1>00, <1>5, <3>2, DeliveredTo
    <3> QED BY <3>1, <3>2
  <2>2. dvWork' \subseteq DvItems /\ \A w \in dvWork' : w.m \in Ids /\ w.at <= dvClock
    BY <1>0, <1>00, <1>5, DeliveredTo
  <2> QED BY <1>5, <2>1, <2>2 DEF DvTypeOK, Ids, IsButton
<1>6. ASSUME NEW m \in dvBox, NEW acked \in BOOLEAN, Deliver(m, acked) PROVE DvTypeOK'
  <2>1. Run' = Run /\ dvCount' \in [resends : Nat, restarts : Nat]
    BY <1>0, <1>6 DEF Deliver, Run
  <2>2. /\ m \in Ids /\ Delivered(m) /\ dvBox' \subseteq dvBox /\ dvFetched' \subseteq dvFetched
        /\ UNCHANGED <<dvOf, dvClock, dvPosts, dvUp, dvStarted, dvSeen, dvLog>> /\ dvOffset' \in Nat
    BY <1>6 DEF Deliver, DvTypeOK, dvService, dvProcess, dvPoll
  <2> QED BY <1>5, <2>1, <2>2
<1>7. ASSUME NEW fails \in BOOLEAN, Poll(fails) PROVE DvTypeOK'
  <2>1. dvBox' \subseteq dvBox /\ dvFetched' \subseteq dvBox
        /\ UNCHANGED <<dvOf, dvClock, dvPosts, dvUp, dvStarted, dvOffset, dvInbox, dvSeen, dvWork,
                       dvCount, dvLog>>
    BY <1>7 DEF Poll, dvService, dvProcess
  <2> QED BY <2>1 DEF DvTypeOK, Ids, IsButton, Run
<1>8. CASE PollPushes
  <2>1. PICK m \in dvFetched :
          /\ dvFetched' = dvFetched \ {m}
          /\ \/ UNCHANGED <<dvOffset, dvInbox, dvWork>>
             \/ dvOffset' = m + 1 /\ Delivered(m)
    BY <1>8 DEF PollPushes
  <2>2. m \in Ids /\ m \in Nat
        /\ UNCHANGED <<dvOf, dvClock, dvPosts, dvUp, dvStarted, dvBox, dvSeen, dvCount, dvLog>>
    BY <1>8 DEF PollPushes, DvTypeOK, Ids, dvService, dvProcess
  <2>3. CASE UNCHANGED <<dvOffset, dvInbox, dvWork>>
    BY <2>1, <2>2, <2>3 DEF DvTypeOK, Ids, IsButton, Run
  <2>4. CASE dvOffset' = m + 1 /\ Delivered(m)
    BY <1>0, <1>5, <2>1, <2>2, <2>4 DEF Run
  <2> QED BY <2>1, <2>3, <2>4
<1>9. CASE TakeNext
  <2>1. UNCHANGED <<dvOf, dvClock, dvPosts, dvUp, dvStarted, dvOffset, dvFetched, dvBox, dvSeen, dvCount,
                    dvLog>>
    BY <1>9 DEF TakeNext, dvService, dvProcess, dvPoll
  <2>2. dvInbox' \in Seq(Nat) /\ \A i \in 1 .. Len(dvInbox') : dvInbox'[i] \in Ids
    <3>1. /\ Len(dvInbox) \in Nat \ {0} /\ dvInbox' \in Seq(Nat) /\ Len(dvInbox') = Len(dvInbox) - 1
          /\ \A i \in 1 .. Len(dvInbox') : dvInbox'[i] = dvInbox[i + 1]
      BY <1>9, TakenNext
    <3>2. \A i \in 1 .. Len(dvInbox') : i + 1 \in 1 .. Len(dvInbox)
      BY <3>1
    <3> QED BY <1>00, <3>1, <3>2
  <2>3. dvWork' \subseteq DvItems /\ \A w \in dvWork' : w.m \in Ids /\ w.at <= dvClock
    BY <1>0, <1>9, TakenNext
  <2> QED BY <2>1, <2>2, <2>3 DEF DvTypeOK, Ids, IsButton, Run
<1>10. ASSUME NEW w \in dvWork, Handling(w) PROVE DvTypeOK'
  <2>1. \A m \in DOMAIN dvSeen' : dvSeen'[m] \in Nat
    <3>1. UNCHANGED dvSeen \/ Remember(w.m)
      BY <1>10 DEF Handling, Check, Fetch, AnswerFails, CallHandler
    <3> QED BY <1>0, <3>1 DEF Remember, Remembered, DvTypeOK
  <2>2. dvWork' \subseteq DvItems /\ \A v \in dvWork' : v.m \in Ids /\ v.at <= dvClock
    <3>1. \A v \in dvWork' : v \in DvItems
      BY <1>00, <1>10, HandlingSteps DEF Drops, Proceeds, Calls
    <3>2. ASSUME NEW v \in dvWork' PROVE v.m \in Ids /\ v.at <= dvClock
      <4>1. v \in dvWork \/ (v.m = w.m /\ v.at \in {dvClock, w.at})
        BY <1>10, <3>2, HandlingSteps
      <4> QED BY <1>0, <1>00, <1>10, <4>1
    <3> QED BY <3>1, <3>2
  <2>3. /\ dvLog' \in Seq(DvCalls)
        /\ \A i \in 1 .. Len(dvLog') : dvLog'[i].m \in Ids /\ dvLog'[i].at <= dvClock /\ dvLog'[i].run <= Run
    <3>1. CASE UNCHANGED dvLog
      BY <3>1 DEF DvTypeOK
    <3>2. CASE Calls(w)
      <4>1. /\ \A i \in 1 .. Len(dvLog) : dvLog'[i] = dvLog[i]
            /\ dvLog' \in Seq(DvCalls)
            /\ \A i \in 1 .. Len(dvLog') : i \in 1 .. Len(dvLog) \/ i = Len(dvLog')
            /\ LET c == dvLog'[Len(dvLog')] IN c.m = w.m /\ c.at = w.at /\ c.run = Run
        BY <1>10, <3>2, CallAppended
      <4>2. w.m \in Ids /\ w.at <= dvClock /\ Run <= Run
        BY <1>0, <1>00, <1>10
      <4> QED BY <1>00, <4>1, <4>2
    <3> QED BY <1>10, <3>1, <3>2, HandlingSteps DEF Drops, Proceeds
  <2> QED BY <1>10, <2>1, <2>2, <2>3, HandlingSteps DEF DvTypeOK, Ids, IsButton, Run
<1> QED BY <1>1, <1>2, <1>3, <1>4, <1>6, <1>7, <1>8, <1>9, <1>10 DEF DvNext

LEMMA DvFacts ==
    ASSUME DvTypeOK
    PROVE  /\ dvClock \in Nat /\ dvStarted \in Nat /\ Run \in Nat /\ dvOffset \in Nat
           /\ dvBox \subseteq Ids /\ dvFetched \subseteq Ids /\ Ids \subseteq Nat
           /\ dvInbox \in Seq(Nat) /\ Len(dvInbox) \in Nat
           /\ \A i \in 1 .. Len(dvInbox) : dvInbox[i] \in Ids
           /\ \A w \in dvWork : w.m \in Ids /\ w.at \in Nat /\ w.at <= dvClock
           /\ Len(dvLog) \in Nat
           /\ \A i \in 1 .. Len(dvLog) :
                /\ dvLog[i].m \in Ids /\ dvLog[i].at \in Nat /\ dvLog[i].at <= dvClock
                /\ dvLog[i].run \in Nat /\ dvLog[i].run <= Run
           /\ \A m \in Ids : dvPosts[m].born \in Nat
<1>1. dvClock \in Nat /\ dvStarted \in Nat /\ Run \in Nat /\ dvOffset \in Nat
  BY DEF DvTypeOK, Run
<1>2. dvBox \subseteq Ids /\ dvFetched \subseteq Ids /\ Ids \subseteq Nat
  BY DEF DvTypeOK, Ids
<1>3. dvInbox \in Seq(Nat) /\ \A i \in 1 .. Len(dvInbox) : dvInbox[i] \in Ids
  BY DEF DvTypeOK
<1>4. \A w \in dvWork : w.m \in Ids /\ w.at \in Nat /\ w.at <= dvClock
  BY DEF DvTypeOK, DvItems
<1>5. /\ dvLog \in Seq(DvCalls)
      /\ \A i \in 1 .. Len(dvLog) : dvLog[i].m \in Ids /\ dvLog[i].at <= dvClock /\ dvLog[i].run <= Run
  BY DEF DvTypeOK
<1>6. \A i \in 1 .. Len(dvLog) : dvLog[i] \in DvCalls
  BY <1>5, ElementOfSeq
<1>7. dvPosts \in Seq([kind : {"text", "media", "button"}, born : Nat])
  BY DEF DvTypeOK
<1>8. \A m \in Ids : dvPosts[m] \in [kind : {"text", "media", "button"}, born : Nat]
  BY <1>7, ElementOfSeq DEF Ids
<1>9. \A m \in Ids : dvPosts[m].born \in Nat
  BY <1>8
<1>10. \A i \in 1 .. Len(dvLog) : dvLog[i].at \in Nat /\ dvLog[i].run \in Nat
  BY <1>6 DEF DvCalls
<1>11. Len(dvLog) \in Nat /\ Len(dvInbox) \in Nat
  BY <1>3, <1>5, LenProperties
<1> QED BY <1>1, <1>2, <1>3, <1>4, <1>5, <1>9, <1>10, <1>11

\* What the check lets through, and what it remembers of it.
PassesOn(w, v) ==
    /\ v \in DvItems /\ v.m = w.m /\ v.step # "new" /\ dvWork' = (dvWork \ {w}) \cup {v}
    /\ UNCHANGED dvLog
    /\ \/ w.step = "fetch" /\ v.at = w.at /\ UNCHANGED dvSeen
       \/ w.step = "new" /\ IsButton(w.m) /\ UNCHANGED dvSeen
       \/ w.step = "new" /\ Passes(w.m) /\ v.at = dvClock /\ Remember(w.m)

LEMMA CheckCases ==
    ASSUME DvTypeOK, NEW w \in dvWork, Handling(w)
    PROVE  \/ Drops(w) /\ (UNCHANGED dvSeen \/ Remember(w.m))
           \/ Calls(w) /\ UNCHANGED dvSeen
           \/ \E v \in DvItems : PassesOn(w, v)
<1>0. w \in DvItems /\ dvClock \in Nat
  BY DEF DvTypeOK
<1>1. ASSUME NEW step \in {"fetch", "call"}, NEW at \in {dvClock, w.at}, NEW v,
             v = [w EXCEPT !.step = step, !.at = at]
      PROVE  v \in DvItems /\ v.m = w.m /\ v.step = step /\ v.at = at
  BY <1>0, <1>1 DEF DvItems
<1>2. CASE Check(w)
  <2>1. CASE dvWork' = dvWork \ {w}
    BY <1>2, <2>1 DEF Check, Drops
  <2>2. ASSUME NEW step \in {"fetch", "call"}, Becomes(w, step),
               \/ IsButton(w.m) /\ UNCHANGED dvSeen
               \/ Passes(w.m) /\ Remember(w.m)
        PROVE  \E v \in DvItems : PassesOn(w, v)
    <3> DEFINE v == [w EXCEPT !.step = step, !.at = dvClock]
    <3>1. v \in DvItems /\ v.m = w.m /\ v.step = step /\ v.at = dvClock
      BY <1>1
    <3>2. dvWork' = (dvWork \ {w}) \cup {v}
      BY <2>2 DEF Becomes
    <3> HIDE DEF v
    <3>3. UNCHANGED dvLog /\ w.step = "new"
      BY <1>2 DEF Check
    <3> QED BY <2>2, <3>1, <3>2, <3>3 DEF PassesOn
  <2>3. CASE IsButton(w.m)
    <3>1. Becomes(w, "call") /\ UNCHANGED dvSeen
      BY <1>2, <2>3 DEF Check, IsButton
    <3> QED BY <2>2, <2>3, <3>1
  <2>4. CASE ~IsButton(w.m) /\ Passes(w.m)
    <3>1. (Becomes(w, "call") \/ Becomes(w, "fetch")) /\ Remember(w.m)
      BY <1>2, <2>4 DEF Check, IsButton, Passes
    <3> QED BY <2>2, <2>4, <3>1
  <2>5. CASE ~IsButton(w.m) /\ ~Passes(w.m)
    BY <1>2, <2>1, <2>5 DEF Check, IsButton
  <2> QED BY <2>3, <2>4, <2>5
<1>3. ASSUME NEW found \in BOOLEAN, Fetch(w, found)
      PROVE  (Drops(w) /\ UNCHANGED dvSeen) \/ \E v \in DvItems : PassesOn(w, v)
  <2> DEFINE v == [w EXCEPT !.step = "call"]
  <2>1. v \in DvItems /\ v.m = w.m /\ v.step = "call" /\ v.at = w.at
    BY <1>0 DEF DvItems
  <2>2. dvWork' = dvWork \ {w} \/ dvWork' = (dvWork \ {w}) \cup {v}
    BY <1>3 DEF Fetch
  <2> HIDE DEF v
  <2> QED BY <1>3, <2>1, <2>2 DEF Fetch, Drops, PassesOn
<1>4. CASE AnswerFails(w)
  BY <1>4 DEF AnswerFails, Drops
<1>5. CASE CallHandler(w)
  BY <1>5 DEF CallHandler, Calls, Run
<1> QED BY <1>2, <1>3, <1>4, <1>5 DEF Handling

LEMMA QueuesStep ==
    ASSUME DvTypeOK, DvQueues, DvNext
    PROVE  DvQueues'
<1> USE DEF DvQueues
<1>1. CASE DvTick \/ \E kind \in Kinds : Post(kind)
  BY <1>1 DEF DvTick, Post, dvProcess, dvPoll, Run, Serial
<1>2. CASE DvCrash
  <2>1. \A i \in 1 .. Len(dvLog') : dvLog'[i].run < Run'
    <3>1. dvLog' = dvLog /\ Run' = Run + 1
      BY <1>2 DEF DvCrash, DvTypeOK, Run
    <3> QED BY <3>1, DvFacts
  <2> QED BY <1>2, <2>1 DEF DvCrash
<1>3. CASE \E drained \in BOOLEAN : StartAdapter(drained)
  BY <1>3 DEF StartAdapter, dvService, dvPoll, Serial
<1>4. ASSUME NEW m \in dvBox, NEW acked \in BOOLEAN, Deliver(m, acked) PROVE DvQueues'
  <2>1. m \in Ids /\ Delivered(m) /\ dvUp' = TRUE /\ UNCHANGED <<dvOf, dvFetched>>
    BY <1>4, DvFacts DEF Deliver, dvService, dvProcess, dvPoll, DvTypeOK
  <2> QED BY <2>1 DEF Delivered, Serial
<1>5. ASSUME NEW fails \in BOOLEAN, Poll(fails) PROVE DvQueues'
  BY <1>5 DEF Poll, dvService, dvProcess, Serial
<1>6. CASE PollPushes
  <2>1. dvOf = "telegram" /\ dvUp /\ UNCHANGED <<dvOf, dvUp>>
    BY <1>6 DEF PollPushes, dvService, dvProcess
  <2>2. UNCHANGED dvWork
    BY <1>6, <2>1 DEF PollPushes, Delivered, Serial
  <2> QED BY <2>1, <2>2 DEF Serial
<1>7. CASE TakeNext
  <2>1. dvOf \in Serial /\ dvUp /\ UNCHANGED <<dvOf, dvUp, dvFetched>>
    BY <1>7 DEF TakeNext, dvService, dvProcess, dvPoll
  <2>2. \A w, v \in dvWork' : w = v
    BY <1>7 DEF TakeNext
  <2> QED BY <2>1, <2>2 DEF Serial
<1>8. ASSUME NEW w \in dvWork, Handling(w) PROVE DvQueues'
  <2>1. dvUp /\ UNCHANGED <<dvOf, dvUp, dvFetched, dvInbox>>
    BY <1>8, HandlingSteps
  <2>2. (\A u, v \in dvWork : u = v) => \A u, v \in dvWork' : u = v
    <3>1. dvWork' = dvWork \ {w} \/ \E v : dvWork' = (dvWork \ {w}) \cup {v}
      BY <1>8, HandlingSteps DEF Drops, Proceeds, Calls
    <3>2. ASSUME \A u, v \in dvWork : u = v PROVE dvWork \ {w} = {}
      BY <3>2
    <3> QED BY <3>1, <3>2
  <2> QED BY <2>1, <2>2 DEF Serial
<1> QED BY <1>1, <1>2, <1>3, <1>4, <1>5, <1>6, <1>7, <1>8 DEF DvNext

\* What is known of a post stays known.
LEMMA PostsKept ==
    ASSUME DvTypeOK, DvNext
    PROVE  \A m \in Ids : dvPosts'[m] = dvPosts[m] /\ (IsButton(m)' <=> IsButton(m))
<1>1. dvPosts' = dvPosts \/ \E kind \in Kinds : Post(kind)
  BY HandlingSteps DEF DvNext, DvTick, DvCrash, PollPushes, TakeNext, StartAdapter, Deliver, Poll, dvService
<1> QED BY <1>1, PostsGrow DEF IsButton

\* The steps, as seen by the work and the calls.
WorkNew(m) ==
    /\ \E v \in DvItems : v.m = m /\ v.step = "new" /\ v.at = dvClock /\ dvWork' = dvWork \cup {v}
    /\ UNCHANGED <<dvLog, dvSeen, dvClock, dvStarted, dvUp>> /\ Run' = Run

LEMMA WorkSteps ==
    ASSUME DvTypeOK, DvQueues, DvNext
    PROVE  \/ UNCHANGED <<dvWork, dvLog, dvSeen, dvStarted>> /\ Run' = Run /\ dvClock <= dvClock'
           \/ UNCHANGED <<dvWork, dvLog, dvSeen, dvClock>> /\ Run' = Run /\ ~dvUp
           \/ DvCrash
           \/ \E m \in dvBox, acked \in BOOLEAN :
                dvOf \notin Serial /\ Deliver(m, acked) /\ WorkNew(m) /\ UNCHANGED dvInbox
           \/ TakeNext /\ WorkNew(dvInbox[1]) /\ dvWork = {}
           \/ \E w \in dvWork : Handling(w) /\ UNCHANGED <<dvClock, dvStarted, dvUp>> /\ Run' = Run
<1>0. dvClock \in Nat
  BY DEF DvTypeOK
<1>1. CASE DvTick \/ \E kind \in Kinds : Post(kind)
  <2>1. dvClock' = dvClock + 1 \/ dvClock' = dvClock
    BY <1>1 DEF DvTick, Post
  <2>2. UNCHANGED <<dvWork, dvLog, dvSeen, dvStarted>> /\ Run' = Run
    BY <1>1 DEF DvTick, Post, dvProcess, Run
  <2>3. dvClock <= dvClock'
    BY <1>0, <2>1
  <2> QED BY <2>2, <2>3
<1>2. CASE \E drained \in BOOLEAN : StartAdapter(drained)
  BY <1>2 DEF StartAdapter, dvService, Run
<1>3. ASSUME NEW m \in dvBox, NEW acked \in BOOLEAN, Deliver(m, acked)
      PROVE  \/ UNCHANGED <<dvWork, dvLog, dvSeen, dvStarted>> /\ Run' = Run /\ dvClock <= dvClock'
             \/ dvOf \notin Serial /\ WorkNew(m) /\ UNCHANGED dvInbox
  <2>1. /\ UNCHANGED <<dvLog, dvSeen, dvStarted, dvClock, dvUp>> /\ Delivered(m) /\ m \in Ids
        /\ dvClock <= dvClock'
    BY <1>0, <1>3, DvFacts DEF Deliver, dvService, dvProcess
  <2>2. Run' = Run
    BY <1>3 DEF Deliver, Run, DvTypeOK
  <2>3. CASE dvOf \in Serial
    BY <2>1, <2>2, <2>3, DeliveredTo
  <2>4. CASE dvOf \notin Serial
    BY <2>1, <2>2, <2>4, DeliveredTo DEF WorkNew
  <2> QED BY <2>3, <2>4
<1>4. CASE \E fails \in BOOLEAN : Poll(fails)
  BY <1>0, <1>4 DEF Poll, dvService, dvProcess, Run
<1>5. CASE PollPushes /\ dvOf = "telegram"
  BY <1>0, <1>5 DEF PollPushes, Delivered, Serial, dvService, dvProcess, Run
<1>6. CASE TakeNext
  <2>1. UNCHANGED <<dvLog, dvSeen, dvClock, dvStarted, dvUp>> /\ Run' = Run
    BY <1>6 DEF TakeNext, dvService, dvProcess, Run
  <2> QED BY <1>6, <2>1, TakenNext DEF WorkNew
<1>7. ASSUME NEW w \in dvWork, Handling(w)
      PROVE  UNCHANGED <<dvClock, dvStarted, dvUp>> /\ Run' = Run
  BY <1>7, HandlingSteps DEF Run
<1>8. PollPushes => dvOf = "telegram"
  BY DEF PollPushes, DvQueues
<1> QED BY <1>1, <1>2, <1>3, <1>4, <1>5, <1>6, <1>7, <1>8 DEF DvNext

LEMMA OldStep ==
    ASSUME DvTypeOK, DvQueues, NothingOld, DvNext
    PROVE  NothingOld'
<1>1. \A m \in Ids : \A s : Young(m, s)' <=> Young(m, s)
  BY PostsKept DEF Young
<1>2. /\ \A w \in dvWork : w.m \in Ids
      /\ \A i \in 1 .. Len(dvLog) : dvLog[i].m \in Ids
  BY DvFacts
<1>3. CASE UNCHANGED <<dvWork, dvLog, dvStarted>>
  BY <1>1, <1>2, <1>3 DEF NothingOld
<1>4. CASE UNCHANGED <<dvWork, dvLog>> /\ ~dvUp
  BY <1>1, <1>2, <1>4 DEF NothingOld, DvQueues
<1>5. CASE DvCrash
  BY <1>1, <1>2, <1>5 DEF NothingOld, DvCrash
<1>6. ASSUME NEW m, WorkNew(m) PROVE NothingOld'
  BY <1>1, <1>2, <1>6 DEF NothingOld, WorkNew
<1>7. ASSUME NEW w \in dvWork, Handling(w), UNCHANGED dvStarted PROVE NothingOld'
  <2>1. CASE Drops(w)
    BY <1>1, <1>2, <1>7, <2>1 DEF NothingOld, Drops
  <2>2. CASE Calls(w)
    <3>1. /\ \A i \in 1 .. Len(dvLog) : dvLog'[i] = dvLog[i]
          /\ \A i \in 1 .. Len(dvLog') : i \in 1 .. Len(dvLog) \/ i = Len(dvLog')
          /\ dvLog'[Len(dvLog')].m = w.m /\ dvLog'[Len(dvLog')].started = dvStarted
      BY <1>7, <2>2, CallAppended
    <3>2. Young(w.m, dvStarted)
      BY <2>2 DEF Calls, NothingOld
    <3> QED BY <1>1, <1>2, <1>7, <2>2, <3>1, <3>2 DEF NothingOld, Calls
  <2>3. ASSUME NEW v \in DvItems, PassesOn(w, v) PROVE NothingOld'
    <3>1. Young(w.m, dvStarted)
      <4>1. CASE w.step = "fetch"
        BY <4>1 DEF NothingOld
      <4>2. CASE IsButton(w.m)
        BY <4>2 DEF Young
      <4>3. CASE Passes(w.m)
        <5>1. dvPosts[w.m].born \in Nat /\ dvStarted \in Nat
          BY DvFacts
        <5> QED BY <4>3, <5>1, DeliveryAssumption DEF Passes, IsOldMessage, Young
      <4> QED BY <2>3, <4>1, <4>2, <4>3 DEF PassesOn
    <3> QED BY <1>1, <1>2, <1>7, <2>3, <3>1 DEF NothingOld, PassesOn
  <2> QED BY <1>7, <2>1, <2>2, <2>3, CheckCases
<1> QED BY <1>3, <1>4, <1>5, <1>6, <1>7, WorkSteps

LEMMA RememberKeeps ==
    ASSUME NEW m, NEW n, NEW at, dvOf \in Remembers, Remember(m), UNCHANGED dvClock, Known(n, at)
    PROVE  Known(n, at)'
<1>1. dvSeen' = [k \in Remembered \cup {m} |-> IF k \in Remembered THEN dvSeen[k] ELSE dvClock]
  BY DEF Remember
<1>2. ASSUME dvClock - at <= TTL PROVE n \in DOMAIN dvSeen' /\ dvSeen'[n] = at
  <2>1. n \in Remembered /\ dvSeen[n] = at
    BY <1>2 DEF Known, Remembered
  <2> QED BY <1>1, <2>1
<1> QED BY <1>2 DEF Known

LEMMA RememberNew ==
    ASSUME NEW m, dvOf \in Remembers, Remember(m), UNCHANGED dvClock, m \notin Remembered
    PROVE  /\ m \in DOMAIN dvSeen' /\ dvSeen'[m] = dvClock
           /\ \A at : Known(m, at) => ~(dvClock - at <= TTL)
<1>1. dvSeen' = [k \in Remembered \cup {m} |-> IF k \in Remembered THEN dvSeen[k] ELSE dvClock]
  BY DEF Remember
<1> QED BY <1>1 DEF Known, Remembered

LEMMA SeenStep ==
    ASSUME DvTypeOK, DvQueues, SeenOnce, DvNext
    PROVE  SeenOnce'
<1>0. /\ dvOf' = dvOf /\ Remembers' = Remembers
      /\ \A m \in Ids : IsButton(m)' <=> IsButton(m)
  <2>1. dvOf' = dvOf
    BY HandlingSteps DEF DvNext, DvTick, DvCrash, Post, PollPushes, TakeNext, StartAdapter, Deliver,
                         Poll, dvService
  <2> QED BY <2>1, PostsKept DEF Remembers
<1>a. /\ \A w \in dvWork : w.m \in Ids /\ w.at \in Nat /\ w.at <= dvClock
      /\ \A i \in 1 .. Len(dvLog) : /\ dvLog[i].m \in Ids /\ dvLog[i].at \in Nat
                                    /\ dvLog[i].at <= dvClock /\ dvLog[i].run <= Run
                                    /\ dvLog[i].run \in Nat
      /\ dvClock \in Nat /\ TTL \in Nat /\ Run \in Nat
  BY DvFacts, DeliveryAssumption
<1> SUFFICES ASSUME dvOf \in Remembers PROVE SeenOnce'
  BY <1>0 DEF SeenOnce
<1> DEFINE WorkKnown == \A w \in dvWork : Checked(w) => Known(w.m, w.at)
           LogKnown == \A i \in 1 .. Len(dvLog) : Now(i) /\ ~IsButton(dvLog[i].m) =>
                         Known(dvLog[i].m, dvLog[i].at)
           WorkApart == \A w, v \in dvWork : Checked(w) /\ Checked(v) /\ w.m = v.m /\ w # v =>
                          Apart(w.at, v.at)
           BothApart == \A w \in dvWork : \A i \in 1 .. Len(dvLog) :
                          Checked(w) /\ Now(i) /\ w.m = dvLog[i].m => Apart(w.at, dvLog[i].at)
           LogApart == \A i, j \in 1 .. Len(dvLog) :
                         /\ i # j /\ dvLog[i].run = dvLog[j].run
                         /\ dvLog[i].m = dvLog[j].m /\ ~IsButton(dvLog[i].m)
                         => Apart(dvLog[i].at, dvLog[j].at)
<1>b. WorkKnown /\ LogKnown /\ WorkApart /\ BothApart /\ LogApart
  BY DEF SeenOnce
<1>c. ASSUME WorkKnown', LogKnown', WorkApart', BothApart', LogApart' PROVE SeenOnce'
  BY <1>c DEF SeenOnce
<1>1. ASSUME UNCHANGED <<dvWork, dvLog, dvSeen>>, Run' = Run, dvClock' \in Nat, dvClock <= dvClock'
      PROVE  SeenOnce'
  <2>1. ASSUME NEW m, NEW at \in Nat, Known(m, at) PROVE Known(m, at)'
    <3>1. dvClock' - at <= TTL => dvClock - at <= TTL
      BY <1>a, <1>1
    <3> QED BY <1>1, <2>1, <3>1 DEF Known
  <2>2. WorkKnown' /\ LogKnown'
    BY <1>0, <1>a, <1>b, <1>1, <2>1 DEF Checked, Now
  <2>3. WorkApart' /\ BothApart' /\ LogApart'
    BY <1>0, <1>a, <1>b, <1>1 DEF Checked, Now, Apart
  <2> QED BY <1>c, <2>2, <2>3
<1>2. CASE DvCrash
  <2>1. dvWork' = {} /\ dvLog' = dvLog /\ Run' = Run + 1
    BY <1>2 DEF DvCrash, Run, DvTypeOK
  <2>2. \A i \in 1 .. Len(dvLog') : ~Now(i)'
    BY <1>a, <2>1 DEF Now
  <2>3. LogApart'
    BY ZenonT(40), <1>0, <1>a, <1>b, <2>1 DEF Apart
  <2> QED BY <1>c, <2>1, <2>2, <2>3
<1>3. ASSUME NEW m, WorkNew(m) PROVE SeenOnce'
  <2>1. PICK v \in DvItems : v.step = "new" /\ dvWork' = dvWork \cup {v}
    BY <1>3 DEF WorkNew
  <2>2. UNCHANGED <<dvLog, dvSeen, dvClock>> /\ Run' = Run
    BY <1>3 DEF WorkNew
  <2>3. \A w \in dvWork' : Checked(w)' => w \in dvWork /\ Checked(w)
    BY <1>0, <1>a, <2>1 DEF Checked
  <2>4. \A i \in 1 .. Len(dvLog) : Now(i)' <=> Now(i)
    BY <2>2 DEF Now
  <2>5. \A n, at : Known(n, at)' <=> Known(n, at)
    BY <2>2 DEF Known
  <2>6. \A s, t : Apart(s, t)' <=> Apart(s, t)
    BY DEF Apart
  <2>7. WorkKnown' /\ LogKnown'
    BY <1>0, <1>a, <1>b, <2>2, <2>3, <2>4, <2>5
  <2>8. WorkApart' /\ BothApart'
    BY <1>b, <2>2, <2>3, <2>4, <2>6
  <2>9. LogApart'
    BY <1>0, <1>a, <1>b, <2>2, <2>6
  <2> QED BY <1>c, <2>7, <2>8, <2>9
<1>4. ASSUME NEW w \in dvWork, Handling(w), UNCHANGED dvClock, Run' = Run PROVE SeenOnce'
  <2>0. \A s, t : Apart(s, t)' <=> Apart(s, t)
    BY DEF Apart
  <2>1. CASE Drops(w) /\ (UNCHANGED dvSeen \/ Remember(w.m))
    <3>1. \A n, at : Known(n, at) => Known(n, at)'
      BY <1>4, <2>1, RememberKeeps DEF Known
    <3>2. /\ \A v \in dvWork' : v \in dvWork /\ (Checked(v)' <=> Checked(v))
          /\ UNCHANGED dvLog /\ \A i \in 1 .. Len(dvLog) : Now(i)' <=> Now(i)
      BY <1>0, <1>a, <1>4, <2>1 DEF Drops, Checked, Now
    <3>3. WorkKnown' /\ LogKnown'
      BY <1>0, <1>a, <1>b, <3>1, <3>2
    <3>4. WorkApart' /\ BothApart'
      BY <1>b, <2>0, <3>2
    <3>5. LogApart'
      BY ZenonT(40), <1>0, <1>a, <1>b, <2>0, <3>2
    <3> QED BY <1>c, <3>3, <3>4, <3>5
  <2>2. CASE Calls(w) /\ UNCHANGED dvSeen
    <3> DEFINE c == dvLog'[Len(dvLog')]
               n == Len(dvLog')
    <3>1. /\ n = Len(dvLog) + 1 /\ Len(dvLog) \in Nat
          /\ \A i \in 1 .. Len(dvLog) : dvLog'[i] = dvLog[i] /\ i # n
          /\ \A i \in 1 .. Len(dvLog') : i \in 1 .. Len(dvLog) \/ i = n
          /\ c.m = w.m /\ c.at = w.at /\ c.run = Run
      BY <2>2, CallAppended
    <3>2. /\ \A v \in dvWork' : v \in dvWork /\ v # w /\ (Checked(v)' <=> Checked(v))
          /\ \A i \in 1 .. Len(dvLog) : Now(i)' <=> Now(i)
          /\ \A k, at : Known(k, at)' <=> Known(k, at)
      BY <1>0, <1>a, <1>4, <2>2, <3>1 DEF Calls, Checked, Now, Known
    <3>3. Checked(w) <=> ~IsButton(w.m)
      BY <2>2 DEF Calls, Checked
    <3> HIDE DEF c, n
    <3>4. WorkKnown'
      BY <1>b, <3>2
    <3>5. LogKnown'
      <4>1. ASSUME NEW i \in 1 .. Len(dvLog'), Now(i)', ~IsButton(dvLog[i].m)'
            PROVE  Known(dvLog[i].m, dvLog[i].at)'
        <5>1. CASE i \in 1 .. Len(dvLog)
          BY <1>0, <1>a, <1>b, <3>1, <3>2, <4>1, <5>1
        <5>2. CASE i = n
          BY <1>0, <1>a, <1>b, <3>1, <3>2, <3>3, <4>1, <5>2 DEF c, n
        <5> QED BY <3>1, <5>1, <5>2
      <4> QED BY <4>1
    <3>6. WorkApart'
      BY <1>b, <2>0, <3>2
    <3>7. BothApart'
      <4>1. ASSUME NEW v \in dvWork', NEW i \in 1 .. Len(dvLog'), Checked(v)', Now(i)',
                   v.m = dvLog'[i].m
            PROVE  Apart(v.at, dvLog'[i].at)
        <5>1. CASE i \in 1 .. Len(dvLog)
          BY <1>b, <3>1, <3>2, <4>1, <5>1
        <5>2. CASE i = n
          <6>1. Checked(w) /\ Checked(v) /\ v \in dvWork /\ v # w /\ v.m = w.m
            BY <1>0, <1>a, <3>1, <3>2, <3>3, <4>1, <5>2 DEF c, n, Checked
          <6> QED BY <1>b, <3>1, <5>2, <6>1 DEF c, n
        <5> QED BY <3>1, <5>1, <5>2
      <4> QED BY <2>0, <4>1
    <3>8. LogApart'
      <4>1. ASSUME NEW i \in 1 .. Len(dvLog), dvLog[i].run = Run, dvLog[i].m = w.m, ~IsButton(w.m)
            PROVE  Apart(w.at, dvLog[i].at) /\ Apart(dvLog[i].at, w.at)
        BY <1>b, <3>3, <4>1 DEF Now, Apart
      <4>2. ASSUME NEW i \in 1 .. Len(dvLog'), NEW j \in 1 .. Len(dvLog'), i # j,
                   dvLog'[i].run = dvLog'[j].run, dvLog'[i].m = dvLog'[j].m, ~IsButton(dvLog[i].m)'
            PROVE  Apart(dvLog'[i].at, dvLog'[j].at)
        <5>1. CASE i \in 1 .. Len(dvLog) /\ j \in 1 .. Len(dvLog)
          BY <1>0, <1>a, <1>b, <3>1, <4>2, <5>1
        <5>2. CASE i \in 1 .. Len(dvLog) /\ j = n
          BY <1>0, <1>a, <3>1, <4>1, <4>2, <5>2 DEF c, n
        <5>3. CASE i = n /\ j \in 1 .. Len(dvLog)
          BY <1>0, <1>a, <3>1, <4>1, <4>2, <5>3 DEF c, n
        <5> QED BY <3>1, <4>2, <5>1, <5>2, <5>3
      <4> QED BY <2>0, <4>2
    <3> QED BY <1>c, <3>4, <3>5, <3>6, <3>7, <3>8
  <2>3. ASSUME NEW v \in DvItems, PassesOn(w, v) PROVE SeenOnce'
    <3>1. /\ v.m = w.m /\ dvWork' = (dvWork \ {w}) \cup {v} /\ UNCHANGED dvLog
          /\ \A n, at : Known(n, at) => Known(n, at)'
      BY <1>4, <2>3, RememberKeeps DEF PassesOn, Known
    <3>2. /\ \A u \in dvWork' \ {v} : u \in dvWork /\ u # w /\ (Checked(u)' <=> Checked(u))
          /\ \A i \in 1 .. Len(dvLog) : Now(i)' <=> Now(i)
          /\ Checked(v)' <=> ~IsButton(w.m)
      BY <1>0, <1>a, <1>4, <2>3, <3>1 DEF PassesOn, Checked, Now
    <3>3. ASSUME ~IsButton(w.m)
          PROVE  /\ Known(v.m, v.at)'
                 /\ \A u \in dvWork \ {w} : Checked(u) /\ u.m = w.m => Apart(u.at, v.at) /\ Apart(v.at, u.at)
                 /\ \A i \in 1 .. Len(dvLog) : Now(i) /\ w.m = dvLog[i].m => Apart(v.at, dvLog[i].at)
      <4>1. CASE w.step = "fetch" /\ v.at = w.at
        BY <1>b, <3>1, <3>3, <4>1 DEF Checked, Apart
      <4>2. CASE Passes(w.m) /\ v.at = dvClock /\ Remember(w.m)
        <5>1. w.m \notin Remembered
          BY <4>2 DEF Passes, IsDuplicate
        <5>2. /\ w.m \in DOMAIN dvSeen' /\ dvSeen'[w.m] = dvClock
              /\ \A at : Known(w.m, at) => ~(dvClock - at <= TTL)
          BY <1>4, <4>2, <5>1, RememberNew
        <5>3. \A at \in Nat : Known(w.m, at) => Apart(dvClock, at) /\ Apart(at, dvClock)
          BY <1>a, <5>2 DEF Apart
        <5>4. Known(v.m, v.at)'
          BY <3>1, <4>2, <5>2 DEF Known
        <5>5. ASSUME NEW u \in dvWork, Checked(u), u.m = w.m
              PROVE  Apart(u.at, v.at) /\ Apart(v.at, u.at)
          BY <1>a, <1>b, <4>2, <5>3, <5>5
        <5>6. ASSUME NEW i \in 1 .. Len(dvLog), Now(i), w.m = dvLog[i].m
              PROVE  Apart(v.at, dvLog[i].at)
          BY <1>a, <1>b, <3>3, <4>2, <5>3, <5>6
        <5> QED BY <5>4, <5>5, <5>6
      <4> QED BY <2>3, <3>3, <4>1, <4>2 DEF PassesOn
    <3>4. WorkKnown'
      BY <1>b, <3>1, <3>2, <3>3
    <3>5. LogKnown'
      BY <1>0, <1>a, <1>b, <3>1, <3>2
    <3>6. WorkApart'
      BY <1>b, <2>0, <3>1, <3>2, <3>3
    <3>7. BothApart'
      BY <1>b, <2>0, <3>1, <3>2, <3>3
    <3>8. LogApart'
      BY <1>0, <1>a, <1>b, <2>0, <3>1
    <3> QED BY <1>c, <3>4, <3>5, <3>6, <3>7, <3>8
  <2> QED BY <1>4, <2>1, <2>2, <2>3, CheckCases
<1>5. dvClock' \in Nat /\ (dvClock' = dvClock => dvClock <= dvClock')
  BY <1>a, DvTypeStep DEF DvTypeOK
<1> QED BY <1>1, <1>2, <1>3, <1>4, <1>5, WorkSteps

\* Only a new post comes into the box.
LEMMA BoxStep ==
    ASSUME DvTypeOK, DvNext
    PROVE  dvOf' = dvOf /\ \A m \in Ids : m \in dvBox' => m \in dvBox
<1>1. CASE \E kind \in Kinds : Post(kind)
  BY <1>1, PostsGrow DEF Post
<1>2. CASE \E w \in dvWork : Handling(w)
  BY <1>2, HandlingSteps
<1>3. CASE DvTick \/ DvCrash \/ PollPushes \/ TakeNext
  BY <1>3 DEF DvTick, DvCrash, PollPushes, TakeNext, dvService
<1>4. CASE \/ \E drained \in BOOLEAN : StartAdapter(drained)
           \/ \E m \in dvBox, acked \in BOOLEAN : Deliver(m, acked)
           \/ \E fails \in BOOLEAN : Poll(fails)
  BY <1>4 DEF StartAdapter, Deliver, Poll, dvService
<1> QED BY <1>1, <1>2, <1>3, <1>4 DEF DvNext

LEMMA OneStep ==
    ASSUME DvTypeOK, DvQueues, InOnePlace, DvNext
    PROVE  InOnePlace'
<1>0. /\ \A m \in Ids : SentOnce(m)' <=> SentOnce(m)
      /\ \A m \in Ids : m \in dvBox' => m \in dvBox
  BY BoxStep, PostsKept DEF SentOnce
<1>a. /\ \A w \in dvWork : w.m \in Ids
      /\ \A i \in 1 .. Len(dvLog) : dvLog[i].m \in Ids
      /\ dvBox \subseteq Ids
  BY DvFacts
<1> DEFINE WorkOut == \A w \in dvWork : SentOnce(w.m) => w.m \notin dvBox
           LogOut == \A i \in 1 .. Len(dvLog) : SentOnce(dvLog[i].m) => dvLog[i].m \notin dvBox
           WorkOne == \A w, v \in dvWork : SentOnce(w.m) /\ w.m = v.m => w = v
           BothOne == \A w \in dvWork : \A i \in 1 .. Len(dvLog) : SentOnce(w.m) => w.m # dvLog[i].m
           LogOne == \A i, j \in 1 .. Len(dvLog) :
                       i # j /\ SentOnce(dvLog[i].m) => dvLog[i].m # dvLog[j].m
<1>b. WorkOut /\ LogOut /\ WorkOne /\ BothOne /\ LogOne
  BY DEF InOnePlace
<1>c. ASSUME WorkOut', LogOut', WorkOne', BothOne', LogOne' PROVE InOnePlace'
  BY <1>c DEF InOnePlace
<1>d. ASSUME UNCHANGED dvLog PROVE LogOut' /\ LogOne'
  BY <1>0, <1>a, <1>b, <1>d
<1>1. ASSUME dvWork' \subseteq dvWork, UNCHANGED dvLog PROVE InOnePlace'
  <2>1. WorkOut' /\ WorkOne' /\ BothOne'
    BY <1>0, <1>a, <1>b, <1>1
  <2> QED BY <1>c, <1>d, <1>1, <2>1
<1>2. ASSUME NEW m \in dvBox, NEW acked \in BOOLEAN, Deliver(m, acked), WorkNew(m)
      PROVE  InOnePlace'
  <2>1. PICK v \in DvItems : v.m = m /\ dvWork' = dvWork \cup {v}
    BY <1>2 DEF WorkNew
  <2>2. UNCHANGED dvLog
    BY <1>2 DEF WorkNew
  <2>3. SentOnce(m) => m \notin dvBox'
    BY <1>2 DEF Deliver, SentOnce, Resending, IsButton
  <2>4. SentOnce(m) => /\ \A w \in dvWork : w.m # m
                       /\ \A i \in 1 .. Len(dvLog) : dvLog[i].m # m
    <3>1. ASSUME SentOnce(m), NEW w \in dvWork PROVE w.m # m
      BY <1>b, <3>1
    <3>2. ASSUME SentOnce(m), NEW i \in 1 .. Len(dvLog) PROVE dvLog[i].m # m
      BY <1>b, <3>2
    <3> QED BY <3>1, <3>2
  <2>5. WorkOut'
    BY <1>0, <1>a, <1>b, <2>1, <2>3
  <2>6. WorkOne'
    BY <1>0, <1>a, <1>b, <2>1, <2>4
  <2>7. BothOne'
    BY <1>0, <1>a, <1>b, <2>1, <2>2, <2>4
  <2> QED BY <1>c, <1>d, <2>2, <2>5, <2>6, <2>7
<1>3. ASSUME TakeNext PROVE InOnePlace'
  <2>1. dvOf \in Serial /\ UNCHANGED dvOf
    BY <1>3, BoxStep DEF TakeNext, DvQueues
  <2>2. \A m : ~SentOnce(m)'
    BY <2>1 DEF SentOnce, Serial
  <2> QED BY <1>c, <2>2
<1>4. ASSUME NEW w \in dvWork, Handling(w) PROVE InOnePlace'
  <2>1. CASE Drops(w)
    BY <1>1, <2>1 DEF Drops
  <2>2. ASSUME NEW v \in DvItems, v.m = w.m, dvWork' = (dvWork \ {w}) \cup {v}, UNCHANGED dvLog
        PROVE  InOnePlace'
    <3>1. WorkOut'
      BY <1>0, <1>a, <1>b, <2>2
    <3>2. WorkOne'
      BY <1>0, <1>a, <1>b, <2>2
    <3>3. BothOne'
      BY <1>0, <1>a, <1>b, <2>2
    <3> QED BY <1>c, <1>d, <2>2, <3>1, <3>2, <3>3
  <2>3. CASE Calls(w)
    <3> DEFINE n == Len(dvLog')
               c == dvLog'[n]
    <3>1. /\ \A i \in 1 .. Len(dvLog) : dvLog'[i] = dvLog[i] /\ i # n
          /\ \A i \in 1 .. Len(dvLog') : i \in 1 .. Len(dvLog) \/ i = n
          /\ c.m = w.m
      BY <2>3, CallAppended
    <3>2. dvWork' = dvWork \ {w}
      BY <2>3 DEF Calls
    <3>3. SentOnce(w.m) => /\ \A v \in dvWork' : v.m # w.m
                           /\ \A i \in 1 .. Len(dvLog) : dvLog[i].m # w.m
      <4>1. ASSUME SentOnce(w.m), NEW v \in dvWork' PROVE v.m # w.m
        BY <1>b, <3>2, <4>1
      <4>2. ASSUME SentOnce(w.m), NEW i \in 1 .. Len(dvLog) PROVE dvLog[i].m # w.m
        BY <1>b, <4>2
      <4> QED BY <4>1, <4>2
    <3>4. SentOnce(w.m) => w.m \notin dvBox'
      BY <1>0, <1>a, <1>b
    <3>5. WorkOut' /\ WorkOne'
      BY <1>0, <1>a, <1>b, <3>2
    <3>6. LogOut'
      <4>1. ASSUME NEW i \in 1 .. Len(dvLog'), SentOnce(dvLog[i].m)' PROVE (dvLog[i].m \notin dvBox)'
        <5>1. CASE i \in 1 .. Len(dvLog)
          BY <1>0, <1>a, <1>b, <3>1, <4>1, <5>1
        <5>2. CASE i = n
          BY <1>0, <1>a, <3>1, <3>4, <4>1, <5>2
        <5> QED BY <3>1, <5>1, <5>2
      <4> QED BY <4>1
    <3>7. BothOne'
      <4>1. ASSUME NEW v \in dvWork', NEW i \in 1 .. Len(dvLog'), SentOnce(v.m)'
            PROVE  v.m # dvLog'[i].m
        <5>1. CASE i \in 1 .. Len(dvLog)
          BY <1>0, <1>a, <1>b, <3>1, <3>2, <4>1, <5>1
        <5>2. CASE i = n
          BY <1>0, <1>a, <3>1, <3>2, <3>3, <4>1, <5>2
        <5> QED BY <3>1, <5>1, <5>2
      <4> QED BY <4>1
    <3>8. LogOne'
      <4>1. ASSUME NEW i \in 1 .. Len(dvLog'), NEW j \in 1 .. Len(dvLog'), i # j, SentOnce(dvLog[i].m)'
            PROVE  dvLog'[i].m # dvLog'[j].m
        <5>1. CASE i \in 1 .. Len(dvLog) /\ j \in 1 .. Len(dvLog)
          BY <1>0, <1>a, <1>b, <3>1, <4>1, <5>1
        <5>2. CASE i \in 1 .. Len(dvLog) /\ j = n
          BY <1>0, <1>a, <3>1, <3>3, <4>1, <5>2
        <5>3. CASE i = n /\ j \in 1 .. Len(dvLog)
          BY <1>0, <1>a, <3>1, <3>3, <4>1, <5>3
        <5> QED BY <3>1, <4>1, <5>1, <5>2, <5>3
      <4> QED BY <4>1
    <3> QED BY <1>c, <3>5, <3>6, <3>7, <3>8
  <2>4. Drops(w) \/ Proceeds(w) \/ Calls(w)
    BY <1>4, HandlingSteps
  <2> QED BY <2>1, <2>2, <2>3, <2>4 DEF Proceeds
<1>5. DvCrash => dvWork' \subseteq dvWork /\ UNCHANGED dvLog
  BY DEF DvCrash
<1> QED BY <1>1, <1>2, <1>3, <1>4, <1>5, WorkSteps

\* What was passed stays passed until the process ends.
LEMMA PassedKept ==
    ASSUME DvTypeOK, DvNext, ~DvCrash, NEW m \in Ids, Passed(m)
    PROVE  Passed(m)'
<1>0. dvOf' = dvOf /\ m \in Nat /\ Len(dvPosts) \in Nat
  BY BoxStep, DvFacts DEF DvTypeOK
<1>1. ASSUME dvOf = "qq" PROVE \A n \in dvBox' : m < n
  <2>1. \A n \in dvBox : m < n
    BY <1>1 DEF Passed
  <2>2. CASE \E kind \in Kinds : Post(kind)
    <3>1. dvBox' \subseteq dvBox \cup {Len(dvPosts) + 1}
      BY <2>2, PostsGrow
    <3>2. m < Len(dvPosts) + 1
      BY <1>0 DEF Ids
    <3> QED BY <2>1, <3>1, <3>2
  <2>3. ASSUME ~\E kind \in Kinds : Post(kind) PROVE dvBox' \subseteq dvBox
    BY <2>3, HandlingSteps DEF DvNext, DvTick, StartAdapter, Deliver, Poll, PollPushes, TakeNext
  <2> QED BY <2>1, <2>2, <2>3
<1>2. ASSUME dvOf = "telegram" PROVE m < dvOffset'
  <2>1. m < dvOffset /\ dvOffset \in Nat
    BY <1>2, DvFacts DEF Passed
  <2>2. CASE PollPushes
    <3>1. PICK n \in dvFetched : IF n < dvOffset THEN UNCHANGED dvOffset ELSE dvOffset' = n + 1
      BY <2>2 DEF PollPushes
    <3>2. n \in Nat
      BY DvFacts
    <3> QED BY <1>0, <2>1, <3>1, <3>2
  <2>3. ASSUME ~PollPushes PROVE UNCHANGED dvOffset
    BY <2>3, HandlingSteps DEF DvNext, DvTick, Post, StartAdapter, Deliver, Poll, TakeNext, dvPoll
  <2> QED BY <2>1, <2>2, <2>3
<1> QED BY <1>0, <1>1, <1>2 DEF Passed

\* The steps of an adapter that hands over in order: what joins the inbox is after all
\* that was passed.
Joins(m) ==
    /\ dvInbox' \in Seq(Nat) /\ Len(dvInbox') = Len(dvInbox) + 1
    /\ \A i \in 1 .. Len(dvInbox) : dvInbox'[i] = dvInbox[i]
    /\ dvInbox'[Len(dvInbox')] = m
    /\ \A n \in Ids : Passed(n) => n < m
    /\ Passed(m)'
    /\ UNCHANGED <<dvWork, dvLog>> /\ Run' = Run

LEMMA RowSteps ==
    ASSUME DvTypeOK, DvQueues, DvNext, dvOf \in {"telegram", "qq"}
    PROVE  \/ UNCHANGED <<dvWork, dvLog, dvInbox>> /\ Run' = Run
           \/ DvCrash
           \/ \E m \in Ids : Joins(m)
           \/ TakeNext /\ UNCHANGED dvLog /\ Run' = Run
           \/ \E w \in dvWork : Handling(w) /\ UNCHANGED dvInbox /\ Run' = Run
<1>0. dvOf \in Serial
  BY DEF Serial
<1>1. CASE DvTick \/ (\E kind \in Kinds : Post(kind)) \/ \E drained \in BOOLEAN : StartAdapter(drained)
  BY <1>1 DEF DvTick, Post, StartAdapter, Run
<1>2. CASE \E fails \in BOOLEAN : Poll(fails)
  BY <1>2 DEF Poll, Run
<1>3. CASE TakeNext
  BY <1>3 DEF TakeNext, Run
<1>4. CASE \E w \in dvWork : Handling(w)
  BY <1>4, HandlingSteps DEF Run
<1>5. ASSUME NEW m \in dvBox, NEW acked \in BOOLEAN, Deliver(m, acked)
      PROVE  \E n \in Ids : Joins(n)
  <2>1. dvOf = "qq" /\ acked = TRUE /\ UNCHANGED dvOf
    BY <1>5, BoxStep DEF Deliver, Resending
  <2>2. m \in Ids /\ dvBox' = dvBox \ {m} /\ Delivered(m) /\ UNCHANGED <<dvLog, dvCount>>
    BY <1>5, <2>1, DvFacts DEF Deliver
  <2>3. \A n \in dvBox : m <= n
    BY <1>5, <2>1 DEF Deliver, First
  <2>4. \A n \in Ids : Passed(n) => n < m
    BY <1>5, <2>1 DEF Passed
  <2>5. \A n \in dvBox' : m < n
    <3>1. m \in Nat /\ \A n \in dvBox : n \in Nat
      BY <2>2, DvFacts
    <3> QED BY <2>2, <2>3, <3>1
  <2>6. Passed(m)'
    BY <2>1, <2>5 DEF Passed
  <2>7. Joins(m)
    BY <1>0, <2>2, <2>4, <2>6, DeliveredTo DEF Joins, Run
  <2> QED BY <2>2, <2>7
<1>6. ASSUME PollPushes
      PROVE  \/ UNCHANGED <<dvWork, dvLog, dvInbox>> /\ Run' = Run
             \/ \E n \in Ids : Joins(n)
  <2>1. PICK m \in dvFetched : IF m < dvOffset THEN UNCHANGED <<dvOffset, dvInbox, dvWork>>
                               ELSE dvOffset' = m + 1 /\ Delivered(m)
    BY <1>6 DEF PollPushes
  <2>2. UNCHANGED <<dvOf, dvLog, dvCount>> /\ dvOf = "telegram" /\ m \in Ids /\ m \in Nat /\ dvOffset \in Nat
    BY <1>6, DvFacts DEF PollPushes, dvService, DvQueues
  <2>3. CASE ~(m < dvOffset)
    <3>1. \A n \in Ids : Passed(n) => n < m
      <4>1. \A n \in Ids : n \in Nat
        BY DvFacts
      <4> QED BY <2>2, <2>3, <4>1 DEF Passed
    <3>2. Passed(m)'
      BY <2>1, <2>2, <2>3 DEF Passed
    <3>3. Joins(m)
      BY <1>0, <2>1, <2>2, <2>3, <3>1, <3>2, DeliveredTo DEF Joins, Run
    <3> QED BY <2>2, <3>3
  <2> QED BY <2>1, <2>2, <2>3 DEF Run
<1> QED BY <1>1, <1>2, <1>3, <1>4, <1>5, <1>6 DEF DvNext

LEMMA RowStep ==
    ASSUME DvTypeOK, DvQueues, InRow, DvNext
    PROVE  InRow'
<1>0. dvOf' = dvOf
  BY BoxStep
<1> SUFFICES ASSUME dvOf \in {"telegram", "qq"} PROVE InRow'
  BY <1>0 DEF InRow
<1>a. /\ \A w \in dvWork : w.m \in Ids
      /\ Len(dvLog) \in Nat /\ \A i \in 1 .. Len(dvLog) : dvLog[i].m \in Ids /\ dvLog[i].run \in Nat /\ dvLog[i].run <= Run
      /\ dvInbox \in Seq(Nat) /\ Len(dvInbox) \in Nat /\ \A i \in 1 .. Len(dvInbox) : dvInbox[i] \in Ids
      /\ Ids \subseteq Nat /\ Run \in Nat
  BY DvFacts
<1> DEFINE LogPassed == \A i \in 1 .. Len(dvLog) : Now(i) => Passed(dvLog[i].m)
           WorkPassed == \A w \in dvWork : Passed(w.m)
           BoxPassed == \A i \in 1 .. Len(dvInbox) : Passed(dvInbox[i])
           LogRow == \A i, j \in 1 .. Len(dvLog) :
                       i < j /\ dvLog[i].run = dvLog[j].run => dvLog[i].m < dvLog[j].m
           LogWork == \A i \in 1 .. Len(dvLog) : \A w \in dvWork : Now(i) => dvLog[i].m < w.m
           LogBox == \A i \in 1 .. Len(dvLog) : \A j \in 1 .. Len(dvInbox) :
                       Now(i) => dvLog[i].m < dvInbox[j]
           WorkBox == \A w \in dvWork : \A j \in 1 .. Len(dvInbox) : w.m < dvInbox[j]
           BoxRow == \A i, j \in 1 .. Len(dvInbox) : i < j => dvInbox[i] < dvInbox[j]
<1>b. /\ LogPassed /\ WorkPassed /\ BoxPassed /\ LogRow /\ LogWork /\ LogBox /\ WorkBox /\ BoxRow
  BY DEF InRow
<1>c. ASSUME LogPassed', WorkPassed', BoxPassed', LogRow', LogWork', LogBox', WorkBox', BoxRow'
      PROVE  InRow'
  BY <1>c DEF InRow
<1>1. ASSUME ~DvCrash, NEW m \in Ids, Passed(m) PROVE Passed(m)'
  BY <1>1, PassedKept
<1>d. ASSUME UNCHANGED dvLog, Run' = Run
      PROVE  LogRow' /\ \A i \in 1 .. Len(dvLog) : Now(i)' <=> Now(i)
  BY <1>b, <1>d DEF Now
<1>2. ASSUME UNCHANGED <<dvWork, dvLog, dvInbox>>, Run' = Run, ~DvCrash PROVE InRow'
  <2>1. LogPassed' /\ WorkPassed' /\ BoxPassed'
    BY <1>a, <1>b, <1>d, <1>1, <1>2
  <2>2. LogWork' /\ LogBox' /\ WorkBox' /\ BoxRow'
    BY <1>b, <1>d, <1>2
  <2> QED BY <1>c, <1>d, <1>2, <2>1, <2>2
<1>3. CASE DvCrash
  <2>1. dvWork' = {} /\ dvInbox' = <<>> /\ dvLog' = dvLog /\ Run' = Run + 1
    BY <1>3 DEF DvCrash, Run, DvTypeOK
  <2>2. (\A i \in 1 .. Len(dvLog') : ~Now(i)') /\ 1 .. Len(dvInbox') = {}
    BY <1>a, <2>1 DEF Now
  <2>3. LogRow'
    BY <1>b, <2>1
  <2> QED BY <1>c, <2>1, <2>2, <2>3
<1>4. ASSUME NEW m \in Ids, Joins(m), ~DvCrash PROVE InRow'
  <2>1. /\ Len(dvInbox') = Len(dvInbox) + 1 /\ dvInbox'[Len(dvInbox')] = m
        /\ \A i \in 1 .. Len(dvInbox) : dvInbox'[i] = dvInbox[i]
        /\ \A n \in Ids : Passed(n) => n < m
        /\ Passed(m)' /\ UNCHANGED <<dvWork, dvLog>> /\ Run' = Run
    BY <1>4 DEF Joins
  <2>2. \A i \in 1 .. Len(dvInbox') : i \in 1 .. Len(dvInbox) \/ i = Len(dvInbox')
    BY <1>a, <2>1
  <2>3. LogPassed' /\ WorkPassed' /\ LogWork'
    BY <1>a, <1>b, <1>d, <1>1, <1>4, <2>1
  <2>4. BoxPassed'
    <3>1. ASSUME NEW i \in 1 .. Len(dvInbox') PROVE Passed(dvInbox[i])'
      <4>1. CASE i \in 1 .. Len(dvInbox)
        <5>1. Passed(dvInbox[i]) /\ dvInbox[i] \in Ids /\ dvInbox'[i] = dvInbox[i]
          BY <1>a, <1>b, <2>1, <4>1
        <5> QED BY <5>1, PassedKept, <1>4 DEF Passed
      <4>2. CASE i = Len(dvInbox')
        BY <2>1, <4>2 DEF Passed
      <4> QED BY <2>2, <4>1, <4>2
    <3> QED BY <3>1
  <2>5. LogBox'
    BY <1>a, <1>b, <1>d, <2>1, <2>2
  <2>6. WorkBox'
    BY <1>a, <1>b, <2>1, <2>2
  <2>7. BoxRow'
    <3>1. ASSUME NEW i \in 1 .. Len(dvInbox'), NEW j \in 1 .. Len(dvInbox'), i < j
          PROVE  dvInbox'[i] < dvInbox'[j]
      <4>1. i \in 1 .. Len(dvInbox)
        BY <1>a, <2>1, <3>1
      <4>2. CASE j \in 1 .. Len(dvInbox)
        BY <1>b, <2>1, <3>1, <4>1, <4>2
      <4>3. CASE j = Len(dvInbox')
        BY <1>a, <1>b, <2>1, <4>1, <4>3
      <4> QED BY <2>2, <4>2, <4>3
    <3> QED BY <3>1
  <2> QED BY <1>c, <1>d, <2>1, <2>3, <2>4, <2>5, <2>6, <2>7
<1>5. ASSUME TakeNext, UNCHANGED dvLog, Run' = Run, ~DvCrash PROVE InRow'
  <2>1. /\ Len(dvInbox) \in Nat \ {0} /\ Len(dvInbox') = Len(dvInbox) - 1
        /\ \A i \in 1 .. Len(dvInbox') : dvInbox'[i] = dvInbox[i + 1]
        /\ dvInbox[1] \in Ids
    BY <1>5, TakenNext
  <2>2. PICK v : v.m = dvInbox[1] /\ dvWork' = {v}
    BY <1>5, TakenNext
  <2>3. /\ 1 \in 1 .. Len(dvInbox)
        /\ \A i \in 1 .. Len(dvInbox') : i + 1 \in 1 .. Len(dvInbox) /\ 1 < i + 1
        /\ \A i, j \in 1 .. Len(dvInbox') : i < j => i + 1 < j + 1
    BY <2>1
  <2>4. LogPassed' /\ WorkPassed'
    BY <1>a, <1>b, <1>d, <1>1, <1>5, <2>1, <2>2, <2>3
  <2>5. BoxPassed'
    <3>1. ASSUME NEW i \in 1 .. Len(dvInbox') PROVE Passed(dvInbox[i])'
      <4>1. Passed(dvInbox[i + 1]) /\ dvInbox[i + 1] \in Ids /\ dvInbox'[i] = dvInbox[i + 1]
        BY <1>a, <1>b, <2>1, <2>3
      <4> QED BY <1>5, <4>1, PassedKept DEF Passed
    <3> QED BY <3>1
  <2>6. LogWork' /\ LogBox'
    BY <1>b, <1>d, <1>5, <2>1, <2>2, <2>3
  <2>7. WorkBox' /\ BoxRow'
    BY <1>b, <2>1, <2>2, <2>3
  <2> QED BY <1>c, <1>d, <1>5, <2>4, <2>5, <2>6, <2>7
<1>6. ASSUME NEW w \in dvWork, Handling(w), UNCHANGED dvInbox, Run' = Run, ~DvCrash PROVE InRow'
  <2>1. ASSUME \A v \in dvWork' : v.m = w.m, UNCHANGED dvLog PROVE InRow'
    <3>1. LogPassed' /\ WorkPassed' /\ BoxPassed'
      BY <1>a, <1>b, <1>d, <1>1, <1>6, <2>1
    <3>2. LogWork' /\ LogBox' /\ WorkBox' /\ BoxRow'
      BY <1>b, <1>d, <1>6, <2>1
    <3> QED BY <1>c, <1>d, <1>6, <2>1, <3>1, <3>2
  <2>2. \A v \in dvWork : v = w
    BY DEF DvQueues, Serial
  <2>3. CASE Drops(w) \/ Proceeds(w)
    <3>1. UNCHANGED dvLog /\ \A v \in dvWork' : v.m = w.m
      BY <2>2, <2>3 DEF Drops, Proceeds
    <3> QED BY <2>1, <3>1
  <2>4. CASE Calls(w)
    <3> DEFINE n == Len(dvLog')
               c == dvLog'[n]
    <3>1. /\ n = Len(dvLog) + 1
          /\ \A i \in 1 .. Len(dvLog) : dvLog'[i] = dvLog[i] /\ i # n
          /\ \A i \in 1 .. n : i \in 1 .. Len(dvLog) \/ i = n
          /\ c.m = w.m /\ c.run = Run
      BY <2>4, CallAppended
    <3>2. dvWork' = {}
      BY <2>2, <2>4 DEF Calls
    <3>3. \A i \in 1 .. Len(dvLog) : Now(i)' <=> Now(i)
      BY <1>6, <3>1 DEF Now
    <3>4. LogPassed'
      <4>1. ASSUME NEW i \in 1 .. Len(dvLog'), Now(i)' PROVE Passed(dvLog[i].m)'
        <5>1. CASE i \in 1 .. Len(dvLog)
          <6>1. Passed(dvLog[i].m) /\ dvLog[i].m \in Ids /\ dvLog'[i].m = dvLog[i].m
            BY <1>a, <1>b, <3>1, <3>3, <4>1, <5>1
          <6> QED BY <1>6, <6>1, PassedKept DEF Passed
        <5>2. CASE i = n
          <6>1. Passed(w.m) /\ w.m \in Ids /\ dvLog'[i].m = w.m
            BY <1>a, <1>b, <3>1, <5>2
          <6> QED BY <1>6, <6>1, PassedKept DEF Passed
        <5> QED BY <3>1, <5>1, <5>2
      <4> QED BY <4>1
    <3>5. BoxPassed'
      BY <1>a, <1>b, <1>1, <1>6
    <3>6. LogRow'
      <4>1. ASSUME NEW i \in 1 .. Len(dvLog'), NEW j \in 1 .. Len(dvLog'), i < j,
                   dvLog'[i].run = dvLog'[j].run
            PROVE  dvLog'[i].m < dvLog'[j].m
        <5>1. i \in 1 .. Len(dvLog)
          BY <1>a, <3>1, <4>1
        <5>2. CASE j \in 1 .. Len(dvLog)
          BY <1>b, <3>1, <4>1, <5>1, <5>2
        <5>3. CASE j = n
          BY <1>b, <3>1, <4>1, <5>1, <5>3 DEF Now
        <5> QED BY <3>1, <5>2, <5>3
      <4> QED BY <4>1
    <3>7. LogBox'
      <4>1. ASSUME NEW i \in 1 .. Len(dvLog'), NEW j \in 1 .. Len(dvInbox'), Now(i)'
            PROVE  dvLog'[i].m < dvInbox'[j]
        <5>1. CASE i \in 1 .. Len(dvLog)
          BY <1>b, <1>6, <3>1, <3>3, <4>1, <5>1
        <5>2. CASE i = n
          BY <1>b, <1>6, <3>1, <5>2
        <5> QED BY <3>1, <5>1, <5>2
      <4> QED BY <4>1
    <3>8. WorkPassed' /\ LogWork' /\ WorkBox' /\ BoxRow'
      BY <1>b, <1>6, <3>2
    <3> QED BY <1>c, <3>4, <3>5, <3>6, <3>7, <3>8
  <2> QED BY <1>6, <2>3, <2>4, HandlingSteps
<1> QED BY <1>2, <1>3, <1>4, <1>5, <1>6, RowSteps

LEMMA DvNextInv == DvInv /\ [DvNext]_dvVars => DvInv'
<1> SUFFICES ASSUME DvInv, [DvNext]_dvVars PROVE DvInv'
  OBVIOUS
<1> USE DEF DvInv
<1>1. CASE DvNext
  BY <1>1, DvTypeStep, QueuesStep, OldStep, SeenStep, OneStep, RowStep
<1>2. CASE UNCHANGED dvVars
  <2>1. UNCHANGED <<dvOf, dvClock, dvPosts, dvUp, dvStarted, dvOffset, dvFetched, dvBox, dvInbox,
                    dvSeen, dvWork, dvCount, dvLog>>
    BY <1>2 DEF dvVars, dvService, dvProcess, dvPoll
  <2>2. DvTypeOK' /\ DvQueues'
    BY <2>1 DEF DvTypeOK, DvQueues, Ids, Run, IsButton, Buttons, Serial
  <2>3. NothingOld' /\ InOnePlace'
    BY <2>1 DEF NothingOld, Young, IsButton, InOnePlace, SentOnce
  <2>4. SeenOnce'
    BY <2>1 DEF SeenOnce, Checked, Known, Now, Apart, IsButton, Run, Remembers
  <2>5. InRow'
    BY <2>1 DEF InRow, Passed, Now, Run
  <2> QED BY <2>2, <2>3, <2>4, <2>5
<1> QED BY <1>1, <1>2

\* Two calls for one message in one process: the adapter did not remember, or no longer.
LEMMA OncePerRun ==
    ASSUME DvInv, NEW i \in 1 .. Len(dvLog), NEW j \in 1 .. Len(dvLog), i < j,
           dvLog[i].m = dvLog[j].m, dvLog[i].run = dvLog[j].run
    PROVE  \/ dvOf \in Resending \ Remembers
           \/ dvOf \in Remembers /\ Apart(dvLog[i].at, dvLog[j].at)
<1>1. dvOf \in AllAdapters /\ dvLog[i].m \in Ids /\ dvLog[i].m \in Nat
  BY DvFacts DEF DvInv, DvTypeOK
<1>2. ~SentOnce(dvLog[i].m)
  <2>1. i # j
    OBVIOUS
  <2> QED BY <2>1 DEF DvInv, InOnePlace
<1>3. dvOf \notin {"telegram", "qq"}
  <2>1. ASSUME dvOf \in {"telegram", "qq"} PROVE dvLog[i].m < dvLog[j].m
    BY <2>1 DEF DvInv, InRow
  <2> QED BY <1>1, <2>1
<1>4. CASE dvOf \in Remembers
  <2>1. ~IsButton(dvLog[i].m)
    BY <1>1, <1>2, <1>4 DEF DvInv, DvTypeOK, SentOnce, Remembers, Buttons
  <2>2. Apart(dvLog[i].at, dvLog[j].at)
    <3>1. i # j
      OBVIOUS
    <3> QED BY <1>4, <2>1, <3>1 DEF DvInv, SeenOnce
  <2> QED BY <1>4, <2>2
<1>5. CASE dvOf \notin Remembers
  BY <1>1, <1>2, <1>3, <1>5 DEF AllAdapters, SentOnce, Resending, Remembers
<1> QED BY <1>4, <1>5

\* Whatever the services send again, however polls fail and whenever the process ends:
\* a message is handled once in a process, as far as the adapter remembers, a restart
\* replays only what is young, and telegram and qq hand over in order (core/dedup.go,
\* telegram.go pollUpdates, qq.go readLoop).
THEOREM HandledOnceAndInOrder == DvSpec => []HandledOnceInOrder
<1>1. DvInv => HandledOnceInOrder
  <2> SUFFICES ASSUME DvInv PROVE HandledOnceInOrder
    OBVIOUS
  <2>0. DvTypeOK /\ DOMAIN dvLog = 1 .. Len(dvLog)
    <3>1. dvLog \in Seq(DvCalls)
      BY DEF DvInv, DvTypeOK
    <3> QED BY <3>1, LenProperties DEF DvInv
  <2>1. HandedInOrder
    BY <2>0 DEF HandedInOrder, DvInv, InRow
  <2>2. HandledOnce
    <3>1. ASSUME NEW i \in 1 .. Len(dvLog), NEW j \in 1 .. Len(dvLog), i < j,
                 dvLog[i].m = dvLog[j].m
          PROVE  IF dvLog[i].run = dvLog[j].run
                 THEN \/ dvOf \in Resending \ Remembers
                      \/ dvOf \in Remembers /\ TTL < Abs(dvLog[j].at - dvLog[i].at)
                 ELSE \/ dvPosts[dvLog[j].m].kind = "button"
                      \/ dvPosts[dvLog[j].m].born >= dvLog[j].started - Grace
      <4>1. dvLog[i].at \in Nat /\ dvLog[j].at \in Nat /\ TTL \in Nat
        BY <2>0, DvFacts, DeliveryAssumption
      <4>2. Apart(dvLog[i].at, dvLog[j].at) => TTL < Abs(dvLog[j].at - dvLog[i].at)
        BY <4>1 DEF Apart, Abs
      <4>3. Young(dvLog[j].m, dvLog[j].started)
        BY DEF DvInv, NothingOld
      <4> QED BY <3>1, <4>2, <4>3, OncePerRun DEF Young, IsButton
    <3> QED BY <2>0, <3>1 DEF HandledOnce
  <2> QED BY <2>1, <2>2 DEF HandledOnceInOrder
<1> QED BY DvInitInv, DvNextInv, <1>1, PTL DEF DvSpec
=============================================================================
