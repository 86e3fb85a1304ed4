------------------------------- MODULE Delivery -------------------------------
(* How the messages of a chat service reach the engine.  Each adapter takes    *)
(* them its own way: telegram polls, slack and qq read one stream, the others  *)
(* are called by their library or server, once per delivery and concurrently.  *)
(* Services send again what they hold for lost; adapters defend themselves by  *)
(* remembering the ids of the last minute and by dropping what is older than   *)
(* the process.  The qqbot adapter has a module of its own, Gateway.           *)
EXTENDS Integers, Sequences

CONSTANTS
    Adapters,      \* the adapters of a run, each of which has a behaviour of its own
    TTL,           \* dedupTTL
    Grace,         \* the two seconds of IsOldMessage
    MaxClock,      \* bound: the clock
    MaxPosts,      \* bound: messages of the users
    MaxResends,    \* bound: deliveries whose acknowledgement is lost
    MaxDvRestarts  \* bound: crashes of the process

AllAdapters == {"telegram", "slack", "qq", "discord", "feishu", "wecom", "dingtalk", "line"}

ASSUME DeliveryAssumption ==
    /\ Adapters \subseteq AllAdapters
    /\ {TTL, Grace, MaxClock, MaxPosts, MaxResends, MaxDvRestarts} \subseteq Nat

VARIABLES
    dvOf,       \* the adapter
    dvUp,       \* the process runs
    dvClock,    \* the time
    dvStarted,  \* StartTime of the process
    dvPosts,    \* what the users posted: kind and time, the place is the id
    dvBox,      \* ids that the service still has to deliver
    dvOffset,   \* cfg.Offset of pollUpdates
    dvFetched,  \* updates that pollUpdates has in hand
    dvInbox,    \* the channel or stream that one goroutine reads
    dvSeen,     \* MessageDedup.seen
    dvWork,     \* deliveries that are being handled
    dvCount,    \* deliveries sent again and crashes so far
    dvLog       \* history: calls of the engine's handler

dvService == <<dvOf, dvClock, dvPosts>>
dvProcess == <<dvUp, dvStarted>>
dvPoll == <<dvOffset, dvFetched>>
dvVars == <<dvService, dvProcess, dvPoll, dvBox, dvInbox, dvSeen, dvWork, dvCount, dvLog>>

\* Adapters whose one goroutine handles a message before it takes the next.
Serial == {"telegram", "slack", "qq"}

\* Adapters with buttons or slash commands, which are not checked for their age.
Buttons == {"telegram", "discord", "feishu"}

\* Adapters that remember ids; only qq looks at the age first.
Remembers == {"qq", "feishu", "wecom", "dingtalk"}

\* Services that deliver again what nobody acknowledged ...
Resending == {"slack", "feishu", "wecom", "dingtalk", "line"}

\* ... and services that forget what is posted while nobody is connected.
Forgetful == {"qq", "discord"}

Kinds == {"text", "media"} \cup (IF dvOf \in Buttons THEN {"button"} ELSE {})

DvInit ==
    /\ dvOf \in Adapters
    /\ dvUp = FALSE /\ dvClock = 0 /\ dvStarted = 0
    /\ dvPosts = <<>> /\ dvBox = {}
    /\ dvOffset = 0 /\ dvFetched = {} /\ dvInbox = <<>>
    /\ dvSeen = <<>> /\ dvWork = {}
    /\ dvCount = [resends |-> 0, restarts |-> 0]
    /\ dvLog = <<>>

-----------------------------------------------------------------------------
DvTick ==
    /\ dvClock < MaxClock
    /\ dvClock' = dvClock + 1
    /\ UNCHANGED <<dvOf, dvPosts, dvProcess, dvPoll, dvBox, dvInbox, dvSeen, dvWork, dvCount, dvLog>>

Post(kind) ==
    /\ Len(dvPosts) < MaxPosts
    /\ dvPosts' = Append(dvPosts, [kind |-> kind, born |-> dvClock])
    /\ dvBox' = IF dvUp \/ dvOf \notin Forgetful THEN dvBox \cup {Len(dvPosts) + 1} ELSE dvBox
    /\ UNCHANGED <<dvOf, dvClock, dvProcess, dvPoll, dvInbox, dvSeen, dvWork, dvCount, dvLog>>

\* Start: telegram asks for offset -1, which leaves the service with the latest update only;
\* a failure of that request is logged and nothing more.
StartAdapter(drained) ==
    /\ ~dvUp
    /\ dvUp' = TRUE /\ dvStarted' = dvClock
    /\ IF dvOf = "telegram" /\ drained /\ dvBox # {}
       THEN \E m \in dvBox : (\A n \in dvBox : n <= m) /\ dvBox' = {m}
       ELSE UNCHANGED dvBox
    /\ UNCHANGED <<dvService, dvPoll, dvInbox, dvSeen, dvWork, dvCount, dvLog>>

\* The process ends at any point; what it remembered goes with it.
DvCrash ==
    /\ dvUp /\ dvCount.restarts < MaxDvRestarts
    /\ dvUp' = FALSE
    /\ dvOffset' = 0 /\ dvFetched' = {} /\ dvInbox' = <<>>
    /\ dvSeen' = <<>> /\ dvWork' = {}
    /\ dvCount' = [dvCount EXCEPT !.restarts = @ + 1]
    /\ UNCHANGED <<dvService, dvStarted, dvBox, dvLog>>

-----------------------------------------------------------------------------
\* The oldest of these messages.
First(m, ids) == m \in ids /\ \A n \in ids : m <= n

\* A delivery waits for the goroutine of the adapter, or has one of its own.
Delivered(m) ==
    IF dvOf \in Serial
    THEN dvInbox' = Append(dvInbox, m) /\ UNCHANGED dvWork
    ELSE dvWork' = dvWork \cup {[m |-> m, step |-> "new", at |-> dvClock]} /\ UNCHANGED dvInbox

\* Where the acknowledgement is lost the service delivers again.  Buttons are not sent again.
Deliver(m, acked) ==
    /\ dvUp /\ dvOf # "telegram" /\ m \in dvBox
    /\ dvOf = "qq" => First(m, dvBox)
    /\ ~acked => /\ dvOf \in Resending /\ dvCount.resends < MaxResends
                 /\ dvPosts[m].kind # "button"
    /\ dvBox' = IF acked THEN dvBox \ {m} ELSE dvBox
    /\ dvCount' = IF acked THEN dvCount ELSE [dvCount EXCEPT !.resends = @ + 1]
    /\ Delivered(m)
    /\ UNCHANGED <<dvService, dvProcess, dvPoll, dvSeen, dvLog>>

\* getUpdates confirms what is before the offset and returns the rest; it may fail after
\* the service has confirmed.
Poll(fails) ==
    /\ dvUp /\ dvOf = "telegram" /\ dvFetched = {}
    /\ dvBox' = {m \in dvBox : m >= dvOffset}
    /\ dvFetched' = IF fails THEN {} ELSE dvBox'
    /\ UNCHANGED <<dvService, dvProcess, dvOffset, dvInbox, dvSeen, dvWork, dvCount, dvLog>>

\* The next update of a response goes into the channel and is confirmed by the next request.
PollPushes ==
    /\ dvUp
    /\ \E m \in dvFetched :
         /\ First(m, dvFetched)
         /\ dvFetched' = dvFetched \ {m}
         /\ IF m < dvOffset
            THEN UNCHANGED <<dvOffset, dvInbox, dvWork>>
            ELSE dvOffset' = m + 1 /\ Delivered(m)
    /\ UNCHANGED <<dvService, dvProcess, dvBox, dvSeen, dvCount, dvLog>>

\* Mutant: every message has a goroutine of its own.
TakeNext_Concurrent ==
    /\ dvUp /\ dvInbox # <<>>
    /\ dvWork' = dvWork \cup {[m |-> Head(dvInbox), step |-> "new", at |-> dvClock]}
    /\ dvInbox' = Tail(dvInbox)
    /\ UNCHANGED <<dvService, dvProcess, dvPoll, dvBox, dvSeen, dvCount, dvLog>>

\* The one goroutine of the adapter takes the next message when it is done with the last.
TakeNext ==
    /\ dvUp /\ dvInbox # <<>> /\ dvWork = {}
    /\ dvWork' = {[m |-> Head(dvInbox), step |-> "new", at |-> dvClock]}
    /\ dvInbox' = Tail(dvInbox)
    /\ UNCHANGED <<dvService, dvProcess, dvPoll, dvBox, dvSeen, dvCount, dvLog>>

-----------------------------------------------------------------------------
IsOldMessage(m) == dvPosts[m].born < dvStarted - Grace

\* The ids that are not older than dedupTTL.
Remembered == {m \in DOMAIN dvSeen : dvClock - dvSeen[m] <= TTL}

IsDuplicate(m) == dvOf \in Remembers /\ m \in Remembered

\* Mutant: a duplicate is looked for but not remembered.
Remember_Not(m) == dvSeen' = dvSeen

Remember(m) ==
    dvSeen' = IF dvOf \in Remembers
              THEN [n \in Remembered \cup {m} |-> IF n \in Remembered THEN dvSeen[n] ELSE dvClock]
              ELSE dvSeen

Passes(m) == ~IsOldMessage(m) /\ ~IsDuplicate(m)

Becomes(w, step) == dvWork' = (dvWork \ {w}) \cup {[w EXCEPT !.step = step, !.at = dvClock]}

\* Buttons go through; a message must be neither old nor seen.  qq forgets what is old,
\* the others remember it.
Check(w) ==
    /\ w.step = "new"
    /\ IF dvPosts[w.m].kind = "button" THEN UNCHANGED dvSeen
       ELSE IF dvOf = "qq" /\ IsOldMessage(w.m) THEN UNCHANGED dvSeen
       ELSE Remember(w.m)
    /\ IF dvPosts[w.m].kind = "button" THEN Becomes(w, "call")
       ELSE IF ~Passes(w.m) THEN dvWork' = dvWork \ {w}
       ELSE Becomes(w, IF dvPosts[w.m].kind = "media" THEN "fetch" ELSE "call")
    /\ UNCHANGED <<dvService, dvProcess, dvPoll, dvBox, dvInbox, dvCount, dvLog>>

\* A photo, a voice message or a file is downloaded; without it the message is dropped.
Fetch(w, found) ==
    /\ w.step = "fetch"
    /\ dvWork' = IF found THEN (dvWork \ {w}) \cup {[w EXCEPT !.step = "call"]} ELSE dvWork \ {w}
    /\ UNCHANGED <<dvService, dvProcess, dvPoll, dvBox, dvInbox, dvSeen, dvCount, dvLog>>

\* A button is answered first; a slash command of discord whose answer fails goes no further.
AnswerFails(w) ==
    /\ w.step = "call" /\ dvPosts[w.m].kind = "button" /\ dvOf = "discord"
    /\ dvWork' = dvWork \ {w}
    /\ UNCHANGED <<dvService, dvProcess, dvPoll, dvBox, dvInbox, dvSeen, dvCount, dvLog>>

\* The engine's handler.
CallHandler(w) ==
    /\ w.step = "call"
    /\ dvLog' = Append(dvLog, [m |-> w.m, at |-> w.at, started |-> dvStarted, run |-> dvCount.restarts])
    /\ dvWork' = dvWork \ {w}
    /\ UNCHANGED <<dvService, dvProcess, dvPoll, dvBox, dvInbox, dvSeen, dvCount>>

Handling(w) ==
    \/ Check(w) \/ AnswerFails(w) \/ CallHandler(w)
    \/ \E found \in BOOLEAN : Fetch(w, found)

DvNext ==
    \/ DvTick \/ DvCrash \/ PollPushes \/ TakeNext
    \/ \E kind \in Kinds : Post(kind)
    \/ \E drained \in BOOLEAN : StartAdapter(drained)
    \/ \E m \in dvBox, acked \in BOOLEAN : Deliver(m, acked)
    \/ \E fails \in BOOLEAN : Poll(fails)
    \/ \E w \in dvWork : Handling(w)

DvSpec == DvInit /\ [][DvNext]_dvVars

-----------------------------------------------------------------------------
Abs(n) == IF n < 0 THEN -n ELSE n

\* Within a process a message is handled once, unless its service sends again and the
\* adapter does not remember (slack, line) or no longer remembers.  Over a restart it is
\* handled again only if it was posted in the two seconds before the start, or is a button,
\* whose age nobody looks at (core/dedup.go, telegram.go pollUpdates).
HandledOnce ==
    \A i, j \in DOMAIN dvLog :
        i < j /\ dvLog[i].m = dvLog[j].m =>
            IF dvLog[i].run = dvLog[j].run
            THEN \/ dvOf \in Resending \ Remembers
                 \/ dvOf \in Remembers /\ TTL < Abs(dvLog[j].at - dvLog[i].at)
            ELSE \/ dvPosts[dvLog[j].m].kind = "button"
                 \/ dvPosts[dvLog[j].m].born >= dvLog[j].started - Grace

\* telegram and qq hand the messages of a process over in the order in which they were
\* posted, and none of them a second time, however polls fail and restarts replay.
HandedInOrder ==
    dvOf \in {"telegram", "qq"} =>
        \A i, j \in DOMAIN dvLog :
            i < j /\ dvLog[i].run = dvLog[j].run => dvLog[i].m < dvLog[j].m

\* What the engine may count on from a platform, whatever the service behind it resends.
HandledOnceInOrder == HandledOnce /\ HandedInOrder
=============================================================================
