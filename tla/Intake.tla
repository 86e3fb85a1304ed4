-------------------------------- MODULE Intake --------------------------------
(* What happens to a message before it is a prompt: texts and attachments are  *)
(* held back for a request that is still to come.  Attachments wait for a      *)
(* text, the text of a voice message for its confirmation, and the items of a  *)
(* collection for an instruction.  Each message has a goroutine, which looks   *)
(* at each of the stores under the mutex of that store alone.                  *)
EXTENDS Integers, FiniteSets

CONSTANTS
    Handlers,      \* goroutines of handleMessage
    MaxItems,      \* bound: messages that carry something
    BatchSize,     \* maxCollectedItems
    MaxCollects,   \* bound: /collect commands
    MaxFlushes     \* bound: flushes

ASSUME IntakeAssumption == {MaxItems, BatchSize, MaxCollects, MaxFlushes} \subseteq Nat

VARIABLES
    inAttach,    \* pendingAttach of the chat: items
    inVoice,     \* voiceConfirms of the chat: a pendingVoiceConfirmation, 0 for none
    inText,      \* Text of each pendingVoiceConfirmation: an item
    inBatch,     \* pendingCollect of the chat
    inExpired,   \* ExpiresAt of the collection has passed
    inDoing,     \* what each handler is doing
    inItems,     \* items so far
    inCount,     \* commands and flushes so far
    inSent,      \* history: per item, the prompts that had it
    inKept,      \* history: items that were taken into a store
    inTold,      \* history: items whose user was told that they are not sent
    inShared,    \* history: items that two requests could take
    inCrossed    \* history: items that came into a store while it was emptied, or that another answer replaced

inStores == <<inAttach, inVoice, inText, inBatch, inExpired>>
inHistory == <<inSent, inKept, inTold, inShared, inCrossed>>
inVars == <<inStores, inDoing, inItems, inCount, inHistory>>

Items == 1 .. MaxItems
NoBatch == [there |-> FALSE, items |-> {}, flushing |-> FALSE, awaiting |-> FALSE, retry |-> FALSE, asked |-> FALSE]
Resting == [at |-> "idle", item |-> 0, held |-> {}, pending |-> 0]

InInit ==
    /\ inAttach = {} /\ inVoice = 0 /\ inText = [p \in 0 .. MaxItems |-> 0] /\ inBatch = NoBatch /\ inExpired = FALSE
    /\ inDoing = [h \in Handlers |-> Resting]
    /\ inItems = 0 /\ inCount = [command |-> 0, flush |-> 0]
    /\ inSent = [i \in Items |-> 0]
    /\ inKept = {} /\ inTold = {} /\ inShared = {} /\ inCrossed = {}

At(h) == inDoing[h].at
Item(h) == inDoing[h].item
Pending(h) == inDoing[h].pending
Goes(h, label) == inDoing' = [inDoing EXCEPT ![h].at = label]
Done(h) == inDoing' = [inDoing EXCEPT ![h] = Resting]

\* The message goes no further and its user is told so.
Refused(h) == Done(h) /\ inTold' = inTold \cup ({Item(h)} \ {0})

\* The items are part of a prompt.
Sent(items) == inSent' = [i \in Items |-> IF i \in items THEN inSent[i] + 1 ELSE inSent[i]]

\* Handlers that have copied the attachments and may still clear them, and those that have
\* copied the items of a collection.
Taking == {h \in Handlers : At(h) \in {"session", "clear", "absorb"}}
Flushing == {h \in Handlers : At(h) \in {"flushing", "flushed"}}

-----------------------------------------------------------------------------
\* A collection whose time is over is dropped by the next message, and the user told.
Expires ==
    IF inExpired /\ ~inBatch.flushing
    THEN inBatch' = NoBatch /\ inExpired' = FALSE /\ inTold' = inTold \cup inBatch.items
    ELSE UNCHANGED <<inBatch, inExpired, inTold>>

NewItem(h, label) ==
    /\ At(h) = "idle" /\ inItems < MaxItems
    /\ inItems' = inItems + 1
    /\ inDoing' = [inDoing EXCEPT ![h] = [Resting EXCEPT !.at = label, !.item = inItems + 1]]

Comes(h, kind) ==
    /\ NewItem(h, kind)
    /\ Expires
    /\ UNCHANGED <<inAttach, inVoice, inText, inCount, inSent, inKept, inShared, inCrossed>>

\* A voice message comes and is transcribed.
VoiceComes(h) ==
    /\ NewItem(h, "voice")
    /\ UNCHANGED <<inStores, inCount, inHistory>>

TimePasses ==
    /\ inBatch # NoBatch /\ ~inExpired
    /\ inExpired' = TRUE
    /\ UNCHANGED <<inAttach, inVoice, inText, inBatch, inDoing, inItems, inCount, inHistory>>

\* A collection is looked at for each of these questions on its own: a message is refused
\* while a collection waits for its instruction (attachments) or is flushed ...
AttachmentAsks(h) ==
    /\ At(h) = "attachment"
    /\ IF inBatch.awaiting THEN Refused(h) ELSE Goes(h, "asks") /\ UNCHANGED inTold
    /\ UNCHANGED <<inStores, inItems, inCount, inSent, inKept, inShared, inCrossed>>

AsksFlushing(h) ==
    /\ At(h) \in {"asks", "text asks"}
    /\ IF inBatch.flushing THEN Refused(h)
       ELSE Goes(h, IF At(h) = "asks" THEN "has" ELSE "text has") /\ UNCHANGED inTold
    /\ UNCHANGED <<inStores, inItems, inCount, inSent, inKept, inShared, inCrossed>>

\* ... and goes into one that is there.
AsksCollection(h) ==
    /\ At(h) \in {"has", "text has"}
    /\ Goes(h, IF inBatch # NoBatch THEN "buffer" ELSE IF At(h) = "has" THEN "store" ELSE "attach")
    /\ UNCHANGED <<inStores, inItems, inCount, inHistory>>

\* bufferPendingCollection: a collection that has ended meanwhile takes nothing, and nobody
\* is told; one that is flushed meanwhile takes the item.
Buffers(h) ==
    /\ At(h) = "buffer"
    /\ IF Cardinality(inBatch.items) >= BatchSize
       THEN Refused(h) /\ UNCHANGED <<inBatch, inKept, inCrossed>>
       ELSE /\ Done(h)
            /\ IF inBatch = NoBatch
               THEN inCrossed' = inCrossed \cup {Item(h)} /\ UNCHANGED <<inBatch, inKept>>
               ELSE /\ inBatch' = [inBatch EXCEPT !.items = @ \cup {Item(h)}, !.awaiting = FALSE, !.asked = FALSE, !.retry = FALSE]
                    /\ inKept' = inKept \cup {Item(h)}
                    /\ inCrossed' = IF Flushing # {} THEN inCrossed \cup {Item(h)} ELSE inCrossed
            /\ UNCHANGED inTold
    /\ UNCHANGED <<inAttach, inVoice, inText, inExpired, inItems, inCount, inSent, inShared>>

\* storePendingAttachments
Stores(h) ==
    /\ At(h) = "store"
    /\ inAttach' = inAttach \cup {Item(h)}
    /\ inKept' = inKept \cup {Item(h)}
    /\ inCrossed' = IF Taking # {} THEN inCrossed \cup {Item(h)} ELSE inCrossed
    /\ Done(h)
    /\ UNCHANGED <<inVoice, inText, inBatch, inExpired, inItems, inCount, inSent, inTold, inShared>>

\* The text of the dictation that waits, 0 for none.
Dictated == inText[inVoice]

\* Handlers that are about to empty the store of the dictation.
Emptying == {h \in Handlers : At(h) \in {"confirm", "drop"}}

\* storeVoiceConfirmation: the dictation p waits, with this text.
KeepsVoice(p, text) ==
    /\ inVoice' = p
    /\ inText' = [inText EXCEPT ![p] = text]
    /\ inKept' = inKept \cup {text}

\* What a dictation has comes into a store that is being emptied.
Crossing(text) == IF Emptying # {} THEN {text} ELSE {}

\* A dictation comes, and replaces the one that is not confirmed yet.  Its object is a new one:
\* none that the store has or that an answer works on.
VoiceStored(h) ==
    LET unused == Items \ ({inVoice} \cup {Pending(g) : g \in Handlers}) IN
    /\ At(h) = "voice"
    /\ \E p \in unused : (\A q \in unused : p <= q) /\ KeepsVoice(p, Item(h))
    /\ inTold' = inTold \cup ({Dictated} \ {0})
    /\ inCrossed' = inCrossed \cup Crossing(Item(h))
    /\ Done(h)
    /\ UNCHANGED <<inAttach, inBatch, inExpired, inItems, inCount, inSent, inShared>>

\* getVoiceConfirmation by a text: it goes on if no dictation waits; a command is refused.
\* Otherwise it is an answer, and shares the dictation with the store and with other answers:
\* a correction, or the wish to correct, a confirmation or a cancellation of what was dictated.
TextAsksVoice(h) ==
    /\ At(h) = "text"
    /\ IF inVoice = 0 THEN Goes(h, "awaits") /\ UNCHANGED <<inTold, inShared>>
       ELSE \/ Refused(h) /\ UNCHANGED inShared
            \/ /\ \/ /\ inDoing' = [inDoing EXCEPT ![h].at = "edit", ![h].pending = inVoice]
                     /\ UNCHANGED inTold
                  \/ /\ \E label \in {"confirm", "drop", "modify"} :
                           inDoing' = [inDoing EXCEPT ![h].at = label, ![h].pending = inVoice, ![h].item = Dictated]
                     /\ inTold' = inTold \cup {Item(h)}
               /\ inShared' = IF \E g \in Handlers : Pending(g) = inVoice THEN inShared \cup {Dictated} ELSE inShared
    /\ UNCHANGED <<inStores, inItems, inCount, inSent, inKept, inCrossed>>

\* A correction: pending.Text is written without the mutex, for the store and all who share it ...
VoiceEdited(h) ==
    LET p == Pending(h) IN
    /\ At(h) = "edit"
    /\ inText' = [inText EXCEPT ![p] = Item(h)]
    /\ inKept' = inKept \cup {Item(h)}
    /\ inTold' = inTold \cup {inText[p]}
    /\ inCrossed' = inCrossed \cup Crossing(Item(h))
    /\ inShared' = IF \E g \in Handlers \ {h} : Pending(g) = p THEN inShared \cup {Item(h)} ELSE inShared
    /\ Goes(h, "edited")
    /\ UNCHANGED <<inAttach, inVoice, inBatch, inExpired, inItems, inCount, inSent>>

\* ... and the dictation put back into the store, wherever it is by now.  The wish to correct does
\* only this.  The text is read before the mutex and written under it: what others wrote
\* meanwhile goes, or stays.
VoicePutBack(h) ==
    LET p == Pending(h) IN
    /\ At(h) \in {"modify", "edited"}
    /\ \E text \in {inText[p], Item(h)} :
          /\ KeepsVoice(p, text)
          /\ inCrossed' = inCrossed \cup Crossing(text) \cup ({Dictated, inText[p], Item(h)} \ {0, text})
    /\ Done(h)
    /\ UNCHANGED <<inAttach, inBatch, inExpired, inItems, inCount, inSent, inTold, inShared>>

\* The store is emptied, whatever is in it by now; the text that the dictation has goes on as a
\* message of its own.
VoiceConfirmed(h) ==
    LET text == inText[Pending(h)] IN
    /\ At(h) = "confirm"
    /\ inVoice' = 0
    /\ inCrossed' = inCrossed \cup ({Item(h)} \ {text})
    /\ Expires
    /\ inDoing' = [inDoing EXCEPT ![h].at = "text", ![h].pending = 0, ![h].item = text]
    /\ UNCHANGED <<inAttach, inText, inItems, inCount, inSent, inKept, inShared>>

VoiceCancelled(h) ==
    /\ At(h) = "drop"
    /\ inVoice' = 0
    /\ inTold' = inTold \cup {Item(h), inText[Pending(h)]}
    /\ Done(h)
    /\ UNCHANGED <<inAttach, inText, inBatch, inExpired, inItems, inCount, inSent, inKept, inShared, inCrossed>>

\* A collection that waits for its instruction takes the text.
TextAwaited(h) ==
    /\ At(h) = "awaits"
    /\ Goes(h, IF inBatch.awaiting THEN "flush" ELSE "text asks")
    /\ UNCHANGED <<inStores, inItems, inCount, inHistory>>

\* getPendingAttachments: the request copies them.
TakesAttachments(h) ==
    /\ At(h) = "attach"
    /\ inDoing' = [inDoing EXCEPT ![h].at = "session", ![h].held = inAttach]
    /\ inShared' = IF Taking # {} THEN inShared \cup inAttach ELSE inShared
    /\ UNCHANGED <<inStores, inItems, inCount, inSent, inKept, inTold, inCrossed>>

\* The request is refused; or queued, and then the attachments stay where they are; or it
\* starts a turn.
Requests(h) ==
    /\ At(h) = "session"
    /\ \/ Refused(h) /\ UNCHANGED <<inSent, inShared>>
       \/ /\ Sent({Item(h)} \cup inDoing[h].held) /\ inShared' = inShared \cup inDoing[h].held
          /\ Done(h) /\ UNCHANGED inTold
       \/ Sent({Item(h)} \cup inDoing[h].held) /\ Goes(h, "clear") /\ UNCHANGED <<inTold, inShared>>
    /\ UNCHANGED <<inStores, inItems, inCount, inKept, inCrossed>>

\* Mutant of ClearsAttachments: they stay.
ClearsAttachments_Not(h) ==
    /\ At(h) = "clear"
    /\ Done(h)
    /\ UNCHANGED <<inStores, inItems, inCount, inHistory>>

\* clearPendingAttachments, if there were some.
ClearsAttachments(h) ==
    /\ At(h) = "clear"
    /\ inAttach' = IF inDoing[h].held = {} THEN inAttach ELSE {}
    /\ Done(h)
    /\ UNCHANGED <<inVoice, inText, inBatch, inExpired, inItems, inCount, inHistory>>

-----------------------------------------------------------------------------
\* A /collect command comes; while a voice message waits there are none.
CollectCommand(h) ==
    /\ At(h) = "idle" /\ inVoice = 0
    /\ inCount.command < MaxCollects
    /\ inCount' = [inCount EXCEPT !.command = @ + 1]
    /\ inDoing' = [inDoing EXCEPT ![h] = [Resting EXCEPT !.at = "command"]]
    /\ Expires
    /\ UNCHANGED <<inAttach, inVoice, inText, inItems, inSent, inKept, inShared, inCrossed>>

\* What it asks for cannot be done now, or it only asks for the status.
CommandRefused(h) ==
    /\ At(h) = "command"
    /\ Done(h)
    /\ UNCHANGED <<inStores, inItems, inCount, inHistory>>

\* /collect start, if there is no collection: one is begun ...
CollectStarts(h) ==
    /\ At(h) = "command"
    /\ inBatch = NoBatch
    /\ Goes(h, "start")
    /\ UNCHANGED <<inStores, inItems, inCount, inHistory>>

CollectBegins(h) ==
    /\ At(h) = "start"
    /\ IF inBatch = NoBatch
       THEN inBatch' = [NoBatch EXCEPT !.there = TRUE] /\ inExpired' = FALSE
       ELSE UNCHANGED <<inBatch, inExpired>>
    /\ Goes(h, "attachments")
    /\ UNCHANGED <<inAttach, inVoice, inText, inItems, inCount, inHistory>>

\* ... and takes the pending attachments: they are copied ...
AbsorbTakes(h) ==
    /\ At(h) = "attachments"
    /\ IF inAttach = {} THEN Done(h)
       ELSE inDoing' = [inDoing EXCEPT ![h].at = "absorb", ![h].held = inAttach]
    /\ inShared' = IF Taking # {} THEN inShared \cup inAttach ELSE inShared
    /\ UNCHANGED <<inStores, inItems, inCount, inSent, inKept, inTold, inCrossed>>

\* ... cleared ...
AbsorbClears(h) ==
    /\ At(h) = "absorb"
    /\ inAttach' = {}
    /\ Goes(h, "append")
    /\ UNCHANGED <<inVoice, inText, inBatch, inExpired, inItems, inCount, inHistory>>

\* ... and appended, if there is a collection still.
AbsorbAppends(h) ==
    /\ At(h) = "append"
    /\ inBatch' = IF inBatch = NoBatch THEN inBatch ELSE [inBatch EXCEPT !.items = @ \cup inDoing[h].held, !.asked = FALSE, !.retry = FALSE]
    /\ inCrossed' = IF inBatch = NoBatch \/ Flushing # {} THEN inCrossed \cup inDoing[h].held ELSE inCrossed
    /\ Done(h)
    /\ UNCHANGED <<inAttach, inVoice, inText, inExpired, inItems, inCount, inSent, inKept, inTold, inShared>>

\* /collect cancel, unless a flush is seen to be under way; by the time it is done one may be.
CancelAsks(h) ==
    /\ At(h) = "command"
    /\ inBatch # NoBatch /\ ~inBatch.flushing
    /\ Goes(h, "cancel")
    /\ UNCHANGED <<inStores, inItems, inCount, inHistory>>

Cancels(h) ==
    /\ At(h) = "cancel"
    /\ inBatch' = NoBatch /\ inExpired' = FALSE
    /\ inTold' = inTold \cup inBatch.items
    /\ Done(h)
    /\ UNCHANGED <<inAttach, inVoice, inText, inItems, inCount, inSent, inKept, inShared, inCrossed>>

\* /collect send: with an instruction, or with the one of a flush that failed, the collection
\* is flushed; without one it waits for it.
CollectSends(h) ==
    /\ At(h) = "command"
    /\ ~inBatch.flushing /\ inBatch.items # {}
    /\ \/ Goes(h, "flush") /\ UNCHANGED inBatch
       \/ /\ ~inBatch.asked
          /\ inBatch' = [inBatch EXCEPT !.awaiting = TRUE, !.retry = FALSE]
          /\ Done(h)
    /\ UNCHANGED <<inAttach, inVoice, inText, inExpired, inItems, inCount, inHistory>>

\* flushPendingCollection: without items, or while the session is busy, the agent updated or
\* another flush under way, the user is told; else the flush has a copy of the items.
FlushBegins(h) ==
    /\ At(h) = "flush"
    /\ \/ Refused(h) /\ UNCHANGED <<inBatch, inCount>>
       \/ /\ inCount.flush < MaxFlushes
          /\ inBatch.items # {} /\ ~inBatch.flushing
          /\ inBatch' = [inBatch EXCEPT !.flushing = TRUE, !.retry = inBatch.awaiting, !.awaiting = FALSE, !.asked = TRUE]
          /\ inDoing' = [inDoing EXCEPT ![h].at = "flushing", ![h].held = inBatch.items]
          /\ inCount' = [inCount EXCEPT !.flush = @ + 1]
          /\ UNCHANGED inTold
    /\ UNCHANGED <<inAttach, inVoice, inText, inExpired, inItems, inSent, inKept, inShared, inCrossed>>

\* The prompt of the flush is sent; or it is not, and the collection that the chat has then
\* is as it was before, although another flush of it may be under way.
FlushSends(h) ==
    /\ At(h) = "flushing"
    /\ Sent(({Item(h)} \ {0}) \cup inDoing[h].held)
    /\ Goes(h, "flushed")
    /\ UNCHANGED <<inStores, inItems, inCount, inKept, inTold, inShared, inCrossed>>

FlushFails(h) ==
    /\ At(h) = "flushing"
    /\ inBatch' = IF inBatch = NoBatch THEN inBatch
                  ELSE [inBatch EXCEPT !.flushing = FALSE, !.awaiting = inBatch.retry /\ inBatch.asked, !.retry = FALSE]
    /\ inShared' = inShared \cup (inBatch.items \cap UNION {inDoing[g].held : g \in Flushing \ {h}})
    /\ Refused(h)
    /\ UNCHANGED <<inAttach, inVoice, inText, inExpired, inItems, inCount, inSent, inKept, inCrossed>>

\* Then the collection of the chat is dropped, whichever that is by now.
FlushEnds(h) ==
    /\ At(h) = "flushed"
    /\ inBatch' = NoBatch /\ inExpired' = FALSE
    /\ Done(h)
    /\ UNCHANGED <<inAttach, inVoice, inText, inItems, inCount, inSent, inKept, inTold, inShared, inCrossed>>

TextStep(h) ==
    \/ TextAsksVoice(h) \/ VoiceEdited(h) \/ VoicePutBack(h) \/ VoiceConfirmed(h) \/ VoiceCancelled(h)
    \/ TextAwaited(h) \/ TakesAttachments(h) \/ Requests(h) \/ ClearsAttachments(h)

ItemStep(h) ==
    \/ AttachmentAsks(h) \/ AsksFlushing(h) \/ AsksCollection(h) \/ Buffers(h) \/ Stores(h) \/ VoiceStored(h)

CollectStep(h) ==
    \/ CommandRefused(h) \/ CollectStarts(h) \/ CancelAsks(h) \/ CollectSends(h)
    \/ CollectBegins(h) \/ AbsorbTakes(h) \/ AbsorbClears(h) \/ AbsorbAppends(h) \/ Cancels(h)
    \/ FlushBegins(h) \/ FlushSends(h) \/ FlushFails(h) \/ FlushEnds(h)

InNext ==
    \/ \E h \in Handlers :
        \/ (\E kind \in {"text", "attachment"} : Comes(h, kind))
        \/ VoiceComes(h) \/ CollectCommand(h)
        \/ TextStep(h) \/ ItemStep(h) \/ CollectStep(h)
    \/ TimePasses

InSpec == InInit /\ [][InNext]_inVars

-----------------------------------------------------------------------------
Waiting == inAttach \cup inBatch.items \cup ({Dictated} \ {0})
Carried == UNION {inDoing[h].held \cup {Item(h)} : h \in Handlers}

\* What was taken into a store is there, or with a request that is under way, or was sent,
\* or its user was told.  Excepted are, as in the code, items that came into a store while
\* it was emptied (they are dropped with the others, or with the store that has gone), and
\* dictations that an answer which had read them before replaced.
KeptUntilSent ==
    \A i \in inKept \ inCrossed : i \in Waiting \cup Carried \cup inTold \/ inSent[i] > 0

\* Nothing is sent twice.  Excepted are, as in the code, attachments of a request that was
\* queued, items that two messages took out of a store at the same time, and dictations that
\* two answers work on at once: one confirms it, and the other puts it back for the next.
SentOnce == \A i \in Items \ inShared : inSent[i] <= 1

\* Without the exceptions, and with one goroutine at a time: "I'll attach them to that request".
AttachedOnce == \A i \in Items : inSent[i] <= 1

\* What a user sends in pieces (attachments, a collection, a dictation to confirm)
\* reaches the agent once, with the exceptions named above.
StoredIsSentOnce == KeptUntilSent /\ SentOnce
=============================================================================
