---------------------------- MODULE UploadClient ----------------------------
(***************************************************************************)
(* The upload path of the Flutter client: UploadCoordinator with its       *)
(* UploadQueue, DedupStore and the connection settings, running against a  *)
(* server that is external to this module.                                 *)
(*                                                                         *)
(* Dart runs one isolate, so code between two awaits is atomic: an action  *)
(* is the code from one await to the next.  A POST is handled by the       *)
(* server in the step that sends it (its answer is stored in the field     *)
(* "reply"), and the client acts on the answer in a later step, so         *)
(* everything that can happen while a request is in flight can happen      *)
(* between the two.                                                        *)
(***************************************************************************)
EXTENDS UploadQueue

CONSTANTS
    NoText,      \* "no digest stored" / "no text in hand"
    Tasks,       \* concurrent uploadText calls (overlapping polls, manual input)
    Savers,      \* concurrent saveConnection calls (a form submitted again, a
                 \* dialog dismissed and reopened)
    Keys,        \* API keys that may ever be issued
    InitialKeys, \* keys valid at the start
    InitialKey,  \* the key the client is configured with
    Urls,        \* server base addresses
    Accounts,    \* accounts, over all servers
    AccountOf,   \* key -> account it authenticates
    HomeOf,      \* key -> address of the server that issued it
    Size,        \* text -> UTF-8 length
    ServerMax,   \* server address -> max_clipboard_text_bytes
    DefaultMax,  \* UploadCoordinator.maxUploadBytes
    MaxAttempt,  \* delays.length: index of the last attempt
    Budgets      \* bounds of the model: how often each event happens in a behaviour

ASSUME KeysAssumption ==
    /\ NoText \notin Texts
    /\ InitialKeys \subseteq Keys
    /\ InitialKey \in InitialKeys
    /\ AccountOf \in [Keys -> Accounts]
    /\ HomeOf \in [Keys -> Urls]

Events == {"uploads", "saves", "throws", "crashes"}
Counts == [Events -> Nat]

ASSUME LimitsAssumption ==
    /\ Size \in [Texts -> Nat]
    /\ ServerMax \in [Urls -> Nat \ {0}]
    /\ DefaultMax \in Nat \ {0}
    /\ MaxAttempt \in Nat
    /\ Budgets \subseteq Counts

VARIABLES
    wired,       \* whether the coordinator was given a queue: main.dart builds it
                 \* without one, its tests and its constructor allow for one
    task,        \* the uploadText calls
    flush,       \* the flushQueue loop: busy exactly when _flushing
    timer,       \* _flushTimer # null
    lastHash,    \* DedupStore.lastHash (persisted)
    conf,        \* SettingsStore: address, key, maxClipBytes (persisted)
    saver,       \* the saveConnection calls
    needsNewKey, \* banner "a new key is needed"
    rejected,    \* banner "refused because ..."
    pending,     \* SyncStatus.pendingCount
    online,      \* service and network healthy
    valid,       \* keys the servers accept
    issued,      \* keys ever issued
    accepted,    \* <<account, text>> the servers ever stored
    owed,        \* history: texts given up on after every attempt failed
    evicted,     \* history: texts the full queue dropped
    refused,     \* history: queued texts dropped because of a 413
    unannounced, \* history: texts came into the list by load, or by an enqueue that
                 \* threw, and no enqueue has returned since
    savesOverlap, pairUnsure, \* history: the saves under way overlapped; or a save
                 \* did, or broke off, and none has ended on its own since
    left         \* how often each bounded event may still happen

queueVars  == <<items, timer>>
configVars == <<lastHash, conf, saver, savesOverlap, pairUnsure>>
shownVars  == <<needsNewKey, rejected, pending>>
serverVars == <<online, valid, issued, accepted>>
ghostVars  == <<owed, evicted, refused, unannounced>>
vars == <<wired, task, flush, queueVars, configVars, shownVars, serverVars, ghostVars, left>>

Replies == {"none", "ok", "unauthorized", "tooLarge", "fail", "throws"}

Idle == [pc |-> "idle", text |-> NoText, attempt |-> 0, reply |-> "none"]

Sent(text, attempt, reply) ==
    [pc |-> "sent", text |-> text, attempt |-> attempt, reply |-> reply]

Resting == [pc |-> "idle", url |-> HomeOf[InitialKey], key |-> InitialKey]

Queued == ToSet(items)

Stored(text) == \E a \in Accounts : <<a, text>> \in accepted

Spend(event) == left[event] > 0 /\ left' = [left EXCEPT ![event] = @ - 1]

UploadCall == {Idle} \cup [pc : {"sent", "dedup", "persist", "persistFull"},
                           text : Texts, attempt : 0..MaxAttempt, reply : Replies]
FlushLoop  == {Idle} \cup [pc : {"sent", "persist", "dedup"},
                           text : Texts, attempt : 0..MaxAttempt, reply : Replies]
Connection == [url : Urls, key : Keys, maxBytes : Nat]
SaveCall   == [pc : {"idle", "validated", "clear", "key"}, url : Urls, key : Keys]

TypeOK ==
    /\ wired \in BOOLEAN
    /\ task \in [Tasks -> UploadCall]
    /\ flush \in FlushLoop
    /\ items \in Lists
    /\ timer \in BOOLEAN
    /\ lastHash \in Texts \cup {NoText}
    /\ conf \in Connection
    /\ saver \in [Savers -> SaveCall]
    /\ needsNewKey \in BOOLEAN
    /\ rejected \in {"none", "tooLarge", "queueFull"}
    /\ pending \in Nat
    /\ online \in BOOLEAN
    /\ valid \subseteq issued
    /\ issued \subseteq Keys
    /\ accepted \subseteq Accounts \X Texts
    /\ {owed, evicted, refused} \subseteq SUBSET Texts
    /\ {unannounced, savesOverlap, pairUnsure} \subseteq BOOLEAN
    /\ left \in Counts

----------------------------------------------------------------------------
(***************************************************************************)
(* One POST /api/v1/history with the address and key configured when it is *)
(* sent.  While the service is unhealthy the answer may be lost after the  *)
(* server stored the text, and an answer that is not JSON, or a TLS error, *)
(* escapes ApiClient._send, which catches http.ClientException only.       *)
(***************************************************************************)
Authorised(url, key) == key \in valid /\ HomeOf[key] = url

Post(text, reply) ==
    LET stored == accepted \cup {<<AccountOf[conf.key], text>>}
        known  == Authorised(conf.url, conf.key)
        fits   == Size[text] <= ServerMax[conf.url]
    IN  \/ /\ ~online
           /\ reply \in {"fail", "throws"}
           /\ \/ accepted' = accepted
              \/ known /\ fits /\ accepted' = stored
        \/ /\ online /\ known /\ fits
           /\ reply = "ok"
           /\ accepted' = stored
        \/ /\ online /\ ~known
           /\ reply = "unauthorized"
           /\ UNCHANGED accepted
        \/ /\ online /\ known /\ ~fits
           /\ reply = "tooLarge"
           /\ UNCHANGED accepted

EffectiveMax == IF conf.maxBytes > 0 THEN conf.maxBytes ELSE DefaultMax

----------------------------------------------------------------------------
(* flushQueue: the loop body after each await. *)

\* The head of the loop: send the oldest item.
SendHead(reply) ==
    /\ items # <<>>
    /\ Post(Head(items), reply)
    /\ flush' = Sent(Head(items), 0, reply)

\* Faulty variant: the finally block stops the timer unconditionally.
FlushEndsTimerless ==
    /\ flush' = Idle
    /\ pending' = Len(items)
    /\ timer' = FALSE

\* The finally block.
FlushEnds ==
    /\ flush' = Idle
    /\ pending' = Len(items)
    /\ timer' = (timer /\ items # <<>>)

\* flushQueue called by a finished upload: a no-op unless there is work to do.
CallFlush ==
    IF flush.pc = "idle" /\ items # <<>>
    THEN \E reply \in Replies : SendHead(reply)
    ELSE UNCHANGED <<flush, accepted>>

TimerTick ==
    /\ timer
    /\ flush.pc = "idle"
    /\ \E reply \in Replies : SendHead(reply)
    /\ UNCHANGED <<wired, task, queueVars, configVars, shownVars, online, valid, issued,
                   ghostVars, left>>

FlushRetry ==
    /\ flush.pc = "sent" /\ flush.reply = "fail" /\ flush.attempt < MaxAttempt
    /\ \E reply \in Replies :
          /\ Post(flush.text, reply)
          /\ flush' = Sent(flush.text, flush.attempt + 1, reply)
    /\ UNCHANGED <<wired, task, queueVars, configVars, shownVars, online, valid, issued,
                   ghostVars, left>>

\* Faulty variant: a 401 drops the item like a 413 does.
FlushStopsDropping ==
    /\ flush.pc = "sent" /\ flush.reply \in {"fail", "unauthorized", "throws"}
    /\ flush.reply = "fail" => flush.attempt = MaxAttempt
    /\ needsNewKey' = (needsNewKey \/ flush.reply = "unauthorized")
    /\ items' = IF flush.reply = "unauthorized" THEN Tail(items) ELSE items
    /\ flush' = Idle /\ pending' = Len(items') /\ timer' = (timer /\ items' # <<>>)
    /\ UNCHANGED <<wired, task, configVars, rejected, serverVars, ghostVars, left>>

\* The whole flush stops: no network, no valid key, or an escaped exception.
FlushStops ==
    /\ flush.pc = "sent"
    /\ \/ flush.reply = "fail" /\ flush.attempt = MaxAttempt /\ UNCHANGED needsNewKey
       \/ flush.reply = "unauthorized" /\ needsNewKey' = TRUE
       \/ flush.reply = "throws" /\ UNCHANGED needsNewKey
    /\ FlushEnds
    /\ UNCHANGED <<wired, task, items, configVars, rejected, serverVars, ghostVars, left>>

\* removeFirst takes what is first by now off the list, and awaits the file.
FlushRemoves ==
    /\ flush.pc = "sent" /\ flush.reply \in {"ok", "tooLarge"}
    /\ Pop
    /\ flush' = [flush EXCEPT !.pc = "persist"]
    /\ refused' = IF flush.reply = "tooLarge" THEN refused \cup {flush.text} ELSE refused
    /\ UNCHANGED <<wired, task, timer, configVars, shownVars, serverVars, owed, evicted,
                   unannounced, left>>

\* removeFirst returns after a success: store the digest.
FlushPersisted ==
    /\ flush.pc = "persist" /\ flush.reply = "ok"
    /\ lastHash' = flush.text
    /\ flush' = [flush EXCEPT !.pc = "dedup"]
    /\ UNCHANGED <<wired, task, queueVars, conf, saver, savesOverlap, pairUnsure, shownVars,
                   serverVars, ghostVars, left>>

\* The digest is stored, or removeFirst returns after a 413: go on with the loop.
FlushNext ==
    /\ \/ flush.pc = "dedup" /\ UNCHANGED rejected
       \/ flush.pc = "persist" /\ flush.reply = "tooLarge" /\ rejected' = "tooLarge"
    /\ \/ /\ \E reply \in Replies : SendHead(reply)
          /\ pending' = IF flush.pc = "dedup" THEN Len(items) ELSE pending
          /\ UNCHANGED timer
       \/ items = <<>> /\ FlushEnds /\ UNCHANGED accepted
    /\ UNCHANGED <<wired, task, items, configVars, needsNewKey, online, valid, issued,
                   ghostVars, left>>

\* A write to the file or of the digest throws: the loop ends, and the item is
\* gone from memory only.
FlushWriteThrows ==
    /\ flush.pc \in {"persist", "dedup"}
    /\ FlushEnds
    /\ UNCHANGED <<wired, task, items, configVars, needsNewKey, rejected, serverVars, ghostVars>>

----------------------------------------------------------------------------
(* uploadText *)

UploadSkipped(text) ==
    /\ text = lastHash
    /\ UNCHANGED <<task, rejected, accepted>>

UploadTooLong(text) ==
    /\ text # lastHash /\ Size[text] > EffectiveMax
    /\ rejected' = "tooLarge"
    /\ UNCHANGED <<task, accepted>>

UploadSent(t, text) ==
    /\ text # lastHash /\ Size[text] <= EffectiveMax
    /\ \E reply \in Replies :
          /\ Post(text, reply)
          /\ task' = [task EXCEPT ![t] = Sent(text, 0, reply)]
    /\ UNCHANGED rejected

Upload(t, text) ==
    /\ task[t].pc = "idle"
    /\ UploadSkipped(text) \/ UploadTooLong(text) \/ UploadSent(t, text)
    /\ Spend("uploads")
    /\ UNCHANGED <<wired, flush, queueVars, configVars, needsNewKey, pending, online, valid,
                   issued, ghostVars>>

\* Faulty variant: the retry loop runs one attempt too many.
UploadRetryLong(t) ==
    /\ task[t].pc = "sent" /\ task[t].reply = "fail" /\ task[t].attempt <= MaxAttempt
    /\ \E reply \in Replies :
          /\ Post(task[t].text, reply)
          /\ task' = [task EXCEPT ![t] = Sent(@.text, @.attempt + 1, reply)]
    /\ UNCHANGED <<wired, flush, queueVars, configVars, shownVars, online, valid, issued,
                   ghostVars, left>>

UploadRetry(t) ==
    /\ task[t].pc = "sent" /\ task[t].reply = "fail" /\ task[t].attempt < MaxAttempt
    /\ \E reply \in Replies :
          /\ Post(task[t].text, reply)
          /\ task' = [task EXCEPT ![t] = Sent(@.text, @.attempt + 1, reply)]
    /\ UNCHANGED <<wired, flush, queueVars, configVars, shownVars, online, valid, issued,
                   ghostVars, left>>

\* Faulty variant: the digest is updated whatever the answer was.
UploadSucceedsAnyway(t) ==
    /\ task[t].pc = "sent" /\ task[t].reply # "throws"
    /\ lastHash' = task[t].text
    /\ task' = [task EXCEPT ![t].pc = "dedup"]
    /\ UNCHANGED <<wired, flush, queueVars, conf, saver, savesOverlap, pairUnsure, shownVars,
                   serverVars, ghostVars, left>>

UploadSucceeds(t) ==
    /\ task[t].pc = "sent" /\ task[t].reply = "ok"
    /\ lastHash' = task[t].text
    /\ task' = [task EXCEPT ![t].pc = "dedup"]
    /\ UNCHANGED <<wired, flush, queueVars, conf, saver, savesOverlap, pairUnsure, shownVars,
                   serverVars, ghostVars, left>>

\* After dedup.update: clear the banner, note the success, flush the queue.
UploadNoted(t) ==
    /\ task[t].pc = "dedup"
    /\ task' = [task EXCEPT ![t] = Idle]
    /\ rejected' = "none"
    /\ pending' = Len(items)
    /\ CallFlush
    /\ UNCHANGED <<wired, queueVars, configVars, needsNewKey, online, valid, issued,
                   ghostVars, left>>

\* 401, 413 or an exception that escapes: the text is dropped at once.
UploadStops(t) ==
    /\ task[t].pc = "sent"
    /\ \/ task[t].reply = "unauthorized" /\ needsNewKey' = TRUE /\ UNCHANGED rejected
       \/ task[t].reply = "tooLarge" /\ rejected' = "tooLarge" /\ UNCHANGED needsNewKey
       \/ task[t].reply = "throws" /\ UNCHANGED <<needsNewKey, rejected>>
    /\ task' = [task EXCEPT ![t] = Idle]
    /\ UNCHANGED <<wired, flush, queueVars, configVars, pending, serverVars, ghostVars, left>>

\* UploadQueue.enqueue up to the await of _persist.
Enqueue(text) ==
    /\ Push(text)
    /\ evicted' = IF Full THEN evicted \cup {Head(items)} ELSE evicted

\* Every attempt failed.  Without a queue that is all; with one the text goes into
\* it, and enqueue awaits the file.
UploadGivesUp(t) ==
    /\ task[t].pc = "sent" /\ task[t].reply = "fail" /\ task[t].attempt = MaxAttempt
    /\ IF wired
       THEN /\ Enqueue(task[t].text)
            /\ task' = [task EXCEPT ![t].pc = IF Full THEN "persistFull" ELSE "persist"]
            /\ UNCHANGED owed
       ELSE /\ task' = [task EXCEPT ![t] = Idle]
            /\ owed' = owed \cup {task[t].text}
            /\ UNCHANGED <<items, evicted>>
    /\ UNCHANGED <<wired, flush, timer, configVars, shownVars, serverVars, refused,
                   unannounced, left>>

\* Faulty variants: enqueue returns without refreshing the pending count, or
\* without starting the timer.
UploadQueuedAs(t, shown, ticking) ==
    /\ task[t].pc \in {"persist", "persistFull"}
    /\ rejected' = IF task[t].pc = "persistFull" THEN "queueFull" ELSE rejected
    /\ pending' = shown
    /\ timer' = ticking
    /\ unannounced' = FALSE
    /\ owed' = owed \cup {task[t].text}
    /\ task' = [task EXCEPT ![t] = Idle]
    /\ UNCHANGED <<wired, flush, items, configVars, needsNewKey, serverVars, evicted, refused,
                   left>>
UploadQueuedUncounted(t) == UploadQueuedAs(t, pending, TRUE)
UploadQueuedUntimed(t)   == UploadQueuedAs(t, Len(items), timer)

\* enqueue returns: tell the user about the overflow, keep the timer running.
UploadQueued(t) ==
    /\ task[t].pc \in {"persist", "persistFull"}
    /\ rejected' = IF task[t].pc = "persistFull" THEN "queueFull" ELSE rejected
    /\ pending' = Len(items)
    /\ timer' = TRUE
    /\ unannounced' = FALSE
    /\ owed' = owed \cup {task[t].text}
    /\ task' = [task EXCEPT ![t] = Idle]
    /\ UNCHANGED <<wired, flush, items, configVars, needsNewKey, serverVars, evicted, refused,
                   left>>

\* A write to the file or of the digest throws, and with it uploadText.
UploadWriteThrows(t) ==
    /\ task[t].pc \in {"persist", "persistFull", "dedup"}
    /\ task' = [task EXCEPT ![t] = Idle]
    /\ unannounced' = (unannounced \/ task[t].pc # "dedup")
    /\ UNCHANGED <<wired, flush, queueVars, configVars, shownVars, serverVars, owed, evicted,
                   refused>>

----------------------------------------------------------------------------
(* saveConnection.  Nothing keeps a second call out while one is under way: a   *)
(* form may be submitted again, a dialog dismissed and reopened.                *)

OthersSave(s) == \E r \in Savers \ {s} : saver[r].pc # "idle"

\* validate() succeeded, and read the server's limit unless /meta failed.
SaveValidated(s, url, key) ==
    /\ saver[s].pc = "idle"
    /\ online /\ Authorised(url, key)
    /\ saver' = [saver EXCEPT ![s] = [pc |-> "validated", url |-> url, key |-> key]]
    /\ \/ conf' = [conf EXCEPT !.maxBytes = ServerMax[url]]
       \/ UNCHANGED conf
    /\ savesOverlap' = OthersSave(s)
    /\ pairUnsure' = (pairUnsure \/ OthersSave(s))
    /\ Spend("saves")
    /\ UNCHANGED <<wired, task, flush, queueVars, lastHash, shownVars, serverVars, ghostVars>>

\* What saveConnection does after validate() leaves uploads and queue alone.
SaveMoves(s, pc) ==
    /\ saver' = [saver EXCEPT ![s].pc = pc]
    /\ UNCHANGED <<wired, task, flush, queueVars, savesOverlap, shownVars, serverVars,
                   ghostVars, left>>

\* Faulty variant: the new address is not stored.
SaveUrlForgotten(s) ==
    /\ saver[s].pc = "validated"
    /\ SaveMoves(s, IF conf.key # saver[s].key THEN "clear" ELSE "key")
    /\ UNCHANGED <<conf, lastHash, pairUnsure>>

\* keyChanged is computed, and the address stored, before anything is awaited.
SaveUrl(s) ==
    /\ saver[s].pc = "validated"
    /\ conf' = [conf EXCEPT !.url = saver[s].url]
    /\ SaveMoves(s, IF conf.key # saver[s].key THEN "clear" ELSE "key")
    /\ UNCHANGED <<lastHash, pairUnsure>>

\* A changed key clears the digest first.
SaveClears(s) ==
    /\ saver[s].pc = "clear"
    /\ lastHash' = NoText
    /\ SaveMoves(s, "key")
    /\ UNCHANGED <<conf, pairUnsure>>

SaveKey(s) ==
    /\ saver[s].pc = "key"
    /\ conf' = [conf EXCEPT !.key = saver[s].key]
    /\ SaveMoves(s, "idle")
    /\ pairUnsure' = (pairUnsure /\ savesOverlap)
    /\ UNCHANGED lastHash

\* Storing the address or clearing the digest throws: the key is not stored.
SaveThrows(s) ==
    /\ saver[s].pc \in {"clear", "key"}
    /\ saver' = [saver EXCEPT ![s].pc = "idle"]
    /\ pairUnsure' = TRUE
    /\ UNCHANGED <<wired, task, flush, queueVars, lastHash, conf, savesOverlap, shownVars,
                   serverVars, ghostVars>>

SaveStep(s) == SaveUrl(s) \/ SaveClears(s) \/ SaveKey(s)

----------------------------------------------------------------------------
(* The environment and the process itself *)

clientVars == <<wired, task, flush, queueVars>>

GoOffline ==
    /\ online /\ online' = FALSE
    /\ UNCHANGED <<clientVars, configVars, shownVars, valid, issued, accepted, ghostVars, left>>

GoOnline ==
    /\ ~online /\ online' = TRUE
    /\ UNCHANGED <<clientVars, configVars, shownVars, valid, issued, accepted, ghostVars, left>>

\* The owner resets a key in the web console: the old one stops working.
ResetKey(old, new) ==
    /\ old \in valid /\ new \in Keys \ issued
    /\ AccountOf[new] = AccountOf[old] /\ HomeOf[new] = HomeOf[old]
    /\ valid' = (valid \ {old}) \cup {new}
    /\ issued' = issued \cup {new}
    /\ UNCHANGED <<clientVars, configVars, shownVars, online, accepted, ghostVars, left>>

\* The user dismisses one of the two banners.
DismissBanner ==
    /\ \/ needsNewKey /\ needsNewKey' = FALSE /\ UNCHANGED rejected
       \/ rejected # "none" /\ rejected' = "none" /\ UNCHANGED needsNewKey
    /\ UNCHANGED <<clientVars, configVars, pending, serverVars, ghostVars, left>>

\* The process dies and is started again: a new coordinator with no timer and an
\* empty status, and the list that load has found (see UploadOnDisk).
CrashRestart(loaded) ==
    /\ task' = [t \in Tasks |-> Idle]
    /\ flush' = Idle
    /\ items' = loaded
    /\ timer' = FALSE
    /\ saver' = [s \in Savers |-> Resting]
    /\ savesOverlap' = FALSE
    /\ pairUnsure' = (pairUnsure \/ \E s \in Savers : saver[s].pc # "idle")
    /\ needsNewKey' = FALSE /\ rejected' = "none" /\ pending' = 0
    /\ unannounced' = (loaded # <<>>)
    /\ Spend("crashes")
    /\ UNCHANGED <<wired, lastHash, conf, serverVars, owed, evicted, refused>>

----------------------------------------------------------------------------
\* main() has loaded the queue, if the coordinator is given one.
Init ==
    /\ wired \in BOOLEAN
    /\ task = [t \in Tasks |-> Idle]
    /\ flush = Idle
    /\ items \in IF wired THEN Found ELSE {<<>>}
    /\ timer = FALSE
    /\ lastHash = NoText
    /\ conf = [url |-> HomeOf[InitialKey], key |-> InitialKey, maxBytes |-> 0]
    /\ saver = [s \in Savers |-> Resting]
    /\ savesOverlap = FALSE /\ pairUnsure = FALSE
    /\ needsNewKey = FALSE /\ rejected = "none" /\ pending = 0
    /\ online = TRUE
    /\ valid = InitialKeys /\ issued = InitialKeys
    /\ accepted = {}
    /\ owed = ToSet(items) /\ evicted = {} /\ refused = {}
    /\ unannounced = (items # <<>>)
    /\ left \in Budgets

UploadStep(t) ==
    \/ UploadRetry(t) \/ UploadSucceeds(t) \/ UploadNoted(t)
    \/ UploadStops(t) \/ UploadGivesUp(t) \/ UploadQueued(t)

FlushStep ==
    \/ TimerTick \/ FlushRetry \/ FlushStops \/ FlushRemoves
    \/ FlushPersisted \/ FlushNext

Environment ==
    \/ GoOffline \/ GoOnline \/ DismissBanner
    \/ \E k, l \in Keys : ResetKey(k, l)

Next ==
    \/ \E t \in Tasks, x \in Texts : Upload(t, x)
    \/ \E t \in Tasks : UploadStep(t)
    \/ FlushStep
    \/ \E s \in Savers, u \in Urls, k \in Keys : SaveValidated(s, u, k)
    \/ \E s \in Savers : SaveStep(s)
    \/ Environment
    \/ /\ Spend("throws")
       /\ \/ FlushWriteThrows
          \/ \E t \in Tasks : UploadWriteThrows(t)
          \/ \E s \in Savers : SaveThrows(s)

Spec == Init /\ [][Next]_vars

\* Weak fairness of what the program and its machine do on their own: the timer
\* ticks, and a write to the local disk ends, as does the step after it.  Nothing
\* is assumed of the user, and nothing of the network: no request has a timeout,
\* so none need be answered.
Fairness ==
    /\ WF_vars(TimerTick)
    /\ WF_vars(FlushPersisted)
    /\ WF_vars(FlushNext)
    /\ \A t \in Tasks : WF_vars(UploadNoted(t)) /\ WF_vars(UploadQueued(t))

FairSpec == Spec /\ Fairness

----------------------------------------------------------------------------
(***************************************************************************)
(* Properties                                                              *)
(***************************************************************************)

\* removeFirst removes by position what flushQueue uploaded by value.  As long
\* as no overflow took the head away, the text in flight is still the head.
FlushHoldsHead ==
    evicted = {} /\ flush.pc = "sent" => items # <<>> /\ Head(items) = flush.text

\* A text that was given up on, or that load found, stays in the queue until a
\* server stored it or a 413 refused it.  Only an overflow takes it away, or the
\* want of a queue: main.dart gives its coordinator none.
LossNeedsOverflow ==
    \A x \in owed : \/ x \in Queued \/ Stored(x) \/ x \in refused
                    \/ evicted # {} \/ ~wired

Enqueuing == \E t \in Tasks : task[t].pc \in {"persist", "persistFull"}

\* The digest that suppresses an upload is that of a text some server stored.
\* No failed, lost or refused upload can make a later copy look like a repeat.
DigestWasStored == lastHash # NoText => Stored(lastHash)

\* Saves that overlap, or that break off, may leave the address of one server with
\* the key of another; a save that runs on its own repairs that.  In all other
\* states outside saveConnection the stored address and key belong together.
SavedPairMatches ==
    ~pairUnsure /\ (\A s \in Savers : saver[s].pc = "idle") => HomeOf[conf.key] = conf.url

\* A queue that is not empty has somebody who will try again: the timer, a flush
\* in progress, or an enqueue that is about to start the timer.  The exception
\* are texts that came by load, or by an enqueue that threw, until the next
\* enqueue returns.
QueueHasRetrier ==
    items = <<>> \/ timer \/ flush.pc # "idle" \/ Enqueuing \/ unannounced

\* With the same exception, the number of pending texts shown in the tray is right
\* whenever the uploader is at rest.
PendingShown == flush.pc = "idle" /\ ~Enqueuing /\ ~unannounced => pending = Len(items)

\* If the service stays up and the stored connection stays good, if each request
\* of the flush is answered or fails in the end, and if no text is left in the
\* list without the timer for ever, then the queue is emptied again and again.
Connected == online /\ Authorised(conf.url, conf.key)
QueueDrains ==
    <>[]Connected /\ []<>(flush.pc # "sent") /\ []<>~unannounced => []<>(items = <<>>)

----------------------------------------------------------------------------
(* The strengthening under which the safety properties above are inductive. *)

\* A success in hand, not yet acted upon, is a text the server has stored.
AnswersAreTrue ==
    /\ \A t \in Tasks : task[t].pc = "sent" /\ task[t].reply = "ok" => Stored(task[t].text)
    /\ flush.pc \in {"sent", "persist"} /\ flush.reply = "ok" => Stored(flush.text)

\* A text being enqueued is in the queue, or was flushed from it meanwhile.
EnqueuedIsHeld ==
    evicted = {} =>
        \A t \in Tasks : task[t].pc \in {"persist", "persistFull"} =>
            \/ task[t].text \in Queued
            \/ Stored(task[t].text)
            \/ task[t].text \in refused

\* A coordinator without a queue has nothing in it.
NothingUnwired ==
    ~wired => /\ items = <<>> /\ ~timer /\ flush = Idle
              /\ \A t \in Tasks : task[t].pc \notin {"persist", "persistFull"}

SafetyInv ==
    /\ TypeOK
    /\ DigestWasStored
    /\ FlushHoldsHead
    /\ LossNeedsOverflow
    /\ AnswersAreTrue
    /\ EnqueuedIsHeld

----------------------------------------------------------------------------
(* What the repository says, and the code does not always keep. *)

\* What upload_coordinator.dart:26-28 says: after three failures a text is not
\* silently dropped but kept for a later attempt.  Only the overflow policy,
\* which is announced to the user, and a 413 may drop it.
NoSilentLoss ==
    wired => \A x \in owed : x \in Queued \/ Stored(x) \/ x \in refused \/ x \in evicted
=============================================================================
