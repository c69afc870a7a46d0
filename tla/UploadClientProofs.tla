------------------------- MODULE UploadClientProofs -------------------------
(***************************************************************************)
(* Theorems about UploadClient, for every value of its constants.          *)
(***************************************************************************)
EXTENDS UploadClient, SequenceTheorems, TLAPS

(* Sequences seen as the set of their elements. *)

\* Appending an element to a sequence adds it to the set.
LEMMA ToSetAppend ==
    ASSUME NEW S, NEW s \in Seq(S), NEW e \in S
    PROVE  ToSet(Append(s, e)) = ToSet(s) \cup {e}
<1>1. /\ DOMAIN s = 1..Len(s)
      /\ DOMAIN Append(s, e) = 1..(Len(s) + 1)
      /\ \A i \in 1..Len(s) : Append(s, e)[i] = s[i]
      /\ Append(s, e)[Len(s) + 1] = e
      /\ Len(s) \in Nat
  BY AppendProperties, LenProperties
<1>2. ASSUME NEW x \in ToSet(Append(s, e)) PROVE x \in ToSet(s) \cup {e}
  BY <1>1 DEF ToSet
<1>3. ASSUME NEW x \in ToSet(s) PROVE x \in ToSet(Append(s, e))
  <2>1. PICK i \in 1..Len(s) : x = s[i]
    BY <1>1 DEF ToSet
  <2>2. i \in 1..(Len(s) + 1) /\ Append(s, e)[i] = x
    BY <1>1, <2>1
  <2> QED BY <1>1, <2>2 DEF ToSet
<1>4. e \in ToSet(Append(s, e))
  <2>1. Len(s) + 1 \in 1..(Len(s) + 1)
    BY <1>1
  <2> QED BY <1>1, <2>1 DEF ToSet
<1> QED BY <1>2, <1>3, <1>4

\* A non-empty sequence holds its head and what its tail holds.
LEMMA ToSetTail ==
    ASSUME NEW S, NEW s \in Seq(S), s # <<>>
    PROVE  ToSet(s) = {Head(s)} \cup ToSet(Tail(s))
<1>1. /\ DOMAIN s = 1..Len(s)
      /\ Len(s) \in Nat /\ Len(s) # 0
      /\ DOMAIN Tail(s) = 1..(Len(s) - 1)
      /\ \A i \in 1..(Len(s) - 1) : Tail(s)[i] = s[i + 1]
      /\ Head(s) = s[1]
  BY HeadTailProperties, LenProperties, EmptySeq
<1>2. ASSUME NEW x \in ToSet(s) PROVE x \in {Head(s)} \cup ToSet(Tail(s))
  <2>1. PICK i \in 1..Len(s) : x = s[i]
    BY <1>1 DEF ToSet
  <2>2. CASE i = 1
    BY <1>1, <2>1, <2>2
  <2>3. CASE i # 1
    <3>1. i - 1 \in 1..(Len(s) - 1) /\ Tail(s)[i - 1] = s[i]
      BY <1>1, <2>1, <2>3
    <3> QED BY <1>1, <2>1, <3>1 DEF ToSet
  <2> QED BY <2>2, <2>3
<1>3. ASSUME NEW x \in ToSet(Tail(s)) PROVE x \in ToSet(s)
  <2>1. PICK i \in 1..(Len(s) - 1) : x = s[i + 1]
    BY <1>1 DEF ToSet
  <2>2. i + 1 \in 1..Len(s)
    BY <1>1, <2>1
  <2> QED BY <1>1, <2>1, <2>2 DEF ToSet
<1>4. Head(s) \in ToSet(s)
  <2>1. 1 \in 1..Len(s)
    BY <1>1
  <2> QED BY <1>1, <2>1 DEF ToSet
<1> QED BY <1>2, <1>3, <1>4

----------------------------------------------------------------------------
(* The values the two kinds of process take. *)

\* What a send, a wait and a return write into a process record is a record of
\* the right kind.
LEMMA CallShapes ==
    /\ Idle \in UploadCall
    /\ Idle \in FlushLoop
    /\ \A x \in Texts, n \in 0..MaxAttempt, r \in Replies :
          Sent(x, n, r) \in UploadCall /\ Sent(x, n, r) \in FlushLoop
    /\ \A c \in UploadCall : c.pc # "idle" =>
          /\ c.text \in Texts /\ c.attempt \in 0..MaxAttempt /\ c.reply \in Replies
          /\ \A p \in {"dedup", "persist", "persistFull"} : [c EXCEPT !.pc = p] \in UploadCall
    /\ \A c \in FlushLoop : c.pc # "idle" =>
          /\ c.text \in Texts /\ c.attempt \in 0..MaxAttempt /\ c.reply \in Replies
          /\ \A p \in {"dedup", "persist"} : [c EXCEPT !.pc = p] \in FlushLoop
  BY DEF UploadCall, FlushLoop, Idle, Sent

\* The attempt counter can be advanced while it is below its last value.
LEMMA NextAttempt ==
    \A n \in 0..MaxAttempt : n < MaxAttempt => n + 1 \in 0..MaxAttempt
  BY LimitsAssumption

\* One POST never stores a text under anything but an account, and never
\* removes one: used for each of the actions that send.
LEMMA PostStores ==
    ASSUME TypeOK, NEW x \in Texts, NEW r, Post(x, r)
    PROVE  /\ r \in Replies
           /\ accepted' \subseteq Accounts \X Texts
           /\ accepted \subseteq accepted'
           /\ r = "ok" => <<AccountOf[conf.key], x>> \in accepted'
           /\ AccountOf[conf.key] \in Accounts
  BY KeysAssumption DEF Post, TypeOK, Replies, Connection

\* The same for the flush loop sending the head of the queue.
LEMMA SendHeadStores ==
    ASSUME TypeOK, NEW r, SendHead(r)
    PROVE  /\ items # <<>> /\ Head(items) \in Texts
           /\ r \in Replies
           /\ flush' = Sent(Head(items), 0, r)
           /\ flush' \in FlushLoop
           /\ accepted' \subseteq Accounts \X Texts
           /\ accepted \subseteq accepted'
           /\ r = "ok" => <<AccountOf[conf.key], Head(items)>> \in accepted'
<1>1. items # <<>> /\ items \in Seq(Texts) /\ Post(Head(items), r)
         /\ flush' = Sent(Head(items), 0, r)
  BY DEF SendHead, TypeOK, Lists
<1>2. Head(items) \in Texts
  BY <1>1, HeadTailProperties
<1>3. 0 \in 0..MaxAttempt
  BY LimitsAssumption
<1> QED BY <1>1, <1>2, <1>3, PostStores, CallShapes

\* What an enqueue does to the queue: the text is added at the end, and a full
\* queue first loses its head, which is then recorded as evicted.
LEMMA EnqueueEffect ==
    ASSUME NEW x \in Texts, items \in Lists, evicted \subseteq Texts, Enqueue(x)
    PROVE  /\ items' \in Lists /\ evicted' \subseteq Texts
           /\ x \in ToSet(items') /\ items' # <<>>
           /\ evicted \subseteq evicted'
           /\ evicted' = {} => /\ items' = Append(items, x)
                               /\ ToSet(items') = ToSet(items) \cup {x}
<1>0. /\ Len(items) \in Nat /\ MaxItems \in Nat /\ MaxItems > 0
      /\ items \in Seq(Texts) /\ Len(items) <= MaxItems
  BY LenProperties, QueueAssumption DEF Lists
<1>1. CASE Full
  <2>1. items # <<>>
    BY <1>0, <1>1, EmptySeq DEF Full
  <2>2. Tail(items) \in Seq(Texts) /\ Head(items) \in Texts /\ Len(Tail(items)) = Len(items) - 1
    BY <1>0, <2>1, HeadTailProperties
  <2>3. items' = Append(Tail(items), x) /\ evicted' = evicted \cup {Head(items)}
    BY <1>1 DEF Enqueue, Push
  <2>4. items' \in Seq(Texts) /\ items' # <<>> /\ Len(items') = Len(items)
    BY <1>0, <2>2, <2>3, AppendProperties
  <2>5. x \in ToSet(items')
    <3>1. PICK s \in Seq(Texts) : s = Tail(items)
      BY <2>2
    <3>2. ToSet(Append(s, x)) = ToSet(s) \cup {x}
      BY ToSetAppend
    <3> QED BY <2>3, <3>1, <3>2
  <2>6. evicted' # {} /\ evicted' \subseteq Texts /\ evicted \subseteq evicted'
    BY <2>2, <2>3
  <2>7. items' \in Lists
    BY <1>0, <2>4 DEF Lists
  <2> QED BY <2>4, <2>5, <2>6, <2>7
<1>2. CASE ~Full
  <2>1. items' = Append(items, x) /\ evicted' = evicted
    BY <1>2 DEF Enqueue, Push
  <2>2. items' \in Seq(Texts) /\ items' # <<>> /\ Len(items') = Len(items) + 1
    BY <1>0, <2>1, AppendProperties
  <2>3. ToSet(items') = ToSet(items) \cup {x}
    BY <1>0, <2>1, ToSetAppend
  <2>4. items' \in Lists
    BY <1>0, <1>2, <2>2 DEF Lists, Full
  <2> QED BY <2>1, <2>2, <2>3, <2>4
<1> QED BY <1>1, <1>2

\* Taking the head off keeps the list within its bound.
LEMMA PopEffect ==
    ASSUME items \in Lists, Pop
    PROVE  items' \in Lists /\ (items = <<>> => items' = <<>>)
<1>1. CASE items = <<>>
  BY <1>1 DEF Pop
<1>2. CASE items # <<>>
  <2>1. items \in Seq(Texts) /\ Len(items) <= MaxItems /\ MaxItems \in Nat
    BY QueueAssumption DEF Lists
  <2>2. /\ Tail(items) \in Seq(Texts) /\ Len(Tail(items)) = Len(items) - 1
        /\ Len(items) \in Nat
    BY <1>2, <2>1, HeadTailProperties, LenProperties
  <2> QED BY <1>2, <2>1, <2>2 DEF Pop, Lists
<1> QED BY <1>1, <1>2

\* Counting an event down keeps the counts natural numbers.
LEMMA SpendType ==
    ASSUME left \in Counts, NEW e \in Events, Spend(e)
    PROVE  left' \in Counts
  BY DEF Spend, Counts

LEMMA EmptyList == <<>> \in Lists
<1>1. <<>> \in Seq(Texts) /\ Len(<<>>) = 0
  BY EmptySeq
<1> QED BY <1>1, QueueAssumption DEF Lists

----------------------------------------------------------------------------
(* A step of the client, whether or not its exceptions are counted: Next, and   *)
(* the steps of UploadOnDisk but for its restarts.                               *)

Surprise ==
    /\ left' \in Counts
    /\ \/ FlushWriteThrows
       \/ \E t \in Tasks : UploadWriteThrows(t)
       \/ \E s \in Savers : SaveThrows(s)

ClientStep ==
    \/ \E t \in Tasks, x \in Texts : Upload(t, x)
    \/ \E t \in Tasks : UploadStep(t)
    \/ FlushStep
    \/ \E s \in Savers, u \in Urls, k \in Keys : SaveValidated(s, u, k)
    \/ \E s \in Savers : SaveStep(s)
    \/ Environment
    \/ Surprise

LEMMA NextIsClientStep == TypeOK /\ [Next]_vars => [ClientStep]_vars
<1> SUFFICES ASSUME TypeOK, Next PROVE ClientStep
  OBVIOUS
<1>1. ASSUME Spend("throws") PROVE left' \in Counts
  BY <1>1, SpendType DEF TypeOK, Events
<1> QED BY <1>1 DEF Next, ClientStep, Surprise

----------------------------------------------------------------------------
(* Type correctness *)

\* Every step of the client keeps every variable in its type.
LEMMA TypeStep == TypeOK /\ [ClientStep]_vars => TypeOK'
<1> SUFFICES ASSUME TypeOK, [ClientStep]_vars PROVE TypeOK'
  OBVIOUS
<1> USE DEF queueVars
<1>a. Len(items) \in Nat /\ 0 \in 0..MaxAttempt
  BY LenProperties, LimitsAssumption DEF TypeOK, Lists
<1>1. ASSUME NEW t \in Tasks, NEW x \in Texts, Upload(t, x) PROVE TypeOK'
  <2>1. left' \in Counts
    BY <1>1, SpendType DEF Upload, TypeOK, Events
  <2>2. task' \in [Tasks -> UploadCall] /\ accepted' \subseteq Accounts \X Texts
        /\ rejected' \in {"none", "tooLarge", "queueFull"}
    <3>1. CASE UploadSkipped(x) \/ UploadTooLong(x)
      BY <3>1 DEF UploadSkipped, UploadTooLong, TypeOK
    <3>2. CASE UploadSent(t, x)
      <4>1. PICK r \in Replies :
                Post(x, r) /\ task' = [task EXCEPT ![t] = Sent(x, 0, r)]
        BY <3>2 DEF UploadSent
      <4>2. accepted' \subseteq Accounts \X Texts
        BY <4>1, PostStores
      <4>3. Sent(x, 0, r) \in UploadCall
        BY <4>1, <1>a, CallShapes
      <4> QED BY <3>2, <4>1, <4>2, <4>3 DEF UploadSent, TypeOK
    <3> QED BY <1>1, <3>1, <3>2 DEF Upload
  <2> QED BY <1>1, <2>1, <2>2 DEF Upload, TypeOK, configVars, ghostVars
<1>2. ASSUME NEW t \in Tasks, UploadRetry(t) PROVE TypeOK'
  <2>1. task[t] \in UploadCall /\ task[t].text \in Texts
        /\ task[t].attempt + 1 \in 0..MaxAttempt
    BY <1>2, CallShapes, NextAttempt DEF UploadRetry, TypeOK
  <2>2. task' \in [Tasks -> UploadCall] /\ accepted' \subseteq Accounts \X Texts
    <3>1. PICK r \in Replies :
              /\ Post(task[t].text, r)
              /\ task' = [task EXCEPT ![t] = Sent(task[t].text, task[t].attempt + 1, r)]
      BY <1>2 DEF UploadRetry
    <3>2. accepted' \subseteq Accounts \X Texts
      BY <2>1, <3>1, PostStores
    <3>3. Sent(task[t].text, task[t].attempt + 1, r) \in UploadCall
      BY <2>1, <3>1, CallShapes
    <3> QED BY <3>1, <3>2, <3>3 DEF TypeOK
  <2> QED BY <1>2, <2>2 DEF UploadRetry, TypeOK, configVars, shownVars, ghostVars
<1>3. ASSUME NEW t \in Tasks, UploadSucceeds(t) PROVE TypeOK'
  <2>1. task[t].text \in Texts /\ task' \in [Tasks -> UploadCall]
    BY <1>3, CallShapes DEF UploadSucceeds, TypeOK
  <2> QED BY <1>3, <2>1 DEF UploadSucceeds, TypeOK, shownVars, serverVars, ghostVars
<1>4. ASSUME NEW t \in Tasks, UploadNoted(t) PROVE TypeOK'
  <2>1. flush' \in FlushLoop /\ accepted' \subseteq Accounts \X Texts
    BY <1>4, SendHeadStores DEF UploadNoted, CallFlush, TypeOK
  <2>2. task' \in [Tasks -> UploadCall]
    BY <1>4, CallShapes DEF UploadNoted, TypeOK
  <2> QED BY <1>4, <1>a, <2>1, <2>2 DEF UploadNoted, TypeOK, configVars, ghostVars
<1>5. ASSUME NEW t \in Tasks, UploadStops(t) PROVE TypeOK'
  <2>1. task' \in [Tasks -> UploadCall]
    BY <1>5, CallShapes DEF UploadStops, TypeOK
  <2> QED BY <1>5, <2>1 DEF UploadStops, TypeOK, configVars, serverVars, ghostVars
<1>6. ASSUME NEW t \in Tasks, UploadGivesUp(t) PROVE TypeOK'
  <2>1. task[t].text \in Texts /\ task' \in [Tasks -> UploadCall]
    <3>1. task[t] \in UploadCall /\ task[t].pc # "idle"
      BY <1>6 DEF UploadGivesUp, TypeOK
    <3>2. /\ task[t].text \in Texts
          /\ [task[t] EXCEPT !.pc = "persist"] \in UploadCall
          /\ [task[t] EXCEPT !.pc = "persistFull"] \in UploadCall
      BY <3>1, CallShapes
    <3>3. \E c \in UploadCall : task' = [task EXCEPT ![t] = c]
      BY <1>6, <3>2, CallShapes DEF UploadGivesUp
    <3> QED BY <3>2, <3>3 DEF TypeOK
  <2>2. items' \in Lists /\ evicted' \subseteq Texts
    <3>1. CASE wired
      BY <1>6, <2>1, <3>1, EnqueueEffect DEF UploadGivesUp, TypeOK
    <3>2. CASE ~wired
      BY <1>6, <3>2 DEF UploadGivesUp, TypeOK
    <3> QED BY <3>1, <3>2
  <2> QED BY <1>6, <2>1, <2>2
          DEF UploadGivesUp, TypeOK, configVars, shownVars, serverVars
<1>7. ASSUME NEW t \in Tasks, UploadQueued(t) PROVE TypeOK'
  <2>1. task[t].text \in Texts /\ task' \in [Tasks -> UploadCall]
    BY <1>7, CallShapes DEF UploadQueued, TypeOK
  <2> QED BY <1>7, <1>a, <2>1 DEF UploadQueued, TypeOK, configVars, serverVars
<1>8. ASSUME NEW t \in Tasks, left' \in Counts, UploadWriteThrows(t) PROVE TypeOK'
  <2>1. task' \in [Tasks -> UploadCall]
    BY <1>8, CallShapes DEF UploadWriteThrows, TypeOK
  <2>2. unannounced' \in BOOLEAN
    BY <1>8 DEF UploadWriteThrows, TypeOK
  <2> QED BY <1>8, <2>1, <2>2
          DEF UploadWriteThrows, TypeOK, configVars, shownVars, serverVars
<1>9. ASSUME TimerTick PROVE TypeOK'
  <2>1. flush' \in FlushLoop /\ accepted' \subseteq Accounts \X Texts
    BY <1>9, SendHeadStores DEF TimerTick
  <2> QED BY <1>9, <2>1 DEF TimerTick, TypeOK, configVars, shownVars, ghostVars
<1>10. ASSUME FlushRetry PROVE TypeOK'
  <2>1. flush.text \in Texts /\ flush.attempt + 1 \in 0..MaxAttempt
    BY <1>10, CallShapes, NextAttempt DEF FlushRetry, TypeOK
  <2>2. flush' \in FlushLoop /\ accepted' \subseteq Accounts \X Texts
    <3>1. PICK reply \in Replies :
             /\ Post(flush.text, reply)
             /\ flush' = Sent(flush.text, flush.attempt + 1, reply)
      BY <1>10 DEF FlushRetry
    <3>2. accepted' \subseteq Accounts \X Texts
      BY <2>1, <3>1, PostStores
    <3> QED BY <2>1, <3>1, <3>2, CallShapes
  <2> QED BY <1>10, <2>2 DEF FlushRetry, TypeOK, configVars, shownVars, ghostVars
<1>11. ASSUME FlushStops PROVE TypeOK'
  <2>1. timer' \in BOOLEAN /\ needsNewKey' \in BOOLEAN
    BY <1>11 DEF FlushStops, FlushEnds, TypeOK
  <2> QED BY <1>11, <1>a, <2>1, CallShapes
          DEF FlushStops, FlushEnds, TypeOK, configVars, serverVars, ghostVars
<1>12. ASSUME FlushRemoves PROVE TypeOK'
  <2>1. flush' \in FlushLoop /\ flush.text \in Texts
    BY <1>12, CallShapes DEF FlushRemoves, TypeOK
  <2>2. items' \in Lists
    BY <1>12, PopEffect DEF FlushRemoves, TypeOK
  <2> QED BY <1>12, <2>1, <2>2 DEF FlushRemoves, TypeOK, configVars, shownVars, serverVars
<1>13. ASSUME FlushPersisted PROVE TypeOK'
  <2>1. flush' \in FlushLoop /\ flush.text \in Texts
    BY <1>13, CallShapes DEF FlushPersisted, TypeOK
  <2> QED BY <1>13, <2>1 DEF FlushPersisted, TypeOK, shownVars, serverVars, ghostVars
<1>14. ASSUME FlushNext PROVE TypeOK'
  <2>1. rejected' \in {"none", "tooLarge", "queueFull"}
    BY <1>14 DEF FlushNext, TypeOK
  <2>2. flush' \in FlushLoop /\ accepted' \subseteq Accounts \X Texts
        /\ pending' \in Nat /\ timer' \in BOOLEAN
    <3>1. CASE \E reply \in Replies : SendHead(reply)
      BY <1>14, <1>a, <3>1, SendHeadStores DEF FlushNext, FlushEnds, TypeOK
    <3>2. CASE FlushEnds /\ UNCHANGED accepted
      BY <1>a, <3>2, CallShapes DEF FlushEnds, TypeOK
    <3> QED BY <1>14, <3>1, <3>2, <1>a DEF FlushNext, TypeOK
  <2> QED BY <1>14, <2>1, <2>2 DEF FlushNext, TypeOK, configVars, ghostVars
<1>15. ASSUME left' \in Counts, FlushWriteThrows PROVE TypeOK'
  <2>1. timer' \in BOOLEAN
    BY <1>15 DEF FlushWriteThrows, FlushEnds, TypeOK
  <2> QED BY <1>15, <2>1, <1>a, CallShapes
          DEF FlushWriteThrows, FlushEnds, TypeOK, configVars, serverVars, ghostVars
<1>16. ASSUME NEW s \in Savers, NEW u \in Urls, NEW k \in Keys, SaveValidated(s, u, k)
       PROVE  TypeOK'
  <2>1. left' \in Counts
    BY <1>16, SpendType DEF SaveValidated, TypeOK, Events
  <2>2. conf' \in Connection /\ saver' \in [Savers -> SaveCall]
    BY <1>16, LimitsAssumption DEF SaveValidated, TypeOK, Connection, SaveCall
  <2>3. savesOverlap' \in BOOLEAN /\ pairUnsure' \in BOOLEAN
    BY <1>16 DEF SaveValidated, OthersSave, TypeOK
  <2> QED BY <1>16, <2>1, <2>2, <2>3
          DEF SaveValidated, TypeOK, shownVars, serverVars, ghostVars
<1>17. ASSUME NEW s \in Savers, SaveStep(s) PROVE TypeOK'
  <2>1. conf' \in Connection /\ lastHash' \in Texts \cup {NoText} /\ pairUnsure' \in BOOLEAN
    BY <1>17, KeysAssumption
       DEF SaveStep, SaveUrl, SaveClears, SaveKey, TypeOK, Connection, SaveCall
  <2>2. PICK pc \in {"idle", "clear", "key"} : SaveMoves(s, pc)
    BY <1>17 DEF SaveStep, SaveUrl, SaveClears, SaveKey
  <2>3. saver' \in [Savers -> SaveCall]
    BY <2>2 DEF SaveMoves, TypeOK, SaveCall
  <2> QED BY <2>1, <2>2, <2>3 DEF SaveMoves, TypeOK, shownVars, serverVars, ghostVars
<1>18. ASSUME GoOffline \/ GoOnline \/ DismissBanner PROVE TypeOK'
  BY <1>18 DEF GoOffline, GoOnline, DismissBanner, TypeOK, clientVars, configVars,
               shownVars, serverVars, ghostVars
<1>19. ASSUME NEW k \in Keys, NEW l \in Keys, ResetKey(k, l) PROVE TypeOK'
  BY <1>19 DEF ResetKey, TypeOK, clientVars, configVars, shownVars, ghostVars
<1>20. ASSUME left' \in Counts, NEW s \in Savers, SaveThrows(s) PROVE TypeOK'
  <2>1. saver' \in [Savers -> SaveCall]
    BY <1>20 DEF SaveThrows, TypeOK, SaveCall
  <2> QED BY <1>20, <2>1 DEF SaveThrows, TypeOK, shownVars, serverVars, ghostVars
<1>21. CASE UNCHANGED vars
  BY <1>21 DEF TypeOK, vars, configVars, shownVars, serverVars, ghostVars
<1> QED BY <1>1, <1>2, <1>3, <1>4, <1>5, <1>6, <1>7, <1>8, <1>9, <1>10, <1>11, <1>12,
           <1>13, <1>14, <1>15, <1>16, <1>17, <1>18, <1>19, <1>20, <1>21
        DEF ClientStep, UploadStep, FlushStep, Environment, Surprise

LEMMA TypeInit == Init => TypeOK
<1> SUFFICES ASSUME Init PROVE TypeOK
  OBVIOUS
<1>1. items \in Lists /\ owed \subseteq Texts
  <2>1. items \in Lists
    BY EmptyList, QueueAssumption DEF Init
  <2>2. items \in Seq(Texts)
    BY <2>1 DEF Lists
  <2>3. \A i \in DOMAIN items : items[i] \in Texts
    BY <2>2, ElementOfSeq, LenProperties
  <2> QED BY <2>1, <2>3 DEF Init, ToSet
<1>2. unannounced \in BOOLEAN
  BY DEF Init
<1> QED BY <1>1, <1>2, CallShapes, KeysAssumption, LimitsAssumption
        DEF Init, TypeOK, Resting, Connection, SaveCall

\* A restart with a list that fits keeps the types too.
LEMMA TypeRestart ==
    ASSUME TypeOK, NEW loaded \in Lists, CrashRestart(loaded)
    PROVE  TypeOK'
<1>1. left' \in Counts
  BY SpendType DEF CrashRestart, TypeOK, Events
<1>2. saver' \in [Savers -> SaveCall]
  BY KeysAssumption DEF CrashRestart, Resting, SaveCall
<1>3. pairUnsure' \in BOOLEAN /\ unannounced' \in BOOLEAN
  BY DEF CrashRestart, TypeOK
<1> QED BY <1>1, <1>2, <1>3, CallShapes DEF CrashRestart, TypeOK, serverVars

\* Every variable keeps the type the source gives it, the list its bound
\* (upload_queue.dart:77-80) and the retry loop its number of attempts
\* (upload_coordinator.dart:181-203), whatever the interleaving of uploads,
\* flush, saves, key reset and failing writes.
THEOREM TypeCorrect == Spec => []TypeOK
  BY TypeInit, TypeStep, NextIsClientStep, PTL DEF Spec

----------------------------------------------------------------------------
(* What the answers say is true: used for the digest, and by the queue. *)

Settled(x) == Stored(x) \/ x \in refused

\* The histories only grow, so what was settled stays settled.
LEMMA SettledStays ==
    ASSUME accepted \subseteq accepted', refused \subseteq refused'
    PROVE  /\ \A x : Stored(x) => Stored(x)'
           /\ \A x : Settled(x) => Settled(x)'
  BY DEF Stored, Settled

\* A pair in accepted is what Stored means.
LEMMA PairIsStored ==
    ASSUME NEW a \in Accounts, NEW x, <<a, x>> \in accepted'
    PROVE  Stored(x)'
  BY DEF Stored

\* What the flush loop holds after it sent the head of the queue.
LEMMA SendHeadHolds ==
    ASSUME TypeOK, NEW r, SendHead(r), UNCHANGED items
    PROVE  /\ accepted \subseteq accepted'
           /\ flush'.pc = "sent" /\ flush'.text = Head(items) /\ flush'.reply = r
           /\ r = "ok" => Stored(Head(items))'
           /\ FlushHoldsHead'
<1>1. /\ items # <<>> /\ flush' = Sent(Head(items), 0, r)
      /\ accepted \subseteq accepted'
      /\ r = "ok" => <<AccountOf[conf.key], Head(items)>> \in accepted'
      /\ AccountOf[conf.key] \in Accounts
  BY SendHeadStores, KeysAssumption DEF TypeOK, Connection
<1>2. r = "ok" => Stored(Head(items))'
  BY <1>1, PairIsStored
<1> QED BY <1>1, <1>2 DEF Sent, FlushHoldsHead

AnswersKeep == AnswersAreTrue /\ DigestWasStored

\* Where an upload, the flush loop and the digest may go without a new answer.
LEMMA AnswersFrame ==
    ASSUME AnswersKeep, accepted \subseteq accepted', lastHash' \in {lastHash, NoText},
           \A t \in Tasks : task'[t] = task[t] \/ task'[t].pc # "sent",
           flush' = flush \/ flush'.pc \in {"idle", "dedup"}
    PROVE  AnswersKeep'
<1>1. \A x : Stored(x) => Stored(x)'
  BY DEF Stored
<1> QED BY <1>1 DEF AnswersKeep, AnswersAreTrue, DigestWasStored

\* Nobody forgets what was stored, or that a text was refused.
LEMMA HistoryGrows ==
    ASSUME TypeOK, [ClientStep]_vars
    PROVE  accepted \subseteq accepted' /\ refused \subseteq refused'
<1> USE DEF serverVars, ghostVars, clientVars
<1>1. ASSUME NEW t \in Tasks, NEW x \in Texts, Upload(t, x)
      PROVE  accepted \subseteq accepted' /\ refused' = refused
  BY <1>1, PostStores DEF Upload, UploadSkipped, UploadTooLong, UploadSent
<1>2. ASSUME NEW t \in Tasks, UploadRetry(t)
      PROVE  accepted \subseteq accepted' /\ refused' = refused
  BY <1>2, PostStores, CallShapes DEF UploadRetry, TypeOK
<1>3. ASSUME NEW t \in Tasks, UploadNoted(t)
      PROVE  accepted \subseteq accepted' /\ refused' = refused
  BY <1>3, SendHeadStores DEF UploadNoted, CallFlush
<1>4. ASSUME NEW t \in Tasks,
             \/ UploadSucceeds(t) \/ UploadStops(t) \/ UploadGivesUp(t) \/ UploadQueued(t)
             \/ UploadWriteThrows(t)
      PROVE  UNCHANGED <<accepted, refused>>
  BY <1>4 DEF UploadSucceeds, UploadStops, UploadGivesUp, UploadQueued, UploadWriteThrows
<1>5. ASSUME TimerTick
      PROVE  accepted \subseteq accepted' /\ refused' = refused
  BY <1>5, SendHeadStores DEF TimerTick
<1>6. ASSUME FlushRetry
      PROVE  accepted \subseteq accepted' /\ refused' = refused
  BY <1>6, PostStores, CallShapes DEF FlushRetry, TypeOK
<1>7. ASSUME FlushNext
      PROVE  accepted \subseteq accepted' /\ refused' = refused
  BY <1>7, SendHeadStores DEF FlushNext
<1>8. ASSUME FlushStops \/ FlushRemoves \/ FlushPersisted \/ FlushWriteThrows
      PROVE  accepted' = accepted /\ refused \subseteq refused'
  BY <1>8 DEF FlushStops, FlushRemoves, FlushPersisted, FlushWriteThrows
<1>9. ASSUME NEW s \in Savers,
             \/ \E u \in Urls, k \in Keys : SaveValidated(s, u, k)
             \/ SaveStep(s) \/ SaveThrows(s)
      PROVE  UNCHANGED <<accepted, refused>>
  BY <1>9 DEF SaveValidated, SaveStep, SaveUrl, SaveClears, SaveKey, SaveMoves, SaveThrows
<1>10. ASSUME Environment PROVE UNCHANGED <<accepted, refused>>
  BY <1>10 DEF Environment, GoOffline, GoOnline, DismissBanner, ResetKey
<1>11. CASE UNCHANGED vars
  BY <1>11 DEF vars
<1> QED BY <1>1, <1>2, <1>3, <1>4, <1>5, <1>6, <1>7, <1>8, <1>9, <1>10, <1>11
        DEF ClientStep, UploadStep, FlushStep, Surprise

\* Each step of the client preserves what the answers say.
LEMMA AnswersStep ==
    ASSUME TypeOK, AnswersKeep, [ClientStep]_vars
    PROVE  AnswersKeep'
<1> USE DEF queueVars, configVars, serverVars, clientVars
<1>g. accepted \subseteq accepted' /\ \A x : Stored(x) => Stored(x)'
  BY HistoryGrows, SettledStays
<1>f. task \in [Tasks -> UploadCall] /\ flush \in FlushLoop
  BY DEF TypeOK
<1>1. ASSUME NEW t \in Tasks, NEW x \in Texts, Upload(t, x) PROVE AnswersKeep'
  <2>1. UNCHANGED <<flush, lastHash>>
    BY <1>1 DEF Upload
  <2>2. CASE UNCHANGED task
    BY <1>g, <2>1, <2>2, AnswersFrame
  <2>3. ASSUME NEW r \in Replies, Post(x, r), task' = [task EXCEPT ![t] = Sent(x, 0, r)]
        PROVE  AnswersKeep'
    <3>1. r = "ok" => Stored(x)'
      BY <2>3, PostStores, PairIsStored
    <3>2. \A u \in Tasks :
             \/ task'[u] = task[u]
             \/ task'[u].pc = "sent" /\ task'[u].text = x /\ task'[u].reply = r
      BY <1>f, <2>3 DEF Sent
    <3> QED BY <1>g, <2>1, <3>1, <3>2 DEF AnswersKeep, AnswersAreTrue, DigestWasStored
  <2> QED BY <1>1, <2>2, <2>3 DEF Upload, UploadSkipped, UploadTooLong, UploadSent
<1>2. ASSUME NEW t \in Tasks, UploadRetry(t) PROVE AnswersKeep'
  <2>1. PICK x \in Texts : x = task[t].text
    BY <1>f, <1>2, CallShapes DEF UploadRetry
  <2>2. PICK r \in Replies :
            Post(x, r) /\ task' = [task EXCEPT ![t] = Sent(x, task[t].attempt + 1, r)]
    BY <1>2, <2>1 DEF UploadRetry
  <2>3. r = "ok" => Stored(x)'
    BY <2>2, PostStores, PairIsStored
  <2>4. \A u \in Tasks :
           \/ task'[u] = task[u]
           \/ task'[u].pc = "sent" /\ task'[u].text = x /\ task'[u].reply = r
    BY <1>f, <2>2 DEF Sent
  <2>5. UNCHANGED <<flush, lastHash>>
    BY <1>2 DEF UploadRetry
  <2> QED BY <1>g, <2>3, <2>4, <2>5 DEF AnswersKeep, AnswersAreTrue, DigestWasStored
<1>3. ASSUME NEW t \in Tasks, UploadSucceeds(t) PROVE AnswersKeep'
  <2>1. /\ UNCHANGED flush
        /\ lastHash' = task[t].text /\ task[t].pc = "sent" /\ task[t].reply = "ok"
    BY <1>3 DEF UploadSucceeds
  <2>2. \A u \in Tasks : task'[u] = task[u] \/ task'[u].pc = "dedup"
    BY <1>3, <1>f, CallShapes DEF UploadSucceeds, UploadCall
  <2> QED BY <1>g, <2>1, <2>2 DEF AnswersKeep, AnswersAreTrue, DigestWasStored
<1>4. ASSUME NEW t \in Tasks, UploadNoted(t) PROVE AnswersKeep'
  <2>1. /\ UNCHANGED <<items, lastHash>>
        /\ \A u \in Tasks : task'[u] = task[u] \/ task'[u].pc = "idle"
    BY <1>4, <1>f DEF UploadNoted, Idle
  <2>2. CASE UNCHANGED flush
    BY <1>g, <2>1, <2>2, AnswersFrame
  <2>3. ASSUME NEW r \in Replies, SendHead(r) PROVE AnswersKeep'
    BY <1>g, <2>1, <2>3, SendHeadHolds DEF AnswersKeep, AnswersAreTrue, DigestWasStored
  <2> QED BY <1>4, <2>2, <2>3 DEF UploadNoted, CallFlush
<1>5. ASSUME NEW t \in Tasks,
             \/ UploadStops(t) \/ UploadGivesUp(t) \/ UploadQueued(t) \/ UploadWriteThrows(t)
      PROVE  AnswersKeep'
  <2>1. UNCHANGED <<flush, lastHash>>
    BY <1>5 DEF UploadStops, UploadGivesUp, UploadQueued, UploadWriteThrows
  <2>2. \A u \in Tasks : task'[u] = task[u] \/ task'[u].pc # "sent"
    BY <1>5, <1>f, CallShapes
       DEF UploadStops, UploadGivesUp, UploadQueued, UploadWriteThrows, UploadCall, Idle
  <2> QED BY <1>g, <2>1, <2>2, AnswersFrame
<1>6. ASSUME TimerTick PROVE AnswersKeep'
  <2>1. PICK r \in Replies : SendHead(r)
    BY <1>6 DEF TimerTick
  <2>2. UNCHANGED <<task, items, lastHash>>
    BY <1>6 DEF TimerTick
  <2> QED BY <1>g, <2>1, <2>2, SendHeadHolds DEF AnswersKeep, AnswersAreTrue, DigestWasStored
<1>7. ASSUME FlushRetry PROVE AnswersKeep'
  <2>1. PICK x \in Texts : x = flush.text
    BY <1>f, <1>7, CallShapes DEF FlushRetry
  <2>2. PICK r \in Replies : Post(x, r) /\ flush' = Sent(x, flush.attempt + 1, r)
    BY <1>7, <2>1 DEF FlushRetry
  <2>3. r = "ok" => Stored(x)'
    BY <2>2, PostStores, PairIsStored
  <2>4. UNCHANGED <<task, lastHash>> /\ flush'.text = x /\ flush'.reply = r
    BY <1>7, <2>2 DEF FlushRetry, Sent
  <2> QED BY <1>g, <2>3, <2>4 DEF AnswersKeep, AnswersAreTrue, DigestWasStored
<1>8. ASSUME FlushStops \/ FlushWriteThrows PROVE AnswersKeep'
  <2>1. UNCHANGED <<task, lastHash>> /\ flush'.pc = "idle"
    BY <1>8 DEF FlushStops, FlushWriteThrows, FlushEnds, Idle
  <2> QED BY <1>g, <2>1, AnswersFrame
<1>9. ASSUME FlushRemoves PROVE AnswersKeep'
  <2>1. /\ UNCHANGED <<task, lastHash>> /\ flush.pc = "sent"
        /\ flush'.text = flush.text /\ flush'.reply = flush.reply
    BY <1>f, <1>9 DEF FlushRemoves, FlushLoop, Idle
  <2> QED BY <1>g, <2>1 DEF AnswersKeep, AnswersAreTrue, DigestWasStored
<1>10. ASSUME FlushPersisted PROVE AnswersKeep'
  <2>1. /\ flush.pc = "persist" /\ flush.reply = "ok" /\ lastHash' = flush.text
        /\ UNCHANGED task /\ flush'.pc = "dedup"
    BY <1>f, <1>10 DEF FlushPersisted, FlushLoop, Idle
  <2> QED BY <1>g, <2>1 DEF AnswersKeep, AnswersAreTrue, DigestWasStored
<1>11. ASSUME FlushNext PROVE AnswersKeep'
  <2>1. UNCHANGED <<task, items, lastHash>>
    BY <1>11 DEF FlushNext
  <2>2. ASSUME NEW r \in Replies, SendHead(r) PROVE AnswersKeep'
    BY <1>g, <2>1, <2>2, SendHeadHolds DEF AnswersKeep, AnswersAreTrue, DigestWasStored
  <2>3. CASE flush' = Idle
    BY <1>g, <2>1, <2>3, AnswersFrame DEF Idle
  <2> QED BY <1>11, <2>2, <2>3 DEF FlushNext, FlushEnds
<1>12. ASSUME \/ \E s \in Savers, u \in Urls, k \in Keys : SaveValidated(s, u, k)
              \/ \E s \in Savers : SaveStep(s) \/ SaveThrows(s)
              \/ Environment
              \/ UNCHANGED vars
       PROVE  AnswersKeep'
  <2>1. UNCHANGED <<task, flush>> /\ lastHash' \in {lastHash, NoText}
    BY <1>12 DEF SaveValidated, SaveStep, SaveUrl, SaveClears, SaveKey, SaveMoves, SaveThrows,
                 Environment, GoOffline, GoOnline, DismissBanner, ResetKey, vars
  <2> QED BY <1>g, <2>1, AnswersFrame
<1> QED BY <1>1, <1>2, <1>3, <1>4, <1>5, <1>6, <1>7, <1>8, <1>9, <1>10, <1>11, <1>12
        DEF ClientStep, UploadStep, FlushStep, Surprise

\* A restart forgets the answers in hand and keeps the digest.
LEMMA AnswersRestart ==
    ASSUME AnswersKeep, NEW loaded, CrashRestart(loaded)
    PROVE  AnswersKeep'
<1>1. /\ \A t \in Tasks : task'[t].pc = "idle"
      /\ flush'.pc = "idle" /\ UNCHANGED <<accepted, lastHash>>
  BY DEF CrashRestart, Idle, serverVars
<1> QED BY <1>1, AnswersFrame

LEMMA AnswersInit == Init => AnswersKeep
  BY DEF Init, AnswersKeep, AnswersAreTrue, DigestWasStored, Idle

\* The digest that makes a copy "already uploaded" is that of a text a server
\* stored (upload_coordinator.dart:120-121, 155-157), with or without a queue.
THEOREM TrueDigest == Spec => []DigestWasStored
<1>1. TypeOK /\ AnswersKeep /\ [Next]_vars => AnswersKeep'
  BY AnswersStep, NextIsClientStep
<1> QED BY <1>1, AnswersInit, TypeCorrect, PTL DEF Spec, AnswersKeep

----------------------------------------------------------------------------
(* Safety: nothing leaves the queue unsettled without an overflow. *)

QueueKeeps == FlushHoldsHead /\ LossNeedsOverflow /\ EnqueuedIsHeld

\* Steps that leave the list and its histories alone, and no text newly enqueued.
LEMMA QueueFrame ==
    ASSUME QueueKeeps, UNCHANGED <<wired, items, owed, evicted>>,
           accepted \subseteq accepted', refused \subseteq refused',
           \A t \in Tasks : task'[t] = task[t] \/ task'[t].pc \notin {"persist", "persistFull"}
    PROVE  LossNeedsOverflow' /\ EnqueuedIsHeld'
<1>1. \A x : Settled(x) => Settled(x)'
  BY SettledStays
<1>2. LossNeedsOverflow'
  BY <1>1 DEF QueueKeeps, LossNeedsOverflow, Settled, Queued
<1>3. EnqueuedIsHeld'
  BY <1>1 DEF QueueKeeps, EnqueuedIsHeld, Settled, Queued
<1> QED BY <1>2, <1>3

\* The same, with the flush loop where it was or no longer waiting for an answer.
LEMMA QueueKeepsFrame ==
    ASSUME QueueKeeps, UNCHANGED <<wired, items, owed, evicted>>,
           accepted \subseteq accepted', refused \subseteq refused',
           \A t \in Tasks : task'[t] = task[t] \/ task'[t].pc \notin {"persist", "persistFull"},
           flush' = flush \/ flush'.pc # "sent"
    PROVE  QueueKeeps'
  BY QueueFrame DEF QueueKeeps, FlushHoldsHead

\* Each step of the client preserves it.  Without a queue the client drops texts
\* by design, which LossNeedsOverflow says.
LEMMA QueueStep ==
    ASSUME TypeOK, AnswersKeep, QueueKeeps, [ClientStep]_vars
    PROVE  QueueKeeps'
<1> USE DEF queueVars, configVars, serverVars, ghostVars, clientVars
<1>g. /\ accepted \subseteq accepted' /\ refused \subseteq refused'
      /\ \A x : (Stored(x) => Stored(x)') /\ (Settled(x) => Settled(x)')
  BY HistoryGrows, SettledStays
<1>f. task \in [Tasks -> UploadCall] /\ flush \in FlushLoop /\ items \in Lists
  BY DEF TypeOK
<1>1. ASSUME NEW t \in Tasks, NEW x \in Texts, Upload(t, x) PROVE QueueKeeps'
  <2>1. UNCHANGED <<wired, flush, items, owed, evicted>>
    BY <1>1 DEF Upload
  <2>2. \A u \in Tasks : task'[u] = task[u] \/ task'[u].pc = "sent"
    BY <1>f, <1>1 DEF Upload, UploadSkipped, UploadTooLong, UploadSent, Sent
  <2> QED BY <1>g, <2>1, <2>2, QueueKeepsFrame
<1>2. ASSUME NEW t \in Tasks,
             \/ UploadRetry(t) \/ UploadSucceeds(t) \/ UploadStops(t) \/ UploadWriteThrows(t)
      PROVE  QueueKeeps'
  <2>1. UNCHANGED <<wired, flush, items, owed, evicted>>
    BY <1>2 DEF UploadRetry, UploadSucceeds, UploadStops, UploadWriteThrows
  <2>2. \A u \in Tasks : task'[u] = task[u] \/ task'[u].pc \in {"sent", "dedup", "idle"}
    BY <1>f, <1>2, CallShapes
       DEF UploadRetry, UploadSucceeds, UploadStops, UploadWriteThrows, UploadCall, Sent, Idle
  <2> QED BY <1>g, <2>1, <2>2, QueueKeepsFrame
<1>3. ASSUME NEW t \in Tasks, UploadNoted(t) PROVE QueueKeeps'
  <2>1. /\ UNCHANGED <<wired, items, owed, evicted>>
        /\ \A u \in Tasks : task'[u] = task[u] \/ task'[u].pc = "idle"
    BY <1>3, <1>f DEF UploadNoted, Idle
  <2>2. FlushHoldsHead'
    <3>1. CASE UNCHANGED flush
      BY <2>1, <3>1 DEF QueueKeeps, FlushHoldsHead
    <3>2. CASE \E r \in Replies : SendHead(r)
      BY <2>1, <3>2, SendHeadHolds
    <3> QED BY <1>3, <3>1, <3>2 DEF UploadNoted, CallFlush
  <2> QED BY <1>g, <2>1, <2>2, QueueFrame DEF QueueKeeps
<1>4. ASSUME NEW t \in Tasks, UploadGivesUp(t), wired PROVE QueueKeeps'
  <2>1. PICK x \in Texts : x = task[t].text
    BY <1>f, <1>4, CallShapes DEF UploadGivesUp
  <2>2. Enqueue(x) /\ UNCHANGED <<wired, flush, owed>>
    BY <1>4, <2>1 DEF UploadGivesUp
  <2>3. \A u \in Tasks :
           \/ task'[u] = task[u]
           \/ task'[u].pc \in {"persist", "persistFull"} /\ task'[u].text = x
    BY <1>4, <1>f, <2>1 DEF UploadGivesUp, UploadCall, Idle
  <2>4. /\ items' # <<>> /\ x \in ToSet(items') /\ evicted \subseteq evicted'
        /\ evicted' = {} => /\ items' = Append(items, x)
                            /\ ToSet(items') = ToSet(items) \cup {x}
    BY <1>f, <2>2, EnqueueEffect DEF TypeOK
  <2>5. LossNeedsOverflow'
    BY <1>g, <2>2, <2>4 DEF QueueKeeps, LossNeedsOverflow, Queued
  <2>6. EnqueuedIsHeld'
    BY <1>g, <2>3, <2>4 DEF QueueKeeps, EnqueuedIsHeld, Queued
  <2>7. FlushHoldsHead'
    <3> SUFFICES ASSUME evicted' = {}, flush'.pc = "sent"
                 PROVE  items' # <<>> /\ Head(items') = flush'.text
      BY DEF FlushHoldsHead
    <3>1. evicted = {} /\ items # <<>> /\ Head(items) = flush.text /\ flush' = flush
      BY <2>2, <2>4 DEF QueueKeeps, FlushHoldsHead
    <3>2. items \in Seq(Texts) /\ items' = Append(items, x)
      BY <1>f, <2>4 DEF Lists
    <3>3. Head(items') = Head(items)
      BY <3>1, <3>2, HeadTailAppend
    <3> QED BY <2>4, <3>1, <3>3
  <2> QED BY <2>5, <2>6, <2>7 DEF QueueKeeps
<1>5. ASSUME NEW t \in Tasks, UploadGivesUp(t), ~wired PROVE QueueKeeps'
  <2>1. /\ UNCHANGED <<wired, flush, items, evicted>>
        /\ \A u \in Tasks : task'[u] = task[u] \/ task'[u].pc = "idle"
    BY <1>f, <1>5 DEF UploadGivesUp, Idle
  <2> QED BY <1>g, <1>5, <2>1
          DEF QueueKeeps, FlushHoldsHead, LossNeedsOverflow, EnqueuedIsHeld, Settled, Queued
<1>6. ASSUME NEW t \in Tasks, UploadQueued(t) PROVE QueueKeeps'
  <2>1. /\ task[t].pc \in {"persist", "persistFull"} /\ owed' = owed \cup {task[t].text}
        /\ UNCHANGED <<wired, flush, items, evicted>>
        /\ \A u \in Tasks : task'[u] = task[u] \/ task'[u].pc = "idle"
    BY <1>6, <1>f DEF UploadQueued, Idle
  <2>2. LossNeedsOverflow'
    BY <1>g, <2>1 DEF QueueKeeps, LossNeedsOverflow, EnqueuedIsHeld, Queued
  <2>3. EnqueuedIsHeld' /\ FlushHoldsHead'
    BY <1>g, <2>1 DEF QueueKeeps, EnqueuedIsHeld, FlushHoldsHead, Queued
  <2> QED BY <2>2, <2>3 DEF QueueKeeps
<1>7. ASSUME TimerTick PROVE QueueKeeps'
  <2>1. UNCHANGED <<wired, task, items, owed, evicted>>
    BY <1>7 DEF TimerTick
  <2>2. FlushHoldsHead'
    BY <1>7, <2>1, SendHeadHolds DEF TimerTick
  <2> QED BY <1>g, <2>1, <2>2, QueueFrame DEF QueueKeeps
<1>8. ASSUME FlushRetry PROVE QueueKeeps'
  <2>1. /\ UNCHANGED <<wired, task, items, owed, evicted>>
        /\ flush.pc = "sent" /\ flush'.text = flush.text
    BY <1>8 DEF FlushRetry, Sent
  <2>2. FlushHoldsHead'
    BY <2>1 DEF QueueKeeps, FlushHoldsHead
  <2> QED BY <1>g, <2>1, <2>2, QueueFrame DEF QueueKeeps
<1>9. ASSUME FlushStops \/ FlushPersisted \/ FlushWriteThrows PROVE QueueKeeps'
  <2>1. UNCHANGED <<wired, task, items, owed, evicted>> /\ flush'.pc \in {"idle", "dedup"}
    BY <1>f, <1>9
       DEF FlushStops, FlushPersisted, FlushWriteThrows, FlushEnds, FlushLoop, Idle
  <2> QED BY <1>g, <2>1, QueueKeepsFrame
<1>10. ASSUME FlushRemoves PROVE QueueKeeps'
  <2>1. /\ flush.pc = "sent" /\ flush.reply \in {"ok", "tooLarge"} /\ Pop
        /\ refused' = IF flush.reply = "tooLarge" THEN refused \cup {flush.text} ELSE refused
        /\ UNCHANGED <<wired, task, accepted, owed, evicted>>
    BY <1>10 DEF FlushRemoves
  <2>2. flush'.pc = "persist"
    BY <1>f, <1>10 DEF FlushRemoves, FlushLoop, Idle
  <2>3. PICK x \in Texts : x = flush.text
    BY <1>f, <2>1, CallShapes
  <2>4. Stored(x) \/ x \in refused'
    BY <2>1, <2>3 DEF AnswersKeep, AnswersAreTrue
  <2>5. evicted = {} => \A y \in Queued : y \in Queued' \/ y = x
    <3> SUFFICES ASSUME evicted = {} PROVE \A y \in Queued : y \in Queued' \/ y = x
      OBVIOUS
    <3>1. items # <<>> /\ Head(items) = x /\ items' = Tail(items)
      BY <2>1, <2>3 DEF QueueKeeps, FlushHoldsHead, Pop
    <3>2. ToSet(items) = {Head(items)} \cup ToSet(Tail(items))
      BY <1>f, <3>1, ToSetTail DEF Lists
    <3> QED BY <3>1, <3>2 DEF Queued
  <2>6. LossNeedsOverflow' /\ EnqueuedIsHeld'
    BY <1>g, <2>1, <2>4, <2>5 DEF QueueKeeps, LossNeedsOverflow, EnqueuedIsHeld, Stored
  <2> QED BY <2>2, <2>6 DEF QueueKeeps, FlushHoldsHead
<1>11. ASSUME FlushNext PROVE QueueKeeps'
  <2>1. UNCHANGED <<wired, task, items, owed, evicted>>
    BY <1>11 DEF FlushNext
  <2>2. FlushHoldsHead'
    <3>1. CASE \E r \in Replies : SendHead(r)
      BY <2>1, <3>1, SendHeadHolds
    <3>2. CASE flush' = Idle
      BY <3>2 DEF Idle, FlushHoldsHead
    <3> QED BY <1>11, <3>1, <3>2 DEF FlushNext, FlushEnds
  <2> QED BY <1>g, <2>1, <2>2, QueueFrame DEF QueueKeeps
<1>12. ASSUME \/ \E s \in Savers, u \in Urls, k \in Keys : SaveValidated(s, u, k)
              \/ \E s \in Savers : SaveStep(s) \/ SaveThrows(s)
              \/ Environment
              \/ UNCHANGED vars
       PROVE  QueueKeeps'
  <2>1. UNCHANGED <<wired, task, flush, items, owed, evicted>>
    BY <1>12 DEF SaveValidated, SaveStep, SaveUrl, SaveClears, SaveKey, SaveMoves, SaveThrows,
                 Environment, GoOffline, GoOnline, DismissBanner, ResetKey, vars
  <2> QED BY <1>g, <2>1, QueueKeepsFrame
<1> QED BY <1>1, <1>2, <1>3, <1>4, <1>5, <1>6, <1>7, <1>8, <1>9, <1>10, <1>11, <1>12
        DEF ClientStep, UploadStep, FlushStep, Surprise

LEMMA QueueInit == Init => QueueKeeps
  BY DEF Init, QueueKeeps, FlushHoldsHead, LossNeedsOverflow, EnqueuedIsHeld, Queued, Idle

LEMMA QueueAlways == Spec => []QueueKeeps
<1>1. TypeOK /\ AnswersKeep /\ [Next]_vars => AnswersKeep'
  BY AnswersStep, NextIsClientStep
<1>2. TypeOK /\ AnswersKeep /\ QueueKeeps /\ [Next]_vars => QueueKeeps'
  BY QueueStep, NextIsClientStep
<1> QED BY <1>1, <1>2, AnswersInit, QueueInit, TypeCorrect, PTL DEF Spec

\* A text given up on, or found at the start, leaves the queue only by being
\* stored, by a 413 or after an overflow, through every interleaving, retry and
\* failing write (upload_coordinator.dart:26-28) - if there is a queue.
THEOREM NoLossWithoutOverflow == Spec => []LossNeedsOverflow
  BY QueueAlways, PTL DEF QueueKeeps

\* Without overflow, the text in flight is the one removeFirst will remove
\* (upload_coordinator.dart:205-219, upload_queue.dart:87-91).
THEOREM HeadInFlight == Spec => []FlushHoldsHead
  BY QueueAlways, PTL DEF QueueKeeps

----------------------------------------------------------------------------
(* Restless work: the timer and the count that is shown. *)

\* The timer runs unless the queue is empty, an enqueue is about to start it, or
\* texts came without it: QueueHasRetrier without the flush, which may end at any
\* time.
TimerRuns == items = <<>> \/ timer \/ Enqueuing \/ unannounced

\* What a step on one task does to Enqueuing.
LEMMA EnqueuingStays ==
    ASSUME TypeOK, NEW t \in Tasks, NEW c, task' = [task EXCEPT ![t] = c]
    PROVE  /\ c.pc \in {"persist", "persistFull"} => Enqueuing'
           /\ task[t].pc \notin {"persist", "persistFull"} /\ Enqueuing => Enqueuing'
           /\ c.pc \notin {"persist", "persistFull"} /\ Enqueuing' => Enqueuing
  BY DEF TypeOK, Enqueuing

RestInv == TimerRuns /\ PendingShown

\* Steps that leave queue, timer, flush and count alone.
LEMMA RestFrame ==
    ASSUME RestInv, UNCHANGED <<items, timer, flush, pending, unannounced>>,
           Enqueuing' <=> Enqueuing
    PROVE  RestInv'
<1>1. TimerRuns'
  BY DEF RestInv, TimerRuns
<1>2. PendingShown'
  BY DEF RestInv, PendingShown, Enqueuing
<1> QED BY <1>1, <1>2 DEF RestInv

\* Each step of the client preserves the two.
LEMMA RestStep ==
    ASSUME TypeOK, RestInv, [ClientStep]_vars
    PROVE  RestInv'
<1> USE DEF queueVars, clientVars, configVars, shownVars, serverVars, ghostVars
<1>1. ASSUME NEW t \in Tasks, NEW x \in Texts, Upload(t, x) PROVE RestInv'
  <2>1. Enqueuing' <=> Enqueuing
    <3>1. CASE UNCHANGED task
      BY <3>1 DEF Enqueuing
    <3>2. ASSUME NEW r, task' = [task EXCEPT ![t] = Sent(x, 0, r)]
          PROVE  Enqueuing' <=> Enqueuing
      <4>1. Sent(x, 0, r).pc = "sent"
        BY DEF Sent
      <4> QED BY <1>1, <3>2, <4>1, EnqueuingStays DEF Upload
    <3> QED BY <1>1, <3>1, <3>2 DEF Upload, UploadSkipped, UploadTooLong, UploadSent
  <2> QED BY <1>1, <2>1, RestFrame DEF Upload
<1>2. ASSUME NEW t \in Tasks, UploadRetry(t) \/ UploadSucceeds(t) \/ UploadStops(t)
      PROVE  RestInv'
  <2>1. PICK c : /\ task' = [task EXCEPT ![t] = c] /\ c.pc \in {"sent", "dedup", "idle"}
                 /\ task[t].pc = "sent"
    <3>1. CASE UploadRetry(t)
      <4>1. PICK r \in Replies :
                task' = [task EXCEPT ![t] = Sent(task[t].text, task[t].attempt + 1, r)]
        BY <3>1 DEF UploadRetry, TypeOK
      <4> QED BY <3>1, <4>1 DEF Sent, UploadRetry
    <3>2. CASE UploadSucceeds(t)
      <4>1. [task[t] EXCEPT !.pc = "dedup"].pc = "dedup"
        BY <3>2 DEF UploadSucceeds, TypeOK, UploadCall, Idle
      <4> QED BY <3>2, <4>1 DEF UploadSucceeds
    <3>3. CASE UploadStops(t)
      BY <3>3 DEF UploadStops, Idle
    <3> QED BY <1>2, <3>1, <3>2, <3>3
  <2>2. Enqueuing' <=> Enqueuing
    BY <2>1, EnqueuingStays
  <2> QED BY <1>2, <2>2, RestFrame DEF UploadRetry, UploadSucceeds, UploadStops
<1>3. ASSUME NEW t \in Tasks, UploadNoted(t) PROVE RestInv'
  <2>1. Enqueuing' <=> Enqueuing
    <3>1. task' = [task EXCEPT ![t] = Idle] /\ task[t].pc = "dedup" /\ Idle.pc = "idle"
      BY <1>3 DEF UploadNoted, Idle
    <3> QED BY <3>1, EnqueuingStays
  <2>2. UNCHANGED <<items, timer, unannounced>> /\ pending' = Len(items)
    BY <1>3 DEF UploadNoted
  <2> QED BY <2>1, <2>2 DEF RestInv, TimerRuns, PendingShown, Enqueuing
<1>4. ASSUME NEW t \in Tasks, UploadGivesUp(t) PROVE RestInv'
  <2>1. CASE wired
    <3>1. Enqueuing'
      <4>1. PICK c : task' = [task EXCEPT ![t] = c] /\ c.pc \in {"persist", "persistFull"}
        BY <1>4, <2>1 DEF UploadGivesUp, TypeOK, UploadCall, Idle
      <4> QED BY <4>1, EnqueuingStays
    <3> QED BY <3>1 DEF RestInv, TimerRuns, PendingShown, Enqueuing
  <2>2. CASE ~wired
    <3>1. Enqueuing' <=> Enqueuing
      BY <1>4, <2>2, EnqueuingStays DEF UploadGivesUp, Idle
    <3> QED BY <1>4, <2>2, <3>1, RestFrame DEF UploadGivesUp
  <2> QED BY <2>1, <2>2
<1>5. ASSUME NEW t \in Tasks, UploadQueued(t) PROVE RestInv'
  BY <1>5 DEF UploadQueued, RestInv, TimerRuns, PendingShown
<1>6. ASSUME NEW t \in Tasks, UploadWriteThrows(t) PROVE RestInv'
  <2>1. UNCHANGED <<items, timer, flush, pending>>
    BY <1>6 DEF UploadWriteThrows
  <2>2. CASE task[t].pc = "dedup"
    <3>1. UNCHANGED unannounced
      BY <1>6, <2>2 DEF UploadWriteThrows, TypeOK
    <3>2. Enqueuing' <=> Enqueuing
      <4>1. task' = [task EXCEPT ![t] = Idle] /\ Idle.pc = "idle"
        BY <1>6 DEF UploadWriteThrows, Idle
      <4> QED BY <2>2, <4>1, EnqueuingStays
    <3> QED BY <2>1, <3>1, <3>2, RestFrame
  <2>3. CASE task[t].pc # "dedup"
    <3>1. unannounced'
      BY <1>6, <2>3 DEF UploadWriteThrows
    <3> QED BY <3>1 DEF RestInv, TimerRuns, PendingShown
  <2> QED BY <2>2, <2>3
<1>7. ASSUME TimerTick \/ FlushRetry PROVE RestInv'
  <2>1. UNCHANGED <<task, items, timer, unannounced>> /\ flush'.pc = "sent"
    BY <1>7 DEF TimerTick, FlushRetry, SendHead, Sent
  <2> QED BY <2>1 DEF RestInv, TimerRuns, PendingShown, Enqueuing
<1>8. ASSUME FlushStops \/ FlushWriteThrows PROVE RestInv'
  <2>1. /\ UNCHANGED <<task, items, unannounced>>
        /\ pending' = Len(items) /\ timer' = (timer /\ items # <<>>)
    BY <1>8 DEF FlushStops, FlushWriteThrows, FlushEnds
  <2> QED BY <2>1 DEF RestInv, TimerRuns, PendingShown, Enqueuing
<1>9. ASSUME FlushRemoves PROVE RestInv'
  <2>1. /\ UNCHANGED <<task, timer, unannounced>> /\ flush'.pc = "persist"
        /\ items = <<>> => items' = <<>>
    BY <1>9 DEF FlushRemoves, Pop, TypeOK, FlushLoop, Idle
  <2> QED BY <2>1 DEF RestInv, TimerRuns, PendingShown, Enqueuing
<1>10. ASSUME FlushPersisted PROVE RestInv'
  <2>1. UNCHANGED <<task, items, timer, unannounced>> /\ flush'.pc = "dedup"
    BY <1>10 DEF FlushPersisted, TypeOK, FlushLoop, Idle
  <2> QED BY <2>1 DEF RestInv, TimerRuns, PendingShown, Enqueuing
<1>11. ASSUME FlushNext PROVE RestInv'
  <2>1. UNCHANGED <<task, items, unannounced>>
    BY <1>11 DEF FlushNext
  <2>2. \/ flush'.pc = "sent" /\ timer' = timer
        \/ items = <<>> /\ pending' = Len(items)
    BY <1>11 DEF FlushNext, SendHead, Sent, FlushEnds
  <2> QED BY <2>1, <2>2 DEF RestInv, TimerRuns, PendingShown, Enqueuing
<1>12. ASSUME \/ \E s \in Savers, u \in Urls, k \in Keys : SaveValidated(s, u, k)
              \/ \E s \in Savers : SaveStep(s) \/ SaveThrows(s)
              \/ Environment
              \/ UNCHANGED vars
       PROVE  RestInv'
  <2>1. UNCHANGED <<task, flush, items, timer, pending, unannounced>>
    BY <1>12 DEF SaveValidated, SaveStep, SaveUrl, SaveClears, SaveKey, SaveMoves, SaveThrows,
                 Environment, GoOffline, GoOnline, DismissBanner, ResetKey, vars
  <2>2. Enqueuing' <=> Enqueuing
    BY <2>1 DEF Enqueuing
  <2> QED BY <2>1, <2>2, RestFrame
<1> QED BY <1>1, <1>2, <1>3, <1>4, <1>5, <1>6, <1>7, <1>8, <1>9, <1>10, <1>11, <1>12
        DEF ClientStep, UploadStep, FlushStep, Surprise

LEMMA RestInit == Init => RestInv
<1>1. Len(<<>>) = 0
  BY EmptySeq
<1> QED BY <1>1 DEF Init, RestInv, TimerRuns, PendingShown

LEMMA RestAlways == Spec => []RestInv
<1>1. TypeOK /\ RestInv /\ [Next]_vars => RestInv'
  BY RestStep, NextIsClientStep
<1> QED BY <1>1, RestInit, TypeCorrect, PTL DEF Spec

\* A queue that is not empty has somebody who will try again, whatever uploads,
\* flushes and failing writes overlap (upload_coordinator.dart:125, 171-175,
\* 205-239); the texts of load and of an enqueue that threw wait for the next one.
THEOREM SomebodyRetries == Spec => []QueueHasRetrier
<1>1. TimerRuns => QueueHasRetrier
  BY DEF TimerRuns, QueueHasRetrier
<1> QED BY <1>1, RestAlways, PTL DEF RestInv

\* And, but for those texts, the number of pending texts that is shown is right
\* whenever the uploader is at rest (upload_coordinator.dart:222-228).
THEOREM CountIsRight == Spec => []PendingShown
  BY RestAlways, PTL DEF RestInv

----------------------------------------------------------------------------
(* Address and key *)

Saver(s) == saver[s].pc # "idle"

\* What is being saved is a pair that validate() has tried.  A save that nothing
\* overlaps is the only one, and has stored its address once it is past the first
\* step; until one is, the stored pair is as good as it was.
PairInv ==
    /\ \A s \in Savers : Saver(s) => HomeOf[saver[s].key] = saver[s].url
    /\ savesOverlap => pairUnsure
    /\ ~savesOverlap =>
          /\ \A s, r \in Savers : Saver(s) /\ Saver(r) => s = r
          /\ \A s \in Savers : saver[s].pc \in {"clear", "key"} => conf.url = saver[s].url
    /\ ~pairUnsure /\ (\A s \in Savers : saver[s].pc \in {"idle", "validated"}) =>
          HomeOf[conf.key] = conf.url

LEMMA PairStep ==
    ASSUME TypeOK, PairInv, [ClientStep]_vars
    PROVE  PairInv'
<1> USE DEF Saver, configVars
<1>t. conf \in Connection /\ saver \in [Savers -> SaveCall]
  BY DEF TypeOK
<1>1. CASE UNCHANGED <<conf, saver, savesOverlap, pairUnsure>>
  BY <1>1 DEF PairInv
<1>2. ASSUME NEW s \in Savers, NEW u \in Urls, NEW k \in Keys, SaveValidated(s, u, k)
      PROVE  PairInv'
  <2>1. /\ saver[s].pc = "idle" /\ HomeOf[k] = u
        /\ saver' = [saver EXCEPT ![s] = [pc |-> "validated", url |-> u, key |-> k]]
        /\ conf'.url = conf.url /\ conf'.key = conf.key
    BY <1>t, <1>2 DEF SaveValidated, Authorised, Connection
  <2>2. CASE OthersSave(s)
    <3>1. savesOverlap' /\ pairUnsure'
      BY <1>2, <2>2 DEF SaveValidated
    <3> QED BY <1>t, <2>1, <3>1 DEF PairInv
  <2>3. CASE ~OthersSave(s)
    <3>1. ~savesOverlap' /\ (pairUnsure' <=> pairUnsure)
      BY <1>2, <2>3 DEF SaveValidated
    <3>2. \A r \in Savers : saver[r].pc = "idle"
      BY <2>1, <2>3 DEF OthersSave
    <3> QED BY <1>t, <2>1, <3>1, <3>2 DEF PairInv
  <2> QED BY <2>2, <2>3
<1>3. ASSUME NEW s \in Savers, SaveUrl(s) PROVE PairInv'
  <2>1. PICK pc \in {"clear", "key"} : saver' = [saver EXCEPT ![s].pc = pc]
    BY <1>3 DEF SaveUrl, SaveMoves
  <2>2. /\ saver[s].pc = "validated" /\ conf'.url = saver[s].url
        /\ UNCHANGED <<savesOverlap, pairUnsure>>
        /\ saver'[s].pc = pc /\ saver'[s].url = saver[s].url /\ saver'[s].key = saver[s].key
        /\ \A r \in Savers : r # s => saver'[r] = saver[r]
    BY <1>t, <1>3, <2>1 DEF SaveUrl, SaveMoves, Connection, SaveCall
  <2> QED BY <2>2 DEF PairInv
<1>4. ASSUME NEW s \in Savers, SaveClears(s) PROVE PairInv'
  <2>1. /\ saver[s].pc = "clear" /\ UNCHANGED <<conf, savesOverlap, pairUnsure>>
        /\ saver'[s].pc = "key" /\ saver'[s].url = saver[s].url /\ saver'[s].key = saver[s].key
        /\ \A r \in Savers : r # s => saver'[r] = saver[r]
    BY <1>t, <1>4 DEF SaveClears, SaveMoves, SaveCall
  <2> QED BY <2>1 DEF PairInv
<1>5. ASSUME NEW s \in Savers, SaveKey(s) PROVE PairInv'
  <2>1. /\ saver[s].pc = "key" /\ UNCHANGED savesOverlap
        /\ pairUnsure' = (pairUnsure /\ savesOverlap)
        /\ conf'.url = conf.url /\ conf'.key = saver[s].key
        /\ saver'[s].pc = "idle"
        /\ \A r \in Savers : r # s => saver'[r] = saver[r]
    BY <1>t, <1>5 DEF SaveKey, SaveMoves, Connection, SaveCall
  <2>2. CASE savesOverlap
    BY <2>1, <2>2 DEF PairInv
  <2>3. CASE ~savesOverlap
    <3>1. conf.url = saver[s].url /\ \A r \in Savers : saver'[r].pc = "idle"
      BY <2>1, <2>3 DEF PairInv
    <3> QED BY <2>1, <2>3, <3>1 DEF PairInv
  <2> QED BY <2>2, <2>3
<1>6. ASSUME NEW s \in Savers, SaveThrows(s) PROVE PairInv'
  <2>1. /\ UNCHANGED <<conf, savesOverlap>> /\ pairUnsure'
        /\ saver'[s].pc = "idle" /\ \A r \in Savers : r # s => saver'[r] = saver[r]
    BY <1>t, <1>6 DEF SaveThrows, SaveCall
  <2> QED BY <2>1 DEF PairInv
<1>7. ASSUME NEW t \in Tasks,
             \/ \E x \in Texts : Upload(t, x)
             \/ UploadStep(t) \/ UploadWriteThrows(t)
      PROVE  UNCHANGED <<conf, saver, savesOverlap, pairUnsure>>
  BY <1>7 DEF Upload, UploadStep, UploadRetry, UploadSucceeds, UploadNoted, UploadStops,
              UploadGivesUp, UploadQueued, UploadWriteThrows
<1>8. ASSUME FlushStep \/ FlushWriteThrows
      PROVE  UNCHANGED <<conf, saver, savesOverlap, pairUnsure>>
  BY <1>8 DEF FlushStep, TimerTick, FlushRetry, FlushStops, FlushRemoves, FlushPersisted,
              FlushNext, FlushWriteThrows
<1>9. ASSUME Environment \/ UNCHANGED vars
      PROVE  UNCHANGED <<conf, saver, savesOverlap, pairUnsure>>
  BY <1>9 DEF Environment, GoOffline, GoOnline, DismissBanner, ResetKey, vars
<1> QED BY <1>1, <1>2, <1>3, <1>4, <1>5, <1>6, <1>7, <1>8, <1>9
        DEF ClientStep, SaveStep, Surprise

\* A restart ends every save, and the pair is unsure if it ended one.
LEMMA PairRestart ==
    ASSUME PairInv, NEW loaded, CrashRestart(loaded)
    PROVE  PairInv'
<1>1. /\ \A s \in Savers : saver'[s].pc = "idle"
      /\ ~savesOverlap' /\ UNCHANGED conf
      /\ pairUnsure' = (pairUnsure \/ \E s \in Savers : saver[s].pc # "idle")
  BY DEF CrashRestart, Resting
<1> QED BY <1>1 DEF PairInv, Saver

LEMMA PairInit == Init => PairInv
  BY DEF Init, PairInv, Saver, Resting

LEMMA PairImplies == PairInv => SavedPairMatches
  BY DEF PairInv, SavedPairMatches

\* Outside a save the stored address and key belong together, whatever else runs
\* meanwhile, unless saves overlapped or broke off and none has ended on its own
\* since (upload_coordinator.dart:244-260).
THEOREM PairsStayTogether == Spec => []SavedPairMatches
<1>1. TypeOK /\ PairInv /\ [Next]_vars => PairInv'
  BY PairStep, NextIsClientStep
<1> QED BY <1>1, PairInit, PairImplies, TypeCorrect, PTL DEF Spec
=============================================================================
