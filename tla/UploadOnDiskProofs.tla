------------------------- MODULE UploadOnDiskProofs -------------------------
(***************************************************************************)
(* Theorems about UploadQueueFile and UploadOnDisk, for every value of     *)
(* their constants: any number of texts, uploads and saves under way.      *)
(***************************************************************************)
EXTENDS UploadOnDisk, UploadClientProofs

(* The types of the file *)

LEMMA ContentTypes ==
    /\ {NoFile, Blank, Torn} \subseteq Content
    /\ \A c \in Calls : Part(c) \in Content
    /\ \A list \in Lists : Whole(list) \in Content
  BY EmptyList DEF NoFile, Blank, Torn, Part, Whole, Content

LEMMA DiskIsList == FileTypeOK => disk \in Lists
  BY EmptyList DEF FileTypeOK, disk, Content

\* A new text or one less, the list stays within its bound.
LEMMA PushEffect ==
    ASSUME items \in Lists, NEW text \in Texts, Push(text)
    PROVE  items' \in Lists
<1>1. /\ Len(items) \in Nat /\ MaxItems \in Nat /\ MaxItems > 0
      /\ items \in Seq(Texts) /\ Len(items) <= MaxItems
  BY LenProperties, QueueAssumption DEF Lists
<1>2. CASE Full
  <2>1. items # <<>>
    BY <1>1, <1>2, EmptySeq DEF Full
  <2>2. Tail(items) \in Seq(Texts) /\ Len(Tail(items)) = Len(items) - 1
    BY <1>1, <2>1, HeadTailProperties
  <2>3. items' \in Seq(Texts) /\ Len(items') = Len(items)
    BY <1>1, <1>2, <2>2, AppendProperties DEF Push
  <2> QED BY <1>1, <2>3 DEF Lists
<1>3. CASE ~Full
  <2>1. items' \in Seq(Texts) /\ Len(items') = Len(items) + 1
    BY <1>1, <1>3, AppendProperties DEF Push
  <2> QED BY <1>1, <1>3, <2>1 DEF Lists, Full
<1> QED BY <1>2, <1>3

LEMMA FileTypeStep == FileTypeOK /\ [FileNext]_<<items, fileVars>> => FileTypeOK'
<1> SUFFICES ASSUME FileTypeOK, [FileNext]_<<items, fileVars>> PROVE FileTypeOK'
  OBVIOUS
<1> USE DEF fileVars
<1>n. NoCall \in SaveOfList
  BY EmptyList DEF NoCall, SaveOfList
<1>1. ASSUME NEW c \in Calls, Starts(c), items' \in Lists PROVE FileTypeOK'
  <2>1. overlapped' \in BOOLEAN /\ mixed' \in BOOLEAN /\ settled' \in BOOLEAN
    BY <1>1 DEF Starts, FileTypeOK
  <2>2. call' \in [Calls -> SaveOfList]
    BY <1>1 DEF Starts, FileTypeOK, SaveOfList
  <2> QED BY <1>1, <2>1, <2>2 DEF Starts, FileTypeOK
<1>2. ASSUME NEW c \in Calls, Encode(c) PROVE FileTypeOK'
  <2>1. call' \in [Calls -> SaveOfList]
    BY <1>2 DEF Encode, FileTypeOK, SaveOfList
  <2> QED BY <1>2, <2>1 DEF Encode, FileTypeOK
<1>3. ASSUME NEW c \in Calls, Open(c) PROVE FileTypeOK'
  <2>1. call' \in [Calls -> SaveOfList]
    BY <1>3 DEF Open, FileTypeOK, SaveOfList
  <2> QED BY <1>3, <2>1, ContentTypes DEF Open, FileTypeOK
<1>4. ASSUME NEW c \in Calls, WriteBegin(c) PROVE FileTypeOK'
  <2>1. call' \in [Calls -> SaveOfList]
    BY <1>4 DEF WriteBegin, FileTypeOK, SaveOfList
  <2>2. {file', tmp'} \subseteq Content
    BY <1>4, ContentTypes DEF WriteBegin, Writes, FileTypeOK
  <2> QED BY <1>4, <2>1, <2>2 DEF WriteBegin, FileTypeOK
<1>5. ASSUME NEW c \in Calls, WriteEnd(c) PROVE FileTypeOK'
  <2>1. call' \in [Calls -> SaveOfList] /\ call[c].list \in Lists
    BY <1>5 DEF WriteEnd, FileTypeOK, SaveOfList
  <2>2. {Whole(call[c].list), Torn} \subseteq Content
    BY <2>1, ContentTypes
  <2>3. {file', tmp'} \subseteq Content
    BY <1>5, <2>2 DEF WriteEnd, Writes, FileTypeOK
  <2> QED BY <1>5, <2>1, <2>3 DEF WriteEnd, FileTypeOK
<1>6. ASSUME NEW c \in Calls, Rename(c) PROVE FileTypeOK'
  <2>1. call' \in [Calls -> SaveOfList]
    <3>1. \A d \in Calls : [call[d] EXCEPT !.fd = Renamed(@)] \in SaveOfList
      BY DEF FileTypeOK, SaveOfList, Renamed
    <3> QED BY <1>6, <1>n, <3>1 DEF Rename
  <2>2. settled' \in BOOLEAN /\ mixed' \in BOOLEAN
    BY <1>6 DEF Rename, FileTypeOK
  <2> QED BY <1>6, <2>1, <2>2, ContentTypes DEF Rename, FileTypeOK
<1>7. ASSUME NEW c \in Calls, Fails(c) PROVE FileTypeOK'
  BY <1>7, <1>n DEF Fails, FileTypeOK
<1>8. ASSUME Reload PROVE FileTypeOK'
  BY <1>8, <1>n, DiskIsList DEF Reload, FileTypeOK
<1>9. CASE UNCHANGED <<items, fileVars>>
  BY <1>9 DEF FileTypeOK
<1>10. ASSUME NEW c \in Calls, CallStep(c) PROVE FileTypeOK'
  <2>1. ASSUME Starts(c), (\E text \in Texts : Push(text)) \/ Pop PROVE FileTypeOK'
    BY <1>1, <2>1, PushEffect, PopEffect DEF FileTypeOK
  <2> QED BY <1>2, <1>3, <1>4, <1>5, <1>6, <1>7, <1>10, <2>1
          DEF CallStep, PersistStep, RenameFails, IoFails
<1> QED BY <1>8, <1>9, <1>10 DEF FileNext

LEMMA FileTypeInit == FileInit => FileTypeOK
<1> SUFFICES ASSUME FileInit PROVE FileTypeOK
  OBVIOUS
<1>1. items \in Lists
  BY QueueAssumption DEF FileInit
<1>2. {file, tmp} \subseteq Content
  BY <1>1, ContentTypes DEF FileInit
<1> QED BY <1>1, <1>2, EmptyList DEF FileInit, FileTypeOK, NoCall, SaveOfList

----------------------------------------------------------------------------
(* One save at a time *)

LEMMA FileInvInit == FileInit => FileInv
  BY DEF FileInit, FileInv, Saving, Busy, NoCall, FileWhole, Readable, disk, Whole, NoFile

\* A save that nothing overlaps writes to the temporary file only, and is alone.
LEMMA LoneSave ==
    ASSUME FileInv, ~overlapped, NEW c \in Calls, Busy(c)
    PROVE  /\ Saving(c) /\ ~settled
           /\ \A d \in Calls : d # c => ~Busy(d)
  BY DEF FileInv

\* Steps that leave everything but the temporary file alone.
LEMMA SaveFrame ==
    ASSUME FileInv, NEW c \in Calls, Busy(c),
           UNCHANGED <<items, file, settled, overlapped, mixed>>,
           \A d \in Calls : d # c => call'[d] = call[d],
           ~overlapped => Saving(c)'
    PROVE  FileInv'
<1>1. ~settled
  BY DEF FileInv
<1>2. FileWhole'
  BY DEF FileInv, FileWhole, Readable
<1>3. CASE overlapped
  BY <1>1, <1>2, <1>3 DEF FileInv
<1>4. CASE ~overlapped
  <2>1. \A d \in Calls : d # c => call'[d].pc = "idle"
    BY <1>4, LoneSave DEF Busy
  <2>2. \A d \in Calls : d # c => Saving(d)'
    BY <2>1 DEF Saving
  <2>3. \A d \in Calls : Busy(d)' => d = c
    BY <2>1 DEF Busy
  <2>4. \A d, e \in Calls : Busy(d)' /\ Busy(e)' => d = e
    BY <2>3
  <2>5. \A d \in Calls : Saving(d)'
    BY <1>4, <2>2
  <2> HIDE DEF Saving, Busy
  <2> QED BY <1>1, <1>2, <1>4, <2>4, <2>5 DEF FileInv
<1> QED BY <1>3, <1>4

LEMMA FileInvStep == FileTypeOK /\ FileInv /\ [FileNext]_<<items, fileVars>> => FileInv'
<1> SUFFICES ASSUME FileTypeOK, FileInv, [FileNext]_<<items, fileVars>> PROVE FileInv'
  OBVIOUS
<1> USE DEF fileVars
<1>1. ASSUME NEW c \in Calls, Starts(c) PROVE FileInv'
  <2>1. /\ overlapped' = (\E d \in Calls : Busy(d))
        /\ mixed' = (mixed \/ \E d \in Calls : Busy(d))
        /\ call'[c].pc = "mkdir" /\ \A d \in Calls : d # c => call'[d] = call[d]
        /\ ~settled' /\ UNCHANGED <<file, tmp>>
    BY <1>1 DEF Starts, FileTypeOK, SaveOfList
  <2>2. FileWhole'
    BY <2>1 DEF FileInv, FileWhole, Readable
  <2>3. CASE \E d \in Calls : Busy(d)
    BY <2>1, <2>2, <2>3 DEF FileInv
  <2>4. CASE \A d \in Calls : ~Busy(d)
    BY <2>1, <2>2, <2>4 DEF FileInv, Saving, Busy
  <2> QED BY <2>3, <2>4
<1>2. ASSUME NEW c \in Calls, Encode(c) PROVE FileInv'
  <2>1. /\ Busy(c) /\ UNCHANGED <<items, file, settled, overlapped, mixed>>
        /\ \A d \in Calls : d # c => call'[d] = call[d]
        /\ call'[c].pc = "open" /\ call'[c].list = items
    BY <1>2 DEF Encode, Busy, FileTypeOK, SaveOfList
  <2>2. Saving(c)'
    BY <2>1 DEF Saving
  <2> QED BY <2>1, <2>2, SaveFrame
<1>3. ASSUME NEW c \in Calls, Open(c) PROVE FileInv'
  <2>1. /\ Busy(c) /\ call[c].pc = "open" /\ tmp' = Blank
        /\ UNCHANGED <<items, file, settled, overlapped, mixed>>
        /\ \A d \in Calls : d # c => call'[d] = call[d]
        /\ call'[c].pc = "write" /\ call'[c].fd = "tmp" /\ call'[c].list = call[c].list
    BY <1>3 DEF Open, Busy, FileTypeOK, SaveOfList
  <2>2. ASSUME ~overlapped PROVE Saving(c)'
    <3>1. Saving(c)
      BY <2>1, <2>2, LoneSave
    <3> QED BY <2>1, <3>1 DEF Saving
  <2> QED BY <2>1, <2>2, SaveFrame
<1>4. ASSUME NEW c \in Calls, WriteBegin(c) \/ WriteEnd(c) PROVE FileInv'
  <2>1. /\ Busy(c) /\ UNCHANGED <<items, settled, overlapped, mixed>>
        /\ \A d \in Calls : d # c => call'[d] = call[d]
        /\ call[c].pc \in {"write", "writing"}
        /\ call'[c].fd = call[c].fd /\ call'[c].list = call[c].list
        /\ call[c].pc = "write" => call'[c].pc = "writing"
        /\ call[c].pc = "writing" => call'[c].pc = "rename"
    BY <1>4 DEF WriteBegin, WriteEnd, Busy, FileTypeOK, SaveOfList
  <2>2. CASE overlapped
    <3>1. mixed /\ ~settled
      BY <2>1, <2>2 DEF FileInv
    <3> QED BY <2>1, <2>2, <3>1 DEF FileInv, FileWhole
  <2>3. CASE ~overlapped
    <3>1. Saving(c)
      BY <2>1, <2>3, LoneSave
    <3>2. call[c].fd = "tmp" /\ call[c].list = items /\ Opened(c) = tmp
      BY <2>1, <3>1 DEF Saving, Opened
    <3>3. file' = file
      BY <1>4, <3>2 DEF WriteBegin, WriteEnd, Writes
    <3>4. CASE call[c].pc = "write"
      <4>1. tmp' = Part(c)
        BY <1>4, <3>1, <3>2, <3>4 DEF WriteBegin, WriteEnd, Writes, Saving
      <4>2. Saving(c)'
        BY <2>1, <3>2, <3>4, <4>1 DEF Saving
      <4> QED BY <2>1, <3>3, <4>2, SaveFrame
    <3>5. CASE call[c].pc = "writing"
      <4>1. tmp' = Whole(items)
        BY <1>4, <3>1, <3>2, <3>5 DEF WriteBegin, WriteEnd, Writes, Saving
      <4>2. Saving(c)'
        BY <2>1, <3>2, <3>5, <4>1 DEF Saving
      <4> QED BY <2>1, <3>3, <4>2, SaveFrame
    <3> QED BY <2>1, <3>4, <3>5
  <2> QED BY <2>2, <2>3
<1>5. ASSUME NEW c \in Calls, Rename(c) PROVE FileInv'
  <2>1. /\ Busy(c) /\ call[c].pc = "rename" /\ file' = tmp
        /\ UNCHANGED <<items, overlapped>>
        /\ settled' = ~overlapped /\ mixed' = (mixed /\ overlapped)
        /\ call'[c].pc = "idle"
        /\ \A d \in Calls : d # c => call'[d].pc = call[d].pc
    BY <1>5 DEF Rename, Busy, NoCall, FileTypeOK, SaveOfList
  <2>2. CASE overlapped
    BY <2>1, <2>2 DEF FileInv, FileWhole
  <2>3. CASE ~overlapped
    <3>1. tmp = Whole(items) /\ \A d \in Calls : call'[d].pc = "idle"
      BY <2>1, <2>3, LoneSave DEF Saving, Busy
    <3>2. Readable' /\ disk' = items'
      BY <2>1, <3>1 DEF Readable, disk, Whole
    <3> QED BY <2>1, <2>3, <3>1, <3>2 DEF FileInv, FileWhole, Saving, Busy
  <2> QED BY <2>2, <2>3
<1>6. ASSUME NEW c \in Calls, Fails(c) PROVE FileInv'
  <2>1. /\ UNCHANGED <<items, file, tmp, overlapped, mixed>> /\ ~settled'
        /\ call'[c].pc = "idle"
        /\ \A d \in Calls : d # c => call'[d] = call[d]
    BY <1>6 DEF Fails, NoCall, FileTypeOK
  <2>2. FileWhole'
    BY <2>1 DEF FileInv, FileWhole, Readable
  <2>3. \A d \in Calls : Saving(d) => Saving(d)'
    BY <2>1 DEF Saving
  <2>4. \A d \in Calls : Busy(d)' => Busy(d)
    BY <2>1 DEF Busy
  <2> HIDE DEF Saving, Busy, FileWhole
  <2> QED BY <2>1, <2>2, <2>3, <2>4 DEF FileInv
<1>7. ASSUME Reload PROVE FileInv'
  <2>1. /\ items' = disk /\ ~overlapped' /\ UNCHANGED <<file, mixed>>
        /\ \A c \in Calls : call'[c].pc = "idle"
    BY <1>7 DEF Reload, NoCall
  <2>2. FileWhole' /\ disk' = disk
    BY <2>1 DEF FileInv, FileWhole, Readable, disk
  <2> QED BY <2>1, <2>2 DEF FileInv, Saving, Busy
<1>8. CASE UNCHANGED <<items, fileVars>>
  BY <1>8 DEF FileInv, Saving, Busy, FileWhole, Readable, disk
<1> QED BY <1>1, <1>2, <1>3, <1>4, <1>5, <1>6, <1>7, <1>8
        DEF FileNext, CallStep, PersistStep, RenameFails, IoFails

LEMMA FileAlways == FileSpec => [](FileTypeOK /\ FileInv)
  BY FileTypeInit, FileTypeStep, FileInvInit, FileInvStep, PTL DEF FileSpec

\* However a save was interrupted, the file is absent or a whole list, unless saves
\* overlapped and none has ended well on its own since (upload_queue.dart:34, 99-106).
THEOREM FileStaysWhole == FileSpec => []FileWhole
<1>1. FileInv => FileWhole
  BY DEF FileInv
<1> QED BY <1>1, FileAlways, PTL

\* A save that nothing overlapped and that ended without an error put the list in
\* memory into the file, also after saves that did overlap (upload_queue.dart:99-106).
THEOREM SaveReachesDisk == FileSpec => []SettledOnDisk
<1>1. FileInv => SettledOnDisk
  BY DEF FileInv, SettledOnDisk
<1> QED BY <1>1, FileAlways, PTL

----------------------------------------------------------------------------
(* The file implements QueueDisk *)

\* While saves are not mixed, the only step that changes what load would read is
\* the rename at the end of a save, and it leaves the list in memory there.
LEMMA DiskEffect ==
    ASSUME FileTypeOK, FileInv, [FileNext]_<<items, fileVars>>
    PROVE  \/ mixed'
           \/ ~mixed /\ disk' = disk
           \/ disk' = items /\ items' = items
<1> USE DEF fileVars
<1>1. ASSUME NEW c \in Calls, Starts(c) \/ Encode(c) \/ Open(c) \/ Fails(c)
      PROVE  mixed' \/ (~mixed /\ disk' = disk)
  BY <1>1 DEF Starts, Encode, Open, Fails, disk, Readable
<1>2. ASSUME NEW c \in Calls, WriteBegin(c) \/ WriteEnd(c)
      PROVE  mixed' \/ (~mixed /\ disk' = disk)
  <2> SUFFICES ASSUME ~mixed PROVE disk' = disk
    BY <1>2 DEF WriteBegin, WriteEnd
  <2>1. ~overlapped /\ Busy(c) /\ call[c].pc \in {"write", "writing"}
    BY <1>2 DEF FileInv, WriteBegin, WriteEnd, Busy
  <2>2. call[c].fd = "tmp"
    BY <2>1, LoneSave DEF Saving
  <2>3. file' = file
    BY <1>2, <2>2 DEF WriteBegin, WriteEnd, Writes
  <2> QED BY <2>3 DEF disk, Readable
<1>3. ASSUME NEW c \in Calls, Rename(c) PROVE mixed' \/ (disk' = items /\ items' = items)
  <2> SUFFICES ASSUME ~mixed' PROVE disk' = items /\ items' = items
    OBVIOUS
  <2>1. ~overlapped /\ Busy(c) /\ call[c].pc = "rename" /\ file' = tmp /\ items' = items
    BY <1>3 DEF Rename, FileInv, Busy
  <2>2. tmp = Whole(items)
    BY <2>1, LoneSave DEF Saving
  <2> QED BY <2>1, <2>2 DEF disk, Readable, Whole
<1>4. ASSUME Reload PROVE mixed' \/ (~mixed /\ disk' = disk)
  BY <1>4 DEF Reload, disk, Readable
<1>5. CASE UNCHANGED <<items, fileVars>>
  BY <1>5 DEF disk, Readable
<1> QED BY <1>1, <1>2, <1>3, <1>4, <1>5
        DEF FileNext, CallStep, PersistStep, RenameFails, IoFails

LEMMA AbstractStep ==
    FileTypeOK /\ FileInv /\ [FileNext]_<<items, fileVars>>
      => [mixed \/ mixed' \/ Abstract!Next]_<<items, disk>>
<1> SUFFICES ASSUME FileTypeOK, FileInv, [FileNext]_<<items, fileVars>>, ~mixed, ~mixed'
             PROVE  Abstract!Next \/ UNCHANGED <<items, disk>>
  BY Zenon
<1>1. disk' = disk \/ (disk' = items /\ items' = items)
  BY DiskEffect
<1>2. CASE disk' = items /\ items' = items
  BY <1>2 DEF Abstract!Save, Abstract!Next
<1>3. CASE disk' = disk
  <2>1. ASSUME NEW text \in Texts, Push(text) PROVE Abstract!Enqueue(text)
    BY <1>3, <2>1 DEF Push, Full, Abstract!Enqueue
  <2>2. ASSUME items # <<>>, Pop PROVE Abstract!RemoveFirst
    BY <1>3, <2>2 DEF Pop, Abstract!RemoveFirst
  <2>3. ASSUME Reload PROVE Abstract!Restart
    BY <1>3, <2>3 DEF Reload, Abstract!Restart
  <2>4. ASSUME NEW c \in Calls, CallStep(c) PROVE Abstract!Next \/ UNCHANGED items
    BY <2>1, <2>2, <2>4
       DEF CallStep, PersistStep, Encode, Open, WriteBegin, WriteEnd, Rename, RenameFails,
           IoFails, Fails, Abstract!Next
  <2> QED BY <1>3, <2>3, <2>4 DEF FileNext, Abstract!Next
<1> QED BY <1>1, <1>2, <1>3

\* As far as a restart can tell, each save is the one step that QueueDisk makes of
\* it, through crashes and failing file operations, unless saves were mixed
\* (upload_queue.dart:74-107).
THEOREM SavesAreAtomic == FileSpec => SavesAtomically
  BY AbstractStep, FileAlways, PTL DEF FileSpec, SavesAtomically

----------------------------------------------------------------------------
(* The uploads and their file *)

\* Who saves the list changes it as UploadQueueFile says, and nobody else does.
LEMMA DiskIsFileStep == TypeOK /\ [DiskNext]_diskVars => [FileNext]_<<items, fileVars>>
<1> SUFFICES ASSUME TypeOK, [DiskNext]_diskVars
             PROVE  FileNext \/ UNCHANGED <<items, fileVars>>
  OBVIOUS
<1> USE DEF queueVars, clientVars, FileIdle
<1>c. Flusher \in Calls /\ Tasks \subseteq Calls
  BY CallersAssumption
<1>1. ASSUME NEW t \in Tasks, EnqueueStarts(t) PROVE FileNext \/ UNCHANGED <<items, fileVars>>
  <2>1. task[t].text \in Texts
    BY <1>1, CallShapes DEF EnqueueStarts, UploadGivesUp, TypeOK
  <2>2. CASE wired
    <3>1. Push(task[t].text) /\ Starts(t)
      BY <1>1, <2>2 DEF EnqueueStarts, UploadGivesUp, Enqueue
    <3> QED BY <1>c, <2>1, <3>1 DEF FileNext, CallStep
  <2>3. CASE ~wired
    BY <1>1, <2>3 DEF EnqueueStarts, UploadGivesUp
  <2> QED BY <2>2, <2>3
<1>2. ASSUME NEW t \in Tasks, EnqueueReturns(t) PROVE FileNext
  BY <1>c, <1>2 DEF EnqueueReturns, FileNext, CallStep
<1>3. ASSUME NEW t \in Tasks, EnqueueThrows(t) PROVE FileNext
  BY <1>c, <1>3 DEF EnqueueThrows, FileNext, CallStep
<1>4. ASSUME RemoveStarts PROVE FileNext \/ UNCHANGED <<items, fileVars>>
  <2>1. Pop
    BY <1>4 DEF RemoveStarts, FlushRemoves
  <2>2. CASE items # <<>>
    BY <1>c, <1>4, <2>1, <2>2 DEF RemoveStarts, FileNext, CallStep
  <2>3. CASE items = <<>>
    BY <1>4, <2>1, <2>3 DEF RemoveStarts, Pop
  <2> QED BY <2>2, <2>3
<1>5. ASSUME RemoveReturns PROVE FileNext \/ UNCHANGED <<items, fileVars>>
  <2>1. items' = items
    BY <1>5 DEF RemoveReturns, FlushPersisted, FlushNext
  <2> QED BY <1>c, <1>5, <2>1 DEF RemoveReturns, FileNext, CallStep
<1>6. ASSUME RemoveThrows PROVE FileNext
  BY <1>c, <1>6 DEF RemoveThrows, FileNext, CallStep
<1>7. ASSUME Persists PROVE FileNext
  BY <1>7 DEF Persists, FileNext, CallStep
<1>8. ASSUME DedupThrows PROVE UNCHANGED <<items, fileVars>>
  BY <1>8 DEF DedupThrows, FlushWriteThrows, UploadWriteThrows
<1>9. ASSUME Uploads PROVE UNCHANGED <<items, fileVars>>
  BY <1>9 DEF Uploads, Upload, UploadRetry, UploadSucceeds, UploadNoted, UploadStops
<1>10. ASSUME Flushes PROVE UNCHANGED <<items, fileVars>>
  BY <1>10 DEF Flushes, TimerTick, FlushRetry, FlushStops, FlushNext
<1>11. ASSUME Saves \/ Surroundings PROVE UNCHANGED <<items, fileVars>>
  BY <1>11 DEF Saves, SaveValidated, SaveStep, SaveUrl, SaveClears, SaveKey, SaveMoves,
               SaveThrows, Surroundings, Environment, GoOffline, GoOnline, DismissBanner,
               ResetKey
<1>12. ASSUME Crash PROVE FileNext
  BY <1>12 DEF Crash, FileNext
<1>13. CASE UNCHANGED diskVars
  BY <1>13 DEF diskVars, vars
<1> QED BY <1>1, <1>2, <1>3, <1>4, <1>5, <1>6, <1>7, <1>8, <1>9, <1>10, <1>11, <1>12, <1>13
        DEF DiskNext

\* But for its restarts, it is the client of UploadClient.
LEMMA DiskIsClientStep ==
    TypeOK /\ [DiskNext]_diskVars => Crash \/ (gambled' = gambled /\ [ClientStep]_vars)
<1> SUFFICES ASSUME TypeOK, [DiskNext]_diskVars
             PROVE  Crash \/ (gambled' = gambled /\ (ClientStep \/ UNCHANGED vars))
  OBVIOUS
<1> USE DEF FileIdle
<1>s. ASSUME Spend("throws") PROVE left' \in Counts
  BY <1>s, SpendType DEF TypeOK, Events
<1>u. ASSUME UNCHANGED left PROVE left' \in Counts
  BY <1>u DEF TypeOK
<1>1. ASSUME NEW t \in Tasks, EnqueueStarts(t) \/ EnqueueReturns(t)
      PROVE  gambled' = gambled /\ ClientStep
  BY <1>1 DEF EnqueueStarts, EnqueueReturns, ClientStep, UploadStep
<1>2. ASSUME NEW t \in Tasks, EnqueueThrows(t)
      PROVE  gambled' = gambled /\ ClientStep
  BY <1>s, <1>u, <1>2 DEF EnqueueThrows, ClientStep, Surprise
<1>3. ASSUME RemoveStarts \/ RemoveReturns
      PROVE  gambled' = gambled /\ ClientStep
  BY <1>3 DEF RemoveStarts, RemoveReturns, ClientStep, FlushStep
<1>4. ASSUME RemoveThrows
      PROVE  gambled' = gambled /\ ClientStep
  BY <1>s, <1>u, <1>4 DEF RemoveThrows, ClientStep, Surprise
<1>5. ASSUME Persists
      PROVE  gambled' = gambled /\ UNCHANGED vars
  BY <1>5 DEF Persists
<1>6. ASSUME DedupThrows
      PROVE  gambled' = gambled /\ ClientStep
  BY <1>s, <1>6 DEF DedupThrows, ClientStep, Surprise
<1>7. ASSUME Uploads \/ Flushes
      PROVE  gambled' = gambled /\ ClientStep
  BY <1>7 DEF Uploads, Flushes, ClientStep, UploadStep, FlushStep
<1>8. ASSUME Saves \/ Surroundings
      PROVE  gambled' = gambled /\ ClientStep
  BY <1>s, <1>8 DEF Saves, Surroundings, ClientStep, Surprise
<1>9. CASE UNCHANGED diskVars
  BY <1>9 DEF diskVars
<1> QED BY <1>1, <1>2, <1>3, <1>4, <1>5, <1>6, <1>7, <1>8, <1>9 DEF DiskNext

LEMMA DiskTypeStep == DiskTypeOK /\ [DiskNext]_diskVars => DiskTypeOK'
<1> SUFFICES ASSUME DiskTypeOK, [DiskNext]_diskVars PROVE DiskTypeOK'
  OBVIOUS
<1>1. FileTypeOK'
  BY DiskIsFileStep, FileTypeStep DEF DiskTypeOK
<1>2. CASE Crash
  <2>1. TypeOK'
    BY <1>2, TypeRestart, DiskIsList DEF Crash, DiskTypeOK
  <2>2. gambled' \in BOOLEAN
    BY <1>2, Zenon DEF Crash, DiskTypeOK, FileTypeOK
  <2> QED BY <1>1, <2>1, <2>2 DEF DiskTypeOK
<1>3. CASE gambled' = gambled /\ [ClientStep]_vars
  BY <1>1, <1>3, TypeStep DEF DiskTypeOK
<1> QED BY <1>2, <1>3, DiskIsClientStep DEF DiskTypeOK

\* Everything in memory and in the file keeps its type while saves run next to
\* uploads, flush and restarts; in particular list and file keep to the bound
\* (upload_queue.dart:77-80).
THEOREM DiskTypesHold == DiskSpec => []DiskTypeOK
<1>1. DiskInit => DiskTypeOK
  BY TypeInit, FileTypeInit DEF DiskInit, DiskTypeOK
<1> QED BY <1>1, DiskTypeStep, PTL DEF DiskSpec

\* The uploads and the flush use the file as UploadQueueFile describes, so what is
\* proved of it for any callers holds for them (upload_coordinator.dart:171, 212, 219).
THEOREM UsesTheFile == DiskSpec => FileSpec
<1>1. DiskInit => FileInit
  BY DEF DiskInit
<1>2. DiskTypeOK /\ [DiskNext]_diskVars => [FileNext]_<<items, fileVars>>
  BY DiskIsFileStep DEF DiskTypeOK
<1> QED BY <1>1, <1>2, DiskTypesHold, PTL DEF DiskSpec, FileSpec

----------------------------------------------------------------------------
(* Durability *)

\* An upload or the flush is inside its save exactly while it awaits the file.
LEMMA CallersStep ==
    ASSUME DiskTypeOK, CallersWait, [DiskNext]_diskVars
    PROVE  CallersWait'
<1> USE DEF queueVars, clientVars, FileIdle
<1>c. /\ Flusher \in Calls /\ Tasks \subseteq Calls /\ Flusher \notin Tasks
      /\ call \in [Calls -> SaveOfList] /\ task \in [Tasks -> UploadCall] /\ flush \in FlushLoop
  BY CallersAssumption DEF DiskTypeOK, TypeOK, FileTypeOK
<1> DEFINE Waits(c) == c.pc \in {"persist", "persistFull"}
\* Steps of one caller: the others stay where they are.
<1>u. ASSUME NEW t \in Tasks, flush' = flush,
             \A c \in Calls : c # t => (call'[c].pc # "idle" <=> call[c].pc # "idle"),
             \A u \in Tasks : u # t => task'[u] = task[u],
             call'[t].pc # "idle" <=> Waits(task'[t])
      PROVE  CallersWait'
  BY <1>c, <1>u DEF CallersWait, Busy
<1>f. ASSUME task' = task,
             \A c \in Calls : c # Flusher => (call'[c].pc # "idle" <=> call[c].pc # "idle"),
             call'[Flusher].pc # "idle" => flush'.pc = "persist"
      PROVE  CallersWait'
  BY <1>c, <1>f DEF CallersWait, Busy
\* Steps that leave the file alone.
<1>i. ASSUME UNCHANGED call,
             flush' = flush \/ flush.pc # "persist",
             \A u \in Tasks : Waits(task'[u]) <=> Waits(task[u])
      PROVE  CallersWait'
  BY <1>i DEF CallersWait, Busy
<1>1. ASSUME NEW t \in Tasks, EnqueueStarts(t) PROVE CallersWait'
  <2>1. CASE wired
    <3>1. /\ flush' = flush /\ \A u \in Tasks : u # t => task'[u] = task[u]
          /\ Waits(task'[t])
      BY <1>1, <1>c, <2>1 DEF EnqueueStarts, UploadGivesUp, UploadCall, Idle
    <3>2. call'[t].pc = "mkdir" /\ \A c \in Calls : c # t => call'[c] = call[c]
      BY <1>1, <1>c, <2>1 DEF EnqueueStarts, Starts, SaveOfList
    <3> QED BY <1>u, <3>1, <3>2
  <2>2. CASE ~wired
    <3>1. /\ UNCHANGED <<call, flush>> /\ task[t].pc = "sent" /\ task'[t].pc = "idle"
          /\ \A u \in Tasks : u # t => task'[u] = task[u]
      BY <1>1, <1>c, <2>2 DEF EnqueueStarts, UploadGivesUp, Idle, fileVars
    <3> QED BY <1>i, <3>1
  <2> QED BY <2>1, <2>2
<1>2. ASSUME NEW t \in Tasks, EnqueueReturns(t) \/ EnqueueThrows(t) PROVE CallersWait'
  <2>1. /\ flush' = flush /\ task'[t].pc = "idle"
        /\ \A u \in Tasks : u # t => task'[u] = task[u]
    BY <1>2, <1>c
       DEF EnqueueReturns, EnqueueThrows, UploadQueued, UploadWriteThrows, Idle
  <2>2. call'[t].pc = "idle" /\ \A c \in Calls : c # t => call'[c].pc = call[c].pc
    BY <1>2, <1>c
       DEF EnqueueReturns, EnqueueThrows, Rename, RenameFails, IoFails, Fails, NoCall,
           SaveOfList
  <2> QED BY <1>u, <2>1, <2>2
<1>3. ASSUME RemoveStarts PROVE CallersWait'
  <2>1. flush'.pc = "persist" /\ task' = task
    BY <1>3, <1>c DEF RemoveStarts, FlushRemoves, FlushLoop, Idle
  <2>2. \A c \in Calls : c # Flusher => call'[c] = call[c]
    BY <1>3, <1>c DEF RemoveStarts, Starts, fileVars
  <2> QED BY <1>f, <2>1, <2>2
<1>4. ASSUME RemoveReturns \/ RemoveThrows PROVE CallersWait'
  <2>1. task' = task
    BY <1>4 DEF RemoveReturns, RemoveThrows, FlushPersisted, FlushNext, FlushWriteThrows
  <2>2. call'[Flusher].pc = "idle" /\ \A c \in Calls : c # Flusher => call'[c].pc = call[c].pc
    BY <1>4, <1>c
       DEF RemoveReturns, RemoveThrows, Rename, RenameFails, IoFails, Fails, NoCall, Busy,
           SaveOfList, fileVars
  <2> QED BY <1>f, <2>1, <2>2
<1>5. ASSUME Persists PROVE CallersWait'
  <2>1. UNCHANGED <<task, flush>>
    BY <1>5 DEF Persists, vars
  <2>2. \A c \in Calls : call'[c].pc # "idle" <=> call[c].pc # "idle"
    BY <1>5, <1>c
       DEF Persists, PersistStep, Encode, Open, WriteBegin, WriteEnd, SaveOfList
  <2> QED BY <1>c, <2>1, <2>2 DEF CallersWait, Busy
<1>6. ASSUME DedupThrows PROVE CallersWait'
  <2>1. CASE flush.pc = "dedup" /\ FlushWriteThrows
    BY <1>6, <1>i, <2>1 DEF DedupThrows, FlushWriteThrows, fileVars
  <2>2. ASSUME NEW t \in Tasks, task[t].pc = "dedup", UploadWriteThrows(t)
        PROVE  CallersWait'
    <3>1. /\ UNCHANGED <<call, flush>> /\ task'[t].pc = "idle"
          /\ \A u \in Tasks : u # t => task'[u] = task[u]
      BY <1>6, <1>c, <2>2 DEF DedupThrows, UploadWriteThrows, Idle, fileVars
    <3> QED BY <1>i, <2>2, <3>1
  <2> QED BY <1>6, <2>1, <2>2 DEF DedupThrows
<1>7. ASSUME Uploads PROVE CallersWait'
  <2>1. PICK t \in Tasks : \/ \E x \in Texts : Upload(t, x)
                           \/ UploadRetry(t) \/ UploadSucceeds(t) \/ UploadNoted(t)
                           \/ UploadStops(t)
    BY <1>7 DEF Uploads
  <2>2. \A u \in Tasks : task'[u] = task[u] \/ (~Waits(task'[u]) /\ ~Waits(task[u]))
    BY <1>c, <2>1, CallShapes
       DEF Upload, UploadSkipped, UploadTooLong, UploadSent, UploadRetry, UploadSucceeds,
           UploadNoted, UploadStops, Sent, Idle, UploadCall
  <2>3. flush' = flush \/ flush.pc # "persist"
    BY <2>1 DEF Upload, UploadRetry, UploadSucceeds, UploadNoted, CallFlush, UploadStops
  <2>4. UNCHANGED call
    BY <1>7 DEF Uploads, fileVars
  <2> QED BY <1>i, <2>2, <2>3, <2>4
<1>8. ASSUME Flushes PROVE CallersWait'
  <2>1. UNCHANGED <<call, task>> /\ flush.pc # "persist"
    BY <1>8 DEF Flushes, TimerTick, FlushRetry, FlushStops, FlushNext, fileVars
  <2> QED BY <1>i, <2>1
<1>9. ASSUME Saves \/ Surroundings \/ UNCHANGED diskVars PROVE CallersWait'
  <2>1. UNCHANGED <<call, task, flush>>
    BY <1>9 DEF Saves, SaveValidated, SaveStep, SaveUrl, SaveClears, SaveKey, SaveMoves,
                SaveThrows, Surroundings, Environment, GoOffline, GoOnline, DismissBanner,
                ResetKey, fileVars, diskVars, vars
  <2> QED BY <1>i, <2>1
<1>10. ASSUME Crash PROVE CallersWait'
  <2>1. /\ \A c \in Calls : call'[c].pc = "idle"
        /\ \A t \in Tasks : task'[t].pc = "idle"
    BY <1>10 DEF Crash, CrashRestart, Reload, NoCall, Idle
  <2> QED BY <1>c, <2>1 DEF CallersWait, Busy
<1> QED BY <1>1, <1>2, <1>3, <1>4, <1>5, <1>6, <1>7, <1>8, <1>9, <1>10 DEF DiskNext

\* A text becomes owed when the save of its enqueue has ended, or without a queue.
LEMMA OwedEffect ==
    ASSUME TypeOK, [DiskNext]_diskVars, ~Crash
    PROVE  /\ wired' = wired /\ evicted \subseteq evicted'
           /\ owed' = owed \/ ~wired \/ \E t \in Tasks : Rename(t)
<1> USE DEF queueVars, clientVars, ghostVars, FileIdle
<1>1. ASSUME NEW t \in Tasks, EnqueueStarts(t)
      PROVE  wired' = wired /\ evicted \subseteq evicted' /\ (owed' = owed \/ ~wired)
  BY <1>1 DEF EnqueueStarts, UploadGivesUp, Enqueue
<1>2. ASSUME NEW t \in Tasks, EnqueueReturns(t)
      PROVE  wired' = wired /\ evicted' = evicted /\ Rename(t)
  BY <1>2 DEF EnqueueReturns, UploadQueued
<1>3. ASSUME \/ \E t \in Tasks : EnqueueThrows(t)
             \/ RemoveStarts \/ RemoveReturns \/ RemoveThrows \/ DedupThrows \/ Persists
             \/ UNCHANGED diskVars
      PROVE  UNCHANGED <<wired, evicted, owed>>
  BY <1>3 DEF EnqueueThrows, RemoveStarts, RemoveReturns, RemoveThrows, DedupThrows, Persists,
              UploadWriteThrows, FlushRemoves, FlushPersisted, FlushNext, FlushWriteThrows,
              diskVars, vars
<1>4. ASSUME Uploads \/ Flushes
      PROVE  UNCHANGED <<wired, evicted, owed>>
  BY <1>4 DEF Uploads, Flushes, Upload, UploadRetry, UploadSucceeds, UploadNoted, UploadStops,
              TimerTick, FlushRetry, FlushStops, FlushNext
<1>5. ASSUME Saves \/ Surroundings
      PROVE  UNCHANGED <<wired, evicted, owed>>
  BY <1>5 DEF Saves, SaveValidated, SaveStep, SaveUrl, SaveClears, SaveKey, SaveMoves,
              SaveThrows, Surroundings, Environment, GoOffline, GoOnline, DismissBanner,
              ResetKey
<1> QED BY <1>1, <1>2, <1>3, <1>4, <1>5 DEF DiskNext

\* Neither memory nor the file loses a text: one step of the client saves what the
\* other has, and a restart reads it back.
LEMMA DurableStep ==
    ASSUME DiskInv, [DiskNext]_diskVars
    PROVE  MemoryKeeps' /\ DurableUntilSettled'
<1>t. TypeOK /\ FileTypeOK /\ FileInv /\ AnswersKeep
  BY DEF DiskInv, DiskTypeOK, AnswersKeep
<1>k. MemoryKeeps <=> (~gambled => QueueKeeps)
  BY DEF MemoryKeeps, QueueKeeps
<1>p. MemoryKeeps' <=> (~gambled' => QueueKeeps')
  BY DEF MemoryKeeps, QueueKeeps
<1>e. \/ mixed'
      \/ ~mixed /\ disk' = disk
      \/ disk' = items /\ items' = items
  BY <1>t, DiskIsFileStep, DiskEffect
<1>1. CASE Crash
  <2>1. /\ \A t \in Tasks : task'[t].pc = "idle"
        /\ flush'.pc = "idle" /\ items' = disk /\ disk' = disk
        /\ UNCHANGED <<wired, owed, evicted, refused, accepted, mixed>>
        /\ gambled' = (gambled \/ mixed)
    BY <1>1 DEF Crash, CrashRestart, Reload, Idle, serverVars, disk, Readable
  <2>2. DurableUntilSettled'
    BY <2>1 DEF DiskInv, DurableUntilSettled, Stored
  <2>3. FlushHoldsHead' /\ EnqueuedIsHeld'
    BY <2>1 DEF FlushHoldsHead, EnqueuedIsHeld
  <2>4. ~gambled' => LossNeedsOverflow'
    BY <2>1 DEF DiskInv, DurableUntilSettled, LossNeedsOverflow, Stored, Queued
  <2> QED BY <1>p, <2>2, <2>3, <2>4 DEF QueueKeeps
<1>2. CASE ~Crash
  <2>1. gambled' = gambled /\ [ClientStep]_vars
    BY <1>t, <1>2, DiskIsClientStep
  <2>2. MemoryKeeps'
    BY <1>t, <1>k, <1>p, <2>1, QueueStep DEF DiskInv
  <2>3. /\ wired' = wired /\ evicted \subseteq evicted'
        /\ owed' = owed \/ ~wired \/ \E t \in Tasks : Rename(t)
    BY <1>t, <1>2, OwedEffect
  <2>4. /\ \A x : Stored(x) => Stored(x)'
        /\ refused \subseteq refused'
    BY <1>t, <2>1, HistoryGrows, SettledStays
  <2>5. CASE mixed' \/ gambled' \/ ~wired
    BY <2>2, <2>3, <2>5 DEF DurableUntilSettled
  <2>6. CASE ~gambled' /\ disk' = items /\ items' = items
    <3>1. LossNeedsOverflow'
      BY <1>p, <2>2, <2>6 DEF QueueKeeps
    <3> QED BY <2>2, <2>6, <3>1 DEF LossNeedsOverflow, DurableUntilSettled, Queued
  <2>7. CASE ~gambled' /\ wired /\ ~mixed /\ disk' = disk /\ owed' = owed
    BY <2>1, <2>2, <2>3, <2>4, <2>7 DEF DiskInv, DurableUntilSettled
  <2>8. ASSUME NEW t \in Tasks, Rename(t), ~mixed'
        PROVE  disk' = items /\ items' = items
    <3>1. ~overlapped /\ Busy(t) /\ call[t].pc = "rename" /\ file' = tmp /\ items' = items
      BY <1>t, <2>8 DEF Rename, FileInv, Busy
    <3>2. tmp = Whole(items)
      BY <1>t, <3>1, LoneSave, CallersAssumption DEF Saving
    <3> QED BY <3>1, <3>2 DEF disk, Readable, Whole
  <2>9. DurableUntilSettled'
    BY <1>e, <2>3, <2>5, <2>6, <2>7, <2>8
  <2> QED BY <2>2, <2>9
<1> QED BY <1>1, <1>2

LEMMA DiskInvInit == DiskInit => DiskInv
<1> SUFFICES ASSUME DiskInit PROVE DiskInv
  OBVIOUS
<1>1. DiskTypeOK /\ FileInv /\ AnswersKeep /\ QueueKeeps
  BY TypeInit, FileTypeInit, FileInvInit, AnswersInit, QueueInit DEF DiskInit, DiskTypeOK
<1>2. CallersWait
  BY CallersAssumption DEF DiskInit, Init, FileInit, CallersWait, Busy, NoCall, Idle
<1>3. disk = items
  BY DEF DiskInit, FileInit, disk, Readable, Whole, NoFile
<1>4. DurableUntilSettled
  BY <1>3 DEF DiskInit, Init, DurableUntilSettled
<1> QED BY <1>1, <1>2, <1>4 DEF DiskInv, AnswersKeep, QueueKeeps, MemoryKeeps

LEMMA DiskInvStep == DiskInv /\ [DiskNext]_diskVars => DiskInv'
<1> SUFFICES ASSUME DiskInv, [DiskNext]_diskVars PROVE DiskInv'
  OBVIOUS
<1>t. DiskTypeOK /\ TypeOK /\ FileTypeOK /\ FileInv /\ AnswersKeep /\ CallersWait
  BY DEF DiskInv, DiskTypeOK, AnswersKeep
<1>1. DiskTypeOK'
  BY <1>t, DiskTypeStep
<1>2. FileInv'
  BY <1>t, DiskIsFileStep, FileInvStep
<1>3. CallersWait'
  BY <1>t, CallersStep
<1>4. AnswersKeep'
  BY <1>t, DiskIsClientStep, AnswersStep, AnswersRestart DEF Crash
<1>5. MemoryKeeps' /\ DurableUntilSettled'
  BY DurableStep
<1> QED BY <1>1, <1>2, <1>3, <1>4, <1>5 DEF DiskInv, AnswersKeep

LEMMA DiskAlways == DiskSpec => []DiskInv
  BY DiskInvInit, DiskInvStep, PTL DEF DiskSpec

\* A text given up on is in the file, through crashes between any two steps of any
\* save, until it is stored, refused or evicted; only a missing queue and saves
\* that overlapped can lose it (upload_queue.dart:52-69, 75-107).
THEOREM DurableQueue == DiskSpec => []DurableUntilSettled
  BY DiskAlways, PTL DEF DiskInv

\* The digest is that of a stored text through crashes too
\* (upload_coordinator.dart:120-121, 155-157, 214-216).
THEOREM DigestSurvives == DiskSpec => []DigestWasStored
  BY DiskAlways, PTL DEF DiskInv

\* And a crash in the middle of a save of the connection is among what makes the
\* pair unsure, until the next save that runs on its own
\* (upload_coordinator.dart:244-260).
THEOREM PairsSurvive == DiskSpec => []SavedPairMatches
<1>1. DiskTypeOK /\ PairInv /\ [DiskNext]_diskVars => PairInv'
  BY DiskIsClientStep, PairStep, PairRestart DEF DiskTypeOK, Crash
<1>2. DiskInit => PairInv
  BY PairInit DEF DiskInit
<1> QED BY <1>1, <1>2, PairImplies, DiskTypesHold, PTL DEF DiskSpec
=============================================================================
