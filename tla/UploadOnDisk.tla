---------------------------- MODULE UploadOnDisk ----------------------------
(***************************************************************************)
(* UploadClient and UploadQueueFile together: the uploads and the flush    *)
(* begin to save the list where they change it, go on only when the save   *)
(* ends, and may be inside their saves at the same time.  The process may  *)
(* end between any two steps and then loads what the file holds.           *)
(***************************************************************************)
EXTENDS UploadClient, UploadQueueFile

CONSTANTS
    Flusher \* flushQueue's removeFirst, as a call on the file

ASSUME CallersAssumption == Flusher \notin Tasks /\ Calls = Tasks \cup {Flusher}

VARIABLE gambled \* history: a restart has loaded a file that mixed saves had left

diskVars == <<vars, fileVars, gambled>>

DiskTypeOK == TypeOK /\ FileTypeOK /\ gambled \in BOOLEAN

FileIdle == UNCHANGED <<fileVars, gambled>>

\* enqueue has changed the list and saves it; without a queue nothing is saved.
EnqueueStarts(t) ==
    /\ UploadGivesUp(t)
    /\ IF wired THEN Starts(t) ELSE UNCHANGED fileVars
    /\ UNCHANGED gambled

\* removeFirst returns at once if there is nothing to remove.
RemoveStarts ==
    /\ FlushRemoves
    /\ IF items # <<>> THEN Starts(Flusher) ELSE UNCHANGED fileVars
    /\ UNCHANGED gambled

\* Faulty variant: enqueue does not await the file.
EnqueueReturnsEarly(t) ==
    /\ UploadQueued(t)
    /\ call[t].pc = "mkdir" /\ Fails(t)
    /\ UNCHANGED gambled

\* The last step of the save, and the code of the caller up to its next await.
EnqueueReturns(t) == UploadQueued(t) /\ Rename(t) /\ UNCHANGED gambled

RemoveReturns ==
    /\ flush.pc = "persist"
    /\ FlushPersisted \/ FlushNext
    /\ IF Busy(Flusher) THEN Rename(Flusher) ELSE UNCHANGED fileVars
    /\ UNCHANGED gambled

\* A save ends with an exception, which ends the upload or the flush too.  Only
\* the trouble of the disk is bounded, not that the temporary file is gone.
EnqueueThrows(t) ==
    /\ task[t].pc # "dedup"
    /\ UploadWriteThrows(t)
    /\ (RenameFails(t) /\ UNCHANGED left) \/ (IoFails(t) /\ Spend("throws"))
    /\ UNCHANGED gambled

RemoveThrows ==
    /\ flush.pc = "persist"
    /\ FlushWriteThrows
    /\ (RenameFails(Flusher) /\ UNCHANGED left) \/ (IoFails(Flusher) /\ Spend("throws"))
    /\ UNCHANGED gambled

\* Storing the digest throws.
DedupThrows ==
    /\ Spend("throws")
    /\ \/ flush.pc = "dedup" /\ FlushWriteThrows
       \/ \E t \in Tasks : task[t].pc = "dedup" /\ UploadWriteThrows(t)
    /\ FileIdle

\* What does not touch the file.
Uploads == FileIdle /\ \E t \in Tasks :
    \/ \E x \in Texts : Upload(t, x)
    \/ UploadRetry(t) \/ UploadSucceeds(t) \/ UploadNoted(t) \/ UploadStops(t)

Flushes == FileIdle /\
    \/ TimerTick \/ FlushRetry \/ FlushStops
    \/ flush.pc = "dedup" /\ FlushNext

Saves == FileIdle /\ \E s \in Savers :
    \/ \E u \in Urls, k \in Keys : SaveValidated(s, u, k)
    \/ SaveStep(s)
    \/ Spend("throws") /\ SaveThrows(s)

Surroundings == FileIdle /\ Environment

\* A step of _persist before the last one.
Persists == (\E c \in Calls : PersistStep(c)) /\ UNCHANGED <<vars, gambled>>

\* Without a queue there is nothing to load, and nothing in the file.
Crash ==
    /\ CrashRestart(disk) /\ Reload
    /\ gambled' = (gambled \/ mixed)

----------------------------------------------------------------------------
DiskInit == Init /\ FileInit /\ gambled = FALSE

DiskNext ==
    \/ \E t \in Tasks : EnqueueStarts(t) \/ EnqueueReturns(t) \/ EnqueueThrows(t)
    \/ RemoveStarts \/ RemoveReturns \/ RemoveThrows
    \/ Persists
    \/ DedupThrows \/ Uploads \/ Flushes \/ Saves \/ Surroundings
    \/ Crash

DiskSpec == DiskInit /\ [][DiskNext]_diskVars

----------------------------------------------------------------------------
(***************************************************************************)
(* Properties                                                              *)
(***************************************************************************)

\* A text that was given up on is in the file, until a server stored it or a 413
\* refused it, so that the next start finds it.  Besides an overflow and the want
\* of a queue only saves that overlapped can lose it: for as long as none has
\* ended well on its own since, and for good once a restart has read what they left.
DurableUntilSettled ==
    \A x \in owed : \/ x \in ToSet(disk) \/ Stored(x) \/ x \in refused
                    \/ evicted # {} \/ ~wired \/ mixed \/ gambled

----------------------------------------------------------------------------
(* The strengthening under which the properties are inductive. *)

\* In memory nothing is lost either, unless a restart read what mixed saves left.
MemoryKeeps ==
    ~gambled =>
        /\ FlushHoldsHead /\ EnqueuedIsHeld
        /\ LossNeedsOverflow

\* Who saves is who waits for the save.
CallersWait ==
    /\ \A t \in Tasks : Busy(t) <=> task[t].pc \in {"persist", "persistFull"}
    /\ Busy(Flusher) => flush.pc = "persist"

DiskInv ==
    /\ DiskTypeOK
    /\ FileInv
    /\ CallersWait
    /\ AnswersAreTrue
    /\ DigestWasStored
    /\ MemoryKeeps
    /\ DurableUntilSettled
=============================================================================
