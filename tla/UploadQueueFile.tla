-------------------------- MODULE UploadQueueFile --------------------------
(***************************************************************************)
(* The file of upload_queue.dart: the list of UploadQueue, saved by        *)
(* writing it to a temporary file that is then renamed.  The calls of      *)
(* enqueue and removeFirst are asynchronous and nothing serialises them,   *)
(* so several saves may be under way on the one temporary file.            *)
(*                                                                         *)
(* An open file is written to whatever its name has become: "fd" says      *)
(* under which name the file that a call has open is found now.            *)
(***************************************************************************)
EXTENDS UploadQueue

CONSTANTS
    Calls, \* who may be inside enqueue or removeFirst
    Nobody

ASSUME CallsAssumption == Nobody \notin Calls

VARIABLES
    call,       \* the calls under way, each in its _persist
    file, tmp,  \* what the two names hold
    settled,    \* history: the last save ended well, nothing overlapped it, and
                \* the list did not change since
    overlapped, \* history: the saves under way overlapped, or those before did
    mixed       \* history: saves overlapped, and none ended well on its own since

fileVars == <<call, file, tmp, settled, overlapped, mixed>>

\* Bytes are a whole list, part of what call "by" writes, nothing, or a mixture.
Content == [kind : {"absent", "blank", "part", "whole", "torn"},
            by : Calls \cup {Nobody}, list : Lists]

NoFile      == [kind |-> "absent", by |-> Nobody, list |-> <<>>]
Blank       == [kind |-> "blank", by |-> Nobody, list |-> <<>>]
Torn        == [kind |-> "torn", by |-> Nobody, list |-> <<>>]
Part(c)     == [kind |-> "part", by |-> c, list |-> <<>>]
Whole(list) == [kind |-> "whole", by |-> Nobody, list |-> list]

NoCall == [pc |-> "idle", list |-> <<>>, fd |-> "none"]

SaveOfList == [pc : {"idle", "mkdir", "open", "write", "writing", "rename"},
               list : Lists, fd : {"none", "tmp", "file", "gone"}]

FileTypeOK ==
    /\ items \in Lists
    /\ call \in [Calls -> SaveOfList]
    /\ {file, tmp} \subseteq Content
    /\ {settled, overlapped, mixed} \subseteq BOOLEAN

Busy(c) == call[c].pc # "idle"

\* The list that load reads: a file that does not decode counts as empty.
Readable == file.kind = "whole"
disk     == IF Readable THEN file.list ELSE <<>>

----------------------------------------------------------------------------
\* enqueue and removeFirst have changed the list and begin to save it.
Starts(c) ==
    /\ ~Busy(c)
    /\ call' = [call EXCEPT ![c].pc = "mkdir"]
    /\ overlapped' = (\E d \in Calls : Busy(d))
    /\ mixed' = (mixed \/ \E d \in Calls : Busy(d))
    /\ settled' = FALSE
    /\ UNCHANGED <<file, tmp>>

\* Faulty variant: what is written was encoded before the list changed.
EncodeStale(c) ==
    /\ call[c].pc = "mkdir"
    /\ call' = [call EXCEPT ![c].pc = "open", ![c].list = disk]
    /\ UNCHANGED <<items, file, tmp, settled, overlapped, mixed>>

\* The directory is there: jsonEncode takes the list as it is now.
Encode(c) ==
    /\ call[c].pc = "mkdir"
    /\ call' = [call EXCEPT ![c].pc = "open", ![c].list = items]
    /\ UNCHANGED <<items, file, tmp, settled, overlapped, mixed>>

\* Faulty variant: the file itself is opened for writing.
OpenInPlace(c) ==
    /\ call[c].pc = "open"
    /\ file' = Blank
    /\ call' = [call EXCEPT ![c].pc = "write", ![c].fd = "file"]
    /\ UNCHANGED <<items, tmp, settled, overlapped, mixed>>

\* writeAsString opens for writing: the temporary file is created or truncated.
Open(c) ==
    /\ call[c].pc = "open"
    /\ tmp' = Blank
    /\ call' = [call EXCEPT ![c].pc = "write", ![c].fd = "tmp"]
    /\ UNCHANGED <<items, file, settled, overlapped, mixed>>

\* What the file that c has open holds, and a write to it; a file that another
\* rename has replaced no longer has a name.
Opened(c) == CASE call[c].fd = "tmp" -> tmp [] call[c].fd = "file" -> file [] OTHER -> Torn

Writes(c, content) ==
    /\ tmp'  = IF call[c].fd = "tmp" THEN content ELSE tmp
    /\ file' = IF call[c].fd = "file" THEN content ELSE file

WriteBegin(c) ==
    /\ call[c].pc = "write"
    /\ Writes(c, IF Opened(c) = Blank THEN Part(c) ELSE Torn)
    /\ call' = [call EXCEPT ![c].pc = "writing"]
    /\ UNCHANGED <<items, settled, overlapped, mixed>>

\* Who wrote alone since the truncation leaves its list; otherwise the outcome
\* depends on the lengths: the longer text may cover the other one or not.
WriteEnd(c) ==
    /\ call[c].pc = "writing"
    /\ \E after \in {Whole(call[c].list), Torn} :
          /\ Opened(c) = Part(c) => after = Whole(call[c].list)
          /\ Writes(c, after)
    /\ call' = [call EXCEPT ![c].pc = "rename"]
    /\ UNCHANGED <<items, settled, overlapped, mixed>>

\* What has become of an open file when the temporary file is renamed.
Renamed(fd) == CASE fd = "tmp" -> "file" [] fd = "file" -> "gone" [] OTHER -> fd

Rename(c) ==
    /\ call[c].pc = "rename" /\ tmp # NoFile
    /\ file' = tmp /\ tmp' = NoFile
    /\ call' = [d \in Calls |->
                   IF d = c THEN NoCall ELSE [call[d] EXCEPT !.fd = Renamed(@)]]
    /\ settled' = ~overlapped
    /\ mixed' = (mixed /\ overlapped)
    /\ UNCHANGED <<items, overlapped>>

\* The call ends with an exception and leaves the files as they are.
Fails(c) ==
    /\ call' = [call EXCEPT ![c] = NoCall]
    /\ settled' = FALSE
    /\ UNCHANGED <<items, file, tmp, overlapped, mixed>>

\* Another call has renamed the temporary file already.
RenameFails(c) == call[c].pc = "rename" /\ tmp = NoFile /\ Fails(c)

\* Faulty variant: the half-written file is renamed all the same.
IoFailsRenaming(c) ==
    /\ Busy(c)
    /\ call' = [call EXCEPT ![c] = NoCall]
    /\ settled' = FALSE
    /\ IF tmp = NoFile THEN UNCHANGED <<file, tmp>> ELSE file' = tmp /\ tmp' = NoFile
    /\ UNCHANGED <<items, overlapped, mixed>>

\* Any file operation fails; what was written so far stays.
IoFails(c) == Busy(c) /\ Fails(c)

PersistStep(c) == Encode(c) \/ Open(c) \/ WriteBegin(c) \/ WriteEnd(c)

\* The process ends between any two steps; main() starts again with load.
Reload ==
    /\ items' = disk
    /\ call' = [c \in Calls |-> NoCall]
    /\ settled' = TRUE /\ overlapped' = FALSE
    /\ UNCHANGED <<file, tmp, mixed>>

----------------------------------------------------------------------------
(* The file on its own, its callers free to do anything. *)

\* What an earlier process has left.
FileInit ==
    /\ items \in Found
    /\ call = [c \in Calls |-> NoCall]
    /\ file \in {Whole(items)} \cup (IF items = <<>> THEN {NoFile} ELSE {})
    /\ tmp = NoFile
    /\ settled = TRUE /\ overlapped = FALSE /\ mixed = FALSE

CallStep(c) ==
    \/ Starts(c) /\ \E text \in Texts : Push(text)
    \/ Starts(c) /\ items # <<>> /\ Pop
    \/ PersistStep(c) \/ Rename(c) \/ RenameFails(c) \/ IoFails(c)

FileNext == (\E c \in Calls : CallStep(c)) \/ Reload

FileSpec == FileInit /\ [][FileNext]_<<items, fileVars>>

----------------------------------------------------------------------------
(***************************************************************************)
(* Properties                                                              *)
(***************************************************************************)

\* The file is absent or a whole list, however a save was interrupted, unless
\* saves have overlapped and none has ended well on its own since.
FileWhole == mixed \/ file = NoFile \/ Readable

\* A save that nothing overlapped and that ended without an error has left the
\* list in the file, also when it comes after saves that did overlap.
SettledOnDisk == settled => disk = items

\* The list and the file are what QueueDisk says, unless saves were mixed: each
\* step is one of its steps, so a save is one step as far as a restart can tell.
Abstract == INSTANCE QueueDisk
SavesAtomically == [][mixed \/ mixed' \/ Abstract!Next]_<<items, disk>>

----------------------------------------------------------------------------
(* The strengthening under which the properties above are inductive. *)

\* Where a save that nothing has overlapped has got to.
Saving(c) ==
    /\ call[c].pc \notin {"idle", "mkdir"} => call[c].list = items
    /\ call[c].pc \in {"write", "writing", "rename"} => call[c].fd = "tmp"
    /\ call[c].pc = "write"   => tmp = Blank
    /\ call[c].pc = "writing" => tmp = Part(c)
    /\ call[c].pc = "rename"  => tmp = Whole(items)

FileInv ==
    /\ overlapped => mixed
    /\ ~overlapped =>
          /\ \A c, d \in Calls : Busy(c) /\ Busy(d) => c = d
          /\ \A c \in Calls : Saving(c)
    /\ FileWhole
    /\ settled => disk = items /\ \A c \in Calls : ~Busy(c)

----------------------------------------------------------------------------
(* What upload_queue.dart says, and the code does not always keep. *)

\* upload_queue.dart:34 says: written as a temporary file and renamed, so that an
\* interruption does not damage the existing queue.
FileSurvives == file # NoFile => Readable
=============================================================================
