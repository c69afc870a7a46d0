----------------------------- MODULE QueueDisk -----------------------------
(***************************************************************************)
(* What upload_queue.dart promises of its list and its file: the list is   *)
(* bounded and first in first out, the file is always a list that was in   *)
(* memory as a whole, and a restart goes on from the file.                 *)
(***************************************************************************)
EXTENDS Integers, Sequences

CONSTANTS
    Texts,   \* what is queued
    MaxItems \* UploadQueue.maxItems

VARIABLES
    items, \* UploadQueue._items
    disk   \* the list that load would read

Init == items = <<>> /\ disk = <<>>

\* enqueue: a full queue drops its oldest entry.
Enqueue(text) ==
    /\ items' = Append(IF Len(items) >= MaxItems THEN Tail(items) ELSE items, text)
    /\ UNCHANGED disk

\* removeFirst
RemoveFirst ==
    /\ items # <<>>
    /\ items' = Tail(items)
    /\ UNCHANGED disk

\* _persist, seen as the one step that its rename is meant to make of it.
Save == disk' = items /\ UNCHANGED items

\* The process ends at any time, and load reads the file.
Restart == items' = disk /\ UNCHANGED disk

Next == (\E text \in Texts : Enqueue(text)) \/ RemoveFirst \/ Save \/ Restart

Spec == Init /\ [][Next]_<<items, disk>>
=============================================================================
