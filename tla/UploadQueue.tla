---------------------------- MODULE UploadQueue ----------------------------
(***************************************************************************)
(* The list of upload_queue.dart as it is in memory.  What enqueue and     *)
(* removeFirst write to the file afterwards is in UploadQueueFile, who     *)
(* calls them is in UploadClient.                                          *)
(***************************************************************************)
EXTENDS Integers, Sequences, SequencesExt

CONSTANTS
    Texts,    \* what is queued
    MaxItems, \* UploadQueue.maxItems
    Found     \* bound of the model: the lists that an earlier process may have left

\* What fits into the queue.
Lists == {list \in Seq(Texts) : Len(list) <= MaxItems}

ASSUME QueueAssumption == MaxItems \in Nat \ {0} /\ Found \subseteq Lists

VARIABLE items \* UploadQueue._items

Full == Len(items) >= MaxItems

\* Faulty variant: the new text goes to the front of the queue.
PushFront(text) == items' = <<text>> \o (IF Full THEN Tail(items) ELSE items)

\* Faulty variant: the bound is checked one too late.
PushLate(text) == items' = Append(IF Len(items) > MaxItems THEN Tail(items) ELSE items, text)

\* enqueue, up to the first await of _persist: a full queue loses its oldest entry.
Push(text) == items' = Append(IF Full THEN Tail(items) ELSE items, text)

\* removeFirst, up to the first await of _persist: by position, not by value.
Pop == items' = IF items = <<>> THEN items ELSE Tail(items)
=============================================================================
