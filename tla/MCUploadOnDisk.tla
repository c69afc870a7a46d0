--------------------------- MODULE MCUploadOnDisk ---------------------------
(***************************************************************************)
(* Finite instances of UploadOnDisk, with the servers and keys of          *)
(* MCUploadClient.                                                         *)
(***************************************************************************)
EXTENDS UploadOnDisk, TLC

CONSTANTS t1, t2, s1, s2, x, y, z, k1, k2, k3, u1, u2, a1, a2

MCAccountOf == [k \in Keys |-> IF k = k2 THEN a2 ELSE a1]
MCHomeOf    == [k \in Keys |-> IF k = k2 THEN u2 ELSE u1]

\* z is too long for u1, and only for u1.
MCSize      == [w \in Texts |-> IF w = z THEN 2 ELSE 1]
MCServerMax == [u \in Urls |-> IF u = u1 THEN 1 ELSE 2]

MCCalls  == Tasks \cup {Flusher}
Symmetry == Permutations(Tasks) \cup Permutations(Savers)

\* The queue starts empty, or full with an entry that the server refuses.
SomeLists == {<<>>, <<x, z>>}

\* Two uploads with a write that throws or with a crash; or changes of the
\* connection, around an upload, or overlapping in pairs and broken off.
CrashBudgets ==
    {[uploads |-> 2, saves |-> 0, throws |-> 1, crashes |-> 0],
     [uploads |-> 2, saves |-> 0, throws |-> 0, crashes |-> 1],
     [uploads |-> 1, saves |-> 1, throws |-> 0, crashes |-> 1],
     [uploads |-> 0, saves |-> 3, throws |-> 1, crashes |-> 1]}
=============================================================================
