--------------------------- MODULE MCUploadClient ---------------------------
(***************************************************************************)
(* Finite instances of UploadClient.  Two servers; keys k1 and k2 belong   *)
(* to one account each on u1 and u2, and k3 is what k1 is reset to.        *)
(***************************************************************************)
EXTENDS UploadClient, TLC

CONSTANTS t1, t2, s1, s2, x, y, z, k1, k2, k3, u1, u2, a1, a2

MCAccountOf == [k \in Keys |-> IF k = k2 THEN a2 ELSE a1]
MCHomeOf    == [k \in Keys |-> IF k = k2 THEN u2 ELSE u1]

\* z is too long for u1, and only for u1.
MCSize      == [w \in Texts |-> IF w = z THEN 2 ELSE 1]
MCServerMax == [u \in Urls |-> IF u = u1 THEN 1 ELSE 2]

\* The queue starts empty, with one entry, or full, with or without a repetition.
SomeLists == {<<>>, <<x>>, <<x, y>>, <<x, x>>}

\* At most two uploads, and a write that throws.
FlowBudgets == {[uploads |-> 2, saves |-> 0, throws |-> 1, crashes |-> 0]}

\* At most three uploads, and no trouble.
RaceBudgets == {[uploads |-> 3, saves |-> 0, throws |-> 0, crashes |-> 0]}
=============================================================================
