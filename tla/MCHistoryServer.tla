--------------------------- MODULE MCHistoryServer ---------------------------
(***************************************************************************)
(* Finite instances of HistoryServer.  Requests are interchangeable, and    *)
(* so are accounts.                                                        *)
(***************************************************************************)
EXTENDS HistoryServer, TLC

Symmetry == Permutations(Requests) \cup Permutations(Accounts)
=============================================================================
