---------------------------- MODULE MCAuthServer ----------------------------
(***************************************************************************)
(* Finite instances of AuthServer.  Requests, accounts and passwords are   *)
(* interchangeable.                                                        *)
(***************************************************************************)
EXTENDS AuthServer, TLC

Symmetry == Permutations(Requests) \cup Permutations(Accounts) \cup Permutations(Passwords)
=============================================================================
