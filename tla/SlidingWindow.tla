---------------------------- MODULE SlidingWindow ----------------------------
(***************************************************************************)
(* What a sliding-window limiter promises, without saying what it keeps:   *)
(* a call is admitted if and only if fewer than `limit' calls of its key   *)
(* were admitted during the last `window' units of time.  Every decision   *)
(* is remembered for ever.                                                 *)
(***************************************************************************)
EXTENDS Integers, FiniteSets

CONSTANTS
    Limiters, Keys, \* the limiters of a process, and what they count by
    Calls,          \* the calls that may ever be made
    None            \* of an undecided call

VARIABLES
    settings, \* limiter -> its limit and its window
    decided,  \* call -> what was decided on it, and when
    now

wvars == <<settings, decided, now>>

AdmittedOf(l, k) ==
    {c \in Calls : /\ decided[c].is = "admitted"
                   /\ decided[c].limiter = l /\ decided[c].key = k}

\* A call exactly one window ago has left the window.
Recent(l, k) == {c \in AdmittedOf(l, k) : decided[c].at > now - settings[l].window}

Undecided == [is |-> "none", limiter |-> None, key |-> None, at |-> 0]

Setting == [limit : Nat \ {0}, window : Nat \ {0}]

Decide(l, k, c, is) ==
    /\ decided[c].is = "none"
    /\ is = "admitted" <=> Cardinality(Recent(l, k)) < settings[l].limit
    /\ decided' = [decided EXCEPT ![c] = [is |-> is, limiter |-> l, key |-> k, at |-> now]]
    /\ UNCHANGED <<settings, now>>

\* A new process starts counting from nothing.
Forget ==
    /\ settings' \in [Limiters -> Setting]
    /\ decided' = [c \in Calls |-> Undecided]
    /\ UNCHANGED now

Pass == now' > now /\ UNCHANGED <<settings, decided>>

WInit ==
    /\ settings \in [Limiters -> Setting]
    /\ decided = [c \in Calls |-> Undecided]
    /\ now = 0

WNext ==
    \/ \E l \in Limiters, k \in Keys, c \in Calls, is \in {"admitted", "refused"} :
          Decide(l, k, c, is)
    \/ Forget \/ Pass

WSpec == WInit /\ [][WNext]_wvars
=============================================================================
