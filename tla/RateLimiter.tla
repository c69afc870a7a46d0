----------------------------- MODULE RateLimiter -----------------------------
(***************************************************************************)
(* middleware/ratelimit.go: the in-memory limiters of one server process.  *)
(* Allow holds the mutex from its first line to its last, and reads the    *)
(* clock under it, so a call is one action.                                *)
(*                                                                         *)
(* A visit is represented by the call that recorded it, its time is        *)
(* calls[c].at.  A key is in the map exactly when it has a visit: a call   *)
(* that is admitted leaves one, and one that is refused keeps `limit'.     *)
(***************************************************************************)
EXTENDS Integers, FiniteSets

CONSTANTS
    Limiters, Keys, Calls, None,
    SweepEvery, \* 1024: admissions between two sweeps
    MaxTracked, \* maxTrackedKeys
    MaxClock    \* bound of the model

ASSUME LimiterAssumption ==
    /\ IsFiniteSet(Calls)
    /\ SweepEvery \in Nat \ {0} /\ MaxTracked \in Nat /\ MaxClock \in Nat

VARIABLES
    conf,   \* limiter -> limit and window
    visits, \* limiter -> key -> visits
    sweeps, \* limiter -> admissions since the last sweep
    calls,  \* history: call -> what was decided on it, and when
    clock   \* now, which is monotonic

lvars == <<conf, visits, sweeps, calls, clock>>

Promise == INSTANCE SlidingWindow WITH settings <- conf, decided <- calls, now <- clock

Decision == [is : {"none", "admitted", "refused"},
             limiter : Limiters \cup {None}, key : Keys \cup {None}, at : Nat]

LimiterTypeOK ==
    /\ conf \in [Limiters -> Promise!Setting]
    /\ visits \in [Limiters -> [Keys -> SUBSET Calls]]
    /\ sweeps \in [Limiters -> Nat]
    /\ calls \in [Calls -> Decision]
    /\ clock \in Nat

Tracked(of) == {k \in Keys : of[k] # {}}

\* Faulty variant: a visit exactly one window old still counts.
LiveInclusive(l, vs) == {c \in vs : calls[c].at >= clock - conf[l].window}

\* Visits after the cutoff.
Live(l, vs) == {c \in vs : calls[c].at > clock - conf[l].window}

Decided(l, k, c, is) ==
    /\ calls[c].is = "none"
    /\ calls' = [calls EXCEPT ![c] = [is |-> is, limiter |-> l, key |-> k, at |-> clock]]

\* The limit is reached: what is expired is dropped, and nothing is counted.
Refuse(l, k, c) ==
    /\ Cardinality(Live(l, visits[l][k])) >= conf[l].limit
    /\ visits' = [visits EXCEPT ![l][k] = Live(l, @)]
    /\ Decided(l, k, c, "refused")
    /\ UNCHANGED <<conf, sweeps, clock>>

\* Faulty variant: the counter is reset, but a full map triggers no sweep.
SweepDueByCount(l, of) == sweeps[l] + 1 >= SweepEvery

SweepDue(l, of) == sweeps[l] + 1 >= SweepEvery \/ Cardinality(Tracked(of)) > MaxTracked

\* The call is recorded; now and then the expired visits of all keys go.
Admit(l, k, c) ==
    /\ Cardinality(Live(l, visits[l][k])) < conf[l].limit
    /\ LET added == [visits[l] EXCEPT ![k] = Live(l, @) \cup {c}]
           swept == [q \in Keys |-> IF q = k THEN added[k] ELSE Live(l, added[q])]
           due   == SweepDue(l, added)
       IN /\ visits' = [visits EXCEPT ![l] = IF due THEN swept ELSE added]
          /\ sweeps' = [sweeps EXCEPT ![l] = IF due THEN 0 ELSE @ + 1]
    /\ Decided(l, k, c, "admitted")
    /\ UNCHANGED <<conf, clock>>

Allow(l, k, c) == Admit(l, k, c) \/ Refuse(l, k, c)

\* NewRateLimiter, for all limiters of a process that starts.
New(limits) ==
    /\ conf' = limits
    /\ visits' = [l \in Limiters |-> [k \in Keys |-> {}]]
    /\ sweeps' = [l \in Limiters |-> 0]
    /\ calls' = [c \in Calls |-> Promise!Undecided]
    /\ UNCHANGED clock

Tick == clock < MaxClock /\ clock' = clock + 1 /\ UNCHANGED <<conf, visits, sweeps, calls>>

LimiterInit ==
    /\ conf \in [Limiters -> Promise!Setting]
    /\ visits = [l \in Limiters |-> [k \in Keys |-> {}]]
    /\ sweeps = [l \in Limiters |-> 0]
    /\ calls = [c \in Calls |-> Promise!Undecided]
    /\ clock = 0

LimiterNext ==
    \/ \E l \in Limiters, k \in Keys, c \in Calls : Allow(l, k, c)
    \/ \E limits \in [Limiters -> Promise!Setting] : New(limits)
    \/ Tick

LimiterSpec == LimiterInit /\ [][LimiterNext]_lvars

----------------------------------------------------------------------------
Admitted(l) == {c \in Calls : calls[c].is = "admitted" /\ calls[c].limiter = l}

\* However visits are dropped, in a call or in a sweep, each call is admitted
\* exactly if fewer than the limit were admitted in the window that ends now:
\* never one too many, and never a refusal while there is room.
WindowKept == Promise!WSpec

\* The map does not fill with keys that are of no use.  A visit that expired is
\* forgotten before SweepEvery more calls are admitted, and with more than
\* MaxTracked keys each of them had a live visit when a call was last admitted.
StaleForgotten ==
    \A l \in Limiters :
        /\ \A k \in Keys : \A c \in visits[l][k] :
              Cardinality({d \in Admitted(l) : calls[d].at >= calls[c].at + conf[l].window})
                  < SweepEvery
        /\ Cardinality(Tracked(visits[l])) > MaxTracked =>
              \A k \in Tracked(visits[l]) : \E c \in visits[l][k] :
                  \A d \in Admitted(l) : calls[d].at < calls[c].at + conf[l].window
=============================================================================
