--------------------------- MODULE RateLimiterProofs ---------------------------
(***************************************************************************)
(* Theorems about RateLimiter, for any limiters, keys, calls, limits and   *)
(* windows: that it keeps the promise of SlidingWindow, and that what has  *)
(* expired is forgotten.                                                   *)
(***************************************************************************)
EXTENDS RateLimiter, FiniteSetTheorems, TLAPS

AdmittedOf(l, k) == Promise!AdmittedOf(l, k)

\* Nothing is kept that was not admitted, nothing in the window is missing.
Exact ==
    \A l \in Limiters, k \in Keys :
        /\ visits[l][k] \subseteq AdmittedOf(l, k)
        /\ \A c \in AdmittedOf(l, k) :
              calls[c].at > clock - conf[l].window => c \in visits[l][k]

\* Nothing is admitted in the future.
Past == \A c \in Calls : calls[c].at <= clock

\* What was admitted after a visit had expired.
After(l, c) == {d \in Admitted(l) : calls[d].at >= calls[c].at + conf[l].window}

\* Each such admission has been counted since the last sweep.
Swept ==
    \A l \in Limiters :
        /\ sweeps[l] < SweepEvery
        /\ \A k \in Keys : \A c \in visits[l][k] : Cardinality(After(l, c)) <= sweeps[l]

\* With too many keys, each of them has a visit that had not expired.
Useful ==
    \A l \in Limiters : Cardinality(Tracked(visits[l])) > MaxTracked =>
        \A k \in Tracked(visits[l]) : \E c \in visits[l][k] : After(l, c) = {}

\* In no window, whenever it ends, was there ever one too many.
InWindow(l, k, t) ==
    {d \in AdmittedOf(l, k) : calls[d].at <= t /\ calls[d].at > t - conf[l].window}

WithinLimit ==
    \A l \in Limiters, k \in Keys, t \in Nat : Cardinality(InWindow(l, k, t)) <= conf[l].limit

\* No key keeps more visits than the limit, expired ones included.
KeyBounded ==
    \A l \in Limiters, k \in Keys :
        IsFiniteSet(visits[l][k]) /\ Cardinality(visits[l][k]) <= conf[l].limit

LEMMA NoneIsFew == \A n \in Nat : IsFiniteSet({}) /\ Cardinality({}) <= n
BY FS_EmptySet

(* Types *)

LEMMA LimiterTypeStep == LimiterTypeOK /\ [LimiterNext]_lvars => LimiterTypeOK'
<1> SUFFICES ASSUME LimiterTypeOK, [LimiterNext]_lvars PROVE LimiterTypeOK'
  OBVIOUS
<1>1. ASSUME NEW l \in Limiters, NEW k \in Keys, NEW c \in Calls, NEW is \in {"admitted", "refused"},
             Decided(l, k, c, is)
      PROVE  calls' \in [Calls -> Decision]
  BY <1>1 DEF Decided, LimiterTypeOK, Decision
<1>2. ASSUME NEW l \in Limiters, NEW k \in Keys, NEW c \in Calls, Admit(l, k, c)
      PROVE  LimiterTypeOK'
  <2>1. visits' \in [Limiters -> [Keys -> SUBSET Calls]]
    <3>1. \A vs \in SUBSET Calls : Live(l, vs) \in SUBSET Calls
      BY DEF Live
    <3>2. PICK of \in [Keys -> SUBSET Calls] : visits' = [visits EXCEPT ![l] = of]
      BY <1>2, <3>1 DEF Admit, LimiterTypeOK
    <3> QED BY <3>2 DEF LimiterTypeOK
  <2>2. sweeps' \in [Limiters -> Nat]
    BY <1>2 DEF Admit, LimiterTypeOK
  <2> QED BY <1>1, <1>2, <2>1, <2>2 DEF Admit, LimiterTypeOK
<1>3. ASSUME NEW l \in Limiters, NEW k \in Keys, NEW c \in Calls, Refuse(l, k, c)
      PROVE  LimiterTypeOK'
  <2>1. Live(l, visits[l][k]) \in SUBSET Calls
    BY DEF Live, LimiterTypeOK
  <2>2. visits' \in [Limiters -> [Keys -> SUBSET Calls]]
    BY <1>3, <2>1 DEF Refuse, LimiterTypeOK
  <2> QED BY <1>1, <1>3, <2>2 DEF Refuse, LimiterTypeOK
<1>4. ASSUME NEW limits \in [Limiters -> Promise!Setting], New(limits)
      PROVE  LimiterTypeOK'
  BY <1>4 DEF New, LimiterTypeOK, Promise!Undecided, Decision
<1>5. CASE Tick
  BY <1>5 DEF Tick, LimiterTypeOK
<1>6. CASE UNCHANGED lvars
  BY <1>6 DEF lvars, LimiterTypeOK
<1> QED BY <1>2, <1>3, <1>4, <1>5, <1>6 DEF LimiterNext, Allow

LEMMA LimiterInitial ==
    LimiterInit => /\ LimiterTypeOK /\ Exact /\ Past /\ Swept /\ Useful
                   /\ WithinLimit /\ KeyBounded
<1> SUFFICES ASSUME LimiterInit
             PROVE  /\ LimiterTypeOK /\ Exact /\ Past /\ Swept /\ Useful
                    /\ WithinLimit /\ KeyBounded
  OBVIOUS
<1>1. LimiterTypeOK
  BY DEF LimiterInit, LimiterTypeOK, Promise!Undecided, Decision
<1>2. Exact /\ Past
  BY DEF LimiterInit, Exact, Past, AdmittedOf, Promise!AdmittedOf, Promise!Undecided
<1>3. Swept /\ Useful
  BY LimiterAssumption DEF LimiterInit, Swept, Useful, Tracked
<1>4. ASSUME NEW l \in Limiters, NEW k \in Keys
      PROVE  /\ conf[l].limit \in Nat /\ visits[l][k] = {}
             /\ \A t \in Nat : InWindow(l, k, t) = {}
  BY DEF LimiterInit, InWindow, AdmittedOf, Promise!AdmittedOf, Promise!Undecided, Promise!Setting
<1>5. WithinLimit /\ KeyBounded
  BY <1>4, NoneIsFew DEF WithinLimit, KeyBounded
<1> QED BY <1>1, <1>2, <1>3, <1>5

----------------------------------------------------------------------------
(* The window *)

\* What counts for a call is what was promised to count.
LEMMA LiveIsRecent ==
    ASSUME LimiterTypeOK, Exact, NEW l \in Limiters, NEW k \in Keys
    PROVE  /\ Live(l, visits[l][k]) = Promise!Recent(l, k)
           /\ IsFiniteSet(Live(l, visits[l][k]))
<1>1. Live(l, visits[l][k]) = Promise!Recent(l, k)
  BY DEF Exact, AdmittedOf, Live, Promise!Recent, Promise!AdmittedOf
<1>2. Live(l, visits[l][k]) \subseteq Calls
  BY DEF Live, LimiterTypeOK
<1> QED BY <1>1, <1>2, LimiterAssumption, FS_Subset

LEMMA OneMore ==
    ASSUME NEW S, NEW x, NEW T, NEW n \in Nat,
           IsFiniteSet(S), Cardinality(S) < n, T \subseteq S \cup {x}
    PROVE  Cardinality(T) <= n
<1>1. IsFiniteSet(S \cup {x}) /\ Cardinality(S \cup {x}) <= n
  <2>1. Cardinality(S) \in Nat
    BY FS_CardinalityType
  <2>2. /\ IsFiniteSet(S \cup {x})
        /\ \/ Cardinality(S \cup {x}) = Cardinality(S)
           \/ Cardinality(S \cup {x}) = Cardinality(S) + 1
    BY FS_AddElement
  <2> QED BY <2>1, <2>2
<1>2. /\ Cardinality(T) <= Cardinality(S \cup {x})
      /\ Cardinality(T) \in Nat /\ Cardinality(S \cup {x}) \in Nat
  BY <1>1, FS_Subset, FS_CardinalityType
<1> QED BY <1>1, <1>2

\* The effect of an admission on the visits, with or without a sweep.
LEMMA AdmitVisits ==
    ASSUME LimiterTypeOK, NEW l \in Limiters, NEW k \in Keys, NEW c \in Calls, Admit(l, k, c)
    PROVE  /\ visits'[l][k] = Live(l, visits[l][k]) \cup {c}
           /\ \A q \in Keys \ {k} : visits'[l][q] \in {visits[l][q], Live(l, visits[l][q])}
           /\ \A m \in Limiters \ {l} : visits'[m] = visits[m] /\ sweeps'[m] = sweeps[m]
           /\ sweeps'[l] = 0 => \A q \in Keys \ {k} : visits'[l][q] = Live(l, visits[l][q])
           /\ sweeps'[l] # 0 => /\ sweeps'[l] = sweeps[l] + 1 /\ sweeps'[l] < SweepEvery
                                /\ ~(Cardinality(Tracked(visits'[l])) > MaxTracked)
<1> DEFINE added == [visits[l] EXCEPT ![k] = Live(l, @) \cup {c}]
           swept == [q \in Keys |-> IF q = k THEN added[k] ELSE Live(l, added[q])]
<1>1. /\ added[k] = Live(l, visits[l][k]) \cup {c}
      /\ \A q \in Keys \ {k} : added[q] = visits[l][q]
      /\ swept[k] = added[k]
      /\ \A q \in Keys \ {k} : swept[q] = Live(l, visits[l][q])
  BY DEF LimiterTypeOK
<1>2. /\ visits' = [visits EXCEPT ![l] = IF SweepDue(l, added) THEN swept ELSE added]
      /\ sweeps' = [sweeps EXCEPT ![l] = IF SweepDue(l, added) THEN 0 ELSE @ + 1]
  BY DEF Admit
<1>3. /\ visits'[l] = IF SweepDue(l, added) THEN swept ELSE added
      /\ sweeps'[l] = IF SweepDue(l, added) THEN 0 ELSE sweeps[l] + 1
      /\ \A m \in Limiters \ {l} : visits'[m] = visits[m] /\ sweeps'[m] = sweeps[m]
  <2> HIDE DEF added, swept
  <2> QED BY <1>2 DEF LimiterTypeOK
<1>4. CASE SweepDue(l, added)
  <2> HIDE DEF added, swept
  <2> QED BY <1>1, <1>3, <1>4
<1>5. CASE ~SweepDue(l, added)
  <2>1. ~(sweeps[l] + 1 >= SweepEvery) /\ ~(Cardinality(Tracked(added)) > MaxTracked)
    BY <1>5 DEF SweepDue
  <2> HIDE DEF added, swept
  <2>2. sweeps[l] \in Nat /\ SweepEvery \in Nat
    BY LimiterAssumption DEF LimiterTypeOK
  <2> QED BY <1>1, <1>3, <1>5, <2>1, <2>2
<1> QED BY <1>4, <1>5

\* What a decision changes of what was decided.
LEMMA DecidedCalls ==
    ASSUME LimiterTypeOK, NEW l \in Limiters, NEW k \in Keys, NEW c \in Calls,
           NEW is \in {"admitted", "refused"}, Decided(l, k, c, is), clock' = clock
    PROVE  /\ calls[c].is = "none"
           /\ calls'[c] = [is |-> is, limiter |-> l, key |-> k, at |-> clock]
           /\ \A d \in Calls \ {c} : calls'[d] = calls[d]
           /\ \A m \in Limiters, q \in Keys :
                 AdmittedOf(m, q)' = IF is = "admitted" /\ m = l /\ q = k
                                     THEN AdmittedOf(m, q) \cup {c} ELSE AdmittedOf(m, q)
           /\ \A m \in Limiters :
                 Admitted(m)' = IF is = "admitted" /\ m = l
                                THEN Admitted(m) \cup {c} ELSE Admitted(m)
<1>1. /\ calls[c].is = "none"
      /\ calls'[c] = [is |-> is, limiter |-> l, key |-> k, at |-> clock]
      /\ \A d \in Calls \ {c} : calls'[d] = calls[d]
  BY DEF Decided, LimiterTypeOK
<1> QED BY <1>1 DEF AdmittedOf, Promise!AdmittedOf, Admitted

LEMMA PastStep == LimiterTypeOK /\ Past /\ [LimiterNext]_lvars => Past'
<1> SUFFICES ASSUME LimiterTypeOK, Past, [LimiterNext]_lvars PROVE Past'
  OBVIOUS
<1>1. ASSUME NEW l \in Limiters, NEW k \in Keys, NEW c \in Calls, Allow(l, k, c) PROVE Past'
  <2>1. PICK is \in {"admitted", "refused"} : Decided(l, k, c, is) /\ clock' = clock
    BY <1>1 DEF Allow, Admit, Refuse
  <2>2. calls'[c].at = clock /\ \A d \in Calls \ {c} : calls'[d] = calls[d]
    BY <2>1 DEF Decided, LimiterTypeOK
  <2>3. clock' <= clock' /\ clock \in Nat
    BY <2>1 DEF LimiterTypeOK
  <2> QED BY <2>1, <2>2, <2>3 DEF Past
<1>2. ASSUME NEW limits \in [Limiters -> Promise!Setting], New(limits) PROVE Past'
  BY <1>2 DEF New, Past, Promise!Undecided, LimiterTypeOK
<1>3. CASE Tick
  BY <1>3 DEF Tick, Past, LimiterTypeOK, Decision
<1>4. CASE UNCHANGED lvars
  BY <1>4 DEF lvars, Past
<1> QED BY <1>1, <1>2, <1>3, <1>4 DEF LimiterNext

LEMMA ExactStep == LimiterTypeOK /\ Exact /\ [LimiterNext]_lvars => Exact'
<1> SUFFICES ASSUME LimiterTypeOK, Exact, [LimiterNext]_lvars PROVE Exact'
  OBVIOUS
<1> DEFINE OK(m, q) == /\ visits[m][q] \subseteq AdmittedOf(m, q)
                       /\ \A d \in AdmittedOf(m, q) :
                             calls[d].at > clock - conf[m].window => d \in visits[m][q]
<1>0. \A m \in Limiters, q \in Keys :
         /\ Live(m, visits[m][q]) \subseteq AdmittedOf(m, q)
         /\ \A d \in AdmittedOf(m, q) :
               calls[d].at > clock - conf[m].window => d \in Live(m, visits[m][q])
  BY DEF Exact, Live
<1>1. ASSUME NEW l \in Limiters, NEW k \in Keys, NEW c \in Calls, Admit(l, k, c) PROVE Exact'
  <2>1. Decided(l, k, c, "admitted") /\ clock' = clock /\ conf' = conf
    BY <1>1 DEF Admit
  <2>2. c \notin AdmittedOf(l, k) /\ \A m \in Limiters, q \in Keys : c \notin AdmittedOf(m, q)
    BY <2>1 DEF Decided, AdmittedOf, Promise!AdmittedOf
  <2>3. ASSUME NEW m \in Limiters, NEW q \in Keys PROVE OK(m, q)'
    <3>1. CASE m = l /\ q = k
      <4>1. AdmittedOf(m, q)' = AdmittedOf(m, q) \cup {c}
        BY <2>1, <3>1 DEF Decided, AdmittedOf, Promise!AdmittedOf, LimiterTypeOK
      <4>2. visits'[m][q] = Live(m, visits[m][q]) \cup {c}
        BY <1>1, <3>1, AdmitVisits
      <4>3. \A d \in AdmittedOf(m, q) : calls'[d] = calls[d]
        BY <2>1, <2>2, DecidedCalls DEF AdmittedOf, Promise!AdmittedOf
      <4>4. visits'[m][q] \subseteq AdmittedOf(m, q)'
        BY <1>0, <4>1, <4>2
      <4>5. ASSUME NEW d \in AdmittedOf(m, q), calls'[d].at > clock' - conf'[m].window
            PROVE  d \in Live(m, visits[m][q])
        <5>1. calls[d].at > clock - conf[m].window
          BY <2>1, <4>3, <4>5
        <5> QED BY <1>0, <5>1
      <4> QED BY <4>1, <4>2, <4>4, <4>5
    <3>2. CASE ~(m = l /\ q = k)
      <4>1. AdmittedOf(m, q)' = AdmittedOf(m, q)
        BY <2>1, <3>2 DEF Decided, AdmittedOf, Promise!AdmittedOf, LimiterTypeOK
      <4>2. visits'[m][q] \in {visits[m][q], Live(m, visits[m][q])}
        BY <1>1, <3>2, AdmitVisits
      <4>3. \A d \in AdmittedOf(m, q) : calls'[d] = calls[d]
        BY <2>1, <2>2, DecidedCalls DEF AdmittedOf, Promise!AdmittedOf
      <4>4. visits'[m][q] \subseteq AdmittedOf(m, q)'
        BY <1>0, <4>1, <4>2 DEF Exact
      <4>5. ASSUME NEW d \in AdmittedOf(m, q), calls'[d].at > clock' - conf'[m].window
            PROVE  d \in Live(m, visits[m][q]) /\ d \in visits[m][q]
        <5>1. calls[d].at > clock - conf[m].window
          BY <2>1, <4>3, <4>5
        <5> QED BY <1>0, <5>1 DEF Exact
      <4> QED BY <4>1, <4>2, <4>4, <4>5
    <3> QED BY <3>1, <3>2
  <2> QED BY <2>3 DEF Exact
<1>2. ASSUME NEW l \in Limiters, NEW k \in Keys, NEW c \in Calls, Refuse(l, k, c) PROVE Exact'
  <2>1. Decided(l, k, c, "refused") /\ clock' = clock /\ conf' = conf
    BY <1>2 DEF Refuse
  <2>2. \A m \in Limiters, q \in Keys : c \notin AdmittedOf(m, q)
    BY <2>1 DEF Decided, AdmittedOf, Promise!AdmittedOf
  <2>3. ASSUME NEW m \in Limiters, NEW q \in Keys PROVE OK(m, q)'
    <3>1. AdmittedOf(m, q)' = AdmittedOf(m, q)
      BY <2>1 DEF Decided, AdmittedOf, Promise!AdmittedOf, LimiterTypeOK
    <3>2. visits'[m][q] \in {visits[m][q], Live(m, visits[m][q])}
      BY <1>2 DEF Refuse, LimiterTypeOK
    <3>3. \A d \in AdmittedOf(m, q) : calls'[d] = calls[d]
      BY <2>1, <2>2, DecidedCalls DEF AdmittedOf, Promise!AdmittedOf
    <3>4. visits'[m][q] \subseteq AdmittedOf(m, q)'
      BY <1>0, <3>1, <3>2 DEF Exact
    <3>5. ASSUME NEW d \in AdmittedOf(m, q), calls'[d].at > clock' - conf'[m].window
          PROVE  d \in Live(m, visits[m][q]) /\ d \in visits[m][q]
      <4>1. calls[d].at > clock - conf[m].window
        BY <2>1, <3>3, <3>5
      <4> QED BY <1>0, <4>1 DEF Exact
    <3> QED BY <3>1, <3>2, <3>4, <3>5
  <2> QED BY <2>3 DEF Exact
<1>3. ASSUME NEW limits \in [Limiters -> Promise!Setting], New(limits) PROVE Exact'
  BY <1>3 DEF New, Exact, AdmittedOf, Promise!AdmittedOf, Promise!Undecided
<1>4. CASE Tick
  <2>1. UNCHANGED <<conf, visits, calls>> /\ clock' > clock
    BY <1>4 DEF Tick, LimiterTypeOK
  <2>2. \A m \in Limiters, q \in Keys : AdmittedOf(m, q)' = AdmittedOf(m, q)
    BY <2>1 DEF AdmittedOf, Promise!AdmittedOf
  <2>3. ASSUME NEW m \in Limiters PROVE conf[m].window \in Int
    BY DEF LimiterTypeOK, Promise!Setting
  <2>4. \A d \in Calls : calls[d].at \in Nat
    BY DEF LimiterTypeOK, Decision
  <2>5. ASSUME NEW m \in Limiters, NEW d \in Calls, calls[d].at > clock' - conf[m].window
        PROVE  calls[d].at > clock - conf[m].window
    <3>1. clock \in Int /\ clock' \in Int /\ clock' > clock
      BY <1>4 DEF Tick, LimiterTypeOK
    <3> QED BY <2>3, <2>4, <2>5, <3>1
  <2> QED BY <2>1, <2>2, <2>5 DEF Exact, AdmittedOf, Promise!AdmittedOf
<1>5. CASE UNCHANGED lvars
  BY <1>5 DEF lvars, Exact, AdmittedOf, Promise!AdmittedOf
<1> QED BY <1>1, <1>2, <1>3, <1>4, <1>5 DEF LimiterNext, Allow

LEMMA WithinStep ==
    LimiterTypeOK /\ Exact /\ Past /\ WithinLimit /\ [LimiterNext]_lvars => WithinLimit'
<1> SUFFICES ASSUME LimiterTypeOK, Exact, Past, WithinLimit, [LimiterNext]_lvars
             PROVE  WithinLimit'
  OBVIOUS
<1>1. ASSUME NEW l \in Limiters, NEW k \in Keys, NEW c \in Calls, Admit(l, k, c)
      PROVE  WithinLimit'
  <2>1. /\ calls[c].is = "none" /\ conf' = conf
        /\ calls'[c] = [is |-> "admitted", limiter |-> l, key |-> k, at |-> clock]
        /\ \A d \in Calls \ {c} : calls'[d] = calls[d]
    BY <1>1 DEF Admit, Decided, LimiterTypeOK
  <2>2. ASSUME NEW m \in Limiters, NEW q \in Keys
        PROVE  /\ AdmittedOf(m, q)' =
                    IF m = l /\ q = k THEN AdmittedOf(m, q) \cup {c} ELSE AdmittedOf(m, q)
               /\ c \notin AdmittedOf(m, q)
               /\ \A d \in AdmittedOf(m, q) : d \in Calls /\ calls'[d] = calls[d]
    BY <2>1 DEF AdmittedOf, Promise!AdmittedOf
  <2>3. /\ \A d \in Calls : calls[d].at \in Nat /\ calls[d].at <= clock
        /\ clock \in Nat /\ conf[l].window \in Nat /\ conf[l].limit \in Nat
    BY DEF LimiterTypeOK, Decision, Past, Promise!Setting
  <2>4. ASSUME NEW m \in Limiters, NEW q \in Keys, NEW t \in Nat,
               ~(m = l /\ q = k) \/ t < clock
        PROVE  InWindow(m, q, t)' = InWindow(m, q, t)
    <3>1. \A x \in AdmittedOf(m, q) : calls'[x] = calls[x]
      BY <2>2
    <3>2. CASE ~(m = l /\ q = k)
      <4>1. AdmittedOf(m, q)' = AdmittedOf(m, q)
        BY <2>2, <3>2
      <4> QED BY <2>1, <3>1, <4>1 DEF InWindow
    <3>3. CASE m = l /\ q = k
      <4>1. AdmittedOf(m, q)' = AdmittedOf(m, q) \cup {c}
        BY <2>2, <3>3
      <4>2. ~(calls'[c].at <= t)
        BY <2>1, <2>3, <2>4, <3>3
      <4> QED BY <2>1, <3>1, <4>1, <4>2 DEF InWindow
    <3> QED BY <3>2, <3>3
  <2>5. ASSUME NEW t \in Nat, t >= clock
        PROVE  Cardinality(InWindow(l, k, t)') <= conf[l].limit
    <3>1. InWindow(l, k, t)' \subseteq Live(l, visits[l][k]) \cup {c}
      <4>1. ASSUME NEW x \in AdmittedOf(l, k), calls[x].at > t - conf[l].window
            PROVE  x \in Live(l, visits[l][k])
        <5>1. calls[x].at > clock - conf[l].window
          BY <2>2, <2>3, <2>5, <4>1
        <5> QED BY <5>1 DEF Exact, Live
      <4> QED BY <2>1, <2>2, <4>1 DEF InWindow
    <3>2. /\ IsFiniteSet(Live(l, visits[l][k]))
          /\ Cardinality(Live(l, visits[l][k])) < conf[l].limit
      BY <1>1, LiveIsRecent DEF Admit
    <3> QED BY <2>3, <3>1, <3>2, OneMore
  <2>6. ASSUME NEW m \in Limiters, NEW q \in Keys, NEW t \in Nat
        PROVE  Cardinality(InWindow(m, q, t)') <= conf'[m].limit
    <3>1. CASE m = l /\ q = k /\ t >= clock
      BY <2>1, <2>5, <3>1
    <3>2. CASE ~(m = l /\ q = k /\ t >= clock)
      <4>1. ~(m = l /\ q = k) \/ t < clock
        BY <2>3, <3>2
      <4> QED BY <2>1, <2>4, <4>1 DEF WithinLimit
    <3> QED BY <3>1, <3>2
  <2> QED BY <2>6 DEF WithinLimit
<1>2. ASSUME NEW l \in Limiters, NEW k \in Keys, NEW c \in Calls, Refuse(l, k, c)
      PROVE  WithinLimit'
  <2>1. /\ calls[c].is = "none" /\ conf' = conf /\ calls'[c].is = "refused"
        /\ \A d \in Calls \ {c} : calls'[d] = calls[d]
    BY <1>2 DEF Refuse, Decided, LimiterTypeOK
  <2>2. ASSUME NEW m \in Limiters, NEW q \in Keys
        PROVE  /\ AdmittedOf(m, q)' = AdmittedOf(m, q)
               /\ \A d \in AdmittedOf(m, q) : calls'[d] = calls[d]
    BY <2>1 DEF AdmittedOf, Promise!AdmittedOf
  <2>3. ASSUME NEW m \in Limiters, NEW q \in Keys, NEW t \in Nat
        PROVE  InWindow(m, q, t)' = InWindow(m, q, t)
    BY <2>1, <2>2 DEF InWindow
  <2> QED BY <2>1, <2>2, <2>3 DEF WithinLimit
<1>3. ASSUME NEW limits \in [Limiters -> Promise!Setting], New(limits) PROVE WithinLimit'
  <2>1. ASSUME NEW m \in Limiters, NEW q \in Keys, NEW t \in Nat
        PROVE  InWindow(m, q, t)' = {} /\ conf'[m].limit \in Nat
    BY <1>3 DEF New, InWindow, AdmittedOf, Promise!AdmittedOf, Promise!Undecided, Promise!Setting
  <2> QED BY <2>1, NoneIsFew DEF WithinLimit
<1>4. CASE Tick
  BY <1>4 DEF Tick, WithinLimit, InWindow, AdmittedOf, Promise!AdmittedOf
<1>5. CASE UNCHANGED lvars
  BY <1>5 DEF lvars, WithinLimit, InWindow, AdmittedOf, Promise!AdmittedOf
<1> QED BY <1>1, <1>2, <1>3, <1>4, <1>5 DEF LimiterNext, Allow

\* A key gains a visit only when fewer than the limit of its visits are live.
LEMMA BoundedStep == LimiterTypeOK /\ KeyBounded /\ [LimiterNext]_lvars => KeyBounded'
<1> SUFFICES ASSUME LimiterTypeOK, KeyBounded, [LimiterNext]_lvars PROVE KeyBounded'
  OBVIOUS
<1> DEFINE Small(m, S) == IsFiniteSet(S) /\ Cardinality(S) <= conf[m].limit
<1>1. \A m \in Limiters : conf[m].limit \in Nat
  BY DEF LimiterTypeOK, Promise!Setting
<1>2. ASSUME NEW m \in Limiters, NEW q \in Keys
      PROVE  Small(m, visits[m][q]) /\ Small(m, Live(m, visits[m][q]))
  <2>1. Small(m, visits[m][q])
    BY DEF KeyBounded
  <2>2. Live(m, visits[m][q]) \subseteq visits[m][q]
    BY DEF Live
  <2> QED BY <1>1, <2>1, <2>2, FS_Subset, FS_CardinalityType
<1>3. ASSUME NEW l \in Limiters, NEW k \in Keys, NEW c \in Calls, Admit(l, k, c)
      PROVE  KeyBounded'
  <2>1. conf' = conf /\ Cardinality(Live(l, visits[l][k])) < conf[l].limit
    BY <1>3 DEF Admit
  <2>2. Small(l, Live(l, visits[l][k]) \cup {c})
    <3>1. Live(l, visits[l][k]) \cup {c} \subseteq Live(l, visits[l][k]) \cup {c}
      OBVIOUS
    <3>2. IsFiniteSet(Live(l, visits[l][k]) \cup {c})
      BY <1>2, FS_AddElement
    <3> QED BY <1>1, <1>2, <2>1, <3>1, <3>2, OneMore
  <2>3. ASSUME NEW m \in Limiters, NEW q \in Keys PROVE Small(m, visits'[m][q])
    <3>1. CASE m = l /\ q = k
      BY <1>3, <2>2, <3>1, AdmitVisits
    <3>2. CASE m = l /\ q # k
      BY <1>2, <1>3, <3>2, AdmitVisits
    <3>3. CASE m # l
      BY <1>2, <1>3, <3>3, AdmitVisits
    <3> QED BY <3>1, <3>2, <3>3
  <2> QED BY <2>1, <2>3 DEF KeyBounded
<1>4. ASSUME NEW l \in Limiters, NEW k \in Keys, NEW c \in Calls, Refuse(l, k, c)
      PROVE  KeyBounded'
  <2>1. /\ conf' = conf
        /\ \A m \in Limiters, q \in Keys :
              visits'[m][q] \in {visits[m][q], Live(m, visits[m][q])}
    BY <1>4 DEF Refuse, LimiterTypeOK
  <2> QED BY <1>2, <2>1 DEF KeyBounded
<1>5. ASSUME NEW limits \in [Limiters -> Promise!Setting], New(limits) PROVE KeyBounded'
  <2>1. ASSUME NEW m \in Limiters, NEW q \in Keys
        PROVE  visits'[m][q] = {} /\ conf'[m].limit \in Nat
    BY <1>5 DEF New, Promise!Setting
  <2> QED BY <2>1, NoneIsFew DEF KeyBounded
<1>6. CASE Tick
  BY <1>6 DEF Tick, KeyBounded
<1>7. CASE UNCHANGED lvars
  BY <1>7 DEF lvars, KeyBounded
<1> QED BY <1>3, <1>4, <1>5, <1>6, <1>7 DEF LimiterNext, Allow

----------------------------------------------------------------------------
(* What is forgotten *)

\* Nothing has been admitted since a live visit expired.
LEMMA LiveAfter ==
    ASSUME LimiterTypeOK, Past, NEW l \in Limiters, NEW x \in Calls,
           calls[x].at > clock - conf[l].window
    PROVE  After(l, x) = {}
<1>1. \A d \in Calls : calls[d].at \in Nat /\ calls[d].at <= clock
  BY DEF LimiterTypeOK, Decision, Past
<1>2. clock \in Nat /\ conf[l].window \in Nat
  BY DEF LimiterTypeOK, Promise!Setting
<1> QED BY <1>1, <1>2 DEF After, Admitted

\* An admission adds itself to what came after a visit, if the visit has expired.
LEMMA AdmitAfter ==
    ASSUME LimiterTypeOK, Past, Exact,
           NEW l \in Limiters, NEW k \in Keys, NEW c \in Calls, Admit(l, k, c)
    PROVE  /\ After(l, c)' = {}
           /\ \A q \in Keys : \A x \in Live(l, visits[l][q]) : After(l, x)' = {}
           /\ \A q \in Keys : \A x \in visits[l][q] : After(l, x)' \subseteq After(l, x) \cup {c}
           /\ \A m \in Limiters \ {l}, q \in Keys : \A x \in visits[m][q] :
                 After(m, x)' = After(m, x)
<1>1. /\ calls[c].is = "none" /\ conf' = conf
      /\ calls'[c] = [is |-> "admitted", limiter |-> l, key |-> k, at |-> clock]
      /\ \A d \in Calls \ {c} : calls'[d] = calls[d]
  BY DEF Admit, Decided, LimiterTypeOK
<1>2. \A d \in Calls : calls'[d].at <= clock /\ calls'[d].at \in Nat /\ calls[d].at \in Nat
  BY <1>1 DEF LimiterTypeOK, Decision, Past
<1>3. clock \in Nat /\ conf[l].window \in Nat /\ conf[l].window > 0
  BY DEF LimiterTypeOK, Promise!Setting
<1>4. /\ Admitted(l)' = Admitted(l) \cup {c}
      /\ \A m \in Limiters \ {l} : Admitted(m)' = Admitted(m) /\ c \notin Admitted(m)
  BY <1>1 DEF Admitted
<1>5. \A m \in Limiters, q \in Keys : \A x \in visits[m][q] : x \in Calls /\ calls'[x] = calls[x]
  BY <1>1 DEF Exact, AdmittedOf, Promise!AdmittedOf
<1>6. \A d \in Admitted(l)' : d \in Calls
  BY DEF Admitted
<1>7. After(l, c)' = {}
  <2>1. \A d \in Calls : ~(calls'[d].at >= calls'[c].at + conf[l].window)
    BY <1>1, <1>2, <1>3
  <2> QED BY <1>1, <1>6, <2>1 DEF After
<1>8. ASSUME NEW q \in Keys, NEW x \in Live(l, visits[l][q]) PROVE After(l, x)' = {}
  <2>1. x \in visits[l][q] /\ calls[x].at > clock - conf[l].window
    BY <1>8 DEF Live
  <2>2. x \in Calls /\ calls'[x] = calls[x]
    BY <1>5, <2>1
  <2>3. \A d \in Calls : ~(calls'[d].at >= calls'[x].at + conf[l].window)
    BY <1>2, <1>3, <2>1, <2>2
  <2> QED BY <1>1, <1>6, <2>3 DEF After
<1>9. ASSUME NEW q \in Keys, NEW x \in visits[l][q] PROVE After(l, x)' \subseteq After(l, x) \cup {c}
  <2>1. calls'[x] = calls[x] /\ \A d \in Admitted(l) \ {c} : calls'[d] = calls[d]
    BY <1>1, <1>5 DEF Admitted
  <2> QED BY <1>1, <1>4, <2>1 DEF After
<1>10. ASSUME NEW m \in Limiters \ {l}, NEW q \in Keys, NEW x \in visits[m][q]
       PROVE  After(m, x)' = After(m, x)
  <2>1. calls'[x] = calls[x] /\ \A d \in Admitted(m) : calls'[d] = calls[d]
    BY <1>1, <1>4, <1>5 DEF Admitted
  <2> QED BY <1>1, <1>4, <2>1 DEF After
<1> QED BY <1>7, <1>8, <1>9, <1>10

\* A refusal adds nothing, and leaves the key its live visits.
LEMMA RefuseAfter ==
    ASSUME LimiterTypeOK, Exact,
           NEW l \in Limiters, NEW k \in Keys, NEW c \in Calls, Refuse(l, k, c)
    PROVE  /\ \A m \in Limiters, q \in Keys : \A x \in visits[m][q] : After(m, x)' = After(m, x)
           /\ \A m \in Limiters, q \in Keys : visits'[m][q] =
                 IF m = l /\ q = k THEN Live(l, visits[l][k]) ELSE visits[m][q]
<1>1. /\ calls[c].is = "none" /\ conf' = conf
      /\ calls'[c].is = "refused"
      /\ \A d \in Calls \ {c} : calls'[d] = calls[d]
  BY DEF Refuse, Decided, LimiterTypeOK
<1>2. \A m \in Limiters : Admitted(m)' = Admitted(m) /\ c \notin Admitted(m)
  BY <1>1 DEF Admitted
<1>3. \A m \in Limiters, q \in Keys : \A x \in visits[m][q] : x \in Calls /\ calls'[x] = calls[x]
  BY <1>1 DEF Exact, AdmittedOf, Promise!AdmittedOf
<1>4. ASSUME NEW m \in Limiters, NEW q \in Keys, NEW x \in visits[m][q]
      PROVE  After(m, x)' = After(m, x)
  <2>1. calls'[x] = calls[x] /\ \A d \in Admitted(m) : calls'[d] = calls[d]
    BY <1>1, <1>2, <1>3 DEF Admitted
  <2> QED BY <1>1, <1>2, <2>1 DEF After
<1>5. \A m \in Limiters, q \in Keys : visits'[m][q] =
         IF m = l /\ q = k THEN Live(l, visits[l][k]) ELSE visits[m][q]
  BY DEF Refuse, LimiterTypeOK
<1> QED BY <1>4, <1>5

LEMMA SweptStep == LimiterTypeOK /\ Exact /\ Past /\ Swept /\ [LimiterNext]_lvars => Swept'
<1> SUFFICES ASSUME LimiterTypeOK, Exact, Past, Swept, [LimiterNext]_lvars PROVE Swept'
  OBVIOUS
<1> USE LimiterAssumption
<1>0. \A m \in Limiters : sweeps[m] \in Nat
  BY DEF LimiterTypeOK
<1>1. ASSUME NEW l \in Limiters, NEW k \in Keys, NEW c \in Calls, Admit(l, k, c) PROVE Swept'
  <2>1. sweeps'[l] < SweepEvery
    BY <1>1, AdmitVisits
  <2>2. ASSUME NEW m \in Limiters \ {l} PROVE sweeps'[m] = sweeps[m] /\ visits'[m] = visits[m]
    BY <1>1, AdmitVisits
  <2>3. ASSUME NEW q \in Keys, NEW x \in visits'[l][q], sweeps'[l] = 0
        PROVE  After(l, x)' = {}
    <3>1. x \in Live(l, visits[l][q]) \/ x = c
      BY <1>1, <2>3, AdmitVisits
    <3> QED BY <1>1, <3>1, AdmitAfter
  <2>4. ASSUME NEW q \in Keys, NEW x \in visits'[l][q], sweeps'[l] # 0
        PROVE  Cardinality(After(l, x)') <= sweeps[l] + 1
    <3>1. x \in visits[l][q] \/ x = c
      BY <1>1, AdmitVisits DEF Live
    <3>2. CASE x = c
      <4>1. After(l, x)' = {}
        BY <1>1, <3>2, AdmitAfter
      <4>2. Cardinality(After(l, x)') = 0
        BY <4>1, FS_EmptySet
      <4> QED BY <1>0, <4>2
    <3>3. CASE x \in visits[l][q]
      <4>1. After(l, x)' \subseteq After(l, x) \cup {c}
        BY <1>1, <3>3, AdmitAfter
      <4>2. IsFiniteSet(After(l, x)) /\ Cardinality(After(l, x)) <= sweeps[l]
        <5>1. After(l, x) \in SUBSET Calls
          BY DEF After, Admitted
        <5>2. IsFiniteSet(After(l, x))
          BY <5>1, FS_Subset
        <5> QED BY <3>3, <5>2 DEF Swept
      <4>3. /\ IsFiniteSet(After(l, x) \cup {c})
            /\ Cardinality(After(l, x) \cup {c}) <= Cardinality(After(l, x)) + 1
        <5>1. Cardinality(After(l, x)) \in Nat
          BY <4>2, FS_CardinalityType
        <5>2. /\ IsFiniteSet(After(l, x) \cup {c})
              /\ \/ Cardinality(After(l, x) \cup {c}) = Cardinality(After(l, x))
                 \/ Cardinality(After(l, x) \cup {c}) = Cardinality(After(l, x)) + 1
          BY <4>2, FS_AddElement
        <5> QED BY <5>1, <5>2
      <4>4. Cardinality(After(l, x)') <= Cardinality(After(l, x) \cup {c})
        BY <4>1, <4>3, FS_Subset
      <4>5. IsFiniteSet(After(l, x)')
        BY <4>1, <4>3, FS_Subset
      <4>6. /\ Cardinality(After(l, x)') \in Nat /\ Cardinality(After(l, x)) \in Nat
            /\ Cardinality(After(l, x) \cup {c}) \in Nat
        BY <4>2, <4>3, <4>5, FS_CardinalityType
      <4> QED BY <1>0, <4>2, <4>3, <4>4, <4>6
    <3> QED BY <3>1, <3>2, <3>3
  <2>5. ASSUME NEW q \in Keys, NEW x \in visits'[l][q]
        PROVE  Cardinality(After(l, x)') <= sweeps'[l]
    <3>1. CASE sweeps'[l] = 0
      BY <2>3, <3>1, FS_EmptySet
    <3>2. CASE sweeps'[l] # 0
      BY <1>1, <2>4, <3>2, AdmitVisits
    <3> QED BY <3>1, <3>2
  <2>6. ASSUME NEW m \in Limiters \ {l}, NEW q \in Keys, NEW x \in visits'[m][q]
        PROVE  Cardinality(After(m, x)') <= sweeps'[m]
    <3>1. x \in visits[m][q] /\ sweeps'[m] = sweeps[m]
      BY <2>2
    <3>2. After(m, x)' = After(m, x)
      BY <1>1, <3>1, AdmitAfter
    <3> QED BY <3>1, <3>2 DEF Swept
  <2> QED BY <2>1, <2>2, <2>5, <2>6 DEF Swept
<1>2. ASSUME NEW l \in Limiters, NEW k \in Keys, NEW c \in Calls, Refuse(l, k, c) PROVE Swept'
  <2>1. ASSUME NEW m \in Limiters, NEW q \in Keys, NEW x \in visits'[m][q]
        PROVE  x \in visits[m][q] /\ After(m, x)' = After(m, x)
    <3>1. x \in visits[m][q]
      BY <1>2, <2>1, RefuseAfter DEF Live
    <3> QED BY <1>2, <3>1, RefuseAfter
  <2>2. sweeps' = sweeps
    BY <1>2 DEF Refuse
  <2> QED BY <2>1, <2>2 DEF Swept
<1>3. ASSUME NEW limits \in [Limiters -> Promise!Setting], New(limits) PROVE Swept'
  BY <1>3 DEF New, Swept
<1>4. CASE Tick
  BY <1>4 DEF Tick, Swept, After, Admitted
<1>5. CASE UNCHANGED lvars
  BY <1>5 DEF lvars, Swept, After, Admitted
<1> QED BY <1>1, <1>2, <1>3, <1>4, <1>5 DEF LimiterNext, Allow

LEMMA UsefulStep == LimiterTypeOK /\ Exact /\ Past /\ Useful /\ [LimiterNext]_lvars => Useful'
<1> SUFFICES ASSUME LimiterTypeOK, Exact, Past, Useful, [LimiterNext]_lvars PROVE Useful'
  OBVIOUS
<1> USE LimiterAssumption
<1>1. ASSUME NEW l \in Limiters, NEW k \in Keys, NEW c \in Calls, Admit(l, k, c) PROVE Useful'
  <2>1. ASSUME NEW m \in Limiters \ {l}, Cardinality(Tracked(visits'[m])) > MaxTracked,
               NEW q \in Tracked(visits'[m])
        PROVE  \E x \in visits'[m][q] : After(m, x)' = {}
    <3>1. visits'[m] = visits[m]
      BY <1>1, AdmitVisits
    <3>2. q \in Keys
      BY DEF Tracked
    <3>3. PICK x \in visits[m][q] : After(m, x) = {}
      BY <2>1, <3>1 DEF Useful
    <3>4. After(m, x)' = After(m, x)
      BY <1>1, <3>2, <3>3, AdmitAfter
    <3> QED BY <3>1, <3>3, <3>4
  <2>2. ASSUME Cardinality(Tracked(visits'[l])) > MaxTracked, NEW q \in Tracked(visits'[l])
        PROVE  \E x \in visits'[l][q] : After(l, x)' = {}
    <3>1. sweeps'[l] = 0
      BY <1>1, <2>2, AdmitVisits
    <3>2. q \in Keys /\ visits'[l][q] # {}
      BY DEF Tracked
    <3>3. PICK x \in visits'[l][q] : TRUE
      BY <3>2
    <3>4. x \in Live(l, visits[l][q]) \/ x = c
      BY <1>1, <3>1, <3>2, <3>3, AdmitVisits
    <3>5. After(l, x)' = {}
      BY <1>1, <3>2, <3>4, AdmitAfter
    <3> QED BY <3>3, <3>5
  <2> QED BY <2>1, <2>2 DEF Useful
<1>2. ASSUME NEW l \in Limiters, NEW k \in Keys, NEW c \in Calls, Refuse(l, k, c) PROVE Useful'
  <2>1. PICK y \in Live(l, visits[l][k]) : TRUE
    <3>1. IsFiniteSet(Live(l, visits[l][k])) /\ conf[l].limit \in Nat /\ conf[l].limit > 0
      BY LiveIsRecent DEF LimiterTypeOK, Promise!Setting
    <3>2. Live(l, visits[l][k]) # {}
      BY <1>2, <3>1, FS_EmptySet DEF Refuse
    <3> QED BY <3>2
  <2>2. \A m \in Limiters, q \in Keys : visits'[m][q] =
           IF m = l /\ q = k THEN Live(l, visits[l][k]) ELSE visits[m][q]
    BY <1>2, RefuseAfter
  <2>3. y \in visits[l][k] /\ y \in Calls /\ calls[y].at > clock - conf[l].window
    BY <2>1 DEF Live, LimiterTypeOK
  <2>4. \A m \in Limiters : Tracked(visits'[m]) = Tracked(visits[m])
    BY <2>1, <2>2, <2>3 DEF Tracked
  <2>5. ASSUME NEW m \in Limiters, Cardinality(Tracked(visits'[m])) > MaxTracked,
               NEW q \in Tracked(visits'[m])
        PROVE  \E x \in visits'[m][q] : After(m, x)' = {}
    <3>1. q \in Keys /\ q \in Tracked(visits[m])
      BY <2>4 DEF Tracked
    <3>2. CASE m = l /\ q = k
      <4>1. After(l, y) = {}
        BY <2>3, LiveAfter
      <4>2. After(l, y)' = After(l, y)
        BY <1>2, <2>3, RefuseAfter
      <4> QED BY <2>1, <2>2, <3>1, <3>2, <4>1, <4>2
    <3>3. CASE ~(m = l /\ q = k)
      <4>1. PICK x \in visits[m][q] : After(m, x) = {}
        BY <2>4, <2>5, <3>1 DEF Useful
      <4>2. After(m, x)' = After(m, x)
        BY <1>2, <3>1, <4>1, RefuseAfter
      <4> QED BY <2>2, <3>1, <3>3, <4>1, <4>2
    <3> QED BY <3>2, <3>3
  <2> QED BY <2>5 DEF Useful
<1>3. ASSUME NEW limits \in [Limiters -> Promise!Setting], New(limits) PROVE Useful'
  BY <1>3 DEF New, Useful, Tracked
<1>4. CASE Tick
  BY <1>4 DEF Tick, Useful, After, Admitted
<1>5. CASE UNCHANGED lvars
  BY <1>5 DEF lvars, Useful, After, Admitted
<1> QED BY <1>1, <1>2, <1>3, <1>4, <1>5 DEF LimiterNext, Allow

----------------------------------------------------------------------------
(* What holds of the limiters, alone or in a process that only calls,      *)
(* restarts and ages them.                                                 *)

LInv == LimiterTypeOK /\ Exact /\ Past /\ Swept /\ Useful /\ WithinLimit /\ KeyBounded

LEMMA LInvStep == LInv /\ [LimiterNext]_lvars => LInv'
BY LimiterTypeStep, ExactStep, PastStep, SweptStep, UsefulStep, WithinStep, BoundedStep DEF LInv

LEMMA SweptForgets == LInv => StaleForgotten
<1> SUFFICES ASSUME LInv, NEW l \in Limiters
             PROVE  /\ \A k \in Keys : \A c \in visits[l][k] : Cardinality(After(l, c)) < SweepEvery
                    /\ Cardinality(Tracked(visits[l])) > MaxTracked =>
                          \A k \in Tracked(visits[l]) : \E c \in visits[l][k] :
                             \A d \in Admitted(l) : calls[d].at < calls[c].at + conf[l].window
  BY DEF StaleForgotten, After
<1>1. ASSUME NEW k \in Keys, NEW c \in visits[l][k] PROVE Cardinality(After(l, c)) < SweepEvery
  <2>1. IsFiniteSet(After(l, c))
    <3>1. After(l, c) \in SUBSET Calls
      BY DEF After, Admitted
    <3> QED BY <3>1, FS_Subset, LimiterAssumption
  <2>2. Cardinality(After(l, c)) <= sweeps[l] /\ sweeps[l] < SweepEvery
    BY DEF LInv, Swept
  <2>3. Cardinality(After(l, c)) \in Nat /\ sweeps[l] \in Nat /\ SweepEvery \in Nat
    BY <2>1, FS_CardinalityType, LimiterAssumption DEF LInv, LimiterTypeOK
  <2> QED BY <2>2, <2>3
<1>2. ASSUME Cardinality(Tracked(visits[l])) > MaxTracked, NEW k \in Tracked(visits[l])
      PROVE  \E c \in visits[l][k] :
                \A d \in Admitted(l) : calls[d].at < calls[c].at + conf[l].window
  <2>1. PICK c \in visits[l][k] : After(l, c) = {}
    BY <1>2 DEF LInv, Useful
  <2>2. c \in Calls
    BY DEF LInv, LimiterTypeOK, Tracked
  <2>3. conf[l].window \in Nat /\ \A d \in Calls : calls[d].at \in Nat
    BY DEF LInv, LimiterTypeOK, Promise!Setting, Decision
  <2>4. \A d \in Admitted(l) : d \in Calls /\ ~(calls[d].at >= calls[c].at + conf[l].window)
    BY <2>1 DEF After, Admitted
  <2> QED BY <2>2, <2>3, <2>4
<1> QED BY <1>1, <1>2

\* The instance has a copy of the standard operator.
LEMMA SameCardinality == ASSUME NEW S PROVE Promise!Cardinality(S) = Cardinality(S)
BY DEF Promise!Cardinality, Cardinality

LEMMA KeepsInit == LimiterInit => Promise!WInit
BY DEF LimiterInit, Promise!WInit

\* Each step of the limiters is a step of what they promise, or none.
LEMMA KeepsStep == LInv /\ [LimiterNext]_lvars => [Promise!WNext]_(Promise!wvars)
<1> SUFFICES ASSUME LInv, [LimiterNext]_lvars PROVE [Promise!WNext]_(Promise!wvars)
  OBVIOUS
<1>1. ASSUME NEW l \in Limiters, NEW k \in Keys
      PROVE  /\ Live(l, visits[l][k]) = Promise!Recent(l, k)
             /\ Cardinality(Live(l, visits[l][k])) \in Nat
             /\ conf[l].limit \in Nat
  BY LiveIsRecent, FS_CardinalityType DEF LInv, LimiterTypeOK, Promise!Setting
<1>2. ASSUME NEW l \in Limiters, NEW k \in Keys, NEW c \in Calls, Admit(l, k, c)
      PROVE  Promise!Decide(l, k, c, "admitted")
  <2>1. Cardinality(Promise!Recent(l, k)) < conf[l].limit
    BY <1>1, <1>2 DEF Admit
  <2>2. Decided(l, k, c, "admitted") /\ UNCHANGED <<conf, clock>>
    BY <1>2 DEF Admit
  <2>3. "admitted" = "admitted" <=> Promise!Cardinality(Promise!Recent(l, k)) < conf[l].limit
    BY <2>1, SameCardinality
  <2>4. /\ calls[c].is = "none"
        /\ calls' = [calls EXCEPT ![c] =
              [is |-> "admitted", limiter |-> l, key |-> k, at |-> clock]]
    BY <2>2 DEF Decided
  <2> QED BY <2>2, <2>3, <2>4 DEF Promise!Decide
<1>3. ASSUME NEW l \in Limiters, NEW k \in Keys, NEW c \in Calls, Refuse(l, k, c)
      PROVE  Promise!Decide(l, k, c, "refused")
  <2>1. ~(Cardinality(Promise!Recent(l, k)) < conf[l].limit)
    BY <1>1, <1>3 DEF Refuse
  <2>2. Decided(l, k, c, "refused") /\ UNCHANGED <<conf, clock>>
    BY <1>3 DEF Refuse
  <2>3. "refused" = "admitted" <=> Promise!Cardinality(Promise!Recent(l, k)) < conf[l].limit
    BY <2>1, SameCardinality
  <2>4. /\ calls[c].is = "none"
        /\ calls' = [calls EXCEPT ![c] =
              [is |-> "refused", limiter |-> l, key |-> k, at |-> clock]]
    BY <2>2 DEF Decided
  <2> QED BY <2>2, <2>3, <2>4 DEF Promise!Decide
<1>4. ASSUME NEW limits \in [Limiters -> Promise!Setting], New(limits) PROVE Promise!Forget
  BY <1>4 DEF New, Promise!Forget
<1>5. CASE Tick
  BY <1>5 DEF Tick, Promise!WNext, Promise!Pass, LInv, LimiterTypeOK
<1>6. CASE UNCHANGED lvars
  BY <1>6 DEF lvars, Promise!wvars
<1> QED BY <1>2, <1>3, <1>4, <1>5, <1>6 DEF LimiterNext, Allow, Promise!WNext

LEMMA LimiterInvariant == LimiterSpec => []LInv
<1>1. LimiterInit => LInv
  BY LimiterInitial DEF LInv
<1> QED BY <1>1, LInvStep, PTL DEF LimiterSpec

\* The limiter's counters and visits have the values that Allow assumes.
THEOREM LimiterTypes == LimiterSpec => []LimiterTypeOK
<1>1. LInv => LimiterTypeOK
  BY DEF LInv
<1> QED BY <1>1, LimiterInvariant, PTL

\* Allow, which drops visits as it goes and forgets whole keys in its sweeps,
\* implements the sliding window that never forgets anything.
THEOREM LimiterKeepsWindow == LimiterSpec => WindowKept
BY KeepsInit, KeepsStep, LimiterInvariant, PTL
   DEF LimiterSpec, WindowKept, Promise!WSpec

\* The sweeps keep the map free of what is of no use to any later call.
THEOREM LimiterForgets == LimiterSpec => []StaleForgotten
BY SweptForgets, LimiterInvariant, PTL

\* Of no key more calls than the limit are ever admitted within one window,
\* wherever on the clock the window ends (the budget ratelimit.go promises).
THEOREM LimiterHoldsLimit == LimiterSpec => []WithinLimit
<1>1. LInv => WithinLimit
  BY DEF LInv
<1> QED BY <1>1, LimiterInvariant, PTL

\* The slice of a key never grows beyond the limit, although what expired is
\* dropped only by calls of that key and by sweeps.
THEOREM LimiterIsBounded == LimiterSpec => []KeyBounded
<1>1. LInv => KeyBounded
  BY DEF LInv
<1> QED BY <1>1, LimiterInvariant, PTL
=============================================================================
