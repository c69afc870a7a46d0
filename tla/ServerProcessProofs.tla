-------------------------- MODULE ServerProcessProofs --------------------------
(***************************************************************************)
(* Theorems about ServerProcess, for any configuration layers and any      *)
(* requests: a process drives its limiters as RateLimiter says, so that    *)
(* the theorems of RateLimiterProofs hold of it, and what it adds to them: *)
(* whose budget a request uses, and what a shutdown waits for.             *)
(***************************************************************************)
EXTENDS ServerProcess, RateLimiterProofs

LimiterOf(r) == IF req[r].route = "login" THEN "auth" ELSE "upload"

\* What serves has been validated, and nothing is under way before it serves.
Prepared ==
    /\ phase # "down" => Valid(cfg)
    /\ phase \in {"down", "loaded", "opened"} =>
          \A r \in Calls : req[r].route = None /\ req[r].pc \in {"idle", "answered"}

\* The budget of a request is that of its peer, or of its account.
Billed ==
    \A r \in Calls :
        /\ req[r].pc = "idle" => req[r].route = None
        /\ req[r].pc \in {"arrived", "allowed", "running"} => req[r].who \in Keys
        /\ req[r].pc \in {"idle", "arrived", "allowed"} => calls[r].is = "none"
        /\ req[r].route = "login" /\ req[r].peer \notin cfg.trusted => req[r].who = req[r].peer
        /\ Charged(r) /\ req[r].route # None =>
              /\ calls[r].limiter = LimiterOf(r)
              /\ calls[r].key = req[r].who /\ req[r].who \in Keys

PInv == TypeOK /\ LInv /\ Prepared /\ Billed

----------------------------------------------------------------------------
(* Configuration *)

\* Whatever the layers hold, what is validated is a configuration.
LEMMA LoadedConfiguration ==
    ASSUME NEW file \in Files, NEW env \in Environments,
           Valid(WithEnvironment(WithFile(Defaults, file), env))
    PROVE  WithEnvironment(WithFile(Defaults, file), env) \in Configuration
<1> DEFINE f == WithFile(Defaults, file)
           c == WithEnvironment(f, env)
<1>1. /\ \A s \in IntSettings \cap DOMAIN file.ints : file.ints[s] \in Int
      /\ file.enabled \in {None} \cup BOOLEAN /\ file.https \in {None} \cup BOOLEAN
      /\ file.trusted \in {None, Garbage} \cup SUBSET Addresses
  BY ProcessAssumption DEF IsLayer
<1>2. /\ \A s \in IntSettings \cap DOMAIN env.ints : env.ints[s] \in {Garbage} \cup Int
      /\ env.trusted \in {None, Garbage} \cup SUBSET Addresses
  BY ProcessAssumption DEF IsLayer
<1>3. /\ Defaults.ints \in [IntSettings -> Int] /\ Defaults.enabled \in BOOLEAN
      /\ Defaults.https \in BOOLEAN /\ Defaults.trusted \in SUBSET Addresses
  BY ProcessAssumption DEF Configuration
<1>4. f.ints \in [IntSettings -> Int]
  BY <1>1, <1>3 DEF WithFile
<1>5. f.enabled \in BOOLEAN /\ f.https \in BOOLEAN
  <2>1. f.enabled = IF file.enabled = None THEN Defaults.enabled ELSE file.enabled
    BY DEF WithFile
  <2>2. f.https = IF file.https = None THEN Defaults.https ELSE file.https
    BY DEF WithFile
  <2> QED BY <1>1, <1>3, <2>1, <2>2
<1>6. f.trusted \in {Garbage} \cup SUBSET Addresses
  BY <1>1, <1>3 DEF WithFile
<1> HIDE DEF f
<1>7. c.ints \in [IntSettings -> Int]
  BY <1>2, <1>4 DEF WithEnvironment
<1>8. c.enabled \in BOOLEAN /\ c.https \in BOOLEAN
  <2>1. c.enabled = IF env.enabled = None THEN f.enabled ELSE env.enabled = TRUE
    BY DEF WithEnvironment
  <2>2. c.https = IF env.https = None THEN f.https ELSE env.https = TRUE
    BY DEF WithEnvironment
  <2> QED BY <1>5, <2>1, <2>2
<1>9. c.trusted \in SUBSET Addresses
  <2>1. c.trusted # Garbage
    BY DEF Valid, f
  <2>2. c.trusted = IF env.trusted = None THEN f.trusted ELSE env.trusted
    BY DEF WithEnvironment
  <2> QED BY <1>2, <1>6, <2>1, <2>2
<1>10. c = [ints |-> c.ints, enabled |-> c.enabled, https |-> c.https, trusted |-> c.trusted]
  BY DEF WithEnvironment
<1>11. c \in Configuration
  <2> HIDE DEF c
  <2> QED BY <1>7, <1>8, <1>9, <1>10 DEF Configuration
<1> QED BY <1>11 DEF f

\* Whoever starts its limiters starts them with a limit and a window.
LEMMA ServedLimits ==
    ASSUME TypeOK, Valid(cfg), cfg.enabled
    PROVE  LimitersOf(cfg) \in [Limiters -> Promise!Setting]
<1>1. \A s \in IntSettings : cfg.ints[s] \in Nat \ {0}
  BY DEF TypeOK, Configuration, Valid
<1> QED BY <1>1 DEF LimitersOf, Promise!Setting, IntSettings

----------------------------------------------------------------------------
(* A process drives its limiters *)

LEMMA ProcessInitial == Init => LimiterInit
<1> SUFFICES ASSUME Init PROVE LimiterInit
  OBVIOUS
<1>1. conf \in [Limiters -> Promise!Setting]
  BY DEF Init, Promise!Setting
<1> QED BY <1>1 DEF Init, LimiterInit

LEMMA ProcessLimiter == TypeOK /\ Prepared /\ Billed /\ [Next]_vars => [LimiterNext]_lvars
<1> SUFFICES ASSUME TypeOK, Prepared, Billed, [Next]_vars PROVE [LimiterNext]_lvars
  OBVIOUS
<1>1. CASE Load \/ OpenStore \/ Signal \/ Stop \/ Crash
  BY <1>1 DEF Load, OpenStore, Signal, Stop, GraceExpires, ShutdownReturns, Exit, Crash, Gone
<1>2. CASE Serve
  <2>1. PICK limits : New(limits) /\ limits = IF cfg.enabled THEN LimitersOf(cfg) ELSE conf
    BY <1>2 DEF Serve
  <2>2. Valid(cfg)
    BY <1>2 DEF Serve, Prepared
  <2>3. limits \in [Limiters -> Promise!Setting]
    BY <2>1, <2>2, ServedLimits DEF TypeOK, LimiterTypeOK
  <2> QED BY <2>1, <2>3 DEF LimiterNext
<1>3. ASSUME NEW r \in Calls, RequestStep(r) PROVE [LimiterNext]_lvars
  <2>1. CASE Arrive(r) \/ Authenticate(r) \/ Handle(r)
    BY <2>1 DEF Arrive, Authenticate, Handle
  <2>2. CASE Limit(r)
    <3>1. req[r].who \in Keys
      BY <2>2 DEF Limit, AtLimiter, Billed
    <3>2. PICK l \in {"auth", "upload"} :
             Admit(l, req[r].who, r) \/ Refuse(l, req[r].who, r) \/ UNCHANGED lvars
      BY <2>2 DEF Limit
    <3> QED BY <3>1, <3>2, ProcessAssumption DEF LimiterNext, Allow
  <2> QED BY <1>3, <2>1, <2>2 DEF RequestStep
<1>4. CASE Tick
  BY <1>4 DEF LimiterNext
<1>5. CASE UNCHANGED vars
  BY <1>5 DEF vars
<1> QED BY <1>1, <1>2, <1>3, <1>4, <1>5 DEF Next

----------------------------------------------------------------------------
(* Types *)

LEMMA ArrivesFrom ==
    ASSUME TypeOK, NEW peer \in Addresses, NEW forwarded \in Addresses \cup {None}
    PROVE  /\ ClientIP(peer, forwarded) \in Addresses
           /\ peer \notin cfg.trusted => ClientIP(peer, forwarded) = peer
BY DEF ClientIP

LEMMA OverIsRequest ==
    ASSUME NEW reply \in {"none", "handled", "refused", "lost"}
    PROVE  /\ Over(reply) \in Request
           /\ Over(reply).pc = "answered" /\ Over(reply).route = None
BY DEF Over, Unused, Request

LEMMA TypeStep == TypeOK /\ Prepared /\ Billed /\ [Next]_vars => TypeOK'
<1> SUFFICES ASSUME TypeOK, Prepared, Billed, [Next]_vars PROVE TypeOK'
  OBVIOUS
<1> USE ProcessAssumption
<1>1. LimiterTypeOK'
  BY ProcessLimiter, LimiterTypeStep DEF TypeOK
<1>2. CASE Load
  <2>1. cfg' \in Configuration
    BY <1>2, LoadedConfiguration DEF Load
  <2> QED BY <1>1, <1>2, <2>1 DEF Load, TypeOK
<1>3. CASE OpenStore \/ Serve \/ Signal
  BY <1>1, <1>3 DEF OpenStore, Serve, Signal, TypeOK
<1>4. CASE GraceExpires \/ ShutdownReturns
  BY <1>1, <1>4 DEF GraceExpires, ShutdownReturns, TypeOK
<1>5. CASE Gone
  <2>1. req' \in [Calls -> Request]
    <3>1. \A r \in Calls : req[r].reply \in {"none", "handled", "refused", "lost"}
      BY DEF TypeOK, Request
    <3>2. \A r \in Calls : Over(IF UnderWay(r) THEN "lost" ELSE req[r].reply) \in Request
      BY <3>1, OverIsRequest
    <3> QED BY <1>5, <3>2 DEF Gone, TypeOK
  <2> QED BY <1>1, <1>5, <2>1 DEF Gone, TypeOK
<1>6. ASSUME NEW r \in Calls, RequestStep(r) PROVE TypeOK'
  <2>1. ASSUME NEW new \in Request, req' = [req EXCEPT ![r] = new] PROVE req' \in [Calls -> Request]
    BY <2>1 DEF TypeOK
  <2>2. ASSUME Refused(r) PROVE req' \in [Calls -> Request]
    BY <2>1, <2>2, OverIsRequest DEF Refused
  <2>3. CASE Arrive(r)
    <3>1. ASSUME NEW route \in Routes, NEW peer \in Addresses, NEW forwarded \in Addresses \cup {None}
          PROVE  [pc |-> "arrived", route |-> route, peer |-> peer,
                  who |-> ClientIP(peer, forwarded), reply |-> "none"] \in Request
      BY ArrivesFrom DEF Request
    <3> QED BY <1>1, <2>1, <2>2, <2>3, <3>1 DEF Arrive, pvars, TypeOK
  <2>4. CASE Authenticate(r)
    <3>1. ASSUME NEW pc \in {"running", "allowed"}, NEW a \in Accounts
          PROVE  [req EXCEPT ![r].pc = pc, ![r].who = a] \in [Calls -> Request]
      <4>1. req[r] \in Request
        BY DEF TypeOK
      <4>2. [req[r] EXCEPT !.pc = pc, !.who = a] \in Request
        BY <4>1 DEF Request
      <4> QED BY <4>2 DEF TypeOK
    <3>2. req' \in [Calls -> Request]
      <4>1. CASE ~Refused(r)
        <5>1. PICK pc \in {"running", "allowed"}, a \in Accounts :
                 req' = [req EXCEPT ![r].pc = pc, ![r].who = a]
          BY <2>4, <4>1 DEF Authenticate
        <5> QED BY <3>1, <5>1
      <4> QED BY <2>2, <4>1
    <3> QED BY <1>1, <2>4, <3>2 DEF Authenticate, pvars, TypeOK
  <2>5. CASE Limit(r)
    <3>1. [req EXCEPT ![r].pc = "running"] \in [Calls -> Request]
      BY DEF TypeOK, Request
    <3>2. req' \in [Calls -> Request]
      BY <2>2, <2>5, <3>1 DEF Limit
    <3> QED BY <1>1, <2>5, <3>2 DEF Limit, pvars, TypeOK
  <2>6. CASE Handle(r)
    <3>1. [req[r] EXCEPT !.pc = "answered", !.reply = "handled"] \in Request
      BY DEF TypeOK, Request
    <3>2. req' \in [Calls -> Request]
      BY <2>1, <2>6, <3>1, OverIsRequest DEF Handle
    <3> QED BY <1>1, <2>6, <3>2 DEF Handle, pvars, TypeOK
  <2> QED BY <1>6, <2>3, <2>4, <2>5, <2>6 DEF RequestStep
<1>7. CASE Tick /\ UNCHANGED <<pvars, req>>
  BY <1>1, <1>7 DEF pvars, TypeOK
<1>8. CASE UNCHANGED vars
  BY <1>1, <1>8 DEF vars, TypeOK
<1> QED BY <1>2, <1>3, <1>4, <1>5, <1>6, <1>7, <1>8 DEF Next, Stop, Exit, Crash

----------------------------------------------------------------------------
(* Requests *)

\* What each step of a request does to it, other requests being left alone.
LEMMA RequestMoves ==
    ASSUME TypeOK, Billed, NEW r \in Calls, RequestStep(r)
    PROVE  /\ \A q \in Calls \ {r} : req'[q] = req[q] /\ calls'[q] = calls[q]
           /\ UNCHANGED pvars
           /\ \/ req'[r].pc = "answered" /\ req'[r].route = None
              \/ /\ phase = "serving" /\ req[r].pc = "idle" /\ calls' = calls
                 /\ req'[r].pc = "arrived" /\ req'[r].who \in Keys
                 /\ req'[r].peer \notin cfg.trusted => req'[r].who = req'[r].peer
              \/ /\ req[r].pc = "arrived" /\ req[r].route # "login" /\ calls' = calls
                 /\ req'[r].route = req[r].route /\ req'[r].who \in Keys
                 /\ req'[r].pc \in {"running", "allowed"}
              \/ /\ req[r].pc \in {"arrived", "allowed"}
                 /\ req'[r] = [req[r] EXCEPT !.pc = "running"]
                 /\ Charged(r)' => /\ calls'[r].limiter = LimiterOf(r)
                                   /\ calls'[r].key = req[r].who
              \/ /\ req[r].pc = "running" /\ calls' = calls
                 /\ req'[r] = [req[r] EXCEPT !.pc = "answered", !.reply = "handled"]
<1> USE ProcessAssumption
<1>1. ASSUME Refused(r), calls' = calls \/ (\A q \in Calls \ {r} : calls'[q] = calls[q])
      PROVE  /\ \A q \in Calls \ {r} : req'[q] = req[q] /\ calls'[q] = calls[q]
             /\ req'[r].pc = "answered" /\ req'[r].route = None
  BY <1>1, OverIsRequest DEF Refused, TypeOK
<1>2. CASE Arrive(r)
  <2>1. phase = "serving" /\ req[r].pc = "idle" /\ calls' = calls /\ UNCHANGED pvars
    BY <1>2 DEF Arrive, lvars
  <2>2. CASE Refused(r)
    BY <1>1, <2>1, <2>2
  <2>3. CASE ~Refused(r)
    <3>1. PICK route \in Routes, peer \in Addresses, forwarded \in Addresses \cup {None} :
             req' = [req EXCEPT ![r] = [pc |-> "arrived", route |-> route, peer |-> peer,
                                        who |-> ClientIP(peer, forwarded), reply |-> "none"]]
      BY <1>2, <2>3 DEF Arrive
    <3>2. /\ req'[r] = [pc |-> "arrived", route |-> route, peer |-> peer,
                        who |-> ClientIP(peer, forwarded), reply |-> "none"]
          /\ \A q \in Calls \ {r} : req'[q] = req[q]
      BY <3>1 DEF TypeOK
    <3> QED BY <2>1, <3>2, ArrivesFrom
  <2> QED BY <2>2, <2>3
<1>3. CASE Authenticate(r)
  <2>1. /\ req[r].pc = "arrived" /\ req[r].route # "login" /\ calls' = calls /\ UNCHANGED pvars
    BY <1>3 DEF Authenticate, lvars
  <2>2. CASE Refused(r)
    BY <1>1, <2>1, <2>2
  <2>3. CASE ~Refused(r)
    <3>1. PICK pc \in {"running", "allowed"}, a \in Accounts :
             req' = [req EXCEPT ![r].pc = pc, ![r].who = a]
      BY <1>3, <2>3 DEF Authenticate
    <3>2. /\ req'[r].pc = pc /\ req'[r].who = a /\ req'[r].route = req[r].route
          /\ \A q \in Calls \ {r} : req'[q] = req[q]
      BY <3>1 DEF TypeOK, Request
    <3> QED BY <2>1, <3>2
  <2> QED BY <2>2, <2>3
<1>4. CASE Limit(r)
  <2>1. req[r].pc \in {"arrived", "allowed"} /\ UNCHANGED pvars /\ calls[r].is = "none"
    BY <1>4 DEF Limit, AtLimiter, Billed
  <2>2. CASE ~cfg.enabled
    <3>1. req' = [req EXCEPT ![r].pc = "running"] /\ calls' = calls
      BY <1>4, <2>2 DEF Limit, lvars
    <3>2. /\ req'[r] = [req[r] EXCEPT !.pc = "running"]
          /\ \A q \in Calls \ {r} : req'[q] = req[q]
      BY <3>1 DEF TypeOK
    <3> QED BY <2>1, <3>1, <3>2 DEF Charged
  <2>3. CASE cfg.enabled
    <3>1. PICK l : /\ l = IF req[r].route = "login" THEN "auth" ELSE "upload"
                   /\ \/ Admit(l, req[r].who, r) /\ req' = [req EXCEPT ![r].pc = "running"]
                      \/ Refuse(l, req[r].who, r) /\ Refused(r)
      BY <1>4, <2>3 DEF Limit
    <3>2. \A q \in Calls \ {r} : calls'[q] = calls[q]
      BY <3>1 DEF Admit, Refuse, Decided, TypeOK, LimiterTypeOK
    <3>3. CASE Refused(r)
      BY <1>1, <2>1, <3>2, <3>3
    <3>4. CASE Admit(l, req[r].who, r) /\ req' = [req EXCEPT ![r].pc = "running"]
      <4>1. /\ req'[r] = [req[r] EXCEPT !.pc = "running"]
            /\ \A q \in Calls \ {r} : req'[q] = req[q]
        BY <3>4 DEF TypeOK
      <4>2. calls'[r].limiter = l /\ calls'[r].key = req[r].who
        BY <3>4 DEF Admit, Decided, TypeOK, LimiterTypeOK
      <4> QED BY <2>1, <3>1, <3>2, <4>1, <4>2 DEF LimiterOf
    <3> QED BY <3>1, <3>3, <3>4
  <2> QED BY <2>2, <2>3
<1>5. CASE Handle(r)
  <2>1. req[r].pc = "running" /\ calls' = calls /\ UNCHANGED pvars
    BY <1>5 DEF Handle, lvars
  <2>2. /\ \/ req'[r] = [req[r] EXCEPT !.pc = "answered", !.reply = "handled"]
           \/ req'[r] = Over("handled")
        /\ \A q \in Calls \ {r} : req'[q] = req[q]
    BY <1>5 DEF Handle, TypeOK
  <2> QED BY <2>1, <2>2, OverIsRequest
<1> QED BY <1>2, <1>3, <1>4, <1>5 DEF RequestStep

LEMMA PreparedStep == TypeOK /\ Prepared /\ Billed /\ [Next]_vars => Prepared'
<1> SUFFICES ASSUME TypeOK, Prepared, Billed, [Next]_vars PROVE Prepared'
  OBVIOUS
<1>1. CASE Load
  BY <1>1 DEF Load, Prepared
<1>2. CASE OpenStore \/ Serve \/ Signal \/ GraceExpires \/ ShutdownReturns
  BY <1>2 DEF OpenStore, Serve, Signal, GraceExpires, ShutdownReturns, Prepared
<1>3. CASE Gone
  <2>1. ASSUME NEW r \in Calls PROVE req'[r].route = None /\ req'[r].pc \in {"idle", "answered"}
    <3>1. CASE req[r].pc = "idle"
      BY <1>3, <3>1 DEF Gone, Billed
    <3>2. CASE req[r].pc # "idle"
      <4>1. \E reply : req'[r] = Over(reply)
        BY <1>3, <3>2 DEF Gone
      <4> QED BY <4>1 DEF Over, Unused
    <3> QED BY <3>1, <3>2
  <2> QED BY <1>3, <2>1 DEF Gone, Prepared
<1>4. ASSUME NEW r \in Calls, RequestStep(r) PROVE Prepared'
  <2>1. UNCHANGED pvars
    BY <1>4, RequestMoves
  <2>2. ASSUME phase \in {"down", "loaded", "opened"}, NEW q \in Calls
        PROVE  req'[q].route = None /\ req'[q].pc \in {"idle", "answered"}
    <3>1. CASE q # r
      BY <1>4, <2>2, <3>1, RequestMoves DEF Prepared
    <3>2. CASE q = r
      <4>1. req[r].pc \in {"idle", "answered"} /\ phase # "serving"
        BY <2>2 DEF Prepared
      <4> QED BY <1>4, <3>2, <4>1, RequestMoves
    <3> QED BY <3>1, <3>2
  <2> QED BY <2>1, <2>2 DEF Prepared, pvars
<1>5. CASE (Tick /\ UNCHANGED <<pvars, req>>) \/ UNCHANGED vars
  BY <1>5 DEF Prepared, pvars, vars
<1> QED BY <1>1, <1>2, <1>3, <1>4, <1>5 DEF Next, Stop, Exit, Crash

LEMMA BilledStep == TypeOK /\ Prepared /\ Billed /\ [Next]_vars => Billed'
<1> SUFFICES ASSUME TypeOK, Prepared, Billed, [Next]_vars PROVE Billed'
  OBVIOUS
<1> DEFINE BilledOK(r) ==
        /\ req[r].pc = "idle" => req[r].route = None
        /\ req[r].pc \in {"arrived", "allowed", "running"} => req[r].who \in Keys
        /\ req[r].pc \in {"idle", "arrived", "allowed"} => calls[r].is = "none"
        /\ req[r].route = "login" /\ req[r].peer \notin cfg.trusted => req[r].who = req[r].peer
        /\ Charged(r) /\ req[r].route # None =>
              /\ calls[r].limiter = LimiterOf(r)
              /\ calls[r].key = req[r].who /\ req[r].who \in Keys
<1> USE ProcessAssumption
<1>1. CASE Load
  <2>1. \A r \in Calls : req[r].route = None
    BY <1>1 DEF Load, Prepared
  <2>2. req' = req /\ calls' = calls
    BY <1>1 DEF Load, lvars
  <2> QED BY <2>1, <2>2 DEF Billed, Charged
<1>2. CASE OpenStore \/ Signal \/ GraceExpires \/ ShutdownReturns
  <2>1. UNCHANGED <<req, calls, cfg>>
    BY <1>2 DEF OpenStore, Signal, GraceExpires, ShutdownReturns, lvars
  <2> QED BY <2>1 DEF Billed, Charged, LimiterOf
<1>3. CASE Serve
  <2>1. UNCHANGED <<req, cfg>> /\ \A r \in Calls : calls'[r].is = "none"
    BY <1>3 DEF Serve, New, Promise!Undecided
  <2> QED BY <2>1 DEF Billed, Charged
<1>4. CASE Gone
  <2>1. calls' = calls
    BY <1>4 DEF Gone, lvars
  <2>2. ASSUME NEW r \in Calls
        PROVE  /\ req'[r].route = None /\ req'[r].pc \in {"idle", "answered"}
               /\ req'[r].pc = "idle" => req[r].pc = "idle"
    <3>1. CASE req[r].pc = "idle"
      BY <1>4, <3>1 DEF Gone, Billed
    <3>2. CASE req[r].pc # "idle"
      <4>1. \E reply : req'[r] = Over(reply)
        BY <1>4, <3>2 DEF Gone
      <4> QED BY <4>1 DEF Over, Unused
    <3> QED BY <3>1, <3>2
  <2>3. None # "login"
    OBVIOUS
  <2> QED BY <2>1, <2>2, <2>3 DEF Billed, Charged
<1>5. ASSUME NEW r \in Calls, RequestStep(r) PROVE Billed'
  <2>1. cfg' = cfg
    BY <1>5, RequestMoves DEF pvars
  <2>2. ASSUME NEW q \in Calls \ {r} PROVE BilledOK(q)'
    <3>1. req'[q] = req[q] /\ calls'[q] = calls[q]
      BY <1>5, RequestMoves
    <3>2. BilledOK(q)
      BY DEF Billed
    <3> QED BY <2>1, <3>1, <3>2 DEF Charged, LimiterOf
  <2>3. BilledOK(r)'
    <3>1. BilledOK(r)
      BY DEF Billed
    <3>2. CASE req'[r].pc = "answered" /\ req'[r].route = None
      BY <3>2
    <3>3. CASE /\ req[r].pc = "idle" /\ calls' = calls
               /\ req'[r].pc = "arrived" /\ req'[r].who \in Keys
               /\ req'[r].peer \notin cfg.trusted => req'[r].who = req'[r].peer
      BY <2>1, <3>1, <3>3 DEF Charged
    <3>4. CASE /\ req[r].pc = "arrived" /\ req[r].route # "login" /\ calls' = calls
               /\ req'[r].route = req[r].route /\ req'[r].who \in Keys
               /\ req'[r].pc \in {"running", "allowed"}
      BY <2>1, <3>1, <3>4 DEF Charged
    <3>5. CASE /\ req[r].pc \in {"arrived", "allowed"}
               /\ req'[r] = [req[r] EXCEPT !.pc = "running"]
               /\ Charged(r)' => calls'[r].limiter = LimiterOf(r) /\ calls'[r].key = req[r].who
      <4>1. /\ req'[r].pc = "running" /\ req'[r].route = req[r].route
            /\ req'[r].peer = req[r].peer /\ req'[r].who = req[r].who
        BY <3>5 DEF TypeOK, Request
      <4> QED BY <2>1, <3>1, <3>5, <4>1 DEF LimiterOf
    <3>6. CASE /\ req[r].pc = "running" /\ calls' = calls
               /\ req'[r] = [req[r] EXCEPT !.pc = "answered", !.reply = "handled"]
      <4>1. /\ req'[r].pc = "answered" /\ req'[r].route = req[r].route
            /\ req'[r].peer = req[r].peer /\ req'[r].who = req[r].who
        BY <3>6 DEF TypeOK, Request
      <4> QED BY <2>1, <3>1, <3>6, <4>1 DEF LimiterOf, Charged
    <3> QED BY <1>5, <3>2, <3>3, <3>4, <3>5, <3>6, RequestMoves
  <2> QED BY <2>2, <2>3 DEF Billed
<1>6. CASE Tick /\ UNCHANGED <<pvars, req>>
  BY <1>6 DEF Tick, pvars, Billed, Charged, LimiterOf
<1>7. CASE UNCHANGED vars
  BY <1>7 DEF vars, lvars, Billed, Charged, LimiterOf
<1> QED BY <1>1, <1>2, <1>3, <1>4, <1>5, <1>6, <1>7 DEF Next, Stop, Exit, Crash

----------------------------------------------------------------------------
(* What follows *)

LEMMA ProcessInit == Init => PInv
<1> SUFFICES ASSUME Init PROVE PInv
  OBVIOUS
<1> USE ProcessAssumption
<1>1. LInv
  BY ProcessInitial, LimiterInitial DEF LInv
<1>2. TypeOK
  BY <1>1 DEF Init, TypeOK, LInv, Unused, Request
<1>3. Prepared /\ Billed
  BY DEF Init, Prepared, Billed, Charged, Unused, Promise!Undecided
<1> QED BY <1>1, <1>2, <1>3 DEF PInv

LEMMA PInvStep == PInv /\ [Next]_vars => PInv'
BY TypeStep, PreparedStep, BilledStep, ProcessLimiter, LInvStep DEF PInv

\* Requests of one budget are calls of one key, and the limiter counts those.
LEMMA BudgetFollows == PInv => BudgetKept
<1> SUFFICES ASSUME PInv, NEW r \in Calls, Charged(r), req[r].route # None,
                    req[r].route = "login" => req[r].peer \notin cfg.trusted
             PROVE  Cardinality({q \in Calls :
                        /\ SameBudget(q, r)
                        /\ calls[q].at <= calls[r].at
                        /\ calls[q].at > calls[r].at - conf[calls[r].limiter].window})
                    <= conf[calls[r].limiter].limit
  BY DEF BudgetKept
<1> USE ProcessAssumption
<1> DEFINE l == calls[r].limiter
           k == calls[r].key
           S == {q \in Calls : /\ SameBudget(q, r)
                               /\ calls[q].at <= calls[r].at
                               /\ calls[q].at > calls[r].at - conf[l].window}
<1>1. \A q \in Calls : Charged(q) /\ req[q].route # None =>
         calls[q].limiter = LimiterOf(q) /\ calls[q].key = req[q].who
  BY DEF PInv, Billed
<1>2. \A q \in Calls : req[q].route = "login" /\ req[q].peer \notin cfg.trusted =>
         req[q].who = req[q].peer
  BY DEF PInv, Billed
<1>3. l \in Limiters /\ k \in Keys
  <2>1. l = LimiterOf(r) /\ k = req[r].who /\ k \in Keys
    BY DEF PInv, Billed
  <2> QED BY <2>1 DEF LimiterOf
<1>4. r \in AdmittedOf(l, k)
  BY DEF Charged, AdmittedOf, Promise!AdmittedOf
<1>5. S \subseteq InWindow(l, k, calls[r].at)
  <2>1. ASSUME NEW q \in Calls, SameBudget(q, r) PROVE q \in AdmittedOf(l, k)
    <3>1. Charged(q) /\ req[q].route = req[r].route
      BY <2>1 DEF SameBudget
    <3>2. calls[q].limiter = l
      BY <1>1, <3>1 DEF LimiterOf
    <3>3. req[q].who = req[r].who
      BY <1>2, <2>1, <3>1 DEF SameBudget
    <3>4. calls[q].key = k
      BY <1>1, <3>1, <3>3
    <3> QED BY <3>1, <3>2, <3>4 DEF Charged, AdmittedOf, Promise!AdmittedOf
  <2> QED BY <2>1 DEF InWindow
<1>6. IsFiniteSet(InWindow(l, k, calls[r].at))
  <2>1. InWindow(l, k, calls[r].at) \in SUBSET Calls
    BY DEF InWindow, AdmittedOf, Promise!AdmittedOf
  <2> QED BY <2>1, FS_Subset, LimiterAssumption
<1>7. Cardinality(InWindow(l, k, calls[r].at)) <= conf[l].limit
  BY <1>3, <1>4 DEF PInv, LInv, LimiterTypeOK, Decision, WithinLimit
<1>8. /\ Cardinality(S) <= Cardinality(InWindow(l, k, calls[r].at))
      /\ Cardinality(S) \in Nat /\ Cardinality(InWindow(l, k, calls[r].at)) \in Nat
  BY <1>5, <1>6, FS_Subset, FS_CardinalityType
<1>9. conf[l].limit \in Nat
  BY <1>3 DEF PInv, LInv, LimiterTypeOK, Promise!Setting
<1> QED BY <1>7, <1>8, <1>9

LEMMA ProcessInvariant == Spec => []PInv
BY ProcessInit, PInvStep, PTL DEF Spec

\* Every variable of a process has a value of its kind, and the configuration
\* that Load returns is one, whatever the file and the environment hold.
THEOREM ProcessTypes == Spec => []TypeOK
<1>1. PInv => TypeOK
  BY DEF PInv
<1> QED BY <1>1, ProcessInvariant, PTL

\* A process only starts its limiters, with settings that validate() has let
\* pass, calls Allow, and lets time go by.
THEOREM ProcessDrivesLimiters == Spec => LimiterSpec
<1>1. PInv /\ [Next]_vars => [LimiterNext]_lvars
  BY ProcessLimiter DEF PInv
<1> QED BY <1>1, ProcessInitial, ProcessInvariant, PTL DEF Spec, LimiterSpec

\* So the limiters of a process are sliding windows, over any number of restarts.
THEOREM ProcessKeepsWindow == Spec => WindowKept
BY ProcessDrivesLimiters, LimiterKeepsWindow, PTL

\* And what has expired is forgotten.
THEOREM ProcessForgets == Spec => []StaleForgotten
BY ProcessDrivesLimiters, LimiterForgets, PTL

\* In no window of a running server are more calls of a key admitted than the
\* configuration allows, and no key keeps more visits than that.
THEOREM ProcessHoldsLimits == Spec => [](WithinLimit /\ KeyBounded)
BY ProcessDrivesLimiters, LimiterHoldsLimit, LimiterIsBounded, PTL

\* No peer that is not trusted has more than its share of register and login,
\* whatever headers it sends, and no account more than its share of uploads.
THEOREM ProcessKeepsBudgets == Spec => []BudgetKept
BY BudgetFollows, ProcessInvariant, PTL
=============================================================================
