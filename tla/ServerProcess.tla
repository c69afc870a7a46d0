---------------------------- MODULE ServerProcess ----------------------------
(***************************************************************************)
(* One server process from its configuration to its exit (main.go,         *)
(* config.go), and the way of a request through the middleware to its      *)
(* handler (router.go, middleware.go, handler.go), with the limiters of    *)
(* RateLimiter in between.  Calls are the HTTP requests.                   *)
(*                                                                         *)
(* The checks of CSRF and HTTPS and the address of the client depend on    *)
(* the request and the configuration alone and are part of its arrival.    *)
(* Then come the lookup of a credential (in AuthServer; here any outcome), *)
(* the limiter, and the handler, other requests running in between.        *)
(***************************************************************************)
EXTENDS RateLimiter

CONSTANTS
    Addresses, Accounts, \* what the limiters count by
    Garbage,             \* a text that is no number, no boolean, no CIDR
    Defaults,            \* defaults()
    Files, Environments, \* what the YAML file and the DRIFTCLIP_* variables may hold
    MaxStarts            \* bound of the model

IntSettings == {"auth_limit", "auth_window", "upload_limit", "upload_window"}

Configuration == [ints    : [IntSettings -> Int],
                  enabled : BOOLEAN,           \* rate_limit.enabled
                  https   : BOOLEAN,           \* server.require_https
                  trusted : SUBSET Addresses]  \* server.trusted_proxies

\* A layer leaves settings open: a number that is absent, None for the others.
IsLayer(x, Number, Switch) ==
    /\ \A s \in IntSettings \cap DOMAIN x.ints : x.ints[s] \in Number
    /\ {x.enabled, x.https} \subseteq {None} \cup Switch
    /\ x.trusted \in {None, Garbage} \cup SUBSET Addresses

ASSUME ProcessAssumption ==
    /\ Limiters = {"auth", "upload"} /\ Keys = Addresses \cup Accounts
    /\ None \notin Addresses \cup Accounts \cup {"login", "upload", "browse"}
    /\ Defaults \in Configuration
    /\ \A x \in Files : IsLayer(x, Int, BOOLEAN)
    /\ \A x \in Environments : IsLayer(x, {Garbage} \cup Int, {Garbage} \cup BOOLEAN)
    /\ MaxStarts \in Nat

VARIABLES
    phase,     \* how far main() is
    cfg,       \* what Load returned
    graceOver, \* the ten seconds that Shutdown waits have passed
    req,       \* the requests
    starts

vars == <<lvars, phase, cfg, graceOver, req, starts>>
pvars == <<phase, cfg, graceOver, starts>>

Routes == {"login", "upload", "browse"} \* login stands for register too

Request == [pc    : {"idle", "arrived", "allowed", "running", "answered"},
            route : Routes \cup {None},
            peer  : Addresses \cup {None},             \* RemoteAddr
            who   : Addresses \cup Accounts \cup {None}, \* clientIP, then account_id
            reply : {"none", "handled", "refused", "lost"}]

Unused == [pc |-> "idle", route |-> None, peer |-> None, who |-> None, reply |-> "none"]

TypeOK ==
    /\ LimiterTypeOK
    /\ phase \in {"down", "loaded", "opened", "serving", "draining", "closed"}
    /\ cfg \in Configuration
    /\ graceOver \in BOOLEAN
    /\ req \in [Calls -> Request]
    /\ starts \in Nat

----------------------------------------------------------------------------
(* config.go *)

\* A variable that holds no number leaves the setting as it is, one that is
\* neither true nor 1 turns a switch off, an empty one counts as absent.
WithEnvironment(c, env) ==
    [ints    |-> [s \in IntSettings |->
                     IF s \in DOMAIN env.ints /\ env.ints[s] # Garbage
                     THEN env.ints[s] ELSE c.ints[s]],
     enabled |-> IF env.enabled = None THEN c.enabled ELSE env.enabled = TRUE,
     https   |-> IF env.https = None THEN c.https ELSE env.https = TRUE,
     trusted |-> IF env.trusted = None THEN c.trusted ELSE env.trusted]

\* A file that does not parse, or holds a value of the wrong type, is an error.
WithFile(c, file) ==
    [ints    |-> [s \in IntSettings |-> IF s \in DOMAIN file.ints THEN file.ints[s] ELSE c.ints[s]],
     enabled |-> IF file.enabled = None THEN c.enabled ELSE file.enabled,
     https   |-> IF file.https = None THEN c.https ELSE file.https,
     trusted |-> IF file.trusted = None THEN c.trusted ELSE file.trusted]

\* Faulty variant: the limits are checked whoever uses them, the windows never.
WindowsUnchecked(c) ==
    /\ c.trusted # Garbage
    /\ c.ints["auth_limit"] >= 1 /\ c.ints["upload_limit"] >= 1

\* The proxies parse, and validate() has no objection.
Valid(c) ==
    /\ c.trusted # Garbage
    /\ c.enabled => \A s \in IntSettings : c.ints[s] >= 1

----------------------------------------------------------------------------
(* main.go *)

LimitersOf(c) ==
    [l \in Limiters |->
        IF l = "auth" THEN [limit |-> c.ints["auth_limit"], window |-> c.ints["auth_window"]]
        ELSE [limit |-> c.ints["upload_limit"], window |-> c.ints["upload_window"]]]

\* Every error on the way to serving ends the process, which Crash stands for.
Load ==
    /\ phase = "down" /\ starts < MaxStarts
    /\ \E file \in Files, env \in Environments :
          LET c == WithEnvironment(WithFile(Defaults, file), env)
          IN Valid(c) /\ cfg' = c
    /\ phase' = "loaded" /\ starts' = starts + 1
    /\ UNCHANGED <<lvars, graceOver, req>>

\* Open, migrate, CleanupAccounts, DeleteExpiredSessions.
OpenStore ==
    /\ phase = "loaded" /\ phase' = "opened"
    /\ UNCHANGED <<lvars, cfg, graceOver, req, starts>>

\* Disabled limiters are nil, and nobody asks them.
Serve ==
    /\ phase = "opened" /\ phase' = "serving"
    /\ New(IF cfg.enabled THEN LimitersOf(cfg) ELSE conf)
    /\ UNCHANGED <<cfg, graceOver, req, starts>>

\* SIGINT or SIGTERM: no connection is accepted any more.
Signal ==
    /\ phase = "serving" /\ phase' = "draining"
    /\ UNCHANGED <<lvars, cfg, graceOver, req, starts>>

GraceExpires ==
    /\ phase = "draining" /\ ~graceOver /\ graceOver' = TRUE
    /\ UNCHANGED <<lvars, phase, cfg, req, starts>>

\* What matters of a request that no budget counts any more.
Over(reply) == [Unused EXCEPT !.pc = "answered", !.reply = reply]

UnderWay(r) == req[r].pc \notin {"idle", "answered"}

\* Shutdown returns, and the deferred Close closes the store under whatever
\* handlers are left.
ShutdownReturns ==
    /\ phase = "draining"
    /\ graceOver \/ \A r \in Calls : ~UnderWay(r)
    /\ phase' = "closed"
    /\ UNCHANGED <<lvars, cfg, graceOver, req, starts>>

\* The process is gone, and the requests that it was working on with it.
Gone ==
    /\ phase' = "down" /\ graceOver' = FALSE
    /\ req' = [r \in Calls |-> IF req[r].pc = "idle" THEN req[r]
                               ELSE Over(IF UnderWay(r) THEN "lost" ELSE req[r].reply)]
    /\ UNCHANGED <<lvars, cfg, starts>>

Exit == phase = "closed" /\ Gone

Crash == phase \notin {"down", "closed"} /\ Gone

----------------------------------------------------------------------------
(* The middleware *)

\* Faulty variant: forwarding headers are believed whoever sends them.
ClientIPForged(peer, forwarded) == IF forwarded # None THEN forwarded ELSE peer

\* The first address of X-Forwarded-For, else X-Real-IP, of a trusted proxy only.
ClientIP(peer, forwarded) ==
    IF peer \in cfg.trusted /\ forwarded # None THEN forwarded ELSE peer

PassesCSRF(route, cookie, ajax) == route = "upload" /\ cookie => ajax

PassesHTTPS(peer, tls, proto) == cfg.https => tls \/ (peer \in cfg.trusted /\ proto)

\* The outcomes that some headers of such a request have.
MayPass(route, peer) ==
    {PassesCSRF(route, cookie, ajax) /\ PassesHTTPS(peer, tls, proto) :
        cookie, ajax, tls, proto \in BOOLEAN}

Refused(r) == req' = [req EXCEPT ![r] = Over("refused")]

Arrive(r) ==
    /\ phase = "serving" /\ req[r].pc = "idle"
    /\ \E route \in Routes, peer \in Addresses :
          \/ /\ TRUE \in MayPass(route, peer)
             /\ \E forwarded \in Addresses \cup {None} :
                   req' = [req EXCEPT ![r] =
                      [pc |-> "arrived", route |-> route, peer |-> peer,
                       who |-> ClientIP(peer, forwarded), reply |-> "none"]]
          \/ FALSE \in MayPass(route, peer) /\ Refused(r)
    /\ UNCHANGED <<lvars, pvars>>

\* RequireKey, RequireAnyAuth: the account of the credential, or 401.
Authenticate(r) ==
    /\ req[r].pc = "arrived" /\ req[r].route # "login"
    /\ \/ \E a \in Accounts :
             req' = [req EXCEPT ![r].pc = IF req[r].route = "browse" THEN "running" ELSE "allowed",
                                ![r].who = a]
       \/ Refused(r)
    /\ UNCHANGED <<lvars, pvars>>

\* The request has used a part of somebody's budget.
Charged(r) == calls[r].is = "admitted"

AtLimiter(r) == req[r].pc = IF req[r].route = "login" THEN "arrived" ELSE "allowed"

\* RateLimit: 429, or on to the handler; a nil limiter lets everything pass.
Limit(r) ==
    /\ req[r].route \in {"login", "upload"} /\ AtLimiter(r)
    /\ LET l == IF req[r].route = "login" THEN "auth" ELSE "upload"
       IN \/ /\ ~cfg.enabled
             /\ req' = [req EXCEPT ![r].pc = "running"]
             /\ UNCHANGED lvars
          \/ /\ cfg.enabled /\ Admit(l, req[r].who, r)
             /\ req' = [req EXCEPT ![r].pc = "running"]
          \/ /\ cfg.enabled /\ Refuse(l, req[r].who, r)
             /\ Refused(r)
    /\ UNCHANGED pvars

\* The handler, which answers 500 if the store is closed under it.
Handle(r) ==
    /\ req[r].pc = "running"
    /\ req' = [req EXCEPT ![r] = IF Charged(r) THEN [@ EXCEPT !.pc = "answered", !.reply = "handled"]
                                 ELSE Over("handled")]
    /\ UNCHANGED <<lvars, pvars>>

----------------------------------------------------------------------------
Init ==
    /\ conf = [l \in Limiters |-> [limit |-> 1, window |-> 1]]
    /\ visits = [l \in Limiters |-> [k \in Keys |-> {}]]
    /\ sweeps = [l \in Limiters |-> 0]
    /\ calls = [c \in Calls |-> Promise!Undecided]
    /\ clock = 0
    /\ phase = "down"
    /\ cfg = Defaults
    /\ graceOver = FALSE
    /\ req = [r \in Calls |-> Unused]
    /\ starts = 0

RequestStep(r) == Arrive(r) \/ Authenticate(r) \/ Limit(r) \/ Handle(r)

Stop == GraceExpires \/ ShutdownReturns \/ Exit

Next ==
    \/ Load \/ OpenStore \/ Serve \/ Signal \/ Stop \/ Crash
    \/ \E r \in Calls : RequestStep(r)
    \/ Tick /\ UNCHANGED <<pvars, req>>

Spec == Init /\ [][Next]_vars

----------------------------------------------------------------------------
SameBudget(q, r) ==
    /\ Charged(q) /\ req[q].route = req[r].route
    /\ IF req[r].route = "login" THEN req[q].peer = req[r].peer ELSE req[q].who = req[r].who

\* In no window do more requests of one peer reach register and login than the
\* limit allows, whatever forwarding headers the peer makes up, unless it is a
\* trusted proxy; and no more uploads of one account, whatever key was used.
BudgetKept ==
    cfg.enabled =>
        \A r \in Calls :
            /\ Charged(r) /\ req[r].route # None
            /\ req[r].route = "login" => req[r].peer \notin cfg.trusted
            => LET l == calls[r].limiter
               IN Cardinality({q \in Calls :
                      /\ SameBudget(q, r)
                      /\ calls[q].at <= calls[r].at
                      /\ calls[q].at > calls[r].at - conf[l].window}) <= conf[l].limit
=============================================================================
