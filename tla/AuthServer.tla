----------------------------- MODULE AuthServer -----------------------------
(***************************************************************************)
(* Accounts, Web sessions and API keys of the server: the handlers of      *)
(* handler/auth.go and handler/keys.go over the tables accounts, sessions  *)
(* and keys, behind the authentication of middleware.go.                   *)
(*                                                                         *)
(* net/http runs every request in a goroutine of its own.  A handler is a  *)
(* sequence of SQL statements or transactions, each atomic in SQLite; an   *)
(* action is one of them with the code up to the next one, so any request  *)
(* may run between two statements of another.                              *)
(*                                                                         *)
(* Session tokens and keys are 32 random bytes: one is represented by the  *)
(* request that generated it, hence never repeats.                         *)
(***************************************************************************)
EXTENDS Integers, FiniteSets

CONSTANTS
    Requests,   \* the HTTP requests that may ever arrive
    Accounts,   \* normalised email addresses
    Passwords,
    None,       \* NULL: no password, no key, no account, no credential
    Second,     \* instants of the clock in a second
    Duration,   \* SessionDuration, in instants
    Instants,   \* the moments at which anything happens
    MaxRestarts \* bound of the model

ASSUME NoneAssumption ==
    None \notin Requests /\ None \notin Accounts /\ None \notin Passwords

ASSUME TimeAssumption ==
    /\ Second \in Nat \ {0} /\ Duration \in Nat /\ Duration >= Second
    /\ Instants \subseteq Nat /\ MaxRestarts \in Nat

VARIABLES
    password, \* accounts.password_hash: account -> password or None
    sessions, \* rows of the table sessions
    keyOf,    \* rows of the table keys: account -> key or None
    clock,    \* time.Now(), finer than the seconds that are stored
    req,      \* the requests, with their answers once answered
    restarts,
    changes,  \* history: account -> number of password changes
    ended     \* history: credentials revoked, replaced or past their time

vars == <<password, sessions, keyOf, clock, req, restarts, changes, ended>>

PublicOps  == {"register", "login"}
SessionOps == {"logout", "changePassword", "me", "revealKey", "generateKey", "resetKey"}
Ops        == PublicOps \cup SessionOps \cup {"upload", "browse"}

Session == [token : Requests, account : Accounts, expires : Nat,
            opened : Passwords, since : Nat]

Request == [op      : Ops \cup {"none"},
            pc      : {"idle", "arrived", "tryKey", "authed", "checked", "answered"},
            account : Accounts \cup {None},  \* account_id of the context
            secret  : Passwords \cup {None}, \* password, current_password
            new     : Passwords \cup {None}, \* new_password
            token   : Requests \cup {None},  \* the session cookie
            key     : Requests \cup {None},  \* Bearer key; the key read by keys.go
            reply   : {"none", "ok", "refused", "failed"}, \* 2xx, 4xx, 500 or none
            dead    : BOOLEAN]               \* credential invalid on arrival

Unused == [op |-> "none", pc |-> "idle", account |-> None, secret |-> None,
           new |-> None, token |-> None, key |-> None, reply |-> "none",
           dead |-> FALSE]

TypeOK ==
    /\ password \in [Accounts -> Passwords \cup {None}]
    /\ sessions \subseteq Session
    /\ keyOf \in [Accounts -> Requests \cup {None}]
    /\ clock \in Nat
    /\ req \in [Requests -> Request]
    /\ restarts \in Nat
    /\ changes \in [Accounts -> Nat]
    /\ ended \subseteq Requests

Answered(op, r) == req[r].op = op /\ req[r].reply = "ok"

\* The credentials that clients were given.
Cookies == {r \in Requests : Answered("register", r) \/ Answered("login", r)}
Bearers == {r \in Requests : Answered("generateKey", r) \/ Answered("resetKey", r)}

----------------------------------------------------------------------------
(* Credentials, as the middleware looks them up. *)

\* The time as it is stored: a string of whole seconds.
Whole(t) == t - (t % Second)

\* A session whose expiry, a whole second, is before now counts as absent.
Fresh(s) == s.expires >= clock

\* The cleanup compares strings, hence whole seconds.
Lapsed(s) == s.expires < Whole(clock)

SessionFound(token, account) ==
    \E s \in sessions : s.token = token /\ s.account = account /\ Fresh(s)

KeyFound(key, account) == key # None /\ keyOf[account] = key

\* Nothing that a request shows on arrival is good any more.
Dead(op, token, key) == op \notin PublicOps /\ {token, key} \ {None} \subseteq ended

Tokens(rows) == {s.token : s \in rows}

\* What is left of a request that is over: all of a failure is alike, and of the
\* tokens only the one that was logged out.
Over(request, reply) ==
    IF reply = "ok"
    THEN [request EXCEPT !.pc = "answered", !.reply = "ok", !.secret = None, !.new = None,
                         !.token = IF request.op = "logout" THEN @ ELSE None]
    ELSE [Unused EXCEPT !.pc = "answered", !.reply = reply, !.dead = request.dead]

Answer(r, reply) == req' = [req EXCEPT ![r] = Over(@, reply)]

Proceed(r, pc) == req' = [req EXCEPT ![r].pc = pc]

At(r, op, pc) == req[r].op = op /\ req[r].pc = pc

----------------------------------------------------------------------------
(* Arrival and authentication *)

Arrive(r, op, account, secret, new, token, key) ==
    /\ req[r].pc = "idle"
    /\ req' = [req EXCEPT ![r] =
          [op |-> op, pc |-> "arrived", account |-> account, secret |-> secret,
           new |-> new, token |-> token, key |-> key, reply |-> "none",
           dead |-> Dead(op, token, key)]]
    /\ UNCHANGED <<password, sessions, keyOf, clock, restarts, changes, ended>>

ArrivePublic(r) ==
    \E op \in PublicOps, a \in Accounts, p \in Passwords :
        Arrive(r, op, a, p, None, None, None)

ArriveSession(r) ==
    \E t \in Cookies :
        \/ \E op \in SessionOps \ {"changePassword"} : Arrive(r, op, None, None, None, t, None)
        \/ \E p, n \in Passwords : Arrive(r, "changePassword", None, p, n, t, None)

ArriveKey(r) == \E k \in Bearers : Arrive(r, "upload", None, None, None, None, k)

ArriveAny(r) ==
    \E t \in Cookies \cup {None}, k \in Bearers \cup {None} :
        Arrive(r, "browse", None, None, None, t, k)

\* RequireSession, and the first half of RequireAnyAuth.
BySession(r) ==
    /\ req[r].pc = "arrived" /\ req[r].op \in SessionOps \cup {"browse"}
    /\ \/ \E a \in Accounts :
             /\ SessionFound(req[r].token, a)
             /\ req' = [req EXCEPT ![r].pc = "authed", ![r].account = a]
       \/ /\ \A a \in Accounts : ~SessionFound(req[r].token, a)
          /\ IF req[r].op = "browse" THEN Proceed(r, "tryKey") ELSE Answer(r, "refused")
    /\ UNCHANGED <<password, sessions, keyOf, clock, restarts, changes, ended>>

\* RequireKey, and the second half of RequireAnyAuth.
ByKey(r) ==
    /\ At(r, "upload", "arrived") \/ At(r, "browse", "tryKey")
    /\ \/ \E a \in Accounts :
             /\ KeyFound(req[r].key, a)
             /\ req' = [req EXCEPT ![r].pc = "authed", ![r].account = a]
       \/ /\ \A a \in Accounts : ~KeyFound(req[r].key, a)
          /\ Answer(r, "refused")
    /\ UNCHANGED <<password, sessions, keyOf, clock, restarts, changes, ended>>

----------------------------------------------------------------------------
(* handler/auth.go *)

\* Faulty variant: an existing row is overwritten (INSERT OR REPLACE).
CreateAccountAnyway(r) ==
    /\ At(r, "register", "arrived")
    /\ password' = [password EXCEPT ![req[r].account] = req[r].secret]
    /\ Proceed(r, "checked")
    /\ UNCHANGED <<sessions, keyOf, clock, restarts, changes, ended>>

\* CreateAccount: the UNIQUE email decides who wins.
CreateAccount(r) ==
    /\ At(r, "register", "arrived")
    /\ IF password[req[r].account] = None
       THEN /\ password' = [password EXCEPT ![req[r].account] = req[r].secret]
            /\ Proceed(r, "checked")
       ELSE Answer(r, "refused") /\ UNCHANGED password
    /\ UNCHANGED <<sessions, keyOf, clock, restarts, changes, ended>>

\* The row of the account is read and the password verified against it.
CheckLogin(r) ==
    /\ At(r, "login", "arrived")
    /\ IF password[req[r].account] = req[r].secret
       THEN Proceed(r, "checked")
       ELSE Answer(r, "refused")
    /\ UNCHANGED <<password, sessions, keyOf, clock, restarts, changes, ended>>

OpenSession(r) ==
    /\ At(r, "register", "checked") \/ At(r, "login", "checked")
    /\ sessions' = sessions \cup
          {[token |-> r, account |-> req[r].account, expires |-> Whole(clock + Duration),
            opened |-> req[r].secret, since |-> changes[req[r].account]]}
    /\ Answer(r, "ok")
    /\ UNCHANGED <<password, keyOf, clock, restarts, changes, ended>>

\* Faulty variant: DeleteSession is given the token and not its hash, and finds no row.
LogoutFindsNoRow(r) ==
    /\ At(r, "logout", "authed")
    /\ ended' = ended \cup Tokens({s \in sessions : s.token = req[r].token})
    /\ Answer(r, "ok")
    /\ UNCHANGED <<password, sessions, keyOf, clock, restarts, changes>>

\* The error of DeleteSession is ignored: the answer does not tell whether the
\* session is gone.
Logout(r) ==
    /\ At(r, "logout", "authed")
    /\ \/ /\ sessions' = {s \in sessions : s.token # req[r].token}
          /\ ended' = ended \cup Tokens({s \in sessions : s.token = req[r].token})
       \/ UNCHANGED <<sessions, ended>>
    /\ Answer(r, "ok")
    /\ UNCHANGED <<password, keyOf, clock, restarts, changes>>

CheckPassword(r) ==
    /\ At(r, "changePassword", "authed")
    /\ IF password[req[r].account] = req[r].secret
       THEN Proceed(r, "checked")
       ELSE Answer(r, "refused")
    /\ UNCHANGED <<password, sessions, keyOf, clock, restarts, changes, ended>>

\* Faulty variant: only the session that asked for the change is deleted.
ChangeKeepsOthers(r) ==
    /\ At(r, "changePassword", "checked")
    /\ password' = [password EXCEPT ![req[r].account] = req[r].new]
    /\ sessions' = {s \in sessions : s.token # req[r].token}
    /\ changes' = [changes EXCEPT ![req[r].account] = @ + 1]
    /\ ended' = ended \cup Tokens({s \in sessions : s.account = req[r].account})
    /\ Answer(r, "ok")
    /\ UNCHANGED <<keyOf, clock, restarts>>

\* Faulty variant: DELETE FROM sessions without the WHERE.
ChangeRevokesAll(r) ==
    /\ At(r, "changePassword", "checked")
    /\ password' = [password EXCEPT ![req[r].account] = req[r].new]
    /\ sessions' = {}
    /\ changes' = [changes EXCEPT ![req[r].account] = @ + 1]
    /\ ended' = ended \cup Tokens({s \in sessions : s.account = req[r].account})
    /\ Answer(r, "ok")
    /\ UNCHANGED <<keyOf, clock, restarts>>

\* ChangePasswordAndRevokeSessions, one transaction.
ChangePassword(r) ==
    /\ At(r, "changePassword", "checked")
    /\ password' = [password EXCEPT ![req[r].account] = req[r].new]
    /\ sessions' = {s \in sessions : s.account # req[r].account}
    /\ changes' = [changes EXCEPT ![req[r].account] = @ + 1]
    /\ ended' = ended \cup Tokens({s \in sessions : s.account = req[r].account})
    /\ Answer(r, "ok")
    /\ UNCHANGED <<keyOf, clock, restarts>>

----------------------------------------------------------------------------
(* handler/keys.go *)

\* GetKeyHashByAccount, by the two handlers that write a key afterwards.
CheckKey(r) ==
    /\ At(r, "generateKey", "authed") \/ At(r, "resetKey", "authed")
    /\ IF (keyOf[req[r].account] = None) = (req[r].op = "generateKey")
       THEN req' = [req EXCEPT ![r].pc = "checked", ![r].key = keyOf[req[r].account]]
       ELSE Answer(r, "refused")
    /\ UNCHANGED <<password, sessions, keyOf, clock, restarts, changes, ended>>

\* Faulty variant: the row written since CheckKey is overwritten.
InsertKeyAnyway(r) ==
    /\ At(r, "generateKey", "checked")
    /\ keyOf' = [keyOf EXCEPT ![req[r].account] = r]
    /\ Answer(r, "ok")
    /\ UNCHANGED <<password, sessions, clock, restarts, changes, ended>>

\* InsertKey: the primary key account_id decides between two generations.
InsertKey(r) ==
    /\ At(r, "generateKey", "checked")
    /\ IF keyOf[req[r].account] = None
       THEN keyOf' = [keyOf EXCEPT ![req[r].account] = r] /\ Answer(r, "ok")
       ELSE Answer(r, "refused") /\ UNCHANGED keyOf
    /\ UNCHANGED <<password, sessions, clock, restarts, changes, ended>>

\* ResetKey, one transaction: whatever key is there now is ended.
ResetKey(r) ==
    /\ At(r, "resetKey", "checked")
    /\ keyOf' = [keyOf EXCEPT ![req[r].account] = r]
    /\ ended' = ended \cup ({keyOf[req[r].account]} \ {None})
    /\ Answer(r, "ok")
    /\ UNCHANGED <<password, sessions, clock, restarts, changes>>

\* revealKey: the answer shows the key of the row read.
RevealKey(r) ==
    /\ At(r, "revealKey", "authed")
    /\ IF keyOf[req[r].account] = None
       THEN Answer(r, "refused")
       ELSE req' = [req EXCEPT ![r] = Over([req[r] EXCEPT !.key = keyOf[req[r].account]], "ok")]
    /\ UNCHANGED <<password, sessions, keyOf, clock, restarts, changes, ended>>

\* me, keyStatus and the history handlers, which do not touch these tables.
Serve(r) ==
    /\ req[r].pc = "authed" /\ req[r].op \in {"me", "upload", "browse"}
    /\ Answer(r, "ok")
    /\ UNCHANGED <<password, sessions, keyOf, clock, restarts, changes, ended>>

----------------------------------------------------------------------------
(* Failures and time *)

\* A statement fails (lock timeout, disk, client gone): the transaction is
\* rolled back and the handler answers 500, the middleware 401.
Fail(r) ==
    /\ req[r].pc \in {"arrived", "tryKey", "authed", "checked"}
    /\ req[r].op # "logout" \/ req[r].pc # "authed"
    /\ Answer(r, IF req[r].pc \in {"authed", "checked"} \/ req[r].op \in PublicOps
                 THEN "failed" ELSE "refused")
    /\ UNCHANGED <<password, sessions, keyOf, clock, restarts, changes, ended>>

\* The server stops and starts again: requests under way are lost, expired
\* sessions are deleted, and a failure of that is only logged.
Restart ==
    /\ restarts < MaxRestarts /\ restarts' = restarts + 1
    /\ sessions' = {s \in sessions : ~Lapsed(s)} \/ UNCHANGED sessions
    /\ req' = [r \in Requests |->
                  IF req[r].pc \in {"idle", "answered"} THEN req[r]
                  ELSE Over(req[r], "failed")]
    /\ UNCHANGED <<password, keyOf, clock, changes, ended>>

Tick ==
    /\ \E t \in Instants : t > clock /\ clock' = t
    /\ ended' = ended \cup Tokens({s \in sessions : s.expires < clock'})
    /\ UNCHANGED <<password, sessions, keyOf, req, restarts, changes>>

----------------------------------------------------------------------------
Init ==
    /\ password = [a \in Accounts |-> None]
    /\ sessions = {}
    /\ keyOf = [a \in Accounts |-> None]
    /\ clock = 0
    /\ req = [r \in Requests |-> Unused]
    /\ restarts = 0
    /\ changes = [a \in Accounts |-> 0]
    /\ ended = {}

\* The guard of Arrive is repeated: TLC then enumerates no arrival that it forbids.
RequestStep(r) ==
    \/ /\ req[r].pc = "idle"
       /\ ArrivePublic(r) \/ ArriveSession(r) \/ ArriveKey(r) \/ ArriveAny(r)
    \/ BySession(r) \/ ByKey(r)
    \/ CreateAccount(r) \/ CheckLogin(r) \/ OpenSession(r) \/ Logout(r)
    \/ CheckPassword(r) \/ ChangePassword(r)
    \/ CheckKey(r) \/ InsertKey(r) \/ ResetKey(r) \/ RevealKey(r)
    \/ Serve(r) \/ Fail(r)

Next == (\E r \in Requests : RequestStep(r)) \/ Restart \/ Tick

Spec == Init /\ [][Next]_vars

----------------------------------------------------------------------------
(***************************************************************************)
(* Properties                                                              *)
(***************************************************************************)

\* A request whose credentials had all been ended before it arrived (deleted by a
\* logout or a change of password, replaced by a reset, past their time) is never
\* authenticated, whatever overlaps with it.  What was ended is recorded when it
\* happens and not looked up in the tables.  A logout whose delete fails ends
\* nothing: see LoggedOutIsGone.
RevokedIsRefused ==
    \A r \in Requests :
        req[r].dead => req[r].pc \notin {"authed", "checked"} /\ req[r].reply # "ok"

\* No session that existed when its account changed the password survives the
\* change: every live session was inserted after the last one.
NoSessionOutlivesChange == \A s \in sessions : s.since = changes[s.account]

\* Registration of an address, and first generation of a key, succeed for one
\* request only, however many overlap between the check and the insert.
OneWinner ==
    \A r, q \in Requests, op \in {"register", "generateKey"} :
        Answered(op, r) /\ Answered(op, q) /\ req[r].account = req[q].account => r = q

\* A key that was shown to its owner works until a reset replaces it.
ShownKeyWorks ==
    \A r \in Requests :
        /\ Answered("generateKey", r) \/ Answered("resetKey", r)
           => keyOf[req[r].account] = r \/ r \in ended
        /\ Answered("revealKey", r)
           => keyOf[req[r].account] = req[r].key \/ req[r].key \in ended

\* Seen from outside: the credentials given out and those that are good, what a
\* request presented that the middleware has still to look up, and the account
\* that it then acts for.
Issued == Cookies \cup Bearers

Held ==
    {[cred |-> s.token, owner |-> s.account, until |-> {s.expires}] : s \in sessions}
    \cup {[cred |-> keyOf[a], owner |-> a, until |-> {}] : a \in {b \in Accounts : keyOf[b] # None}}

PresentedBy(request) ==
    IF request.pc \in {"arrived", "tryKey"} THEN {request.token, request.key} \ {None} ELSE {}

ActingFor(request) ==
    IF request.op \notin PublicOps
       /\ (request.pc \in {"authed", "checked"} \/ request.reply = "ok")
    THEN request.account ELSE None

Presented == [r \in Requests |-> PresentedBy(req[r])]
Granted   == [r \in Requests |-> ActingFor(req[r])]

Guard == INSTANCE AccessControl
    WITH now <- clock, issued <- Issued, held <- Held,
         presented <- Presented, granted <- Granted

\* However its statements interleave, the server is such a guard: a request acts
\* for an account only on a credential of that account that is good at that
\* moment, and no request ends a credential of another account.
GuardsAccounts == Guard!ASpec

----------------------------------------------------------------------------
(* The strengthening under which the properties above are inductive. *)

\* A reply is there exactly when the request is over, the account is known from
\* the start or since authentication, and what is to be stored is there.
Phases ==
    \A r \in Requests :
        /\ req[r].reply = "none" <=> req[r].pc # "answered"
        /\ \/ req[r].pc \in {"authed", "checked"}
           \/ req[r].op \in PublicOps
           \/ req[r].reply = "ok"
           => req[r].account # None
        /\ req[r].pc # "answered" =>
              /\ req[r].op \in PublicOps => req[r].secret # None
              /\ req[r].op = "changePassword" => req[r].new # None
        /\ Answered("revealKey", r) => req[r].key # None

\* Only credentials that a client was given are presented or accepted.
Given ==
    /\ \A s \in sessions : s.token \in Cookies
    /\ \A a \in Accounts : keyOf[a] # None => keyOf[a] \in Bearers
    /\ \A r \in Requests :
          /\ req[r].token \in Cookies \cup {None}
          /\ req[r].op \in {"upload", "browse"} => req[r].key \in Bearers \cup {None}

\* A credential that was ended stays ended, and the tables do not have it in time.
DeadStays ==
    \A r \in Requests :
        req[r].dead /\ req[r].pc \in {"arrived", "tryKey"} =>
            Dead(req[r].op, req[r].token, req[r].key)

EndedIsGone ==
    /\ ended \subseteq Issued
    /\ \A s \in sessions : s.token \in ended => ~Fresh(s)
    /\ \A s, q \in sessions : s.token = q.token => s = q
    /\ \A a \in Accounts : keyOf[a] \notin ended

\* The row that made a request win is there, so nobody else can win.
Registering(r) == req[r].op = "register" /\ req[r].pc # "arrived"
Generated(r)   == Answered("generateKey", r)

Winners ==
    /\ \A r \in Requests :
          /\ Registering(r) => password[req[r].account] # None
          /\ Generated(r) => keyOf[req[r].account] # None
    /\ \A r, q \in Requests :
          (/\ req[r].account = req[q].account
           /\ \/ Registering(r) /\ Registering(q)
              \/ Generated(r) /\ Generated(q))
          => r = q

\* A credential stands for the account of the request that was given it, in the
\* tables and in the requests that were authenticated by it.
Owners ==
    /\ \A s \in sessions : s.account = req[s.token].account
    /\ \A a \in Accounts : keyOf[a] # None => req[keyOf[a]].account = a
    /\ \A r \in Requests :
          req[r].pc \in {"authed", "checked"} /\ req[r].op \in SessionOps =>
              req[r].token # None /\ req[req[r].token].account = req[r].account

AuthInv ==
    /\ TypeOK /\ Phases /\ Given /\ Owners /\ DeadStays /\ EndedIsGone /\ Winners
    /\ RevokedIsRefused /\ NoSessionOutlivesChange /\ ShownKeyWorks

----------------------------------------------------------------------------
(* What the repository says, and the code does not always keep. *)

\* handler/auth.go:120 says: after a change of password all Web sessions are
\* invalid at once, so no session opened with an older password is left.
SessionsKnowPassword == \A s \in sessions : s.opened = password[s.account]

\* handler/auth.go:109 says: logout revokes the current session, so once it was
\* answered 204 no session has the token that it presented.
LoggedOutIsGone ==
    \A r \in Requests : Answered("logout", r) => req[r].token \notin Tokens(sessions)
=============================================================================
