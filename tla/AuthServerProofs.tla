-------------------------- MODULE AuthServerProofs --------------------------
(***************************************************************************)
(* Theorems about AuthServer, for every value of its constants.            *)
(***************************************************************************)
EXTENDS AuthServer, TLAPS

\* A stored time is a natural number, and not later than the time it stands for.
LEMMA WholeBounds ==
    ASSUME NEW t \in Nat
    PROVE  Whole(t) \in Nat /\ Whole(t) <= t
<1>1. t % Second \in Nat /\ t % Second <= t
  BY TimeAssumption
<1> QED BY <1>1 DEF Whole

(* What the building blocks do to a request. *)

\* Answer ends one request and keeps what a success showed to the client.
LEMMA AnswerEffect ==
    ASSUME TypeOK, NEW r \in Requests, NEW reply \in {"ok", "refused", "failed"},
           Answer(r, reply)
    PROVE  /\ req' \in [Requests -> Request]
           /\ \A q \in Requests : q # r => req'[q] = req[q]
           /\ req'[r].pc = "answered" /\ req'[r].reply = reply
           /\ req'[r].dead = req[r].dead /\ req'[r].token \in {None, req[r].token}
           /\ reply = "ok" => /\ req'[r].op = req[r].op
                              /\ req'[r].account = req[r].account
                              /\ req'[r].key = req[r].key
           /\ reply # "ok" => req'[r].op = "none"
<1>1. req[r] \in Request
  BY DEF TypeOK
<1>2. req' = [req EXCEPT ![r] = Over(req[r], reply)]
  BY DEF Answer
<1>3. Over(req[r], reply) \in Request
  <2>1. CASE reply = "ok"
    BY <1>1, <2>1 DEF Over, Request
  <2>2. CASE reply # "ok"
    BY <1>1, <2>2 DEF Over, Request, Unused
  <2> QED BY <2>1, <2>2
<1>4. /\ req'[r] = Over(req[r], reply)
      /\ \A q \in Requests : q # r => req'[q] = req[q]
      /\ req' \in [Requests -> Request]
  BY <1>2, <1>3 DEF TypeOK
<1>5. CASE reply = "ok"
  BY <1>1, <1>4, <1>5 DEF Over, Request
<1>6. CASE reply # "ok"
  BY <1>1, <1>4, <1>6 DEF Over, Unused
<1> QED BY <1>4, <1>5, <1>6

\* Proceed moves one request to another pc.
LEMMA ProceedEffect ==
    ASSUME TypeOK, NEW r \in Requests,
           NEW pc \in {"tryKey", "authed", "checked"}, Proceed(r, pc)
    PROVE  /\ req' \in [Requests -> Request]
           /\ \A q \in Requests : q # r => req'[q] = req[q]
           /\ req'[r].pc = pc
           /\ req'[r].op = req[r].op /\ req'[r].account = req[r].account
           /\ req'[r].token = req[r].token /\ req'[r].key = req[r].key
           /\ req'[r].reply = req[r].reply /\ req'[r].dead = req[r].dead
           /\ req'[r].secret = req[r].secret /\ req'[r].new = req[r].new
<1>1. req[r] \in Request
  BY DEF TypeOK
<1> QED BY <1>1 DEF Proceed, TypeOK, Request

\* Resolving a credential sets the account of the request.
LEMMA AuthedEffect ==
    ASSUME TypeOK, NEW r \in Requests, NEW a \in Accounts,
           req' = [req EXCEPT ![r].pc = "authed", ![r].account = a]
    PROVE  /\ req' \in [Requests -> Request]
           /\ \A q \in Requests : q # r => req'[q] = req[q]
           /\ req'[r].pc = "authed" /\ req'[r].account = a
           /\ req'[r].op = req[r].op /\ req'[r].token = req[r].token
           /\ req'[r].key = req[r].key /\ req'[r].reply = req[r].reply
           /\ req'[r].dead = req[r].dead
           /\ req'[r].secret = req[r].secret /\ req'[r].new = req[r].new
<1>1. req[r] \in Request
  BY DEF TypeOK
<1> DEFINE next == [req[r] EXCEPT !.pc = "authed", !.account = a]
<1>2. req' = [req EXCEPT ![r] = next]
  BY DEF TypeOK
<1>3. /\ next \in Request
      /\ next.op = req[r].op /\ next.token = req[r].token /\ next.reply = req[r].reply
      /\ next.dead = req[r].dead /\ next.secret = req[r].secret /\ next.new = req[r].new
      /\ next.pc = "authed" /\ next.account = a /\ next.key = req[r].key
  BY <1>1 DEF Request
<1> HIDE DEF next
<1>4. /\ req' \in [Requests -> Request] /\ req'[r] = next
      /\ \A q \in Requests : q # r => req'[q] = req[q]
  BY <1>2, <1>3 DEF TypeOK
<1> QED BY <1>3, <1>4

\* CheckKey remembers the key that was read.
LEMMA CheckKeyEffect ==
    ASSUME TypeOK, NEW r \in Requests, NEW k \in Requests \cup {None},
           req' = [req EXCEPT ![r].pc = "checked", ![r].key = k]
    PROVE  /\ req' \in [Requests -> Request]
           /\ \A q \in Requests : q # r => req'[q] = req[q]
           /\ req'[r].pc = "checked" /\ req'[r].account = req[r].account
           /\ req'[r].op = req[r].op /\ req'[r].token = req[r].token
           /\ req'[r].key = k /\ req'[r].reply = req[r].reply
           /\ req'[r].dead = req[r].dead
           /\ req'[r].secret = req[r].secret /\ req'[r].new = req[r].new
<1>1. req[r] \in Request
  BY DEF TypeOK
<1> DEFINE next == [req[r] EXCEPT !.pc = "checked", !.key = k]
<1>2. req' = [req EXCEPT ![r] = next]
  BY DEF TypeOK
<1>3. /\ next \in Request
      /\ next.op = req[r].op /\ next.token = req[r].token /\ next.reply = req[r].reply
      /\ next.dead = req[r].dead /\ next.secret = req[r].secret /\ next.new = req[r].new
      /\ next.pc = "checked" /\ next.account = req[r].account /\ next.key = k
  BY <1>1 DEF Request
<1> HIDE DEF next
<1>4. /\ req' \in [Requests -> Request] /\ req'[r] = next
      /\ \A q \in Requests : q # r => req'[q] = req[q]
  BY <1>2, <1>3 DEF TypeOK
<1> QED BY <1>3, <1>4

\* The answer of revealKey shows the key that was read.
LEMMA RevealEffect ==
    ASSUME TypeOK, NEW r \in Requests, NEW k \in Requests,
           req' = [req EXCEPT ![r] = Over([req[r] EXCEPT !.key = k], "ok")]
    PROVE  /\ req' \in [Requests -> Request]
           /\ \A q \in Requests : q # r => req'[q] = req[q]
           /\ req'[r].pc = "answered" /\ req'[r].account = req[r].account
           /\ req'[r].op = req[r].op /\ req'[r].token \in {None, req[r].token}
           /\ req'[r].key = k /\ req'[r].reply = "ok"
           /\ req'[r].dead = req[r].dead
<1> DEFINE shown == [req[r] EXCEPT !.key = k]
<1>1. req[r] \in Request
  BY DEF TypeOK
<1>2. /\ shown \in Request /\ shown.key = k
      /\ shown.account = req[r].account /\ shown.op = req[r].op
      /\ shown.dead = req[r].dead /\ shown.token = req[r].token
  BY <1>1 DEF Request
<1>3. req' = [req EXCEPT ![r] = Over(shown, "ok")]
  OBVIOUS
<1> HIDE DEF shown
<1>4. /\ Over(shown, "ok") \in Request
      /\ Over(shown, "ok").pc = "answered" /\ Over(shown, "ok").account = shown.account
      /\ Over(shown, "ok").op = shown.op /\ Over(shown, "ok").token \in {None, shown.token}
      /\ Over(shown, "ok").key = shown.key /\ Over(shown, "ok").reply = "ok"
      /\ Over(shown, "ok").dead = shown.dead
  BY <1>2 DEF Over, Request
<1>5. /\ req'[r] = Over(shown, "ok")
      /\ \A q \in Requests : q # r => req'[q] = req[q]
      /\ req' \in [Requests -> Request]
  BY <1>3, <1>4 DEF TypeOK
<1> QED BY <1>2, <1>4, <1>5

\* Every arrival presents well-typed inputs, credentials that were given out, and
\* what the operation needs.
LEMMA ArrivalShape ==
    ASSUME NEW r \in Requests,
           ArrivePublic(r) \/ ArriveSession(r) \/ ArriveKey(r) \/ ArriveAny(r)
    PROVE  \E op \in Ops, a \in Accounts \cup {None}, p, n \in Passwords \cup {None},
              t \in Cookies \cup {None}, k \in Bearers \cup {None} :
               /\ Arrive(r, op, a, p, n, t, k)
               /\ op \in PublicOps => a # None /\ p # None
               /\ op = "changePassword" => n # None
<1>1. CASE ArrivePublic(r)
  <2>1. PICK op \in PublicOps, a \in Accounts, p \in Passwords :
           Arrive(r, op, a, p, None, None, None)
    BY <1>1 DEF ArrivePublic
  <2>2. op \in Ops /\ op # "changePassword" /\ a # None /\ p # None
    BY NoneAssumption DEF Ops, PublicOps
  <2> QED BY <2>1, <2>2
<1>2. CASE ArriveSession(r)
  <2>1. PICK t \in Cookies :
           \/ \E op \in SessionOps \ {"changePassword"} : Arrive(r, op, None, None, None, t, None)
           \/ \E p, n \in Passwords : Arrive(r, "changePassword", None, p, n, t, None)
    BY <1>2 DEF ArriveSession
  <2>2. CASE \E op \in SessionOps \ {"changePassword"} : Arrive(r, op, None, None, None, t, None)
    <3>1. PICK op \in SessionOps \ {"changePassword"} : Arrive(r, op, None, None, None, t, None)
      BY <2>2
    <3>2. op \in Ops /\ op \notin PublicOps /\ op # "changePassword"
      BY DEF Ops, PublicOps, SessionOps
    <3> QED BY <2>1, <3>1, <3>2
  <2>3. CASE \E p, n \in Passwords : Arrive(r, "changePassword", None, p, n, t, None)
    <3>1. PICK p \in Passwords, n \in Passwords : Arrive(r, "changePassword", None, p, n, t, None)
      BY <2>3
    <3>2. "changePassword" \in Ops /\ "changePassword" \notin PublicOps /\ n # None
      BY NoneAssumption DEF Ops, PublicOps, SessionOps
    <3> QED BY <2>1, <3>1, <3>2
  <2> QED BY <2>1, <2>2, <2>3
<1>3. CASE ArriveKey(r)
  <2>1. PICK k \in Bearers : Arrive(r, "upload", None, None, None, None, k)
    BY <1>3 DEF ArriveKey
  <2>2. "upload" \in Ops /\ "upload" \notin PublicOps
    BY DEF Ops, PublicOps
  <2> QED BY <2>1, <2>2
<1>4. CASE ArriveAny(r)
  <2>1. PICK t \in Cookies \cup {None}, k \in Bearers \cup {None} :
           Arrive(r, "browse", None, None, None, t, k)
    BY <1>4 DEF ArriveAny
  <2>2. "browse" \in Ops /\ "browse" \notin PublicOps
    BY DEF Ops, PublicOps
  <2> QED BY <2>1, <2>2
<1> QED BY <1>1, <1>2, <1>3, <1>4

\* An arrived request is a record with what its client sent and nothing else.
LEMMA ArrivalEffect ==
    ASSUME TypeOK, NEW r \in Requests,
           ArrivePublic(r) \/ ArriveSession(r) \/ ArriveKey(r) \/ ArriveAny(r)
    PROVE  /\ req[r].pc = "idle"
           /\ req' \in [Requests -> Request]
           /\ \A q \in Requests : q # r => req'[q] = req[q]
           /\ req'[r].pc = "arrived" /\ req'[r].reply = "none" /\ req'[r].op \in Ops
           /\ req'[r].token \in Cookies \cup {None}
           /\ req'[r].key \in Bearers \cup {None}
           /\ req'[r].op \in PublicOps => req'[r].account # None /\ req'[r].secret # None
           /\ req'[r].op = "changePassword" => req'[r].new # None
           /\ req'[r].dead => Dead(req'[r].op, req'[r].token, req'[r].key)
           /\ UNCHANGED <<password, sessions, keyOf, clock, restarts, changes, ended>>
<1>1. PICK op \in Ops, a \in Accounts \cup {None},
           p \in Passwords \cup {None}, n \in Passwords \cup {None},
           t \in Cookies \cup {None}, k \in Bearers \cup {None} :
             /\ Arrive(r, op, a, p, n, t, k)
             /\ op \in PublicOps => a # None /\ p # None
             /\ op = "changePassword" => n # None
  BY ArrivalShape
<1> DEFINE sent == [op |-> op, pc |-> "arrived", account |-> a, secret |-> p, new |-> n,
                    token |-> t, key |-> k, reply |-> "none", dead |-> Dead(op, t, k)]
<1>2. Dead(op, t, k) \in BOOLEAN
  BY DEF Dead
<1>3. t \in Requests \cup {None} /\ k \in Requests \cup {None}
  BY DEF Cookies, Bearers
<1>4. sent \in Request
  BY <1>2, <1>3, Zenon DEF Request
<1>5. /\ sent.pc = "arrived" /\ sent.reply = "none" /\ sent.op = op /\ sent.op \in Ops
      /\ sent.token = t /\ sent.token \in Cookies \cup {None}
      /\ sent.key = k /\ sent.key \in Bearers \cup {None}
      /\ sent.op \in PublicOps => sent.account # None /\ sent.secret # None
      /\ sent.op = "changePassword" => sent.new # None
  BY <1>1
<1>6. sent.dead => Dead(sent.op, sent.token, sent.key)
  <2>1. sent.dead = Dead(op, t, k)
    OBVIOUS
  <2> QED BY <1>5, <2>1, Zenon
<1>7. /\ req[r].pc = "idle" /\ req' = [req EXCEPT ![r] = sent]
      /\ UNCHANGED <<password, sessions, keyOf, clock, restarts, changes, ended>>
  BY <1>1 DEF Arrive
<1> HIDE DEF sent
<1>8. req'[r] = sent /\ req' \in [Requests -> Request]
      /\ \A q \in Requests : q # r => req'[q] = req[q]
  BY <1>4, <1>7 DEF TypeOK
<1> QED BY <1>5, <1>6, <1>7, <1>8

----------------------------------------------------------------------------
(* The shapes a step of a request can have, one per building block. *)

\* Every step of a request is an arrival, an authentication, a check that lets it
\* go on, or its answer; the rest of the proofs splits on these.
LEMMA StepShape ==
    ASSUME TypeOK, Phases, NEW r \in Requests, RequestStep(r)
    PROVE  \/ ArrivePublic(r) \/ ArriveSession(r) \/ ArriveKey(r) \/ ArriveAny(r)
           \/ /\ req[r].pc \in {"arrived", "tryKey"}
              /\ \E a \in Accounts :
                    req' = [req EXCEPT ![r].pc = "authed", ![r].account = a]
           \/ /\ req[r].pc \notin {"idle", "answered"}
              /\ \E pc \in {"tryKey", "checked"} :
                    /\ Proceed(r, pc)
                    /\ pc = "checked" => req[r].pc = "authed" \/ req[r].op \in PublicOps
           \/ /\ req[r].pc = "authed"
              /\ \E k \in Requests \cup {None} :
                    req' = [req EXCEPT ![r].pc = "checked", ![r].key = k]
           \/ /\ req[r].pc \notin {"idle", "answered"}
              /\ \E reply \in {"ok", "refused", "failed"} :
                    /\ Answer(r, reply)
                    /\ reply = "ok" => /\ req[r].pc \in {"authed", "checked"}
                                       /\ req[r].op # "revealKey"
           \/ /\ req[r].pc = "authed"
              /\ keyOf[req[r].account] # None
              /\ req' = [req EXCEPT ![r] =
                            Over([req[r] EXCEPT !.key = keyOf[req[r].account]], "ok")]
<1>0. req[r] \in Request
  BY DEF TypeOK
<1>1. CASE BySession(r)
  BY <1>1 DEF BySession
<1>2. CASE ByKey(r)
  BY <1>2 DEF ByKey, At
<1>3. CASE CreateAccount(r)
  BY <1>3 DEF CreateAccount, At, PublicOps
<1>4. CASE CheckLogin(r)
  BY <1>4 DEF CheckLogin, At, PublicOps
<1>5. CASE OpenSession(r)
  BY <1>5 DEF OpenSession, At
<1>6. CASE Logout(r)
  BY <1>6 DEF Logout, At
<1>7. CASE CheckPassword(r)
  BY <1>7 DEF CheckPassword, At
<1>8. CASE ChangePassword(r)
  BY <1>8 DEF ChangePassword, At
<1>9. CASE CheckKey(r)
  <2>1. req[r].pc = "authed" /\ req[r].account \in Accounts
    BY <1>0, <1>9 DEF CheckKey, At, Phases, Request
  <2>2. keyOf[req[r].account] \in Requests \cup {None}
    BY <2>1 DEF TypeOK
  <2> QED BY <1>9, <2>1, <2>2 DEF CheckKey
<1>10. CASE InsertKey(r)
  BY <1>10 DEF InsertKey, At
<1>11. CASE ResetKey(r)
  BY <1>11 DEF ResetKey, At
<1>12. CASE RevealKey(r)
  BY <1>12 DEF RevealKey, At
<1>13. CASE Serve(r)
  BY <1>13 DEF Serve
<1>14. CASE Fail(r)
  BY <1>14 DEF Fail
<1> QED
  BY <1>1, <1>2, <1>3, <1>4, <1>5, <1>6, <1>7, <1>8, <1>9, <1>10, <1>11,
     <1>12, <1>13, <1>14 DEF RequestStep

\* A step of one request leaves the others alone, never reopens an answered one,
\* and keeps replies and phases consistent.
LEMMA StepFrame ==
    ASSUME TypeOK, Phases, NEW r \in Requests, RequestStep(r)
    PROVE  /\ req' \in [Requests -> Request]
           /\ \A q \in Requests : q # r => req'[q] = req[q]
           /\ req[r].pc # "answered"
           /\ req'[r].token \in Cookies \cup {None}
              \/ (req'[r].token = req[r].token /\ req[r].pc # "idle")
           /\ Phases'
<1>0. req[r] \in Request
  BY DEF TypeOK
<1>1. req[r].pc \in {"authed", "checked"} => req[r].account # None
  BY DEF Phases
<1> DEFINE Frame == /\ req' \in [Requests -> Request]
                    /\ \A q \in Requests : q # r => req'[q] = req[q]
                    /\ req[r].pc # "answered"
                    /\ req'[r].token \in Cookies \cup {None}
                       \/ (req'[r].token = req[r].token /\ req[r].pc # "idle")
           PhasesOf == /\ req'[r].reply = "none" <=> req'[r].pc # "answered"
                       /\ \/ req'[r].pc \in {"authed", "checked"}
                          \/ req'[r].op \in PublicOps
                          \/ req'[r].reply = "ok"
                          => req'[r].account # None
                       /\ req'[r].pc # "answered" =>
                             /\ req'[r].op \in PublicOps => req'[r].secret # None
                             /\ req'[r].op = "changePassword" => req'[r].new # None
                       /\ req'[r].op = "revealKey" /\ req'[r].reply = "ok" => req'[r].key # None
<1>2. SUFFICES Frame /\ PhasesOf
  BY DEF Phases, Answered
<1>3. CASE ArrivePublic(r) \/ ArriveSession(r) \/ ArriveKey(r) \/ ArriveAny(r)
  BY <1>3, ArrivalEffect
<1>4. CASE /\ req[r].pc \in {"arrived", "tryKey"}
           /\ \E a \in Accounts :
                 req' = [req EXCEPT ![r].pc = "authed", ![r].account = a]
  <2>1. PICK a \in Accounts : req' = [req EXCEPT ![r].pc = "authed", ![r].account = a]
    BY <1>4
  <2>2. a # None
    BY NoneAssumption
  <2>3. req[r].reply = "none"
    BY <1>4 DEF Phases
  <2>4. /\ req' \in [Requests -> Request]
        /\ \A q \in Requests : q # r => req'[q] = req[q]
        /\ req'[r].pc = "authed" /\ req'[r].account = a
        /\ req'[r].op = req[r].op /\ req'[r].token = req[r].token
        /\ req'[r].reply = req[r].reply
        /\ req'[r].secret = req[r].secret /\ req'[r].new = req[r].new
    BY <2>1, AuthedEffect
  <2>5. /\ req[r].op \in PublicOps => req[r].secret # None
        /\ req[r].op = "changePassword" => req[r].new # None
    BY <1>4 DEF Phases
  <2> QED BY <1>4, <2>2, <2>3, <2>4, <2>5
<1>5. CASE /\ req[r].pc \notin {"idle", "answered"}
           /\ \E pc \in {"tryKey", "checked"} :
                 /\ Proceed(r, pc)
                 /\ pc = "checked" => req[r].pc = "authed" \/ req[r].op \in PublicOps
  <2>1. PICK pc \in {"tryKey", "checked"} :
           /\ Proceed(r, pc)
           /\ pc = "checked" => req[r].pc = "authed" \/ req[r].op \in PublicOps
    BY <1>5
  <2>2. /\ req' \in [Requests -> Request]
        /\ \A q \in Requests : q # r => req'[q] = req[q]
        /\ req'[r].pc = pc
        /\ req'[r].op = req[r].op /\ req'[r].account = req[r].account
        /\ req'[r].token = req[r].token /\ req'[r].reply = req[r].reply
        /\ req'[r].secret = req[r].secret /\ req'[r].new = req[r].new
    BY <2>1, ProceedEffect
  <2>3. /\ req[r].reply = "none"
        /\ req[r].op \in PublicOps => req[r].secret # None /\ req[r].account # None
        /\ req[r].op = "changePassword" => req[r].new # None
    BY <1>5 DEF Phases
  <2> QED BY <1>1, <1>5, <2>1, <2>2, <2>3
<1>6. CASE /\ req[r].pc = "authed"
           /\ \E k \in Requests \cup {None} :
                 req' = [req EXCEPT ![r].pc = "checked", ![r].key = k]
  <2>1. PICK k \in Requests \cup {None} :
           req' = [req EXCEPT ![r].pc = "checked", ![r].key = k]
    BY <1>6
  <2>2. /\ req' \in [Requests -> Request]
        /\ \A q \in Requests : q # r => req'[q] = req[q]
        /\ req'[r].pc = "checked" /\ req'[r].account = req[r].account
        /\ req'[r].op = req[r].op /\ req'[r].token = req[r].token
        /\ req'[r].reply = req[r].reply
        /\ req'[r].secret = req[r].secret /\ req'[r].new = req[r].new
    BY <2>1, CheckKeyEffect
  <2>3. /\ req[r].reply = "none"
        /\ req[r].op \in PublicOps => req[r].secret # None
        /\ req[r].op = "changePassword" => req[r].new # None
    BY <1>6 DEF Phases
  <2> QED BY <1>1, <1>6, <2>2, <2>3
<1>7. CASE /\ req[r].pc \notin {"idle", "answered"}
           /\ \E reply \in {"ok", "refused", "failed"} :
                 /\ Answer(r, reply)
                 /\ reply = "ok" => /\ req[r].pc \in {"authed", "checked"}
                                    /\ req[r].op # "revealKey"
  <2>1. PICK reply \in {"ok", "refused", "failed"} :
           /\ Answer(r, reply)
           /\ reply = "ok" => /\ req[r].pc \in {"authed", "checked"}
                              /\ req[r].op # "revealKey"
    BY <1>7
  <2>2. CASE reply = "ok"
    BY <1>1, <1>7, <2>1, <2>2, AnswerEffect
  <2>3. CASE reply # "ok"
    BY <1>7, <2>1, <2>3, AnswerEffect DEF PublicOps
  <2> QED BY <2>2, <2>3
<1>8. CASE /\ req[r].pc = "authed"
           /\ keyOf[req[r].account] # None
           /\ req' = [req EXCEPT ![r] =
                         Over([req[r] EXCEPT !.key = keyOf[req[r].account]], "ok")]
  <2>1. req[r].account \in Accounts
    BY <1>0, <1>1, <1>8 DEF Request
  <2>2. keyOf[req[r].account] \in Requests
    BY <1>8, <2>1 DEF TypeOK
  <2>3. /\ req' \in [Requests -> Request]
        /\ \A q \in Requests : q # r => req'[q] = req[q]
        /\ req'[r].pc = "answered" /\ req'[r].reply = "ok"
        /\ req'[r].account = req[r].account /\ req'[r].token \in {None, req[r].token}
        /\ req'[r].key = keyOf[req[r].account]
    BY <1>8, <2>2, RevealEffect
  <2> QED BY <1>1, <1>8, <2>2, <2>3, NoneAssumption
<1> QED BY <1>3, <1>4, <1>5, <1>6, <1>7, <1>8, StepShape

\* A restart fails the requests under way.
LEMMA RestartEffect ==
    ASSUME TypeOK, Restart
    PROVE  /\ req' \in [Requests -> Request]
           /\ \A q \in Requests :
                 \/ req[q].pc \in {"idle", "answered"} /\ req'[q] = req[q]
                 \/ /\ req[q].pc \notin {"idle", "answered"}
                    /\ req'[q].pc = "answered" /\ req'[q].reply = "failed"
                    /\ req'[q].op = "none" /\ req'[q].token = None
                    /\ req'[q].dead = req[q].dead
<1>1. \A q \in Requests : req[q] \in Request
  BY DEF TypeOK
<1>2. \A q \in Requests :
         /\ Over(req[q], "failed") \in Request
         /\ Over(req[q], "failed").pc = "answered"
         /\ Over(req[q], "failed").reply = "failed"
         /\ Over(req[q], "failed").op = "none"
         /\ Over(req[q], "failed").token = None
         /\ Over(req[q], "failed").dead = req[q].dead
  BY <1>1 DEF Over, Unused, Request
<1>3. req' = [q \in Requests |-> IF req[q].pc \in {"idle", "answered"} THEN req[q]
                                ELSE Over(req[q], "failed")]
  BY DEF Restart
<1> QED BY <1>1, <1>2, <1>3

----------------------------------------------------------------------------
(* Types and phases *)

\* The tables keep their types through every step of a request.
LEMMA RequestTypes ==
    ASSUME TypeOK, Phases, NEW r \in Requests, RequestStep(r)
    PROVE  TypeOK'
<1> DEFINE Tables == /\ password' \in [Accounts -> Passwords \cup {None}]
                     /\ sessions' \subseteq Session
                     /\ keyOf' \in [Accounts -> Requests \cup {None}]
                     /\ clock' \in Nat /\ restarts' \in Nat
                     /\ changes' \in [Accounts -> Nat] /\ ended' \subseteq Requests
<1>0. req[r] \in Request
  BY DEF TypeOK
<1>1. SUFFICES Tables
  BY StepFrame DEF TypeOK
<1>2. CASE UNCHANGED <<password, sessions, keyOf, clock, restarts, changes, ended>>
  BY <1>2 DEF TypeOK
<1>3. CASE CreateAccount(r)
  BY <1>0, <1>3 DEF CreateAccount, TypeOK, Request
<1>4. CASE OpenSession(r)
  <2>1. req[r].account \in Accounts /\ req[r].secret \in Passwords
    BY <1>0, <1>4 DEF OpenSession, At, Phases, PublicOps, Request
  <2>2. Whole(clock + Duration) \in Nat /\ changes[req[r].account] \in Nat
    BY <2>1, TimeAssumption, WholeBounds DEF TypeOK
  <2>3. [token |-> r, account |-> req[r].account, expires |-> Whole(clock + Duration),
         opened |-> req[r].secret, since |-> changes[req[r].account]] \in Session
    BY <2>1, <2>2 DEF Session
  <2> QED BY <1>4, <2>3 DEF OpenSession, TypeOK
<1>5. CASE Logout(r)
  <2>1. Tokens({s \in sessions : s.token = req[r].token}) \subseteq Requests
    BY DEF Tokens, TypeOK, Session
  <2> QED BY <1>5, <2>1 DEF Logout, TypeOK
<1>6. CASE ChangePassword(r)
  <2>1. req[r].new \in Passwords /\ req[r].account \in Accounts
    BY <1>0, <1>6 DEF ChangePassword, At, Phases, Request
  <2>2. changes' \in [Accounts -> Nat]
    <3>1. changes' = [changes EXCEPT ![req[r].account] = changes[req[r].account] + 1]
      BY <1>6 DEF ChangePassword
    <3> QED BY <2>1, <3>1 DEF TypeOK
  <2>3. Tokens({s \in sessions : s.account = req[r].account}) \subseteq Requests
    BY DEF Tokens, TypeOK, Session
  <2> QED BY <1>6, <2>1, <2>2, <2>3 DEF ChangePassword, TypeOK
<1>7. CASE InsertKey(r)
  BY <1>7 DEF InsertKey, TypeOK
<1>8. CASE ResetKey(r)
  <2>1. req[r].account \in Accounts
    BY <1>0, <1>8 DEF ResetKey, At, Phases, Request
  <2> QED BY <1>8, <2>1 DEF ResetKey, TypeOK
<1>9. CASE ArrivePublic(r) \/ ArriveSession(r) \/ ArriveKey(r) \/ ArriveAny(r)
  BY <1>2, <1>9, ArrivalEffect
<1>10. CASE \/ BySession(r) \/ ByKey(r) \/ CheckLogin(r) \/ CheckPassword(r)
            \/ CheckKey(r) \/ RevealKey(r) \/ Serve(r) \/ Fail(r)
  BY <1>2, <1>10 DEF BySession, ByKey, CheckLogin, CheckPassword, CheckKey, RevealKey,
     Serve, Fail
<1> QED
  BY <1>3, <1>4, <1>5, <1>6, <1>7, <1>8, <1>9, <1>10 DEF RequestStep

\* TypeOK and Phases are inductive together: what is stored is never missing.
LEMMA TypeStep ==
    ASSUME TypeOK, Phases, [Next]_vars
    PROVE  TypeOK' /\ Phases'
<1>1. CASE \E r \in Requests : RequestStep(r)
  BY <1>1, RequestTypes, StepFrame
<1>2. CASE Restart
  <2>1. TypeOK'
    <3>1. sessions' \subseteq sessions /\ restarts' \in Nat
      BY <1>2 DEF Restart, TypeOK
    <3>2. UNCHANGED <<password, keyOf, clock, changes, ended>>
      BY <1>2 DEF Restart
    <3> QED BY <1>2, <3>1, <3>2, RestartEffect DEF TypeOK
  <2>2. Phases'
    <3> SUFFICES ASSUME NEW q \in Requests
                 PROVE  /\ req'[q].reply = "none" <=> req'[q].pc # "answered"
                        /\ \/ req'[q].pc \in {"authed", "checked"}
                           \/ req'[q].op \in PublicOps
                           \/ req'[q].reply = "ok"
                           => req'[q].account # None
                        /\ req'[q].pc # "answered" =>
                              /\ req'[q].op \in PublicOps => req'[q].secret # None
                              /\ req'[q].op = "changePassword" => req'[q].new # None
                        /\ req'[q].op = "revealKey" /\ req'[q].reply = "ok" => req'[q].key # None
      BY DEF Phases, Answered
    <3>1. CASE req'[q] = req[q]
      BY <3>1 DEF Phases, Answered
    <3>2. CASE req'[q].pc = "answered" /\ req'[q].reply = "failed" /\ req'[q].op = "none"
      BY <3>2 DEF PublicOps
    <3> QED BY <1>2, <3>1, <3>2, RestartEffect
  <2> QED BY <2>1, <2>2
<1>3. CASE Tick
  <2>1. Tokens({s \in sessions : s.expires < clock'}) \subseteq Requests /\ clock' \in Nat
    BY <1>3, TimeAssumption DEF Tick, Tokens, TypeOK, Session
  <2> QED BY <1>3, <2>1 DEF Tick, TypeOK, Phases, Answered
<1>4. CASE UNCHANGED vars
  BY <1>4 DEF vars, TypeOK, Phases, Answered
<1> QED BY <1>1, <1>2, <1>3, <1>4 DEF Next

LEMMA TypeInit == Init => TypeOK /\ Phases
BY DEF Init, TypeOK, Phases, Unused, Request, Session, Answered, PublicOps

\* Every table and every request keeps its type: no session, key or password
\* is stored that is not one.
THEOREM TypeCorrect == Spec => []TypeOK
<1>1. TypeOK /\ Phases /\ [Next]_vars => (TypeOK /\ Phases)'
  BY TypeStep
<1> QED BY <1>1, TypeInit, PTL DEF Spec

----------------------------------------------------------------------------
(* Changes of password *)

\* Only OpenSession adds a session, and the one it adds is up to date; a change
\* of password deletes every session of its account.
LEMMA OutliveStep ==
    ASSUME TypeOK, Phases, NoSessionOutlivesChange, [Next]_vars
    PROVE  NoSessionOutlivesChange'
<1>1. CASE UNCHANGED changes /\ sessions' \subseteq sessions
  BY <1>1 DEF NoSessionOutlivesChange
<1>2. ASSUME NEW r \in Requests, OpenSession(r)
      PROVE  NoSessionOutlivesChange'
  <2> DEFINE row == [token |-> r, account |-> req[r].account, expires |-> Whole(clock + Duration),
                     opened |-> req[r].secret, since |-> changes[req[r].account]]
  <2>1. UNCHANGED changes /\ sessions' = sessions \cup {row}
    BY <1>2 DEF OpenSession
  <2>2. row.since = changes[row.account]
    OBVIOUS
  <2> QED BY <2>1, <2>2 DEF NoSessionOutlivesChange
<1>3. ASSUME NEW r \in Requests, ChangePassword(r)
      PROVE  NoSessionOutlivesChange'
  <2>1. /\ sessions' = {s \in sessions : s.account # req[r].account}
        /\ \A a \in Accounts : a # req[r].account => changes'[a] = changes[a]
    BY <1>3 DEF ChangePassword, TypeOK
  <2>2. \A s \in sessions : s.account \in Accounts
    BY DEF TypeOK, Session
  <2> QED BY <2>1, <2>2 DEF NoSessionOutlivesChange
<1>4. ASSUME NEW r \in Requests, RequestStep(r), ~OpenSession(r), ~ChangePassword(r)
      PROVE  UNCHANGED changes /\ sessions' \subseteq sessions
  <2>1. CASE ArrivePublic(r) \/ ArriveSession(r) \/ ArriveKey(r) \/ ArriveAny(r)
    BY <2>1, ArrivalEffect
  <2>2. CASE Logout(r)
    BY <2>2 DEF Logout
  <2>3. CASE \/ BySession(r) \/ ByKey(r) \/ CreateAccount(r) \/ CheckLogin(r)
             \/ CheckPassword(r) \/ CheckKey(r) \/ InsertKey(r) \/ ResetKey(r)
             \/ RevealKey(r) \/ Serve(r) \/ Fail(r)
    BY <2>3 DEF BySession, ByKey, CreateAccount, CheckLogin, CheckPassword, CheckKey,
       InsertKey, ResetKey, RevealKey, Serve, Fail
  <2> QED BY <1>4, <2>1, <2>2, <2>3 DEF RequestStep
<1>5. CASE Restart \/ Tick \/ UNCHANGED vars
  BY <1>1, <1>5 DEF Restart, Tick, vars
<1> QED BY <1>1, <1>2, <1>3, <1>4, <1>5 DEF Next

\* No session that existed when its account changed the password survives the
\* change, whatever requests and restarts overlap with it.
THEOREM ChangeRevokes == Spec => []NoSessionOutlivesChange
<1>1. Init => NoSessionOutlivesChange
  BY DEF Init, NoSessionOutlivesChange
<1>2. TypeOK /\ Phases /\ NoSessionOutlivesChange /\ [Next]_vars
      => (TypeOK /\ Phases /\ NoSessionOutlivesChange)'
  BY TypeStep, OutliveStep
<1> QED BY <1>1, <1>2, TypeInit, PTL DEF Spec

----------------------------------------------------------------------------
(* One winner *)

\* A step of r makes only r a winner, and only over a row that was not there.
LEMMA RequestWinners ==
    ASSUME TypeOK, Phases, Winners, NEW r \in Requests, RequestStep(r)
    PROVE  Winners'
<1>0. /\ req[r] \in Request
      /\ req[r].pc \in {"authed", "checked"} => req[r].account \in Accounts
      /\ req[r].op \in PublicOps => req[r].account \in Accounts
  BY DEF TypeOK, Phases, Request
<1>1. /\ \A q \in Requests : q # r => req'[q] = req[q]
      /\ req[r].pc # "answered" /\ req[r].reply # "ok"
  BY StepFrame DEF Phases
<1> DEFINE Rows == /\ \A a \in Accounts : password[a] # None => password'[a] # None
                   /\ \A a \in Accounts : keyOf[a] # None => keyOf'[a] # None
           SameWin == /\ Registering(r)' => Registering(r) /\ req'[r].account = req[r].account
                      /\ ~Generated(r)'
           NewAccount == /\ ~Generated(r)'
                         /\ req'[r].account = req[r].account /\ req[r].account \in Accounts
                         /\ password[req[r].account] = None
                         /\ password'[req[r].account] # None
           NewKey == /\ ~Registering(r)'
                     /\ req'[r].account = req[r].account /\ req[r].account \in Accounts
                     /\ keyOf[req[r].account] = None
                     /\ keyOf'[req[r].account] # None
<1>2. \A q \in Requests :
         /\ Registering(q) => req[q].account \in Accounts
         /\ Generated(q) => req[q].account \in Accounts
  BY DEF Registering, Generated, Answered, Phases, TypeOK, Request, PublicOps
<1>3. ASSUME Rows, SameWin \/ NewAccount \/ NewKey
      PROVE  Winners'
  <2>1. \A q \in Requests : q # r => /\ Registering(q)' <=> Registering(q)
                                     /\ Generated(q)' <=> Generated(q)
    BY <1>1 DEF Registering, Generated, Answered
  <2>2. ~Generated(r)
    BY <1>1 DEF Generated, Answered
  <2>3. CASE SameWin
    BY <1>1, <1>2, <1>3, <2>1, <2>3 DEF Winners
  <2>4. CASE NewAccount
    BY <1>1, <1>2, <1>3, <2>1, <2>4 DEF Winners
  <2>5. CASE NewKey
    BY <1>1, <1>2, <1>3, <2>1, <2>5 DEF Winners
  <2> QED BY <1>3, <2>3, <2>4, <2>5
<1>4. CASE CreateAccount(r)
  <2>1. req[r].op = "register" /\ req[r].pc = "arrived" /\ req[r].account \in Accounts
    BY <1>0, <1>4 DEF CreateAccount, At, PublicOps
  <2>2. req[r].secret # None
    BY <2>1 DEF Phases, PublicOps
  <2>3. CASE password[req[r].account] = None
    <3>1. password' = [password EXCEPT ![req[r].account] = req[r].secret] /\ UNCHANGED keyOf
      BY <1>4, <2>3 DEF CreateAccount
    <3>2. req'[r].account = req[r].account /\ req'[r].reply = req[r].reply
      BY <1>4, <2>3, ProceedEffect DEF CreateAccount
    <3>3. Rows
      BY <2>1, <2>2, <3>1 DEF TypeOK
    <3>4. NewAccount
      BY <1>1, <2>1, <2>2, <2>3, <3>1, <3>2 DEF TypeOK, Generated, Answered
    <3> QED BY <1>3, <3>3, <3>4
  <2>4. CASE password[req[r].account] # None
    <3>1. UNCHANGED <<password, keyOf>> /\ Answer(r, "refused")
      BY <1>4, <2>4 DEF CreateAccount
    <3>2. SameWin
      BY <3>1, AnswerEffect DEF Registering, Generated, Answered
    <3> QED BY <1>3, <3>1, <3>2
  <2> QED BY <2>3, <2>4
<1>5. CASE InsertKey(r)
  <2>1. req[r].op = "generateKey" /\ req[r].pc = "checked" /\ req[r].account \in Accounts
    BY <1>0, <1>5 DEF InsertKey, At
  <2>2. CASE keyOf[req[r].account] = None
    <3>1. keyOf' = [keyOf EXCEPT ![req[r].account] = r] /\ UNCHANGED password
          /\ Answer(r, "ok")
      BY <1>5, <2>2 DEF InsertKey
    <3>2. req'[r].account = req[r].account /\ req'[r].op = "generateKey"
      BY <2>1, <3>1, AnswerEffect
    <3>3. Rows
      BY <2>1, <3>1, NoneAssumption DEF TypeOK
    <3>4. NewKey
      BY <2>1, <2>2, <3>1, <3>2, NoneAssumption DEF TypeOK, Registering
    <3> QED BY <1>3, <3>3, <3>4
  <2>3. CASE keyOf[req[r].account] # None
    <3>1. UNCHANGED <<password, keyOf>> /\ Answer(r, "refused")
      BY <1>5, <2>3 DEF InsertKey
    <3>2. SameWin
      BY <3>1, AnswerEffect DEF Registering, Generated, Answered
    <3> QED BY <1>3, <3>1, <3>2
  <2> QED BY <2>2, <2>3
<1>6. CASE ChangePassword(r)
  <2>1. req[r].new # None /\ req[r].op = "changePassword"
    BY <1>6 DEF ChangePassword, At, Phases
  <2>2. Rows
    BY <1>6, <2>1 DEF ChangePassword, TypeOK
  <2>3. SameWin
    BY <1>6, <2>1, AnswerEffect DEF ChangePassword, Registering, Generated, Answered
  <2> QED BY <1>3, <2>2, <2>3
<1>7. CASE ResetKey(r)
  <2>1. Rows
    BY <1>7, NoneAssumption DEF ResetKey, TypeOK
  <2>2. SameWin
    BY <1>7, AnswerEffect DEF ResetKey, At, Registering, Generated, Answered
  <2> QED BY <1>3, <2>1, <2>2
<1>8. CASE ArrivePublic(r) \/ ArriveSession(r) \/ ArriveKey(r) \/ ArriveAny(r)
  <2>1. SameWin
    BY <1>8, ArrivalEffect DEF Registering, Generated, Answered
  <2>2. UNCHANGED <<password, keyOf>>
    BY <1>8, ArrivalEffect
  <2> QED BY <1>3, <2>1, <2>2
<1>9. CASE \/ BySession(r) \/ ByKey(r) \/ CheckLogin(r) \/ OpenSession(r) \/ Logout(r)
           \/ CheckPassword(r) \/ CheckKey(r) \/ RevealKey(r) \/ Serve(r) \/ Fail(r)
  <2>1. UNCHANGED <<password, keyOf>>
    BY <1>9 DEF BySession, ByKey, CheckLogin, OpenSession, Logout, CheckPassword,
       CheckKey, RevealKey, Serve, Fail
  <2>2. SameWin
    <3>1. CASE BySession(r)
      <4>1. req[r].op # "register"
        BY <3>1 DEF BySession, SessionOps
      <4>2. CASE \E a \in Accounts : req' = [req EXCEPT ![r].pc = "authed", ![r].account = a]
        BY <1>1, <4>1, <4>2, AuthedEffect DEF Registering, Generated, Answered
      <4>3. CASE Proceed(r, "tryKey")
        BY <1>1, <4>1, <4>3, ProceedEffect DEF Registering, Generated, Answered
      <4>4. CASE Answer(r, "refused")
        BY <4>4, AnswerEffect DEF Registering, Generated, Answered
      <4> QED BY <3>1, <4>2, <4>3, <4>4 DEF BySession
    <3>2. CASE ByKey(r)
      <4>1. req[r].op # "register"
        BY <3>2 DEF ByKey, At
      <4>2. CASE \E a \in Accounts : req' = [req EXCEPT ![r].pc = "authed", ![r].account = a]
        BY <1>1, <4>1, <4>2, AuthedEffect DEF Registering, Generated, Answered
      <4>3. CASE Answer(r, "refused")
        BY <4>3, AnswerEffect DEF Registering, Generated, Answered
      <4> QED BY <3>2, <4>2, <4>3 DEF ByKey
    <3>3. CASE CheckLogin(r) \/ CheckPassword(r)
      <4>1. req[r].op # "register"
        BY <3>3 DEF CheckLogin, CheckPassword, At
      <4>2. CASE Proceed(r, "checked")
        BY <1>1, <4>1, <4>2, ProceedEffect DEF Registering, Generated, Answered
      <4>3. CASE Answer(r, "refused")
        BY <4>3, AnswerEffect DEF Registering, Generated, Answered
      <4> QED BY <3>3, <4>2, <4>3 DEF CheckLogin, CheckPassword
    <3>4. CASE OpenSession(r)
      BY <3>4, AnswerEffect DEF OpenSession, At, Registering, Generated, Answered
    <3>5. CASE Logout(r)
      BY <3>5, AnswerEffect DEF Logout, At, Registering, Generated, Answered
    <3>6. CASE CheckKey(r)
      <4>1. req[r].op # "register"
        BY <3>6 DEF CheckKey, At
      <4>2. CASE req' = [req EXCEPT ![r].pc = "checked", ![r].key = keyOf[req[r].account]]
        <5>1. keyOf[req[r].account] \in Requests \cup {None}
          BY <1>0, <3>6 DEF CheckKey, At, TypeOK
        <5> QED BY <1>1, <4>1, <4>2, <5>1, CheckKeyEffect DEF Registering, Generated, Answered
      <4>3. CASE Answer(r, "refused")
        BY <4>3, AnswerEffect DEF Registering, Generated, Answered
      <4> QED BY <3>6, <4>2, <4>3 DEF CheckKey
    <3>7. CASE RevealKey(r)
      <4>1. req[r].op = "revealKey" /\ req[r].account \in Accounts
        BY <1>0, <3>7 DEF RevealKey, At
      <4>2. CASE keyOf[req[r].account] # None
        <5>1. keyOf[req[r].account] \in Requests
          BY <4>1, <4>2 DEF TypeOK
        <5> QED BY <3>7, <4>1, <4>2, <5>1, RevealEffect
                DEF RevealKey, Registering, Generated, Answered
      <4>3. CASE keyOf[req[r].account] = None
        BY <3>7, <4>3, AnswerEffect DEF RevealKey, Registering, Generated, Answered
      <4> QED BY <4>2, <4>3
    <3>8. CASE Serve(r)
      BY <3>8, AnswerEffect DEF Serve, Registering, Generated, Answered
    <3>9. CASE Fail(r)
      BY <3>9, AnswerEffect DEF Fail, Registering, Generated, Answered
    <3> QED BY <1>9, <3>1, <3>2, <3>3, <3>4, <3>5, <3>6, <3>7, <3>8, <3>9
  <2> QED BY <1>3, <2>1, <2>2
<1> QED BY <1>4, <1>5, <1>6, <1>7, <1>8, <1>9 DEF RequestStep

LEMMA WinnersStep ==
    ASSUME TypeOK, Phases, Winners, [Next]_vars
    PROVE  Winners'
<1>1. CASE Restart
  <2>1. UNCHANGED <<password, keyOf>>
    BY <1>1 DEF Restart
  <2>2. \A q \in Requests :
           /\ Registering(q)' => Registering(q) /\ req'[q] = req[q]
           /\ Generated(q)' => Generated(q) /\ req'[q] = req[q]
    BY <1>1, RestartEffect DEF Registering, Generated, Answered
  <2> QED BY <2>1, <2>2 DEF Winners
<1>2. CASE Tick \/ UNCHANGED vars
  BY <1>2 DEF Tick, vars, Winners, Registering, Generated, Answered
<1> QED BY <1>1, <1>2, RequestWinners DEF Next

LEMMA WinnersInit == Init => Winners
BY DEF Init, Winners, Registering, Generated, Answered, Unused

\* Registration of an address and first generation of a key succeed for one
\* request only, however many overlap between the check and the insert.
THEOREM WinnerIsUnique == Spec => []OneWinner
<1>1. TypeOK /\ Phases /\ Winners /\ [Next]_vars => (TypeOK /\ Phases /\ Winners)'
  BY TypeStep, WinnersStep
<1>2. Phases /\ Winners => OneWinner
  <2> SUFFICES ASSUME Phases, Winners, NEW r \in Requests, NEW q \in Requests,
                      NEW op \in {"register", "generateKey"},
                      Answered(op, r), Answered(op, q), req[r].account = req[q].account
               PROVE  r = q
    BY DEF OneWinner
  <2>1. req[r].pc = "answered" /\ req[q].pc = "answered"
    BY DEF Phases, Answered
  <2> QED BY <2>1 DEF Winners, Registering, Generated, Answered
<1> QED BY <1>1, <1>2, TypeInit, WinnersInit, PTL DEF Spec

----------------------------------------------------------------------------
(* Keys that were shown *)

\* Answered requests keep their answers, so what was given out stays given out.
LEMMA AnswersStay ==
    ASSUME TypeOK, Phases, [Next]_vars
    PROVE  /\ \A q \in Requests : req[q].reply = "ok" => req'[q] = req[q]
           /\ Cookies \subseteq Cookies' /\ Bearers \subseteq Bearers'
<1>1. \A q \in Requests : req[q].reply = "ok" => req'[q] = req[q]
  <2> SUFFICES ASSUME NEW q \in Requests, req[q].reply = "ok"
               PROVE  req'[q] = req[q]
    OBVIOUS
  <2>1. req[q].pc = "answered"
    BY DEF Phases
  <2>2. CASE \E r \in Requests : RequestStep(r)
    BY <2>1, <2>2, StepFrame
  <2>3. CASE Restart
    BY <2>1, <2>3, RestartEffect
  <2>4. CASE Tick \/ UNCHANGED vars
    BY <2>4 DEF Tick, vars
  <2> QED BY <2>2, <2>3, <2>4 DEF Next
<1> QED BY <1>1 DEF Cookies, Bearers, Answered

\* What r was shown is the key of its account, or one that a reset replaced.
Shown(r) ==
    /\ Answered("generateKey", r) \/ Answered("resetKey", r)
       => keyOf[req[r].account] = r \/ r \in ended
    /\ Answered("revealKey", r)
       => keyOf[req[r].account] = req[r].key \/ req[r].key \in ended

\* A step of r shows a key of the account of r only, and overwrites a key only
\* when it records it as ended.
LEMMA RequestShown ==
    ASSUME TypeOK, Phases, ShownKeyWorks, NEW r \in Requests, RequestStep(r)
    PROVE  ShownKeyWorks'
<1>0. /\ req[r] \in Request
      /\ req[r].pc \in {"authed", "checked"} => req[r].account \in Accounts
  BY DEF TypeOK, Phases, Request
<1>1. /\ \A q \in Requests : q # r => req'[q] = req[q]
      /\ req[r].reply # "ok"
  BY StepFrame DEF Phases
<1> DEFINE Kept == \A a \in Accounts :
                      \/ keyOf'[a] = keyOf[a] \/ keyOf[a] = None
                      \/ keyOf[a] \in ended'
<1>2. ASSUME Kept, ended \subseteq ended', Shown(r)'
      PROVE  ShownKeyWorks'
  <2> SUFFICES ASSUME NEW q \in Requests PROVE Shown(q)'
    BY DEF ShownKeyWorks, Shown
  <2>1. CASE q # r /\ (\/ Answered("generateKey", q) \/ Answered("resetKey", q)
                       \/ Answered("revealKey", q))
    <3>1. req'[q] = req[q] /\ req[q].account \in Accounts
      BY <1>1, <2>1 DEF Phases, Answered, TypeOK, Request
    <3>2. Shown(q)
      BY DEF ShownKeyWorks, Shown
    <3>3. Answered("revealKey", q) => req[q].key # None
      BY DEF Phases
    <3> QED BY <1>2, <3>1, <3>2, <3>3, NoneAssumption DEF Shown, Answered
  <2>2. CASE q # r /\ ~(\/ Answered("generateKey", q) \/ Answered("resetKey", q)
                        \/ Answered("revealKey", q))
    BY <1>1, <2>2 DEF Shown, Answered
  <2> QED BY <1>2, <2>1, <2>2
<1>3. ASSUME UNCHANGED keyOf, ended \subseteq ended', Shown(r)'
      PROVE  ShownKeyWorks'
  BY <1>2, <1>3
<1>4. CASE InsertKey(r)
  <2>1. req[r].op = "generateKey" /\ req[r].account \in Accounts
    BY <1>0, <1>4 DEF InsertKey, At
  <2>2. CASE keyOf[req[r].account] = None
    <3>1. /\ keyOf' = [keyOf EXCEPT ![req[r].account] = r]
          /\ Answer(r, "ok") /\ UNCHANGED ended
      BY <1>4, <2>2 DEF InsertKey
    <3>2. req'[r].account = req[r].account /\ req'[r].op = "generateKey"
      BY <2>1, <3>1, AnswerEffect
    <3>3. Kept
      BY <2>2, <3>1 DEF TypeOK
    <3>4. Shown(r)'
      BY <2>1, <3>1, <3>2 DEF TypeOK, Shown, Answered
    <3> QED BY <1>2, <3>1, <3>3, <3>4
  <2>3. CASE keyOf[req[r].account] # None
    <3>1. Answer(r, "refused") /\ UNCHANGED <<keyOf, ended>>
      BY <1>4, <2>3 DEF InsertKey
    <3>2. Shown(r)'
      BY <3>1, AnswerEffect DEF Shown, Answered
    <3> QED BY <1>3, <3>1, <3>2
  <2> QED BY <2>2, <2>3
<1>5. CASE ResetKey(r)
  <2>1. /\ req[r].op = "resetKey" /\ req[r].account \in Accounts
        /\ keyOf' = [keyOf EXCEPT ![req[r].account] = r]
        /\ ended' = ended \cup ({keyOf[req[r].account]} \ {None})
        /\ Answer(r, "ok")
    BY <1>0, <1>5 DEF ResetKey, At
  <2>2. req'[r].account = req[r].account /\ req'[r].op = "resetKey"
    BY <2>1, AnswerEffect
  <2>3. Kept
    BY <2>1 DEF TypeOK
  <2>4. Shown(r)'
    BY <2>1, <2>2 DEF TypeOK, Shown, Answered
  <2> QED BY <1>2, <2>1, <2>3, <2>4
<1>6. CASE RevealKey(r)
  <2>1. /\ req[r].op = "revealKey" /\ req[r].account \in Accounts
        /\ UNCHANGED <<keyOf, ended>>
    BY <1>0, <1>6 DEF RevealKey, At
  <2>2. CASE keyOf[req[r].account] # None
    <3>1. keyOf[req[r].account] \in Requests
      BY <2>1, <2>2 DEF TypeOK
    <3>2. /\ req'[r].account = req[r].account /\ req'[r].op = "revealKey"
          /\ req'[r].key = keyOf[req[r].account]
      BY <1>6, <2>1, <2>2, <3>1, RevealEffect DEF RevealKey
    <3>3. Shown(r)'
      BY <2>1, <3>2 DEF Shown, Answered
    <3> QED BY <1>3, <2>1, <3>3
  <2>3. CASE keyOf[req[r].account] = None
    <3>1. Answer(r, "refused")
      BY <1>6, <2>3 DEF RevealKey
    <3>2. Shown(r)'
      BY <3>1, AnswerEffect DEF Shown, Answered
    <3> QED BY <1>3, <2>1, <3>2
  <2> QED BY <2>2, <2>3
<1>7. CASE \/ ArrivePublic(r) \/ ArriveSession(r) \/ ArriveKey(r) \/ ArriveAny(r)
           \/ BySession(r) \/ ByKey(r) \/ CreateAccount(r) \/ CheckLogin(r)
           \/ OpenSession(r) \/ Logout(r) \/ CheckPassword(r) \/ ChangePassword(r)
           \/ CheckKey(r) \/ Serve(r) \/ Fail(r)
  <2>1. UNCHANGED keyOf /\ ended \subseteq ended'
    <3>1. CASE ArrivePublic(r) \/ ArriveSession(r) \/ ArriveKey(r) \/ ArriveAny(r)
      BY <3>1, ArrivalEffect
    <3>2. CASE \/ BySession(r) \/ ByKey(r) \/ CreateAccount(r) \/ CheckLogin(r)
               \/ OpenSession(r) \/ Logout(r) \/ CheckPassword(r) \/ ChangePassword(r)
               \/ CheckKey(r) \/ Serve(r) \/ Fail(r)
      BY <3>2 DEF BySession, ByKey, CreateAccount, CheckLogin, OpenSession, Logout,
         CheckPassword, ChangePassword, CheckKey, Serve, Fail
    <3> QED BY <1>7, <3>1, <3>2
  <2>2. req'[r].reply = "ok" => req'[r].op \notin {"generateKey", "resetKey", "revealKey"}
    <3>1. CASE ArrivePublic(r) \/ ArriveSession(r) \/ ArriveKey(r) \/ ArriveAny(r)
      BY <3>1, ArrivalEffect
    <3>2. CASE BySession(r) \/ ByKey(r)
      BY <1>1, <3>2, AnswerEffect, AuthedEffect, ProceedEffect DEF BySession, ByKey
    <3>3. CASE CreateAccount(r) \/ CheckLogin(r) \/ CheckPassword(r)
      BY <1>1, <3>3, AnswerEffect, ProceedEffect DEF CreateAccount, CheckLogin, CheckPassword
    <3>4. CASE CheckKey(r)
      <4>1. keyOf[req[r].account] \in Requests \cup {None}
        BY <1>0, <3>4 DEF CheckKey, At, TypeOK
      <4>2. CASE req' = [req EXCEPT ![r].pc = "checked", ![r].key = keyOf[req[r].account]]
        BY <1>1, <4>1, <4>2, CheckKeyEffect
      <4>3. CASE Answer(r, "refused")
        BY <4>3, AnswerEffect
      <4> QED BY <3>4, <4>2, <4>3 DEF CheckKey
    <3>5. CASE OpenSession(r) \/ Logout(r) \/ ChangePassword(r)
      BY <3>5, AnswerEffect DEF OpenSession, Logout, ChangePassword, At
    <3>6. CASE Serve(r)
      BY <3>6, AnswerEffect DEF Serve
    <3>7. CASE Fail(r)
      BY <3>7, AnswerEffect DEF Fail
    <3> QED BY <1>7, <3>1, <3>2, <3>3, <3>4, <3>5, <3>6, <3>7
  <2>3. Shown(r)'
    BY <2>2 DEF Shown, Answered
  <2> QED BY <1>3, <2>1, <2>3
<1> QED BY <1>4, <1>5, <1>6, <1>7 DEF RequestStep

LEMMA ShownStep ==
    ASSUME TypeOK, Phases, ShownKeyWorks, [Next]_vars
    PROVE  ShownKeyWorks'
<1>1. CASE Restart
  <2>1. UNCHANGED <<keyOf, ended>>
    BY <1>1 DEF Restart
  <2>2. \A q \in Requests : req'[q].reply = "ok" => req'[q] = req[q]
    BY <1>1, RestartEffect
  <2> QED BY <2>1, <2>2 DEF ShownKeyWorks, Answered
<1>2. CASE Tick \/ UNCHANGED vars
  <2>1. UNCHANGED <<keyOf, req>> /\ ended \subseteq ended'
    BY <1>2 DEF Tick, vars
  <2> QED BY <2>1 DEF ShownKeyWorks, Answered
<1> QED BY <1>1, <1>2, RequestShown DEF Next

\* A key that was shown to its owner works until a reset replaces it.
THEOREM ShownKeyIsCurrent == Spec => []ShownKeyWorks
<1>1. Init => ShownKeyWorks
  BY DEF Init, ShownKeyWorks, Answered, Unused
<1>2. TypeOK /\ Phases /\ ShownKeyWorks /\ [Next]_vars => (TypeOK /\ Phases /\ ShownKeyWorks)'
  BY TypeStep, ShownStep
<1> QED BY <1>1, <1>2, TypeInit, PTL DEF Spec

----------------------------------------------------------------------------
(* Revoked credentials *)

\* What a step of r adds to the tables is a credential that r gives out.
LEMMA TablesGrow ==
    ASSUME TypeOK, Phases, NEW r \in Requests, RequestStep(r)
    PROVE  /\ clock' = clock
           /\ \A s \in sessions' : s \in sessions \/ (s.token = r /\ r \in Cookies')
           /\ \A a \in Accounts : keyOf'[a] = keyOf[a] \/ (keyOf'[a] = r /\ r \in Bearers')
<1>0. /\ req[r] \in Request
      /\ req[r].pc \in {"authed", "checked"} => req[r].account \in Accounts
  BY DEF TypeOK, Phases, Request
<1>1. CASE OpenSession(r)
  <2> DEFINE row == [token |-> r, account |-> req[r].account, expires |-> Whole(clock + Duration),
                     opened |-> req[r].secret, since |-> changes[req[r].account]]
  <2>1. /\ sessions' = sessions \cup {row} /\ Answer(r, "ok")
        /\ req[r].op \in {"register", "login"} /\ UNCHANGED <<clock, keyOf>>
    BY <1>1 DEF OpenSession, At
  <2>2. r \in Cookies'
    BY <2>1, AnswerEffect DEF Cookies, Answered
  <2>3. row.token = r
    OBVIOUS
  <2> QED BY <2>1, <2>2, <2>3
<1>2. CASE InsertKey(r)
  <2>1. req[r].op = "generateKey" /\ UNCHANGED <<clock, sessions>>
    BY <1>2 DEF InsertKey, At
  <2>2. CASE keyOf' = [keyOf EXCEPT ![req[r].account] = r] /\ Answer(r, "ok")
    <3>1. r \in Bearers'
      BY <2>1, <2>2, AnswerEffect DEF Bearers, Answered
    <3> QED BY <2>1, <2>2, <3>1 DEF TypeOK
  <2>3. CASE UNCHANGED keyOf
    BY <2>1, <2>3
  <2> QED BY <1>2, <2>2, <2>3 DEF InsertKey
<1>3. CASE ResetKey(r)
  <2>1. /\ req[r].op = "resetKey" /\ UNCHANGED <<clock, sessions>>
        /\ keyOf' = [keyOf EXCEPT ![req[r].account] = r] /\ Answer(r, "ok")
    BY <1>3 DEF ResetKey, At
  <2>2. r \in Bearers'
    BY <2>1, AnswerEffect DEF Bearers, Answered
  <2> QED BY <2>1, <2>2 DEF TypeOK
<1>4. CASE ArrivePublic(r) \/ ArriveSession(r) \/ ArriveKey(r) \/ ArriveAny(r)
  BY <1>4, ArrivalEffect
<1>5. CASE Logout(r) \/ ChangePassword(r)
  BY <1>5 DEF Logout, ChangePassword
<1>6. CASE \/ BySession(r) \/ ByKey(r) \/ CreateAccount(r) \/ CheckLogin(r)
           \/ CheckPassword(r) \/ CheckKey(r) \/ RevealKey(r) \/ Serve(r) \/ Fail(r)
  BY <1>6 DEF BySession, ByKey, CreateAccount, CheckLogin, CheckPassword, CheckKey,
     RevealKey, Serve, Fail
<1> QED BY <1>1, <1>2, <1>3, <1>4, <1>5, <1>6 DEF RequestStep

\* A request keeps the credentials it arrived with.
LEMMA CredentialsKept ==
    ASSUME TypeOK, Phases, NEW r \in Requests, RequestStep(r)
    PROVE  /\ \/ req'[r].op \notin {"upload", "browse"}
              \/ req'[r].key \in Bearers \cup {None}
              \/ req'[r].key = req[r].key /\ req'[r].op = req[r].op
           /\ req'[r].dead /\ req'[r].pc \in {"arrived", "tryKey"} =>
                 \/ Dead(req'[r].op, req'[r].token, req'[r].key)
                 \/ /\ req[r].dead /\ req[r].pc = "arrived"
                    /\ req'[r].op = req[r].op /\ req'[r].token = req[r].token
                    /\ req'[r].key = req[r].key
<1>1. CASE ArrivePublic(r) \/ ArriveSession(r) \/ ArriveKey(r) \/ ArriveAny(r)
  BY <1>1, ArrivalEffect
<1>2. CASE \/ CreateAccount(r) \/ OpenSession(r) \/ Logout(r) \/ ChangePassword(r)
           \/ CheckLogin(r) \/ CheckPassword(r) \/ InsertKey(r) \/ ResetKey(r)
           \/ Serve(r) \/ Fail(r)
  <2>1. \/ Proceed(r, "checked")
        \/ \E reply \in {"ok", "refused", "failed"} : Answer(r, reply)
    BY <1>2 DEF CreateAccount, OpenSession, Logout, ChangePassword, CheckLogin,
       CheckPassword, InsertKey, ResetKey, Serve, Fail
  <2>2. CASE Proceed(r, "checked")
    BY <2>2, ProceedEffect
  <2>3. CASE \E reply \in {"ok", "refused", "failed"} : Answer(r, reply)
    BY <2>3, AnswerEffect
  <2> QED BY <2>1, <2>2, <2>3
<1>3. CASE BySession(r) \/ ByKey(r)
  <2>1. CASE \E a \in Accounts : req' = [req EXCEPT ![r].pc = "authed", ![r].account = a]
    BY <2>1, AuthedEffect
  <2>2. CASE Proceed(r, "tryKey") /\ req[r].pc = "arrived"
    BY <2>2, ProceedEffect
  <2>3. CASE Answer(r, "refused")
    BY <2>3, AnswerEffect
  <2> QED BY <1>3, <2>1, <2>2, <2>3 DEF BySession, ByKey
<1>4. CASE CheckKey(r)
  <2>1. /\ req[r].op \notin {"upload", "browse"}
        /\ keyOf[req[r].account] \in Requests \cup {None}
    BY <1>4 DEF CheckKey, At, Phases, TypeOK, Request
  <2>2. CASE req' = [req EXCEPT ![r].pc = "checked", ![r].key = keyOf[req[r].account]]
    BY <2>1, <2>2, CheckKeyEffect
  <2>3. CASE Answer(r, "refused")
    BY <2>3, AnswerEffect
  <2> QED BY <1>4, <2>2, <2>3 DEF CheckKey
<1>5. CASE RevealKey(r)
  <2>1. req[r].op = "revealKey" /\ req[r].account \in Accounts
    BY <1>5 DEF RevealKey, At, Phases, TypeOK, Request
  <2>2. CASE keyOf[req[r].account] # None
    <3>1. keyOf[req[r].account] \in Requests
      BY <2>1, <2>2 DEF TypeOK
    <3> QED BY <1>5, <2>1, <2>2, <3>1, RevealEffect DEF RevealKey
  <2>3. CASE keyOf[req[r].account] = None
    BY <1>5, <2>3, AnswerEffect DEF RevealKey
  <2> QED BY <2>2, <2>3
<1> QED BY <1>1, <1>2, <1>3, <1>4, <1>5 DEF RequestStep

\* Credentials in the tables, and those presented, were given out.
LEMMA GivenStep ==
    ASSUME TypeOK, Phases, Given, [Next]_vars
    PROVE  Given'
<1>1. /\ Cookies \subseteq Cookies' /\ Bearers \subseteq Bearers'
  BY AnswersStay
<1>2. ASSUME NEW r \in Requests, RequestStep(r)
      PROVE  Given'
  <2>1. \A s \in sessions' : s.token \in Cookies'
    BY <1>1, <1>2, TablesGrow DEF Given
  <2>2. \A a \in Accounts : keyOf'[a] # None => keyOf'[a] \in Bearers'
    BY <1>1, <1>2, TablesGrow DEF Given
  <2>3. \A q \in Requests : req'[q].token \in Cookies' \cup {None}
    BY <1>1, <1>2, StepFrame DEF Given
  <2>4. \A q \in Requests :
           req'[q].op \in {"upload", "browse"} => req'[q].key \in Bearers' \cup {None}
    BY <1>1, <1>2, StepFrame, CredentialsKept DEF Given
  <2> QED BY <2>1, <2>2, <2>3, <2>4 DEF Given
<1>3. CASE Restart
  <2>1. UNCHANGED keyOf /\ sessions' \subseteq sessions
    BY <1>3 DEF Restart
  <2>2. \A q \in Requests :
           \/ req'[q] = req[q]
           \/ req'[q].token = None /\ req'[q].op = "none"
    BY <1>3, RestartEffect
  <2> QED BY <1>1, <2>1, <2>2 DEF Given
<1>4. CASE Tick \/ UNCHANGED vars
  BY <1>4 DEF Tick, vars, Given, Cookies, Bearers, Answered
<1> QED BY <1>2, <1>3, <1>4 DEF Next

\* What was ended is never taken back.
LEMMA EndedGrows ==
    ASSUME [Next]_vars
    PROVE  ended \subseteq ended'
<1>1. ASSUME NEW r \in Requests, RequestStep(r) PROVE ended \subseteq ended'
  <2>1. CASE ArrivePublic(r) \/ ArriveSession(r) \/ ArriveKey(r) \/ ArriveAny(r)
    BY <2>1 DEF ArrivePublic, ArriveSession, ArriveKey, ArriveAny, Arrive
  <2>2. CASE \/ BySession(r) \/ ByKey(r) \/ CreateAccount(r) \/ CheckLogin(r)
             \/ OpenSession(r) \/ Logout(r) \/ CheckPassword(r) \/ ChangePassword(r)
    BY <2>2 DEF BySession, ByKey, CreateAccount, CheckLogin, OpenSession, Logout,
       CheckPassword, ChangePassword
  <2>3. CASE \/ CheckKey(r) \/ InsertKey(r) \/ ResetKey(r) \/ RevealKey(r)
             \/ Serve(r) \/ Fail(r)
    BY <2>3 DEF CheckKey, InsertKey, ResetKey, RevealKey, Serve, Fail
  <2> QED BY <1>1, <2>1, <2>2, <2>3 DEF RequestStep
<1>2. CASE Restart \/ Tick \/ UNCHANGED vars
  BY <1>2 DEF Restart, Tick, vars
<1> QED BY <1>1, <1>2 DEF Next

LEMMA DeadStep ==
    ASSUME TypeOK, Phases, DeadStays, [Next]_vars
    PROVE  DeadStays'
<1> SUFFICES ASSUME NEW q \in Requests, req'[q].dead, req'[q].pc \in {"arrived", "tryKey"}
             PROVE  Dead(req[q].op, req[q].token, req[q].key)'
  BY DEF DeadStays
<1>1. ASSUME Dead(req'[q].op, req'[q].token, req'[q].key)
      PROVE  Dead(req[q].op, req[q].token, req[q].key)'
  BY <1>1, EndedGrows DEF Dead
<1>2. ASSUME /\ req[q].dead /\ req[q].pc \in {"arrived", "tryKey"}
             /\ req'[q].op = req[q].op /\ req'[q].token = req[q].token
             /\ req'[q].key = req[q].key
      PROVE  Dead(req[q].op, req[q].token, req[q].key)'
  BY <1>1, <1>2 DEF DeadStays
<1>3. ASSUME NEW r \in Requests, RequestStep(r)
      PROVE  Dead(req[q].op, req[q].token, req[q].key)'
  <2>1. CASE q # r
    BY <1>2, <1>3, <2>1, StepFrame
  <2>2. CASE q = r
    BY <1>1, <1>2, <1>3, <2>2, CredentialsKept
  <2> QED BY <2>1, <2>2
<1>4. CASE Restart
  BY <1>2, <1>4, RestartEffect
<1>5. CASE Tick \/ UNCHANGED vars
  BY <1>2, <1>5 DEF Tick, vars
<1> QED BY <1>3, <1>4, <1>5 DEF Next

----------------------------------------------------------------------------
(* Whose credentials these are *)

\* The account behind a credential that was given out never changes.
LEMMA OwnerStays ==
    ASSUME TypeOK, Phases, [Next]_vars, NEW c \in Issued
    PROVE  c \in Requests /\ req'[c].account = req[c].account
  BY AnswersStay DEF Issued, Cookies, Bearers, Answered

\* A step of r that authenticates or keeps it authenticated by a session.
LEMMA ActsForOwner ==
    ASSUME TypeOK, Phases, Given, Owners, NEW r \in Requests, RequestStep(r),
           req'[r].pc \in {"authed", "checked"}, req'[r].op \in SessionOps
    PROVE  /\ req'[r].token = req[r].token /\ req[r].token # None
           /\ req[req[r].token].account = req'[r].account
<1>0. req[r] \in Request
  BY DEF TypeOK
<1> DEFINE Goal == /\ req'[r].token = req[r].token /\ req[r].token # None
                   /\ req[req[r].token].account = req'[r].account
<1>1. CASE ArrivePublic(r) \/ ArriveSession(r) \/ ArriveKey(r) \/ ArriveAny(r)
  BY <1>1, ArrivalEffect
<1>2. CASE BySession(r)
  <2>1. CASE \E a \in Accounts : /\ SessionFound(req[r].token, a)
                                 /\ req' = [req EXCEPT ![r].pc = "authed", ![r].account = a]
    <3>1. PICK a \in Accounts : /\ SessionFound(req[r].token, a)
                               /\ req' = [req EXCEPT ![r].pc = "authed", ![r].account = a]
      BY <2>1
    <3>2. PICK s \in sessions : s.token = req[r].token /\ s.account = a
      BY <3>1 DEF SessionFound
    <3>3. s.token \in Requests /\ req[s.token].account = a
      BY <3>2 DEF TypeOK, Session, Owners
    <3>4. req'[r].token = req[r].token /\ req'[r].account = a
      BY <3>1, AuthedEffect
    <3> QED BY <3>2, <3>3, <3>4, NoneAssumption
  <2>2. CASE Proceed(r, "tryKey")
    BY <2>2, ProceedEffect
  <2>3. CASE Answer(r, "refused")
    BY <2>3, AnswerEffect
  <2> QED BY <1>2, <2>1, <2>2, <2>3 DEF BySession
<1>3. CASE ByKey(r)
  <2>1. req[r].op \notin SessionOps
    BY <1>3 DEF ByKey, At, SessionOps
  <2>2. CASE \E a \in Accounts : req' = [req EXCEPT ![r].pc = "authed", ![r].account = a]
    BY <2>1, <2>2, AuthedEffect
  <2>3. CASE Answer(r, "refused")
    BY <2>3, AnswerEffect
  <2> QED BY <1>3, <2>2, <2>3 DEF ByKey
<1>4. CASE CreateAccount(r) \/ CheckLogin(r)
  <2>1. req[r].op \notin SessionOps
    BY <1>4 DEF CreateAccount, CheckLogin, At, SessionOps
  <2>2. CASE Proceed(r, "checked")
    BY <2>1, <2>2, ProceedEffect
  <2>3. CASE Answer(r, "refused")
    BY <2>3, AnswerEffect
  <2> QED BY <1>4, <2>2, <2>3 DEF CreateAccount, CheckLogin
<1>5. CASE CheckPassword(r)
  <2>1. req[r].pc = "authed" /\ req[r].op \in SessionOps
    BY <1>5 DEF CheckPassword, At, SessionOps
  <2>2. CASE Proceed(r, "checked")
    BY <2>1, <2>2, ProceedEffect DEF Owners
  <2>3. CASE Answer(r, "refused")
    BY <2>3, AnswerEffect
  <2> QED BY <1>5, <2>2, <2>3 DEF CheckPassword
<1>6. CASE CheckKey(r)
  <2>1. /\ req[r].pc = "authed" /\ req[r].op \in SessionOps
        /\ keyOf[req[r].account] \in Requests \cup {None}
    BY <1>0, <1>6 DEF CheckKey, At, SessionOps, Phases, TypeOK, Request
  <2>2. CASE req' = [req EXCEPT ![r].pc = "checked", ![r].key = keyOf[req[r].account]]
    <3>1. /\ req'[r].account = req[r].account /\ req'[r].token = req[r].token
      BY <2>1, <2>2, CheckKeyEffect
    <3>2. req[r].token # None /\ req[req[r].token].account = req[r].account
      BY <2>1 DEF Owners
    <3> QED BY <3>1, <3>2
  <2>3. CASE Answer(r, "refused")
    BY <2>3, AnswerEffect
  <2> QED BY <1>6, <2>2, <2>3 DEF CheckKey
<1>7. CASE RevealKey(r)
  <2>1. req[r].account \in Accounts
    BY <1>0, <1>7 DEF RevealKey, At, Phases, Request
  <2>2. CASE keyOf[req[r].account] # None
    <3>1. keyOf[req[r].account] \in Requests
      BY <2>1, <2>2 DEF TypeOK
    <3> QED BY <1>7, <2>2, <3>1, RevealEffect DEF RevealKey
  <2>3. CASE keyOf[req[r].account] = None
    BY <1>7, <2>3, AnswerEffect DEF RevealKey
  <2> QED BY <2>2, <2>3
<1>8. CASE \/ OpenSession(r) \/ Logout(r) \/ ChangePassword(r) \/ InsertKey(r)
           \/ ResetKey(r) \/ Serve(r) \/ Fail(r)
  <2>1. \E reply \in {"ok", "refused", "failed"} : Answer(r, reply)
    BY <1>8 DEF OpenSession, Logout, ChangePassword, InsertKey, ResetKey, Serve, Fail
  <2> QED BY <2>1, AnswerEffect
<1> QED BY <1>1, <1>2, <1>3, <1>4, <1>5, <1>6, <1>7, <1>8 DEF RequestStep

\* What a step of r puts into the tables stands for the account of r.
LEMMA AddsOwn ==
    ASSUME TypeOK, Phases, NEW r \in Requests, RequestStep(r)
    PROVE  /\ \A s \in sessions' : s \in sessions \/ (s.token = r /\ s.account = req'[r].account)
           /\ \A a \in Accounts : keyOf'[a] = keyOf[a] \/ (keyOf'[a] = r /\ req'[r].account = a)
<1>1. CASE OpenSession(r)
  <2> DEFINE row == [token |-> r, account |-> req[r].account, expires |-> Whole(clock + Duration),
                     opened |-> req[r].secret, since |-> changes[req[r].account]]
  <2>1. sessions' = sessions \cup {row} /\ Answer(r, "ok") /\ UNCHANGED keyOf
    BY <1>1 DEF OpenSession
  <2>2. row.token = r /\ row.account = req[r].account
    OBVIOUS
  <2> QED BY <2>1, <2>2, AnswerEffect
<1>2. CASE InsertKey(r) \/ ResetKey(r)
  <2>1. UNCHANGED sessions
    BY <1>2 DEF InsertKey, ResetKey
  <2>2. CASE keyOf' = [keyOf EXCEPT ![req[r].account] = r] /\ Answer(r, "ok")
    BY <2>1, <2>2, AnswerEffect DEF TypeOK
  <2>3. CASE UNCHANGED keyOf
    BY <2>1, <2>3
  <2> QED BY <1>2, <2>2, <2>3 DEF InsertKey, ResetKey
<1>3. CASE ArrivePublic(r) \/ ArriveSession(r) \/ ArriveKey(r) \/ ArriveAny(r)
  BY <1>3, ArrivalEffect
<1>4. CASE \/ BySession(r) \/ ByKey(r) \/ CreateAccount(r) \/ CheckLogin(r)
           \/ CheckPassword(r) \/ CheckKey(r) \/ RevealKey(r) \/ Serve(r) \/ Fail(r)
           \/ Logout(r) \/ ChangePassword(r)
  BY <1>4 DEF BySession, ByKey, CreateAccount, CheckLogin, CheckPassword, CheckKey,
     RevealKey, Serve, Fail, Logout, ChangePassword
<1> QED BY <1>1, <1>2, <1>3, <1>4 DEF RequestStep

LEMMA OwnersStep ==
    ASSUME TypeOK, Phases, Given, Owners, [Next]_vars
    PROVE  Owners'
<1>a. /\ \A s \in sessions : s.token \in Issued
      /\ \A a \in Accounts : keyOf[a] # None => keyOf[a] \in Issued
      /\ \A r \in Requests : req[r].token # None => req[r].token \in Issued
  BY DEF Given, Issued
<1>1. ASSUME NEW r \in Requests, RequestStep(r) PROVE Owners'
  <2>1. ASSUME NEW s \in sessions' PROVE s.account = req'[s.token].account
    BY <1>a, <1>1, AddsOwn, OwnerStays DEF Owners
  <2>2. ASSUME NEW a \in Accounts, keyOf'[a] # None PROVE req'[keyOf'[a]].account = a
    BY <1>a, <1>1, <2>2, AddsOwn, OwnerStays DEF Owners
  <2>3. ASSUME NEW q \in Requests, req'[q].pc \in {"authed", "checked"}, req'[q].op \in SessionOps
        PROVE  req'[q].token # None /\ req'[req'[q].token].account = req'[q].account
    <3>1. CASE q = r
      BY <1>a, <1>1, <2>3, <3>1, ActsForOwner, OwnerStays
    <3>2. CASE q # r
      <4>1. req'[q] = req[q]
        BY <1>1, <3>2, StepFrame
      <4> QED BY <1>a, <2>3, <4>1, OwnerStays DEF Owners
    <3> QED BY <3>1, <3>2
  <2> QED BY <2>1, <2>2, <2>3 DEF Owners
<1>2. CASE Restart
  <2>1. UNCHANGED keyOf /\ sessions' \subseteq sessions
    BY <1>2 DEF Restart
  <2>2. \A q \in Requests : req'[q] = req[q] \/ req'[q].pc = "answered"
    BY <1>2, RestartEffect
  <2>3. ASSUME NEW q \in Requests, req'[q].pc \in {"authed", "checked"}, req'[q].op \in SessionOps
        PROVE  req'[q].token # None /\ req'[req'[q].token].account = req'[q].account
    <3>1. req'[q] = req[q]
      BY <2>2, <2>3
    <3> QED BY <1>a, <2>3, <3>1, OwnerStays DEF Owners
  <2>4. ASSUME NEW s \in sessions' PROVE s.account = req'[s.token].account
    BY <1>a, <2>1, OwnerStays DEF Owners
  <2>5. ASSUME NEW a \in Accounts, keyOf'[a] # None PROVE req'[keyOf'[a]].account = a
    BY <1>a, <2>1, <2>5, OwnerStays DEF Owners
  <2> QED BY <2>3, <2>4, <2>5 DEF Owners
<1>3. CASE Tick \/ UNCHANGED vars
  BY <1>3 DEF Tick, vars, Owners
<1> QED BY <1>1, <1>2, <1>3 DEF Next

LEMMA OwnersInit == Init => Owners
  BY DEF Init, Owners, Unused

----------------------------------------------------------------------------
(* Ended credentials *)

\* Tokens are given out by other requests than keys.
LEMMA TokensAreNoKeys ==
    ASSUME Given, NEW s \in sessions, NEW a \in Accounts, keyOf[a] # None
    PROVE  s.token # keyOf[a]
BY DEF Given, Cookies, Bearers, Answered

\* What is ended leaves the tables with the step that ends it, or is past its time
\* there, and what is added was never given out before.
LEMMA EndedStep ==
    ASSUME TypeOK, Phases, Given, Owners, EndedIsGone, [Next]_vars
    PROVE  EndedIsGone'
<1>1. /\ Issued \subseteq Issued' /\ ended \subseteq Issued
      /\ \A s \in sessions : s.token \in Issued /\ s.token \in Requests /\ s.expires \in Nat
      /\ \A a \in Accounts : keyOf[a] # None => keyOf[a] \in Issued
      /\ clock \in Nat
  BY AnswersStay DEF EndedIsGone, Given, Issued, TypeOK, Session
<1>2. ASSUME sessions' \subseteq sessions, UNCHANGED <<keyOf, clock, ended>>
      PROVE  EndedIsGone'
  BY <1>1, <1>2 DEF EndedIsGone, Fresh
<1>3. ASSUME NEW r \in Requests, RequestStep(r)
      PROVE  EndedIsGone'
  <2>1. /\ req[r] \in Request /\ r \notin Issued /\ r # None
        /\ req[r].pc \in {"authed", "checked"} => req[r].account \in Accounts
    BY <1>3, StepFrame, NoneAssumption
       DEF TypeOK, Phases, Request, Issued, Cookies, Bearers, Answered
  <2>2. CASE OpenSession(r)
    <3> DEFINE row == [token |-> r, account |-> req[r].account,
                       expires |-> Whole(clock + Duration),
                       opened |-> req[r].secret, since |-> changes[req[r].account]]
    <3>1. sessions' = sessions \cup {row} /\ UNCHANGED <<keyOf, clock, ended>>
      BY <2>2 DEF OpenSession
    <3>2. row.token = r
      OBVIOUS
    <3> HIDE DEF row
    <3> QED BY <1>1, <2>1, <3>1, <3>2 DEF EndedIsGone, Fresh
  <2>3. CASE Logout(r)
    <3>1. CASE UNCHANGED <<sessions, ended>>
      BY <1>2, <2>3, <3>1 DEF Logout
    <3>2. CASE /\ sessions' = {s \in sessions : s.token # req[r].token}
               /\ ended' = ended \cup Tokens({s \in sessions : s.token = req[r].token})
      <4>1. UNCHANGED <<keyOf, clock>>
        BY <2>3 DEF Logout
      <4> QED BY <1>1, <3>2, <4>1, TokensAreNoKeys, NoneAssumption DEF EndedIsGone, Fresh, Tokens, TypeOK
    <3> QED BY <2>3, <3>1, <3>2 DEF Logout
  <2>4. CASE ChangePassword(r)
    <3>1. /\ sessions' = {s \in sessions : s.account # req[r].account}
          /\ ended' = ended \cup Tokens({s \in sessions : s.account = req[r].account})
          /\ UNCHANGED <<keyOf, clock>>
      BY <2>4 DEF ChangePassword
    <3> QED BY <1>1, <3>1, TokensAreNoKeys, NoneAssumption DEF EndedIsGone, Fresh, Tokens, TypeOK
  <2>5. CASE InsertKey(r)
    <3>1. UNCHANGED <<sessions, clock, ended>>
      BY <2>5 DEF InsertKey
    <3>2. \A a \in Accounts : keyOf'[a] \in {keyOf[a], r}
      BY <1>3, TablesGrow
    <3> QED BY <1>1, <2>1, <3>1, <3>2 DEF EndedIsGone, Fresh
  <2>6. CASE ResetKey(r)
    <3>1. /\ req[r].account \in Accounts
          /\ keyOf' = [keyOf EXCEPT ![req[r].account] = r]
          /\ ended' = ended \cup ({keyOf[req[r].account]} \ {None})
          /\ UNCHANGED <<sessions, clock>>
      BY <2>1, <2>6 DEF ResetKey, At
    <3>2. ended' \subseteq Issued'
      BY <1>1, <3>1
    <3>3. \A s \in sessions' : s.token \in ended' => ~Fresh(s)'
      BY <3>1, TokensAreNoKeys DEF EndedIsGone, Fresh
    <3>4. ASSUME NEW a \in Accounts PROVE keyOf'[a] \notin ended'
      <4>1. CASE a = req[r].account
        <5>1. keyOf'[a] = r
          BY <3>1, <4>1 DEF TypeOK
        <5>2. r # keyOf[a] \/ keyOf[a] = None
          BY <1>1, <2>1
        <5> QED BY <1>1, <2>1, <3>1, <4>1, <5>1, <5>2
      <4>2. CASE a # req[r].account
        <5>1. keyOf'[a] = keyOf[a] /\ keyOf[a] \notin ended
          BY <3>1, <4>2 DEF TypeOK, EndedIsGone
        <5>2. keyOf[a] # None => keyOf[a] # keyOf[req[r].account]
          BY <3>1, <4>2 DEF Owners
        <5> QED BY <3>1, <5>1, <5>2
      <4> QED BY <4>1, <4>2
    <3> QED BY <3>1, <3>2, <3>3, <3>4 DEF EndedIsGone
  <2>7. CASE ArrivePublic(r) \/ ArriveSession(r) \/ ArriveKey(r) \/ ArriveAny(r)
    BY <1>2, <2>7, ArrivalEffect
  <2>8. CASE \/ BySession(r) \/ ByKey(r) \/ CreateAccount(r) \/ CheckLogin(r)
             \/ CheckPassword(r) \/ CheckKey(r) \/ RevealKey(r) \/ Serve(r) \/ Fail(r)
    BY <1>2, <2>8 DEF BySession, ByKey, CreateAccount, CheckLogin, CheckPassword, CheckKey,
       RevealKey, Serve, Fail
  <2> QED BY <1>3, <2>2, <2>3, <2>4, <2>5, <2>6, <2>7, <2>8 DEF RequestStep
<1>4. CASE Tick
  <2>1. /\ UNCHANGED <<sessions, keyOf>> /\ clock' \in Nat /\ clock' > clock
        /\ ended' = ended \cup Tokens({s \in sessions : s.expires < clock'})
    BY <1>4, TimeAssumption DEF Tick
  <2>2. ended' \subseteq Issued'
    BY <1>1, <2>1 DEF Tokens
  <2>3. \A s \in sessions : s.token \in ended' => ~(s.expires >= clock')
    BY <1>1, <2>1 DEF Tokens, EndedIsGone, Fresh
  <2>4. \A a \in Accounts : keyOf[a] \notin ended'
    BY <1>1, <2>1, TokensAreNoKeys, NoneAssumption DEF Tokens, EndedIsGone
  <2> QED BY <2>1, <2>2, <2>3, <2>4 DEF EndedIsGone, Fresh
<1>5. CASE Restart \/ UNCHANGED vars
  BY <1>2, <1>5 DEF Restart, vars
<1> QED BY <1>3, <1>4, <1>5 DEF Next

\* What lets a request past authentication was not ended, hence the request not dead.
LEMMA RequestRefused ==
    ASSUME TypeOK, Phases, DeadStays, EndedIsGone, RevokedIsRefused, NEW r \in Requests, RequestStep(r)
    PROVE  RevokedIsRefused'
<1>1. /\ \A q \in Requests : q # r => req'[q] = req[q]
      /\ req[r].reply # "ok" /\ req[r] \in Request
  BY StepFrame DEF Phases, TypeOK
<1>2. SUFFICES ASSUME req'[r].dead
               PROVE  req'[r].pc \notin {"authed", "checked"} /\ req'[r].reply # "ok"
  BY <1>1 DEF RevokedIsRefused
<1>3. ASSUME ~Dead(req[r].op, req[r].token, req[r].key),
             req[r].pc \in {"arrived", "tryKey"}
      PROVE  ~req[r].dead
  BY <1>3 DEF DeadStays
<1>4. req[r].pc \in {"authed", "checked"} => ~req[r].dead
  BY DEF RevokedIsRefused
<1>5. CASE ArrivePublic(r) \/ ArriveSession(r) \/ ArriveKey(r) \/ ArriveAny(r)
  BY <1>5, ArrivalEffect
<1>6. CASE BySession(r)
  <2>1. CASE \E a \in Accounts : /\ SessionFound(req[r].token, a)
                                 /\ req' = [req EXCEPT ![r].pc = "authed", ![r].account = a]
    <3>1. req[r].token \in Requests \ ended
      BY <2>1 DEF SessionFound, EndedIsGone, TypeOK, Session
    <3>2. ~req[r].dead
      BY <1>3, <1>6, <3>1, NoneAssumption DEF BySession, Dead
    <3> QED BY <1>2, <2>1, <3>2, AuthedEffect
  <2>2. CASE Proceed(r, "tryKey")
    BY <1>1, <2>2, ProceedEffect
  <2>3. CASE Answer(r, "refused")
    BY <2>3, AnswerEffect
  <2> QED BY <1>6, <2>1, <2>2, <2>3 DEF BySession
<1>7. CASE ByKey(r)
  <2>1. CASE \E a \in Accounts : /\ KeyFound(req[r].key, a)
                                 /\ req' = [req EXCEPT ![r].pc = "authed", ![r].account = a]
    <3>1. req[r].key # None /\ req[r].key \notin ended
      BY <2>1 DEF KeyFound, EndedIsGone
    <3>2. ~req[r].dead
      BY <1>3, <1>7, <3>1 DEF ByKey, At, Dead
    <3> QED BY <1>2, <2>1, <3>2, AuthedEffect
  <2>2. CASE Answer(r, "refused")
    BY <2>2, AnswerEffect
  <2> QED BY <1>7, <2>1, <2>2 DEF ByKey
<1>8. CASE CreateAccount(r) \/ CheckLogin(r)
  <2>1. ~req[r].dead
    BY <1>3, <1>8 DEF CreateAccount, CheckLogin, At, Dead, PublicOps
  <2>2. CASE Proceed(r, "checked")
    BY <1>2, <2>1, <2>2, ProceedEffect
  <2>3. CASE Answer(r, "refused")
    BY <2>3, AnswerEffect
  <2> QED BY <1>8, <2>2, <2>3 DEF CreateAccount, CheckLogin
<1>9. CASE CheckPassword(r)
  <2>1. ~req[r].dead
    BY <1>4, <1>9 DEF CheckPassword, At
  <2> QED BY <1>2, <1>9, <2>1, ProceedEffect, AnswerEffect DEF CheckPassword
<1>10. CASE CheckKey(r)
  <2>1. /\ ~req[r].dead /\ keyOf[req[r].account] \in Requests \cup {None}
    BY <1>4, <1>10 DEF CheckKey, At, Phases, TypeOK, Request
  <2>2. CASE req' = [req EXCEPT ![r].pc = "checked", ![r].key = keyOf[req[r].account]]
    BY <1>2, <2>1, <2>2, CheckKeyEffect
  <2>3. CASE Answer(r, "refused")
    BY <2>3, AnswerEffect
  <2> QED BY <1>10, <2>2, <2>3 DEF CheckKey
<1>11. CASE RevealKey(r)
  <2>1. ~req[r].dead /\ req[r].account \in Accounts
    BY <1>1, <1>4, <1>11 DEF RevealKey, At, Phases, Request
  <2>2. CASE keyOf[req[r].account] # None
    <3>1. keyOf[req[r].account] \in Requests
      BY <2>1, <2>2 DEF TypeOK
    <3> QED BY <1>2, <1>11, <2>1, <2>2, <3>1, RevealEffect DEF RevealKey
  <2>3. CASE keyOf[req[r].account] = None
    BY <1>11, <2>3, AnswerEffect DEF RevealKey
  <2> QED BY <2>2, <2>3
<1>12. CASE \/ OpenSession(r) \/ Logout(r) \/ ChangePassword(r) \/ InsertKey(r)
            \/ ResetKey(r) \/ Serve(r)
  <2>1. ~req[r].dead
    BY <1>4, <1>12 DEF OpenSession, Logout, ChangePassword, InsertKey, ResetKey, Serve, At
  <2>2. Answer(r, "ok") \/ Answer(r, "refused")
    BY <1>12 DEF OpenSession, Logout, ChangePassword, InsertKey, ResetKey, Serve
  <2> QED BY <1>2, <2>1, <2>2, AnswerEffect
<1>13. CASE Fail(r)
  BY <1>13, AnswerEffect DEF Fail
<1> QED
  BY <1>5, <1>6, <1>7, <1>8, <1>9, <1>10, <1>11, <1>12, <1>13 DEF RequestStep

LEMMA RefusedStep ==
    ASSUME TypeOK, Phases, DeadStays, EndedIsGone, RevokedIsRefused, [Next]_vars
    PROVE  RevokedIsRefused'
<1>1. CASE Restart
  BY <1>1, RestartEffect DEF RevokedIsRefused
<1>2. CASE Tick \/ UNCHANGED vars
  BY <1>2 DEF Tick, vars, RevokedIsRefused
<1> QED BY <1>1, <1>2, RequestRefused DEF Next

LEMMA AuthInvInit == Init => AuthInv
<1> SUFFICES ASSUME Init PROVE AuthInv
  OBVIOUS
<1>1. \A r \in Requests : req[r] = Unused
  BY DEF Init
<1>2. Given /\ DeadStays /\ RevokedIsRefused /\ ShownKeyWorks
  BY <1>1 DEF Init, Unused, Given, DeadStays, RevokedIsRefused, ShownKeyWorks, Answered
<1>3. NoSessionOutlivesChange /\ EndedIsGone
  BY NoneAssumption DEF Init, NoSessionOutlivesChange, EndedIsGone
<1> QED BY <1>2, <1>3, TypeInit, WinnersInit, OwnersInit DEF AuthInv

\* The whole strengthening is an inductive invariant.
THEOREM AuthInvariant == Spec => []AuthInv
<1>1. AuthInv /\ [Next]_vars => AuthInv'
  BY TypeStep, GivenStep, OwnersStep, DeadStep, EndedStep, WinnersStep, RefusedStep,
     OutliveStep, ShownStep DEF AuthInv
<1> QED BY <1>1, AuthInvInit, PTL DEF Spec

\* A request whose credentials had all been deleted, replaced or outlived before it
\* arrived is never authenticated.
THEOREM RevokedStaysRefused == Spec => []RevokedIsRefused
<1>1. AuthInv => RevokedIsRefused
  BY DEF AuthInv
<1> QED BY <1>1, AuthInvariant, PTL

----------------------------------------------------------------------------
(* The server is a guard: each step is one of AccessControl, or none. *)

\* A request that answers with a new session or a new key.
GivesOut(request) ==
    request.reply = "ok" /\ request.op \in {"register", "login", "generateKey", "resetKey"}

\* Everything that is good was given out.
LEMMA HeldIssued ==
    ASSUME Given, NEW h \in Held
    PROVE  h.cred \in Issued
<1>1. ASSUME NEW s \in sessions PROVE s.token \in Issued
  BY DEF Given, Issued
<1>2. ASSUME NEW a \in Accounts, keyOf[a] # None PROVE keyOf[a] \in Issued
  BY <1>2 DEF Given, Issued
<1> QED BY <1>1, <1>2 DEF Held

\* Only the view of the request that moves can change.
LEMMA ViewFrame ==
    ASSUME NEW r \in Requests, \A q \in Requests : q # r => req'[q] = req[q],
           req[r].reply # "ok"
    PROVE  /\ Presented' = [Presented EXCEPT ![r] = PresentedBy(req'[r])]
           /\ Granted' = [Granted EXCEPT ![r] = ActingFor(req'[r])]
           /\ Issued' = Issued \cup (IF GivesOut(req'[r]) THEN {r} ELSE {})
           /\ r \notin Issued
           /\ Presented[r] = PresentedBy(req[r]) /\ Granted[r] = ActingFor(req[r])
<1>1. Presented' = [Presented EXCEPT ![r] = PresentedBy(req'[r])]
  BY DEF Presented
<1>2. Granted' = [Granted EXCEPT ![r] = ActingFor(req'[r])]
  BY DEF Granted
<1>3. \A q \in Requests : q # r => (q \in Issued' <=> q \in Issued)
  BY DEF Issued, Cookies, Bearers, Answered
<1>4. r \in Issued' <=> GivesOut(req'[r])
  BY DEF Issued, Cookies, Bearers, Answered, GivesOut
<1>5. r \notin Issued /\ Issued \subseteq Requests /\ Issued' \subseteq Requests
  BY DEF Issued, Cookies, Bearers, Answered
<1>6. Presented[r] = PresentedBy(req[r]) /\ Granted[r] = ActingFor(req[r])
  BY DEF Presented, Granted
<1> HIDE DEF Issued
<1> QED BY <1>1, <1>2, <1>3, <1>4, <1>5, <1>6

\* A request that goes on unseen, or ends without success.
LEMMA DropMaps ==
    ASSUME NEW r \in Requests, \A q \in Requests : q # r => req'[q] = req[q],
           req[r].reply # "ok", ~GivesOut(req'[r]),
           UNCHANGED <<sessions, keyOf, clock>>,
           \/ PresentedBy(req'[r]) = PresentedBy(req[r]) /\ ActingFor(req'[r]) = ActingFor(req[r])
           \/ PresentedBy(req'[r]) = {} /\ ActingFor(req'[r]) = None
    PROVE  Guard!Drop
<1>1. Held' = Held
  BY DEF Held
<1>2. Issued' = Issued
  BY ViewFrame
<1>3. /\ Presented' = [q \in Requests |-> Presented'[q]]
      /\ Granted' = [q \in Requests |-> Granted'[q]]
  BY DEF Presented, Granted
<1>4. ASSUME NEW q \in Requests
      PROVE  \/ Presented'[q] = Presented[q] /\ Granted'[q] = Granted[q]
             \/ Presented'[q] = {} /\ Granted'[q] = None
  <2>1. CASE q = r
    BY <2>1 DEF Presented, Granted
  <2>2. CASE q # r
    BY <2>2 DEF Presented, Granted
  <2> QED BY <2>1, <2>2
<1> QED BY <1>1, <1>2, <1>3, <1>4 DEF Guard!Drop, Guard!Loses

\* A credential that the middleware finds is good and was presented.
LEMMA GrantMaps ==
    ASSUME TypeOK, NEW r \in Requests, NEW a \in Accounts, req[r].reply # "ok",
           req[r].reply = "none", req[r].op \notin PublicOps, req[r].pc \in {"arrived", "tryKey"},
           req' = [req EXCEPT ![r].pc = "authed", ![r].account = a],
           UNCHANGED <<sessions, keyOf, clock>>,
           SessionFound(req[r].token, a) \/ KeyFound(req[r].key, a)
    PROVE  \E h \in Held : Guard!Grant(r, h)
<1>1. /\ \A q \in Requests : q # r => req'[q] = req[q]
      /\ req'[r].pc = "authed" /\ req'[r].account = a
      /\ req'[r].op = req[r].op /\ req'[r].reply = req[r].reply
  BY AuthedEffect
<1>2. PresentedBy(req'[r]) = {} /\ ActingFor(req'[r]) = a /\ ~GivesOut(req'[r])
  BY <1>1 DEF PresentedBy, ActingFor, GivesOut
<1>3. Held' = Held
  BY DEF Held
<1>4. /\ Presented' = [Presented EXCEPT ![r] = {}] /\ Granted' = [Granted EXCEPT ![r] = a]
      /\ Issued' = Issued /\ Presented[r] = {req[r].token, req[r].key} \ {None}
  BY <1>1, <1>2, ViewFrame DEF PresentedBy
<1>5. CASE SessionFound(req[r].token, a)
  <2>1. PICK s \in sessions : s.token = req[r].token /\ s.account = a /\ s.expires >= clock
    BY <1>5 DEF SessionFound, Fresh
  <2> DEFINE h == [cred |-> s.token, owner |-> s.account, until |-> {s.expires}]
  <2>2. h \in Held
    BY DEF Held
  <2>3. s.token \in Requests
    BY DEF TypeOK, Session
  <2>4. h.cred \in Presented[r] /\ h.owner = a
    BY <1>4, <2>1, <2>3, NoneAssumption
  <2>5. Guard!InTime(h)
    BY <2>1 DEF Guard!InTime
  <2> HIDE DEF h
  <2> QED BY <1>3, <1>4, <2>2, <2>4, <2>5 DEF Guard!Grant
<1>6. CASE KeyFound(req[r].key, a)
  <2> DEFINE h == [cred |-> keyOf[a], owner |-> a, until |-> {}]
  <2>1. keyOf[a] = req[r].key /\ keyOf[a] # None
    BY <1>6 DEF KeyFound
  <2>2. h \in Held
    BY <2>1 DEF Held
  <2>3. h.cred \in Presented[r] /\ h.owner = a
    BY <1>4, <2>1
  <2>4. Guard!InTime(h)
    BY DEF Guard!InTime
  <2> HIDE DEF h
  <2> QED BY <1>3, <1>4, <2>2, <2>3, <2>4 DEF Guard!Grant
<1> QED BY <1>5, <1>6

\* A request that answers with a new session or key, and may replace its own.
LEMMA IssueMaps ==
    ASSUME Given, NEW r \in Requests, \A q \in Requests : q # r => req'[q] = req[q],
           req[r].reply # "ok", GivesOut(req'[r]), UNCHANGED clock,
           PresentedBy(req'[r]) = PresentedBy(req[r]), ActingFor(req'[r]) = ActingFor(req[r]),
           NEW h, h.cred = r, ActingFor(req[r]) \in {h.owner, None},
           h \in Held', Held' \subseteq Held \cup {h},
           \A g \in Held \ Held' : g.owner = ActingFor(req[r])
    PROVE  h \in Held' \ Held /\ Guard!Issue(r, h)
<1>1. /\ Issued' = Issued \cup {r} /\ r \notin Issued
      /\ Granted[r] = ActingFor(req[r])
  BY ViewFrame
<1>2. UNCHANGED <<Presented, Granted>>
  <2>1. \A q \in Requests : /\ PresentedBy(req'[q]) = PresentedBy(req[q])
                            /\ ActingFor(req'[q]) = ActingFor(req[q])
    OBVIOUS
  <2> QED BY <2>1 DEF Presented, Granted
<1>3. h \notin Held
  BY <1>1, HeldIssued
<1> QED BY <1>1, <1>2, <1>3 DEF Guard!Issue, Guard!Loses, Guard!OwnedBy

\* A request that acts for an account and ends credentials of this account.
LEMMA RevokeMaps ==
    ASSUME NEW r \in Requests, \A q \in Requests : q # r => req'[q] = req[q],
           req[r].reply # "ok", ~GivesOut(req'[r]), UNCHANGED <<clock, keyOf>>,
           PresentedBy(req'[r]) = PresentedBy(req[r]), ActingFor(req'[r]) = ActingFor(req[r]),
           ActingFor(req[r]) # None, sessions' \subseteq sessions,
           \A s \in sessions \ sessions' : s.account = ActingFor(req[r])
    PROVE  Guard!Revoke(r)
<1>1. Issued' = Issued /\ Granted[r] = ActingFor(req[r])
  BY ViewFrame
<1>2. UNCHANGED <<Presented, Granted>>
  <2>1. \A q \in Requests : /\ PresentedBy(req'[q]) = PresentedBy(req[q])
                            /\ ActingFor(req'[q]) = ActingFor(req[q])
    OBVIOUS
  <2> QED BY <2>1 DEF Presented, Granted
<1>3. Held' \subseteq Held /\ \A g \in Held \ Held' : g.owner = ActingFor(req[r])
  BY DEF Held
<1> QED BY <1>1, <1>2, <1>3 DEF Guard!Revoke, Guard!Loses, Guard!OwnedBy

\* Answers that end a request without success.
LEMMA EndMaps ==
    ASSUME TypeOK, NEW r \in Requests, req[r].reply # "ok",
           NEW reply \in {"refused", "failed"}, Answer(r, reply),
           UNCHANGED <<sessions, keyOf, clock>>
    PROVE  Guard!Drop
<1>1. /\ \A q \in Requests : q # r => req'[q] = req[q]
      /\ req'[r].pc = "answered" /\ req'[r].reply = reply /\ req'[r].reply # "ok"
  BY AnswerEffect
<1>2. PresentedBy(req'[r]) = {} /\ ActingFor(req'[r]) = None /\ ~GivesOut(req'[r])
  BY <1>1 DEF PresentedBy, ActingFor, GivesOut
<1> QED BY <1>1, <1>2, DropMaps

\* Each step of a request is one of the guard, or none.
LEMMA RequestGuards ==
    ASSUME TypeOK, Phases, Given, Owners, NEW r \in Requests, RequestStep(r)
    PROVE  Guard!ANext
<1>0. /\ req[r] \in Request
      /\ req[r].pc \in {"authed", "checked"} => req[r].account \in Accounts
  BY DEF TypeOK, Phases, Request
<1>1. /\ \A q \in Requests : q # r => req'[q] = req[q]
      /\ req[r].pc # "answered" /\ req[r].reply = "none"
  BY StepFrame DEF Phases
<1>2. ASSUME Guard!Drop PROVE Guard!ANext
  BY <1>2 DEF Guard!ANext
<1>3. ASSUME NEW reply \in {"refused", "failed"}, Answer(r, reply),
             UNCHANGED <<sessions, keyOf, clock>>
      PROVE  Guard!ANext
  BY <1>1, <1>2, <1>3, EndMaps
<1>4. CASE ArrivePublic(r) \/ ArriveSession(r) \/ ArriveKey(r) \/ ArriveAny(r)
  <2>1. /\ req[r].pc = "idle" /\ req'[r].pc = "arrived" /\ req'[r].reply = "none"
        /\ req'[r].token \in Cookies \cup {None} /\ req'[r].key \in Bearers \cup {None}
        /\ UNCHANGED <<sessions, keyOf, clock>>
    BY <1>4, ArrivalEffect
  <2>2. /\ PresentedBy(req'[r]) \subseteq Issued /\ ~GivesOut(req'[r])
        /\ ActingFor(req'[r]) = None /\ ActingFor(req[r]) = None /\ PresentedBy(req[r]) = {}
    BY <1>1, <2>1 DEF PresentedBy, ActingFor, GivesOut, Issued
  <2>3. Held' = Held
    BY <2>1 DEF Held
  <2>4. /\ Issued' = Issued /\ Presented[r] = {} /\ Granted[r] = None
        /\ Presented' = [Presented EXCEPT ![r] = PresentedBy(req'[r])]
        /\ Granted' = [Granted EXCEPT ![r] = None]
    BY <1>1, <2>2, ViewFrame
  <2>5. Granted' = Granted
    BY <2>4 DEF Granted
  <2>6. Presented'[r] = PresentedBy(req'[r])
    BY DEF Presented
  <2>7. CASE PresentedBy(req'[r]) # {}
    <3>1. Guard!Present(r)
      BY <2>1, <2>2, <2>3, <2>4, <2>5, <2>6, <2>7 DEF Guard!Present
    <3> QED BY <3>1 DEF Guard!ANext
  <2>8. CASE PresentedBy(req'[r]) = {}
    BY <1>1, <1>2, <2>1, <2>2, <2>8, DropMaps
  <2> QED BY <2>7, <2>8
<1>5. CASE BySession(r)
  <2>1. /\ req[r].pc = "arrived" /\ req[r].op \notin PublicOps
        /\ UNCHANGED <<sessions, keyOf, clock>>
    BY <1>5 DEF BySession, SessionOps, PublicOps
  <2>2. CASE \E a \in Accounts : /\ SessionFound(req[r].token, a)
                                 /\ req' = [req EXCEPT ![r].pc = "authed", ![r].account = a]
    <3>1. \E h \in Held : Guard!Grant(r, h)
      BY <1>1, <2>1, <2>2, GrantMaps
    <3> QED BY <3>1 DEF Guard!ANext
  <2>3. CASE Proceed(r, "tryKey")
    <3>1. /\ req'[r].pc = "tryKey" /\ req'[r].op = req[r].op /\ req'[r].token = req[r].token
          /\ req'[r].key = req[r].key /\ req'[r].reply = req[r].reply
      BY <2>3, ProceedEffect
    <3>2. /\ PresentedBy(req'[r]) = PresentedBy(req[r]) /\ ActingFor(req'[r]) = ActingFor(req[r])
          /\ ~GivesOut(req'[r])
      BY <1>1, <2>1, <3>1 DEF PresentedBy, ActingFor, GivesOut
    <3> QED BY <1>1, <1>2, <2>1, <3>2, DropMaps
  <2>4. CASE Answer(r, "refused")
    BY <1>3, <2>1, <2>4
  <2> QED BY <1>5, <2>2, <2>3, <2>4 DEF BySession
<1>6. CASE ByKey(r)
  <2>1. /\ req[r].pc \in {"arrived", "tryKey"} /\ req[r].op \notin PublicOps
        /\ UNCHANGED <<sessions, keyOf, clock>>
    BY <1>6 DEF ByKey, At, PublicOps
  <2>2. CASE \E a \in Accounts : /\ KeyFound(req[r].key, a)
                                 /\ req' = [req EXCEPT ![r].pc = "authed", ![r].account = a]
    <3>1. \E h \in Held : Guard!Grant(r, h)
      BY <1>1, <2>1, <2>2, GrantMaps
    <3> QED BY <3>1 DEF Guard!ANext
  <2>3. CASE Answer(r, "refused")
    BY <1>3, <2>1, <2>3
  <2> QED BY <1>6, <2>2, <2>3 DEF ByKey
<1>7. CASE CreateAccount(r) \/ CheckLogin(r)
  <2>1. req[r].op \in PublicOps /\ UNCHANGED <<sessions, keyOf, clock>>
    BY <1>7 DEF CreateAccount, CheckLogin, At, PublicOps
  <2>2. CASE Proceed(r, "checked")
    <3>1. req'[r].pc = "checked" /\ req'[r].op \in PublicOps /\ req'[r].reply = "none"
      BY <1>1, <2>1, <2>2, ProceedEffect
    <3>2. PresentedBy(req'[r]) = {} /\ ActingFor(req'[r]) = None /\ ~GivesOut(req'[r])
      BY <3>1 DEF PresentedBy, ActingFor, GivesOut
    <3> QED BY <1>1, <1>2, <2>1, <3>2, DropMaps
  <2>3. CASE Answer(r, "refused")
    BY <1>3, <2>1, <2>3
  <2> QED BY <1>7, <2>2, <2>3 DEF CreateAccount, CheckLogin
<1>8. CASE CheckPassword(r)
  <2>1. req[r].pc = "authed" /\ UNCHANGED <<sessions, keyOf, clock>>
    BY <1>8 DEF CheckPassword, At
  <2>2. CASE Proceed(r, "checked")
    <3>1. /\ req'[r].pc = "checked" /\ req'[r].op = req[r].op
          /\ req'[r].account = req[r].account /\ req'[r].reply = "none"
      BY <1>1, <2>2, ProceedEffect
    <3>2. /\ PresentedBy(req'[r]) = PresentedBy(req[r]) /\ ActingFor(req'[r]) = ActingFor(req[r])
          /\ ~GivesOut(req'[r])
      BY <2>1, <3>1 DEF PresentedBy, ActingFor, GivesOut
    <3> QED BY <1>1, <1>2, <2>1, <3>2, DropMaps
  <2>3. CASE Answer(r, "refused")
    BY <1>3, <2>1, <2>3
  <2> QED BY <1>8, <2>2, <2>3 DEF CheckPassword
<1>9. CASE CheckKey(r)
  <2>1. /\ req[r].pc = "authed" /\ UNCHANGED <<sessions, keyOf, clock>>
        /\ keyOf[req[r].account] \in Requests \cup {None}
    BY <1>0, <1>9 DEF CheckKey, At, TypeOK
  <2>2. CASE req' = [req EXCEPT ![r].pc = "checked", ![r].key = keyOf[req[r].account]]
    <3>1. /\ req'[r].pc = "checked" /\ req'[r].op = req[r].op
          /\ req'[r].account = req[r].account /\ req'[r].reply = req[r].reply
      BY <2>1, <2>2, CheckKeyEffect
    <3>2. /\ PresentedBy(req'[r]) = PresentedBy(req[r]) /\ ActingFor(req'[r]) = ActingFor(req[r])
          /\ ~GivesOut(req'[r])
      BY <1>1, <2>1, <3>1 DEF PresentedBy, ActingFor, GivesOut
    <3> QED BY <1>1, <1>2, <2>1, <3>2, DropMaps
  <2>3. CASE Answer(r, "refused")
    BY <1>3, <2>1, <2>3
  <2> QED BY <1>9, <2>2, <2>3 DEF CheckKey
<1>10. CASE RevealKey(r)
  <2>1. /\ req[r].pc = "authed" /\ req[r].op = "revealKey" /\ req[r].account \in Accounts
        /\ UNCHANGED <<sessions, keyOf, clock>>
    BY <1>0, <1>10 DEF RevealKey, At
  <2>2. CASE keyOf[req[r].account] # None
    <3>1. keyOf[req[r].account] \in Requests
      BY <2>1, <2>2 DEF TypeOK
    <3>2. /\ req'[r].pc = "answered" /\ req'[r].op = "revealKey"
          /\ req'[r].account = req[r].account /\ req'[r].reply = "ok"
      BY <1>10, <2>1, <2>2, <3>1, RevealEffect DEF RevealKey
    <3>3. /\ PresentedBy(req'[r]) = PresentedBy(req[r]) /\ ActingFor(req'[r]) = ActingFor(req[r])
          /\ ~GivesOut(req'[r])
      BY <2>1, <3>2 DEF PresentedBy, ActingFor, GivesOut, PublicOps
    <3> QED BY <1>1, <1>2, <2>1, <3>3, DropMaps
  <2>3. CASE keyOf[req[r].account] = None
    BY <1>3, <1>10, <2>1, <2>3 DEF RevealKey
  <2> QED BY <2>2, <2>3
<1>11. CASE Serve(r)
  <2>1. /\ req[r].pc = "authed" /\ req[r].op \in {"me", "upload", "browse"}
        /\ UNCHANGED <<sessions, keyOf, clock>> /\ Answer(r, "ok")
    BY <1>11 DEF Serve
  <2>2. /\ req'[r].pc = "answered" /\ req'[r].op = req[r].op
        /\ req'[r].account = req[r].account /\ req'[r].reply = "ok"
    BY <2>1, AnswerEffect
  <2>3. /\ PresentedBy(req'[r]) = PresentedBy(req[r]) /\ ActingFor(req'[r]) = ActingFor(req[r])
        /\ ~GivesOut(req'[r])
    BY <2>1, <2>2 DEF PresentedBy, ActingFor, GivesOut
  <2> QED BY <1>1, <1>2, <2>1, <2>3, DropMaps
<1>12. CASE Fail(r)
  <2>1. PICK reply \in {"refused", "failed"} : Answer(r, reply)
    BY <1>12 DEF Fail
  <2> QED BY <1>3, <1>12, <2>1 DEF Fail
<1>13. CASE OpenSession(r)
  <2> DEFINE row == [token |-> r, account |-> req[r].account, expires |-> Whole(clock + Duration),
                     opened |-> req[r].secret, since |-> changes[req[r].account]]
             h   == [cred |-> row.token, owner |-> row.account, until |-> {row.expires}]
  <2>1. /\ req[r].pc = "checked" /\ req[r].op \in {"register", "login"}
        /\ sessions' = sessions \cup {row} /\ UNCHANGED <<keyOf, clock>> /\ Answer(r, "ok")
    BY <1>13 DEF OpenSession, At
  <2>2. req'[r].pc = "answered" /\ req'[r].op = req[r].op /\ req'[r].reply = "ok"
    BY <2>1, AnswerEffect
  <2>3. /\ PresentedBy(req'[r]) = PresentedBy(req[r]) /\ ActingFor(req'[r]) = ActingFor(req[r])
        /\ GivesOut(req'[r]) /\ ActingFor(req[r]) = None
    BY <2>1, <2>2 DEF PresentedBy, ActingFor, GivesOut, PublicOps
  <2>4. h.cred = r
    OBVIOUS
  <2> HIDE DEF row
  <2>5. Held' = Held \cup {h}
    BY <2>1 DEF Held
  <2> HIDE DEF h
  <2>6. h \in Held' \ Held /\ Guard!Issue(r, h)
    BY <1>1, <2>1, <2>3, <2>4, <2>5, IssueMaps
  <2> QED BY <2>6 DEF Guard!ANext
<1>14. CASE InsertKey(r) \/ ResetKey(r)
  <2> DEFINE a == req[r].account
             h == [cred |-> r, owner |-> a, until |-> {}]
  <2>1. /\ req[r].pc = "checked" /\ req[r].op \in {"generateKey", "resetKey"}
        /\ a \in Accounts /\ UNCHANGED <<sessions, clock>>
    BY <1>0, <1>14 DEF InsertKey, ResetKey, At
  <2>2. CASE keyOf' = [keyOf EXCEPT ![a] = r] /\ Answer(r, "ok")
    <3>1. /\ req'[r].pc = "answered" /\ req'[r].op = req[r].op
          /\ req'[r].account = req[r].account /\ req'[r].reply = "ok"
      BY <2>2, AnswerEffect
    <3>2. /\ PresentedBy(req'[r]) = PresentedBy(req[r]) /\ ActingFor(req'[r]) = ActingFor(req[r])
          /\ GivesOut(req'[r]) /\ ActingFor(req[r]) = a
      BY <2>1, <3>1 DEF PresentedBy, ActingFor, GivesOut, PublicOps
    <3>3. h.cred = r /\ h.owner = a
      OBVIOUS
    <3>4. keyOf'[a] = r /\ r # None /\ \A b \in Accounts : b # a => keyOf'[b] = keyOf[b]
      BY <2>1, <2>2, NoneAssumption DEF TypeOK
    <3> HIDE DEF a
    <3>5. h \in Held'
      BY <2>1, <3>4 DEF Held
    <3>6. Held' \subseteq Held \cup {h}
      BY <2>1, <3>4 DEF Held
    <3>7. \A g \in Held \ Held' : g.owner = a
      BY <2>1, <3>4 DEF Held
    <3> HIDE DEF h
    <3>8. h \in Held' \ Held /\ Guard!Issue(r, h)
      BY <1>1, <2>1, <3>2, <3>3, <3>5, <3>6, <3>7, IssueMaps
    <3> QED BY <3>8 DEF Guard!ANext
  <2>3. CASE UNCHANGED keyOf /\ Answer(r, "refused")
    BY <1>3, <2>1, <2>3
  <2> QED BY <1>14, <2>2, <2>3 DEF InsertKey, ResetKey
<1>15. CASE Logout(r) \/ ChangePassword(r)
  <2>1. /\ req[r].pc \in {"authed", "checked"} /\ req[r].op \in {"logout", "changePassword"}
        /\ UNCHANGED <<keyOf, clock>> /\ sessions' \subseteq sessions /\ Answer(r, "ok")
    BY <1>15 DEF Logout, ChangePassword, At
  <2>2. /\ req'[r].pc = "answered" /\ req'[r].op = req[r].op
        /\ req'[r].account = req[r].account /\ req'[r].reply = "ok"
    BY <2>1, AnswerEffect
  <2>3. /\ PresentedBy(req'[r]) = PresentedBy(req[r]) /\ ActingFor(req'[r]) = ActingFor(req[r])
        /\ ~GivesOut(req'[r]) /\ ActingFor(req[r]) = req[r].account
    BY <2>1, <2>2 DEF PresentedBy, ActingFor, GivesOut, PublicOps
  <2>4. ASSUME NEW s \in sessions \ sessions' PROVE s.account = req[r].account
    <3>1. CASE s.token = req[r].token
      <4>1. req[req[r].token].account = req[r].account
        BY <2>1 DEF Owners, SessionOps
      <4> QED BY <3>1, <4>1 DEF Owners
    <3>2. CASE s.token # req[r].token
      BY <1>15, <3>2 DEF Logout, ChangePassword
    <3> QED BY <3>1, <3>2
  <2>5. ActingFor(req[r]) # None
    BY <1>0, <2>1, <2>3, NoneAssumption
  <2>6. Guard!Revoke(r)
    BY <1>1, <2>1, <2>3, <2>4, <2>5, RevokeMaps
  <2> QED BY <2>6 DEF Guard!ANext
<1> QED
  BY <1>4, <1>5, <1>6, <1>7, <1>8, <1>9, <1>10, <1>11, <1>12, <1>13, <1>14, <1>15
     DEF RequestStep

\* A restart ends what is under way and drops what is past its deadline.
LEMMA RestartGuards ==
    ASSUME TypeOK, Phases, Restart
    PROVE  Guard!Drop
<1>1. /\ UNCHANGED <<keyOf, clock>> /\ sessions' \subseteq sessions
      /\ \A s \in sessions \ sessions' : ~Fresh(s)
  BY WholeBounds DEF Restart, Lapsed, Fresh, TypeOK, Session
<1>2. ASSUME NEW q \in Requests
      PROVE  /\ \/ Presented'[q] = Presented[q] /\ Granted'[q] = Granted[q]
                \/ Presented'[q] = {} /\ Granted'[q] = None
             /\ q \in Issued' <=> q \in Issued
  <2>1. CASE req'[q] = req[q]
    BY <2>1 DEF Presented, Granted, Issued, Cookies, Bearers, Answered
  <2>2. CASE /\ req[q].pc \notin {"idle", "answered"} /\ req'[q].pc = "answered"
             /\ req'[q].reply = "failed" /\ req'[q].op = "none"
    <3>1. Presented'[q] = {} /\ Granted'[q] = None
      BY <2>2 DEF Presented, Granted, PresentedBy, ActingFor
    <3>2. req[q].reply = "none"
      BY <2>2 DEF Phases
    <3>3. q \notin Issued' /\ q \notin Issued
      BY <2>2, <3>2 DEF Issued, Cookies, Bearers, Answered
    <3> QED BY <3>1, <3>3
  <2> QED BY <2>1, <2>2, RestartEffect
<1>3. Issued' = Issued
  <2>1. Issued \subseteq Requests /\ Issued' \subseteq Requests
    BY DEF Issued, Cookies, Bearers
  <2> HIDE DEF Issued
  <2> QED BY <1>2, <2>1
<1>4. Held' \subseteq Held /\ \A h \in Held \ Held' : ~Guard!InTime(h)
  BY <1>1 DEF Held, Guard!InTime, Fresh
<1>5. /\ Presented' = [q \in Requests |-> Presented'[q]]
      /\ Granted' = [q \in Requests |-> Granted'[q]]
  BY DEF Presented, Granted
<1> HIDE DEF Presented, Granted, Issued, Held
<1> QED BY <1>1, <1>2, <1>3, <1>4, <1>5 DEF Guard!Drop, Guard!Loses

LEMMA GuardInit == Init => Guard!AInit
<1> SUFFICES ASSUME Init PROVE Guard!AInit
  OBVIOUS
<1>1. \A r \in Requests : req[r] = Unused
  BY DEF Init
<1>2. Issued = {} /\ Presented = [r \in Requests |-> {}] /\ Granted = [r \in Requests |-> None]
  BY <1>1 DEF Unused, Issued, Cookies, Bearers, Answered, Presented, Granted, PresentedBy, ActingFor
<1>3. Held = {}
  BY DEF Init, Held
<1> QED BY <1>2, <1>3 DEF Init, Guard!AInit

LEMMA GuardStep ==
    ASSUME AuthInv, [Next]_vars
    PROVE  Guard!ANext \/ UNCHANGED Guard!avars
<1> USE DEF AuthInv
<1>1. CASE \E r \in Requests : RequestStep(r)
  BY <1>1, RequestGuards
<1>2. CASE Restart
  BY <1>2, RestartGuards DEF Guard!ANext
<1>3. CASE Tick
  <2>1. clock' > clock /\ UNCHANGED <<sessions, keyOf, req>>
    BY <1>3 DEF Tick, TypeOK
  <2>2. UNCHANGED <<Issued, Held, Presented, Granted>>
    BY <2>1 DEF Issued, Cookies, Bearers, Answered, Held, Presented, Granted
  <2>3. Guard!Pass
    BY <2>1, <2>2 DEF Guard!Pass
  <2> QED BY <2>3 DEF Guard!ANext
<1>4. CASE UNCHANGED vars
  <2>1. UNCHANGED <<Issued, Held, Presented, Granted, clock>>
    BY <1>4 DEF vars, Issued, Cookies, Bearers, Answered, Held, Presented, Granted
  <2> QED BY <2>1 DEF Guard!avars
<1> QED BY <1>1, <1>2, <1>3, <1>4 DEF Next

\* However the statements of overlapping requests interleave with expiry, failures
\* and restarts, the server implements AccessControl: a request acts for an account
\* only on a good credential of that account (middleware.go:172-255), and nothing
\* another account does ends it (sessions.go:51-72, accounts.go:56-71, keys.go:34-54).
THEOREM ServerGuards == Spec => GuardsAccounts
<1>1. AuthInv /\ [Next]_vars => [Guard!ANext]_(Guard!avars)
  BY GuardStep
<1> QED BY <1>1, GuardInit, AuthInvariant, PTL DEF Spec, GuardsAccounts, Guard!ASpec
=============================================================================
