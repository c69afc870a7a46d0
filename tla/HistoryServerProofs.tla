------------------------ MODULE HistoryServerProofs ------------------------
(***************************************************************************)
(* Theorems about HistoryServer, for every value of its constants.         *)
(***************************************************************************)
EXTENDS HistoryServer, FiniteSetTheorems, TLAPS

(* The order of the rows and what deleteOverflowSQL leaves. *)

\* Two different rows are ordered, one way or the other.
LEMMA NewerTotal ==
    ASSUME NEW g \in Row, NEW h \in Row, g.id # h.id
    PROVE  Newer(g, h) \/ Newer(h, g)
  BY DEF Newer, Row

LEMMA NewerTransitive ==
    ASSUME NEW f \in Row, NEW g \in Row, NEW h \in Row, Newer(f, g), Newer(g, h)
    PROVE  Newer(f, h)
  BY DEF Newer, Row

LEMMA NewerStrict == ASSUME NEW h \in Row PROVE ~Newer(h, h)
  BY DEF Newer, Row

\* The rank of a row is a number, and grows with the rows.
LEMMA RankType ==
    ASSUME NEW rows, IsFiniteSet(rows), NEW h
    PROVE  Rank(h, rows) \in Nat
<1>1. {g \in rows : Newer(g, h)} \in SUBSET rows
  OBVIOUS
<1> QED BY <1>1, FS_Subset, FS_CardinalityType DEF Rank

LEMMA RankGrows ==
    ASSUME NEW rows, IsFiniteSet(rows), NEW some \in SUBSET rows, NEW h
    PROVE  Rank(h, some) <= Rank(h, rows)
<1> DEFINE New(s) == {g \in s : Newer(g, h)}
<1>1. New(rows) \in SUBSET rows /\ New(some) \in SUBSET New(rows)
  OBVIOUS
<1>2. IsFiniteSet(New(rows))
  BY <1>1, FS_Subset
<1>3. Cardinality(New(some)) <= Cardinality(New(rows))
  BY <1>1, <1>2, FS_Subset
<1> QED BY <1>3 DEF Rank

\* A newer row has a smaller rank.
LEMMA RankOrder ==
    ASSUME NEW rows \in SUBSET Row, IsFiniteSet(rows),
           NEW g \in rows, NEW h \in rows, Newer(g, h)
    PROVE  Rank(g, rows) < Rank(h, rows)
<1> DEFINE New(x) == {y \in rows : Newer(y, x)}
<1>1. New(h) \in SUBSET rows /\ New(g) \in SUBSET New(h)
  BY NewerTransitive
<1>2. g \in New(h) /\ g \notin New(g)
  BY NewerStrict
<1>3. IsFiniteSet(New(h)) /\ IsFiniteSet(New(g))
  BY <1>1, FS_Subset
<1>4. Cardinality(New(g)) <= Cardinality(New(h)) /\ Cardinality(New(g)) # Cardinality(New(h))
  BY <1>1, <1>2, <1>3, FS_Subset
<1>5. Cardinality(New(g)) \in Nat /\ Cardinality(New(h)) \in Nat
  BY <1>3, FS_CardinalityType
<1>6. Rank(g, rows) = Cardinality(New(g)) /\ Rank(h, rows) = Cardinality(New(h))
  BY DEF Rank
<1> QED BY <1>4, <1>5, <1>6

\* Rows with different ids: no more than n of them are left.
LEMMA NewestBounded ==
    ASSUME NEW rows \in SUBSET Row, IsFiniteSet(rows), NEW n \in Nat,
           \A g, h \in rows : g.id = h.id => g = h
    PROVE  Cardinality(Newest(rows, n)) <= n
<1> DEFINE left  == Newest(rows, n)
           ranks == 0 .. n - 1
           place == [h \in left |-> Rank(h, rows)]
<1>1. left \in SUBSET rows
  BY DEF Newest
<1>2. IsFiniteSet(left) /\ Cardinality(left) \in Nat
  BY <1>1, FS_Subset, FS_CardinalityType
<1>3. IsFiniteSet(ranks) /\ Cardinality(ranks) = n
  BY FS_Interval
<1>4. place \in [left -> ranks]
  BY RankType DEF Newest
<1> SUFFICES ASSUME n < Cardinality(left) PROVE FALSE
  BY <1>2
<1> HIDE DEF left, ranks, place
<1>5. PICK g, h \in left : g # h /\ place[g] = place[h]
  BY <1>2, <1>3, <1>4, FS_PigeonHole
<1>6. Newer(g, h) \/ Newer(h, g)
  BY <1>1, <1>5, NewerTotal
<1>7. Rank(g, rows) # Rank(h, rows)
  <2>1. Rank(g, rows) \in Nat /\ Rank(h, rows) \in Nat
    BY RankType
  <2> QED BY <1>1, <1>6, <2>1, RankOrder
<1> QED BY <1>5, <1>7 DEF place

\* Trimming an account deletes rows of that account only.
LEMMA TrimFrame ==
    ASSUME NEW account \in Accounts, NEW rows
    PROVE  /\ Trimmed(account, rows) \subseteq rows
           /\ Of(account, Trimmed(account, rows)) = Newest(Of(account, rows), limit)
           /\ \A b \in Accounts : b # account => Of(b, Trimmed(account, rows)) = Of(b, rows)
  BY DEF Trimmed, Of, Newest

\* What it deletes has at least as many newer rows as the limit, in the table
\* and in every larger set of rows.
LEMMA TrimEvicts ==
    ASSUME NEW account \in Accounts, limit \in Nat,
           NEW all, IsFiniteSet(all), NEW rows \in SUBSET all,
           NEW h \in rows, h \notin Trimmed(account, rows)
    PROVE  Rank(h, Of(h.account, all)) >= limit
<1>1. h.account = account /\ h \in Of(account, rows) /\ h \notin Newest(Of(account, rows), limit)
  BY DEF Trimmed, Of
<1>2. Of(account, all) \in SUBSET all /\ Of(account, rows) \in SUBSET Of(account, all)
  BY DEF Of
<1>3. IsFiniteSet(Of(account, all)) /\ IsFiniteSet(Of(account, rows))
  BY <1>2, FS_Subset
<1>4. Rank(h, Of(account, rows)) \in Nat /\ Rank(h, Of(account, all)) \in Nat
  BY <1>3, RankType
<1>5. Rank(h, Of(account, rows)) >= limit
  BY <1>1, <1>4 DEF Newest
<1>6. Rank(h, Of(account, rows)) <= Rank(h, Of(account, all))
  BY <1>2, <1>3, RankGrows
<1> QED BY <1>1, <1>4, <1>5, <1>6

\* Inserting rows never takes evidence of an overflow away.
LEMMA EvidenceStays ==
    ASSUME NEW more, IsFiniteSet(more), NEW all \in SUBSET more, NEW h, NEW l \in Nat,
           Rank(h, Of(h.account, all)) >= l
    PROVE  Rank(h, Of(h.account, more)) >= l
<1>1. Of(h.account, more) \in SUBSET more /\ Of(h.account, all) \in SUBSET Of(h.account, more)
  BY DEF Of
<1>2. IsFiniteSet(Of(h.account, more)) /\ IsFiniteSet(Of(h.account, all))
  BY <1>1, FS_Subset
<1>3. Rank(h, Of(h.account, all)) \in Nat /\ Rank(h, Of(h.account, more)) \in Nat
  BY <1>2, RankType
<1>4. Rank(h, Of(h.account, all)) <= Rank(h, Of(h.account, more))
  BY <1>1, <1>2, RankGrows
<1> QED BY <1>3, <1>4

----------------------------------------------------------------------------
(* Types *)

\* What the handlers write into a request is a request.
LEMMA AnswerShape ==
    ASSUME NEW op \in {"upload", "list", "get", "delete", "batchDelete", "clear"},
           NEW a \in Accounts, NEW rows \in SUBSET Row, NEW n \in Nat,
           NEW reply \in {"ok", "notFound", "failed"}
    PROVE  Answered(op, a, rows, n, reply) \in Request
  BY DEF Answered, Unused, Request

\* A set of rows of the table has a size.
LEMMA Countable ==
    ASSUME TypeOK, Ledger, NEW rows \in SUBSET history
    PROVE  rows \in SUBSET Row /\ IsFiniteSet(rows) /\ Cardinality(rows) \in Nat
<1>1. rows \in SUBSET inserted /\ rows \in SUBSET Row
  BY DEF Ledger, TypeOK
<1> QED BY <1>1, FS_Subset, FS_CardinalityType DEF Ledger

\* A deletion keeps the types.
LEMMA EraseType ==
    ASSUME TypeOK, Ledger, NEW r \in Requests, NEW op \in {"delete", "batchDelete", "clear"},
           NEW a \in Accounts, NEW rows \in SUBSET history, NEW reply \in {"ok", "notFound"},
           Erase(r, op, a, rows, Cardinality(rows), reply)
    PROVE  TypeOK'
<1>1. rows \in SUBSET Row /\ Cardinality(rows) \in Nat
  BY Countable
<1>2. Answered(op, a, {}, Cardinality(rows), reply) \in Request
  BY <1>1, AnswerShape
<1>3. req' \in [Requests -> Request]
  BY <1>2 DEF Erase, TypeOK
<1> QED BY <1>1, <1>3 DEF Erase, TypeOK, serverVars

\* The three deletions are such deletions.
LEMMA DeletionRows ==
    ASSUME NEW r \in Requests, NEW a \in Accounts,
           \/ \E id \in Ids : Delete(r, a, id)
           \/ \E ids \in SUBSET Ids : BatchDelete(r, a, ids)
           \/ Clear(r, a)
    PROVE  \E op \in {"delete", "batchDelete", "clear"}, rows \in SUBSET Of(a, history),
              reply \in {"ok", "notFound"} : Erase(r, op, a, rows, Cardinality(rows), reply)
<1>1. ASSUME NEW id \in Ids, Delete(r, a, id)
      PROVE  \E rows \in SUBSET Of(a, history), reply \in {"ok", "notFound"} :
                Erase(r, "delete", a, rows, Cardinality(rows), reply)
  BY <1>1 DEF Delete
<1>2. ASSUME NEW ids \in SUBSET Ids, BatchDelete(r, a, ids)
      PROVE  \E rows \in SUBSET Of(a, history) :
                Erase(r, "batchDelete", a, rows, Cardinality(rows), "ok")
  BY <1>2 DEF BatchDelete
<1>3. ASSUME Clear(r, a)
      PROVE  \E rows \in SUBSET Of(a, history) :
                Erase(r, "clear", a, rows, Cardinality(rows), "ok")
  BY <1>3 DEF Clear
<1> QED BY <1>1, <1>2, <1>3

\* A restart turns the requests in progress into failed ones.
LEMMA RestartType ==
    ASSUME TypeOK, Working, NEW l \in Limits, Restart(l)
    PROVE  TypeOK'
<1>1. ASSUME NEW r \in Requests PROVE req'[r] \in Request
  <2>1. CASE req[r].pc \in {"stamped", "listed"}
    <3>1. Answered(req[r].op, req[r].account, {}, 0, "failed") \in Request
      BY <2>1, AnswerShape DEF Working
    <3> QED BY <2>1, <3>1 DEF Restart
  <2>2. CASE req[r].pc \notin {"stamped", "listed"}
    BY <2>2 DEF Restart, TypeOK
  <2> QED BY <2>1, <2>2
<1>2. req' \in [Requests -> Request]
  BY <1>1 DEF Restart
<1>3. todo' \in SUBSET Accounts
  BY DEF Restart, TypeOK, Row
<1> QED BY <1>2, <1>3 DEF Restart, TypeOK

\* The types survive every step.
LEMMA TypeStep == TypeOK /\ Ledger /\ Working /\ [Next]_vars => TypeOK'
<1> SUFFICES ASSUME TypeOK, Ledger, Working, [Next]_vars PROVE TypeOK'
  OBVIOUS
<1>1. ASSUME NEW r \in Requests, NEW a \in Accounts, UploadStamps(r, a) PROVE TypeOK'
  <2>1. [Unused EXCEPT !.op = "upload", !.pc = "stamped", !.account = a, !.at = clock] \in Request
    BY DEF Unused, Request, TypeOK
  <2> QED BY <1>1, <2>1 DEF UploadStamps, TypeOK, serverVars
<1>2. ASSUME NEW r \in Requests, UploadCommits(r) PROVE TypeOK'
  <2> DEFINE row == [id |-> nextId, account |-> req[r].account, at |-> req[r].at]
  <2>1. req[r].account \in Accounts /\ req[r].at \in Nat
    BY <1>2 DEF UploadCommits, Working, TypeOK, Request
  <2>2. row \in Row
    BY <2>1 DEF Row, TypeOK
  <2>3. Answered("upload", req[r].account, {}, 0, "ok") \in Request
    BY <2>1, AnswerShape
  <2>4. req' \in [Requests -> Request]
    BY <1>2, <2>3 DEF UploadCommits, TypeOK
  <2>5. history' \in SUBSET Row
    BY <1>2, <2>1, <2>2, TrimFrame DEF UploadCommits, TypeOK
  <2>6. inserted' \in SUBSET Row /\ nextId' \in Nat
    BY <1>2, <2>2 DEF UploadCommits, TypeOK
  <2> QED BY <1>2, <2>4, <2>5, <2>6 DEF UploadCommits, TypeOK, serverVars
<1>3. ASSUME NEW r \in Requests, NEW a \in Accounts, NEW p \in 1..2, NEW from \in 0..MaxClock,
             ListSelects(r, a, p, from)
      PROVE  TypeOK'
  <2>1. PageOf(Matching(a, from), p) \in SUBSET Row
    BY DEF PageOf, Matching, Of, TypeOK
  <2>2. from \in Nat /\ p \in Nat
    BY NumbersAssumption
  <2>3. [Unused EXCEPT !.op = "list", !.pc = "listed", !.account = a, !.at = from, !.page = p,
                       !.items = PageOf(Matching(a, from), p)] \in Request
    BY <2>1, <2>2 DEF Unused, Request
  <2> QED BY <1>3, <2>3 DEF ListSelects, TypeOK, serverVars
<1>4. ASSUME NEW r \in Requests, ListCounts(r) PROVE TypeOK'
  <2> DEFINE rows == Matching(req[r].account, req[r].at)
  <2>1. rows \in SUBSET history
    BY DEF Matching, Of
  <2>2. Cardinality(rows) \in Nat
    BY <2>1, Countable
  <2>3. req[r].account \in Accounts /\ req[r].items \in SUBSET Row
    BY <1>4 DEF ListCounts, Working, TypeOK, Request
  <2>4. Answered("list", req[r].account, req[r].items, Cardinality(rows), "ok") \in Request
    BY <2>2, <2>3, AnswerShape
  <2> QED BY <1>4, <2>4 DEF ListCounts, TypeOK, serverVars
<1>5. ASSUME NEW r \in Requests, Fail(r) PROVE TypeOK'
  <2>1. Answered(req[r].op, req[r].account, {}, 0, "failed") \in Request
    BY <1>5, AnswerShape DEF Fail, Working
  <2> QED BY <1>5, <2>1 DEF Fail, TypeOK, serverVars
<1>6. ASSUME NEW r \in Requests, NEW a \in Accounts, NEW id \in Ids, Get(r, a, id) PROVE TypeOK'
  <2> DEFINE found == {h \in Of(a, history) : h.id = id}
  <2>1. found \in SUBSET Row
    BY DEF Of, TypeOK
  <2>2. Answered("get", a, found, 0, IF found = {} THEN "notFound" ELSE "ok") \in Request
    BY <2>1, AnswerShape
  <2> QED BY <1>6, <2>2 DEF Get, TypeOK, serverVars
<1>7. ASSUME NEW r \in Requests, NEW a \in Accounts,
             \/ \E id \in Ids : Delete(r, a, id)
             \/ \E ids \in SUBSET Ids : BatchDelete(r, a, ids)
             \/ Clear(r, a)
      PROVE  TypeOK'
  <2>1. PICK op \in {"delete", "batchDelete", "clear"}, rows \in SUBSET Of(a, history),
             reply \in {"ok", "notFound"} : Erase(r, op, a, rows, Cardinality(rows), reply)
    BY <1>7, DeletionRows
  <2>2. rows \in SUBSET history
    BY DEF Of
  <2> QED BY <2>1, <2>2, EraseType
<1>8. ASSUME NEW l \in Limits, Restart(l) PROVE TypeOK'
  BY <1>8, RestartType
<1>9. ASSUME NEW a \in Accounts, CleanAccount(a) PROVE TypeOK'
  BY <1>9, TrimFrame DEF CleanAccount, TypeOK
<1>10. CASE Listen
  BY <1>10 DEF Listen, TypeOK
<1>11. CASE Tick
  BY <1>11 DEF Tick, TypeOK
<1>12. CASE UNCHANGED vars
  BY <1>12 DEF vars, TypeOK
<1>13. ASSUME NEW r \in Requests, Upload(r) \/ List(r) \/ Fail(r) PROVE TypeOK'
  BY <1>1, <1>2, <1>3, <1>4, <1>5, <1>13 DEF Upload, List
<1> QED BY <1>6, <1>7, <1>8, <1>9, <1>10, <1>11, <1>12, <1>13 DEF Next

LEMMA TypeInit == Init => TypeOK
<1> SUFFICES ASSUME Init PROVE TypeOK
  OBVIOUS
<1>1. Unused \in Request
  BY DEF Unused, Request
<1> QED BY <1>1 DEF Init, TypeOK

----------------------------------------------------------------------------
(* The requests *)

\* A request that a step leaves alone, or that it finishes, or begins for an
\* account with rows of that account in hand.
LEMMA RequestStep ==
    ASSUME TypeOK, Working, AnswersOwnRows, [Next]_vars, NEW q \in Requests
    PROVE  /\ req'[q].pc \in {"stamped", "listed"} =>
                 req'[q].op \in {"upload", "list"} /\ req'[q].account \in Accounts
           /\ \A h \in req'[q].items : h.account = req'[q].account
<1> DEFINE Good(v) == /\ v.pc \in {"stamped", "listed"} =>
                            v.op \in {"upload", "list"} /\ v.account \in Accounts
                      /\ \A h \in v.items : h.account = v.account
<1> SUFFICES Good(req'[q])
  OBVIOUS
<1>a. Good(req[q])
  BY DEF Working, AnswersOwnRows
<1>b. ASSUME NEW op, NEW a, NEW rows, NEW n, NEW reply, \A h \in rows : h.account = a
      PROVE  Good(Answered(op, a, rows, n, reply))
  BY <1>b DEF Answered, Unused
<1>c. ASSUME NEW r \in Requests, NEW v, req' = [req EXCEPT ![r] = v], Good(v)
      PROVE  Good(req'[q])
  BY <1>a, <1>c DEF TypeOK
<1> HIDE DEF Good
<1>1. ASSUME NEW r \in Requests, NEW a \in Accounts, UploadStamps(r, a) PROVE Good(req'[q])
  <2> DEFINE v == [Unused EXCEPT !.op = "upload", !.pc = "stamped", !.account = a, !.at = clock]
  <2>1. Good(v)
    BY DEF Unused, Good
  <2>2. req' = [req EXCEPT ![r] = v]
    BY <1>1 DEF UploadStamps
  <2> HIDE DEF v
  <2> QED BY <2>1, <2>2, <1>c
<1>2. ASSUME NEW r \in Requests, UploadCommits(r) PROVE Good(req'[q])
  BY <1>2, <1>b, <1>c DEF UploadCommits
<1>3. ASSUME NEW r \in Requests, NEW a \in Accounts, NEW p \in 1..2, NEW from \in 0..MaxClock,
             ListSelects(r, a, p, from)
      PROVE  Good(req'[q])
  <2> DEFINE rows == PageOf(Matching(a, from), p)
             v == [Unused EXCEPT !.op = "list", !.pc = "listed", !.account = a,
                                 !.at = from, !.page = p, !.items = rows]
  <2>1. \A h \in rows : h.account = a
    BY DEF PageOf, Matching, Of
  <2>2. req' = [req EXCEPT ![r] = v]
    BY <1>3 DEF ListSelects
  <2> HIDE DEF rows
  <2>3. Good(v)
    BY <2>1 DEF Unused, Good
  <2> HIDE DEF v
  <2> QED BY <2>2, <2>3, <1>c
<1>4. ASSUME NEW r \in Requests, ListCounts(r) PROVE Good(req'[q])
  <2>1. \A h \in req[r].items : h.account = req[r].account
    BY DEF AnswersOwnRows
  <2> QED BY <1>4, <2>1, <1>b, <1>c DEF ListCounts
<1>5. ASSUME NEW r \in Requests, Fail(r) PROVE Good(req'[q])
  BY <1>5, <1>b, <1>c DEF Fail
<1>6. ASSUME NEW r \in Requests, NEW a \in Accounts, NEW id \in Ids, Get(r, a, id)
      PROVE  Good(req'[q])
  <2>1. \A h \in {h \in Of(a, history) : h.id = id} : h.account = a
    BY DEF Of
  <2> QED BY <1>6, <2>1, <1>b, <1>c DEF Get
<1>7. ASSUME NEW r \in Requests, NEW a \in Accounts,
             \/ \E id \in Ids : Delete(r, a, id)
             \/ \E ids \in SUBSET Ids : BatchDelete(r, a, ids)
             \/ Clear(r, a)
      PROVE  Good(req'[q])
  <2>1. PICK op \in {"delete", "batchDelete", "clear"}, rows \in SUBSET Of(a, history),
             reply \in {"ok", "notFound"} : Erase(r, op, a, rows, Cardinality(rows), reply)
    BY <1>7, DeletionRows
  <2> QED BY <2>1, <1>b, <1>c DEF Erase
<1>8. ASSUME NEW l \in Limits, Restart(l) PROVE Good(req'[q])
  <2>1. Good(Answered(req[q].op, req[q].account, {}, 0, "failed"))
    BY <1>b
  <2> QED BY <1>8, <2>1, <1>a DEF Restart
<1>9. ASSUME UNCHANGED req PROVE Good(req'[q])
  BY <1>9, <1>a
<1>10. ASSUME NEW r \in Requests, Upload(r) \/ List(r) \/ Fail(r) PROVE Good(req'[q])
  BY <1>1, <1>2, <1>3, <1>4, <1>5, <1>10 DEF Upload, List
<1>11. ASSUME (\E a \in Accounts : CleanAccount(a)) \/ Listen \/ Tick \/ UNCHANGED vars
       PROVE  UNCHANGED req
  BY <1>11 DEF CleanAccount, Listen, Tick, vars
<1> QED BY <1>6, <1>7, <1>8, <1>9, <1>10, <1>11 DEF Next

LEMMA RequestsStep ==
    TypeOK /\ Working /\ AnswersOwnRows /\ [Next]_vars => Working' /\ AnswersOwnRows'
  BY RequestStep DEF Working, AnswersOwnRows

----------------------------------------------------------------------------
(* The table *)

\* What a step can do to the table, to the limit and to the server.
LEMMA TableStep ==
    ASSUME [Next]_vars
    PROVE  \/ UNCHANGED <<history, nextId, inserted, erased, limit, limits, phase, todo>>
           \/ \E r \in Requests : UploadCommits(r)
           \/ \E rows \in SUBSET history :
                 /\ history' = history \ rows /\ erased' = erased \cup rows
                 /\ UNCHANGED <<nextId, inserted, limit, limits, phase, todo>>
           \/ \E l \in Limits : Restart(l)
           \/ \E a \in Accounts : CleanAccount(a)
           \/ Listen
<1> DEFINE Same == UNCHANGED <<history, nextId, inserted, erased, limit, limits, phase, todo>>
           Deletes == \E rows \in SUBSET history :
                         /\ history' = history \ rows /\ erased' = erased \cup rows
                         /\ UNCHANGED <<nextId, inserted, limit, limits, phase, todo>>
<1>1. ASSUME NEW r \in Requests, NEW a \in Accounts, UploadStamps(r, a) PROVE Same
  BY <1>1 DEF UploadStamps, serverVars
<1>2. ASSUME NEW r \in Requests, NEW a \in Accounts, NEW p \in 1..2, NEW from \in 0..MaxClock,
             ListSelects(r, a, p, from)
      PROVE  Same
  BY <1>2 DEF ListSelects, serverVars
<1>3. ASSUME NEW r \in Requests, ListCounts(r) \/ Fail(r) PROVE Same
  BY <1>3 DEF ListCounts, Fail, serverVars
<1>4. ASSUME NEW r \in Requests, NEW a \in Accounts, NEW id \in Ids, Get(r, a, id) PROVE Same
  BY <1>4 DEF Get, serverVars
<1>5. ASSUME NEW r \in Requests, NEW a \in Accounts,
             \/ \E id \in Ids : Delete(r, a, id)
             \/ \E ids \in SUBSET Ids : BatchDelete(r, a, ids)
             \/ Clear(r, a)
      PROVE  Deletes
  <2>1. PICK op \in {"delete", "batchDelete", "clear"}, rows \in SUBSET Of(a, history),
             reply \in {"ok", "notFound"} : Erase(r, op, a, rows, Cardinality(rows), reply)
    BY <1>5, DeletionRows
  <2>2. rows \in SUBSET history
    BY DEF Of
  <2> QED BY <2>1, <2>2 DEF Erase, serverVars
<1>6. ASSUME NEW r \in Requests, Upload(r) \/ List(r) \/ Fail(r)
      PROVE  Same \/ UploadCommits(r)
  BY <1>1, <1>2, <1>3, <1>6 DEF Upload, List
<1>7. ASSUME Tick \/ UNCHANGED vars PROVE Same
  BY <1>7 DEF Tick, vars
<1> HIDE DEF Same, Deletes
<1>8. \/ Same \/ Deletes \/ Listen
      \/ \E r \in Requests : UploadCommits(r)
      \/ \E l \in Limits : Restart(l)
      \/ \E a \in Accounts : CleanAccount(a)
  BY <1>4, <1>5, <1>6, <1>7 DEF Next
<1> QED BY <1>8 DEF Same, Deletes

\* Ids grow, so none is used twice, and nothing is in the table that was not
\* inserted.
LEMMA LedgerStep == TypeOK /\ Ledger /\ Working /\ [Next]_vars => Ledger'
<1> SUFFICES ASSUME TypeOK, Ledger, Working, [Next]_vars PROVE Ledger'
  OBVIOUS
<1>1. CASE UNCHANGED <<history, nextId, inserted, erased, limit, limits, phase, todo>>
  BY <1>1 DEF Ledger
<1>2. ASSUME NEW r \in Requests, UploadCommits(r) PROVE Ledger'
  <2> DEFINE row == [id |-> nextId, account |-> req[r].account, at |-> req[r].at]
  <2>1. inserted' = inserted \cup {row} /\ nextId' = nextId + 1
    BY <1>2 DEF UploadCommits
  <2>2. row.id = nextId
    OBVIOUS
  <2>3. history' \subseteq history \cup {row}
    BY <1>2, TrimFrame DEF UploadCommits, Working
  <2>4. limit' = limit /\ limits' = limits
    BY <1>2 DEF UploadCommits, serverVars
  <2> HIDE DEF row
  <2>5. IsFiniteSet(inserted')
    BY <2>1, FS_AddElement DEF Ledger
  <2>6. \A h \in inserted : h.id \in Nat /\ h.id < nextId
    BY DEF Ledger, TypeOK, Row
  <2>7. \A h \in inserted' : h.id < nextId'
    BY <2>1, <2>2, <2>6 DEF TypeOK
  <2>8. \A g, h \in inserted' : g.id = h.id => g = h
    BY <2>1, <2>2, <2>6 DEF Ledger, TypeOK
  <2>9. history' \subseteq inserted'
    BY <2>1, <2>3 DEF Ledger
  <2> QED BY <2>4, <2>5, <2>7, <2>8, <2>9 DEF Ledger
<1>3. ASSUME NEW rows \in SUBSET history,
             history' = history \ rows, UNCHANGED <<nextId, inserted, limit, limits>>
      PROVE  Ledger'
  BY <1>3 DEF Ledger
<1>4. ASSUME NEW l \in Limits, Restart(l) PROVE Ledger'
  BY <1>4 DEF Restart, Ledger
<1>5. ASSUME NEW a \in Accounts, CleanAccount(a) PROVE Ledger'
  BY <1>5, TrimFrame DEF CleanAccount, Ledger
<1>6. CASE Listen
  BY <1>6 DEF Listen, Ledger
<1> QED BY <1>1, <1>2, <1>3, <1>4, <1>5, <1>6, TableStep

\* Trimming an account brings it within the limit, and adds rows to no account.
LEMMA TrimBounds ==
    ASSUME limit \in Nat, NEW rows \in SUBSET Row, IsFiniteSet(rows),
           \A g, h \in rows : g.id = h.id => g = h, NEW a \in Accounts
    PROVE  Cardinality(Of(a, Trimmed(a, rows))) <= limit
<1>1. Of(a, rows) \in SUBSET rows /\ Of(a, rows) \in SUBSET Row
  BY DEF Of
<1>2. IsFiniteSet(Of(a, rows))
  BY <1>1, FS_Subset
<1> QED BY <1>1, <1>2, TrimFrame, NewestBounded

\* The limit holds for every account the server is done with.
LEMMA LimitStep == TypeOK /\ Ledger /\ Working /\ WithinLimit /\ [Next]_vars => WithinLimit'
<1> SUFFICES ASSUME TypeOK, Ledger, Working, WithinLimit, [Next]_vars,
                    NEW b \in Accounts, phase' = "serving" \/ b \notin todo'
             PROVE  Cardinality(Of(b, history')) <= limit'
  BY DEF WithinLimit, Of
<1>a. limit \in Nat
  BY NumbersAssumption DEF TypeOK
<1>b. history \in SUBSET Row /\ IsFiniteSet(history)
      /\ \A g, h \in history : g.id = h.id => g = h
  BY Countable DEF Ledger, TypeOK
<1>1. CASE UNCHANGED <<history, nextId, inserted, erased, limit, limits, phase, todo>>
  BY <1>1 DEF WithinLimit
<1>2. ASSUME NEW r \in Requests, UploadCommits(r) PROVE Cardinality(Of(b, history')) <= limit'
  <2> DEFINE row  == [id |-> nextId, account |-> req[r].account, at |-> req[r].at]
             a    == req[r].account
             rows == history \cup {row}
  <2>1. a \in Accounts /\ row \in Row
    BY <1>2 DEF UploadCommits, Working, TypeOK, Row, Request
  <2>2. history' = Trimmed(a, rows) /\ UNCHANGED <<limit, phase, todo>>
    BY <1>2 DEF UploadCommits, serverVars
  <2>3. row.id = nextId /\ row.account = a
    OBVIOUS
  <2> HIDE DEF row, a
  <2>4. CASE b = a
    <3>1. rows \in SUBSET Row /\ IsFiniteSet(rows)
      BY <2>1, <1>b, FS_AddElement
    <3>2. \A h \in history : h.id \in Nat /\ h.id < nextId
      BY DEF Ledger, TypeOK, Row
    <3>3. \A g, h \in rows : g.id = h.id => g = h
      BY <2>3, <3>2, <1>b DEF TypeOK
    <3> QED BY <2>2, <2>4, <3>1, <3>3, <1>a, TrimBounds
  <2>5. CASE b # a
    <3>1. Of(b, history') = Of(b, rows)
      BY <2>1, <2>2, <2>5, TrimFrame
    <3>2. Of(b, rows) = Of(b, history)
      BY <2>3, <2>5 DEF Of
    <3> QED BY <2>2, <3>1, <3>2 DEF WithinLimit
  <2> QED BY <2>4, <2>5
<1>3. ASSUME NEW rows \in SUBSET history,
             history' = history \ rows, UNCHANGED <<limit, phase, todo>>
      PROVE  Cardinality(Of(b, history')) <= limit'
  <2>1. Of(b, history) \in SUBSET history /\ Of(b, history') \in SUBSET Of(b, history)
    BY <1>3 DEF Of
  <2>2. IsFiniteSet(Of(b, history)) /\ IsFiniteSet(Of(b, history'))
    BY <1>b, <2>1, FS_Subset
  <2>3. Cardinality(Of(b, history)) \in Nat /\ Cardinality(Of(b, history')) \in Nat
    BY <2>2, FS_CardinalityType
  <2>4. Cardinality(Of(b, history')) <= Cardinality(Of(b, history))
    BY <2>1, <2>2, FS_Subset
  <2>5. Cardinality(Of(b, history)) <= limit
    BY <1>3 DEF WithinLimit
  <2> QED BY <1>3, <1>a, <2>3, <2>4, <2>5
<1>4. ASSUME NEW l \in Limits, Restart(l) PROVE Cardinality(Of(b, history')) <= limit'
  <2>1. Of(b, history') = {}
    BY <1>4 DEF Restart, Of
  <2>2. limit' \in Nat
    BY <1>4, NumbersAssumption DEF Restart
  <2> QED BY <2>1, <2>2, FS_EmptySet
<1>5. ASSUME NEW a \in Accounts, CleanAccount(a) PROVE Cardinality(Of(b, history')) <= limit'
  <2>1. CASE b = a
    BY <1>5, <2>1, <1>a, <1>b, TrimBounds DEF CleanAccount
  <2>2. CASE b # a
    BY <1>5, <2>2, TrimFrame DEF CleanAccount, WithinLimit
  <2> QED BY <2>1, <2>2
<1>6. CASE Listen
  BY <1>6 DEF Listen, WithinLimit
<1> QED BY <1>1, <1>2, <1>3, <1>4, <1>5, <1>6, TableStep

\* What disappeared undeleted had been overtaken by as many newer rows as a limit.
LEMMA EvictStep ==
    TypeOK /\ Ledger /\ Working /\ Ledger' /\ TypeOK' /\ OnlyOverflowEvicts /\ [Next]_vars
        => OnlyOverflowEvicts'
<1> SUFFICES ASSUME TypeOK, Ledger, Working, Ledger', TypeOK', OnlyOverflowEvicts, [Next]_vars,
                    NEW h \in inserted' \ history', h \notin erased'
             PROVE  \E l \in limits' : Rank(h, Of(h.account, inserted')) >= l
  BY DEF OnlyOverflowEvicts, Rank, Of
<1> DEFINE Evidence == \E l \in limits' : Rank(h, Of(h.account, inserted')) >= l
<1>a. ASSUME h \in inserted \ history, h \notin erased,
             inserted \subseteq inserted', limits \subseteq limits'
      PROVE  Evidence
  <2>1. PICK l \in limits : Rank(h, Of(h.account, inserted)) >= l
    BY <1>a DEF OnlyOverflowEvicts
  <2>2. IsFiniteSet(inserted') /\ l \in Nat
    BY NumbersAssumption DEF Ledger, TypeOK
  <2>3. Rank(h, Of(h.account, inserted')) >= l
    BY <1>a, <2>1, <2>2, EvidenceStays
  <2> QED BY <1>a, <2>3
<1>b. ASSUME NEW a \in Accounts, NEW rows \in SUBSET inserted', h \in rows,
             history' = Trimmed(a, rows), limit' = limit
      PROVE  Evidence
  <2>1. IsFiniteSet(inserted') /\ limit \in Nat /\ limit \in limits'
    BY <1>b, NumbersAssumption DEF Ledger, TypeOK
  <2>2. Rank(h, Of(h.account, inserted')) >= limit
    BY <1>b, <2>1, TrimEvicts
  <2> QED BY <2>1, <2>2
<1> HIDE DEF Evidence
<1> SUFFICES Evidence
  BY DEF Evidence
<1>1. CASE UNCHANGED <<history, nextId, inserted, erased, limit, limits, phase, todo>>
  BY <1>1, <1>a
<1>2. ASSUME NEW r \in Requests, UploadCommits(r) PROVE Evidence
  <2> DEFINE row  == [id |-> nextId, account |-> req[r].account, at |-> req[r].at]
             rows == history \cup {row}
  <2>1. history' = Trimmed(req[r].account, rows) /\ inserted' = inserted \cup {row}
        /\ UNCHANGED <<limit, limits, erased>>
    BY <1>2 DEF UploadCommits, serverVars
  <2>2. req[r].account \in Accounts
    BY <1>2 DEF UploadCommits, Working
  <2> HIDE DEF row
  <2>3. rows \in SUBSET inserted'
    BY <2>1 DEF Ledger
  <2>4. CASE h \in rows
    BY <2>1, <2>2, <2>3, <2>4, <1>b
  <2>5. CASE h \notin rows
    BY <2>1, <2>5, <1>a
  <2> QED BY <2>4, <2>5
<1>3. ASSUME NEW rows \in SUBSET history, history' = history \ rows, erased' = erased \cup rows,
             UNCHANGED <<inserted, limits>>
      PROVE  Evidence
  BY <1>3, <1>a
<1>4. ASSUME NEW l \in Limits, Restart(l) PROVE Evidence
  BY <1>4, <1>a DEF Restart
<1>5. ASSUME NEW a \in Accounts, CleanAccount(a) PROVE Evidence
  <2>1. history' = Trimmed(a, history) /\ UNCHANGED <<inserted, erased, limit, limits>>
    BY <1>5 DEF CleanAccount
  <2>2. history \in SUBSET inserted'
    BY <2>1 DEF Ledger
  <2>3. CASE h \in history
    BY <2>1, <2>2, <2>3, <1>b
  <2>4. CASE h \notin history
    BY <2>1, <2>4, <1>a
  <2> QED BY <2>3, <2>4
<1>6. CASE Listen
  BY <1>6, <1>a DEF Listen
<1> QED BY <1>1, <1>2, <1>3, <1>4, <1>5, <1>6, TableStep

\* A deletion changes the rows of the account it was asked for.
LEMMA DeletionOwner ==
    ASSUME TypeOK, NEW r \in Requests, NEW a \in Accounts, NEW b \in Accounts,
           \/ \E id \in Ids : Delete(r, b, id)
           \/ \E ids \in SUBSET Ids : BatchDelete(r, b, ids)
           \/ Clear(r, b),
           Of(a, history') # Of(a, history)
    PROVE  req'[r] # req[r] /\ req'[r].account = a
<1>1. PICK op \in {"delete", "batchDelete", "clear"}, rows \in SUBSET Of(b, history),
           reply \in {"ok", "notFound"} : Erase(r, op, b, rows, Cardinality(rows), reply)
  BY DeletionRows
<1>2. history' = history \ rows
  BY <1>1 DEF Erase
<1>3. a = b
  BY <1>2 DEF Of
<1>4. req[r].pc = "idle" /\ req'[r] = Answered(op, b, {}, Cardinality(rows), reply)
  BY <1>1 DEF Erase, TypeOK
<1>5. req'[r].account = b /\ req'[r].pc = "answered"
  BY <1>4 DEF Answered, Unused
<1> QED BY <1>3, <1>4, <1>5

\* An upload changes the rows of the account it is for.
LEMMA UploadOwner ==
    ASSUME TypeOK, Working, NEW r \in Requests, UploadCommits(r), NEW a \in Accounts,
           Of(a, history') # Of(a, history)
    PROVE  req'[r] # req[r] /\ req'[r].account = a
<1> DEFINE b    == req[r].account
           row  == [id |-> nextId, account |-> b, at |-> req[r].at]
           rows == history \cup {row}
<1>1. b \in Accounts /\ history' = Trimmed(b, rows)
  BY DEF UploadCommits, Working
<1>2. CASE a # b
  <2>1. Of(a, rows) = Of(a, history)
    BY <1>2 DEF Of
  <2>2. Of(a, history') = Of(a, rows)
    BY <1>1, <1>2, TrimFrame
  <2> QED BY <2>1, <2>2
<1>3. CASE a = b
  <2>1. req[r].pc = "stamped" /\ req'[r] = Answered("upload", b, {}, 0, "ok")
    BY DEF UploadCommits, TypeOK
  <2>2. req'[r].account = b /\ req'[r].pc = "answered"
    BY <2>1 DEF Answered, Unused
  <2> QED BY <1>3, <2>1, <2>2
<1> QED BY <1>2, <1>3

LEMMA OwnerStep == TypeOK /\ Working /\ [Next]_vars => OnlyOwner
<1> SUFFICES ASSUME TypeOK, Working, [Next]_vars,
                    NEW a \in Accounts, Of(a, history') # Of(a, history)
             PROVE  \/ phase = "cleaning"
                    \/ \E r \in Requests : req'[r] # req[r] /\ req'[r].account = a
  BY DEF OnlyOwner, Of
<1>1. ASSUME NEW r \in Requests, Upload(r) \/ List(r) \/ Fail(r)
      PROVE  UploadCommits(r) \/ UNCHANGED history
  BY <1>1 DEF Upload, UploadStamps, List, ListSelects, ListCounts, Fail
<1>2. ASSUME NEW r \in Requests, NEW b \in Accounts, NEW id \in Ids, Get(r, b, id)
      PROVE  UNCHANGED history
  BY <1>2 DEF Get
<1>3. ASSUME NEW b \in Accounts, CleanAccount(b) PROVE phase = "cleaning"
  BY <1>3 DEF CleanAccount
<1>4. ASSUME (\E l \in Limits : Restart(l)) \/ Listen \/ Tick \/ UNCHANGED vars
      PROVE  UNCHANGED history
  BY <1>4 DEF Restart, Listen, Tick, vars
<1> QED BY <1>1, <1>2, <1>3, <1>4, UploadOwner, DeletionOwner DEF Next

----------------------------------------------------------------------------
(* The theorems *)

LEMMA HistoryInit == Init => HistoryInv
<1> SUFFICES ASSUME Init PROVE HistoryInv
  OBVIOUS
<1>1. TypeOK
  BY TypeInit
<1>2. Ledger
  BY FS_EmptySet DEF Init, Ledger
<1>3. Working /\ AnswersOwnRows
  BY DEF Init, Working, AnswersOwnRows, Unused
<1>4. WithinLimit
  <2>1. ASSUME NEW a \in Accounts PROVE Cardinality(Of(a, history)) <= limit
    <3>1. Of(a, history) = {}
      BY DEF Init, Of
    <3>2. limit \in Nat
      BY NumbersAssumption DEF Init
    <3> QED BY <3>1, <3>2, FS_EmptySet
  <2> QED BY <2>1 DEF WithinLimit
<1>5. OnlyOverflowEvicts
  BY DEF Init, OnlyOverflowEvicts
<1> QED BY <1>1, <1>2, <1>3, <1>4, <1>5 DEF HistoryInv

LEMMA HistoryStep == HistoryInv /\ [Next]_vars => HistoryInv'
  BY TypeStep, LedgerStep, RequestsStep, LimitStep, EvictStep DEF HistoryInv

\* The strengthening is an invariant: the table is what was inserted and not yet
\* deleted, under ids that never repeat, and within the limit wherever the
\* cleanup is done.
THEOREM HistoryInvariant == Spec => []HistoryInv
  BY HistoryInit, HistoryStep, PTL DEF Spec

\* Every reachable state is well typed.
THEOREM TypeCorrect == Spec => []TypeOK
  BY HistoryInvariant, PTL DEF HistoryInv

\* No account has more rows than the limit while the server serves, through any
\* overlap of uploads and any sequence of reconfigurations and interrupted
\* cleanups (store/history.go:58-99, store/cleanup.go:10-39, main.go:43-53).
THEOREM Retention == Spec => []RetentionHolds
<1>1. HistoryInv => RetentionHolds
  BY DEF HistoryInv, WithinLimit, RetentionHolds
<1> QED BY <1>1, HistoryInvariant, PTL

\* A stored row that nobody deleted is there until as many newer rows as a
\* configured limit were stored (store/history.go:58-61).
THEOREM NoEarlyEviction == Spec => []OnlyOverflowEvicts
  BY HistoryInvariant, PTL DEF HistoryInv

\* No answer holds a row of another account (store/history.go:101-157).
THEOREM OwnRowsOnly == Spec => []AnswersOwnRows
  BY HistoryInvariant, PTL DEF HistoryInv

\* Rows of an account change only by its own requests or by the cleanup, whatever
\* ids other accounts send (store/history.go:170-205).
THEOREM OwnerOnly == Spec => OnlyOwnerWrites
<1>1. HistoryInv /\ [Next]_vars => [OnlyOwner]_vars
  BY OwnerStep DEF HistoryInv
<1> QED BY <1>1, HistoryInvariant, PTL DEF Spec, OnlyOwnerWrites

----------------------------------------------------------------------------
(* Paging *)

\* A row is behind fewer rows than there are.
LEMMA RankBelow ==
    ASSUME NEW rows \in SUBSET Row, IsFiniteSet(rows), NEW h \in rows
    PROVE  Rank(h, rows) \in Nat /\ Rank(h, rows) < Cardinality(rows)
<1> DEFINE before == {g \in rows : Newer(g, h)}
<1>1. before \in SUBSET rows /\ before # rows
  BY NewerStrict
<1>2. IsFiniteSet(before)
  BY <1>1, FS_Subset
<1>3. Cardinality(before) \in Nat /\ Cardinality(rows) \in Nat
  BY <1>2, FS_CardinalityType
<1>4. Cardinality(before) <= Cardinality(rows) /\ Cardinality(before) # Cardinality(rows)
  BY <1>1, FS_Subset
<1> QED BY <1>3, <1>4 DEF Rank

\* The page a rank falls on.
LEMMA Division ==
    ASSUME NEW n \in Nat, NEW b \in Nat \ {0}
    PROVE  \E k \in 0..n : k * b <= n /\ n < (k + 1) * b
<1> DEFINE k == n \div b
<1>1. k \in Nat
  OBVIOUS
<1>2. k * b <= n /\ n < (k + 1) * b
  BY SMTT(30)
<1>3. k <= k * b
  <2> HIDE DEF k
  <2> QED BY <1>1, SMTT(30)
<1> HIDE DEF k
<1>4. k * b \in Nat
  BY <1>1
<1> QED BY <1>1, <1>2, <1>3, <1>4

\* A row of an earlier page has a smaller rank.
LEMMA PagesApart ==
    ASSUME NEW p \in Nat, NEW q \in Nat, p < q, NEW m \in Nat, NEW n \in Nat,
           m < p * PageSize, (q - 1) * PageSize <= n
    PROVE  m < n
<1>1. PageSize \in Nat \ {0}
  BY NumbersAssumption
<1>2. p * PageSize <= (q - 1) * PageSize
  BY <1>1, SMTT(30)
<1>3. p * PageSize \in Nat /\ (q - 1) * PageSize \in Int
  BY <1>1
<1> QED BY <1>2, <1>3

LEMMA PagesOf ==
    ASSUME NEW rows \in SUBSET Row, IsFiniteSet(rows), \A g, h \in rows : g.id = h.id => g = h
    PROVE  /\ UNION {PageOf(rows, p) : p \in 1..Cardinality(rows)} = rows
           /\ \A p, q \in 1..Cardinality(rows) : p < q =>
                 \A g \in PageOf(rows, p), h \in PageOf(rows, q) : Newer(g, h)
<1>1. PageSize \in Nat \ {0} /\ Cardinality(rows) \in Nat
  BY NumbersAssumption, FS_CardinalityType
<1>2. ASSUME NEW h \in rows PROVE \E p \in 1..Cardinality(rows) : h \in PageOf(rows, p)
  <2> DEFINE n == Rank(h, rows)
  <2>1. n \in Nat /\ n < Cardinality(rows)
    BY RankBelow
  <2> HIDE DEF n
  <2>2. PICK k \in 0..n : k * PageSize <= n /\ n < (k + 1) * PageSize
    BY <1>1, <2>1, Division
  <2>3. k + 1 \in 1..Cardinality(rows) /\ (k + 1) - 1 = k
    BY <1>1, <2>1
  <2>4. k * PageSize \in Nat /\ (k + 1) * PageSize \in Nat
    BY <1>1
  <2>5. n \in ((k + 1) - 1) * PageSize .. (k + 1) * PageSize - 1
    BY <2>1, <2>2, <2>3, <2>4
  <2> QED BY <2>3, <2>5 DEF PageOf, n
<1>3. \A p : PageOf(rows, p) \subseteq rows
  BY DEF PageOf
<1>4. ASSUME NEW p \in 1..Cardinality(rows), NEW q \in 1..Cardinality(rows), p < q,
             NEW g \in PageOf(rows, p), NEW h \in PageOf(rows, q)
      PROVE  Newer(g, h)
  <2>1. g \in rows /\ h \in rows
    BY <1>3
  <2>2. Rank(g, rows) \in Nat /\ Rank(h, rows) \in Nat
    BY <2>1, RankBelow
  <2>3. p * PageSize \in Nat /\ (q - 1) * PageSize \in Nat
    BY <1>1
  <2>4. Rank(g, rows) < p * PageSize /\ (q - 1) * PageSize <= Rank(h, rows)
    BY <2>2, <2>3 DEF PageOf
  <2>5. Rank(g, rows) < Rank(h, rows)
    BY <1>1, <1>4, <2>2, <2>4, PagesApart
  <2>6. ~Newer(h, g) /\ g # h
    BY <2>1, <2>2, <2>5, RankOrder
  <2>7. g.id # h.id
    BY <2>1, <2>6
  <2> QED BY <2>1, <2>6, <2>7, NewerTotal
<1> QED BY <1>2, <1>3, <1>4

\* Paging through a list shows each row once, newest first, whatever the size of a
\* page and however many rows share a second (store/history.go:125-134).
THEOREM PagingIsComplete == Spec => []PagesCover
<1>1. ASSUME HistoryInv PROVE PagesCover
  <2>1. ASSUME NEW a \in Accounts, NEW from \in 0..MaxClock
        PROVE  /\ Matching(a, from) \in SUBSET Row /\ IsFiniteSet(Matching(a, from))
               /\ \A g, h \in Matching(a, from) : g.id = h.id => g = h
    <3>1. Matching(a, from) \in SUBSET history
      BY DEF Matching, Of
    <3> QED BY <1>1, <3>1, Countable DEF HistoryInv, Ledger
  <2> QED BY <2>1, PagesOf DEF PagesCover
<1> QED BY <1>1, HistoryInvariant, PTL
----------------------------------------------------------------------------
(* Counting deletions *)

\* Two sets with nothing in common.
LEMMA DisjointSizes ==
    ASSUME NEW S, NEW T, IsFiniteSet(S), IsFiniteSet(T), S \cap T = {}
    PROVE  IsFiniteSet(S \cup T) /\ Cardinality(S \cup T) = Cardinality(S) + Cardinality(T)
<1>1. /\ IsFiniteSet(S \cup T)
      /\ Cardinality(S \cup T) = Cardinality(S) + Cardinality(T) - Cardinality(S \cap T)
  BY FS_Union
<1>2. Cardinality(S \cap T) = 0
  BY FS_EmptySet
<1>3. Cardinality(S) \in Nat /\ Cardinality(T) \in Nat
  BY FS_CardinalityType
<1> QED BY <1>1, <1>2, <1>3

\* A request with the numbers up to n: as many pairs.
LEMMA ReceiptCount ==
    ASSUME NEW r, NEW n \in Nat
    PROVE  IsFiniteSet({r} \X (1 .. n)) /\ Cardinality({r} \X (1 .. n)) = n
<1>1. IsFiniteSet({r}) /\ Cardinality({r}) = 1
  BY FS_Singleton
<1>2. IsFiniteSet(1 .. n) /\ Cardinality(1 .. n) = n
  BY FS_Interval
<1>3. /\ IsFiniteSet({r} \X (1 .. n))
      /\ Cardinality({r} \X (1 .. n)) = Cardinality({r}) * Cardinality(1 .. n)
  BY <1>1, <1>2, FS_Product
<1> QED BY <1>1, <1>2, <1>3

\* A step that changes what no request has reported leaves the receipts alone.
LEMMA ReceiptsStay ==
    ASSUME \A q \in Requests : Reported(q)' = Reported(q)
    PROVE  Receipts' = Receipts
  BY DEF Receipts

\* What a step other than a deletion does to the reports.
LEMMA ReportStep ==
    ASSUME TypeOK, Working, Accounted, [Next]_vars
    PROVE  \/ /\ UNCHANGED erased
              /\ \A q \in Requests : /\ Reported(q)' = Reported(q)
                                     /\ req'[q].pc = "idle" => req'[q].op = "none"
           \/ \E r \in Requests, op \in {"delete", "batchDelete", "clear"},
                 a \in Accounts, rows \in SUBSET history, reply \in {"ok", "notFound"} :
                    Erase(r, op, a, rows, Cardinality(rows), reply)
<1> DEFINE Told(v) == IF v.op \in {"delete", "batchDelete", "clear"} THEN v.n ELSE 0
           Quiet == \A q \in Requests : /\ Told(req'[q]) = Told(req[q])
                                        /\ req'[q].pc = "idle" => req'[q].op = "none"
           Deletes == \E r \in Requests, op \in {"delete", "batchDelete", "clear"},
                         a \in Accounts, rows \in SUBSET history, reply \in {"ok", "notFound"} :
                            Erase(r, op, a, rows, Cardinality(rows), reply)
<1> SUFFICES (UNCHANGED erased /\ Quiet) \/ Deletes
  BY DEF Reported
<1>a. ASSUME NEW op, NEW a, NEW rows, NEW n, NEW reply
      PROVE  Answered(op, a, rows, n, reply).op = op /\ Answered(op, a, rows, n, reply).pc = "answered"
  BY DEF Answered, Unused
<1>b. ASSUME NEW r \in Requests, NEW v, req' = [req EXCEPT ![r] = v],
             v.pc # "idle", v.op \in {"upload", "list", "get"},
             req[r].op \in {"none", "upload", "list"}
      PROVE  Quiet
  <2>1. ASSUME NEW q \in Requests
        PROVE  /\ Told(req'[q]) = Told(req[q])
               /\ req'[q].pc = "idle" => req'[q].op = "none"
    <3>1. CASE q = r
      BY <1>b, <3>1 DEF TypeOK
    <3>2. CASE q # r
      <4>1. req'[q] = req[q]
        BY <1>b, <3>2 DEF TypeOK
      <4> QED BY <4>1 DEF Accounted
    <3> QED BY <3>1, <3>2
  <2> QED BY <2>1
<1>c. ASSUME UNCHANGED req PROVE Quiet
  BY <1>c DEF Accounted
<1>d. ASSUME NEW r \in Requests
      PROVE  /\ req[r].pc = "idle" => req[r].op \in {"none", "upload", "list"}
             /\ req[r].pc \in {"stamped", "listed"} => req[r].op \in {"upload", "list"}
  BY DEF Accounted, Working
<1> HIDE DEF Quiet, Deletes
<1>e. ASSUME NEW r \in Requests, NEW op \in {"upload", "list", "get"},
             NEW a, NEW rows, NEW n, NEW reply,
             req' = [req EXCEPT ![r] = Answered(op, a, rows, n, reply)],
             req[r].op \in {"none", "upload", "list"}
      PROVE  Quiet
  <2> DEFINE v == Answered(op, a, rows, n, reply)
  <2>1. v.op = op /\ v.pc = "answered" /\ req' = [req EXCEPT ![r] = v]
    BY <1>a, <1>e
  <2> HIDE DEF v
  <2> QED BY <1>e, <2>1, <1>b
<1>1. ASSUME NEW r \in Requests, NEW a \in Accounts, UploadStamps(r, a) PROVE Quiet
  <2> DEFINE v == [Unused EXCEPT !.op = "upload", !.pc = "stamped", !.account = a, !.at = clock]
  <2>1. v.op = "upload" /\ v.pc = "stamped"
    BY DEF Unused
  <2>2. req' = [req EXCEPT ![r] = v] /\ req[r].pc = "idle"
    BY <1>1 DEF UploadStamps
  <2> HIDE DEF v
  <2> QED BY <2>1, <2>2, <1>b, <1>d
<1>2. ASSUME NEW r \in Requests, UploadCommits(r) PROVE Quiet
  BY <1>2, <1>e, <1>d DEF UploadCommits
<1>3. ASSUME NEW r \in Requests, NEW a \in Accounts, NEW p \in 1..2, NEW from \in 0..MaxClock,
             ListSelects(r, a, p, from)
      PROVE  Quiet
  <2> DEFINE v == [Unused EXCEPT !.op = "list", !.pc = "listed", !.account = a,
                                 !.at = from, !.page = p, !.items = PageOf(Matching(a, from), p)]
  <2>1. v.op = "list" /\ v.pc = "listed"
    BY DEF Unused
  <2>2. req' = [req EXCEPT ![r] = v] /\ req[r].pc = "idle"
    BY <1>3 DEF ListSelects
  <2> HIDE DEF v
  <2> QED BY <2>1, <2>2, <1>b, <1>d
<1>4. ASSUME NEW r \in Requests, ListCounts(r) PROVE Quiet
  BY <1>4, <1>e, <1>d DEF ListCounts
<1>5. ASSUME NEW r \in Requests, Fail(r) PROVE Quiet
  BY <1>5, <1>e, <1>d DEF Fail
<1>6. ASSUME NEW r \in Requests, NEW a \in Accounts, NEW id \in Ids, Get(r, a, id) PROVE Quiet
  BY <1>6, <1>e, <1>d DEF Get
<1>7. ASSUME NEW r \in Requests, NEW a \in Accounts,
             \/ \E id \in Ids : Delete(r, a, id)
             \/ \E ids \in SUBSET Ids : BatchDelete(r, a, ids)
             \/ Clear(r, a)
      PROVE  Deletes
  <2>1. PICK op \in {"delete", "batchDelete", "clear"}, rows \in SUBSET Of(a, history),
             reply \in {"ok", "notFound"} : Erase(r, op, a, rows, Cardinality(rows), reply)
    BY <1>7, DeletionRows
  <2>2. rows \in SUBSET history
    BY DEF Of
  <2> QED BY <2>1, <2>2 DEF Deletes
<1>8. ASSUME NEW l \in Limits, Restart(l) PROVE Quiet
  <2>1. ASSUME NEW q \in Requests
        PROVE  /\ Told(req'[q]) = Told(req[q])
               /\ req'[q].pc = "idle" => req'[q].op = "none"
    <3>1. CASE req[q].pc \in {"stamped", "listed"}
      <4>1. req'[q] = Answered(req[q].op, req[q].account, {}, 0, "failed")
        BY <1>8, <3>1 DEF Restart
      <4> QED BY <4>1, <3>1, <1>a, <1>d
    <3>2. CASE req[q].pc \notin {"stamped", "listed"}
      <4>1. req'[q] = req[q]
        BY <1>8, <3>2 DEF Restart
      <4> QED BY <4>1 DEF Accounted
    <3> QED BY <3>1, <3>2
  <2> QED BY <2>1 DEF Quiet
<1>9. ASSUME (\E a \in Accounts : CleanAccount(a)) \/ Listen \/ Tick \/ UNCHANGED vars
      PROVE  Quiet
  <2>1. UNCHANGED req
    BY <1>9 DEF CleanAccount, Listen, Tick, vars
  <2> QED BY <2>1, <1>c
<1>10. ASSUME NEW r \in Requests, Upload(r) \/ List(r) \/ Fail(r) PROVE Quiet
  BY <1>1, <1>2, <1>3, <1>4, <1>5, <1>10 DEF Upload, List
<1>11. ASSUME NEW r \in Requests, NEW a \in Accounts, NEW id \in Ids, Get(r, a, id)
       PROVE  UNCHANGED erased
  BY <1>11 DEF Get
<1>12. ASSUME (\E l \in Limits : Restart(l)) \/ (\E a \in Accounts : CleanAccount(a))
              \/ Listen \/ Tick \/ UNCHANGED vars
       PROVE  UNCHANGED erased
  BY <1>12 DEF Restart, CleanAccount, Listen, Tick, vars
<1>13. ASSUME NEW r \in Requests, Upload(r) \/ List(r) \/ Fail(r) PROVE UNCHANGED erased
  BY <1>13 DEF Upload, List, UploadStamps, UploadCommits, ListSelects, ListCounts, Fail
<1> QED BY <1>6, <1>7, <1>8, <1>9, <1>10, <1>11, <1>12, <1>13 DEF Next

\* A deletion adds a receipt for each row it removes.
LEMMA EraseReceipts ==
    ASSUME TypeOK, Ledger, Accounted, NEW r \in Requests,
           NEW op \in {"delete", "batchDelete", "clear"}, NEW a \in Accounts,
           NEW rows \in SUBSET history, NEW reply,
           Erase(r, op, a, rows, Cardinality(rows), reply)
    PROVE  Accounted'
<1> DEFINE n   == Cardinality(rows)
           new == {r} \X (1 .. n)
<1>1. rows \in SUBSET Row /\ IsFiniteSet(rows) /\ n \in Nat
  BY Countable
<1>2. /\ req[r].pc = "idle" /\ req' = [req EXCEPT ![r] = Answered(op, a, {}, n, reply)]
      /\ history' = history \ rows /\ erased' = erased \cup rows /\ UNCHANGED inserted
  BY DEF Erase
<1>3. Reported(r) = 0 /\ Reported(r)' = n
  BY <1>2 DEF Accounted, Reported, Answered, Unused, TypeOK
<1>4. \A q \in Requests : q # r => Reported(q)' = Reported(q)
  BY <1>2 DEF Reported, TypeOK
<1> HIDE DEF n
<1>5. Receipts' = Receipts \cup new /\ Receipts \cap new = {}
  BY <1>1, <1>3, <1>4 DEF Receipts
<1>6. IsFiniteSet(new) /\ Cardinality(new) = n
  BY <1>1, ReceiptCount
<1> HIDE DEF new
<1>7. IsFiniteSet(Receipts') /\ Cardinality(Receipts') = Cardinality(Receipts) + n
  BY <1>5, <1>6, DisjointSizes DEF Accounted
<1>8. IsFiniteSet(erased) /\ erased \cap rows = {}
  BY FS_Subset DEF Accounted, Ledger
<1>9. Cardinality(erased') = Cardinality(erased) + n
  BY <1>1, <1>2, <1>8, DisjointSizes DEF n
<1>10. \A q \in Requests : req'[q].pc = "idle" => req'[q].op = "none"
  BY <1>2 DEF Accounted, Answered, Unused, TypeOK
<1>11. erased' \subseteq inserted' \ history'
  BY <1>2 DEF Accounted, Ledger
<1>12. Cardinality(erased') = Cardinality(Receipts')
  BY <1>7, <1>9 DEF Accounted, DeletionsAddUp
<1> QED BY <1>7, <1>10, <1>11, <1>12 DEF Accounted, DeletionsAddUp

\* No step brings a deleted row back.
LEMMA ErasedStays ==
    ASSUME TypeOK, Ledger, Working, Accounted, [Next]_vars, UNCHANGED erased
    PROVE  erased' \subseteq inserted' \ history'
<1> DEFINE Goal == erased' \subseteq inserted' \ history'
<1>1. CASE UNCHANGED <<history, nextId, inserted, erased, limit, limits, phase, todo>>
  BY <1>1 DEF Accounted
<1>2. ASSUME NEW r \in Requests, UploadCommits(r) PROVE Goal
  <2> DEFINE row == [id |-> nextId, account |-> req[r].account, at |-> req[r].at]
  <2>1. inserted' = inserted \cup {row}
    BY <1>2 DEF UploadCommits
  <2>2. history' \subseteq history \cup {row}
    BY <1>2, TrimFrame DEF UploadCommits, Working
  <2>3. row.id = nextId
    OBVIOUS
  <2> HIDE DEF row
  <2>4. row \notin inserted
    <3>1. \A h \in inserted : h.id \in Nat /\ h.id < nextId
      BY DEF Ledger, TypeOK, Row
    <3> QED BY <2>3, <3>1 DEF TypeOK
  <2> QED BY <2>1, <2>2, <2>4 DEF Accounted
<1>3. ASSUME NEW l \in Limits, Restart(l) PROVE Goal
  BY <1>3 DEF Restart, Accounted
<1>4. ASSUME NEW a \in Accounts, CleanAccount(a) PROVE Goal
  <2>1. history' \subseteq history
    BY <1>4, TrimFrame DEF CleanAccount
  <2> QED BY <1>4, <2>1 DEF CleanAccount, Accounted
<1>5. CASE Listen
  BY <1>5 DEF Listen, Accounted
<1>6. ASSUME NEW rows \in SUBSET history, history' = history \ rows, UNCHANGED inserted PROVE Goal
  BY <1>6 DEF Accounted
<1> QED BY <1>1, <1>2, <1>3, <1>4, <1>5, <1>6, TableStep

LEMMA AccountedInit == Init => Accounted
<1> SUFFICES ASSUME Init PROVE Accounted
  OBVIOUS
<1>1. \A r \in Requests : Reported(r) = 0 /\ req[r].op = "none"
  BY DEF Init, Reported, Unused
<1>2. Receipts = {}
  BY <1>1 DEF Receipts
<1> QED BY <1>1, <1>2, FS_EmptySet DEF Init, Accounted, DeletionsAddUp

LEMMA AccountedStep == HistoryInv /\ Accounted /\ [Next]_vars => Accounted'
<1> SUFFICES ASSUME HistoryInv, Accounted, [Next]_vars PROVE Accounted'
  OBVIOUS
<1> USE DEF HistoryInv
<1>1. CASE /\ UNCHANGED erased
           /\ \A q \in Requests : /\ Reported(q)' = Reported(q)
                                  /\ req'[q].pc = "idle" => req'[q].op = "none"
  <2>1. Receipts' = Receipts
    BY <1>1, ReceiptsStay
  <2>2. erased' \subseteq inserted' \ history'
    BY <1>1, ErasedStays
  <2> QED BY <1>1, <2>1, <2>2 DEF Accounted, DeletionsAddUp
<1>2. ASSUME NEW r \in Requests, NEW op \in {"delete", "batchDelete", "clear"},
             NEW a \in Accounts, NEW rows \in SUBSET history, NEW reply \in {"ok", "notFound"},
             Erase(r, op, a, rows, Cardinality(rows), reply)
      PROVE  Accounted'
  BY <1>2, EraseReceipts
<1> QED BY <1>1, <1>2, ReportStep

\* Deleted rows are counted once, also when several requests of an account name
\* the same rows at the same time (store/history.go:170-205): what the deletions
\* answered adds up to what is gone.
THEOREM DeletionsCounted == Spec => []DeletionsAddUp
<1>1. Accounted => DeletionsAddUp
  BY DEF Accounted
<1> QED BY <1>1, AccountedInit, AccountedStep, HistoryInvariant, PTL DEF Spec

----------------------------------------------------------------------------
(* Which rows are kept *)

\* The ranks of rows with different ids are 0, 1, 2, ... without a gap: a row is
\* at each of them.
LEMMA RanksFill ==
    ASSUME NEW rows \in SUBSET Row, IsFiniteSet(rows), \A g, h \in rows : g.id = h.id => g = h,
           NEW i \in Nat, i < Cardinality(rows)
    PROVE  \E h \in rows : Rank(h, rows) = i
<1> DEFINE N     == Cardinality(rows)
           ranks == 0 .. N - 1
           place == [h \in rows |-> Rank(h, rows)]
<1>1. N \in Nat
  BY FS_CardinalityType
<1>2. IsFiniteSet(ranks) /\ Cardinality(ranks) = N
  <2> HIDE DEF N
  <2> QED BY <1>1, FS_Interval
<1>3. place \in [rows -> ranks]
  BY <1>1, RankBelow
<1>4. ASSUME NEW g \in rows, NEW h \in rows, place[g] = place[h] PROVE g = h
  <2> SUFFICES ASSUME g # h PROVE FALSE
    OBVIOUS
  <2>1. Newer(g, h) \/ Newer(h, g)
    BY NewerTotal
  <2>2. Rank(g, rows) \in Nat /\ Rank(h, rows) \in Nat
    BY RankType
  <2> QED BY <1>4, <2>1, <2>2, RankOrder
<1> HIDE DEF ranks, place
<1>5. place \in Injection(rows, ranks)
  BY <1>3, <1>4 DEF Injection, IsInjective
<1>6. place \in Surjection(rows, ranks)
  BY <1>2, <1>5, FS_Injection
<1>7. i \in ranks
  BY <1>1 DEF ranks
<1>8. PICK h \in rows : place[h] = i
  BY <1>6, <1>7 DEF Surjection
<1> QED BY <1>8 DEF place

\* So as many rows are kept as may be, when there are that many.
LEMMA NewestFill ==
    ASSUME NEW rows \in SUBSET Row, IsFiniteSet(rows), \A g, h \in rows : g.id = h.id => g = h,
           NEW n \in Nat, n <= Cardinality(rows)
    PROVE  Cardinality(Newest(rows, n)) >= n
<1> DEFINE left  == Newest(rows, n)
           ranks == 0 .. n - 1
           at    == [i \in ranks |-> CHOOSE h \in left : Rank(h, rows) = i]
<1>1. ASSUME NEW i \in ranks PROVE at[i] \in left /\ Rank(at[i], rows) = i
  <2>1. i \in Nat /\ i < n /\ i < Cardinality(rows)
    BY FS_CardinalityType
  <2>2. \E h \in left : Rank(h, rows) = i
    BY <2>1, RanksFill DEF Newest
  <2> QED BY <2>2
<1>2. IsFiniteSet(left)
  BY FS_Subset DEF Newest
<1>3. Cardinality(ranks) = n
  BY FS_Interval
<1> HIDE DEF left, ranks, at
<1>4. at \in [ranks -> left]
  BY <1>1 DEF at
<1>5. \A i, j \in ranks : at[i] = at[j] => i = j
  BY <1>1
<1>6. at \in Injection(ranks, left)
  BY <1>4, <1>5 DEF Injection, IsInjective
<1>7. n <= Cardinality(left)
  BY <1>2, <1>3, <1>6, FS_Injection
<1>8. Cardinality(left) \in Nat
  BY <1>2, FS_CardinalityType
<1> QED BY <1>7, <1>8 DEF left

\* An account that deleted nothing has exactly the newest rows it ever uploaded,
\* up to a limit that never changed (store/history.go:55-99): evictions and
\* concurrent uploads leave neither an older row nor a gap.
THEOREM NewestKept == Spec => []KeepsTheNewest
<1> SUFFICES HistoryInv => KeepsTheNewest
  BY HistoryInvariant, PTL
<1> SUFFICES ASSUME HistoryInv, phase = "serving", limits = {limit},
                    NEW a \in Accounts, Of(a, erased) = {}
             PROVE  Of(a, history) = Newest(Of(a, inserted), limit)
  BY DEF KeepsTheNewest
<1> USE DEF HistoryInv
<1> DEFINE all  == Of(a, inserted)
           kept == Of(a, history)
<1>1. limit \in Nat
  BY NumbersAssumption DEF TypeOK
<1>2. /\ all \in SUBSET Row /\ IsFiniteSet(all) /\ kept \in SUBSET all
      /\ \A g, h \in all : g.id = h.id => g = h
  <2>1. all \in SUBSET inserted /\ kept \in SUBSET all
    BY DEF Of, Ledger
  <2> QED BY <2>1, FS_Subset DEF Ledger, TypeOK
<1>3. IsFiniteSet(kept) /\ Cardinality(kept) <= limit /\ Cardinality(kept) \in Nat
  BY <1>2, FS_Subset, FS_CardinalityType DEF WithinLimit
<1>4. ASSUME NEW h \in Newest(all, limit) PROVE h \in kept
  <2>1. h \in all /\ Rank(h, all) < limit /\ Rank(h, all) \in Nat
    BY <1>2, RankType DEF Newest
  <2>2. h \in inserted /\ h.account = a /\ h \notin erased
    BY <2>1 DEF Of
  <2>3. h \in history
    <3> SUFFICES ASSUME h \notin history PROVE FALSE
      OBVIOUS
    <3>1. \E l \in limits : Rank(h, Of(h.account, inserted)) >= l
      BY <2>2 DEF OnlyOverflowEvicts
    <3>2. Rank(h, all) >= limit
      BY <2>2, <3>1
    <3> QED BY <1>1, <2>1, <3>2
  <2> QED BY <2>2, <2>3 DEF Of
<1>5. ASSUME NEW h \in kept, h \notin Newest(all, limit) PROVE FALSE
  <2>1. h \in all /\ Rank(h, all) \in Nat /\ Rank(h, all) >= limit
    BY <1>1, <1>2, <1>5, RankType DEF Newest
  <2>2. limit <= Cardinality(all)
    BY <1>1, <1>2, <2>1, RankBelow, FS_CardinalityType
  <2>3. Cardinality(Newest(all, limit)) >= limit
    BY <1>1, <1>2, <2>2, NewestFill
  <2>4. Newest(all, limit) \in SUBSET kept /\ Newest(all, limit) # kept
    BY <1>4, <1>5
  <2>5. /\ Cardinality(Newest(all, limit)) <= Cardinality(kept)
        /\ Cardinality(Newest(all, limit)) # Cardinality(kept)
        /\ IsFiniteSet(Newest(all, limit))
    BY <1>3, <2>4, FS_Subset
  <2> QED BY <1>1, <1>3, <2>3, <2>5, FS_CardinalityType
<1> HIDE DEF all, kept
<1> QED BY <1>4, <1>5 DEF all, kept
=============================================================================
