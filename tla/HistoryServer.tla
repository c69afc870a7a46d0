--------------------------- MODULE HistoryServer ---------------------------
(***************************************************************************)
(* The table history of the server: the handlers of handler/history.go     *)
(* over store/history.go, and the cleanup a start of the server runs       *)
(* (store/cleanup.go, main.go).                                            *)
(*                                                                         *)
(* Requests run concurrently; an action is one SQL statement or            *)
(* transaction with the code up to the next one.  A handler that runs one  *)
(* statement is one action, upload and list are two.  Which account a      *)
(* request belongs to is settled by AuthServer before these handlers run.  *)
(***************************************************************************)
EXTENDS Integers, FiniteSets

CONSTANTS
    Requests, \* the HTTP requests that may ever arrive
    Accounts,
    None,     \* no account yet
    Limits,   \* values max_history_records may be configured to
    PageSize, \* page_size of a list
    MaxClock, MaxRestarts \* bounds of the model

ASSUME NoneAssumption == None \notin Accounts

ASSUME NumbersAssumption ==
    /\ Limits \subseteq Nat \ {0} /\ Limits # {}
    /\ PageSize \in Nat \ {0}
    /\ MaxClock \in Nat /\ MaxRestarts \in Nat

ASSUME FiniteAssumption == IsFiniteSet(Requests)

VARIABLES
    history,  \* rows of the table
    nextId,   \* what AUTOINCREMENT hands out next
    clock,    \* time.Now(), in the seconds that received_at keeps
    limit,    \* Store.MaxHistoryRecords
    phase,    \* the server is "cleaning" before it is "serving"
    todo,     \* accounts CleanupAccounts still has to clean
    req,      \* the requests, with their answers once answered
    restarts,
    inserted, \* history: every row ever inserted
    erased,   \* history: rows deleted by delete, batchDelete or clear
    limits    \* history: limits configured so far

vars == <<history, nextId, clock, limit, phase, todo, req, restarts,
          inserted, erased, limits>>
serverVars == <<clock, limit, phase, todo, restarts, limits>>

Row == [id : Nat, account : Accounts, at : Nat]

Request == [op      : {"none", "upload", "list", "get", "delete", "batchDelete", "clear"},
            pc      : {"idle", "stamped", "listed", "answered"},
            account : Accounts \cup {None},
            at      : Nat,        \* receivedAt of an upload, from of a list
            page    : Nat,
            items   : SUBSET Row, \* rows in the answer
            n       : Nat,        \* total of a list, rows a deletion removed
            reply   : {"none", "ok", "notFound", "failed"}]

Unused == [op |-> "none", pc |-> "idle", account |-> None, at |-> 0, page |-> 0,
           items |-> {}, n |-> 0, reply |-> "none"]

TypeOK ==
    /\ history \subseteq Row
    /\ nextId \in Nat
    /\ clock \in Nat
    /\ limit \in Limits
    /\ phase \in {"cleaning", "serving"}
    /\ todo \subseteq Accounts
    /\ req \in [Requests -> Request]
    /\ restarts \in Nat
    /\ inserted \subseteq Row
    /\ erased \subseteq Row
    /\ limits \subseteq Limits

----------------------------------------------------------------------------
(* The queries *)

\* ORDER BY received_at DESC, id DESC.
Newer(g, h) == g.at > h.at \/ (g.at = h.at /\ g.id > h.id)

\* How many of the rows come before a row in that order.
Rank(h, rows) == Cardinality({g \in rows : Newer(g, h)})

Of(account, rows) == {h \in rows : h.account = account}

\* Faulty variant: ORDER BY received_at ASC, id ASC.
Oldest(rows, n) == {h \in rows : Cardinality({g \in rows : Newer(h, g)}) < n}

\* What is left of the rows after deleting from OFFSET n on.
Newest(rows, n) == {h \in rows : Rank(h, rows) < n}

\* Faulty variant: the inner SELECT counts the rows of every account.
TrimmedAcross(account, rows) == (rows \ Of(account, rows)) \cup Of(account, Newest(rows, limit))

\* The table after deleteOverflowSQL for one account.
Trimmed(account, rows) == (rows \ Of(account, rows)) \cup Newest(Of(account, rows), limit)

\* The rows a list request selects, of which it returns a page and the number.
Matching(account, from) == {h \in Of(account, history) : h.at >= from}

\* Faulty variant: OFFSET page * pageSize.
PageShifted(rows, page) == {h \in rows : Rank(h, rows) \in page * PageSize .. (page + 1) * PageSize - 1}

PageOf(rows, page) == {h \in rows : Rank(h, rows) \in (page - 1) * PageSize .. page * PageSize - 1}

----------------------------------------------------------------------------
(* The handlers *)

Answered(op, account, items, n, reply) ==
    [Unused EXCEPT !.op = op, !.pc = "answered", !.account = account,
                   !.items = items, !.n = n, !.reply = reply]

\* CreateHistory takes the time before its INSERT waits for the write lock.
UploadStamps(r, account) ==
    /\ phase = "serving" /\ req[r].pc = "idle"
    /\ req' = [req EXCEPT ![r] =
          [Unused EXCEPT !.op = "upload", !.pc = "stamped", !.account = account, !.at = clock]]
    /\ UNCHANGED <<serverVars, history, nextId, inserted, erased>>

\* The transaction: insert the row, delete what exceeds the limit.
UploadCommits(r) ==
    LET row == [id |-> nextId, account |-> req[r].account, at |-> req[r].at]
    IN  /\ req[r].pc = "stamped"
        /\ history' = Trimmed(req[r].account, history \cup {row})
        /\ inserted' = inserted \cup {row}
        /\ nextId' = nextId + 1
        /\ req' = [req EXCEPT ![r] = Answered("upload", @.account, {}, 0, "ok")]
        /\ UNCHANGED <<serverVars, erased>>

\* The first query of list: one page of the matching rows.
ListSelects(r, account, page, from) ==
    /\ phase = "serving" /\ req[r].pc = "idle"
    /\ req' = [req EXCEPT ![r] =
          [Unused EXCEPT !.op = "list", !.pc = "listed", !.account = account,
                         !.at = from, !.page = page,
                         !.items = PageOf(Matching(account, from), page)]]
    /\ UNCHANGED <<serverVars, history, nextId, inserted, erased>>

\* The second query: the total, from the table as it is by then.
ListCounts(r) ==
    /\ req[r].pc = "listed"
    /\ req' = [req EXCEPT ![r] =
          Answered("list", @.account, @.items, Cardinality(Matching(@.account, @.at)), "ok")]
    /\ UNCHANGED <<serverVars, history, nextId, inserted, erased>>

\* Faulty variant: WHERE id = ? alone.
GetAny(r, account, id) ==
    LET found == {h \in history : h.id = id}
    IN  /\ phase = "serving" /\ req[r].pc = "idle"
        /\ req' = [req EXCEPT ![r] =
              Answered("get", account, found, 0, IF found = {} THEN "notFound" ELSE "ok")]
        /\ UNCHANGED <<serverVars, history, nextId, inserted, erased>>

Get(r, account, id) ==
    LET found == {h \in Of(account, history) : h.id = id}
    IN  /\ phase = "serving" /\ req[r].pc = "idle"
        /\ req' = [req EXCEPT ![r] =
              Answered("get", account, found, 0, IF found = {} THEN "notFound" ELSE "ok")]
        /\ UNCHANGED <<serverVars, history, nextId, inserted, erased>>

\* One DELETE statement, and the number of rows it affected as the answer.
Erase(r, op, account, rows, n, reply) ==
    /\ phase = "serving" /\ req[r].pc = "idle"
    /\ history' = history \ rows
    /\ erased' = erased \cup rows
    /\ req' = [req EXCEPT ![r] = Answered(op, account, {}, n, reply)]
    /\ UNCHANGED <<serverVars, nextId, inserted>>

Delete(r, account, id) ==
    LET found == {h \in Of(account, history) : h.id = id}
    IN  Erase(r, "delete", account, found, Cardinality(found),
              IF found = {} THEN "notFound" ELSE "ok")

\* Faulty variant: the answer is the number of ids asked for.
BatchDeleteAsked(r, account, ids) ==
    Erase(r, "batchDelete", account, {h \in Of(account, history) : h.id \in ids},
          Cardinality(ids), "ok")

\* Faulty variant: WHERE id IN (...) alone.
BatchDeleteAny(r, account, ids) ==
    LET found == {h \in history : h.id \in ids}
    IN  Erase(r, "batchDelete", account, found, Cardinality(found), "ok")

BatchDelete(r, account, ids) ==
    LET found == {h \in Of(account, history) : h.id \in ids}
    IN  Erase(r, "batchDelete", account, found, Cardinality(found), "ok")

Clear(r, account) ==
    Erase(r, "clear", account, Of(account, history), Cardinality(Of(account, history)), "ok")

\* A statement fails (the write lock stays taken, the disk is full): the
\* transaction is rolled back and the answer is 500.
Fail(r) ==
    /\ req[r].pc \in {"stamped", "listed"}
    /\ req' = [req EXCEPT ![r] = Answered(@.op, @.account, {}, 0, "failed")]
    /\ UNCHANGED <<serverVars, history, nextId, inserted, erased>>

----------------------------------------------------------------------------
(* The server process *)

\* Faulty variant: the server serves before the cleanup has run.
RestartUncleaned(newLimit) ==
    /\ restarts < MaxRestarts
    /\ restarts' = restarts + 1
    /\ limit' = newLimit /\ limits' = limits \cup {newLimit}
    /\ phase' = "serving" /\ todo' = {}
    /\ req' = [r \in Requests |->
                 IF req[r].pc \in {"stamped", "listed"}
                 THEN Answered(req[r].op, req[r].account, {}, 0, "failed") ELSE req[r]]
    /\ UNCHANGED <<history, nextId, clock, inserted, erased>>

\* The process ends at any time, also in the middle of a cleanup or because one
\* failed, and starts again: requests in progress are lost, the limit may have
\* been reconfigured, and CleanupAccounts reads which accounts have rows.
Restart(newLimit) ==
    /\ restarts < MaxRestarts
    /\ restarts' = restarts + 1
    /\ limit' = newLimit /\ limits' = limits \cup {newLimit}
    /\ phase' = "cleaning" /\ todo' = {h.account : h \in history}
    /\ req' = [r \in Requests |->
                 IF req[r].pc \in {"stamped", "listed"}
                 THEN Answered(req[r].op, req[r].account, {}, 0, "failed") ELSE req[r]]
    /\ UNCHANGED <<history, nextId, clock, inserted, erased>>

CleanAccount(account) ==
    /\ phase = "cleaning" /\ account \in todo
    /\ history' = Trimmed(account, history)
    /\ todo' = todo \ {account}
    /\ UNCHANGED <<nextId, clock, limit, phase, req, restarts, inserted, erased, limits>>

\* Listening starts once every account is clean.
Listen ==
    /\ phase = "cleaning" /\ todo = {}
    /\ phase' = "serving"
    /\ UNCHANGED <<history, nextId, clock, limit, todo, req, restarts, inserted, erased, limits>>

Tick ==
    /\ clock < MaxClock
    /\ clock' = clock + 1
    /\ UNCHANGED <<history, nextId, limit, phase, todo, req, restarts, inserted, erased, limits>>

----------------------------------------------------------------------------
\* An empty database, with the start-up cleanup still to run.
Init ==
    /\ history = {} /\ nextId = 1
    /\ clock = 0
    /\ limit \in Limits /\ limits = {limit}
    /\ phase = "cleaning" /\ todo = {}
    /\ req = [r \in Requests |-> Unused]
    /\ restarts = 0
    /\ inserted = {} /\ erased = {}

\* The ids a client may name: those handed out so far, its own or another's.
Ids == 1 .. nextId - 1

Upload(r) == UploadCommits(r) \/ \E a \in Accounts : UploadStamps(r, a)

List(r) ==
    \/ ListCounts(r)
    \/ \E a \in Accounts, page \in 1..2, from \in 0..MaxClock : ListSelects(r, a, page, from)

Next ==
    \/ \E r \in Requests : Upload(r) \/ List(r) \/ Fail(r)
    \/ \E r \in Requests, a \in Accounts, id \in Ids : Get(r, a, id) \/ Delete(r, a, id)
    \/ \E r \in Requests, a \in Accounts, ids \in SUBSET Ids \ {{}} : BatchDelete(r, a, ids)
    \/ \E r \in Requests, a \in Accounts : Clear(r, a)
    \/ \E l \in Limits : Restart(l)
    \/ \E a \in Accounts : CleanAccount(a)
    \/ Listen
    \/ Tick

Spec == Init /\ [][Next]_vars

----------------------------------------------------------------------------
(***************************************************************************)
(* Properties                                                              *)
(***************************************************************************)

\* While the server serves, no account has more rows than the configured limit:
\* not after concurrent uploads, not after a restart with a lower limit, not
\* after a start that was interrupted in the middle of its cleanup.
RetentionHolds ==
    phase = "serving" => \A a \in Accounts : Cardinality(Of(a, history)) <= limit

\* A row that was stored and that nobody deleted disappears only when as many
\* newer rows of its account as a configured limit have been stored: neither an
\* upload, nor a cleanup, nor a deletion of other rows takes it away before.
OnlyOverflowEvicts ==
    \A h \in inserted \ history :
        \/ h \in erased
        \/ \E l \in limits : Rank(h, Of(h.account, inserted)) >= l

\* Rows of an account appear and disappear only by a request of that account, or
\* by the cleanup: no id that another account sends can touch them.
OnlyOwner ==
    \A a \in Accounts :
        Of(a, history)' # Of(a, history) =>
            \/ phase = "cleaning"
            \/ \E r \in Requests : req'[r] # req[r] /\ req'[r].account = a

OnlyOwnerWrites == [][OnlyOwner]_vars

\* Nor does an answer ever contain a row of another account.
AnswersOwnRows ==
    \A r \in Requests : \A h \in req[r].items : h.account = req[r].account

\* The rows a request has reported as deleted.
Reported(r) == IF req[r].op \in {"delete", "batchDelete", "clear"} THEN req[r].n ELSE 0

\* One receipt for each reported deletion.
Receipts == UNION {{r} \X (1 .. Reported(r)) : r \in Requests}

\* However deletions overlap, each deleted row is reported by exactly one of them.
DeletionsAddUp == Cardinality(erased) = Cardinality(Receipts)

\* An account that deleted nothing keeps exactly the newest rows it ever uploaded,
\* as many as the limit allows, as long as the limit was never reconfigured:
\* however its uploads overlapped, with however many rows in one second.
KeepsTheNewest ==
    phase = "serving" /\ limits = {limit} =>
        \A a \in Accounts : Of(a, erased) = {} =>
            Of(a, history) = Newest(Of(a, inserted), limit)

\* Paging through an unchanged list shows every matching row exactly once, newest
\* first, also among rows that were received in the same second.
PagesCover ==
    \A a \in Accounts, from \in 0..MaxClock :
        LET rows == Matching(a, from)
        IN  /\ UNION {PageOf(rows, p) : p \in 1..Cardinality(rows)} = rows
            /\ \A p, q \in 1..Cardinality(rows) : p < q =>
                  \A g \in PageOf(rows, p), h \in PageOf(rows, q) : Newer(g, h)

----------------------------------------------------------------------------
(* The strengthening under which the safety properties above are inductive. *)

\* The table is part of what was ever inserted, under ids that never repeat.
Ledger ==
    /\ IsFiniteSet(inserted)
    /\ history \subseteq inserted
    /\ \A h \in inserted : h.id < nextId
    /\ \A g, h \in inserted : g.id = h.id => g = h
    /\ limit \in limits

\* A request in progress knows what it is doing, and for which account.
Working ==
    \A r \in Requests : req[r].pc \in {"stamped", "listed"} =>
        req[r].op \in {"upload", "list"} /\ req[r].account \in Accounts

\* An account that the cleanup has dealt with, or found empty, is within the limit.
WithinLimit ==
    \A a \in Accounts :
        phase = "serving" \/ a \notin todo => Cardinality(Of(a, history)) <= limit

HistoryInv ==
    /\ TypeOK
    /\ Ledger
    /\ Working
    /\ WithinLimit
    /\ OnlyOverflowEvicts
    /\ AnswersOwnRows

\* What was deleted is gone for good, and a request that was not made deletes
\* nothing: the rest that DeletionsAddUp needs.
Accounted ==
    /\ erased \subseteq inserted \ history
    /\ \A r \in Requests : req[r].pc = "idle" => req[r].op = "none"
    /\ IsFiniteSet(Receipts)
    /\ DeletionsAddUp
=============================================================================
