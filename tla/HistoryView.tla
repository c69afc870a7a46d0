----------------------------- MODULE HistoryView -----------------------------
(***************************************************************************)
(* The history list of the client with its bar for selection and clearing  *)
(* (widgets/history_content.dart) and the detail pane beside it            *)
(* (widgets/detail_pane.dart, screens/desktop_shell.dart), against the     *)
(* history of one account.                                                 *)
(*                                                                         *)
(* Dart runs one piece of code at a time: an action is a tap, a timer or   *)
(* the answer to a request, up to the next await.  Between the request and *)
(* its answer anything may happen, and answers may overtake each other.    *)
(* A row is a number, its place in the order of the list, the newest row   *)
(* having the largest; the search field and the sidebar are one filter.    *)
(***************************************************************************)
EXTENDS Integers, FiniteSets

CONSTANTS
    Ids,            \* rows that may ever exist
    PageSize,       \* rows in an answer that no page_size asks for
    Slots,          \* requests of the widgets under way at one time
    None,           \* no row
    Histories,      \* what the server may hold when the list is opened
    Filters,        \* what the search field and the platform filter let through
    CountdownFrom,  \* the 5 seconds before clearing
    MaxActions, MaxTrouble \* bounds of the model

ASSUME ViewAssumption ==
    /\ Ids \subseteq Nat /\ None \notin Ids
    /\ PageSize \in Nat \ {0}
    /\ Histories \subseteq SUBSET Ids
    /\ Filters \subseteq SUBSET Ids /\ Ids \in Filters
    /\ CountdownFrom \in Nat \ {0}
    /\ Slots # {}
    /\ MaxActions \in Nat /\ MaxTrouble \in Nat

VARIABLES
    rows,       \* the history of the account, on the server
    records, loading, refreshing,
    error,      \* _error is not null
    lostList,   \* history: "load", "refresh", if an exception ended one and
                \* none was sent or answered since
    auto,       \* _autoRefreshTimer runs
    filter,
    selected, selectionMode,
    clearConfirming, clearCountdown,
    clearTimer, \* _clearTimer runs
    selectedId, \* the row in the detail pane, None if there is no pane
    detail,     \* the row whose preview or text the pane shows
    lostDetail, \* history: an exception ended a request for the opened row
    req,        \* requests under way
    waited,     \* history: seconds that the present countdown has counted
    actions, trouble

list == <<records, loading, refreshing, error, lostList>>
selection == <<selected, selectionMode>>
clearing == <<clearConfirming, clearCountdown, clearTimer, waited>>
pane == <<selectedId, detail, lostDetail>>
bounds == <<actions, trouble>>
vars == <<rows, list, auto, filter, selection, clearing, pane, req, bounds>>

Lists == {"load", "refresh"}
Deletions == {"delete", "deleteShown", "deleteSelected", "clear"}

Request == [op    : Lists \cup Deletions \cup {"none", "detail"},
            ids   : SUBSET Ids, \* the rows to delete or show
            phase : {"idle", "sent", "ok", "failed"},
            items : SUBSET Ids] \* of a list that was answered

Idle == [op |-> "none", ids |-> {}, phase |-> "idle", items |-> {}]

Detail == [id : Ids \cup {None}, busy : BOOLEAN]

NoDetail == [id |-> None, busy |-> FALSE]

TypeOK ==
    /\ rows \subseteq Ids /\ records \subseteq Ids
    /\ loading \in BOOLEAN /\ refreshing \in BOOLEAN /\ error \in BOOLEAN
    /\ lostList \subseteq Lists /\ lostDetail \in BOOLEAN
    /\ auto \in BOOLEAN
    /\ filter \in Filters
    /\ selected \subseteq Ids /\ selectionMode \in BOOLEAN
    /\ clearConfirming \in BOOLEAN /\ clearTimer \in BOOLEAN
    /\ clearCountdown \in 0..CountdownFrom /\ waited \in 0..CountdownFrom
    /\ selectedId \in Ids \cup {None} /\ detail \in Detail
    /\ req \in [Slots -> Request]
    /\ actions \in 0..MaxActions /\ trouble \in 0..MaxTrouble

----------------------------------------------------------------------------
(* Requests *)

New(op, ids) == [op |-> op, ids |-> ids, phase |-> "sent", items |-> {}]

Free == {s \in Slots : req[s].phase = "idle"}

\* Slots are alike: any free one will do.
Send(op, ids) ==
    /\ Free # {}
    /\ req' = [req EXCEPT ![CHOOSE s \in Free : TRUE] = New(op, ids)]

InFlight(op) == \E s \in Slots : req[s].op = op

Requested(op, s) == req[s].op = op /\ req[s].phase = "sent"

\* The rows that a request leaves.
Left(r) ==
    CASE r.op \in {"delete", "deleteShown", "deleteSelected"} -> rows \ r.ids
      [] r.op = "clear" -> {}
      [] OTHER -> rows

\* The client asks for no page and no size, so it gets the first page.
Newest(S) == {i \in S : Cardinality({j \in S : j > i}) < PageSize}

\* The server does what it is asked, and the answer is on its way.
Serve(s) ==
    /\ req[s].phase = "sent"
    /\ rows' = Left(req[s])
    /\ LET found == req[s].op \in {"detail", "delete", "deleteShown"} => req[s].ids \subseteq rows
       IN req' = [req EXCEPT ![s].phase = IF found THEN "ok" ELSE "failed",
                             ![s].items = IF req[s].op \in Lists THEN Newest(rows) ELSE {}]
    /\ UNCHANGED <<list, auto, filter, selection, clearing, pane, bounds>>

Trouble == trouble < MaxTrouble /\ trouble' = trouble + 1 /\ UNCHANGED actions

\* The request or its answer is lost, or the server answers with an error.
Fail(s) ==
    /\ req[s].phase = "sent" /\ Trouble
    /\ rows' \in {rows, Left(req[s])}
    /\ req' = [req EXCEPT ![s].phase = "failed"]
    /\ UNCHANGED <<list, auto, filter, selection, clearing, pane>>

\* _send catches http.ClientException only: what else is thrown, for a body that
\* is not JSON or a failed TLS handshake, ends the function that awaits.
Escape(s) ==
    /\ req[s].phase = "sent" /\ Trouble
    /\ rows' \in {rows, Left(req[s])}
    /\ req' = [req EXCEPT ![s] = Idle]
    /\ lostList' = lostList \cup ({req[s].op} \cap Lists)
    /\ lostDetail' = (lostDetail \/ (req[s].op = "detail" /\ selectedId \in req[s].ids))
    /\ UNCHANGED <<records, loading, refreshing, error, auto, filter, selection, clearing,
                   selectedId, detail>>

\* Other devices upload and delete.
ServerChange ==
    /\ Trouble
    /\ \E i \in Ids : rows' \in {rows \cup {i}, rows \ {i}}
    /\ UNCHANGED <<list, auto, filter, selection, clearing, pane, req>>

----------------------------------------------------------------------------
(* Loading and refreshing *)

BeginLoad ==
    /\ loading' = TRUE /\ refreshing' = FALSE /\ error' = FALSE /\ lostList' = {}
    /\ UNCHANGED records

UserActs == actions < MaxActions /\ actions' = actions + 1 /\ UNCHANGED trouble

\* _filtered.
Visible == records \cap filter

ListShown == ~loading /\ ~error /\ Visible # {}

\* _load, by the button, the shortcut, a retry, or at the end of a manual input.
Load ==
    /\ UserActs /\ BeginLoad /\ Send("load", {})
    /\ UNCHANGED <<rows, auto, filter, selection, clearing, pane>>

BeginRefresh ==
    /\ refreshing' = TRUE /\ lostList' = lostList \ {"refresh"}
    /\ Send("refresh", {})
    /\ UNCHANGED <<rows, records, loading, error, auto, filter, selection, clearing, pane>>

\* _refresh, by pulling the list.
PullRefresh == UserActs /\ ListShown /\ BeginRefresh

AutoRefresh == auto /\ ~refreshing /\ ~loading /\ BeginRefresh /\ UNCHANGED bounds

\* Faulty variant: the spinner is left alone when the load fails.
LoadAnsweredSpinning(s) ==
    /\ records' = IF req[s].phase = "ok" THEN req[s].items ELSE records
    /\ loading' = IF req[s].phase = "ok" THEN FALSE ELSE loading
    /\ error' = IF req[s].phase = "ok" THEN error ELSE TRUE
    /\ lostList' = lostList \ {"load"}
    /\ UNCHANGED refreshing

\* An answer that is good does not clear an error set meanwhile by a refresh.
LoadAnswered(s) ==
    /\ records' = IF req[s].phase = "ok" THEN req[s].items ELSE records
    /\ loading' = FALSE
    /\ error' = IF req[s].phase = "ok" THEN error ELSE TRUE
    /\ lostList' = lostList \ {"load"}
    /\ UNCHANGED refreshing

\* Faulty variant: an error of a refresh is kept until the next load.
RefreshAnsweredBad(s) ==
    /\ records' = IF req[s].phase = "ok" THEN req[s].items ELSE records
    /\ error' = (error \/ req[s].phase = "failed")
    /\ refreshing' = FALSE /\ lostList' = lostList \ {"refresh"}
    /\ UNCHANGED loading

RefreshAnswered(s) ==
    /\ records' = IF req[s].phase = "ok" THEN req[s].items ELSE records
    /\ error' = (req[s].phase = "failed")
    /\ refreshing' = FALSE /\ lostList' = lostList \ {"refresh"}
    /\ UNCHANGED loading

Answered(s) == req[s].phase \in {"ok", "failed"}

ListAnswer(s) ==
    /\ Answered(s)
    /\ \/ req[s].op = "load" /\ LoadAnswered(s)
       \/ req[s].op = "refresh" /\ RefreshAnswered(s)
    /\ req' = [req EXCEPT ![s] = Idle]
    /\ UNCHANGED <<rows, auto, filter, selection, clearing, pane, bounds>>

\* The app goes to the background (or loses the focus), or comes back.
Lifecycle ==
    /\ UserActs /\ auto' = ~auto
    /\ UNCHANGED <<rows, list, filter, selection, clearing, pane, req>>

ChangeFilter ==
    /\ UserActs /\ filter' \in Filters \ {filter}
    /\ UNCHANGED <<rows, list, auto, selection, clearing, pane, req>>

----------------------------------------------------------------------------
(* The bar for selection and clearing *)

\* The countdown goes on.
ToggleSelectionMode ==
    /\ UserActs /\ selectionMode' = ~selectionMode
    /\ selected' = IF selectionMode THEN {} ELSE selected
    /\ UNCHANGED <<rows, list, auto, filter, clearing, pane, req>>

Tap(i) ==
    /\ UserActs /\ selectionMode /\ ListShown /\ i \in Visible
    /\ selected' = IF i \in selected THEN selected \ {i} ELSE selected \cup {i}
    /\ UNCHANGED <<rows, list, auto, filter, selectionMode, clearing, pane, req>>

\* The code compares numbers: what is selected may be another set.
TapAll ==
    /\ UserActs /\ selectionMode
    /\ selected' = IF Visible # {} /\ Cardinality(selected) = Cardinality(Visible)
                   THEN {} ELSE selected \cup Visible
    /\ UNCHANGED <<rows, list, auto, filter, selectionMode, clearing, pane, req>>

StartClear ==
    /\ UserActs /\ selectionMode /\ ~clearConfirming
    /\ clearConfirming' = TRUE /\ clearCountdown' = CountdownFrom
    /\ clearTimer' = TRUE /\ waited' = 0
    /\ UNCHANGED <<rows, list, auto, filter, selection, pane, req>>

\* Faulty variant: the timer does not end at zero.
TickDown ==
    /\ clearTimer
    /\ clearCountdown' = clearCountdown - 1
    /\ waited' = IF waited < CountdownFrom THEN waited + 1 ELSE waited
    /\ UNCHANGED <<rows, list, auto, filter, selection, clearConfirming, clearTimer, pane, req, bounds>>

\* A second passes.
Tick ==
    /\ clearTimer
    /\ clearCountdown' = IF clearCountdown > 0 THEN clearCountdown - 1 ELSE 0
    /\ clearTimer' = (clearCountdown' # 0)
    /\ waited' = IF waited < CountdownFrom THEN waited + 1 ELSE waited
    /\ UNCHANGED <<rows, list, auto, filter, selection, clearConfirming, pane, req, bounds>>

\* The confirming button stays while its request is under way.
ClearAll ==
    /\ UserActs /\ selectionMode /\ clearConfirming /\ clearCountdown = 0
    /\ Send("clear", {})
    /\ UNCHANGED <<rows, list, auto, filter, selection, clearing, pane>>

DeleteSelected ==
    /\ UserActs /\ selectionMode /\ selected # {}
    /\ Send("deleteSelected", selected)
    /\ UNCHANGED <<rows, list, auto, filter, selection, clearing, pane>>

\* Faulty variant: the countdown is set back, but the button stays.
CancelClearKeepingButton ==
    /\ clearCountdown' = 0 /\ clearTimer' = FALSE /\ waited' = 0
    /\ UNCHANGED clearConfirming

CancelClear ==
    /\ clearConfirming' = FALSE /\ clearCountdown' = 0 /\ clearTimer' = FALSE
    /\ waited' = 0

\* After a deletion the list is loaded again, whatever is selected by then is
\* selected no more, and after an error there is a message.
DeletionAnswer(s) ==
    /\ Answered(s) /\ req[s].op \in {"delete", "deleteSelected", "clear"}
    /\ IF req[s].op = "clear" THEN CancelClear ELSE UNCHANGED clearing
    /\ IF req[s].phase = "ok"
       THEN /\ BeginLoad
            /\ req' = [req EXCEPT ![s] = New("load", {})]
            /\ selected' = IF req[s].op = "delete" THEN selected ELSE {}
       ELSE /\ req' = [req EXCEPT ![s] = Idle]
            /\ UNCHANGED <<list, selected>>
    /\ UNCHANGED <<rows, auto, filter, selectionMode, pane, bounds>>

----------------------------------------------------------------------------
(* The detail pane *)

\* Requests of a pane that is gone are answered to nobody.
WithoutPane == [s \in Slots |-> IF req[s].op = "detail" THEN Idle ELSE req[s]]

ClosePane == selectedId' = None /\ detail' = NoDetail /\ lostDetail' = FALSE

\* The preview stands in until the text has come; requests for the row that was
\* shown before stay under way.
Open(i) ==
    /\ UserActs /\ ~selectionMode /\ ListShown /\ i \in Visible /\ i # selectedId
    /\ selectedId' = i
    /\ detail' = [id |-> i, busy |-> TRUE] /\ lostDetail' = FALSE
    /\ Send("detail", {i})
    /\ UNCHANGED <<rows, list, auto, filter, selection, clearing>>

Close ==
    /\ UserActs /\ selectedId # None /\ ClosePane /\ req' = WithoutPane
    /\ UNCHANGED <<rows, list, auto, filter, selection, clearing>>

\* Faulty variant: the answer is shown whatever was opened meanwhile.
DetailOfAnyRow(s) ==
    /\ detail' = IF req[s].phase = "ok"
                 THEN [id |-> CHOOSE i \in req[s].ids : TRUE, busy |-> FALSE]
                 ELSE [detail EXCEPT !.busy = FALSE]
    /\ lostDetail' = FALSE

\* An answer for another row than the opened one is dropped.
DetailShown(s) ==
    IF selectedId \in req[s].ids
    THEN detail' = [id |-> selectedId, busy |-> FALSE] /\ lostDetail' = FALSE
    ELSE UNCHANGED <<detail, lostDetail>>

DetailAnswer(s) ==
    /\ Answered(s) /\ req[s].op = "detail"
    /\ DetailShown(s)
    /\ req' = [req EXCEPT ![s] = Idle]
    /\ UNCHANGED <<rows, list, auto, filter, selection, clearing, selectedId, bounds>>

\* _delete, from a card: the pane closes first, if it shows this row.
Delete(i) ==
    /\ UserActs /\ ~selectionMode /\ ListShown /\ i \in Visible
    /\ Free # {}
    /\ IF selectedId = i
       THEN /\ ClosePane
            /\ req' = [WithoutPane EXCEPT ![CHOOSE s \in Free : TRUE] = New("delete", {i})]
       ELSE Send("delete", {i}) /\ UNCHANGED pane
    /\ UNCHANGED <<rows, list, auto, filter, selection, clearing>>

\* _onDetailDelete, from the pane.
DeleteShown ==
    /\ UserActs /\ detail.id # None
    /\ Send("deleteShown", {detail.id})
    /\ UNCHANGED <<rows, list, auto, filter, selection, clearing, pane>>

\* The pane closes, also if it shows another row by now.
DeleteShownAnswer(s) ==
    /\ Answered(s) /\ req[s].op = "deleteShown"
    /\ IF req[s].phase = "ok"
       THEN /\ BeginLoad /\ ClosePane
            /\ req' = [WithoutPane EXCEPT ![s] = New("load", {})]
       ELSE req' = [req EXCEPT ![s] = Idle] /\ UNCHANGED <<list, pane>>
    /\ UNCHANGED <<rows, auto, filter, selection, clearing, bounds>>

----------------------------------------------------------------------------
\* initState: the first load is under way, and the timer runs.
Init ==
    /\ rows \in Histories
    /\ records = {} /\ loading = TRUE /\ refreshing = FALSE /\ error = FALSE
    /\ lostList = {} /\ lostDetail = FALSE
    /\ auto = TRUE
    /\ filter = Ids
    /\ selected = {} /\ selectionMode = FALSE
    /\ clearConfirming = FALSE /\ clearCountdown = 0 /\ clearTimer = FALSE /\ waited = 0
    /\ selectedId = None /\ detail = NoDetail
    /\ req = [s \in Slots |-> IF s = CHOOSE t \in Slots : TRUE THEN New("load", {}) ELSE Idle]
    /\ actions = 0 /\ trouble = 0

Answer(s) ==
    ListAnswer(s) \/ DeletionAnswer(s) \/ DetailAnswer(s) \/ DeleteShownAnswer(s)

User ==
    \/ Load \/ PullRefresh \/ Lifecycle \/ ChangeFilter
    \/ ToggleSelectionMode \/ TapAll \/ StartClear \/ ClearAll \/ DeleteSelected
    \/ Close \/ DeleteShown
    \/ \E i \in Ids : Tap(i) \/ Open(i) \/ Delete(i)

Next ==
    \/ User \/ AutoRefresh \/ Tick \/ ServerChange
    \/ \E s \in Slots : Serve(s) \/ Fail(s) \/ Escape(s) \/ Answer(s)

Spec == Init /\ [][Next]_vars

\* The timer fires every three seconds, and the event loop gets to what has come.
\* Nothing makes a request end: _send sets no timeout.
FairSpec ==
    /\ Spec /\ WF_vars(AutoRefresh)
    /\ \A s \in Slots : WF_vars(Answer(s))

----------------------------------------------------------------------------
\* The spinner and the refresh mark go with a request that will remove them,
\* however loads, refreshes and deletions overlap, except when an exception has
\* ended such a request and none was sent or answered since.
BusyIsInFlight ==
    /\ loading => InFlight("load") \/ "load" \in lostList
    /\ refreshing => InFlight("refresh") \/ "refresh" \in lostList

\* No history is cleared before the full countdown has passed since it was last
\* started, and since a clearing was last answered, whatever was selected,
\* filtered or left in between.
ClearNeedsCountdown ==
    [][\A s \in Slots :
          Requested("clear", s)' /\ ~Requested("clear", s) => waited = CountdownFrom]_vars

\* The pane never shows one row under the name of another: what it shows, and
\* would delete, is the row last opened, and if it seems to be loading a
\* request for that row is under way, or an exception has ended one.
PaneShowsOpened ==
    /\ detail.id = selectedId
    /\ detail.busy => \/ \E s \in Slots : req[s].op = "detail" /\ req[s].ids = {selectedId}
                      \/ lostDetail

InForeground == <>[]auto

\* The network and the server end every request, in time or late.
RequestsEnd == \A s \in Slots : []<>(req[s].phase # "sent")

NothingLost == <>[](lostList = {})

ShowsNewest == <>[](records = Newest(rows) /\ ~loading /\ ~error)

\* While the app is in the foreground, if requests end and no exception leaves a
\* list request without its end, the list catches up with the first page of the
\* server, past stale answers, failures and reloads, and shows it without error
\* or spinner.
ListCatchesUp == InForeground /\ RequestsEnd /\ NothingLost => ShowsNewest

\* What history_content.dart:91-93 promises: in the foreground the list is
\* refreshed every three seconds, whatever a request ended in.
AutoRefreshRecovers == InForeground /\ RequestsEnd => ShowsNewest
=============================================================================
