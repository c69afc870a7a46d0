--------------------------- MODULE HistoryViewProofs ---------------------------
(***************************************************************************)
(* Theorems about HistoryView, for any rows, filters, requests under way   *)
(* and length of the countdown.                                            *)
(***************************************************************************)
EXTENDS HistoryView, TLAPS

\* A slot that is free says nothing.
FreeIsIdle == \A s \in Slots : req[s].phase = "idle" => req[s] = Idle

\* The countdown and its timer: what is left and what has passed add up.
Counted ==
    /\ clearTimer => clearCountdown > 0
    /\ clearCountdown > 0 => clearConfirming
    /\ clearConfirming => waited + clearCountdown = CountdownFrom

\* The list is right, and nothing under way will make it wrong.
Settled ==
    /\ records = Newest(rows) /\ ~loading /\ ~error
    /\ \A s \in Slots :
          /\ req[s].op \notin Deletions
          /\ req[s].op \in Lists => \/ req[s].phase = "sent"
                                    \/ req[s].phase = "ok" /\ req[s].items = Newest(rows)

\* Nobody changes anything, and no request goes wrong.
Undisturbed == ~User /\ ~ServerChange /\ \A s \in Slots : ~Fail(s) /\ ~Escape(s)

Ops == Lists \cup Deletions \cup {"none", "detail"}

(* Slots *)

\* A request that is sent takes a free slot and leaves the others alone.
LEMMA SendSlot ==
    ASSUME TypeOK, FreeIsIdle, NEW op \in Ops, NEW ids \in SUBSET Ids, Send(op, ids)
    PROVE  \E s \in Slots :
              /\ req[s] = Idle
              /\ req' = [req EXCEPT ![s] = New(op, ids)]
<1>1. (CHOOSE s \in Free : TRUE) \in Free
  BY DEF Send
<1> QED BY <1>1 DEF Send, Free, FreeIsIdle

\* So does the deletion from a card, after the pane is gone.
LEMMA DeleteSlot ==
    ASSUME TypeOK, FreeIsIdle, NEW i \in Ids, Delete(i)
    PROVE  \E s \in Slots :
              /\ req[s] = Idle
              /\ \/ UNCHANGED pane /\ req' = [req EXCEPT ![s] = New("delete", {i})]
                 \/ ClosePane /\ req' = [WithoutPane EXCEPT ![s] = New("delete", {i})]
<1>1. CASE selectedId = i
  <2>1. (CHOOSE s \in Free : TRUE) \in Free
    BY <1>1 DEF Delete
  <2> QED BY <1>1, <2>1 DEF Delete, Free, FreeIsIdle
<1>2. CASE selectedId # i
  <2>1. Send("delete", {i}) /\ UNCHANGED pane
    BY <1>2 DEF Delete
  <2>2. "delete" \in Ops /\ {i} \in SUBSET Ids
    BY DEF Ops, Deletions
  <2> QED BY <2>1, <2>2, SendSlot
<1> QED BY <1>1, <1>2

----------------------------------------------------------------------------
(* Types *)

LEMMA NewTypes ==
    ASSUME NEW op \in Ops, NEW ids \in SUBSET Ids
    PROVE  New(op, ids) \in Request /\ Idle \in Request
BY DEF New, Idle, Request, Ops

LEMMA SendTypes ==
    ASSUME TypeOK, FreeIsIdle, NEW op \in Ops, NEW ids \in SUBSET Ids, Send(op, ids)
    PROVE  req' \in [Slots -> Request]
BY SendSlot, NewTypes DEF TypeOK

LEMMA WithoutPaneTypes == TypeOK => WithoutPane \in [Slots -> Request]
BY DEF TypeOK, WithoutPane, Idle, Request

LEMMA UserTypes == TypeOK /\ UserActs => actions' \in 0..MaxActions /\ trouble' = trouble
BY ViewAssumption DEF TypeOK, UserActs

LEMMA TroubleTypes == TypeOK /\ Trouble => trouble' \in 0..MaxTrouble /\ actions' = actions
BY ViewAssumption DEF TypeOK, Trouble

LEMMA AnswerTypes ==
    ASSUME TypeOK, NEW s \in Slots
    PROVE  /\ req[s] \in Request /\ req[s].items \subseteq Ids /\ req[s].ids \subseteq Ids
           /\ [req EXCEPT ![s] = Idle] \in [Slots -> Request]
           /\ [req EXCEPT ![s] = New("load", {})] \in [Slots -> Request]
           /\ [WithoutPane EXCEPT ![s] = New("load", {})] \in [Slots -> Request]
           /\ Left(req[s]) \subseteq Ids
<1>1. "load" \in Ops /\ {} \in SUBSET Ids
  BY DEF Ops, Lists
<1>2. New("load", {}) \in Request /\ Idle \in Request
  BY <1>1, NewTypes
<1>3. req[s] \in Request /\ req[s].items \subseteq Ids /\ req[s].ids \subseteq Ids
  BY DEF TypeOK, Request
<1>4. Left(req[s]) \subseteq Ids
  BY DEF TypeOK, Left
<1> QED BY <1>2, <1>3, <1>4, WithoutPaneTypes DEF TypeOK

LEMMA OpTypes == /\ {"load", "refresh", "clear", "deleteSelected", "delete", "deleteShown", "detail"} \subseteq Ops
                 /\ {} \in SUBSET Ids
BY DEF Ops, Lists, Deletions

LEMMA ClosedTypes ==
    ASSUME ClosePane
    PROVE  selectedId' \in Ids \cup {None} /\ detail' \in Detail /\ lostDetail' \in BOOLEAN
BY DEF ClosePane, NoDetail, Detail

ListTypes ==
    /\ records \subseteq Ids /\ loading \in BOOLEAN /\ refreshing \in BOOLEAN
    /\ error \in BOOLEAN /\ lostList \subseteq Lists

LEMMA TypeStep == TypeOK /\ FreeIsIdle /\ [Next]_vars => TypeOK'
<1> SUFFICES ASSUME TypeOK, FreeIsIdle, [Next]_vars PROVE TypeOK'
  OBVIOUS
<1> USE DEF list, selection, clearing, pane, bounds, ListTypes
<1>1. CASE Load
  BY <1>1, UserTypes, SendTypes, OpTypes DEF Load, BeginLoad, TypeOK
<1>2. CASE PullRefresh
  BY <1>2, UserTypes, SendTypes, OpTypes DEF PullRefresh, BeginRefresh, TypeOK
<1>3. CASE AutoRefresh
  BY <1>3, SendTypes, OpTypes DEF AutoRefresh, BeginRefresh, TypeOK
<1>4. CASE Lifecycle
  BY <1>4, UserTypes DEF Lifecycle, TypeOK
<1>5. CASE ChangeFilter
  BY <1>5, UserTypes DEF ChangeFilter, TypeOK
<1>6. CASE ToggleSelectionMode
  BY <1>6, UserTypes DEF ToggleSelectionMode, TypeOK
<1>7. CASE TapAll
  BY <1>7, UserTypes DEF TapAll, Visible, TypeOK
<1>8. CASE StartClear
  BY <1>8, UserTypes, ViewAssumption DEF StartClear, TypeOK
<1>9. CASE ClearAll
  BY <1>9, UserTypes, SendTypes, OpTypes DEF ClearAll, TypeOK
<1>10. CASE DeleteSelected
  BY <1>10, UserTypes, SendTypes, OpTypes DEF DeleteSelected, TypeOK
<1>11. CASE Close
  BY <1>11, UserTypes, WithoutPaneTypes, ClosedTypes DEF Close, TypeOK
<1>12. CASE DeleteShown
  <2>1. {detail.id} \in SUBSET Ids
    BY <1>12 DEF DeleteShown, TypeOK, Detail
  <2> QED BY <1>12, <2>1, UserTypes, SendTypes, OpTypes DEF DeleteShown, TypeOK
<1>13. ASSUME NEW i \in Ids, Tap(i) PROVE TypeOK'
  BY <1>13, UserTypes DEF Tap, TypeOK
<1>14. ASSUME NEW i \in Ids, Open(i) PROVE TypeOK'
  <2>1. detail' \in Detail /\ selectedId' \in Ids \cup {None} /\ lostDetail' \in BOOLEAN
    BY <1>14 DEF Open, Detail
  <2>2. req' \in [Slots -> Request]
    BY <1>14, SendTypes, OpTypes DEF Open
  <2> QED BY <1>14, <2>1, <2>2, UserTypes DEF Open, TypeOK
<1>15. ASSUME NEW i \in Ids, Delete(i) PROVE TypeOK'
  <2>1. New("delete", {i}) \in Request
    BY NewTypes, OpTypes
  <2>2. /\ req' \in [Slots -> Request]
        /\ detail' \in Detail /\ selectedId' \in Ids \cup {None} /\ lostDetail' \in BOOLEAN
    BY <1>15, <2>1, DeleteSlot, WithoutPaneTypes, ClosedTypes DEF TypeOK
  <2> QED BY <1>15, <2>2, UserTypes DEF Delete, TypeOK
<1>16. CASE Tick
  <2>1. clearCountdown' \in 0..CountdownFrom /\ waited' \in 0..CountdownFrom
    BY <1>16, ViewAssumption DEF Tick, TypeOK
  <2>2. clearTimer' \in BOOLEAN
    BY <1>16 DEF Tick
  <2> QED BY <1>16, <2>1, <2>2 DEF Tick, TypeOK
<1>17. CASE ServerChange
  BY <1>17, TroubleTypes DEF ServerChange, TypeOK
<1>18. ASSUME NEW s \in Slots, Serve(s) PROVE TypeOK'
  <2>1. PICK phase \in {"ok", "failed"}, items \in SUBSET Ids :
              req' = [req EXCEPT ![s].phase = phase, ![s].items = items]
    <3>1. Newest(rows) \in SUBSET Ids
      BY DEF Newest, TypeOK
    <3> QED BY <1>18, <3>1 DEF Serve
  <2>2. req[s] \in Request
    BY AnswerTypes
  <2>3. [req[s] EXCEPT !.phase = phase, !.items = items] \in Request
    BY <2>2 DEF Request
  <2>4. req' \in [Slots -> Request]
    BY <2>1, <2>3 DEF TypeOK
  <2> QED BY <1>18, <2>4, AnswerTypes DEF Serve, TypeOK
<1>19. ASSUME NEW s \in Slots, Fail(s) PROVE TypeOK'
  <2>1. [req EXCEPT ![s].phase = "failed"] \in [Slots -> Request]
    BY DEF TypeOK, Request
  <2>2. rows' \subseteq Ids
    BY <1>19, AnswerTypes DEF Fail, TypeOK
  <2> QED BY <1>19, <2>1, <2>2, TroubleTypes DEF Fail, TypeOK
<1>25. ASSUME NEW s \in Slots, Escape(s) PROVE TypeOK'
  <2>1. rows' \subseteq Ids /\ lostList' \subseteq Lists /\ lostDetail' \in BOOLEAN
    BY <1>25, AnswerTypes DEF Escape, TypeOK
  <2> QED BY <1>25, <2>1, AnswerTypes, TroubleTypes DEF Escape, TypeOK
<1>20. ASSUME NEW s \in Slots, ListAnswer(s) PROVE TypeOK'
  <2>1. ListTypes'
    BY <1>20, AnswerTypes DEF ListAnswer, LoadAnswered, RefreshAnswered, TypeOK
  <2> QED BY <1>20, <2>1, AnswerTypes DEF ListAnswer, TypeOK
<1>21. ASSUME NEW s \in Slots, DeletionAnswer(s) PROVE TypeOK'
  <2>1. /\ clearConfirming' \in BOOLEAN /\ clearTimer' \in BOOLEAN
        /\ clearCountdown' \in 0..CountdownFrom /\ waited' \in 0..CountdownFrom
    <3>1. 0 \in 0..CountdownFrom
      BY ViewAssumption
    <3>2. CASE req[s].op = "clear"
      BY <1>21, <3>1, <3>2 DEF DeletionAnswer, CancelClear
    <3>3. CASE req[s].op # "clear"
      BY <1>21, <3>3 DEF DeletionAnswer, TypeOK
    <3> QED BY <3>2, <3>3
  <2>2. ListTypes'
    BY <1>21 DEF DeletionAnswer, BeginLoad, TypeOK
  <2>3. req' \in [Slots -> Request] /\ selected' \subseteq Ids
    BY <1>21, AnswerTypes DEF DeletionAnswer, TypeOK
  <2> QED BY <1>21, <2>1, <2>2, <2>3 DEF DeletionAnswer, TypeOK
<1>22. ASSUME NEW s \in Slots, DetailAnswer(s) PROVE TypeOK'
  <2>1. detail' \in Detail /\ lostDetail' \in BOOLEAN
    <3>1. CASE selectedId \in req[s].ids
      <4>1. detail' = [id |-> selectedId, busy |-> FALSE] /\ lostDetail' = FALSE
        BY <1>22, <3>1 DEF DetailAnswer, DetailShown
      <4> QED BY <4>1 DEF TypeOK, Detail
    <3>2. CASE selectedId \notin req[s].ids
      <4>1. detail' = detail /\ lostDetail' = lostDetail
        BY <1>22, <3>2 DEF DetailAnswer, DetailShown
      <4> QED BY <4>1 DEF TypeOK
    <3> QED BY <3>1, <3>2
  <2> QED BY <1>22, <2>1, AnswerTypes DEF DetailAnswer, TypeOK
<1>23. ASSUME NEW s \in Slots, DeleteShownAnswer(s) PROVE TypeOK'
  <2>1. ListTypes'
    BY <1>23 DEF DeleteShownAnswer, BeginLoad, TypeOK
  <2>2. /\ req' \in [Slots -> Request]
        /\ detail' \in Detail /\ selectedId' \in Ids \cup {None} /\ lostDetail' \in BOOLEAN
    BY <1>23, AnswerTypes, ClosedTypes DEF DeleteShownAnswer, TypeOK
  <2> QED BY <1>23, <2>1, <2>2 DEF DeleteShownAnswer, TypeOK
<1>24. CASE UNCHANGED vars
  BY <1>24 DEF vars, TypeOK
<1> QED
  BY <1>1, <1>2, <1>3, <1>4, <1>5, <1>6, <1>7, <1>8, <1>9, <1>10, <1>11, <1>12,
     <1>13, <1>14, <1>15, <1>16, <1>17, <1>18, <1>19, <1>20, <1>21, <1>22, <1>23,
     <1>24, <1>25 DEF Next, User, Answer

----------------------------------------------------------------------------
(* Requests under way *)

\* What was under way stays so, and there is one more request.
LEMMA SendKeeps ==
    ASSUME TypeOK, FreeIsIdle, NEW op \in Ops \ {"none"}, NEW ids \in SUBSET Ids, Send(op, ids)
    PROVE  /\ FreeIsIdle'
           /\ \A t \in Slots : req[t].op # "none" => req'[t] = req[t]
           /\ \A t \in Slots : req'[t] \in {req[t], New(op, ids)}
           /\ \E t \in Slots : req'[t] = New(op, ids)
<1>1. PICK s \in Slots : req[s] = Idle /\ req' = [req EXCEPT ![s] = New(op, ids)]
  BY SendSlot
<1>2. \A t \in Slots : req'[t] = IF t = s THEN New(op, ids) ELSE req[t]
  BY <1>1 DEF TypeOK
<1>3. Idle.op = "none" /\ New(op, ids).phase # "idle"
  BY DEF Idle, New
<1> QED BY <1>1, <1>2, <1>3 DEF FreeIsIdle

\* A deletion from a card drops at most requests of the pane, with the pane.
LEMMA DeleteKeeps ==
    ASSUME TypeOK, FreeIsIdle, NEW i \in Ids, Delete(i)
    PROVE  /\ FreeIsIdle'
           /\ \A t \in Slots : req[t].op \notin {"none", "detail"} => req'[t] = req[t]
           /\ \A t \in Slots : req'[t] \in {req[t], Idle, New("delete", {i})}
           /\ \/ UNCHANGED pane /\ \A t \in Slots : req[t].op # "none" => req'[t] = req[t]
              \/ ClosePane
<1>1. PICK s \in Slots :
              /\ req[s] = Idle
              /\ \/ UNCHANGED pane /\ req' = [req EXCEPT ![s] = New("delete", {i})]
                 \/ ClosePane /\ req' = [WithoutPane EXCEPT ![s] = New("delete", {i})]
  BY DeleteSlot
<1>2. Idle.op = "none" /\ Idle.phase = "idle" /\ New("delete", {i}).phase # "idle"
  BY DEF Idle, New
<1>3. CASE UNCHANGED pane /\ req' = [req EXCEPT ![s] = New("delete", {i})]
  <2>1. \A t \in Slots : req'[t] = IF t = s THEN New("delete", {i}) ELSE req[t]
    BY <1>3 DEF TypeOK
  <2> QED BY <1>1, <1>2, <1>3, <2>1 DEF FreeIsIdle
<1>4. CASE ClosePane /\ req' = [WithoutPane EXCEPT ![s] = New("delete", {i})]
  <2>1. \A t \in Slots : req'[t] = IF t = s THEN New("delete", {i})
                                  ELSE IF req[t].op = "detail" THEN Idle ELSE req[t]
    BY <1>4 DEF WithoutPane
  <2> QED BY <1>1, <1>2, <1>4, <2>1 DEF FreeIsIdle
<1> QED BY <1>1, <1>3, <1>4

LEMMA FreeStep == TypeOK /\ FreeIsIdle /\ [Next]_vars => FreeIsIdle'
<1> SUFFICES ASSUME TypeOK, FreeIsIdle, [Next]_vars PROVE FreeIsIdle'
  OBVIOUS
<1>1. ASSUME NEW op \in Ops \ {"none"}, NEW ids \in SUBSET Ids, Send(op, ids) PROVE FreeIsIdle'
  BY <1>1, SendKeeps
<1>2. CASE Load \/ ClearAll
  BY <1>1, <1>2, OpTypes DEF Load, ClearAll
<1>3. CASE PullRefresh \/ AutoRefresh
  BY <1>1, <1>3, OpTypes DEF PullRefresh, AutoRefresh, BeginRefresh
<1>4. CASE DeleteSelected
  BY <1>1, <1>4, OpTypes DEF DeleteSelected, TypeOK
<1>5. CASE DeleteShown
  BY <1>1, <1>5, OpTypes DEF DeleteShown, TypeOK, Detail
<1>6. ASSUME NEW i \in Ids, Open(i) PROVE FreeIsIdle'
  BY <1>1, <1>6, OpTypes DEF Open
<1>7. ASSUME NEW i \in Ids, Delete(i) PROVE FreeIsIdle'
  BY <1>7, DeleteKeeps
<1>8. CASE Close
  BY <1>8 DEF Close, WithoutPane, FreeIsIdle
<1>9. ASSUME NEW s \in Slots, Serve(s) PROVE FreeIsIdle'
  <2>1. \A t \in Slots \ {s} : req'[t] = req[t]
    BY <1>9 DEF Serve, TypeOK
  <2>2. req'[s].phase # "idle"
    BY <1>9 DEF Serve, TypeOK, Request
  <2> QED BY <2>1, <2>2 DEF FreeIsIdle
<1>10. ASSUME NEW s \in Slots, Fail(s) PROVE FreeIsIdle'
  <2>1. \A t \in Slots \ {s} : req'[t] = req[t]
    BY <1>10 DEF Fail, TypeOK
  <2>2. req'[s].phase # "idle"
    BY <1>10 DEF Fail, TypeOK, Request
  <2> QED BY <2>1, <2>2 DEF FreeIsIdle
<1>11. ASSUME NEW s \in Slots,
              Escape(s) \/ ListAnswer(s) \/ DetailAnswer(s) \/ DeletionAnswer(s)
       PROVE  FreeIsIdle'
  <2>1. req' = [req EXCEPT ![s] = Idle] \/ req' = [req EXCEPT ![s] = New("load", {})]
    BY <1>11 DEF Escape, ListAnswer, DetailAnswer, DeletionAnswer
  <2> QED BY <2>1 DEF FreeIsIdle, New, TypeOK
<1>12. ASSUME NEW s \in Slots, DeleteShownAnswer(s) PROVE FreeIsIdle'
  <2>1. \/ req' = [req EXCEPT ![s] = Idle]
        \/ req' = [WithoutPane EXCEPT ![s] = New("load", {})]
    BY <1>12 DEF DeleteShownAnswer
  <2>2. \/ req' = [req EXCEPT ![s] = Idle]
        \/ \A t \in Slots : req'[t] = IF t = s THEN New("load", {})
                                     ELSE IF req[t].op = "detail" THEN Idle ELSE req[t]
    BY <2>1 DEF WithoutPane
  <2> QED BY <2>2 DEF FreeIsIdle, New, TypeOK
<1>13. CASE UNCHANGED req
  BY <1>13 DEF FreeIsIdle
<1>14. CASE Lifecycle \/ ChangeFilter \/ ToggleSelectionMode \/ TapAll \/ StartClear
  BY <1>13, <1>14 DEF Lifecycle, ChangeFilter, ToggleSelectionMode, TapAll, StartClear
<1>15. CASE Tick \/ ServerChange \/ (\E i \in Ids : Tap(i)) \/ UNCHANGED vars
  BY <1>13, <1>15 DEF Tick, ServerChange, Tap, vars
<1> QED
  BY <1>2, <1>3, <1>4, <1>5, <1>6, <1>7, <1>8, <1>9, <1>10, <1>11, <1>12, <1>14,
     <1>15 DEF Next, User, Answer

LEMMA ViewInit == Init => TypeOK /\ FreeIsIdle /\ BusyIsInFlight /\ PaneShowsOpened /\ Counted
<1> SUFFICES ASSUME Init PROVE TypeOK /\ FreeIsIdle /\ BusyIsInFlight /\ PaneShowsOpened /\ Counted
  OBVIOUS
<1>1. (CHOOSE t \in Slots : TRUE) \in Slots
  BY ViewAssumption
<1>2. req \in [Slots -> Request]
  <2>1. New("load", {}) \in Request /\ Idle \in Request
    BY OpTypes, NewTypes
  <2> QED BY <2>1 DEF Init
<1>3. Ids \in Filters /\ 0 \in 0..CountdownFrom /\ rows \subseteq Ids
  BY ViewAssumption DEF Init
<1>4. TypeOK
  <2>1. detail \in Detail /\ selectedId \in Ids \cup {None}
    BY DEF Init, NoDetail, Detail
  <2>2. actions \in 0..MaxActions /\ trouble \in 0..MaxTrouble
    BY ViewAssumption DEF Init
  <2> QED BY <1>2, <1>3, <2>1, <2>2 DEF Init, TypeOK
<1>5. FreeIsIdle
  BY DEF Init, FreeIsIdle, New
<1>6. InFlight("load")
  BY <1>1 DEF Init, InFlight, New
<1>7. BusyIsInFlight /\ PaneShowsOpened /\ Counted
  BY <1>6 DEF Init, BusyIsInFlight, PaneShowsOpened, Counted, NoDetail
<1> QED BY <1>4, <1>5, <1>7

----------------------------------------------------------------------------
(* The spinner, the refresh mark and the pane *)

\* What both need of a step: requests of an operation stay under way.
Stays(op) == \A t \in Slots : req[t].op = op => \E u \in Slots : req'[u].op = op /\ req'[u].ids = req[t].ids

LEMMA BusyKept ==
    ASSUME BusyIsInFlight, UNCHANGED <<loading, refreshing, lostList>>, Stays("load"), Stays("refresh")
    PROVE  BusyIsInFlight'
BY DEF BusyIsInFlight, InFlight, Stays

LEMMA PaneKept ==
    ASSUME PaneShowsOpened, UNCHANGED pane, Stays("detail")
    PROVE  PaneShowsOpened'
BY DEF PaneShowsOpened, Stays, pane

LEMMA ClosedShows == ASSUME ClosePane PROVE PaneShowsOpened'
BY DEF ClosePane, NoDetail, PaneShowsOpened

LEMMA SendStays ==
    ASSUME TypeOK, FreeIsIdle, NEW op \in Ops \ {"none"}, NEW ids \in SUBSET Ids, Send(op, ids)
    PROVE  /\ Stays("load") /\ Stays("refresh") /\ Stays("detail")
           /\ InFlight(op)' /\ \E t \in Slots : req'[t].op = op /\ req'[t].ids = ids
<1>1. PICK u \in Slots : req'[u] = New(op, ids)
  BY SendKeeps
<1>2. New(op, ids).op = op /\ New(op, ids).ids = ids
  BY DEF New
<1>3. \A t \in Slots : req[t].op # "none" => req'[t] = req[t]
  BY SendKeeps
<1> QED BY <1>1, <1>2, <1>3 DEF Stays, InFlight

\* A request whose phase alone changes stays under way.
LEMMA PhaseStays ==
    ASSUME TypeOK, NEW s \in Slots, Serve(s) \/ Fail(s)
    PROVE  Stays("load") /\ Stays("refresh") /\ Stays("detail")
<1>1. \A t \in Slots : req'[t].op = req[t].op /\ req'[t].ids = req[t].ids
  <2>1. CASE Serve(s)
    BY <2>1 DEF Serve, TypeOK, Request
  <2>2. CASE Fail(s)
    BY <2>2 DEF Fail, TypeOK, Request
  <2> QED BY <2>1, <2>2
<1> QED BY <1>1 DEF Stays

LEMMA SameStays ==
    ASSUME UNCHANGED req
    PROVE  Stays("load") /\ Stays("refresh") /\ Stays("detail")
BY DEF Stays

\* What an answer leaves of the requests other than its own.
LEMMA AnswerStays ==
    ASSUME TypeOK, NEW s \in Slots, NEW r \in {Idle, New("load", {})},
           req' = [req EXCEPT ![s] = r]
    PROVE  /\ \A t \in Slots \ {s} : req'[t] = req[t]
           /\ \A op \in Ops \ {req[s].op} : Stays(op)
           /\ r = New("load", {}) => InFlight("load")'
<1>1. req'[s] = r /\ \A t \in Slots \ {s} : req'[t] = req[t]
  BY DEF TypeOK
<1> QED BY <1>1 DEF Stays, InFlight, New

LEMMA BusyStep ==
    TypeOK /\ FreeIsIdle /\ BusyIsInFlight /\ [Next]_vars => BusyIsInFlight'
<1> SUFFICES ASSUME TypeOK, FreeIsIdle, BusyIsInFlight, [Next]_vars
             PROVE  BusyIsInFlight'
  OBVIOUS
<1> USE DEF list
<1>1. CASE Load
  <2>1. InFlight("load")'
    BY <1>1, SendStays, OpTypes DEF Load
  <2> QED BY <1>1, <2>1 DEF Load, BeginLoad, BusyIsInFlight
<1>2. CASE PullRefresh \/ AutoRefresh
  <2>1. InFlight("refresh")' /\ Stays("load") /\ ("load" \in lostList => "load" \in lostList')
    BY <1>2, SendStays, OpTypes DEF PullRefresh, AutoRefresh, BeginRefresh
  <2> QED BY <1>2, <2>1 DEF PullRefresh, AutoRefresh, BeginRefresh, BusyIsInFlight, InFlight, Stays
<1>3. CASE ClearAll \/ DeleteSelected \/ DeleteShown \/ (\E i \in Ids : Open(i))
  <2>1. CASE ClearAll
    BY <2>1, SendStays, OpTypes, BusyKept DEF ClearAll
  <2>2. CASE DeleteSelected
    BY <2>2, SendStays, OpTypes, BusyKept DEF DeleteSelected, TypeOK
  <2>3. CASE DeleteShown
    BY <2>3, SendStays, OpTypes, BusyKept DEF DeleteShown, TypeOK, Detail
  <2>4. ASSUME NEW i \in Ids, Open(i) PROVE BusyIsInFlight'
    BY <2>4, SendStays, OpTypes, BusyKept DEF Open
  <2> QED BY <1>3, <2>1, <2>2, <2>3, <2>4
<1>4. ASSUME NEW i \in Ids, Delete(i) PROVE BusyIsInFlight'
  <2>1. Stays("load") /\ Stays("refresh")
    BY <1>4, DeleteKeeps DEF Stays
  <2> QED BY <1>4, <2>1, BusyKept DEF Delete
<1>5. CASE Close
  <2>1. Stays("load") /\ Stays("refresh")
    BY <1>5 DEF Close, WithoutPane, Stays
  <2> QED BY <1>5, <2>1, BusyKept DEF Close
<1>6. ASSUME NEW s \in Slots, Serve(s) \/ Fail(s) PROVE BusyIsInFlight'
  BY <1>6, PhaseStays, BusyKept DEF Serve, Fail
<1>7. ASSUME NEW s \in Slots, ListAnswer(s) PROVE BusyIsInFlight'
  <2>1. \A op \in Ops \ {req[s].op} : Stays(op)
    BY <1>7, AnswerStays DEF ListAnswer
  <2>2. CASE req[s].op = "load"
    <3>1. /\ Stays("refresh") /\ loading' = FALSE /\ refreshing' = refreshing
          /\ lostList' = lostList \ {"load"}
      BY <1>7, <2>1, <2>2, OpTypes DEF ListAnswer, LoadAnswered
    <3> QED BY <3>1 DEF BusyIsInFlight, InFlight, Stays
  <2>3. CASE req[s].op = "refresh"
    <3>1. /\ Stays("load") /\ refreshing' = FALSE /\ loading' = loading
          /\ lostList' = lostList \ {"refresh"}
      BY <1>7, <2>1, <2>3, OpTypes DEF ListAnswer, RefreshAnswered
    <3> QED BY <3>1 DEF BusyIsInFlight, InFlight, Stays
  <2> QED BY <1>7, <2>2, <2>3 DEF ListAnswer
<1>8. ASSUME NEW s \in Slots, DetailAnswer(s) PROVE BusyIsInFlight'
  <2>1. Stays("load") /\ Stays("refresh")
    BY <1>8, AnswerStays, OpTypes DEF DetailAnswer
  <2> QED BY <1>8, <2>1, BusyKept DEF DetailAnswer
<1>9. ASSUME NEW s \in Slots, DeletionAnswer(s) PROVE BusyIsInFlight'
  <2>1. CASE req[s].phase = "ok"
    <3>1. InFlight("load")' /\ refreshing' = FALSE
      BY <1>9, <2>1, AnswerStays DEF DeletionAnswer, BeginLoad
    <3> QED BY <3>1 DEF BusyIsInFlight
  <2>2. CASE req[s].phase # "ok"
    <3>1. Stays("load") /\ Stays("refresh") /\ UNCHANGED list
      BY <1>9, <2>2, AnswerStays, OpTypes DEF DeletionAnswer
    <3> QED BY <3>1, BusyKept
  <2> QED BY <2>1, <2>2
<1>10. ASSUME NEW s \in Slots, DeleteShownAnswer(s) PROVE BusyIsInFlight'
  <2>1. CASE req[s].phase = "ok"
    <3>1. req' = [WithoutPane EXCEPT ![s] = New("load", {})] /\ refreshing' = FALSE
      BY <1>10, <2>1 DEF DeleteShownAnswer, BeginLoad
    <3>2. req'[s].op = "load"
      BY <3>1 DEF WithoutPane, New
    <3> QED BY <3>1, <3>2 DEF BusyIsInFlight, InFlight
  <2>2. CASE req[s].phase # "ok"
    <3>1. Stays("load") /\ Stays("refresh") /\ UNCHANGED list
      BY <1>10, <2>2, AnswerStays, OpTypes DEF DeleteShownAnswer
    <3> QED BY <3>1, BusyKept
  <2> QED BY <2>1, <2>2
<1>11. CASE Lifecycle \/ ChangeFilter \/ ToggleSelectionMode \/ TapAll \/ StartClear
  BY <1>11, SameStays, BusyKept DEF Lifecycle, ChangeFilter, ToggleSelectionMode, TapAll, StartClear
<1>12. CASE Tick \/ ServerChange \/ (\E i \in Ids : Tap(i)) \/ UNCHANGED vars
  BY <1>12, SameStays, BusyKept DEF Tick, ServerChange, Tap, vars
<1>13. ASSUME NEW s \in Slots, Escape(s) PROVE BusyIsInFlight'
  <2>1. /\ \A op \in Ops \ {req[s].op} : Stays(op)
        /\ UNCHANGED <<loading, refreshing>>
        /\ lostList' = lostList \cup ({req[s].op} \cap Lists)
    BY <1>13, AnswerStays DEF Escape
  <2>2. Stays("load") \/ "load" \in lostList'
    BY <2>1, OpTypes DEF Lists
  <2>3. Stays("refresh") \/ "refresh" \in lostList'
    BY <2>1, OpTypes DEF Lists
  <2> QED BY <2>1, <2>2, <2>3 DEF BusyIsInFlight, InFlight, Stays
<1> QED
  BY <1>1, <1>2, <1>3, <1>4, <1>5, <1>6, <1>7, <1>8, <1>9, <1>10, <1>11, <1>12, <1>13
     DEF Next, User, Answer

LEMMA PaneStep ==
    TypeOK /\ FreeIsIdle /\ PaneShowsOpened /\ [Next]_vars => PaneShowsOpened'
<1> SUFFICES ASSUME TypeOK, FreeIsIdle, PaneShowsOpened, [Next]_vars
             PROVE  PaneShowsOpened'
  OBVIOUS
<1>1. CASE Load \/ ClearAll
  BY <1>1, SendStays, OpTypes, PaneKept DEF Load, ClearAll
<1>2. CASE PullRefresh \/ AutoRefresh
  BY <1>2, SendStays, OpTypes, PaneKept DEF PullRefresh, AutoRefresh, BeginRefresh
<1>3. CASE DeleteSelected
  BY <1>3, SendStays, OpTypes, PaneKept DEF DeleteSelected, TypeOK
<1>4. CASE DeleteShown
  BY <1>4, SendStays, OpTypes, PaneKept DEF DeleteShown, TypeOK, Detail
<1>5. ASSUME NEW i \in Ids, Open(i) PROVE PaneShowsOpened'
  <2>1. \E t \in Slots : req'[t].op = "detail" /\ req'[t].ids = {i}
    BY <1>5, SendStays, OpTypes DEF Open
  <2> QED BY <1>5, <2>1 DEF Open, PaneShowsOpened
<1>6. ASSUME NEW i \in Ids, Delete(i) PROVE PaneShowsOpened'
  <2>1. CASE ClosePane
    BY <2>1, ClosedShows
  <2>2. CASE UNCHANGED pane /\ \A t \in Slots : req[t].op # "none" => req'[t] = req[t]
    BY <2>2, PaneKept DEF Stays
  <2> QED BY <1>6, <2>1, <2>2, DeleteKeeps
<1>7. CASE Close
  BY <1>7, ClosedShows DEF Close
<1>8. ASSUME NEW s \in Slots, Serve(s) \/ Fail(s) PROVE PaneShowsOpened'
  BY <1>8, PhaseStays, PaneKept DEF Serve, Fail
<1>9. ASSUME NEW s \in Slots, ListAnswer(s) PROVE PaneShowsOpened'
  BY <1>9, AnswerStays, OpTypes, PaneKept DEF ListAnswer
<1>10. ASSUME NEW s \in Slots, DeletionAnswer(s) PROVE PaneShowsOpened'
  <2>1. "detail" \in Ops \ {req[s].op} /\ UNCHANGED pane
    BY <1>10, OpTypes DEF DeletionAnswer
  <2>2. Stays("detail")
    BY <1>10, <2>1, AnswerStays DEF DeletionAnswer
  <2> QED BY <2>1, <2>2, PaneKept
<1>11. ASSUME NEW s \in Slots, DetailAnswer(s) PROVE PaneShowsOpened'
  <2>1. CASE selectedId \in req[s].ids
    BY <1>11, <2>1 DEF DetailAnswer, DetailShown, PaneShowsOpened
  <2>2. CASE selectedId \notin req[s].ids
    <3>1. UNCHANGED pane
      BY <1>11, <2>2 DEF DetailAnswer, DetailShown, pane
    <3>2. \A t \in Slots \ {s} : req'[t] = req[t]
      BY <1>11, AnswerStays DEF DetailAnswer
    <3>3. \A t \in Slots : req[t].ids = {selectedId} => t # s
      BY <2>2
    <3> QED BY <3>1, <3>2, <3>3 DEF PaneShowsOpened, pane
  <2> QED BY <2>1, <2>2
<1>12. ASSUME NEW s \in Slots, DeleteShownAnswer(s) PROVE PaneShowsOpened'
  <2>1. CASE req[s].phase = "ok"
    BY <1>12, <2>1, ClosedShows DEF DeleteShownAnswer
  <2>2. CASE req[s].phase # "ok"
    <3>1. Stays("detail") /\ UNCHANGED pane
      BY <1>12, <2>2, AnswerStays, OpTypes DEF DeleteShownAnswer
    <3> QED BY <3>1, PaneKept
  <2> QED BY <2>1, <2>2
<1>13. CASE Lifecycle \/ ChangeFilter \/ ToggleSelectionMode \/ TapAll \/ StartClear
  BY <1>13, SameStays, PaneKept DEF Lifecycle, ChangeFilter, ToggleSelectionMode, TapAll, StartClear
<1>14. CASE Tick \/ ServerChange \/ (\E i \in Ids : Tap(i)) \/ UNCHANGED vars
  BY <1>14, SameStays, PaneKept DEF Tick, ServerChange, Tap, vars
<1>15. ASSUME NEW s \in Slots, Escape(s) PROVE PaneShowsOpened'
  <2>1. /\ UNCHANGED <<selectedId, detail>> /\ \A t \in Slots \ {s} : req'[t] = req[t]
        /\ lostDetail' = (lostDetail \/ (req[s].op = "detail" /\ selectedId \in req[s].ids))
    BY <1>15, AnswerStays DEF Escape
  <2>2. ASSUME detail.busy, ~lostDetail'
        PROVE  \E t \in Slots : req'[t].op = "detail" /\ req'[t].ids = {selectedId}
    <3>1. PICK t \in Slots : req[t].op = "detail" /\ req[t].ids = {selectedId}
      BY <2>1, <2>2 DEF PaneShowsOpened
    <3>2. t # s
      BY <2>1, <2>2, <3>1
    <3> QED BY <2>1, <3>1, <3>2
  <2> QED BY <2>1, <2>2 DEF PaneShowsOpened
<1> QED
  BY <1>1, <1>2, <1>3, <1>4, <1>5, <1>6, <1>7, <1>8, <1>9, <1>10, <1>11, <1>12,
     <1>13, <1>14, <1>15 DEF Next, User, Answer

----------------------------------------------------------------------------
(* The countdown *)

LEMMA CountKept == Counted /\ UNCHANGED clearing => Counted'
BY DEF Counted, clearing

LEMMA CountStep == TypeOK /\ Counted /\ [Next]_vars => Counted'
<1> SUFFICES ASSUME TypeOK, Counted, [Next]_vars PROVE Counted'
  OBVIOUS
<1>1. CASE StartClear
  BY <1>1, ViewAssumption DEF StartClear, Counted
<1>2. CASE Tick
  <2>1. clearCountdown \in 1..CountdownFrom /\ clearConfirming /\ waited < CountdownFrom
    BY <1>2, ViewAssumption DEF Tick, Counted, TypeOK
  <2>2. clearCountdown' = clearCountdown - 1 /\ waited' = waited + 1 /\ clearConfirming' = clearConfirming
    BY <1>2, <2>1, ViewAssumption DEF Tick
  <2>3. clearTimer' => clearCountdown' # 0
    BY <1>2 DEF Tick
  <2> QED BY <2>1, <2>2, <2>3, ViewAssumption DEF Counted, TypeOK
<1>3. ASSUME NEW s \in Slots, DeletionAnswer(s) PROVE Counted'
  <2>1. CASE req[s].op = "clear"
    BY <1>3, <2>1 DEF DeletionAnswer, CancelClear, Counted
  <2>2. CASE req[s].op # "clear"
    BY <1>3, <2>2, CountKept DEF DeletionAnswer
  <2> QED BY <2>1, <2>2
<1>4. CASE Load \/ PullRefresh \/ AutoRefresh \/ Lifecycle \/ ChangeFilter \/ ToggleSelectionMode
  BY <1>4, CountKept
     DEF Load, PullRefresh, AutoRefresh, BeginRefresh, Lifecycle, ChangeFilter, ToggleSelectionMode
<1>5. CASE TapAll \/ ClearAll \/ DeleteSelected \/ Close \/ DeleteShown
  BY <1>5, CountKept DEF TapAll, ClearAll, DeleteSelected, Close, DeleteShown
<1>6. ASSUME NEW i \in Ids, Tap(i) \/ Open(i) \/ Delete(i) PROVE Counted'
  BY <1>6, CountKept DEF Tap, Open, Delete
<1>7. ASSUME NEW s \in Slots, Serve(s) \/ Fail(s) \/ Escape(s) PROVE Counted'
  BY <1>7, CountKept DEF Serve, Fail, Escape
<1>8. ASSUME NEW s \in Slots, ListAnswer(s) \/ DetailAnswer(s) \/ DeleteShownAnswer(s)
      PROVE  Counted'
  BY <1>8, CountKept DEF ListAnswer, DetailAnswer, DeleteShownAnswer
<1>9. CASE ServerChange \/ UNCHANGED vars
  BY <1>9, CountKept DEF ServerChange, vars
<1> QED
  BY <1>1, <1>2, <1>3, <1>4, <1>5, <1>6, <1>7, <1>8, <1>9 DEF Next, User, Answer

\* No step but the tap on the confirming button requests a clearing.
NoNewClear == \A t \in Slots : Requested("clear", t)' => Requested("clear", t)

LEMMA SendClears ==
    ASSUME TypeOK, FreeIsIdle, NEW op \in Ops \ {"none", "clear"}, NEW ids \in SUBSET Ids,
           Send(op, ids)
    PROVE  NoNewClear
<1>1. \A t \in Slots : req'[t] \in {req[t], New(op, ids)}
  BY SendKeeps
<1>2. New(op, ids).op # "clear"
  BY DEF New
<1> QED BY <1>1, <1>2 DEF NoNewClear, Requested

LEMMA AnswerClears ==
    ASSUME TypeOK, NEW s \in Slots, NEW r \in {Idle, New("load", {})},
           NEW q \in {req, WithoutPane}, req' = [q EXCEPT ![s] = r]
    PROVE  NoNewClear
<1>1. \A t \in Slots : req'[t] \in {req[t], Idle, r}
  BY DEF TypeOK, WithoutPane
<1>2. Idle.op # "clear" /\ r.op # "clear"
  BY DEF Idle, New
<1> QED BY <1>1, <1>2 DEF NoNewClear, Requested

LEMMA ClearStep ==
    TypeOK /\ FreeIsIdle /\ Counted /\ [Next]_vars
        => \A s \in Slots : Requested("clear", s)' /\ ~Requested("clear", s) => waited = CountdownFrom
<1> SUFFICES ASSUME TypeOK, FreeIsIdle, Counted, [Next]_vars
             PROVE  NoNewClear \/ waited = CountdownFrom
  BY DEF NoNewClear
<1>1. CASE ClearAll
  BY <1>1 DEF ClearAll, Counted, TypeOK
<1>2. CASE Load \/ PullRefresh \/ AutoRefresh
  BY <1>2, SendClears, OpTypes DEF Load, PullRefresh, AutoRefresh, BeginRefresh
<1>3. CASE DeleteSelected
  BY <1>3, SendClears, OpTypes DEF DeleteSelected, TypeOK
<1>4. CASE DeleteShown
  BY <1>4, SendClears, OpTypes DEF DeleteShown, TypeOK, Detail
<1>5. ASSUME NEW i \in Ids, Open(i) PROVE NoNewClear
  BY <1>5, SendClears, OpTypes DEF Open
<1>6. ASSUME NEW i \in Ids, Delete(i) PROVE NoNewClear
  <2>1. \A t \in Slots : req'[t] \in {req[t], Idle, New("delete", {i})}
    BY <1>6, DeleteKeeps
  <2>2. Idle.op # "clear" /\ New("delete", {i}).op # "clear"
    BY DEF Idle, New
  <2> QED BY <2>1, <2>2 DEF NoNewClear, Requested
<1>7. CASE Close
  BY <1>7 DEF Close, WithoutPane, Idle, NoNewClear, Requested
<1>8. ASSUME NEW s \in Slots, Serve(s) PROVE NoNewClear
  <2>1. \A t \in Slots \ {s} : req'[t] = req[t]
    BY <1>8 DEF Serve, TypeOK
  <2>2. req[s].phase = "sent" /\ req'[s].op = req[s].op
    BY <1>8 DEF Serve, TypeOK, Request
  <2> QED BY <2>1, <2>2 DEF NoNewClear, Requested
<1>9. ASSUME NEW s \in Slots, Fail(s) PROVE NoNewClear
  <2>1. \A t \in Slots \ {s} : req'[t] = req[t]
    BY <1>9 DEF Fail, TypeOK
  <2>2. req[s].phase = "sent" /\ req'[s].op = req[s].op
    BY <1>9 DEF Fail, TypeOK, Request
  <2> QED BY <2>1, <2>2 DEF NoNewClear, Requested
<1>10. ASSUME NEW s \in Slots, Answer(s) \/ Escape(s) PROVE NoNewClear
  <2>1. CASE ListAnswer(s) \/ DetailAnswer(s) \/ Escape(s)
    BY <2>1, AnswerClears DEF ListAnswer, DetailAnswer, Escape
  <2>2. CASE DeletionAnswer(s)
    BY <2>2, AnswerClears DEF DeletionAnswer
  <2>3. CASE DeleteShownAnswer(s)
    BY <2>3, AnswerClears DEF DeleteShownAnswer
  <2> QED BY <1>10, <2>1, <2>2, <2>3 DEF Answer
<1>11. CASE Lifecycle \/ ChangeFilter \/ ToggleSelectionMode \/ TapAll \/ StartClear
  BY <1>11 DEF Lifecycle, ChangeFilter, ToggleSelectionMode, TapAll, StartClear, NoNewClear, Requested
<1>12. CASE Tick \/ ServerChange \/ (\E i \in Ids : Tap(i)) \/ UNCHANGED vars
  BY <1>12 DEF Tick, ServerChange, Tap, vars, NoNewClear, Requested
<1> QED
  BY <1>1, <1>2, <1>3, <1>4, <1>5, <1>6, <1>7, <1>8, <1>9, <1>10, <1>11, <1>12
     DEF Next, User

----------------------------------------------------------------------------
(* A list that has caught up *)

LEMMA SettledStep ==
    TypeOK /\ FreeIsIdle /\ Settled /\ Undisturbed /\ [Next]_vars => Settled'
<1> SUFFICES ASSUME TypeOK, FreeIsIdle, Settled, Undisturbed, [Next]_vars PROVE Settled'
  OBVIOUS
<1> DEFINE Harmless(r) ==
        /\ r.op \notin Deletions
        /\ r.op \in Lists => r.phase = "sent" \/ (r.phase = "ok" /\ r.items = Newest(rows))
<1>1. ASSUME UNCHANGED rows, records' = Newest(rows), ~loading', ~error',
             NEW s \in Slots, NEW r, Harmless(r), req' = [req EXCEPT ![s] = r]
      PROVE  Settled'
  <2>1. \A t \in Slots : Harmless(req[t])
    BY DEF Settled
  <2>2. \A t \in Slots : Harmless(req'[t])
    <3>1. \A t \in Slots : req'[t] = IF t = s THEN r ELSE req[t]
      BY <1>1 DEF TypeOK
    <3> HIDE DEF Harmless
    <3> QED BY <1>1, <2>1, <3>1
  <2> QED BY <1>1, <2>2 DEF Settled
<1>2. Harmless(Idle) /\ Harmless(New("refresh", {}))
  BY DEF Idle, New, Lists, Deletions
<1>3. CASE AutoRefresh
  <2>1. Send("refresh", {}) /\ UNCHANGED <<rows, records, loading, error>>
    BY <1>3 DEF AutoRefresh, BeginRefresh
  <2>2. PICK s \in Slots : req' = [req EXCEPT ![s] = New("refresh", {})]
    BY <2>1, SendSlot DEF Ops, Lists
  <2> QED BY <1>1, <1>2, <2>1, <2>2 DEF Settled
<1>4. ASSUME NEW s \in Slots, Serve(s) PROVE Settled'
  <2>1. /\ req[s].phase = "sent" /\ req[s].op \notin Deletions
        /\ rows' = Left(req[s]) /\ UNCHANGED list
    BY <1>4 DEF Serve, Settled
  <2>2. rows' = rows
    BY <2>1 DEF Left, Deletions
  <2>3. ASSUME req[s].op \in Lists PROVE Harmless(req'[s])
    <3>1. req'[s].phase = "ok" /\ req'[s].items = Newest(rows) /\ req'[s].op = req[s].op
      BY <1>4, <2>3 DEF Serve, TypeOK, Request, Lists
    <3> QED BY <2>1, <3>1
  <2>4. req'[s].op = req[s].op /\ \A t \in Slots \ {s} : req'[t] = req[t]
    BY <1>4 DEF Serve, TypeOK, Request
  <2>5. \A t \in Slots : Harmless(req'[t])
    BY <2>1, <2>3, <2>4 DEF Settled
  <2> QED BY <2>1, <2>2, <2>5 DEF Settled, list
<1>5. ASSUME NEW s \in Slots, Answer(s) PROVE Settled'
  <2>1. CASE ListAnswer(s)
    <3>1. /\ req[s].phase = "ok" /\ req[s].items = Newest(rows)
          /\ UNCHANGED rows /\ req' = [req EXCEPT ![s] = Idle]
      BY <2>1 DEF ListAnswer, Answered, Settled, Lists
    <3>2. CASE LoadAnswered(s)
      BY <1>1, <1>2, <3>1, <3>2 DEF LoadAnswered, Settled
    <3>3. CASE RefreshAnswered(s)
      <4>1. records' = Newest(rows) /\ UNCHANGED loading /\ error' = FALSE
        BY <3>1, <3>3 DEF RefreshAnswered
      <4> QED BY <1>1, <1>2, <3>1, <4>1 DEF Settled
    <3> QED BY <2>1, <3>2, <3>3 DEF ListAnswer
  <2>2. CASE DetailAnswer(s)
    <3>1. UNCHANGED <<rows, list>> /\ req' = [req EXCEPT ![s] = Idle]
      BY <2>2 DEF DetailAnswer
    <3> QED BY <1>1, <1>2, <3>1 DEF Settled, list
  <2>3. ~DeletionAnswer(s) /\ ~DeleteShownAnswer(s)
    BY DEF Settled, DeletionAnswer, DeleteShownAnswer, Deletions
  <2> QED BY <1>5, <2>1, <2>2, <2>3 DEF Answer
<1>6. CASE Tick \/ UNCHANGED vars
  BY <1>6 DEF Tick, vars, list, Settled
<1> QED BY <1>3, <1>4, <1>5, <1>6 DEF Next, Undisturbed

----------------------------------------------------------------------------
(* Theorems *)

\* The slots and all other variables keep their types.
THEOREM ViewTypes == Spec => [](TypeOK /\ FreeIsIdle)
<1>1. Init => TypeOK /\ FreeIsIdle
  BY ViewInit
<1> QED BY <1>1, TypeStep, FreeStep, PTL DEF Spec

\* A spinner or refresh mark has a request that will end it, or an exception has
\* ended one: no order of loads, refreshes and deletions leaves one behind
\* (_load and _refresh, history_content.dart:257-294).
THEOREM SpinnersEnd == Spec => []BusyIsInFlight
<1>1. Init => BusyIsInFlight
  BY ViewInit
<1>2. TypeOK /\ FreeIsIdle /\ BusyIsInFlight /\ [Next]_vars => BusyIsInFlight'
  BY BusyStep
<1> QED BY <1>1, <1>2, ViewTypes, PTL DEF Spec

\* The detail pane shows the row that was opened last, and waits for it only
\* while it comes, or after an exception ended a request for it
\* (detail_pane.dart:64-91).
THEOREM PaneIsRight == Spec => []PaneShowsOpened
<1>1. Init => PaneShowsOpened
  BY ViewInit
<1>2. TypeOK /\ FreeIsIdle /\ PaneShowsOpened /\ [Next]_vars => PaneShowsOpened'
  BY PaneStep
<1> QED BY <1>1, <1>2, ViewTypes, PTL DEF Spec

\* Whatever else the user does meanwhile, what has passed and what is left of
\* the countdown make up its whole length.
THEOREM CountdownAddsUp == Spec => []Counted
<1>1. Init => Counted
  BY ViewInit
<1> QED BY <1>1, CountStep, ViewTypes, PTL DEF Spec

\* A history is never cleared without a full countdown (history_content.dart:177-222).
THEOREM ClearingIsConfirmed == Spec => ClearNeedsCountdown
BY ClearStep, ViewTypes, CountdownAddsUp, PTL DEF Spec, ClearNeedsCountdown

\* A list that has caught up with the first page stays right, and free of error and spinner, through
\* any number of refreshes, until the user or another device acts or a request
\* fails (_refresh, history_content.dart:275-294).
THEOREM CaughtUpStays == Spec => [][Settled /\ Undisturbed => Settled']_vars
<1>1. TypeOK /\ FreeIsIdle /\ [Next]_vars => [Settled /\ Undisturbed => Settled']_vars
  BY SettledStep
<1> QED BY <1>1, ViewTypes, PTL DEF Spec
=============================================================================
