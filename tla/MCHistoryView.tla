---------------------------- MODULE MCHistoryView ----------------------------
(* At the start the history is empty, or holds more than a page.  All rows    *)
(* pass the filter, or only some of them.                                     *)
EXTENDS HistoryView

TwoHistories == {{}, Ids}

TwoFilters == {Ids, {1, 2}}
=============================================================================
