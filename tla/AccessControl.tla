---------------------------- MODULE AccessControl ----------------------------
(***************************************************************************)
(* What authentication promises, without saying how credentials are        *)
(* stored, looked up or cleaned: a request acts for an account only from   *)
(* the moment one of the credentials it presented is held for that         *)
(* account and within its time; a credential is issued once, to one owner, *)
(* and stops being held only by a request that acts for that owner or when *)
(* its time is over.                                                       *)
(***************************************************************************)
EXTENDS Integers

CONSTANTS
    Requests, \* a request that issues a credential also names it
    None      \* of a request that acts for no account

VARIABLES
    now,
    issued,    \* the credentials given out so far
    held,      \* the credentials that are good: records of cred, owner and until
    presented, \* request -> what it showed and what is still to be looked up
    granted    \* request -> the account it acts for, or acted for

avars == <<now, issued, held, presented, granted>>

\* A session has one deadline, a key has none: until is a set of times.
InTime(h) == \A t \in h.until : t >= now

OwnedBy(a) == {h \in held : h.owner = a}

----------------------------------------------------------------------------
\* What a step stops holding is within what it may.
Loses(gone) == held \ held' \subseteq gone

\* A client presents what it was given.
Present(r) ==
    /\ presented[r] = {} /\ granted[r] = None
    /\ presented'[r] # {} /\ presented'[r] \subseteq issued
    /\ presented' = [presented EXCEPT ![r] = presented'[r]]
    /\ UNCHANGED <<now, issued, held, granted>>

\* h is held.
Grant(r, h) ==
    /\ h.cred \in presented[r] /\ InTime(h)
    /\ granted' = [granted EXCEPT ![r] = h.owner]
    /\ presented' = [presented EXCEPT ![r] = {}]
    /\ UNCHANGED <<now, issued, held>>

\* The owner proved itself by a password, or by a credential it already had; only
\* in the second case may the new one, h, replace others, of the same owner.
Issue(r, h) ==
    /\ r \notin issued /\ h.cred = r /\ granted[r] \in {h.owner, None}
    /\ issued' = issued \cup {r}
    /\ held' \subseteq held \cup {h} /\ Loses(OwnedBy(granted[r]))
    /\ UNCHANGED <<now, presented, granted>>

\* Only a request that acts for an account takes credentials away.
Revoke(r) ==
    /\ granted[r] # None
    /\ held' \subseteq held /\ Loses(OwnedBy(granted[r]))
    /\ UNCHANGED <<now, issued, presented, granted>>

\* Requests end without success, and what is past its deadline may be dropped.
Drop ==
    /\ \A r \in Requests : \/ presented'[r] = presented[r] /\ granted'[r] = granted[r]
                           \/ presented'[r] = {} /\ granted'[r] = None
    /\ presented' = [r \in Requests |-> presented'[r]]
    /\ granted' = [r \in Requests |-> granted'[r]]
    /\ held' \subseteq held /\ Loses({h \in held : ~InTime(h)})
    /\ UNCHANGED <<now, issued>>

Pass == now' > now /\ UNCHANGED <<issued, held, presented, granted>>

----------------------------------------------------------------------------
AInit ==
    /\ now = 0
    /\ issued = {} /\ held = {}
    /\ presented = [r \in Requests |-> {}]
    /\ granted = [r \in Requests |-> None]

ANext ==
    \/ Pass \/ Drop
    \/ \E r \in Requests : Present(r) \/ Revoke(r)
    \/ \E r \in Requests, h \in held : Grant(r, h)
    \/ \E r \in Requests, h \in held' \ held : Issue(r, h)

ASpec == AInit /\ [][ANext]_avars
=============================================================================
