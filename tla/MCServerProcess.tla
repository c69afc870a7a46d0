--------------------------- MODULE MCServerProcess ---------------------------
(* A configuration of the defaults, of a file that trusts a proxy, and of an  *)
(* environment with numbers, rubbish and switched-off limiters.               *)
EXTENDS ServerProcess, TLC

CONSTANTS peer, proxy, account

Ints(l, w) ==
    [s \in IntSettings |-> IF s \in {"auth_limit", "upload_limit"} THEN l ELSE w]

MCDefaults == [ints |-> Ints(1, 1), enabled |-> TRUE, https |-> FALSE, trusted |-> {}]

Given(ints, enabled, https, trusted) ==
    [ints |-> ints, enabled |-> enabled, https |-> https, trusted |-> trusted]

MCFiles ==
    {Given(<<>>, None, None, {proxy}),
     Given([s \in {"auth_limit"} |-> 2], None, None, Garbage)}

MCEnvironments ==
    {Given([s \in {"auth_limit", "upload_limit"} |-> 2], None, TRUE, None),
     Given([s \in {"auth_limit", "auth_window"} |-> IF s = "auth_limit" THEN Garbage ELSE 2],
           None, None, None),
     Given([s \in {"auth_window"} |-> 0], None, None, None),
     Given(<<>>, Garbage, None, {})}

Symmetry == Permutations(Calls)
=============================================================================
