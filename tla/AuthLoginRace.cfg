CONSTANTS
    Requests = {r1, r2, r3}
    Accounts = {a1}
    Passwords = {p1, p2}
    None = None
    Second = 1
    Duration = 1
    Instants = {0}
    MaxRestarts = 0
SPECIFICATION Spec
SYMMETRY Symmetry
CHECK_DEADLOCK FALSE
INVARIANT SessionsKnowPassword
