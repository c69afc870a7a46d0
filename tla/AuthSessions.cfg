CONSTANTS
    Requests = {r1, r2, r3, r4}
    Accounts = {a1, a2}
    Passwords = {p1, p2}
    None = None
    Second = 2
    Duration = 2
    Instants = {0, 4}
    MaxRestarts = 1
SPECIFICATION Spec
SYMMETRY Symmetry
CHECK_DEADLOCK FALSE
INVARIANTS RevokedIsRefused NoSessionOutlivesChange OneWinner ShownKeyWorks
PROPERTY GuardsAccounts
