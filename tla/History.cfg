CONSTANTS
    r1 = r1
    r2 = r2
    r3 = r3
    r4 = r4
    a = a
    b = b
    Requests = {r1, r2, r3, r4}
    Accounts = {a, b}
    None = None
    Limits = {1, 2}
    PageSize = 1
    MaxClock = 1
    MaxRestarts = 2
SPECIFICATION Spec
SYMMETRY Symmetry
CHECK_DEADLOCK FALSE
INVARIANTS
    KeepsTheNewest
    RetentionHolds
    OnlyOverflowEvicts
    AnswersOwnRows
    DeletionsAddUp
    PagesCover
PROPERTY OnlyOwnerWrites
