CONSTANTS
    peer = peer
    proxy = proxy
    account = account
    None = None
    Garbage = Garbage
    Limiters = {"auth", "upload"}
    Calls = {r1, r2, r3}
    Addresses = {peer, proxy}
    Accounts = {account}
    Keys = {peer, proxy, account}
    SweepEvery = 2
    MaxTracked = 1
    MaxClock = 2
    Defaults <- MCDefaults
    Files <- MCFiles
    Environments <- MCEnvironments
    MaxStarts = 2
SPECIFICATION Spec
SYMMETRY Symmetry
CHECK_DEADLOCK FALSE
INVARIANTS
    TypeOK
    StaleForgotten
    BudgetKept
PROPERTIES
    WindowKept

