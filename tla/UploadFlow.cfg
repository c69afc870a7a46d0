CONSTANTS
    t1 = t1
    t2 = t2
    s1 = s1
    s2 = s2
    x = x
    y = y
    z = z
    k1 = k1
    k2 = k2
    k3 = k3
    u1 = u1
    u2 = u2
    a1 = a1
    a2 = a2
    NoText = NoText
    Texts = {x, y}
    Tasks = {t1, t2}
    Savers = {}
    Keys = {k1, k3}
    InitialKeys = {k1}
    InitialKey = k1
    Urls = {u1, u2}
    Accounts = {a1, a2}
    AccountOf <- MCAccountOf
    HomeOf <- MCHomeOf
    Size <- MCSize
    ServerMax <- MCServerMax
    DefaultMax = 2
    MaxItems = 2
    Found <- SomeLists
    MaxAttempt = 1
    Budgets <- FlowBudgets
SPECIFICATION FairSpec
CHECK_DEADLOCK FALSE
INVARIANTS TypeOK FlushHoldsHead LossNeedsOverflow QueueHasRetrier PendingShown
PROPERTY QueueDrains
