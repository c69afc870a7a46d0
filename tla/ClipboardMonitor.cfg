CONSTANTS
    a = a
    b = b
    None = None
    Texts <- Copied
    Polls = {1, 2}
    MaxCopies = 3
    MaxStarts = 3
SPECIFICATION FairSpec
CHECK_DEADLOCK FALSE
INVARIANTS
    PollsAsSet
PROPERTIES
    CopiedIsHandedOver
