CONSTANTS
    Texts = {x, y}
    Calls = {c1, c2}
    Nobody = Nobody
    MaxItems = 2
    Found <- NoLists
SPECIFICATION FileSpec
CHECK_DEADLOCK FALSE
INVARIANT FileSurvives
