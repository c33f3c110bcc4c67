CONSTANTS
    Parts = {"commits"}
    Heads = {"h1", "h2", "h3"}
    MaxPushes = 2
    Vacant = Vacant
SPECIFICATION Spec
INVARIANTS
    ListsKeepTheRange
CHECK_DEADLOCK FALSE
