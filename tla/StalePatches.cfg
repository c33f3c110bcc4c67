CONSTANTS
    Parts = {"patches"}
    Heads = {"h1", "h2", "h3"}
    MaxPushes = 2
    Vacant = Vacant
SPECIFICATION Spec
INVARIANTS
    PatchesAreOfTheComparison
CHECK_DEADLOCK FALSE
