CONSTANTS
    Parts = {"tree", "stashes", "conversation", "checks", "patches", "verbs", "reads", "files", "comments", "parsing", "commits", "panes"}
    Heads = {"h1", "h2"}
    MaxPushes = 1
    Vacant = Vacant
SPECIFICATION Spec
INVARIANTS
    TypeOK
    DestructionIsConfirmed
    
    CommandsAreSound
    PullRequestIsFollowed
    PanesAreTrue
PROPERTIES
    HandsAreRespected
CHECK_DEADLOCK FALSE
