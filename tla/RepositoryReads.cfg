CONSTANTS
    Kinds <- MCKinds
    Operations <- MCOperations
    SlotOf <- MCSlotOf
    Slots <- MCSlots
    Rank <- MCRank
    Lanes <- MCLanes
    LaneOf <- MCLaneOf
    NoCommand = NoCommand
    Generations <- MCGenerations
    Keys = {"operate", "scroll", "HistoryBranches", "Projects", "Branches", "Commit"}
    Topics = {"topic"}
    Pages = 2
    MayFail = {"LoadHistory", "Operate", "LoadBranches"}
    Scenes = {"history", "pickers"}
    WatcherMisses = FALSE
    Period = "never"
    MaxKeys = 2
    MaxChanges = 2
    MaxFailures = 1
SPECIFICATION SafeScene
INVARIANTS TypeOK LoadingEndsWithAnAnswer OperationsAreSerialized QuietStatusIsFresh HistoryNeverLagsBehindStatus HistoryShowsTheSelectedBranch PickersAreAnswered
CHECK_DEADLOCK FALSE
