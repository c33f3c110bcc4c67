CONSTANTS
    Kinds <- MCKinds
    Operations <- MCOperations
    SlotOf <- MCSlotOf
    Slots <- MCSlots
    Rank <- MCRank
    Lanes <- MCLanes
    LaneOf <- MCLaneOf
    NoCommand = NoCommand
    Generations <- MCGenerations
    Keys = {"operate", "refresh"}
    Topics = {}
    Pages = 1
    MayFail = {"Refresh"}
    Scenes = {"catching_up"}
    WatcherMisses = TRUE
    Period = "long"
    MaxKeys = 1
    MaxChanges = 2
    MaxFailures = 1
SPECIFICATION FairScene
PROPERTIES RepositoryCatchesUp
