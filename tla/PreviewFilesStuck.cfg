CONSTANTS
    Kinds <- MCKinds
    Operations <- MCOperations
    SlotOf <- MCSlotOf
    Slots <- MCSlots
    Rank <- MCRank
    Lanes <- MCLanes
    LaneOf <- MCLaneOf
    NoCommand = NoCommand
    f1 = f1
    f2 = f2
    c1 = c1
    Files = {f1, f2}
    NoFile = NoFile
    Trees <- MCTrees
    Commits = {c1}
    FilesOf <- MCFilesOf
    Keys = {"switch", "toggle"}
    MayFail = {}
    Period = "never"
    Wrap = 12
    MaxKeys = 2
    MaxChanges = 0
    MaxFailures = 0
    MaxEvents = 2
SPECIFICATION Safe
INVARIANTS OpenFilesAreLoaded
CHECK_DEADLOCK FALSE
