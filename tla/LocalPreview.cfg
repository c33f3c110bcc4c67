CONSTANTS
    Kinds <- MCKinds
    Operations <- MCOperations
    SlotOf <- MCSlotOf
    Slots <- MCSlots
    Rank <- MCRank
    Lanes <- MCLanes
    LaneOf <- MCLaneOf
    NoCommand = NoCommand
    f1 = f1
    f2 = f2
    c1 = c1
    Files = {f1, f2}
    NoFile = NoFile
    Trees <- MCTrees
    Commits = {c1}
    FilesOf <- MCFilesOf
    Keys = {"refresh", "select", "compare", "switch", "toggle", "toggle_all"}
    MayFail = {"LoadLocalDiffFile"}
    Period = "long"
    Wrap = 12
    MaxKeys = 2
    MaxChanges = 1
    MaxFailures = 1
    MaxEvents = 3
SPECIFICATION Safe
INVARIANTS TypeOK WorkspacesAreKept PreviewIsOwed PatchesAreOfTheSubject QuietPreviewIsFresh
PROPERTIES ShownPatchesStay
CHECK_DEADLOCK FALSE
