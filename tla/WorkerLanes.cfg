CONSTANTS
    Kinds = {"Operate", "LoadBranches", "PreparePullRequest", "PrefetchCheckRunLogs"}
    Lanes <- MCLanes
    LaneOf <- MCLaneOf
    QuietLanes <- MCQuietLanes
    Operations <- MCOperations
    SlotOf <- MCSlotOf
    Slots <- MCSlots
    Rank <- MCRank
    DropOrder <- MCDropOrder
    Steps <- MCSteps
    MaxCommands = 3
    NoLane = NoLane
    NoCommand = NoCommand
SPECIFICATION Spec
INVARIANTS TypeOK NoLostWakeup
PROPERTIES KeepsPromise NoUnitForASupersededPrefetch ServesPromise EveryThreadExits
CHECK_DEADLOCK FALSE
