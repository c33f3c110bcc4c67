CONSTANTS
    Kinds <- MCKinds
    Operations <- MCOperations
    SlotOf <- MCSlotOf
    Slots <- MCSlots
    Rank <- MCRank
    Lanes <- MCLanes
    LaneOf <- MCLaneOf
    NoCommand = NoCommand
    Size = 2
    Opened = 2
    Scripts <- MCCatchUp
    Wrap = 4
    MaxPolls = 0
    MaxChanges = 1
SPECIFICATION Spec
PROPERTIES InspectorCatchesUp
