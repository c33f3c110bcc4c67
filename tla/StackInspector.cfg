CONSTANTS
    Kinds <- MCKinds
    Operations <- MCOperations
    SlotOf <- MCSlotOf
    Slots <- MCSlots
    Rank <- MCRank
    Lanes <- MCLanes
    LaneOf <- MCLaneOf
    NoCommand = NoCommand
    Size = 2
    Opened = 1
    Scripts <- MCFollowAndBrowse
    Wrap = 9
    MaxPolls = 1
    MaxChanges = 1
SPECIFICATION Safe
INVARIANTS TypeOK StreamsAreOwed InspectorFollowsTheSelection BrowserShowsItsOwner
PROPERTIES ContentStaysVisible
CHECK_DEADLOCK FALSE
