-------------------------- MODULE MCStackInspector --------------------------
(***************************************************************************)
(* StackInspector with the tables of WorkerCommands, restricted to the     *)
(* kinds of commands it sends.                                             *)
(***************************************************************************)
EXTENDS StackInspector

Commands == INSTANCE WorkerCommands

MCKinds ==
    {"LookupPullRequest", "LoadPullRequestStack", "LoadPullRequestCommits",
     "LoadPullRequestStackMember", "LoadPullRequestStackMemberConversation",
     "LoadPullRequestStackMemberChecks", "LoadPullRequestStackMemberCommits",
     "LoadPullRequestStackTipChecks"}

MCLaneOf     == [k \in Kinds |-> Commands!LaneTable[k]]
MCLanes      == {Commands!LaneTable[k] : k \in Kinds}
MCOperations == Kinds \cap Commands!QueuedKinds
MCSlotOf     == [k \in Kinds \ MCOperations |-> Commands!SlotTable[k]]
MCSlots      == {Commands!SlotTable[k] : k \in Kinds \ MCOperations}
MCRank       == [s \in MCSlots |-> Commands!PopRank[s]]

Script(keys, may_fail, period, presses, failures) ==
    [keys |-> keys, may_fail |-> may_fail, period |-> period, presses |-> presses,
     failures |-> failures]

(* The inspector while members are selected and polled and reads fail, in     *)
(* three scripts that each do without a key, the poll or the failure; and the *)
(* browser of commits while everything that resets it is pressed, with the    *)
(* keys inside an opened pull request and with those that open one.           *)
Follow(period, presses, failures) ==
    Script({"member", "Conversation"}, {"LoadPullRequestStackMemberConversation"}, period,
           presses, failures)
MCFollowAndBrowse ==
    {Follow("any", 2, 0), Follow("any", 1, 1), Follow("never", 2, 1),
     Script({"commits", "stack", "refresh", "commit", "Commits", "overview", "tip"},
            {}, "never", 3, 0),
     Script({"open", "commits", "stack"}, {}, "never", 3, 0)}

MCCatchUp ==
    {Script({"member", "Summary"}, {"LoadPullRequestStack", "LoadPullRequestStackMember"},
            "long", 1, 1)}

MCReopenCommits == {Script({"Commits", "commits"}, {}, "any", 2, 0)}
=============================================================================
