-------------------------- MODULE MCRepositoryReads --------------------------
(***************************************************************************)
(* RepositoryReads with the tables of WorkerCommands, restricted to the    *)
(* kinds of commands it sends.  A behaviour plays one scene: the windows   *)
(* that the user's keys leave open, and the commands that may fail in it.  *)
(***************************************************************************)
EXTENDS RepositoryReads

CONSTANT Scenes
VARIABLE scene

Commands == INSTANCE WorkerCommands

MCKinds ==
    {"Refresh", "LoadWorktrees", "LoadHistory", "LoadHistoryBranches", "LoadBranches",
     "LoadStashes", "LoadAccounts", "LoadRecentProjects", "Operate"}

MCLaneOf     == [k \in Kinds |-> Commands!LaneTable[k]]
MCLanes      == {Commands!LaneTable[k] : k \in Kinds}
MCOperations == Kinds \cap Commands!QueuedKinds
MCSlotOf     == [k \in Kinds \ MCOperations |-> Commands!SlotTable[k]]
MCSlots      == {Commands!SlotTable[k] : k \in Kinds \ MCOperations}
MCRank       == [s \in MCSlots |-> Commands!PopRank[s]]

(* A history selection bumps its generation twice, so those wrap later; the   *)
(* status is read one at a time.                                              *)
MCGenerations ==
    [k \in Kinds |-> CASE k = "LoadHistory" -> 2 + 2 * MaxKeys
                     [] k \in {"Refresh", "LoadWorktrees", "Operate"} -> 2
                     [] OTHER -> 2 + MaxKeys]

Opens ==
    [history     |-> {"none", "HistoryBranches"},
     pickers     |-> {"Projects", "Branches", "Commit"},
     catching_up |-> {"none"}]
Failing ==
    [history     |-> {"LoadHistory", "Operate"},
     pickers     |-> {"LoadBranches"},
     catching_up |-> {"Refresh"}]

(* Keys, changes of the tree and failures, in one behaviour. *)
MaxHappenings == 3

SceneInit == Init /\ scene \in Scenes
(* What a step may do in the scene. *)
Plays ==
    /\ UNCHANGED scene
    /\ pressed' # pressed => modal'.kind \in Opens[scene]
    /\ failures' # failures =>
          \E l \in Lanes : /\ executing'[l] # executing[l]
                           /\ executing[l].kind \in Failing[scene]
    /\ repository'.head # repository.head => scene # "pickers"
    /\ pressed' + (repository'.tree - 1) + failures' <= MaxHappenings

SceneNext ==
    \/ OutsideChange /\ Plays
    \/ Notice /\ Plays
    \/ Settle /\ Plays
    \/ Heartbeat /\ Plays
    \/ ActiveRefresh /\ Plays
    \/ NearEnd /\ Plays
    \/ OpenForm /\ Plays
    \/ Close /\ Plays
    \/ (\E changes_history \in BOOLEAN : QueueOperation(changes_history)) /\ Plays
    \/ (\E picker \in {"HistoryBranches", "CompareBranches"} : OpenHistoryBranches(picker)) /\ Plays
    \/ (\E k \in DOMAIN PickerOf : OpenPicker(k)) /\ Plays
    \/ (\E b \in Topics \cup {"HEAD"} : SelectHistoryBranch(b)) /\ Plays
    \/ Serve /\ UNCHANGED others /\ Plays
    \/ Thread /\ Plays
    \/ Ignore /\ Plays
    \/ HearStatus /\ Plays
    \/ HearHistory /\ Plays
    \/ HearOperation /\ Plays
    \/ HearWorktrees /\ Plays
    \/ HearListing /\ Plays
    \/ HearHistoryBranches /\ Plays

SafeScene == SceneInit /\ [][SceneNext]_<<vars, scene>>
FairScene == SafeScene /\ Fairness
=============================================================================
