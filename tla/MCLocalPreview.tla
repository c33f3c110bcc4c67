---------------------------- MODULE MCLocalPreview ----------------------------
(***************************************************************************)
(* LocalPreview with the tables of WorkerCommands, restricted to the kinds *)
(* of commands it sends, with two files and two commits of which one       *)
(* changed both.                                                           *)
(***************************************************************************)
EXTENDS LocalPreview

CONSTANTS f1, f2, c1

Commands == INSTANCE WorkerCommands

MCKinds      == {"Refresh", "PrepareLocalDiff", "LoadLocalDiffFile"}
MCLaneOf     == [k \in Kinds |-> Commands!LaneTable[k]]
MCLanes      == {Commands!LaneTable[k] : k \in Kinds}
MCOperations == Kinds \cap Commands!QueuedKinds
MCSlotOf     == [k \in Kinds \ MCOperations |-> Commands!SlotTable[k]]
MCSlots      == {Commands!SlotTable[k] : k \in Kinds \ MCOperations}
MCRank       == [s \in MCSlots |-> Commands!PopRank[s]]

MCTrees   == {<<f1, f2>>, <<f2>>}
MCFilesOf == [x \in {c1, "comparison"} |-> <<f1, f2>>]
=============================================================================
