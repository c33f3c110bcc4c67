---------------------------- MODULE MCWorkerLanes ----------------------------
(***************************************************************************)
(* WorkerLanes with the tables of WorkerCommands, restricted to a few      *)
(* kinds of commands.                                                      *)
(***************************************************************************)
EXTENDS WorkerLanes

Commands == INSTANCE WorkerCommands

MCLanes      == {Commands!LaneTable[k] : k \in Kinds}
MCLaneOf     == [k \in Kinds |-> Commands!LaneTable[k]]
MCQuietLanes == MCLanes \cap Commands!WarmUpLanes
MCOperations == Kinds \cap Commands!QueuedKinds
MCSlotOf     == [k \in Kinds \ MCOperations |-> Commands!SlotTable[k]]
MCSlots      == {Commands!SlotTable[k] : k \in Kinds \ MCOperations}
MCRank       == [s \in MCSlots |-> Commands!PopRank[s]]
MCDropOrder  == SelectSeq(Commands!ShutdownOrder, LAMBDA l : l \in MCLanes)

(* One report of progress, and two units for a prefetch. *)
MCSteps ==
    [k \in Kinds |-> IF MCLaneOf[k] \in Commands!WarmUpLanes THEN 2
                     ELSE IF k \in Commands!ReportingKinds THEN 1 ELSE 0]
=============================================================================
