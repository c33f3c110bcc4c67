---------------------------- MODULE WorkerPromise ----------------------------
(***************************************************************************)
(* What a Git worker promises the interface, without mailboxes, condition  *)
(* variables or threads:                                                   *)
(*                                                                         *)
(*  - a mutation that was accepted is never replaced; the mutations of a   *)
(*    lane run one at a time, in the order they were accepted, and before  *)
(*    any read that waits in the lane;                                     *)
(*  - a read that was accepted runs unless a newer read of its class       *)
(*    arrives first;                                                       *)
(*  - whatever runs on an answering lane tells its results on one channel; *)
(*  - a lane that is open never leaves work lying around for ever, and a   *)
(*    closed lane begins nothing.                                          *)
(*                                                                         *)
(* WorkerLanes is the implementation.                                      *)
(***************************************************************************)
EXTENDS Naturals, Sequences

CONSTANTS
    Command,       \* the commands, records with an id and a kind
    Operations,    \* the kinds that change the repository
    Lanes,         \* the independent lines of work
    LaneOf,        \* the lane of each kind
    SlotOf,        \* the class of each kind that only reads
    QuietLanes,    \* the lanes whose work is not answered
    NoCommand      \* what an idle lane runs

VARIABLES
    last,          \* the id of the last command accepted
    pending,       \* the commands accepted and not begun
    running,       \* what each lane runs
    closed,        \* the lanes that accept and begin nothing more
    events         \* what was told and not yet heard

vars == <<last, pending, running, closed, events>>

Changes(c) == c.kind \in Operations

(* Two reads of one class on one lane: the newer makes the older obsolete. *)
Obsoletes(c, d) ==
    /\ ~ Changes(c) /\ ~ Changes(d)
    /\ LaneOf[c.kind] = LaneOf[d.kind]
    /\ SlotOf[c.kind] = SlotOf[d.kind]

Init ==
    /\ last = 0
    /\ pending = {}
    /\ running = [l \in Lanes |-> NoCommand]
    /\ closed = {}
    /\ events = <<>>

Accept(c) ==
    /\ c.id = last + 1
    /\ LaneOf[c.kind] \notin closed
    /\ last' = c.id
    /\ pending' = {d \in pending : ~ Obsoletes(c, d)} \cup {c}
    /\ UNCHANGED <<running, closed, events>>

MayBegin(l, c) ==
    /\ LaneOf[c.kind] = l
    /\ \A d \in pending :
           LaneOf[d.kind] = l /\ Changes(d) => Changes(c) /\ c.id <= d.id

Begin(l) ==
    /\ l \notin closed
    /\ running[l] = NoCommand
    /\ \E c \in pending :
          /\ MayBegin(l, c)
          /\ running' = [running EXCEPT ![l] = c]
          /\ pending' = pending \ {c}
    /\ UNCHANGED <<last, closed, events>>

Tell(l, final) ==
    /\ l \notin QuietLanes
    /\ events' = Append(events, [command |-> running[l], final |-> final])

Report(l) ==
    /\ running[l] # NoCommand
    /\ Tell(l, FALSE)
    /\ UNCHANGED <<last, pending, running, closed>>

(* Only a worker that is being dropped may end a command without an answer. *)
Finish(l) ==
    /\ running[l] # NoCommand
    /\ running' = [running EXCEPT ![l] = NoCommand]
    /\ \/ Tell(l, TRUE)
       \/ l \in QuietLanes \cup closed /\ UNCHANGED events
    /\ UNCHANGED <<last, pending, closed>>

Hear ==
    /\ events # <<>>
    /\ events' = Tail(events)
    /\ UNCHANGED <<last, pending, running, closed>>

Close(l) ==
    /\ closed' = closed \cup {l}
    /\ UNCHANGED <<last, pending, running, events>>

Discard ==
    /\ closed = Lanes
    /\ events' = <<>>
    /\ UNCHANGED <<last, pending, running, closed>>

Next ==
    \/ \E c \in Command : Accept(c)
    \/ \E l \in Lanes : Begin(l) \/ Report(l) \/ Finish(l) \/ Close(l)
    \/ Hear
    \/ Discard

Safe == Init /\ [][Next]_vars

Live == \A l \in Lanes : WF_vars(Begin(l)) /\ WF_vars(Finish(l))

Spec == Safe /\ Live
=============================================================================
