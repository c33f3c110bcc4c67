---------------------------- MODULE WorkerMailbox ----------------------------
(***************************************************************************)
(* The mailbox between the interface and one worker thread: a queue of     *)
(* repository mutations, a slot for each class of reads, and a shutdown    *)
(* flag.  A command is any record with a field "kind".                     *)
(***************************************************************************)
EXTENDS Naturals, Sequences

CONSTANTS
    Kinds,         \* the kinds of commands the interface sends
    Operations,    \* the kinds that are queued instead of replacing each other
    Slots,         \* the slots for reads
    SlotOf,        \* the slot each read waits in
    Rank,          \* the order in which slots are emptied, lowest first
    NoCommand      \* what an empty slot holds

IsOperation(c) == c.kind \in Operations

MailboxOf(Commands) ==
    [operations : Seq(Commands),
     slots      : [Slots -> Commands \cup {NoCommand}],
     shutdown   : BOOLEAN]

NewMailbox ==
    [operations |-> <<>>, slots |-> [s \in Slots |-> NoCommand], shutdown |-> FALSE]

(* Mutant: a read that waits is kept, and the newer one forgotten. *)
PushKeepsOlderRead(m, c) ==
    IF IsOperation(c)
    THEN [m EXCEPT !.operations = Append(@, c)]
    ELSE [m EXCEPT !.slots = [@ EXCEPT ![SlotOf[c.kind]] = IF @ = NoCommand THEN c ELSE @]]

(* An operation joins the queue; a read replaces whatever its slot held. *)
Push(m, c) ==
    IF IsOperation(c)
    THEN [m EXCEPT !.operations = Append(@, c)]
    ELSE [m EXCEPT !.slots = [@ EXCEPT ![SlotOf[c.kind]] = c]]

PushShutdown(m) == [m EXCEPT !.shutdown = TRUE]

Full(m) == {s \in Slots : m.slots[s] # NoCommand}

(* Mailbox::pop takes the oldest operation and, when none is queued, the     *)
(* command of the occupied slot of lowest rank.                              *)
PopsOperation(m) == m.operations # <<>>
PopsSlot(m, s)   == /\ m.operations = <<>>
                    /\ s \in Full(m)
                    /\ \A t \in Full(m) : Rank[s] <= Rank[t]
Drained(m)       == m.operations = <<>> /\ Full(m) = {}

WithoutHead(m)    == [m EXCEPT !.operations = Tail(@)]
WithoutSlot(m, s) == [m EXCEPT !.slots = [@ EXCEPT ![s] = NoCommand]]

(* The commands that wait in a mailbox. *)
Waiting(m) == {m.operations[i] : i \in DOMAIN m.operations}
              \cup {m.slots[s] : s \in Full(m)}
=============================================================================
