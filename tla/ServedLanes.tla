----------------------------- MODULE ServedLanes -----------------------------
(***************************************************************************)
(* The lanes of the Git worker as the interface sees them: what a handler  *)
(* asks for is sent command by command, waits in the mailbox of its lane,  *)
(* is executed by the one thread of the lane, and is answered on the       *)
(* channel that all lanes share.                                           *)
(*                                                                         *)
(* WorkerLanes models the lanes with their locks, their condition          *)
(* variables and their shutdown, and shows that none of them loses or      *)
(* reorders anything; here a look at a mailbox is one step and a thread    *)
(* that has work takes it.                                                 *)
(***************************************************************************)
EXTENDS WorkerMailbox

CONSTANTS
    Lanes,         \* the lanes an interface uses
    LaneOf         \* the lane of each kind

VARIABLES
    outbox,        \* the effects of the handlers that are not yet sent
    mailbox,       \* what waits for each thread
    executing,     \* what each thread executes
    answers        \* the channel from the threads to the interface

lane == <<outbox, mailbox, executing, answers>>

InitLane(effects) ==
    /\ outbox = effects
    /\ mailbox = [l \in Lanes |-> NewMailbox]
    /\ executing = [l \in Lanes |-> NoCommand]
    /\ answers = <<>>

(* The event loop dispatches all effects of a handler before it runs another; *)
(* of the events it drains in one go it dispatches them after the last, which *)
(* only lets the threads begin later.                                         *)
Free == outbox = <<>>

Dispatch ==
    /\ outbox # <<>>
    /\ mailbox' = [mailbox EXCEPT ![LaneOf[Head(outbox).kind]] = Push(@, Head(outbox))]
    /\ outbox' = Tail(outbox)
    /\ UNCHANGED <<executing, answers>>

BeginOperation(l) ==
    /\ executing[l] = NoCommand
    /\ PopsOperation(mailbox[l])
    /\ mailbox' = [mailbox EXCEPT ![l] = WithoutHead(@)]
    /\ executing' = [executing EXCEPT ![l] = Head(mailbox[l].operations)]
    /\ UNCHANGED <<outbox, answers>>

BeginRead(l, s) ==
    /\ executing[l] = NoCommand
    /\ PopsSlot(mailbox[l], s)
    /\ mailbox' = [mailbox EXCEPT ![l] = WithoutSlot(@, s)]
    /\ executing' = [executing EXCEPT ![l] = mailbox[l].slots[s]]
    /\ UNCHANGED <<outbox, answers>>

Serve == Dispatch \/ \E l \in Lanes : BeginOperation(l) \/ \E s \in Slots : BeginRead(l, s)

(* The thread of a lane ends what it executes and sends the event. *)
Answer(l, event) ==
    /\ answers' = Append(answers, event)
    /\ executing' = [executing EXCEPT ![l] = NoCommand]
    /\ UNCHANGED <<outbox, mailbox>>

(* A handler runs on a key, a timer or a watcher's signal ... *)
Handle(effects) ==
    /\ Free
    /\ outbox' = effects
    /\ UNCHANGED <<mailbox, executing, answers>>

(* ... or on the oldest event of the channel. *)
HandleAnswer(effects) ==
    /\ Free
    /\ answers' = Tail(answers)
    /\ outbox' = effects
    /\ UNCHANGED <<mailbox, executing>>

(* The commands that were asked for and whose answer was not yet heard. *)
OnItsWay ==
    {outbox[i] : i \in DOMAIN outbox}
    \cup (UNION {Waiting(mailbox[l]) : l \in Lanes})
    \cup ({executing[l] : l \in Lanes} \ {NoCommand})
    \cup {answers[i].command : i \in DOMAIN answers}

LaneTypeOK(Command, Event) ==
    /\ outbox \in Seq(Command)
    /\ mailbox \in [Lanes -> MailboxOf(Command)]
    /\ executing \in [Lanes -> Command \cup {NoCommand}]
    /\ answers \in Seq(Event)
=============================================================================
