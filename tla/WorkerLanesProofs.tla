-------------------------- MODULE WorkerLanesProofs --------------------------
(***************************************************************************)
(* Proofs about WorkerLanes, for any set of lanes, any table of commands   *)
(* and slots, and any number of commands.                                  *)
(***************************************************************************)
EXTENDS WorkerLanes, TLAPS, SequenceTheorems

(* What TypeOK needs to be inductive: a generation counts some of the sends, *)
(* and a thread executes exactly when it has a command.                      *)
CountsSends == \A l \in QuietLanes : generation[l] <= sent
Employed    == \A l \in Lanes : thread[l] = "executing" <=> executing[l] # NoCommand
TypeInv     == TypeOK /\ CountsSends /\ Employed
-----------------------------------------------------------------------------
(* Mailbox operators keep the type of a mailbox. *)

LEMMA NewMailboxType ==
    ASSUME NEW C
    PROVE  NewMailbox \in MailboxOf(C)
BY DEF NewMailbox, MailboxOf

(* push stores a command of a known kind. *)
LEMMA PushType ==
    ASSUME NEW m \in MailboxOf(Command), NEW c \in Command
    PROVE  Push(m, c) \in MailboxOf(Command)
<1>1. CASE IsOperation(c)
    <2>1. Append(m.operations, c) \in Seq(Command)
        BY DEF MailboxOf
    <2>2. QED
        BY <1>1, <2>1 DEF Push, MailboxOf
<1>2. CASE ~ IsOperation(c)
    <2>1. SlotOf[c.kind] \in Slots
        BY <1>2, LanesAssumption DEF IsOperation, Command
    <2>2. [m.slots EXCEPT ![SlotOf[c.kind]] = c] \in [Slots -> Command \cup {NoCommand}]
        BY <2>1 DEF MailboxOf
    <2>3. QED
        BY <1>2, <2>2 DEF Push, MailboxOf
<1>3. QED
    BY <1>1, <1>2

LEMMA PushShutdownType ==
    ASSUME NEW m \in MailboxOf(Command)
    PROVE  PushShutdown(m) \in MailboxOf(Command)
BY DEF PushShutdown, MailboxOf

(* pop takes the head of the queue. *)
LEMMA PopOperationType ==
    ASSUME NEW m \in MailboxOf(Command), PopsOperation(m)
    PROVE  /\ WithoutHead(m) \in MailboxOf(Command)
           /\ Head(m.operations) \in Command
<1>1. /\ m.operations \in Seq(Command)
      /\ m.operations # <<>>
    BY DEF MailboxOf, PopsOperation
<1>2. /\ Tail(m.operations) \in Seq(Command)
      /\ Head(m.operations) \in Command
    BY <1>1, HeadTailProperties
<1>3. QED
    BY <1>2 DEF WithoutHead, MailboxOf

(* pop empties a slot. *)
LEMMA PopSlotType ==
    ASSUME NEW m \in MailboxOf(Command), NEW s \in Slots, PopsSlot(m, s)
    PROVE  /\ WithoutSlot(m, s) \in MailboxOf(Command)
           /\ m.slots[s] \in Command
<1>1. m.slots[s] \in Command
    BY DEF MailboxOf, PopsSlot, Full
<1>2. [m.slots EXCEPT ![s] = NoCommand] \in [Slots -> Command \cup {NoCommand}]
    BY DEF MailboxOf
<1>3. QED
    BY <1>1, <1>2 DEF WithoutSlot, MailboxOf
-----------------------------------------------------------------------------
(* The type invariant of a running GitWorker. *)

LEMMA TypeInvInitially == Init => TypeInv
<1> SUFFICES ASSUME Init PROVE TypeInv
    OBVIOUS
<1>1. mailbox \in [Lanes -> MailboxOf(Command)]
    BY NewMailboxType DEF Init
<1>2. TypeOK
    BY <1>1, LanesAssumption DEF Init, TypeOK
<1>3. CountsSends
    BY LanesAssumption DEF Init, CountsSends
<1>4. Employed
    BY DEF Init, Employed
<1>5. QED
    BY <1>2, <1>3, <1>4 DEF TypeInv

(* send stamps a command with a generation no larger than the sends so far. *)
LEMMA SendKeepsTypeInv ==
    ASSUME TypeInv, NEW k \in Kinds, Send(k)
    PROVE  TypeInv' /\ pushing' \in Command
<1> USE DEF TypeInv, Send
<1>1. /\ sent \in 0 .. MaxCommands /\ sent < MaxCommands /\ MaxCommands \in Nat
      /\ LaneOf[k] \in Lanes
    BY LanesAssumption DEF TypeOK
<1>2. \A l \in QuietLanes : generation[l] \in 0 .. MaxCommands /\ generation[l] <= sent
    BY DEF TypeOK, CountsSends
<1>3. Stamp(k) \in 0 .. MaxCommands
    BY <1>1, <1>2 DEF Stamp
<1>4. pushing' \in Command
    BY <1>1, <1>3 DEF Command
<1>5. generation' \in [QuietLanes -> 0 .. MaxCommands] /\ CountsSends'
    BY <1>1, <1>2 DEF CountsSends
<1>6. TypeOK'
    BY <1>1, <1>4, <1>5 DEF TypeOK, worker
<1>7. QED
    BY <1>4, <1>5, <1>6 DEF Employed, worker

(* The other steps of the interface move commands between places they fit in. *)
LEMMA InterfaceKeepsTypeInv ==
    ASSUME TypeInv, Interface
    PROVE  TypeInv'
<1> USE DEF TypeInv
<1>1. CASE \E k \in Kinds : Send(k)
    BY <1>1, SendKeepsTypeInv
<1>2. CASE Deliver
    <2>1. pushing \in Command /\ LaneOf[pushing.kind] \in Lanes
        BY <1>2, LanesAssumption DEF Deliver, TypeOK, Command
    <2>2. Push(mailbox[LaneOf[pushing.kind]], pushing) \in MailboxOf(Command)
        BY <2>1, PushType DEF TypeOK
    <2>3. mailbox' \in [Lanes -> MailboxOf(Command)] /\ notifying' \in Lanes \cup {NoLane}
        BY <1>2, <2>1, <2>2 DEF Deliver, TypeOK
    <2>4. QED
        BY <1>2, <2>3 DEF Deliver, TypeOK, CountsSends, Employed, worker
<1>3. CASE Notify
    BY <1>3 DEF Notify, TypeOK, CountsSends, Employed
<1>4. CASE Receive
    <2>1. events' \in Seq(Event)
        BY <1>4, HeadTailProperties DEF Receive, TypeOK
    <2>2. QED
        BY <1>4, <2>1 DEF Receive, TypeOK, CountsSends, Employed, worker, interface
<1>5. CASE Drop
    BY <1>5 DEF Drop, TypeOK, CountsSends, Employed, worker
<1>6. CASE ShutLane
    <2>1. Head(dropping) \in Lanes /\ Tail(dropping) \in Seq(Lanes)
        BY <1>6, HeadTailProperties DEF ShutLane, TypeOK
    <2>2. PushShutdown(mailbox[Head(dropping)]) \in MailboxOf(Command)
        BY <2>1, PushShutdownType DEF TypeOK
    <2>3. QED
        BY <1>6, <2>1, <2>2 DEF ShutLane, TypeOK, CountsSends, Employed, worker
<1>7. CASE DropReceiver
    <2>1. events' \in Seq(Event)
        BY <1>7, EmptySeq DEF DropReceiver
    <2>2. QED
        BY <1>7, <2>1 DEF DropReceiver, TypeOK, CountsSends, Employed, worker
<1>8. QED
    BY <1>1, <1>2, <1>3, <1>4, <1>5, <1>6, <1>7 DEF Interface, TypeInv

(* A thread that looks at its mailbox takes a command, waits or exits. *)
LEMMA LookingKeepsTypeInv ==
    ASSUME TypeInv, NEW l \in Lanes, Looking(l)
    PROVE  TypeInv'
<1> USE DEF TypeInv
<1>1. ASSUME NEW m \in MailboxOf(Command), NEW c \in Command, Execute(l, c),
             mailbox' = [mailbox EXCEPT ![l] = m]
      PROVE  TypeInv'
    <2>1. Steps[c.kind] \in Nat /\ c # NoCommand
        BY LanesAssumption DEF Command
    <2>2. QED
        BY <1>1, <2>1 DEF Execute, TypeOK, CountsSends, Employed, interface
<1>2. mailbox[l] \in MailboxOf(Command)
    BY DEF TypeOK
<1>3. CASE Exit(l)
    BY <1>3 DEF Exit, Looks, TypeOK, CountsSends, Employed, interface
<1>4. CASE BeginOperation(l)
    BY <1>1, <1>2, <1>4, PopOperationType DEF BeginOperation
<1>5. CASE \E s \in Slots : BeginRead(l, s)
    BY <1>1, <1>2, <1>5, PopSlotType DEF BeginRead
<1>6. CASE Wait(l)
    BY <1>6 DEF Wait, Looks, TypeOK, CountsSends, Employed, interface
<1>7. QED
    BY <1>3, <1>4, <1>5, <1>6 DEF Looking, TypeInv

(* A thread that executes reports, warms, or comes to rest. *)
LEMMA WorkingKeepsTypeInv ==
    ASSUME TypeInv, NEW l \in Lanes, Working(l)
    PROVE  TypeInv'
<1> USE DEF TypeInv
<1>1. ASSUME NEW final \in BOOLEAN, thread[l] = "executing", Tell(l, final)
      PROVE  events' \in Seq(Event)
    <2>1. [command |-> executing[l], final |-> final] \in Event
        BY <1>1 DEF TypeOK, Employed, Event
    <2>2. QED
        BY <1>1, <2>1 DEF Tell, TypeOK
<1>2. ASSUME thread[l] = "executing", steps[l] > 0
      PROVE  [steps EXCEPT ![l] = @ - 1] \in [Lanes -> Nat]
    BY <1>2 DEF TypeOK
<1>3. CASE Report(l)
    BY <1>1, <1>2, <1>3 DEF Report, TypeOK, CountsSends, Employed, interface
<1>4. CASE Answer(l)
    <2>1. events' \in Seq(Event)
        BY <1>1, <1>4 DEF Answer
    <2>2. QED
        BY <1>4, <2>1 DEF Answer, Rest, TypeOK, CountsSends, Employed, interface
<1>5. CASE WarmOne(l)
    BY <1>2, <1>5 DEF WarmOne, TypeOK, CountsSends, Employed, interface
<1>6. CASE StopWarming(l)
    BY <1>6 DEF StopWarming, Rest, TypeOK, CountsSends, Employed, interface
<1>7. QED
    BY <1>3, <1>4, <1>5, <1>6 DEF Working, TypeInv

LEMMA NextKeepsTypeInv == TypeInv /\ [Next]_vars => TypeInv'
<1> SUFFICES ASSUME TypeInv, [Next]_vars PROVE TypeInv'
    OBVIOUS
<1>1. CASE Interface
    BY <1>1, InterfaceKeepsTypeInv
<1>2. ASSUME NEW l \in Lanes, Looking(l) PROVE TypeInv'
    BY <1>2, LookingKeepsTypeInv
<1>3. ASSUME NEW l \in Lanes, WakeSpuriously(l) PROVE TypeInv'
    BY <1>3 DEF WakeSpuriously, TypeInv, TypeOK, CountsSends, Employed, interface
<1>4. ASSUME NEW l \in Lanes, Working(l) PROVE TypeInv'
    BY <1>4, WorkingKeepsTypeInv
<1>5. CASE UNCHANGED vars
    BY <1>5 DEF vars, worker, interface, TypeInv, TypeOK, CountsSends, Employed
<1>6. QED
    BY <1>1, <1>2, <1>3, <1>4, <1>5 DEF Next

(* Every state of a GitWorker is well typed: a thread that executes has a     *)
(* command of its own, and no prefetch generation outruns the sends.          *)
THEOREM TypeCorrect == Safe => []TypeOK
<1>1. Safe => []TypeInv
    BY TypeInvInitially, NextKeepsTypeInv, PTL DEF Safe
<1>2. QED
    BY <1>1, PTL DEF TypeInv
-----------------------------------------------------------------------------
(* No lost wake-up. *)

(* The interface never has a command to push and a lane to notify at once. *)
OneAtATime == pushing = NoCommand \/ notifying = NoLane
WakeupInv  == TypeInv /\ OneAtATime /\ NoLostWakeup

(* A push or a shutdown that leaves a thread waiting still owes it a          *)
(* notification, and the notification that is made leaves no thread waiting.  *)
LEMMA InterfaceKeepsWakeups ==
    ASSUME WakeupInv, Interface
    PROVE  OneAtATime' /\ NoLostWakeup'
<1> USE DEF WakeupInv
<1>1. CASE \E k \in Kinds : Send(k)
    BY <1>1 DEF Send, Idle, OneAtATime, NoLostWakeup, worker
<1>2. CASE Deliver
    <2>1. LaneOf[pushing.kind] \in Lanes
        BY <1>2, LanesAssumption DEF Deliver, TypeInv, TypeOK, Command
    <2>2. notifying = NoLane
        BY <1>2 DEF Deliver, OneAtATime
    <2>3. CASE mailbox[LaneOf[pushing.kind]].shutdown
        BY <1>2, <2>2, <2>3 DEF Deliver, OneAtATime, NoLostWakeup, worker
    <2>4. CASE ~ mailbox[LaneOf[pushing.kind]].shutdown
        <3>1. \A l \in Lanes : l # LaneOf[pushing.kind] =>
                  thread'[l] = thread[l] /\ mailbox'[l] = mailbox[l]
            BY <1>2, <2>4 DEF Deliver, worker, TypeInv, TypeOK
        <3>2. \A l \in Lanes : thread[l] = "waiting" =>
                  Drained(mailbox[l]) /\ ~ mailbox[l].shutdown
            BY <2>2, LanesAssumption DEF NoLostWakeup
        <3>3. notifying' = LaneOf[pushing.kind] /\ pushing' = NoCommand
            BY <1>2, <2>4 DEF Deliver
        <3>4. QED
            BY <3>1, <3>2, <3>3 DEF OneAtATime, NoLostWakeup
    <2>5. QED
        BY <2>3, <2>4
<1>3. CASE Notify
    BY <1>3 DEF Notify, OneAtATime, NoLostWakeup, TypeInv, TypeOK
<1>4. CASE Receive
    BY <1>4 DEF Receive, OneAtATime, NoLostWakeup, worker, interface
<1>5. CASE Drop
    BY <1>5 DEF Drop, OneAtATime, NoLostWakeup, worker
<1>6. CASE ShutLane
    <2>1. \A l \in Lanes : l # Head(dropping) =>
              thread'[l] = thread[l] /\ mailbox'[l] = mailbox[l]
        BY <1>6 DEF ShutLane, worker, TypeInv, TypeOK
    <2>2. \A l \in Lanes : thread[l] = "waiting" =>
              Drained(mailbox[l]) /\ ~ mailbox[l].shutdown
        BY <1>6, LanesAssumption DEF ShutLane, Idle, NoLostWakeup
    <2>3. QED
        BY <1>6, <2>1, <2>2 DEF ShutLane, Idle, OneAtATime, NoLostWakeup
<1>7. CASE DropReceiver
    BY <1>7 DEF DropReceiver, OneAtATime, NoLostWakeup, worker
<1>8. QED
    BY <1>1, <1>2, <1>3, <1>4, <1>5, <1>6, <1>7 DEF Interface

(* Only Wait makes a thread wait, and it has just seen the mailbox empty. *)
LEMMA ThreadKeepsWakeups ==
    ASSUME WakeupInv, NEW l \in Lanes, Looking(l) \/ WakeSpuriously(l) \/ Working(l)
    PROVE  OneAtATime' /\ NoLostWakeup'
<1> USE DEF WakeupInv
<1>1. OneAtATime'
    BY DEF OneAtATime, Looking, WakeSpuriously, Working, Exit, BeginOperation, BeginRead,
           Execute, Wait, Report, Answer, WarmOne, StopWarming, interface
<1>2. notifying' = notifying
    BY DEF Looking, WakeSpuriously, Working, Exit, BeginOperation, BeginRead,
           Execute, Wait, Report, Answer, WarmOne, StopWarming, interface
<1>3. \A k \in Lanes : k # l => thread'[k] = thread[k] /\ mailbox'[k] = mailbox[k]
    BY DEF Looking, WakeSpuriously, Working, Exit, BeginOperation, BeginRead,
           Execute, Wait, Report, Answer, Rest, WarmOne, StopWarming, TypeInv, TypeOK
<1>4. thread'[l] = "waiting" =>
          mailbox'[l] = mailbox[l]
          /\ (thread[l] = "waiting" \/ (Drained(mailbox[l]) /\ ~ mailbox[l].shutdown))
    BY DEF Looking, WakeSpuriously, Working, Exit, BeginOperation, BeginRead,
           Execute, Wait, Report, Answer, Rest, WarmOne, StopWarming, TypeInv, TypeOK
<1>5. QED
    BY <1>1, <1>2, <1>3, <1>4 DEF NoLostWakeup

(* A worker thread never sleeps on work: whenever it waits, its mailbox is    *)
(* empty and open or the notification is on its way.                          *)
THEOREM WakeupsAreNotLost == Safe => []NoLostWakeup
<1>1. Init => WakeupInv
    BY TypeInvInitially DEF Init, WakeupInv, OneAtATime, NoLostWakeup
<1>2. WakeupInv /\ [Next]_vars => WakeupInv'
    <2> SUFFICES ASSUME WakeupInv, [Next]_vars PROVE WakeupInv'
        OBVIOUS
    <2>1. TypeInv'
        BY NextKeepsTypeInv DEF WakeupInv
    <2>2. OneAtATime' /\ NoLostWakeup'
        <3>1. CASE UNCHANGED vars
            BY <3>1 DEF vars, worker, interface, WakeupInv, OneAtATime, NoLostWakeup
        <3>2. QED
            BY <3>1, InterfaceKeepsWakeups, ThreadKeepsWakeups DEF Next
    <2>3. QED
        BY <2>1, <2>2 DEF WakeupInv
<1>3. QED
    BY <1>1, <1>2, PTL DEF Safe, WakeupInv
-----------------------------------------------------------------------------
(* Superseded prefetches. *)

(* What a warm-up lane holds: reads, each in the slot of its kind, ... *)
ReadsOnly ==
    \A l \in QuietLanes :
        /\ mailbox[l].operations = <<>>
        /\ \A s \in Full(mailbox[l]) :
              /\ LaneOf[mailbox[l].slots[s].kind] = l
              /\ SlotOf[mailbox[l].slots[s].kind] = s

(* ... with generations that grow from the one that is executed over the one  *)
(* that waits to the one that is pushed, which has the newest.                *)
GenerationsGrow ==
    \A l \in QuietLanes :
        /\ \A s \in Full(mailbox[l]) : mailbox[l].slots[s].generation <= generation[l]
        /\ executing[l] # NoCommand =>
              /\ executing[l].generation <= generation[l]
              /\ \A s \in Full(mailbox[l]) :
                    executing[l].generation < mailbox[l].slots[s].generation
        /\ pushing # NoCommand /\ LaneOf[pushing.kind] = l =>
              /\ pushing.generation = generation[l]
              /\ \A s \in Full(mailbox[l]) :
                    mailbox[l].slots[s].generation < pushing.generation
              /\ executing[l] # NoCommand => executing[l].generation < pushing.generation

WarmingInv == TypeInv /\ ReadsOnly /\ GenerationsGrow

(* The fields that the invariant speaks of have their types. *)
LEMMA QuietLanesTyped ==
    ASSUME TypeInv, NEW l \in QuietLanes
    PROVE  /\ l \in Lanes /\ generation[l] \in Nat
           /\ mailbox[l] \in MailboxOf(Command)
           /\ \A s \in Full(mailbox[l]) : s \in Slots /\ mailbox[l].slots[s] \in Command
           /\ executing[l] # NoCommand => executing[l] \in Command
           /\ pushing # NoCommand => pushing \in Command
           /\ \A c \in Command : c.generation \in Nat /\ c.kind \in Kinds /\ c # NoCommand
<1>1. l \in Lanes /\ MaxCommands \in Nat /\ NoCommand \notin Command
    BY LanesAssumption
<1>2. mailbox[l] \in MailboxOf(Command) /\ generation[l] \in 0 .. MaxCommands
    BY <1>1 DEF TypeInv, TypeOK
<1>3. \A s \in Full(mailbox[l]) : s \in Slots /\ mailbox[l].slots[s] \in Command
    BY <1>2 DEF Full, MailboxOf
<1>4. \A c \in Command : c.generation \in Nat /\ c.kind \in Kinds
    BY <1>1 DEF Command
<1> QED
    BY <1>1, <1>2, <1>3, <1>4 DEF TypeInv, TypeOK

(* At most one slot of a warm-up lane is full. *)
LEMMA OneSlotIsFull ==
    ASSUME WarmingInv, NEW l \in QuietLanes, NEW s \in Full(mailbox[l]),
           NEW k \in Kinds, LaneOf[k] = l
    PROVE  k \notin Operations /\ s = SlotOf[k]
<1>1. mailbox[l].slots[s].kind \in Kinds
    BY QuietLanesTyped DEF WarmingInv
<1> QED
    BY <1>1, QuietLanesAssumption DEF WarmingInv, ReadsOnly

(* A step that leaves mailboxes, generations and commands alone, or ends one. *)
LEMMA LanesKeepWarming ==
    ASSUME WarmingInv,
           \A l \in QuietLanes :
              /\ mailbox'[l].operations = mailbox[l].operations
              /\ mailbox'[l].slots = mailbox[l].slots
              /\ executing'[l] \in {executing[l], NoCommand},
           generation' = generation, pushing' \in {pushing, NoCommand}
    PROVE  ReadsOnly' /\ GenerationsGrow'
<1>1. \A l \in QuietLanes : Full(mailbox'[l]) = Full(mailbox[l])
    BY DEF Full
<1>2. ReadsOnly'
    BY <1>1 DEF WarmingInv, ReadsOnly
<1>3. GenerationsGrow'
    BY <1>1 DEF WarmingInv, GenerationsGrow
<1> QED
    BY <1>2, <1>3

(* send gives a prefetch a generation that none in its lane has. *)
LEMMA SendKeepsWarming ==
    ASSUME WarmingInv, NEW k \in Kinds, Send(k)
    PROVE  ReadsOnly' /\ GenerationsGrow'
<1>1. /\ pushing = NoCommand /\ mailbox' = mailbox /\ executing' = executing
      /\ pushing' = [id |-> sent + 1, kind |-> k, generation |-> Stamp(k)]
      /\ generation' = [l \in QuietLanes |->
                           IF l = LaneOf[k] THEN generation[l] + 1 ELSE generation[l]]
    BY DEF Send, Idle, worker
<1>2. ReadsOnly'
    BY <1>1 DEF WarmingInv, ReadsOnly
<1>3. ASSUME NEW l \in QuietLanes
      PROVE  /\ \A s \in Full(mailbox[l]) : mailbox[l].slots[s].generation <= generation'[l]
             /\ executing[l] # NoCommand =>
                   /\ executing[l].generation <= generation'[l]
                   /\ \A s \in Full(mailbox[l]) :
                         executing[l].generation < mailbox[l].slots[s].generation
             /\ LaneOf[pushing'.kind] = l =>
                   /\ pushing'.generation = generation'[l]
                   /\ \A s \in Full(mailbox[l]) :
                         mailbox[l].slots[s].generation < pushing'.generation
                   /\ executing[l] # NoCommand => executing[l].generation < pushing'.generation
    <2>1. /\ generation[l] \in Nat
          /\ \A s \in Full(mailbox[l]) : mailbox[l].slots[s].generation \in Nat
          /\ executing[l] # NoCommand => executing[l].generation \in Nat
        BY QuietLanesTyped DEF WarmingInv
    <2>2. /\ \A s \in Full(mailbox[l]) : mailbox[l].slots[s].generation <= generation[l]
          /\ executing[l] # NoCommand =>
                /\ executing[l].generation <= generation[l]
                /\ \A s \in Full(mailbox[l]) :
                      executing[l].generation < mailbox[l].slots[s].generation
        BY DEF WarmingInv, GenerationsGrow
    <2>3. CASE l # LaneOf[k]
        BY <1>1, <2>2, <2>3
    <2>4. CASE l = LaneOf[k]
        <3>1. generation'[l] = generation[l] + 1 /\ pushing'.generation = generation[l] + 1
            BY <1>1, <2>4 DEF Stamp
        <3> QED
            BY <2>1, <2>2, <3>1
    <2> QED
        BY <2>3, <2>4
<1> QED
    BY <1>1, <1>2, <1>3 DEF GenerationsGrow

(* push replaces what waits by the newest prefetch. *)
LEMMA DeliverKeepsWarming ==
    ASSUME WarmingInv, Deliver
    PROVE  ReadsOnly' /\ GenerationsGrow'
<1> DEFINE to == LaneOf[pushing.kind]
<1>1. pushing \in Command /\ to \in Lanes /\ pushing.kind \in Kinds /\ pushing # NoCommand
    BY LanesAssumption DEF Deliver, WarmingInv, TypeInv, TypeOK, Command
<1>2. pushing' = NoCommand /\ executing' = executing /\ generation' = generation
    BY DEF Deliver, worker
<1>3. CASE mailbox' = mailbox
    BY <1>2, <1>3, LanesKeepWarming
<1>4. CASE mailbox' = [mailbox EXCEPT ![to] = Push(@, pushing)]
    <2>1. mailbox \in [Lanes -> MailboxOf(Command)]
        BY DEF WarmingInv, TypeInv, TypeOK
    <2>2. ASSUME NEW l \in QuietLanes, l # to
          PROVE  mailbox'[l] = mailbox[l]
        BY <1>4, <2>1, <2>2, LanesAssumption
    <2>3. ASSUME to \in QuietLanes
          PROVE  /\ mailbox'[to].operations = <<>>
                 /\ Full(mailbox'[to]) = {SlotOf[pushing.kind]}
                 /\ mailbox'[to].slots[SlotOf[pushing.kind]] = pushing
        <3>1. pushing.kind \notin Operations
            BY <1>1, <2>3, QuietLanesAssumption
        <3>2. SlotOf[pushing.kind] \in Slots
            BY <1>1, <3>1, LanesAssumption
        <3>3. /\ mailbox'[to] = Push(mailbox[to], pushing)
              /\ mailbox[to] \in MailboxOf(Command)
            BY <1>1, <1>4, <2>1
        <3>4. mailbox'[to].operations = mailbox[to].operations
            BY <3>1, <3>3 DEF Push, IsOperation, MailboxOf
        <3>5. mailbox'[to].slots = [mailbox[to].slots EXCEPT ![SlotOf[pushing.kind]] = pushing]
            BY <3>1, <3>3 DEF Push, IsOperation, MailboxOf
        <3>6. mailbox[to].slots \in [Slots -> Command \cup {NoCommand}]
            BY <3>3 DEF MailboxOf
        <3>7. mailbox[to].operations = <<>>
            BY <2>3 DEF WarmingInv, ReadsOnly
        <3>8. \A s \in Full(mailbox[to]) : s = SlotOf[pushing.kind]
            BY <1>1, <2>3, OneSlotIsFull
        <3>9. Full(mailbox'[to]) = {SlotOf[pushing.kind]}
            BY <1>1, <3>2, <3>5, <3>6, <3>8 DEF Full
        <3> QED
            BY <3>2, <3>4, <3>5, <3>6, <3>7, <3>9
    <2>4. ReadsOnly'
        <3>1. ASSUME NEW l \in QuietLanes
              PROVE  /\ mailbox'[l].operations = <<>>
                     /\ \A s \in Full(mailbox'[l]) :
                           /\ LaneOf[mailbox'[l].slots[s].kind] = l
                           /\ SlotOf[mailbox'[l].slots[s].kind] = s
            <4>1. CASE l = to
                BY <2>3, <4>1
            <4>2. CASE l # to
                BY <2>2, <4>2 DEF WarmingInv, ReadsOnly
            <4> QED
                BY <4>1, <4>2
        <3> QED
            BY <3>1 DEF ReadsOnly
    <2>5. GenerationsGrow'
        <3>1. ASSUME NEW l \in QuietLanes
              PROVE  /\ \A s \in Full(mailbox'[l]) :
                           mailbox'[l].slots[s].generation <= generation[l]
                     /\ executing[l] # NoCommand =>
                           /\ executing[l].generation <= generation[l]
                           /\ \A s \in Full(mailbox'[l]) :
                                 executing[l].generation < mailbox'[l].slots[s].generation
            <4>1. CASE l = to
                <5>1. /\ pushing.generation = generation[l]
                      /\ executing[l] # NoCommand =>
                            /\ executing[l].generation <= generation[l]
                            /\ executing[l].generation < pushing.generation
                    BY <1>1, <4>1 DEF WarmingInv, GenerationsGrow
                <5>2. generation[l] \in Nat
                    BY QuietLanesTyped DEF WarmingInv
                <5> QED
                    BY <2>3, <4>1, <5>1, <5>2
            <4>2. CASE l # to
                BY <2>2, <4>2 DEF WarmingInv, GenerationsGrow
            <4> QED
                BY <4>1, <4>2
        <3> QED
            BY <1>2, <3>1 DEF GenerationsGrow
    <2> QED
        BY <2>4, <2>5
<1> QED
    BY <1>3, <1>4 DEF Deliver

(* pop leaves nothing that waits in a warm-up lane. *)
LEMMA BeginReadKeepsWarming ==
    ASSUME WarmingInv, NEW l \in Lanes, NEW s \in Slots, BeginRead(l, s)
    PROVE  ReadsOnly' /\ GenerationsGrow'
<1>1. /\ PopsSlot(mailbox[l], s)
      /\ mailbox' = [mailbox EXCEPT ![l] = WithoutSlot(@, s)]
      /\ executing' = [executing EXCEPT ![l] = mailbox[l].slots[s]]
      /\ generation' = generation /\ pushing' = pushing
    BY DEF BeginRead, Execute, interface
<1>2. /\ mailbox \in [Lanes -> MailboxOf(Command)]
      /\ executing \in [Lanes -> Command \cup {NoCommand}]
    BY DEF WarmingInv, TypeInv, TypeOK
<1>3. ASSUME NEW k \in QuietLanes, k # l
      PROVE  mailbox'[k] = mailbox[k] /\ executing'[k] = executing[k]
    BY <1>1, <1>2, <1>3, LanesAssumption
<1>4. ASSUME l \in QuietLanes
      PROVE  /\ mailbox'[l].operations = <<>> /\ Full(mailbox'[l]) = {}
             /\ executing'[l] = mailbox[l].slots[s] /\ s \in Full(mailbox[l])
    <2>1. s \in Full(mailbox[l])
        BY <1>1 DEF PopsSlot
    <2>2. /\ mailbox[l].slots[s].kind \in Kinds
          /\ LaneOf[mailbox[l].slots[s].kind] = l
        BY <1>4, <2>1, QuietLanesTyped DEF WarmingInv, ReadsOnly
    <2>3. \A t \in Full(mailbox[l]) : t = s
        BY <1>4, <2>1, <2>2, OneSlotIsFull
    <2>4. mailbox'[l] = WithoutSlot(mailbox[l], s) /\ mailbox[l] \in MailboxOf(Command)
        BY <1>1, <1>2
    <2>5. /\ mailbox'[l].operations = mailbox[l].operations
          /\ mailbox'[l].slots = [mailbox[l].slots EXCEPT ![s] = NoCommand]
          /\ mailbox[l].slots \in [Slots -> Command \cup {NoCommand}]
        BY <2>4 DEF WithoutSlot, MailboxOf
    <2>6. Full(mailbox'[l]) = {}
        BY <2>3, <2>5 DEF Full
    <2>7. mailbox[l].operations = <<>>
        BY <1>4 DEF WarmingInv, ReadsOnly
    <2> QED
        BY <1>1, <1>2, <2>1, <2>5, <2>6, <2>7
<1>5. ReadsOnly'
    <2>1. ASSUME NEW k \in QuietLanes
          PROVE  /\ mailbox'[k].operations = <<>>
                 /\ \A t \in Full(mailbox'[k]) :
                       /\ LaneOf[mailbox'[k].slots[t].kind] = k
                       /\ SlotOf[mailbox'[k].slots[t].kind] = t
        BY <1>3, <1>4 DEF WarmingInv, ReadsOnly
    <2> QED
        BY <2>1 DEF ReadsOnly
<1>6. GenerationsGrow'
    <2>1. ASSUME NEW k \in QuietLanes, k = l
          PROVE  /\ Full(mailbox'[k]) = {}
                 /\ executing'[k].generation <= generation[k]
                 /\ pushing # NoCommand /\ LaneOf[pushing.kind] = k =>
                       /\ pushing.generation = generation[k]
                       /\ executing'[k].generation < pushing.generation
        BY <1>4, <2>1 DEF WarmingInv, GenerationsGrow
    <2>2. ASSUME NEW k \in QuietLanes
          PROVE  k = l \/ (mailbox'[k] = mailbox[k] /\ executing'[k] = executing[k])
        BY <1>3
    <2> QED
        BY <1>1, <2>1, <2>2 DEF WarmingInv, GenerationsGrow
<1> QED
    BY <1>5, <1>6

LEMMA NextKeepsWarming ==
    ASSUME WarmingInv, [Next]_vars
    PROVE  WarmingInv'
<1>1. TypeInv'
    BY NextKeepsTypeInv DEF WarmingInv
<1>2. /\ mailbox \in [Lanes -> MailboxOf(Command)]
      /\ executing \in [Lanes -> Command \cup {NoCommand}] /\ QuietLanes \subseteq Lanes
    BY LanesAssumption DEF WarmingInv, TypeInv, TypeOK
<1>3. CASE Interface
    <2>1. CASE \E k \in Kinds : Send(k)
        BY <1>1, <2>1, SendKeepsWarming DEF WarmingInv
    <2>2. CASE Deliver
        BY <1>1, <2>2, DeliverKeepsWarming DEF WarmingInv
    <2>3. CASE ShutLane
        <3>1. \A l \in Lanes : /\ mailbox'[l].operations = mailbox[l].operations
                               /\ mailbox'[l].slots = mailbox[l].slots
            BY <1>2, <2>3 DEF ShutLane, PushShutdown, MailboxOf
        <3>2. executing' = executing /\ generation' = generation /\ pushing' = pushing
            BY <2>3 DEF ShutLane, worker
        <3> QED
            BY <1>1, <1>2, <3>1, <3>2, LanesKeepWarming DEF WarmingInv
    <2>4. CASE Notify \/ Receive \/ Drop \/ DropReceiver
        <3>1. /\ mailbox' = mailbox /\ executing' = executing /\ generation' = generation
              /\ pushing' = pushing
            BY <2>4 DEF Notify, Receive, Drop, DropReceiver, worker, interface
        <3> QED
            BY <1>1, <3>1, LanesKeepWarming DEF WarmingInv
    <2> QED
        BY <1>3, <2>1, <2>2, <2>3, <2>4 DEF Interface
<1>4. ASSUME NEW l \in Lanes, Looking(l) \/ WakeSpuriously(l) \/ Working(l)
      PROVE  WarmingInv'
    <2>1. CASE \E s \in Slots : BeginRead(l, s)
        BY <1>1, <2>1, BeginReadKeepsWarming DEF WarmingInv
    <2>2. CASE BeginOperation(l)
        <3>1. l \notin QuietLanes
            BY <2>2 DEF BeginOperation, PopsOperation, WarmingInv, ReadsOnly
        <3>2. \A k \in QuietLanes : mailbox'[k] = mailbox[k] /\ executing'[k] = executing[k]
            BY <1>2, <2>2, <3>1 DEF BeginOperation, Execute
        <3>3. generation' = generation /\ pushing' = pushing
            BY <2>2 DEF BeginOperation, Execute, interface
        <3> QED
            BY <1>1, <3>2, <3>3, LanesKeepWarming DEF WarmingInv
    <2>3. CASE Exit(l) \/ Wait(l) \/ WakeSpuriously(l) \/ Report(l) \/ WarmOne(l)
        <3>1. /\ mailbox' = mailbox /\ executing' = executing /\ generation' = generation
              /\ pushing' = pushing
            BY <2>3 DEF Exit, Wait, WakeSpuriously, Report, WarmOne, interface
        <3> QED
            BY <1>1, <3>1, LanesKeepWarming DEF WarmingInv
    <2>4. CASE Answer(l) \/ StopWarming(l)
        <3>1. /\ mailbox' = mailbox /\ executing' = [executing EXCEPT ![l] = NoCommand]
              /\ generation' = generation /\ pushing' = pushing
            BY <2>4 DEF Answer, StopWarming, Rest, interface
        <3>2. \A k \in QuietLanes : executing'[k] \in {executing[k], NoCommand}
            BY <1>2, <3>1
        <3> QED
            BY <1>1, <3>1, <3>2, LanesKeepWarming DEF WarmingInv
    <2> QED
        BY <1>4, <2>1, <2>2, <2>3, <2>4 DEF Looking, Working
<1>5. CASE UNCHANGED vars
    BY <1>1, <1>5, LanesKeepWarming DEF vars, worker, interface, WarmingInv
<1> QED
    BY <1>3, <1>4, <1>5 DEF Next

(* A warm-up thread begins a unit only for the newest generation, and nothing *)
(* that waits has it.                                                         *)
LEMMA UnitsAreWanted ==
    ASSUME WarmingInv, Next, NEW l \in QuietLanes,
           executing[l] # NoCommand, executing'[l] = executing[l], steps'[l] < steps[l]
    PROVE  Waiting(mailbox[l]) = {}
<1>1. /\ l \in Lanes /\ steps \in [Lanes -> Nat]
      /\ executing \in [Lanes -> Command \cup {NoCommand}]
      /\ thread[l] = "executing"
    BY LanesAssumption DEF WarmingInv, TypeInv, TypeOK, Employed
<1>2. WarmOne(l)
    <2>1. steps'[l] # steps[l]
        BY <1>1
    <2>2. steps' # steps
        BY <2>1
    <2>3. PICK k \in Lanes : Looking(k) \/ Working(k)
        BY <2>2 DEF Next, Interface, Send, Deliver, Notify, Receive, Drop, ShutLane,
                    DropReceiver, WakeSpuriously, worker
    <2>4. k = l
        BY <1>1, <2>1, <2>3 DEF Looking, Exit, BeginOperation, BeginRead, Execute, Wait,
           Working, Report, Answer, WarmOne, StopWarming, Rest
    <2>5. ~ Looking(l)
        BY <1>1 DEF Looking, Exit, BeginOperation, BeginRead, Wait, Looks
    <2>6. ~ Report(l) /\ ~ Answer(l) /\ ~ StopWarming(l)
        BY <1>1 DEF Report, Answer, StopWarming, Rest
    <2> QED
        BY <2>3, <2>4, <2>5, <2>6 DEF Working
<1>3. executing[l].generation = generation[l]
    BY <1>2 DEF WarmOne, Wanted
<1>4. /\ generation[l] \in Nat
      /\ \A s \in Full(mailbox[l]) : mailbox[l].slots[s].generation \in Nat
    BY QuietLanesTyped DEF WarmingInv
<1>5. Full(mailbox[l]) = {}
    BY <1>3, <1>4 DEF WarmingInv, GenerationsGrow
<1>6. mailbox[l].operations = <<>>
    BY DEF WarmingInv, ReadsOnly
<1> QED
    BY <1>5, <1>6, EmptySeq DEF Waiting

(* Once a newer prefetch waits, no further unit of the old one is begun,      *)
(* although a generation is raised before its command is pushed.              *)
THEOREM SupersededPrefetchesStop == Safe => NoUnitForASupersededPrefetch
<1>1. Init => WarmingInv
    <2> SUFFICES ASSUME Init PROVE WarmingInv
        OBVIOUS
    <2>1. \A l \in QuietLanes : /\ mailbox[l].operations = <<>> /\ Full(mailbox[l]) = {}
                                /\ executing[l] = NoCommand
        BY LanesAssumption DEF Init, NewMailbox, Full
    <2> QED
        BY <2>1, TypeInvInitially DEF WarmingInv, ReadsOnly, GenerationsGrow, Init
<1>2. WarmingInv /\ [Next]_vars => WarmingInv'
    BY NextKeepsWarming
<1>3. WarmingInv /\ [Next]_vars =>
          [\A l \in QuietLanes :
              executing[l] # NoCommand /\ executing'[l] = executing[l] /\ steps'[l] < steps[l]
              => Waiting(mailbox[l]) = {}]_vars
    BY UnitsAreWanted
<1> QED
    BY <1>1, <1>2, <1>3, PTL DEF Safe, NoUnitForASupersededPrefetch
-----------------------------------------------------------------------------
(***************************************************************************)
(* The threads and mailboxes of WorkerLanes implement the safety part of   *)
(* WorkerPromise: every step of a GitWorker is a step of the promise or    *)
(* leaves it unchanged.                                                    *)
(***************************************************************************)

(* A mailbox holds commands of its own lane, each in its place, and its      *)
(* operations in the order they were sent.                                   *)
Tidy(l, m) ==
    /\ \A i \in DOMAIN m.operations :
          IsOperation(m.operations[i]) /\ LaneOf[m.operations[i].kind] = l
    /\ \A i, j \in DOMAIN m.operations :
          i < j => m.operations[i].id < m.operations[j].id
    /\ \A s \in Full(m) :
          /\ ~ IsOperation(m.slots[s])
          /\ SlotOf[m.slots[s].kind] = s
          /\ LaneOf[m.slots[s].kind] = l

(* The command being pushed is the last one sent, and nothing that waits is   *)
(* as new.                                                                    *)
PushedLast ==
    /\ pushing # NoCommand => open /\ pushing.id = sent /\ sent > 0
    /\ \A l \in Lanes : \A c \in Waiting(mailbox[l]) :
          c.id <= sent /\ (pushing # NoCommand => c.id < sent)

(* Lanes are shut down by dropping, all of them before the channel goes.      *)
DropsInOrder ==
    /\ \A l \in Lanes : mailbox[l].shutdown => ~ open
    /\ \A l \in Lanes : mailbox[l].shutdown \/ \E i \in DOMAIN dropping : dropping[i] = l
    /\ ~ receiver => dropping = <<>>

PromiseInv ==
    /\ TypeInv
    /\ OneAtATime
    /\ \A l \in Lanes : Tidy(l, mailbox[l])
    /\ PushedLast
    /\ DropsInOrder
-----------------------------------------------------------------------------
(* What the mailbox operators do to the commands that wait. *)

LEMMA CommandIds == \A c \in Command : c.id \in Nat
BY LanesAssumption DEF Command

LEMMA NewMailboxWaiting ==
    ASSUME NEW l
    PROVE  Waiting(NewMailbox) = {} /\ Tidy(l, NewMailbox)
BY DEF Waiting, NewMailbox, Full, Tidy

(* A pushed operation waits behind the others. *)
LEMMA PushOperationWaiting ==
    ASSUME NEW m \in MailboxOf(Command), NEW c \in Command, IsOperation(c)
    PROVE  Waiting(Push(m, c)) = Waiting(m) \cup {c}
<1> DEFINE q == m.operations
<1>1. q \in Seq(Command) /\ Len(q) \in Nat
    BY DEF MailboxOf
<1>2. /\ Push(m, c).operations = Append(q, c)
      /\ Push(m, c).slots = m.slots
    BY DEF Push, MailboxOf
<1>3. /\ Len(Append(q, c)) = Len(q) + 1
      /\ \A i \in 1 .. Len(q) : Append(q, c)[i] = q[i]
      /\ Append(q, c)[Len(q) + 1] = c
      /\ DOMAIN q = 1 .. Len(q)
      /\ DOMAIN Append(q, c) = 1 .. Len(q) + 1
    BY <1>1
<1> HIDE DEF q
<1>4. {Append(q, c)[i] : i \in DOMAIN Append(q, c)} = {q[i] : i \in DOMAIN q} \cup {c}
    BY <1>1, <1>3
<1>5. QED
    BY <1>2, <1>4 DEF Waiting, Full, q

(* A pushed read takes the place of the read that was in its slot. *)
LEMMA PushReadWaiting ==
    ASSUME NEW l \in Lanes, NEW m \in MailboxOf(Command), Tidy(l, m),
           NEW c \in Command, ~ IsOperation(c), LaneOf[c.kind] = l
    PROVE  Waiting(Push(m, c)) = {d \in Waiting(m) : ~ Promise!Obsoletes(c, d)} \cup {c}
<1> DEFINE t == SlotOf[c.kind]
           n == Push(m, c)
<1>1. t \in Slots /\ c # NoCommand
    BY LanesAssumption DEF IsOperation, Command
<1>2. /\ n.operations = m.operations
      /\ n.slots = [m.slots EXCEPT ![t] = c]
      /\ m.slots \in [Slots -> Command \cup {NoCommand}]
    BY DEF Push, MailboxOf
<1>3. \A s \in Slots : n.slots[s] = IF s = t THEN c ELSE m.slots[s]
    BY <1>1, <1>2
<1>4. \A i \in DOMAIN m.operations : ~ Promise!Obsoletes(c, m.operations[i])
    BY DEF Tidy, IsOperation, Promise!Obsoletes, Promise!Changes
<1>5. \A s \in Full(m) : Promise!Obsoletes(c, m.slots[s]) <=> s = t
    BY DEF Tidy, IsOperation, Promise!Obsoletes, Promise!Changes
<1>6. Full(n) = Full(m) \cup {t}
    BY <1>1, <1>3 DEF Full
<1> HIDE DEF t, n
<1>7. {n.slots[s] : s \in Full(n)} = {m.slots[s] : s \in Full(m) \ {t}} \cup {c}
    BY <1>1, <1>3, <1>6 DEF Full
<1>8. QED
    BY <1>2, <1>4, <1>5, <1>7 DEF Waiting, n

LEMMA PushShutdownWaiting ==
    ASSUME NEW l, NEW m \in MailboxOf(Command), Tidy(l, m)
    PROVE  Waiting(PushShutdown(m)) = Waiting(m) /\ Tidy(l, PushShutdown(m))
<1>1. PushShutdown(m).operations = m.operations /\ PushShutdown(m).slots = m.slots
    BY DEF PushShutdown, MailboxOf
<1>2. QED
    BY <1>1 DEF Waiting, Full, Tidy

(* A mailbox stays tidy when a newer command of its lane is pushed. *)
LEMMA PushTidy ==
    ASSUME NEW l \in Lanes, NEW m \in MailboxOf(Command), Tidy(l, m),
           NEW c \in Command, LaneOf[c.kind] = l,
           \A d \in Waiting(m) : d.id < c.id
    PROVE  Tidy(l, Push(m, c))
<1>1. CASE IsOperation(c)
    <2> DEFINE q == m.operations
    <2>1. q \in Seq(Command) /\ Len(q) \in Nat
        BY DEF MailboxOf
    <2>2. /\ Push(m, c).operations = Append(q, c)
          /\ Push(m, c).slots = m.slots
        BY <1>1 DEF Push, MailboxOf
    <2>3. /\ \A i \in 1 .. Len(q) : Append(q, c)[i] = q[i]
          /\ Append(q, c)[Len(q) + 1] = c
          /\ DOMAIN q = 1 .. Len(q)
          /\ DOMAIN Append(q, c) = 1 .. Len(q) + 1
        BY <2>1
    <2>4. /\ \A i \in DOMAIN q : IsOperation(q[i]) /\ LaneOf[q[i].kind] = l
          /\ \A i, j \in DOMAIN q : i < j => q[i].id < q[j].id
          /\ \A i \in DOMAIN q : q[i].id < c.id
        BY DEF Tidy, Waiting
    <2> HIDE DEF q
    <2>5. /\ \A i \in DOMAIN Append(q, c) :
                IsOperation(Append(q, c)[i]) /\ LaneOf[Append(q, c)[i].kind] = l
          /\ \A i, j \in DOMAIN Append(q, c) :
                i < j => Append(q, c)[i].id < Append(q, c)[j].id
        BY <1>1, <2>1, <2>3, <2>4
    <2>6. QED
        BY <2>2, <2>5 DEF Tidy, Full
<1>2. CASE ~ IsOperation(c)
    <2> DEFINE t == SlotOf[c.kind]
    <2>1. /\ Push(m, c).operations = m.operations
          /\ \A s \in Slots : Push(m, c).slots[s] = IF s = t THEN c ELSE m.slots[s]
        BY <1>2 DEF Push, MailboxOf
    <2>2. QED
        BY <1>2, <2>1 DEF Tidy, Full
<1>3. QED
    BY <1>1, <1>2

(* The head of the queue is the oldest operation that waits. *)
LEMMA PopOperationWaiting ==
    ASSUME NEW l \in Lanes, NEW m \in MailboxOf(Command), Tidy(l, m), PopsOperation(m)
    PROVE  LET c == Head(m.operations) IN
           /\ c \in Waiting(m) /\ IsOperation(c) /\ LaneOf[c.kind] = l
           /\ \A d \in Waiting(m) : IsOperation(d) => c.id <= d.id
           /\ Waiting(WithoutHead(m)) = Waiting(m) \ {c}
           /\ Tidy(l, WithoutHead(m))
<1> DEFINE q == m.operations
           r == Tail(q)
           c == Head(q)
<1>1. /\ q \in Seq(Command) /\ q # <<>> /\ Len(q) \in Nat \ {0}
      /\ DOMAIN q = 1 .. Len(q) /\ c = q[1] /\ c \in Command
    BY DEF MailboxOf, PopsOperation
<1>2. /\ DOMAIN r = 1 .. Len(q) - 1
      /\ \A i \in 1 .. Len(q) - 1 : r[i] = q[i + 1]
    BY <1>1, HeadTailProperties
<1>3. /\ WithoutHead(m).operations = r
      /\ WithoutHead(m).slots = m.slots
    BY DEF WithoutHead, MailboxOf
<1>4. /\ \A i \in DOMAIN q : IsOperation(q[i]) /\ LaneOf[q[i].kind] = l /\ q[i] \in Command
      /\ \A i, j \in DOMAIN q : i < j => q[i].id < q[j].id
      /\ \A s \in Full(m) : ~ IsOperation(m.slots[s])
    BY <1>1 DEF Tidy
<1> HIDE DEF q, r, c
<1>5. \A i \in DOMAIN q : i = 1 \/ c.id < q[i].id
    BY <1>1, <1>4
<1>6. {r[i] : i \in DOMAIN r} = {q[i] : i \in DOMAIN q} \ {c}
    <2>1. ASSUME NEW i \in DOMAIN r PROVE r[i] \in {q[j] : j \in DOMAIN q} \ {c}
        <3>1. i + 1 \in DOMAIN q /\ i + 1 # 1 /\ r[i] = q[i + 1]
            BY <1>1, <1>2, <2>1
        <3>2. c.id \in Nat
            BY <1>1, CommandIds
        <3>3. QED
            BY <1>5, <3>1, <3>2
    <2>2. ASSUME NEW j \in DOMAIN q, q[j] # c PROVE q[j] \in {r[i] : i \in DOMAIN r}
        <3>1. j - 1 \in DOMAIN r /\ r[j - 1] = q[j]
            BY <1>1, <1>2, <2>2
        <3>2. QED
            BY <3>1
    <2>3. QED
        BY <2>1, <2>2
<1>7. \A s \in Full(m) : m.slots[s] # c
    BY <1>1, <1>4
<1>8. Waiting(WithoutHead(m)) = Waiting(m) \ {c}
    BY <1>3, <1>6, <1>7 DEF Waiting, Full, q
<1>9. Tidy(l, WithoutHead(m))
    <2>1. \A i \in DOMAIN r : IsOperation(r[i]) /\ LaneOf[r[i].kind] = l
        BY <1>1, <1>2, <1>4
    <2>2. ASSUME NEW i \in DOMAIN r, NEW j \in DOMAIN r, i < j
          PROVE  r[i].id < r[j].id
        <3>1. /\ i + 1 \in DOMAIN q /\ j + 1 \in DOMAIN q /\ i + 1 < j + 1
              /\ r[i] = q[i + 1] /\ r[j] = q[j + 1]
            BY <1>1, <1>2, <2>2
        <3>2. QED
            BY <1>4, <3>1
    <2>3. QED
        BY <1>3, <2>1, <2>2 DEF Tidy, Full
<1>10. c \in Waiting(m) /\ IsOperation(c) /\ LaneOf[c.kind] = l
    BY <1>1, <1>4 DEF Waiting, q
<1>11. \A d \in Waiting(m) : IsOperation(d) => c.id <= d.id
    <2>1. c.id \in Nat
        BY <1>1, CommandIds
    <2>2. \A i \in DOMAIN q : c.id <= q[i].id
        BY <1>1, <1>4, <1>5, <2>1, CommandIds
    <2>3. QED
        BY <1>4, <2>2 DEF Waiting, q
<1>12. QED
    BY <1>8, <1>9, <1>10, <1>11 DEF c, q

(* A slot is popped only when no operation waits, and holds its read alone. *)
LEMMA PopSlotWaiting ==
    ASSUME NEW l \in Lanes, NEW m \in MailboxOf(Command), Tidy(l, m),
           NEW s \in Slots, PopsSlot(m, s)
    PROVE  LET c == m.slots[s] IN
           /\ c \in Waiting(m) /\ LaneOf[c.kind] = l
           /\ \A d \in Waiting(m) : ~ IsOperation(d)
           /\ Waiting(WithoutSlot(m, s)) = Waiting(m) \ {c}
           /\ Tidy(l, WithoutSlot(m, s))
<1> DEFINE n == WithoutSlot(m, s)
<1>1. m.operations = <<>> /\ s \in Full(m) /\ m.operations \in Seq(Command)
    BY DEF PopsSlot, MailboxOf
<1>2. /\ n.operations = <<>>
      /\ \A t \in Slots : n.slots[t] = IF t = s THEN NoCommand ELSE m.slots[t]
    BY <1>1 DEF WithoutSlot, MailboxOf
<1> HIDE DEF n
<1>3. Full(n) = Full(m) \ {s}
    BY <1>1, <1>2 DEF Full
<1>4. \A t \in Full(m) : t # s => m.slots[t] # m.slots[s]
    BY <1>1 DEF Tidy
<1>5. \A t \in Full(n) : n.slots[t] = m.slots[t]
    BY <1>2, <1>3 DEF Full
<1>6. Waiting(n) = Waiting(m) \ {m.slots[s]}
    <2>1. Waiting(m) = {m.slots[t] : t \in Full(m)}
        BY <1>1 DEF Waiting
    <2>2. Waiting(n) = {m.slots[t] : t \in Full(m) \ {s}}
        BY <1>2, <1>3, <1>5 DEF Waiting
    <2>3. QED
        BY <1>4, <2>1, <2>2
<1>7. Tidy(l, n)
    BY <1>2, <1>3, <1>5 DEF Tidy
<1>8. QED
    BY <1>1, <1>6, <1>7 DEF Waiting, Tidy, n
-----------------------------------------------------------------------------
(* The invariant, and the step of the promise each action is. *)

LEMMA PromiseInvInitially == Init => PromiseInv
<1> SUFFICES ASSUME Init PROVE PromiseInv
    OBVIOUS
<1>1. TypeInv
    BY TypeInvInitially
<1>2. \A l \in Lanes : Tidy(l, mailbox[l]) /\ Waiting(mailbox[l]) = {}
    BY NewMailboxWaiting DEF Init
<1>3. PushedLast
    BY <1>2 DEF Init, PushedLast
<1>4. DropsInOrder
    BY LanesAssumption DEF Init, DropsInOrder, NewMailbox
<1>5. QED
    BY <1>1, <1>2, <1>3, <1>4 DEF Init, PromiseInv, OneAtATime

(* What waits on a lane belongs to it. *)
LEMMA WaitingLane ==
    ASSUME PromiseInv, NEW l \in Lanes, NEW c \in Waiting(mailbox[l])
    PROVE  LaneOf[c.kind] = l /\ c \in Command
<1>1. Tidy(l, mailbox[l]) /\ mailbox[l] \in MailboxOf(Command)
    BY DEF PromiseInv, TypeInv, TypeOK
<1>2. mailbox[l].operations \in Seq(Command)
    BY <1>1 DEF MailboxOf
<1>3. \A i \in DOMAIN mailbox[l].operations : mailbox[l].operations[i] \in Command
    BY <1>2
<1>4. \A s \in Full(mailbox[l]) : mailbox[l].slots[s] \in Command
    BY <1>1 DEF MailboxOf, Full
<1>5. QED
    BY <1>1, <1>3, <1>4 DEF Waiting, Tidy

(* When one mailbox changes, the pending commands change on its lane only. *)
LEMMA PendingElsewhere ==
    ASSUME PromiseInv, NEW l \in Lanes, NEW n, mailbox' = [mailbox EXCEPT ![l] = n]
    PROVE  /\ \A d : d \in Pending /\ LaneOf[d.kind] = l <=> d \in Waiting(mailbox[l])
           /\ Pending' = {d \in Pending : LaneOf[d.kind] # l} \cup Waiting(n)
           /\ mailbox'[l] = n
           /\ \A k \in Lanes : k # l => mailbox'[k] = mailbox[k]
<1>1. /\ mailbox'[l] = n
      /\ \A k \in Lanes : k # l => mailbox'[k] = mailbox[k]
    BY DEF PromiseInv, TypeInv, TypeOK
<1>2. \A d : d \in Pending /\ LaneOf[d.kind] = l <=> d \in Waiting(mailbox[l])
    BY WaitingLane DEF Pending
<1>3. Pending' = {d \in Pending : LaneOf[d.kind] # l} \cup Waiting(n)
    <2>1. ASSUME NEW d \in Pending'
          PROVE  d \in Waiting(n) \/ (d \in Pending /\ LaneOf[d.kind] # l)
        <3>1. PICK k \in Lanes : d \in Waiting(mailbox'[k])
            BY DEF Pending
        <3>2. QED
            BY <1>1, <3>1, WaitingLane DEF Pending
    <2>2. ASSUME NEW d \in Waiting(n) PROVE d \in Pending'
        BY <1>1, <2>2 DEF Pending
    <2>3. ASSUME NEW d \in Pending, LaneOf[d.kind] # l PROVE d \in Pending'
        <3>1. PICK k \in Lanes : d \in Waiting(mailbox[k])
            BY DEF Pending
        <3>2. k # l
            BY <2>3, <3>1, WaitingLane
        <3>3. QED
            BY <1>1, <3>1, <3>2 DEF Pending
    <2>4. QED
        BY <2>1, <2>2, <2>3
<1>4. QED
    BY <1>1, <1>2, <1>3

(* send: stamping a command promises nothing yet; pushing it is Accept. *)
LEMMA SendStep ==
    ASSUME PromiseInv, NEW k \in Kinds, Send(k)
    PROVE  PushedLast' /\ DropsInOrder' /\ (\A l \in Lanes : Tidy(l, mailbox[l])')
           /\ UNCHANGED Promise!vars
<1>1. /\ sent \in Nat /\ pushing = NoCommand /\ sent' = sent + 1 /\ open' /\ open
      /\ pushing' # NoCommand /\ pushing'.id = sent + 1
      /\ mailbox' = mailbox
    <2>1. pushing' \in Command
        BY SendKeepsTypeInv DEF PromiseInv
    <2>2. QED
        BY <2>1, LanesAssumption DEF PromiseInv, Send, Idle, TypeInv, TypeOK
<1>2. PushedLast'
    <2>1. ASSUME NEW l \in Lanes, NEW c \in Waiting(mailbox[l]) PROVE c.id \in Nat /\ c.id <= sent
        BY <2>1, WaitingLane, CommandIds DEF PromiseInv, PushedLast
    <2>2. QED
        BY <1>1, <2>1 DEF PushedLast
<1>3. QED
    BY <1>1, <1>2 DEF PromiseInv, DropsInOrder, Send, Promise!vars, Accepted, Pending, Closed,
                      worker

LEMMA DeliverStep ==
    ASSUME PromiseInv, Deliver
    PROVE  PushedLast' /\ DropsInOrder' /\ (\A l \in Lanes : Tidy(l, mailbox[l])')
           /\ Promise!Accept(pushing)
<1> DEFINE l == LaneOf[pushing.kind]
           n == Push(mailbox[l], pushing)
<1>1. pushing \in Command /\ pushing # NoCommand /\ l \in Lanes
    BY LanesAssumption DEF Deliver, PromiseInv, TypeInv, TypeOK, Command
<1>2. ~ mailbox[l].shutdown
    BY <1>1 DEF PromiseInv, PushedLast, DropsInOrder
<1>3. /\ mailbox' = [mailbox EXCEPT ![l] = n]
      /\ pushing' = NoCommand
      /\ sent' = sent /\ open' = open /\ dropping' = dropping /\ receiver' = receiver
      /\ executing' = executing /\ events' = events
    BY <1>1, <1>2 DEF Deliver, worker
<1>4. mailbox[l] \in MailboxOf(Command) /\ Tidy(l, mailbox[l])
    BY <1>1 DEF PromiseInv, TypeInv, TypeOK
<1>5. \A d \in Waiting(mailbox[l]) : d.id < pushing.id
    BY <1>1 DEF PromiseInv, PushedLast
<1>6. Tidy(l, n)
    BY <1>1, <1>4, <1>5, PushTidy
<1>7. n.shutdown = mailbox[l].shutdown
    BY <1>4 DEF Push, MailboxOf
<1>8. Waiting(n) = {d \in Waiting(mailbox[l]) : ~ Promise!Obsoletes(pushing, d)} \cup {pushing}
    <2>1. CASE IsOperation(pushing)
        BY <1>1, <1>4, <2>1, PushOperationWaiting
           DEF Promise!Obsoletes, Promise!Changes, IsOperation
    <2>2. CASE ~ IsOperation(pushing)
        BY <1>1, <1>4, <2>2, PushReadWaiting
    <2>3. QED
        BY <2>1, <2>2
<1> HIDE DEF n
<1>9. /\ \A d : d \in Pending /\ LaneOf[d.kind] = l <=> d \in Waiting(mailbox[l])
      /\ Pending' = {d \in Pending : LaneOf[d.kind] # l} \cup Waiting(n)
      /\ mailbox'[l] = n
      /\ \A k \in Lanes : k # l => mailbox'[k] = mailbox[k]
    BY <1>1, <1>3, PendingElsewhere
<1>10. Pending' = {d \in Pending : ~ Promise!Obsoletes(pushing, d)} \cup {pushing}
    BY <1>8, <1>9 DEF Promise!Obsoletes
<1>11. \A k \in Lanes : Tidy(k, mailbox[k])'
    BY <1>1, <1>6, <1>9 DEF PromiseInv
<1>12. PushedLast'
    <2>1. pushing.id = sent /\ sent \in Nat
        BY <1>1 DEF PromiseInv, PushedLast, TypeInv, TypeOK
    <2>2. \A k \in Lanes : \A c \in Waiting(mailbox'[k]) :
              c = pushing \/ c \in Waiting(mailbox[k])
        BY <1>8, <1>9
    <2>3. QED
        BY <1>3, <2>1, <2>2 DEF PromiseInv, PushedLast
<1>13. DropsInOrder'
    BY <1>1, <1>3, <1>7, <1>9 DEF PromiseInv, DropsInOrder
<1>14. Closed' = Closed
    BY <1>1, <1>7, <1>9 DEF Closed
<1>15. Accepted' = pushing.id /\ pushing.id = Accepted + 1
    BY <1>1, <1>3 DEF Accepted, PromiseInv, PushedLast, TypeInv, TypeOK
<1>16. QED
    BY <1>2, <1>3, <1>10, <1>11, <1>12, <1>13, <1>14, <1>15 DEF Promise!Accept, Closed

(* Shutting a lane down is Close. *)
LEMMA ShutLaneStep ==
    ASSUME PromiseInv, ShutLane
    PROVE  PushedLast' /\ DropsInOrder' /\ (\A l \in Lanes : Tidy(l, mailbox[l])')
           /\ \E l \in Lanes : Promise!Close(l)
<1> DEFINE l == Head(dropping)
           n == PushShutdown(mailbox[l])
<1>1. /\ l \in Lanes /\ l = dropping[1]
      /\ dropping \in Seq(Lanes) /\ Len(dropping) \in Nat \ {0}
      /\ DOMAIN dropping = 1 .. Len(dropping)
      /\ DOMAIN dropping' = 1 .. Len(dropping) - 1
      /\ \A i \in 1 .. Len(dropping) - 1 : dropping'[i] = dropping[i + 1]
    BY HeadTailProperties DEF ShutLane, PromiseInv, TypeInv, TypeOK
<1>2. /\ mailbox' = [mailbox EXCEPT ![l] = n]
      /\ pushing' = NoCommand /\ pushing = NoCommand
      /\ sent' = sent /\ ~ open' /\ ~ open /\ receiver' = receiver /\ receiver
      /\ executing' = executing /\ events' = events
    <2>1. receiver
        BY DEF ShutLane, PromiseInv, DropsInOrder, TypeInv, TypeOK
    <2>2. QED
        BY <2>1 DEF ShutLane, Idle, worker
<1>3. Waiting(n) = Waiting(mailbox[l]) /\ Tidy(l, n) /\ n.shutdown
    <2>1. mailbox[l] \in MailboxOf(Command) /\ Tidy(l, mailbox[l])
        BY <1>1 DEF PromiseInv, TypeInv, TypeOK
    <2>2. QED
        BY <2>1, PushShutdownWaiting DEF PushShutdown, MailboxOf
<1> HIDE DEF l, n
<1>4. /\ \A d : d \in Pending /\ LaneOf[d.kind] = l <=> d \in Waiting(mailbox[l])
      /\ Pending' = {d \in Pending : LaneOf[d.kind] # l} \cup Waiting(n)
      /\ mailbox'[l] = n
      /\ \A k \in Lanes : k # l => mailbox'[k] = mailbox[k]
    BY <1>1, <1>2, PendingElsewhere
<1>5. \A k \in Lanes : Tidy(k, mailbox[k])'
    BY <1>3, <1>4 DEF PromiseInv
<1>6. \A k \in Lanes : Waiting(mailbox'[k]) = Waiting(mailbox[k])
    BY <1>3, <1>4
<1>7. Pending' = Pending
    BY <1>6 DEF Pending
<1>8. Closed' = Closed \cup {l}
    BY <1>1, <1>3, <1>4 DEF Closed
<1>9. PushedLast'
    BY <1>2, <1>6 DEF PromiseInv, PushedLast
<1>10. DropsInOrder'
    <2>1. ASSUME NEW k \in Lanes
          PROVE  mailbox'[k].shutdown \/ \E i \in DOMAIN dropping' : dropping'[i] = k
        <3>1. CASE k = l
            BY <1>3, <1>4, <3>1
        <3>2. CASE k # l /\ ~ mailbox[k].shutdown
            <4>1. PICK i \in DOMAIN dropping : dropping[i] = k
                BY <3>2 DEF PromiseInv, DropsInOrder
            <4>2. i - 1 \in DOMAIN dropping' /\ dropping'[i - 1] = dropping[i]
                BY <1>1, <3>2, <4>1
            <4>3. QED
                BY <4>1, <4>2
        <3>3. QED
            BY <1>4, <3>1, <3>2
    <2>2. QED
        BY <1>2, <2>1 DEF DropsInOrder
<1>11. QED
    BY <1>1, <1>2, <1>5, <1>7, <1>8, <1>9, <1>10 DEF Promise!Close, Accepted

(* Taking a command out of a mailbox is Begin. *)
LEMMA BeginStep ==
    ASSUME PromiseInv, NEW l \in Lanes, BeginOperation(l) \/ \E s \in Slots : BeginRead(l, s)
    PROVE  PushedLast' /\ DropsInOrder' /\ (\A k \in Lanes : Tidy(k, mailbox[k])')
           /\ Promise!Begin(l)
<1>1. mailbox[l] \in MailboxOf(Command) /\ Tidy(l, mailbox[l])
    BY DEF PromiseInv, TypeInv, TypeOK
<1>2. PICK c, n :
          /\ mailbox' = [mailbox EXCEPT ![l] = n]
          /\ Execute(l, c)
          /\ c \in Waiting(mailbox[l])
          /\ LaneOf[c.kind] = l
          /\ \A d \in Waiting(mailbox[l]) : IsOperation(d) => IsOperation(c) /\ c.id <= d.id
          /\ Waiting(n) = Waiting(mailbox[l]) \ {c}
          /\ Tidy(l, n)
          /\ n.shutdown = mailbox[l].shutdown
    <2>1. CASE BeginOperation(l)
        <3>1. WithoutHead(mailbox[l]).shutdown = mailbox[l].shutdown
            BY <1>1 DEF WithoutHead, MailboxOf
        <3>2. QED
            BY <1>1, <2>1, <3>1, PopOperationWaiting DEF BeginOperation
    <2>2. ASSUME NEW s \in Slots, BeginRead(l, s)
          PROVE  /\ mailbox' = [mailbox EXCEPT ![l] = WithoutSlot(mailbox[l], s)]
                 /\ Execute(l, mailbox[l].slots[s])
                 /\ mailbox[l].slots[s] \in Waiting(mailbox[l])
                 /\ LaneOf[mailbox[l].slots[s].kind] = l
                 /\ \A d \in Waiting(mailbox[l]) : ~ IsOperation(d)
                 /\ Waiting(WithoutSlot(mailbox[l], s))
                       = Waiting(mailbox[l]) \ {mailbox[l].slots[s]}
                 /\ Tidy(l, WithoutSlot(mailbox[l], s))
                 /\ WithoutSlot(mailbox[l], s).shutdown = mailbox[l].shutdown
        <3>1. WithoutSlot(mailbox[l], s).shutdown = mailbox[l].shutdown
            BY <1>1 DEF WithoutSlot, MailboxOf
        <3>2. QED
            BY <1>1, <2>2, <3>1, PopSlotWaiting DEF BeginRead
    <2>3. QED
        BY <2>1, <2>2
<1>3. /\ ~ mailbox[l].shutdown
      /\ executing[l] = NoCommand
    BY DEF PromiseInv, TypeInv, Employed, BeginOperation, BeginRead, Looks
<1>4. /\ executing' = [executing EXCEPT ![l] = c]
      /\ UNCHANGED <<events, sent, pushing, dropping, open, receiver>>
    BY <1>2 DEF Execute, interface
<1>5. /\ \A d : d \in Pending /\ LaneOf[d.kind] = l <=> d \in Waiting(mailbox[l])
      /\ Pending' = {d \in Pending : LaneOf[d.kind] # l} \cup Waiting(n)
      /\ mailbox'[l] = n
      /\ \A k \in Lanes : k # l => mailbox'[k] = mailbox[k]
    BY <1>2, PendingElsewhere
<1>6. c \in Pending /\ Pending' = Pending \ {c}
    BY <1>2, <1>5
<1>7. Promise!MayBegin(l, c)
    BY <1>2, <1>5 DEF Promise!MayBegin, Promise!Changes, IsOperation
<1>8. Closed' = Closed /\ l \notin Closed
    BY <1>2, <1>3, <1>5 DEF Closed
<1>9. Accepted' = Accepted
    BY <1>4 DEF Accepted
<1>10. \A k \in Lanes : Tidy(k, mailbox[k])'
    BY <1>2, <1>5 DEF PromiseInv
<1>11. \A k \in Lanes : Waiting(mailbox'[k]) \subseteq Waiting(mailbox[k])
    BY <1>2, <1>5
<1>12. PushedLast'
    BY <1>4, <1>11 DEF PromiseInv, PushedLast
<1>13. DropsInOrder'
    BY <1>2, <1>4, <1>5 DEF PromiseInv, DropsInOrder
<1>14. QED
    BY <1>3, <1>4, <1>6, <1>7, <1>8, <1>9, <1>10, <1>12, <1>13 DEF Promise!Begin

(* Dropping and receiving, and everything a thread does without its mailbox.  *)
LEMMA OtherStep ==
    ASSUME PromiseInv,
           \/ Notify \/ Receive \/ Drop \/ DropReceiver
           \/ \E l \in Lanes : Exit(l) \/ Wait(l) \/ WakeSpuriously(l) \/ Working(l)
    PROVE  PushedLast' /\ DropsInOrder' /\ (\A l \in Lanes : Tidy(l, mailbox[l])')
<1>1. /\ mailbox' = mailbox /\ sent' = sent /\ pushing' = pushing /\ dropping' = dropping
      /\ open' => open
      /\ open' = open \/ pushing = NoCommand
      /\ receiver' = receiver \/ dropping = <<>>
    <2>1. CASE Drop
        BY <2>1 DEF Drop, Idle
    <2>2. CASE DropReceiver
        BY <2>2 DEF DropReceiver
    <2>3. CASE Notify \/ Receive
                \/ \E l \in Lanes : Exit(l) \/ Wait(l) \/ WakeSpuriously(l) \/ Working(l)
        <3>1. UNCHANGED <<mailbox, sent, pushing, dropping, open, receiver>>
            BY <2>3 DEF Notify, Receive, Exit, Wait, WakeSpuriously, Working,
                   Report, Answer, WarmOne, StopWarming, interface
        <3>2. QED
            BY <3>1
    <2>4. QED
        BY <2>1, <2>2, <2>3
<1>2. (\A l \in Lanes : Tidy(l, mailbox[l])')
    BY <1>1 DEF PromiseInv
<1>3. PushedLast'
    BY <1>1 DEF PromiseInv, PushedLast
<1>4. DropsInOrder'
    BY <1>1 DEF PromiseInv, DropsInOrder
<1>5. QED
    BY <1>2, <1>3, <1>4

(* Steps the promise does not see. *)
LEMMA HiddenStep ==
    ASSUME \/ Notify \/ Drop
           \/ \E l \in Lanes : Exit(l) \/ Wait(l) \/ WakeSpuriously(l) \/ WarmOne(l)
    PROVE  UNCHANGED Promise!vars
<1>1. UNCHANGED <<mailbox, executing, events, sent, pushing>>
    BY DEF Notify, Drop, Exit, Wait, WakeSpuriously, WarmOne, worker, interface
<1>2. QED
    BY <1>1 DEF Promise!vars, Accepted, Pending, Closed

(* Once the channel is gone every lane is closed. *)
LEMMA ClosedAtTheEnd ==
    ASSUME PromiseInv, dropping = <<>>
    PROVE  Closed = Lanes
<1>1. \A l \in Lanes : ~ \E i \in DOMAIN dropping : dropping[i] = l
    OBVIOUS
<1>2. QED
    BY <1>1 DEF PromiseInv, DropsInOrder, Closed

(* An executing thread reports and finishes what the promise says it runs. *)
LEMMA WorkingStep ==
    ASSUME PromiseInv, NEW l \in Lanes, Working(l)
    PROVE  Promise!Report(l) \/ Promise!Finish(l) \/ UNCHANGED Promise!vars
<1>1. /\ UNCHANGED <<mailbox, sent, pushing>>
      /\ Accepted' = Accepted /\ Pending' = Pending /\ Closed' = Closed
    <2>1. UNCHANGED <<mailbox, sent, pushing>>
        BY DEF Working, Report, Answer, WarmOne, StopWarming, interface
    <2>2. QED
        BY <2>1 DEF Accepted, Pending, Closed
<1>2. executing[l] # NoCommand
    BY DEF Working, Report, Answer, WarmOne, StopWarming, PromiseInv, TypeInv, Employed
<1>3. ~ receiver => l \in Closed
    BY ClosedAtTheEnd DEF PromiseInv, DropsInOrder
<1>4. CASE Report(l)
    <2>1. CASE receiver
        BY <1>1, <1>2, <1>4, <2>1 DEF Report, Tell, Promise!Report, Promise!Tell
    <2>2. CASE ~ receiver
        BY <1>1, <1>4, <2>2 DEF Report, Tell, Promise!vars
    <2>3. QED
        BY <2>1, <2>2
<1>5. CASE Answer(l)
    <2>1. CASE receiver
        BY <1>1, <1>2, <1>5, <2>1 DEF Answer, Tell, Rest, Promise!Finish, Promise!Tell
    <2>2. CASE ~ receiver
        BY <1>1, <1>2, <1>3, <1>5, <2>2 DEF Answer, Tell, Rest, Promise!Finish
    <2>3. QED
        BY <2>1, <2>2
<1>6. CASE WarmOne(l)
    BY <1>6, HiddenStep
<1>7. CASE StopWarming(l)
    BY <1>1, <1>2, <1>7 DEF StopWarming, Rest, Promise!Finish
<1>8. QED
    BY <1>4, <1>5, <1>6, <1>7 DEF Working

LEMMA ReceivingStep ==
    ASSUME PromiseInv, Receive \/ DropReceiver
    PROVE  Promise!Hear \/ Promise!Discard
<1>1. /\ Accepted' = Accepted /\ Pending' = Pending /\ Closed' = Closed
      /\ executing' = executing
    BY DEF Receive, DropReceiver, worker, interface, Accepted, Pending, Closed
<1>2. CASE Receive
    BY <1>1, <1>2 DEF Receive, Promise!Hear
<1>3. CASE DropReceiver
    BY <1>1, <1>3, ClosedAtTheEnd DEF DropReceiver, Promise!Discard
<1>4. QED
    BY <1>2, <1>3

(* The invariant is inductive, and every step refines. *)
LEMMA PromiseStep ==
    ASSUME PromiseInv, [Next]_vars
    PROVE  PromiseInv' /\ [Promise!Next]_Promise!vars
<1>1. TypeInv'
    BY NextKeepsTypeInv DEF PromiseInv
<1>2. OneAtATime'
    BY DEF PromiseInv, OneAtATime, Next, Interface, Send, Deliver, Notify, Receive, Drop,
           ShutLane, DropReceiver, Looking, Exit, BeginOperation, BeginRead, Execute, Wait,
           WakeSpuriously, Working, Report, Answer, WarmOne, StopWarming, Idle, interface, vars
<1>3. ASSUME PushedLast', DropsInOrder', \A l \in Lanes : Tidy(l, mailbox[l])'
      PROVE  PromiseInv'
    BY <1>1, <1>2, <1>3 DEF PromiseInv
<1>4. CASE \E k \in Kinds : Send(k)
    BY <1>3, <1>4, SendStep
<1>5. CASE Deliver
    <2>1. pushing \in Command
        BY <1>5 DEF Deliver, PromiseInv, TypeInv, TypeOK
    <2>2. QED
        BY <1>3, <1>5, <2>1, DeliverStep DEF Promise!Next
<1>6. CASE Receive \/ DropReceiver
    BY <1>3, <1>6, OtherStep, ReceivingStep DEF Promise!Next
<1>7. CASE ShutLane
    BY <1>3, <1>7, ShutLaneStep DEF Promise!Next
<1>8. CASE \E l \in Lanes : BeginOperation(l) \/ \E s \in Slots : BeginRead(l, s)
    BY <1>3, <1>8, BeginStep DEF Promise!Next
<1>9. CASE \E l \in Lanes : Working(l)
    BY <1>3, <1>9, OtherStep, WorkingStep DEF Promise!Next
<1>10. CASE Notify \/ Drop \/ \E l \in Lanes : Exit(l) \/ Wait(l) \/ WakeSpuriously(l)
    BY <1>3, <1>10, OtherStep, HiddenStep
<1>11. CASE UNCHANGED vars
    <2>1. UNCHANGED <<mailbox, executing, events, sent, pushing, open, dropping, receiver>>
        BY <1>11 DEF vars, worker, interface
    <2>2. PushedLast' /\ DropsInOrder' /\ \A l \in Lanes : Tidy(l, mailbox[l])'
        BY <2>1 DEF PromiseInv, PushedLast, DropsInOrder
    <2>3. UNCHANGED Promise!vars
        BY <2>1 DEF Promise!vars, Accepted, Pending, Closed
    <2>4. QED
        BY <1>3, <2>2, <2>3
<1>12. QED
    BY <1>4, <1>5, <1>6, <1>7, <1>8, <1>9, <1>10, <1>11 DEF Next, Interface, Looking

(* A GitWorker keeps the safety part of its promise: whatever the lanes and   *)
(* the table of slots, a mutation is never replaced, lost or run out of       *)
(* order, a read gives way only to a newer read of its class, and a lane that *)
(* is shut down begins nothing.                                               *)
THEOREM PromiseIsKept == Safe => KeepsPromise
<1>1. Init => Promise!Init
    <2> SUFFICES ASSUME Init PROVE Promise!Init
        OBVIOUS
    <2>1. \A l \in Lanes : Waiting(mailbox[l]) = {} /\ ~ mailbox[l].shutdown
        BY NewMailboxWaiting DEF Init, NewMailbox
    <2>2. Pending = {} /\ Closed = {}
        BY <2>1 DEF Pending, Closed
    <2>3. QED
        BY <2>2 DEF Init, Promise!Init, Accepted
<1>2. QED
    BY <1>1, PromiseInvInitially, PromiseStep, PTL DEF Safe, KeepsPromise, Promise!Safe
=============================================================================
