----------------------------- MODULE WorkerLanes -----------------------------
(***************************************************************************)
(* GitWorker: one worker thread per lane, each with a mailbox of its own,  *)
(* and one channel on which every thread answers the interface.            *)
(*                                                                         *)
(* The interface thread owns the GitWorker, so it alone sends and drops.   *)
(* Sending is three steps: stamp a prefetch with a fresh generation, push  *)
(* under the mailbox's lock, notify after the lock is released.  A worker  *)
(* looks at its mailbox under the same lock and releases it atomically     *)
(* with going to wait, so each look is one step.                           *)
(***************************************************************************)
EXTENDS WorkerMailbox

CONSTANTS
    Lanes,         \* the lanes that are started
    LaneOf,        \* the lane of each kind
    QuietLanes,    \* the warm-up lanes, which send no events
    Steps,         \* progress reports, or units of warming, in one command
    DropOrder,     \* the order in which lanes are shut down
    NoLane,        \* nobody is to be notified
    MaxCommands    \* bound: how many commands the interface sends

Command == [id : 1 .. MaxCommands, kind : Kinds, generation : 0 .. MaxCommands]
Event   == [command : Command, final : BOOLEAN]

ASSUME LanesAssumption ==
    /\ Operations \subseteq Kinds
    /\ SlotOf \in [Kinds \ Operations -> Slots]
    /\ Rank \in [Slots -> Nat]
    /\ \A s, t \in Slots : Rank[s] = Rank[t] => s = t
    /\ LaneOf \in [Kinds -> Lanes]
    /\ QuietLanes \subseteq Lanes
    /\ Steps \in [Kinds -> Nat]
    /\ DropOrder \in Seq(Lanes)
    /\ \A l \in Lanes : \E i \in DOMAIN DropOrder : DropOrder[i] = l
    /\ NoLane \notin Lanes
    /\ NoCommand \notin Command
    /\ MaxCommands \in Nat

(* A warm-up lane has one slot and no queue: what is asked for replaces what  *)
(* waits.                                                                     *)
ASSUME QuietLanesAssumption ==
    \A k, j \in Kinds : LaneOf[k] \in QuietLanes /\ LaneOf[j] = LaneOf[k] =>
        /\ {k, j} \cap Operations = {}
        /\ SlotOf[k] = SlotOf[j]

VARIABLES
    mailbox,       \* of each lane
    generation,    \* of each warm-up lane: the newest prefetch asked for
    thread,        \* of each lane: looking, waiting, executing or exited
    executing,     \* of each lane: the command it executes
    steps,         \* of each lane: what is left of that command
    events,        \* the channel from the threads to the interface
    sent,          \* how many commands the interface has sent
    pushing,       \* the command send has stamped and not pushed
    notifying,     \* the lane whose mailbox was unlocked and not notified
    dropping,      \* the lanes that dropping the GitWorker has yet to shut down
    open,          \* the GitWorker has not been dropped
    receiver       \* the interface still holds its end of the channel

interface == <<sent, pushing, notifying, dropping, open, receiver>>
worker    == <<thread, executing, steps>>
vars      == <<mailbox, generation, worker, events, interface>>

TypeOK ==
    /\ mailbox \in [Lanes -> MailboxOf(Command)]
    /\ generation \in [QuietLanes -> 0 .. MaxCommands]
    /\ thread \in [Lanes -> {"looking", "waiting", "executing", "exited"}]
    /\ executing \in [Lanes -> Command \cup {NoCommand}]
    /\ steps \in [Lanes -> Nat]
    /\ events \in Seq(Event)
    /\ sent \in 0 .. MaxCommands
    /\ pushing \in Command \cup {NoCommand}
    /\ notifying \in Lanes \cup {NoLane}
    /\ dropping \in Seq(Lanes)
    /\ open \in BOOLEAN
    /\ receiver \in BOOLEAN

Init ==
    /\ mailbox = [l \in Lanes |-> NewMailbox]
    /\ generation = [l \in QuietLanes |-> 0]
    /\ thread = [l \in Lanes |-> "looking"]
    /\ executing = [l \in Lanes |-> NoCommand]
    /\ steps = [l \in Lanes |-> 0]
    /\ events = <<>>
    /\ sent = 0
    /\ pushing = NoCommand
    /\ notifying = NoLane
    /\ dropping = DropOrder
    /\ open = TRUE
    /\ receiver = TRUE
-----------------------------------------------------------------------------
(* The interface thread. *)

Idle == pushing = NoCommand /\ notifying = NoLane

Stamp(k) == IF LaneOf[k] \in QuietLanes THEN generation[LaneOf[k]] + 1 ELSE 0

Send(k) ==
    /\ open /\ Idle
    /\ sent < MaxCommands
    /\ sent' = sent + 1
    /\ pushing' = [id |-> sent + 1, kind |-> k, generation |-> Stamp(k)]
    /\ generation' = [l \in QuietLanes |->
                         IF l = LaneOf[k] THEN generation[l] + 1 ELSE generation[l]]
    /\ UNCHANGED <<mailbox, worker, events, notifying, dropping, open, receiver>>

(* Mutant: the notification is left to the thread's next look. *)
DeliverSilently ==
    /\ pushing # NoCommand
    /\ mailbox' = [mailbox EXCEPT ![LaneOf[pushing.kind]] = Push(@, pushing)]
    /\ pushing' = NoCommand
    /\ UNCHANGED <<generation, worker, events, sent, notifying, dropping, open, receiver>>

Deliver ==
    /\ pushing # NoCommand
    /\ LET l == LaneOf[pushing.kind] IN
          IF mailbox[l].shutdown
          THEN UNCHANGED <<mailbox, notifying>>
          ELSE /\ mailbox' = [mailbox EXCEPT ![l] = Push(@, pushing)]
               /\ notifying' = l
    /\ pushing' = NoCommand
    /\ UNCHANGED <<generation, worker, events, sent, dropping, open, receiver>>

Notify ==
    /\ notifying # NoLane
    /\ thread' = [l \in Lanes |->
                     IF l = notifying /\ thread[l] = "waiting" THEN "looking" ELSE thread[l]]
    /\ notifying' = NoLane
    /\ UNCHANGED <<mailbox, generation, executing, steps, events,
                   sent, pushing, dropping, open, receiver>>

Receive ==
    /\ open /\ Idle
    /\ events # <<>>
    /\ events' = Tail(events)
    /\ UNCHANGED <<mailbox, generation, worker, interface>>

Drop ==
    /\ open /\ Idle
    /\ open' = FALSE
    /\ UNCHANGED <<mailbox, generation, worker, events,
                   sent, pushing, notifying, dropping, receiver>>

(* Mutant: shutting a lane down does not notify its thread. *)
ShutLaneSilently ==
    /\ ~ open /\ Idle
    /\ dropping # <<>>
    /\ mailbox' = [mailbox EXCEPT ![Head(dropping)] = PushShutdown(@)]
    /\ dropping' = Tail(dropping)
    /\ UNCHANGED <<generation, worker, events, sent, pushing, notifying, open, receiver>>

ShutLane ==
    /\ ~ open /\ Idle
    /\ dropping # <<>>
    /\ mailbox' = [mailbox EXCEPT ![Head(dropping)] = PushShutdown(@)]
    /\ notifying' = Head(dropping)
    /\ dropping' = Tail(dropping)
    /\ UNCHANGED <<generation, worker, events, sent, pushing, open, receiver>>

(* The fields of a GitWorker are dropped after its Drop::drop has returned. *)
DropReceiver ==
    /\ ~ open /\ Idle
    /\ dropping = <<>> /\ receiver
    /\ receiver' = FALSE
    /\ events' = <<>>
    /\ UNCHANGED <<mailbox, generation, worker, sent, pushing, notifying, dropping, open>>
-----------------------------------------------------------------------------
(* A worker thread. *)

Looks(l) == thread[l] = "looking"

Exit(l) ==
    /\ Looks(l) /\ mailbox[l].shutdown
    /\ thread' = [thread EXCEPT ![l] = "exited"]
    /\ UNCHANGED <<mailbox, generation, executing, steps, events, interface>>

Execute(l, c) ==
    /\ thread' = [thread EXCEPT ![l] = "executing"]
    /\ executing' = [executing EXCEPT ![l] = c]
    /\ steps' = [steps EXCEPT ![l] = Steps[c.kind]]
    /\ UNCHANGED <<generation, events, interface>>

BeginOperation(l) ==
    /\ Looks(l) /\ ~ mailbox[l].shutdown
    /\ PopsOperation(mailbox[l])
    /\ mailbox' = [mailbox EXCEPT ![l] = WithoutHead(@)]
    /\ Execute(l, Head(mailbox[l].operations))

BeginRead(l, s) ==
    /\ Looks(l) /\ ~ mailbox[l].shutdown
    /\ PopsSlot(mailbox[l], s)
    /\ mailbox' = [mailbox EXCEPT ![l] = WithoutSlot(@, s)]
    /\ Execute(l, mailbox[l].slots[s])

(* Mutant: a thread waits as soon as no operation is queued. *)
WaitForOperations(l) ==
    /\ Looks(l) /\ ~ mailbox[l].shutdown
    /\ mailbox[l].operations = <<>>
    /\ thread' = [thread EXCEPT ![l] = "waiting"]
    /\ UNCHANGED <<mailbox, generation, executing, steps, events, interface>>

Wait(l) ==
    /\ Looks(l) /\ ~ mailbox[l].shutdown
    /\ Drained(mailbox[l])
    /\ thread' = [thread EXCEPT ![l] = "waiting"]
    /\ UNCHANGED <<mailbox, generation, executing, steps, events, interface>>

(* A condition variable may wake a thread nobody notified. *)
WakeSpuriously(l) ==
    /\ thread[l] = "waiting"
    /\ thread' = [thread EXCEPT ![l] = "looking"]
    /\ UNCHANGED <<mailbox, generation, executing, steps, events, interface>>

Tell(l, final) ==
    events' = IF receiver
              THEN Append(events, [command |-> executing[l], final |-> final])
              ELSE events

Report(l) ==
    /\ thread[l] = "executing" /\ l \notin QuietLanes
    /\ steps[l] > 0
    /\ steps' = [steps EXCEPT ![l] = @ - 1]
    /\ Tell(l, FALSE)
    /\ UNCHANGED <<mailbox, generation, thread, executing, interface>>

Rest(l, next) ==
    /\ thread' = [thread EXCEPT ![l] = next]
    /\ executing' = [executing EXCEPT ![l] = NoCommand]
    /\ steps' = [steps EXCEPT ![l] = 0]

(* A command may end before it has made all its progress reports. *)
Answer(l) ==
    /\ thread[l] = "executing" /\ l \notin QuietLanes
    /\ Tell(l, TRUE)
    /\ Rest(l, IF receiver THEN "looking" ELSE "exited")
    /\ UNCHANGED <<mailbox, generation, interface>>

(* Mutant: an older generation is wanted too. *)
WantedOrOlder(l) == generation[l] >= executing[l].generation

Wanted(l) == generation[l] = executing[l].generation

(* Mutant: a unit is begun after the last one. *)
WarmOneMore(l) ==
    /\ thread[l] = "executing" /\ l \in QuietLanes
    /\ Wanted(l)
    /\ steps' = [steps EXCEPT ![l] = @ - 1]
    /\ UNCHANGED <<mailbox, generation, thread, executing, events, interface>>

WarmOne(l) ==
    /\ thread[l] = "executing" /\ l \in QuietLanes
    /\ steps[l] > 0 /\ Wanted(l)
    /\ steps' = [steps EXCEPT ![l] = @ - 1]
    /\ UNCHANGED <<mailbox, generation, thread, executing, events, interface>>

StopWarming(l) ==
    /\ thread[l] = "executing" /\ l \in QuietLanes
    /\ steps[l] = 0 \/ ~ Wanted(l)
    /\ Rest(l, "looking")
    /\ UNCHANGED <<mailbox, generation, events, interface>>
-----------------------------------------------------------------------------
Interface ==
    \/ \E k \in Kinds : Send(k)
    \/ Deliver \/ Notify \/ Receive
    \/ Drop \/ ShutLane \/ DropReceiver

Looking(l) ==
    \/ Exit(l) \/ BeginOperation(l) \/ Wait(l)
    \/ \E s \in Slots : BeginRead(l, s)

Working(l) == Report(l) \/ Answer(l) \/ WarmOne(l) \/ StopWarming(l)

Next == Interface \/ \E l \in Lanes : Looking(l) \/ WakeSpuriously(l) \/ Working(l)

Safe == Init /\ [][Next]_vars

(* The interface finishes what it began to send or drop, a thread that can   *)
(* run is scheduled, and a Git or GitHub command ends.  Nothing makes the    *)
(* interface send, drop or read its channel.                                 *)
Fairness ==
    /\ WF_vars(Deliver) /\ WF_vars(Notify) /\ WF_vars(ShutLane) /\ WF_vars(DropReceiver)
    /\ \A l \in Lanes : WF_vars(Looking(l)) /\ WF_vars(Working(l))

Spec == Safe /\ Fairness
-----------------------------------------------------------------------------
(* No lost wake-up.  next_command checks the mailbox and starts waiting under *)
(* one lock while send and shutdown_mailbox notify after unlocking, so a      *)
(* thread may wait on work only while its notification is still to come.      *)
NoLostWakeup ==
    \A l \in Lanes :
        thread[l] = "waiting" =>
            \/ notifying = l
            \/ Drained(mailbox[l]) /\ ~ mailbox[l].shutdown

(* A prefetch that has been superseded stops costing requests: once a newer   *)
(* one waits in the lane, no further unit of the old one is begun.            *)
NoUnitForASupersededPrefetch ==
    [][\A l \in QuietLanes :
          executing[l] # NoCommand /\ executing'[l] = executing[l] /\ steps'[l] < steps[l]
          => Waiting(mailbox[l]) = {}]_vars

(* Dropping a GitWorker shuts its lanes down one after the other, without     *)
(* joining the threads: every one of them exits, even one whose notification  *)
(* arrives while it is busy, and even if commands still wait.                 *)
EveryThreadExits ==
    ~ open ~> \A l \in Lanes : thread[l] = "exited"

(* WorkerPromise, seen through the mailboxes and the flags of a GitWorker.     *)
Accepted == IF pushing = NoCommand THEN sent ELSE sent - 1
Pending  == UNION {Waiting(mailbox[l]) : l \in Lanes}
Closed   == {l \in Lanes : mailbox[l].shutdown}

Promise == INSTANCE WorkerPromise WITH
    last <- Accepted, pending <- Pending, running <- executing, closed <- Closed

(* The doc of send: reads replace obsolete reads of their class, mutations    *)
(* remain an ordered queue, and the lanes do nothing else.                    *)
KeepsPromise == Promise!Safe

(* A lane that is open and idle begins what waits for it, and ends it: no     *)
(* command is left lying in a mailbox next to a sleeping thread.              *)
ServesPromise == Promise!Live
=============================================================================
