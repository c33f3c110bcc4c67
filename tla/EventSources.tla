----------------------------- MODULE EventSources -----------------------------
(***************************************************************************)
(* What wakes the interface: the terminal, whose events are read in small  *)
(* batches; the webhook listener, a thread that answers one request after  *)
(* the other and passes deliveries on through a bounded channel; and the   *)
(* filesystem watcher with its channel of one.  The event loop draws, then *)
(* drains the channels, then handles one batch of events.                  *)
(***************************************************************************)
EXTENDS Naturals, Sequences, SequencesExt

CONSTANTS
    MaxBatch,   \* events in a batch
    Capacity,   \* deliveries in the channel
    MaxEvents,  \* bound on terminal events
    MaxRequests,\* bound on requests to the listener
    MaxChanges  \* bound on changes of the working tree

VARIABLES
    terminal,   \* what was typed and not read, the batch, what was held back, what was handled
    server,     \* the thread: the connections that wait, and what it does with one
    channel,    \* deliveries
    signal,     \* whether the watcher's channel is full
    loop,       \* where the loop is, and what is drawn
    owed,       \* a delivery or a change for which no refresh began yet
    counts

sourceVars == <<terminal, server, channel, signal, loop, owed, counts>>

(* Movements and the wheel are passive; keys, clicks, pastes and resizes not. *)
Event(n, passive) == [id |-> n, passive |-> passive]
None == Event(0, TRUE)

Init ==
    /\ terminal = [typed |-> <<>>, batch |-> <<>>, pending |-> None, handled |-> <<>>]
    /\ server = [at |-> "accept", queue |-> <<>>, stopped |-> FALSE]
    /\ channel = 0 /\ signal = 0
    /\ loop = [at |-> "draw", shown |-> 0]
    /\ owed = {}
    /\ counts = [events |-> 0, requests |-> 0, changes |-> 0]
-----------------------------------------------------------------------------
(* The world. *)

Type ==
    /\ counts.events < MaxEvents /\ loop.at # "left"
    /\ counts' = [counts EXCEPT !.events = @ + 1]
    /\ \E passive \in BOOLEAN :
          terminal' = [terminal EXCEPT !.typed = Append(@, Event(counts'.events, passive))]
    /\ UNCHANGED <<server, channel, signal, loop, owed>>

(* A delivery; something else over HTTP; what is no request, or stalls until  *)
(* the read times out; a peer that is not local.                              *)
Connect ==
    /\ counts.requests < MaxRequests
    /\ counts' = [counts EXCEPT !.requests = @ + 1]
    /\ \E kind \in {"delivery", "other", "broken", "remote"} :
          server' = [server EXCEPT !.queue = Append(@, kind)]
    /\ UNCHANGED <<terminal, channel, signal, loop, owed>>

(* should_refresh: reading a file, and what git does to its objects and locks *)
(* all the time, are noise.                                                   *)
Change ==
    /\ counts.changes < MaxChanges /\ loop.at # "left"
    /\ counts' = [counts EXCEPT !.changes = @ + 1]
    /\ \E noise \in BOOLEAN :
          /\ signal' = IF noise THEN signal ELSE 1      \* a full channel drops the signal
          /\ owed' = IF noise THEN owed ELSE owed \cup {"change"}
    /\ UNCHANGED <<terminal, server, channel, loop>>
-----------------------------------------------------------------------------
(* serve *)

Accept ==
    /\ server.at = "accept" /\ server.queue # <<>>
    /\ server' = [server EXCEPT !.queue = Tail(@),
                  !.at = IF server.stopped THEN "exited"
                         ELSE IF Head(server.queue) = "remote" THEN "accept"
                         ELSE Head(server.queue)]
    /\ UNCHANGED <<terminal, channel, signal, loop, owed, counts>>

(* read_delivery: a POST is answered 204 before it is passed on.              *)
Answer ==
    /\ server.at \in {"delivery", "other", "broken"}
    /\ server' = [server EXCEPT !.at = IF server.at = "delivery" THEN "send" ELSE "accept"]
    /\ owed' = IF server.at = "delivery" THEN owed \cup {"delivery"} ELSE owed
    /\ UNCHANGED <<terminal, channel, signal, loop, counts>>

(* Mutant: the channel has no bound. *)
SendUnbounded ==
    /\ server.at = "send"
    /\ server' = [server EXCEPT !.at = "accept"] /\ channel' = channel + 1
    /\ UNCHANGED <<terminal, signal, loop, owed, counts>>

(* A delivery beyond the capacity is dropped. *)
Send ==
    /\ server.at = "send"
    /\ server' = [server EXCEPT !.at = "accept"]
    /\ channel' = IF channel < Capacity THEN channel + 1 ELSE channel
    /\ UNCHANGED <<terminal, signal, loop, owed, counts>>
-----------------------------------------------------------------------------
(* open_terminal's loop *)

Handled == Len(terminal.handled)

Draw ==
    /\ loop.at = "draw"
    /\ loop' = [loop EXCEPT !.at = "deliveries", !.shown = Handled]
    /\ UNCHANGED <<terminal, server, channel, signal, owed, counts>>

(* poll_watchers and webhook_delivered take all there is; one refresh of each *)
(* is then due.  The picker of projects at the start has none of them.        *)
Drain ==
    /\ loop.at = "deliveries"
    /\ \/ /\ signal' = 0 /\ channel' = 0
          /\ owed' = owed \ ((IF signal > 0 THEN {"change"} ELSE {})
                             \cup (IF channel > 0 THEN {"delivery"} ELSE {}))
       \/ UNCHANGED <<signal, channel, owed>>
    /\ loop' = [loop EXCEPT !.at = "input"]
    /\ UNCHANGED <<terminal, server, counts>>

(* push_event stops a batch at what is not passive, and holds it back unless  *)
(* it is the first; time may stop it anywhere.                                *)

(* Mutant: what is not passive ends the batch, but in it. *)
BatchesAtEnd(events) ==
    LET active == {i \in DOMAIN events : ~ events[i].passive}
        upTo == IF active = {} THEN Len(events) ELSE CHOOSE i \in active : \A j \in active : i <= j IN
    {[batch |-> SubSeq(events, 1, n), pending |-> None, read |-> n] :
        n \in 0 .. (IF upTo < MaxBatch THEN upTo ELSE MaxBatch)}

Batches(events) ==
    LET active == {i \in DOMAIN events : ~ events[i].passive}
        stop == IF active = {} THEN Len(events) + 1 ELSE CHOOSE i \in active : \A j \in active : i <= j
        passive == {n \in 0 .. MaxBatch : n < stop} IN
    {[batch |-> SubSeq(events, 1, n), pending |-> None, read |-> n] : n \in passive}
    \cup (IF active = {} \/ stop > MaxBatch THEN {}
          ELSE IF stop = 1 THEN {[batch |-> <<events[1]>>, pending |-> None, read |-> 1]}
          ELSE {[batch |-> SubSeq(events, 1, stop - 1), pending |-> events[stop], read |-> stop]})

ReadBatch ==
    /\ loop.at = "input"
    /\ IF terminal.pending # None
       THEN terminal' = [terminal EXCEPT !.batch = <<terminal.pending>>, !.pending = None]
       ELSE \E b \in Batches(terminal.typed) :
                terminal' = [terminal EXCEPT !.batch = b.batch, !.pending = b.pending,
                             !.typed = SubSeq(@, b.read + 1, Len(@))]
    /\ loop' = [loop EXCEPT !.at = "handle"]
    /\ UNCHANGED <<server, channel, signal, owed, counts>>

(* An event may end the loop; what was read after it is not handled.  The     *)
(* listener is told, and woken by a connection.                               *)
HandleEvent ==
    /\ loop.at = "handle" /\ terminal.batch # <<>>
    /\ terminal' = [terminal EXCEPT !.handled = Append(@, Head(terminal.batch)), !.batch = Tail(@)]
    /\ \/ UNCHANGED loop
       \/ loop' = [loop EXCEPT !.at = "stopping"]
    /\ UNCHANGED <<server, channel, signal, owed, counts>>

BatchDone ==
    /\ loop.at = "handle" /\ terminal.batch = <<>>
    /\ loop' = [loop EXCEPT !.at = IF loop.shown = Handled THEN "deliveries" ELSE "draw"]
    /\ UNCHANGED <<terminal, server, channel, signal, owed, counts>>

Stop ==
    /\ loop.at = "stopping"
    /\ \/ ~ server.stopped /\ server' = [server EXCEPT !.stopped = TRUE] /\ UNCHANGED loop
       \/ /\ server.stopped
          /\ server' = [server EXCEPT !.queue = Append(@, "self")]
          /\ loop' = [loop EXCEPT !.at = "left"]
    /\ UNCHANGED <<terminal, channel, signal, owed, counts>>

Next == \/ Type \/ Connect \/ Change \/ Accept \/ Answer \/ Send
        \/ Draw \/ Drain \/ ReadBatch \/ HandleEvent \/ BatchDone \/ Stop

Spec == Init /\ [][Next]_sourceVars
-----------------------------------------------------------------------------
TypeOK ==
    /\ channel \in 0 .. Capacity /\ signal \in {0, 1}
    /\ server.at \in {"accept", "delivery", "other", "broken", "send", "exited"}
    /\ loop.at \in {"draw", "deliveries", "input", "handle", "stopping", "left"}
    /\ owed \subseteq {"delivery", "change"}
    /\ Len(terminal.batch) <= MaxBatch

(* Events are handled in the order of typing, none lost and none twice; and   *)
(* a key or click is handled when everything handled before it is drawn, so   *)
(* that it means what the user saw.                                           *)
EventsMeanWhatIsShown ==
    /\ \A i \in DOMAIN terminal.handled :
          terminal.handled[i].id = i
    /\ terminal.batch # <<>> /\ ~ Head(terminal.batch).passive =>
          loop.shown = Handled

(* A delivery that was answered 204, or a change of the tree, is followed by  *)
(* a refresh: as long as none began something waits in a channel, however     *)
(* many were dropped.                                                         *)
NoSignalIsLost ==
    /\ "delivery" \in owed => channel > 0 \/ server.at = "send"
    /\ "change" \in owed => signal = 1

(* A listener that was told to stop is never left waiting for a connection.   *)
ListenerStops == loop.at = "left" /\ server.at = "accept" => server.queue # <<>>
=============================================================================
