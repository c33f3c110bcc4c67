-------------------------- MODULE EventSourcesProofs --------------------------
(***************************************************************************)
(* What is typed is handled in order and means what was shown, no signal   *)
(* is lost, and the listener stops: for batches and channels of any size,  *)
(* however much is typed, delivered and changed.                           *)
(*                                                                         *)
(* Events are numbered as they are typed, and what is handled, what is in  *)
(* the batch, what was held back and what waits are four parts of one      *)
(* sequence (InOrder).  A batch has either no key or click, or just one,   *)
(* and then everything handled before it is drawn (Drawn).                 *)
(***************************************************************************)
EXTENDS EventSources, TLAPS, WellFoundedInduction

TerminalEvent == [id : Nat, passive : BOOLEAN]
ServerStates == {"accept", "delivery", "other", "broken", "send", "exited"}
LoopStates == {"draw", "deliveries", "input", "handle", "stopping", "left"}
Requests == {"delivery", "other", "broken", "remote", "self"}

Terminals(S, E) == [typed : S, batch : S, pending : E, handled : S]
Servers(S) == [at : ServerStates, queue : S, stopped : BOOLEAN]

Typed ==
    /\ terminal \in Terminals(Seq(TerminalEvent), TerminalEvent)
    /\ Len(terminal.batch) <= MaxBatch
    /\ server \in Servers(Seq(Requests))
    /\ channel \in 0 .. Capacity /\ signal \in {0, 1}
    /\ loop \in [at : LoopStates, shown : Nat]
    /\ owed \subseteq {"delivery", "change"}
    /\ counts \in [events : Nat, requests : Nat, changes : Nat]

HeldBack == IF terminal.pending = None THEN 0 ELSE 1
Taken == Handled + Len(terminal.batch) + HeldBack

(* The events of a sequence have the numbers that follow k. *)
Numbered(s, k) == \A i \in 1 .. Len(s) : s[i].id = k + i

InOrder ==
    /\ Numbered(terminal.handled, 0)
    /\ Numbered(terminal.batch, Handled)
    /\ terminal.pending # None => terminal.pending.id = Taken
    /\ Numbered(terminal.typed, Taken)
    /\ counts.events = Taken + Len(terminal.typed)

(* A key or click is alone. *)
Single(s) == \A i \in 1 .. Len(s) : ~ s[i].passive => Len(s) = 1
Passive(s) == \A i \in 1 .. Len(s) : s[i].passive

Drawn ==
    /\ loop.at \in {"draw", "deliveries", "input"} => terminal.batch = <<>>
    /\ loop.at \in {"deliveries", "input"} => loop.shown = Handled
    /\ Single(terminal.batch)
    /\ Passive(terminal.batch) \/ loop.shown = Handled

(* Only the interface that leaves connects to its own listener, and then the  *)
(* listener was told; until it has ended there is a connection to wake it.    *)
NotWoken(queue) == \A i \in 1 .. Len(queue) : queue[i] # "self"

Woken ==
    /\ server.stopped \/ NotWoken(server.queue)
    /\ loop.at = "left" =>
          server.stopped /\ (server.queue # <<>> \/ server.at = "exited")

SourcesInv == Typed /\ InOrder /\ Drawn /\ NoSignalIsLost /\ Woken

-----------------------------------------------------------------------------
(* The operators. *)

(* Every set of naturals has a least element: induction, where the library's  *)
(* induction theorems would take an operator.                                 *)
LEMMA LeastNatural ==
    ASSUME NEW T \in SUBSET Nat, T # {}
    PROVE  \E n \in T : \A m \in T : n <= m
<1>1. \E R : IsWellFoundedOn(R, Nat) /\ \A m, n \in Nat : m < n => <<m, n>> \in R
    <2>1. IsWellFoundedOn(OpToRel(<, Nat), Nat)
        BY NatLessThanWellFounded, Zenon
    <2>2. \A m, n \in Nat : m < n => <<m, n>> \in OpToRel(<, Nat)
        BY DEF OpToRel
    <2> QED
        BY <2>1, <2>2, Zenon
<1>2. PICK R : IsWellFoundedOn(R, Nat) /\ \A m, n \in Nat : m < n => <<m, n>> \in R
    BY <1>1
<1>3. IsWellFoundedOn(R, Nat) /\ T \subseteq Nat /\ T # {}
    BY <1>2
<1>4. PICK n \in T : \A m \in T : ~ (<<m, n>> \in R)
    BY ONLY <1>3, WFMin, Zenon
<1>5. \A m \in T : ~ (m < n)
    BY <1>2, <1>4
<1>6. \A m \in T : n <= m
    BY <1>3, <1>5
<1> QED
    BY <1>6

LEMMA TerminalParts ==
    ASSUME NEW S, NEW E, NEW t \in Terminals(S, E)
    PROVE  t.typed \in S /\ t.batch \in S /\ t.pending \in E /\ t.handled \in S
    BY DEF Terminals

LEMMA ServerParts ==
    ASSUME NEW S, NEW t \in Servers(S)
    PROVE  t.at \in ServerStates /\ t.queue \in S /\ t.stopped \in BOOLEAN
    BY DEF Servers

LEMMA LoopMade ==
    ASSUME NEW t \in [at : LoopStates, shown : Nat], NEW l \in LoopStates, NEW n \in Nat, NEW u
    PROVE  /\ t.at \in LoopStates /\ t.shown \in Nat
           /\ u = [t EXCEPT !.at = l] =>
                 u \in [at : LoopStates, shown : Nat] /\ u.at = l /\ u.shown = t.shown
           /\ u = [t EXCEPT !.at = l, !.shown = n] =>
                 u \in [at : LoopStates, shown : Nat] /\ u.at = l /\ u.shown = n
    OBVIOUS

LEMMA CountsMade ==
    ASSUME NEW t \in [events : Nat, requests : Nat, changes : Nat], NEW u
    PROVE  /\ t.events \in Nat
           /\ u = [t EXCEPT !.events = @ + 1] =>
                 u \in [events : Nat, requests : Nat, changes : Nat] /\ u.events = t.events + 1
           /\ u = [t EXCEPT !.requests = @ + 1] \/ u = [t EXCEPT !.changes = @ + 1] =>
                 u \in [events : Nat, requests : Nat, changes : Nat] /\ u.events = t.events
    OBVIOUS

LEMMA Appending ==
    ASSUME NEW s \in Seq(TerminalEvent), NEW k \in Nat, Numbered(s, k),
           NEW e \in TerminalEvent, e.id = k + Len(s) + 1
    PROVE  /\ Append(s, e) \in Seq(TerminalEvent) /\ Len(Append(s, e)) = Len(s) + 1
           /\ Numbered(Append(s, e), k)
<1>1. /\ Append(s, e) \in Seq(TerminalEvent) /\ Len(Append(s, e)) = Len(s) + 1 /\ Len(s) \in Nat
      /\ \A i \in 1 .. Len(s) : Append(s, e)[i] = s[i]
      /\ Append(s, e)[Len(s) + 1] = e
    OBVIOUS
<1>2. ASSUME NEW i \in 1 .. Len(s) + 1 PROVE Append(s, e)[i].id = k + i
    <2>1. CASE i = Len(s) + 1
        BY <1>1, <2>1
    <2>2. CASE i # Len(s) + 1
        BY <1>1, <2>2 DEF Numbered
    <2> QED
        BY <2>1, <2>2
<1> QED
    BY <1>1, <1>2 DEF Numbered

LEMMA Taking ==
    ASSUME NEW s \in Seq(TerminalEvent), NEW k \in Nat, Numbered(s, k), Single(s), s # <<>>
    PROVE  /\ Head(s) \in TerminalEvent /\ Head(s).id = k + 1
           /\ Tail(s) \in Seq(TerminalEvent) /\ Len(Tail(s)) = Len(s) - 1 /\ Len(s) \in Nat \ {0}
           /\ Numbered(Tail(s), k + 1) /\ Passive(Tail(s)) /\ Single(Tail(s))
<1>1. /\ Tail(s) \in Seq(TerminalEvent) /\ Len(Tail(s)) = Len(s) - 1 /\ Len(s) > 0
      /\ \A i \in 1 .. Len(s) - 1 : Tail(s)[i] = s[i + 1]
      /\ Head(s) = s[1] /\ Head(s) \in TerminalEvent /\ Len(s) \in Nat
    OBVIOUS
<1> QED
    BY <1>1 DEF Numbered, Passive, Single

LEMMA Alone ==
    ASSUME NEW k \in Nat, NEW e \in TerminalEvent, e.id = k + 1
    PROVE  /\ <<e>> \in Seq(TerminalEvent) /\ Len(<<e>>) = 1
           /\ Numbered(<<e>>, k) /\ Single(<<e>>)
    BY DEF Numbered, Single

LEMMA Empty ==
    /\ <<>> \in Seq(TerminalEvent) /\ Len(<<>>) = 0
    /\ \A k : Numbered(<<>>, k)
    /\ Single(<<>>) /\ Passive(<<>>)
    BY DEF Numbered, Single, Passive

LEMMA Queueing ==
    ASSUME NEW s \in Seq(Requests), NEW x \in Requests
    PROVE  /\ Append(s, x) \in Seq(Requests) /\ Append(s, x) # <<>>
           /\ NotWoken(s) /\ x # "self" => NotWoken(Append(s, x))
    BY DEF NotWoken

LEMMA Dequeueing ==
    ASSUME NEW s \in Seq(Requests), s # <<>>
    PROVE  /\ Tail(s) \in Seq(Requests) /\ Head(s) \in Requests
           /\ NotWoken(s) => Head(s) # "self" /\ NotWoken(Tail(s))
    BY DEF NotWoken

LEMMA Remaining ==
    ASSUME NEW S, NEW s \in Seq(S), NEW r \in 0 .. Len(s)
    PROVE  /\ SubSeq(s, r + 1, Len(s)) \in Seq(S) /\ Len(SubSeq(s, r + 1, Len(s))) = Len(s) - r
           /\ \A i \in 1 .. Len(s) - r : SubSeq(s, r + 1, Len(s))[i] = s[r + i]
    OBVIOUS

LEMMA SubSeqFacts ==
    ASSUME NEW S, NEW s \in Seq(S), NEW m \in 1 .. Len(s) + 1, NEW n \in 0 .. Len(s), m <= n + 1
    PROVE  /\ SubSeq(s, m, n) \in Seq(S) /\ Len(SubSeq(s, m, n)) = n - m + 1
           /\ \A i \in 1 .. n - m + 1 : SubSeq(s, m, n)[i] = s[m + i - 1]
    OBVIOUS

(* A batch is the beginning of what is typed; a key or click is in it alone,  *)
(* and of those that follow something else one is held back.                  *)
(* A batch is the beginning of what is typed; a key or click is in it alone,  *)
(* and of those that follow something else one is held back.                  *)
LEMMA BatchesAre ==
    ASSUME MaxBatch \in Nat \ {0}, NEW events \in Seq(TerminalEvent), NEW b \in Batches(events)
    PROVE  /\ b.read \in 0 .. Len(events)
           /\ b.batch \in Seq(TerminalEvent) /\ Len(b.batch) <= MaxBatch
           /\ \A i \in 1 .. Len(b.batch) : b.batch[i] = events[i]
           /\ \A i \in 1 .. Len(b.batch) : ~ b.batch[i].passive => Len(b.batch) = 1
           /\ \/ b.pending = None /\ b.read = Len(b.batch)
              \/ /\ b.read = Len(b.batch) + 1 /\ b.read \in 1 .. Len(events)
                 /\ b.pending = events[b.read]
<1> DEFINE active == {i \in DOMAIN events : ~ events[i].passive}
           least == CHOOSE i \in active : \A j \in active : i <= j
           stop == IF active = {} THEN Len(events) + 1 ELSE least
<1>1. active \subseteq 1 .. Len(events)
    OBVIOUS
<1>2. active # {} => least \in active /\ \A j \in active : least <= j
    <2> SUFFICES ASSUME active # {} PROVE \E i \in active : \A j \in active : i <= j
        BY Zenon
    <2>1. active \in SUBSET Nat
        BY <1>1
    <2> QED
        BY <2>1, LeastNatural, Zenon
<1>3. /\ stop \in 1 .. Len(events) + 1
      /\ \A i \in 1 .. Len(events) : i < stop => events[i].passive
    BY <1>1, <1>2
<1> HIDE DEF least
<1> DEFINE passive == {n \in 0 .. MaxBatch : n < stop}
<1>9. Batches(events) =
        {[batch |-> SubSeq(events, 1, n), pending |-> None, read |-> n] : n \in passive}
        \cup (IF active = {} \/ stop > MaxBatch THEN {}
              ELSE IF stop = 1 THEN {[batch |-> <<events[1]>>, pending |-> None, read |-> 1]}
              ELSE {[batch |-> SubSeq(events, 1, stop - 1), pending |-> events[stop], read |-> stop]})
    BY Zenon DEF Batches, least
<1>4. \/ \E n \in 0 .. MaxBatch :
            n < stop /\ b = [batch |-> SubSeq(events, 1, n), pending |-> None, read |-> n]
      \/ /\ active # {} /\ stop <= MaxBatch /\ stop = 1
         /\ b = [batch |-> <<events[1]>>, pending |-> None, read |-> 1]
      \/ /\ active # {} /\ stop <= MaxBatch /\ stop # 1
         /\ b = [batch |-> SubSeq(events, 1, stop - 1), pending |-> events[stop], read |-> stop]
    <2> HIDE DEF active, stop
    <2> QED
        BY <1>3, <1>9
<1>5. ASSUME NEW n \in 0 .. Len(events)
      PROVE  /\ SubSeq(events, 1, n) \in Seq(TerminalEvent) /\ Len(SubSeq(events, 1, n)) = n
             /\ \A i \in 1 .. n : SubSeq(events, 1, n)[i] = events[i]
    BY SubSeqFacts
<1>6. CASE \E n \in 0 .. MaxBatch :
            n < stop /\ b = [batch |-> SubSeq(events, 1, n), pending |-> None, read |-> n]
    <2>1. PICK n \in 0 .. MaxBatch :
            n < stop /\ b = [batch |-> SubSeq(events, 1, n), pending |-> None, read |-> n]
        BY <1>6
    <2>2. n \in 0 .. Len(events)
        BY <2>1, <1>3
    <2> QED
        BY <2>1, <2>2, <1>3, <1>5
<1>7. CASE /\ active # {} /\ stop <= MaxBatch /\ stop = 1
           /\ b = [batch |-> <<events[1]>>, pending |-> None, read |-> 1]
    <2>1. 1 \in 1 .. Len(events) /\ events[1] \in TerminalEvent
        BY <1>7, <1>1, <1>2
    <2> QED
        BY <1>7, <2>1
<1>8. CASE /\ active # {} /\ stop <= MaxBatch /\ stop # 1
           /\ b = [batch |-> SubSeq(events, 1, stop - 1), pending |-> events[stop], read |-> stop]
    <2>1. stop \in 1 .. Len(events) /\ stop - 1 \in 0 .. Len(events) /\ stop - 1 < stop
        <3>1. active # {} /\ stop \in active /\ stop # 1
            BY <1>8, <1>2
        <3>2. stop \in 1 .. Len(events)
            BY <3>1, <1>1, Zenon
        <3> HIDE DEF stop, active
        <3> QED
            BY <3>1, <3>2
    <2>2. /\ SubSeq(events, 1, stop - 1) \in Seq(TerminalEvent)
          /\ Len(SubSeq(events, 1, stop - 1)) = stop - 1
          /\ \A i \in 1 .. stop - 1 : SubSeq(events, 1, stop - 1)[i] = events[i]
        BY <2>1, <1>5
    <2> HIDE DEF stop, active
    <2>3. /\ b.batch = SubSeq(events, 1, stop - 1) /\ b.pending = events[stop] /\ b.read = stop
        BY <1>8
    <2>4. \A i \in 1 .. Len(b.batch) : b.batch[i] = events[i] /\ events[i].passive
        BY <2>1, <2>2, <2>3, <1>3
    <2> QED
        BY <1>8, <2>1, <2>2, <2>3, <2>4
<1> QED
    BY <1>4, <1>6, <1>7, <1>8

(* So what was typed is only divided. *)
LEMMA BatchesDivide ==
    ASSUME MaxBatch \in Nat \ {0}, NEW events \in Seq(TerminalEvent), NEW b \in Batches(events),
           NEW k \in Nat, Numbered(events, k)
    PROVE  LET rest == SubSeq(events, b.read + 1, Len(events)) IN
           /\ b.batch \in Seq(TerminalEvent) /\ Len(b.batch) <= MaxBatch
           /\ b.pending \in TerminalEvent /\ rest \in Seq(TerminalEvent)
           /\ Numbered(b.batch, k) /\ Single(b.batch) /\ Numbered(rest, k + b.read)
           /\ b.read \in Nat /\ Len(events) = b.read + Len(rest)
           /\ \/ b.pending = None /\ b.read = Len(b.batch)
              \/ b.pending # None /\ b.pending.id = k + b.read /\ b.read = Len(b.batch) + 1
<1>1. /\ b.read \in 0 .. Len(events)
      /\ b.batch \in Seq(TerminalEvent) /\ Len(b.batch) <= MaxBatch
      /\ \A i \in 1 .. Len(b.batch) : b.batch[i] = events[i]
      /\ \A i \in 1 .. Len(b.batch) : ~ b.batch[i].passive => Len(b.batch) = 1
      /\ \/ b.pending = None /\ b.read = Len(b.batch)
         \/ /\ b.read = Len(b.batch) + 1 /\ b.read \in 1 .. Len(events)
            /\ b.pending = events[b.read]
    BY BatchesAre
<1> DEFINE n == Len(events)
           r == b.read
           m == Len(b.batch)
           rest == SubSeq(events, b.read + 1, Len(events))
<1>2. n \in Nat /\ r \in 0 .. n /\ m \in Nat /\ (r = m \/ r = m + 1)
    BY <1>1
<1>9. n = Len(events) /\ r = b.read /\ m = Len(b.batch)
    OBVIOUS
<1> HIDE DEF n, r, m
<1>4. /\ rest \in Seq(TerminalEvent) /\ Len(rest) = n - r
      /\ \A i \in 1 .. n - r : rest[i] = events[r + i]
    <2>1. b.read \in 0 .. Len(events)
        BY <1>1
    <2> QED
        BY SMTT(30), <1>9, <2>1, Remaining
<1> HIDE DEF rest
<1>5. Numbered(rest, k + r)
    <2>1. \A i \in 1 .. n : events[i].id = k + i
        BY <1>9 DEF Numbered
    <2>2. \A i \in 1 .. n - r : r + i \in 1 .. n /\ k + (r + i) = k + r + i
        BY <1>2
    <2> QED
        BY <1>4, <2>1, <2>2 DEF Numbered
<1>6. Numbered(b.batch, k) /\ Single(b.batch)
    <2>1. \A i \in 1 .. m : i \in 1 .. n
        BY <1>1, <1>2, <1>9
    <2> QED
        BY <1>1, <1>9, <2>1 DEF Numbered, Single
<1>7. None \in TerminalEvent /\ None.id = 0
    BY DEF None, Event, TerminalEvent
<1>8. \/ b.pending = None /\ r = m
      \/ b.pending # None /\ b.pending.id = k + r /\ r = m + 1 /\ b.pending \in TerminalEvent
    <2>1. CASE r = m + 1 /\ r \in 1 .. n /\ b.pending = events[r]
        <3>1. b.pending.id = k + r /\ b.pending \in TerminalEvent
            BY <1>9, <2>1 DEF Numbered
        <3>2. k + r # 0
            BY <1>2, <2>1
        <3> QED
            BY <1>7, <2>1, <3>1, <3>2
    <2> QED
        BY <1>1, <1>9, <2>1
<1> QED
    <2>1. r \in Nat /\ n = r + Len(rest)
        BY <1>2, <1>4
    <2> QED
        BY <1>1, <1>4, <1>5, <1>6, <1>7, <1>8, <1>9, <2>1 DEF rest

-----------------------------------------------------------------------------
(* The initial state, and each step. *)

LEMMA SourcesParts ==
    ASSUME SourcesInv
    PROVE  /\ terminal.typed \in Seq(TerminalEvent) /\ terminal.batch \in Seq(TerminalEvent)
           /\ terminal.pending \in TerminalEvent /\ terminal.handled \in Seq(TerminalEvent)
           /\ terminal \in Terminals(Seq(TerminalEvent), TerminalEvent)
           /\ server \in Servers(Seq(Requests)) /\ server.queue \in Seq(Requests)
           /\ server.at \in ServerStates /\ server.stopped \in BOOLEAN
           /\ loop \in [at : LoopStates, shown : Nat]
           /\ counts \in [events : Nat, requests : Nat, changes : Nat]
           /\ Handled \in Nat /\ HeldBack \in {0, 1} /\ Taken \in Nat
           /\ Len(terminal.batch) \in Nat /\ Len(terminal.typed) \in Nat
           /\ Taken = Handled + Len(terminal.batch) + HeldBack
<1>1. /\ terminal.typed \in Seq(TerminalEvent) /\ terminal.batch \in Seq(TerminalEvent)
      /\ terminal.pending \in TerminalEvent /\ terminal.handled \in Seq(TerminalEvent)
    BY TerminalParts DEF SourcesInv, Typed
<1>2. /\ server.queue \in Seq(Requests)
      /\ server.at \in ServerStates /\ server.stopped \in BOOLEAN
    BY ServerParts DEF SourcesInv, Typed
<1>3. Handled \in Nat /\ Len(terminal.batch) \in Nat /\ Len(terminal.typed) \in Nat
    BY <1>1 DEF Handled
<1> QED
    <2>1. HeldBack \in {0, 1} /\ Taken = Handled + Len(terminal.batch) + HeldBack
        BY DEF HeldBack, Taken
    <2>2. Taken \in Nat
        BY <1>3, <2>1
    <2> QED
        BY <1>1, <1>2, <1>3, <2>1, <2>2 DEF SourcesInv, Typed

LEMMA SourcesStart ==
    ASSUME MaxBatch \in Nat \ {0}, Capacity \in Nat \ {0}, Init
    PROVE  SourcesInv
<1>1. None \in TerminalEvent
    BY DEF None, Event, TerminalEvent
<1>2. /\ terminal \in Terminals(Seq(TerminalEvent), TerminalEvent)
      /\ terminal.batch = <<>> /\ terminal.typed = <<>> /\ terminal.handled = <<>>
      /\ terminal.pending = None
    BY <1>1, Empty DEF Init, Terminals
<1>3. server \in Servers(Seq(Requests)) /\ server.queue = <<>> /\ ~ server.stopped
    BY DEF Init, Servers, ServerStates
<1>4. NotWoken(<<>>)
    BY DEF NotWoken
<1>5. loop \in [at : LoopStates, shown : Nat] /\ loop.at = "draw" /\ loop.shown = 0
    BY DEF Init, LoopStates
<1>6. Typed
    BY <1>2, <1>3, <1>5, Empty DEF Init, Typed
<1>7. Handled = 0 /\ HeldBack = 0 /\ Taken = 0
    BY <1>2, Empty DEF Handled, Taken, HeldBack
<1>8. InOrder /\ Drawn
    BY <1>2, <1>5, <1>7, Empty DEF Init, InOrder, Drawn
<1> QED
    BY <1>3, <1>4, <1>5, <1>6, <1>8 DEF Init, SourcesInv, NoSignalIsLost, Woken

LEMMA TypePreserves ==
    ASSUME MaxBatch \in Nat \ {0}, Capacity \in Nat \ {0}, SourcesInv, Type
    PROVE  SourcesInv'
<1>1. PICK passive \in BOOLEAN :
         terminal' = [terminal EXCEPT !.typed = Append(@, Event(counts'.events, passive))]
    BY DEF Type
<1> DEFINE event == Event(counts'.events, passive)
           next == Append(terminal.typed, event)
<1>2. /\ counts' \in [events : Nat, requests : Nat, changes : Nat]
      /\ counts'.events = counts.events + 1 /\ counts.events \in Nat
    BY SourcesParts, CountsMade DEF Type
<1>3. event \in TerminalEvent /\ event.id = counts.events + 1
    BY <1>2 DEF Event, TerminalEvent
<1>4. terminal' = [terminal EXCEPT !.typed = next]
    BY <1>1
<1> HIDE DEF event
<1>5. /\ Numbered(terminal.typed, Taken) /\ counts.events = Taken + Len(terminal.typed)
    BY DEF SourcesInv, InOrder
<1>6. event.id = Taken + Len(terminal.typed) + 1
    BY <1>3, <1>5
<1>7. next \in Seq(TerminalEvent) /\ Len(next) = Len(terminal.typed) + 1 /\ Numbered(next, Taken)
    BY <1>3, <1>5, <1>6, SourcesParts, Appending
<1> HIDE DEF next
<1>8. /\ terminal' \in Terminals(Seq(TerminalEvent), TerminalEvent)
      /\ terminal'.typed = next /\ terminal'.batch = terminal.batch
      /\ terminal'.pending = terminal.pending /\ terminal'.handled = terminal.handled
    BY <1>4, <1>7, SourcesParts DEF Terminals
<1>9. Handled' = Handled /\ HeldBack' = HeldBack /\ Taken' = Taken
    BY <1>8 DEF Handled, HeldBack, Taken
<1>10. InOrder'
    <2>1. terminal'.pending # None' => terminal'.pending.id = Taken'
        BY <1>8, <1>9 DEF SourcesInv, InOrder, None, Event
    <2>2. counts'.events = Taken' + Len(terminal'.typed)
        <3>1. Taken \in Nat /\ Len(terminal.typed) \in Nat
            BY SourcesParts
        <3> QED
            <4>1. Len(terminal'.typed) = Len(terminal.typed) + 1
                BY <1>7, <1>8
            <4> QED
                BY <1>2, <1>5, <1>9, <3>1, <4>1
    <2> QED
        BY <1>7, <1>8, <1>9, <2>1, <2>2 DEF SourcesInv, InOrder
<1>11. Typed' /\ Drawn'
    BY <1>2, <1>8, <1>9 DEF Type, SourcesInv, Typed, Drawn
<1> QED
    BY <1>10, <1>11 DEF Type, SourcesInv, NoSignalIsLost, Woken

(* What leaves the terminal and the drawing alone keeps their order. *)
LEMMA OrderStays ==
    ASSUME UNCHANGED <<terminal, loop, counts.events>>, SourcesInv
    PROVE  InOrder' /\ Drawn'
BY DEF SourcesInv, InOrder, Drawn, Handled, Taken, HeldBack

LEMMA ConnectPreserves ==
    ASSUME MaxBatch \in Nat \ {0}, Capacity \in Nat \ {0}, SourcesInv, Connect
    PROVE  SourcesInv'
<1>1. PICK kind \in {"delivery", "other", "broken", "remote"} :
         server' = [server EXCEPT !.queue = Append(@, kind)]
    BY DEF Connect
<1>2. kind \in Requests /\ kind # "self"
    BY DEF Requests
<1> DEFINE next == Append(server.queue, kind)
<1>3. /\ next \in Seq(Requests) /\ next # <<>> /\ (NotWoken(server.queue) => NotWoken(next))
    BY <1>2, SourcesParts, Queueing
<1>4. server' = [server EXCEPT !.queue = next]
    BY <1>1
<1> HIDE DEF next
<1>5. /\ server' \in Servers(Seq(Requests)) /\ server'.queue = next
      /\ server'.at = server.at /\ server'.stopped = server.stopped
    BY <1>3, <1>4, SourcesParts DEF Servers
<1>6. /\ counts' \in [events : Nat, requests : Nat, changes : Nat]
      /\ counts'.events = counts.events
    BY SourcesParts, CountsMade DEF Connect
<1>7. UNCHANGED <<terminal, channel, signal, loop, owed>>
    BY DEF Connect
<1>8. InOrder' /\ Drawn'
    BY <1>6, <1>7, OrderStays
<1>9. Typed'
    BY <1>5, <1>6, <1>7 DEF SourcesInv, Typed
<1>10. Woken'
    BY <1>3, <1>5, <1>7 DEF SourcesInv, Woken
<1> QED
    BY <1>5, <1>7, <1>8, <1>9, <1>10 DEF SourcesInv, NoSignalIsLost

LEMMA ChangePreserves ==
    ASSUME MaxBatch \in Nat \ {0}, Capacity \in Nat \ {0}, SourcesInv, Change
    PROVE  SourcesInv'
<1>1. /\ counts' \in [events : Nat, requests : Nat, changes : Nat]
      /\ counts'.events = counts.events
    BY SourcesParts, CountsMade DEF Change
<1>2. UNCHANGED <<terminal, server, channel, loop>>
    BY DEF Change
<1>3. /\ signal' \in {0, 1} /\ owed' \subseteq {"delivery", "change"}
      /\ "change" \in owed' => signal' = 1
      /\ "delivery" \in owed' => "delivery" \in owed
    BY DEF Change, SourcesInv, Typed, NoSignalIsLost
<1>4. InOrder' /\ Drawn'
    BY <1>1, <1>2, OrderStays
<1>5. Typed'
    BY <1>1, <1>2, <1>3 DEF SourcesInv, Typed
<1> QED
    BY <1>2, <1>3, <1>4, <1>5 DEF SourcesInv, NoSignalIsLost, Woken

LEMMA AcceptPreserves ==
    ASSUME MaxBatch \in Nat \ {0}, Capacity \in Nat \ {0}, SourcesInv, Accept
    PROVE  SourcesInv'
<1> DEFINE next == IF server.stopped THEN "exited"
                   ELSE IF Head(server.queue) = "remote" THEN "accept" ELSE Head(server.queue)
           rest == Tail(server.queue)
<1>1. /\ rest \in Seq(Requests) /\ Head(server.queue) \in Requests
      /\ NotWoken(server.queue) => Head(server.queue) # "self" /\ NotWoken(rest)
    BY SourcesParts, Dequeueing DEF Accept
<1>2. /\ server' = [server EXCEPT !.queue = rest, !.at = next]
      /\ UNCHANGED <<terminal, channel, signal, loop, owed, counts>> /\ server.at = "accept"
    BY DEF Accept
<1>3. next \in ServerStates /\ (server.stopped => next = "exited")
    BY <1>1, SourcesParts DEF ServerStates, Requests, SourcesInv, Woken
<1> HIDE DEF next, rest
<1>4. /\ server' \in Servers(Seq(Requests)) /\ server'.queue = rest
      /\ server'.at = next /\ server'.stopped = server.stopped
    BY <1>1, <1>2, <1>3, SourcesParts DEF Servers
<1>5. InOrder' /\ Drawn'
    BY <1>2, OrderStays
<1>6. Typed'
    BY <1>2, <1>4 DEF SourcesInv, Typed
<1>7. Woken'
    BY <1>1, <1>2, <1>3, <1>4 DEF SourcesInv, Woken
<1> QED
    BY <1>2, <1>5, <1>6, <1>7 DEF SourcesInv, NoSignalIsLost

LEMMA ServePreserves ==
    ASSUME MaxBatch \in Nat \ {0}, Capacity \in Nat \ {0}, SourcesInv, Answer \/ Send
    PROVE  SourcesInv'
<1>1. UNCHANGED <<terminal, signal, loop, counts>>
    BY DEF Answer, Send
<1>2. InOrder' /\ Drawn'
    BY <1>1, OrderStays
<1>3. PICK l \in {"send", "accept"} :
         /\ server' = [server EXCEPT !.at = l]
         /\ Answer /\ server.at = "delivery" => l = "send"
         /\ server.at # "exited"
    BY DEF Answer, Send
<1>4. /\ server' \in Servers(Seq(Requests)) /\ server'.queue = server.queue
      /\ server'.at = l /\ server'.stopped = server.stopped
    <2>1. l \in ServerStates
        BY <1>3 DEF ServerStates
    <2> QED
        BY <1>3, <2>1, SourcesParts DEF Servers
<1>5. Woken'
    BY <1>1, <1>3, <1>4 DEF SourcesInv, Woken
<1>6. CASE Answer
    <2>1. Typed'
        BY <1>1, <1>4, <1>6 DEF Answer, SourcesInv, Typed
    <2>2. NoSignalIsLost'
        BY <1>1, <1>3, <1>4, <1>6 DEF Answer, SourcesInv, NoSignalIsLost
    <2> QED
        BY <1>2, <1>5, <2>1, <2>2 DEF SourcesInv
<1>7. CASE Send
    <2>1. channel' \in 0 .. Capacity /\ channel' > 0 /\ owed' = owed
        BY <1>7 DEF Send, SourcesInv, Typed
    <2>2. Typed'
        BY <1>1, <1>4, <2>1 DEF SourcesInv, Typed
    <2>3. NoSignalIsLost'
        BY <1>1, <2>1 DEF SourcesInv, NoSignalIsLost
    <2> QED
        BY <1>2, <1>5, <2>2, <2>3 DEF SourcesInv
<1> QED
    BY <1>6, <1>7

LEMMA LoopPreserves ==
    ASSUME MaxBatch \in Nat \ {0}, Capacity \in Nat \ {0}, SourcesInv, Draw \/ Drain \/ BatchDone
    PROVE  SourcesInv'
<1>1. UNCHANGED <<terminal, counts, server>>
    BY DEF Draw, Drain, BatchDone
<1>2. Handled' = Handled /\ HeldBack' = HeldBack /\ Taken' = Taken /\ Handled \in Nat
    BY <1>1, SourcesParts DEF Handled, HeldBack, Taken
<1>3. InOrder'
    BY <1>1, <1>2 DEF SourcesInv, InOrder
<1>4. CASE Draw
    <2>1. /\ loop' = [loop EXCEPT !.at = "deliveries", !.shown = Handled]
          /\ loop.at = "draw" /\ UNCHANGED <<channel, signal, owed>>
        BY <1>4 DEF Draw
    <2>2. loop' \in [at : LoopStates, shown : Nat] /\ loop'.at = "deliveries" /\ loop'.shown = Handled
        <3>1. "deliveries" \in LoopStates
            BY DEF LoopStates
        <3> QED
            BY <1>2, <2>1, <3>1, SourcesParts, LoopMade
    <2>3. Typed' /\ Drawn'
        BY <1>1, <1>2, <2>1, <2>2 DEF SourcesInv, Typed, Drawn
    <2> QED
        BY <1>1, <1>3, <2>1, <2>2, <2>3 DEF SourcesInv, NoSignalIsLost, Woken
<1>5. CASE Drain
    <2>1. /\ loop' = [loop EXCEPT !.at = "input"] /\ loop.at = "deliveries"
          /\ \/ /\ signal' = 0 /\ channel' = 0
                /\ owed' = owed \ ((IF signal > 0 THEN {"change"} ELSE {})
                                   \cup (IF channel > 0 THEN {"delivery"} ELSE {}))
             \/ UNCHANGED <<signal, channel, owed>>
        BY <1>5 DEF Drain
    <2>2. loop' \in [at : LoopStates, shown : Nat] /\ loop'.at = "input" /\ loop'.shown = loop.shown
        <3>1. "input" \in LoopStates
            BY DEF LoopStates
        <3> QED
            BY <2>1, <3>1, SourcesParts, LoopMade
    <2>3. Typed' /\ Drawn'
        BY <1>1, <1>2, <2>1, <2>2 DEF SourcesInv, Typed, Drawn
    <2>4. NoSignalIsLost'
        BY <1>1, <2>1 DEF SourcesInv, Typed, NoSignalIsLost
    <2> QED
        BY <1>1, <1>3, <2>2, <2>3, <2>4 DEF SourcesInv, Woken
<1>6. CASE BatchDone
    <2>1. PICK l \in {"deliveries", "draw"} :
             /\ loop' = [loop EXCEPT !.at = l] /\ terminal.batch = <<>>
             /\ l = "deliveries" => loop.shown = Handled
             /\ UNCHANGED <<channel, signal, owed>>
        BY <1>6 DEF BatchDone
    <2>2. loop' \in [at : LoopStates, shown : Nat] /\ loop'.at = l /\ loop'.shown = loop.shown
        <3>1. l \in LoopStates
            BY DEF LoopStates
        <3> QED
            BY <2>1, <3>1, SourcesParts, LoopMade
    <2>3. Typed' /\ Drawn'
        BY <1>1, <1>2, <2>1, <2>2 DEF SourcesInv, Typed, Drawn
    <2> QED
        BY <1>1, <1>3, <2>1, <2>2, <2>3 DEF SourcesInv, NoSignalIsLost, Woken
<1> QED
    BY <1>4, <1>5, <1>6

LEMMA StopPreserves ==
    ASSUME MaxBatch \in Nat \ {0}, Capacity \in Nat \ {0}, SourcesInv, Stop
    PROVE  SourcesInv'
<1>1. UNCHANGED <<terminal, channel, signal, owed, counts>> /\ loop.at = "stopping"
    BY DEF Stop
<1>2. Handled' = Handled /\ HeldBack' = HeldBack /\ Taken' = Taken
    BY <1>1 DEF Handled, HeldBack, Taken
<1>3. InOrder'
    BY <1>1, <1>2 DEF SourcesInv, InOrder
<1>4. CASE ~ server.stopped /\ server' = [server EXCEPT !.stopped = TRUE] /\ UNCHANGED loop
    <2>1. /\ server' \in Servers(Seq(Requests)) /\ server'.queue = server.queue
          /\ server'.at = server.at /\ server'.stopped
        <3>1. "accept" \in ServerStates
            BY DEF ServerStates
        <3> QED
            BY <1>4, <3>1, SourcesParts DEF Servers
    <2>2. Typed' /\ Drawn'
        BY <1>1, <1>2, <1>4, <2>1 DEF SourcesInv, Typed, Drawn
    <2> QED
        BY <1>1, <1>3, <1>4, <2>1, <2>2 DEF SourcesInv, NoSignalIsLost, Woken
<1>5. CASE /\ server.stopped
           /\ server' = [server EXCEPT !.queue = Append(@, "self")]
           /\ loop' = [loop EXCEPT !.at = "left"]
    <2> DEFINE next == Append(server.queue, "self")
    <2>1. next \in Seq(Requests) /\ next # <<>>
        <3>1. "self" \in Requests
            BY DEF Requests
        <3> QED
            BY <3>1, SourcesParts, Queueing
    <2>2. server' = [server EXCEPT !.queue = next]
        BY <1>5
    <2> HIDE DEF next
    <2>3. /\ server' \in Servers(Seq(Requests)) /\ server'.queue = next
          /\ server'.at = server.at /\ server'.stopped = server.stopped
        <3>1. "accept" \in ServerStates
            BY DEF ServerStates
        <3> QED
            BY <2>1, <2>2, <3>1, SourcesParts DEF Servers
    <2>4. loop' \in [at : LoopStates, shown : Nat] /\ loop'.at = "left" /\ loop'.shown = loop.shown
        <3>1. "left" \in LoopStates
            BY DEF LoopStates
        <3> QED
            BY <1>5, <3>1, SourcesParts, LoopMade
    <2>5. Typed' /\ Drawn'
        BY <1>1, <1>2, <2>3, <2>4 DEF SourcesInv, Typed, Drawn
    <2> QED
        BY <1>1, <1>3, <1>5, <2>1, <2>3, <2>5 DEF SourcesInv, NoSignalIsLost, Woken
<1> QED
    BY <1>4, <1>5 DEF Stop

(* What a batch took is moved, and neither lost nor handled twice. *)
LEMMA ReadBatchPreserves ==
    ASSUME MaxBatch \in Nat \ {0}, Capacity \in Nat \ {0}, SourcesInv, ReadBatch
    PROVE  SourcesInv'
<1>1. /\ loop.at = "input" /\ loop' = [loop EXCEPT !.at = "handle"]
      /\ UNCHANGED <<server, channel, signal, owed, counts>>
      /\ terminal.batch = <<>> /\ loop.shown = Handled
    BY DEF ReadBatch, SourcesInv, Drawn
<1>2. loop' \in [at : LoopStates, shown : Nat] /\ loop'.at = "handle" /\ loop'.shown = Handled
    <2>1. "handle" \in LoopStates
        BY DEF LoopStates
    <2> QED
        BY <1>1, <2>1, SourcesParts, LoopMade
<1>3. Len(terminal.batch) = 0 /\ Taken = Handled + HeldBack
    BY <1>1, Empty, SourcesParts
<1>4. SUFFICES /\ terminal' \in Terminals(Seq(TerminalEvent), TerminalEvent)
               /\ Len(terminal'.batch) <= MaxBatch /\ InOrder' /\ Single(terminal'.batch)
               /\ Handled' = Handled
    BY <1>1, <1>2 DEF SourcesInv, Typed, Drawn, NoSignalIsLost, Woken
<1>5. CASE terminal.pending # None
    <2> DEFINE next == <<terminal.pending>>
    <2>1. terminal' = [terminal EXCEPT !.batch = next, !.pending = None]
        BY <1>5 DEF ReadBatch
    <2>2. HeldBack = 1 /\ Taken = Handled + 1 /\ terminal.pending.id = Handled + 1
        BY <1>3, <1>5, SourcesParts DEF HeldBack, SourcesInv, InOrder
    <2>3. next \in Seq(TerminalEvent) /\ Len(next) = 1 /\ Numbered(next, Handled) /\ Single(next)
        BY <2>2, SourcesParts, Alone
    <2>4. None \in TerminalEvent
        BY DEF None, Event, TerminalEvent
    <2> HIDE DEF next
    <2>5. /\ terminal' \in Terminals(Seq(TerminalEvent), TerminalEvent)
          /\ terminal'.typed = terminal.typed /\ terminal'.batch = next
          /\ terminal'.pending = None /\ terminal'.handled = terminal.handled
        BY <2>1, <2>3, <2>4, SourcesParts DEF Terminals
    <2>6. Handled' = Handled /\ HeldBack' = 0
        BY <2>5 DEF Handled, HeldBack, None, Event
    <2>7. Taken' = Taken
        <3>1. Taken' = Handled' + Len(terminal'.batch) + HeldBack'
            BY DEF Taken
        <3>2. Handled \in Nat
            BY SourcesParts
        <3> QED
            BY <2>2, <2>3, <2>5, <2>6, <3>1, <3>2
    <2>8. InOrder'
        <3>1. terminal'.pending # None' => terminal'.pending.id = Taken'
            BY <2>5 DEF None, Event
        <3> QED
            BY <1>1, <2>3, <2>5, <2>6, <2>7, <3>1 DEF SourcesInv, InOrder
    <2> QED
        <3>1. Len(terminal'.batch) = 1
            BY <2>3, <2>5
        <3>2. Len(terminal'.batch) <= MaxBatch
            BY <3>1
        <3>3. Single(terminal'.batch)
            BY <2>3, <2>5
        <3> QED
            BY <2>5, <2>6, <2>8, <3>2, <3>3
<1>6. CASE terminal.pending = None
    <2>1. PICK b \in Batches(terminal.typed) :
             terminal' = [terminal EXCEPT !.batch = b.batch, !.pending = b.pending,
                             !.typed = SubSeq(@, b.read + 1, Len(@))]
        BY <1>6 DEF ReadBatch
    <2>2. Taken = Handled /\ Numbered(terminal.typed, Handled)
        BY <1>3, <1>6, SourcesParts DEF HeldBack, SourcesInv, InOrder
    <2> DEFINE rest == SubSeq(terminal.typed, b.read + 1, Len(terminal.typed))
    <2>3. /\ b.batch \in Seq(TerminalEvent) /\ Len(b.batch) <= MaxBatch
          /\ b.pending \in TerminalEvent /\ rest \in Seq(TerminalEvent)
          /\ Numbered(b.batch, Handled) /\ Single(b.batch) /\ Numbered(rest, Handled + b.read)
          /\ b.read \in Nat /\ Len(terminal.typed) = b.read + Len(rest)
          /\ \/ b.pending = None /\ b.read = Len(b.batch)
             \/ b.pending # None /\ b.pending.id = Handled + b.read /\ b.read = Len(b.batch) + 1
        <3>1. terminal.typed \in Seq(TerminalEvent) /\ Handled \in Nat
            BY SourcesParts
        <3> QED
            BY <2>2, <3>1, BatchesDivide
    <2>4. terminal' = [terminal EXCEPT !.batch = b.batch, !.pending = b.pending, !.typed = rest]
        BY <2>1
    <2> HIDE DEF rest
    <2>5. /\ terminal' \in Terminals(Seq(TerminalEvent), TerminalEvent)
          /\ terminal'.typed = rest /\ terminal'.batch = b.batch
          /\ terminal'.pending = b.pending /\ terminal'.handled = terminal.handled
        BY <2>3, <2>4, SourcesParts DEF Terminals
    <2>6. Len(b.batch) \in Nat /\ Len(rest) \in Nat
        BY <2>3
    <2>7. None' = None
        BY DEF None, Event
    <2>8. Handled' = Handled /\ Taken' = Handled + b.read
        <3>1. Handled' = Handled
            BY <2>5 DEF Handled
        <3>2. Taken' = Handled' + Len(terminal'.batch) + HeldBack'
            BY DEF Taken
        <3>3. HeldBack' = IF b.pending = None THEN 0 ELSE 1
            BY <2>5, <2>7 DEF HeldBack
        <3>4. Handled \in Nat
            BY SourcesParts
        <3>5. Len(b.batch) + HeldBack' = b.read
            <4>1. CASE b.pending = None /\ b.read = Len(b.batch)
                BY <2>6, <3>3, <4>1
            <4>2. CASE b.pending # None /\ b.read = Len(b.batch) + 1
                BY <2>6, <3>3, <4>2
            <4> QED
                BY <2>3, <4>1, <4>2
        <3>6. HeldBack' \in {0, 1}
            BY <3>3
        <3> QED
            BY <2>5, <2>6, <3>1, <3>2, <3>4, <3>5, <3>6
    <2>9. InOrder'
        <3>1. terminal'.pending # None' => terminal'.pending.id = Taken'
            BY <2>3, <2>5, <2>7, <2>8
        <3>2. counts'.events = Taken' + Len(terminal'.typed)
            BY <1>1, <2>2, <2>3, <2>5, <2>6, <2>8, SourcesParts DEF SourcesInv, InOrder
        <3> QED
            BY <2>3, <2>5, <2>8, <3>1, <3>2 DEF SourcesInv, InOrder
    <2> QED
        BY <2>3, <2>5, <2>8, <2>9
<1> QED
    BY <1>5, <1>6

LEMMA HandleEventPreserves ==
    ASSUME MaxBatch \in Nat \ {0}, Capacity \in Nat \ {0}, SourcesInv, HandleEvent
    PROVE  SourcesInv'
<1> DEFINE event == Head(terminal.batch)
           next == Append(terminal.handled, event)
           rest == Tail(terminal.batch)
<1>1. /\ event \in TerminalEvent /\ event.id = Handled + 1
      /\ rest \in Seq(TerminalEvent) /\ Len(rest) = Len(terminal.batch) - 1
      /\ Len(terminal.batch) \in Nat \ {0}
      /\ Numbered(rest, Handled + 1) /\ Passive(rest) /\ Single(rest)
    BY SourcesParts, Taking DEF HandleEvent, SourcesInv, InOrder, Drawn
<1> HIDE DEF event, rest
<1>2. next \in Seq(TerminalEvent) /\ Len(next) = Handled + 1 /\ Numbered(next, 0)
    <2>1. event.id = 0 + Len(terminal.handled) + 1
        BY <1>1, SourcesParts DEF Handled
    <2> QED
        BY <1>1, <2>1, SourcesParts, Appending DEF SourcesInv, InOrder, Handled
<1>3. /\ terminal' = [terminal EXCEPT !.handled = next, !.batch = rest]
      /\ UNCHANGED <<server, channel, signal, owed, counts>> /\ loop.at = "handle"
    BY DEF HandleEvent, event, rest
<1> HIDE DEF next
<1>4. /\ terminal' \in Terminals(Seq(TerminalEvent), TerminalEvent)
      /\ terminal'.typed = terminal.typed /\ terminal'.batch = rest
      /\ terminal'.pending = terminal.pending /\ terminal'.handled = next
    BY <1>1, <1>2, <1>3, SourcesParts DEF Terminals
<1>5. /\ loop' \in [at : LoopStates, shown : Nat] /\ loop'.at \in {"handle", "stopping"}
    <2>1. "stopping" \in LoopStates /\ (loop' = loop \/ loop' = [loop EXCEPT !.at = "stopping"])
        BY DEF HandleEvent, LoopStates
    <2> QED
        <3>1. loop \in [at : LoopStates, shown : Nat] /\ loop.at = "handle"
            BY <1>3, SourcesParts
        <3>2. CASE loop' = loop
            BY <3>1, <3>2
        <3>3. CASE loop' = [loop EXCEPT !.at = "stopping"]
            BY <2>1, <3>1, <3>3, LoopMade
        <3> QED
            BY <2>1, <3>2, <3>3
<1>6. Handled' = Handled + 1 /\ HeldBack' = HeldBack /\ Taken' = Taken
    <2>1. Handled' = Handled + 1 /\ HeldBack' = HeldBack
        BY <1>2, <1>4 DEF Handled, HeldBack, None, Event
    <2>2. Taken' = Handled' + Len(terminal'.batch) + HeldBack'
        BY DEF Taken
    <2>3. /\ Handled \in Nat /\ HeldBack \in {0, 1}
          /\ Taken = Handled + Len(terminal.batch) + HeldBack
        BY SourcesParts
    <2>4. Len(terminal'.batch) = Len(terminal.batch) - 1 /\ Len(terminal.batch) \in Nat
        BY <1>1, <1>4
    <2>5. \A a, b, h \in Nat : (a + 1) + (b - 1) + h = a + b + h
        OBVIOUS
    <2>6. Taken' = Taken
        <3>1. Taken' = (Handled + 1) + (Len(terminal.batch) - 1) + HeldBack
            BY <2>1, <2>2, <2>4
        <3>2. HeldBack \in Nat
            BY <2>3
        <3> QED
            BY ZenonT(30), <2>3, <2>4, <2>5, <3>1, <3>2
    <2> QED
        BY <2>1, <2>2, <2>3, <2>4, <2>6
<1>7. InOrder'
    BY <1>1, <1>2, <1>3, <1>4, <1>6 DEF SourcesInv, InOrder
<1>8. Typed'
    BY <1>1, <1>3, <1>4, <1>5 DEF SourcesInv, Typed
<1>9. Drawn'
    BY <1>1, <1>4, <1>5 DEF Drawn
<1> QED
    BY <1>3, <1>5, <1>7, <1>8, <1>9 DEF SourcesInv, NoSignalIsLost, Woken

LEMMA SourcesStep ==
    ASSUME MaxBatch \in Nat \ {0}, Capacity \in Nat \ {0}, SourcesInv, [Next]_sourceVars
    PROVE  SourcesInv'
<1>1. CASE UNCHANGED sourceVars
    <2>1. UNCHANGED <<terminal, server, channel, signal, loop, owed, counts>>
        BY <1>1 DEF sourceVars
    <2>2. InOrder' /\ Drawn'
        BY <2>1, OrderStays
    <2> QED
        BY <2>1, <2>2 DEF SourcesInv, Typed, NoSignalIsLost, Woken
<1> QED
    BY <1>1, TypePreserves, ConnectPreserves, ChangePreserves, AcceptPreserves, ServePreserves,
       LoopPreserves, StopPreserves, ReadBatchPreserves, HandleEventPreserves DEF Next

LEMMA SourcesAreSound ==
    ASSUME SourcesInv
    PROVE  TypeOK /\ EventsMeanWhatIsShown /\ NoSignalIsLost /\ ListenerStops
<1>1. TypeOK
    BY SourcesParts DEF SourcesInv, Typed, TypeOK, ServerStates, LoopStates
<1>2. EventsMeanWhatIsShown
    <2>1. DOMAIN terminal.handled = 1 .. Len(terminal.handled)
        BY SourcesParts
    <2>2. \A i \in DOMAIN terminal.handled : terminal.handled[i].id = i
        <3>1. \A i \in 1 .. Len(terminal.handled) : terminal.handled[i].id = 0 + i
            BY DEF SourcesInv, InOrder, Numbered
        <3> QED
            BY <2>1, <3>1
    <2>3. terminal.batch # <<>> =>
             1 \in 1 .. Len(terminal.batch) /\ Head(terminal.batch) = terminal.batch[1]
        BY SourcesParts
    <2>4. Passive(terminal.batch) \/ loop.shown = Handled
        BY DEF SourcesInv, Drawn
    <2> QED
        BY <2>2, <2>3, <2>4 DEF Passive, EventsMeanWhatIsShown
<1>3. NoSignalIsLost /\ ListenerStops
    BY DEF SourcesInv, Woken, ListenerStops
<1> QED
    BY <1>1, <1>2, <1>3

(* Whatever is typed, delivered and changed: a key or click means what was    *)
(* drawn, events are handled in the order of typing, no signal is lost and    *)
(* the listener of an interface that left is woken.                           *)
THEOREM SourcesStaySound ==
    ASSUME MaxBatch \in Nat \ {0}, Capacity \in Nat \ {0}
    PROVE  Spec => [](TypeOK /\ EventsMeanWhatIsShown /\ NoSignalIsLost /\ ListenerStops)
<1>1. Init => SourcesInv
    BY SourcesStart
<1>2. SourcesInv /\ [Next]_sourceVars => SourcesInv'
    BY SourcesStep
<1>3. SourcesInv => TypeOK /\ EventsMeanWhatIsShown /\ NoSignalIsLost /\ ListenerStops
    BY SourcesAreSound
<1> QED
    BY <1>1, <1>2, <1>3, PTL DEF Spec
=============================================================================
