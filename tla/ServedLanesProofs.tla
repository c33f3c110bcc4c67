-------------------------- MODULE ServedLanesProofs --------------------------
(***************************************************************************)
(* What the steps of the lanes do to the commands that are on their way    *)
(* and to the answers that were not yet heard, for any commands, events    *)
(* and tables: nothing comes that was not sent.  The proofs about the      *)
(* interfaces that use the lanes rest on these facts.                      *)
(***************************************************************************)
EXTENDS ServedLanes, TLAPS, SequenceTheorems, WellFoundedInduction

Elements(s) == {s[i] : i \in DOMAIN s}

(* The commands have kinds, and those that are not queued have a slot. *)
Tabled(C) ==
    /\ LaneOf \in [Kinds -> Lanes]
    /\ \A c \in C : c.kind \in Kinds /\ (IsOperation(c) \/ SlotOf[c.kind] \in Slots)

(* Every set of naturals has a least element: induction, where the library's  *)
(* induction theorems would take an operator.                                 *)
LEMMA LeastNatural ==
    ASSUME NEW T \in SUBSET Nat, T # {}
    PROVE  \E n \in T : \A m \in T : n <= m
<1>1. \E R : IsWellFoundedOn(R, Nat) /\ \A m, n \in Nat : m < n => <<m, n>> \in R
    <2>1. IsWellFoundedOn(OpToRel(<, Nat), Nat)
        BY NatLessThanWellFounded, Zenon
    <2>2. \A m, n \in Nat : m < n => <<m, n>> \in OpToRel(<, Nat)
        BY DEF OpToRel
    <2> QED
        BY <2>1, <2>2, Zenon
<1>2. PICK R : IsWellFoundedOn(R, Nat) /\ \A m, n \in Nat : m < n => <<m, n>> \in R
    BY <1>1
<1>3. IsWellFoundedOn(R, Nat) /\ T \subseteq Nat /\ T # {}
    BY <1>2
<1>4. PICK n \in T : \A m \in T : ~ (<<m, n>> \in R)
    BY ONLY <1>3, WFMin, Zenon
<1>5. \A m \in T : ~ (m < n)
    BY <1>2, <1>4
<1>6. \A m \in T : n <= m
    BY <1>3, <1>5
<1> QED
    BY <1>6

LEMMA TailElements ==
    ASSUME NEW S, NEW s \in Seq(S), s # <<>>
    PROVE  /\ Head(s) \in Elements(s) /\ Head(s) \in S
           /\ Elements(Tail(s)) \subseteq Elements(s)
           /\ Tail(s) \in Seq(S)
<1>1. /\ Tail(s) \in Seq(S) /\ Len(Tail(s)) = Len(s) - 1
      /\ \A i \in 1 .. Len(Tail(s)) : Tail(s)[i] = s[i + 1]
    BY HeadTailProperties
<1>2. DOMAIN s = 1 .. Len(s) /\ Len(s) \in Nat \ {0}
    BY LenProperties, EmptySeq
<1>3. DOMAIN Tail(s) = 1 .. Len(Tail(s))
    BY <1>1, LenProperties
<1>4. Head(s) = s[1]
    OBVIOUS
<1> QED
    BY <1>1, <1>2, <1>3, <1>4 DEF Elements

LEMMA AppendElements ==
    ASSUME NEW S, NEW s \in Seq(S), NEW e \in S
    PROVE  /\ Elements(Append(s, e)) = Elements(s) \cup {e}
           /\ Append(s, e) \in Seq(S)
<1>1. /\ Append(s, e) \in Seq(S) /\ Len(Append(s, e)) = Len(s) + 1
      /\ \A i \in 1 .. Len(s) : Append(s, e)[i] = s[i]
      /\ Append(s, e)[Len(s) + 1] = e
    BY AppendProperties
<1>2. DOMAIN s = 1 .. Len(s) /\ Len(s) \in Nat
    BY LenProperties
<1>3. DOMAIN Append(s, e) = 1 .. Len(s) + 1
    BY <1>1, LenProperties
<1> QED
    BY <1>1, <1>2, <1>3 DEF Elements

LEMMA ConcatElements ==
    ASSUME NEW S, NEW s \in Seq(S), NEW t \in Seq(S)
    PROVE  /\ Elements(s \o t) = Elements(s) \cup Elements(t)
           /\ s \o t \in Seq(S)
<1>1. /\ Len(s \o t) = Len(s) + Len(t) /\ s \o t \in Seq(S)
      /\ \A i \in 1 .. Len(s) + Len(t) :
            (s \o t)[i] = IF i <= Len(s) THEN s[i] ELSE t[i - Len(s)]
    BY ConcatProperties
<1>2. /\ DOMAIN s = 1 .. Len(s) /\ DOMAIN t = 1 .. Len(t) /\ DOMAIN (s \o t) = 1 .. Len(s) + Len(t)
      /\ Len(s) \in Nat /\ Len(t) \in Nat
    BY <1>1, LenProperties
<1>3. ASSUME NEW i \in DOMAIN (s \o t) PROVE (s \o t)[i] \in Elements(s) \cup Elements(t)
    <2>1. CASE i <= Len(s)
        BY <1>1, <1>2, <2>1 DEF Elements
    <2>2. CASE ~ (i <= Len(s))
        <3>1. i - Len(s) \in 1 .. Len(t)
            BY <1>2, <2>2
        <3> QED
            BY <1>1, <1>2, <2>2, <3>1 DEF Elements
    <2> QED
        BY <2>1, <2>2
<1>4. ASSUME NEW i \in DOMAIN s PROVE s[i] \in Elements(s \o t)
    BY <1>1, <1>2 DEF Elements
<1>5. ASSUME NEW i \in DOMAIN t PROVE t[i] \in Elements(s \o t)
    <2>1. i + Len(s) \in DOMAIN (s \o t) /\ (s \o t)[i + Len(s)] = t[i]
        BY <1>1, <1>2
    <2> QED
        BY <2>1 DEF Elements
<1> QED
    BY <1>1, <1>3, <1>4, <1>5 DEF Elements
-----------------------------------------------------------------------------
(* A mailbox. *)

LEMMA PushWaiting ==
    ASSUME NEW C, NEW m \in MailboxOf(C), NEW c \in C,
           IsOperation(c) \/ SlotOf[c.kind] \in Slots
    PROVE  /\ Push(m, c) \in MailboxOf(C)
           /\ Waiting(Push(m, c)) \subseteq Waiting(m) \cup {c}
<1>1. CASE IsOperation(c)
    <2>1. /\ Append(m.operations, c) \in Seq(C)
          /\ Elements(Append(m.operations, c)) = Elements(m.operations) \cup {c}
        BY AppendElements DEF MailboxOf
    <2>2. /\ Push(m, c) \in MailboxOf(C)
          /\ Push(m, c).operations = Append(m.operations, c) /\ Push(m, c).slots = m.slots
        BY <1>1, <2>1 DEF Push, MailboxOf
    <2> QED
        BY <2>1, <2>2 DEF Waiting, Full, Elements
<1>2. CASE ~ IsOperation(c)
    <2>1. /\ Push(m, c) \in MailboxOf(C) /\ Push(m, c).operations = m.operations
          /\ \A s \in Slots : Push(m, c).slots[s] = IF s = SlotOf[c.kind] THEN c ELSE m.slots[s]
        BY <1>2 DEF Push, MailboxOf
    <2> QED
        BY <2>1 DEF Waiting, Full
<1> QED
    BY <1>1, <1>2

LEMMA WithoutHeadWaiting ==
    ASSUME NEW C, NEW m \in MailboxOf(C), PopsOperation(m)
    PROVE  /\ WithoutHead(m) \in MailboxOf(C)
           /\ Head(m.operations) \in C /\ Head(m.operations) \in Waiting(m)
           /\ Waiting(WithoutHead(m)) \subseteq Waiting(m)
<1>1. m.operations \in Seq(C) /\ m.operations # <<>>
    BY DEF MailboxOf, PopsOperation
<1>2. /\ Tail(m.operations) \in Seq(C) /\ Head(m.operations) \in C
      /\ Head(m.operations) \in Elements(m.operations)
      /\ Elements(Tail(m.operations)) \subseteq Elements(m.operations)
    BY <1>1, TailElements
<1>3. /\ WithoutHead(m) \in MailboxOf(C) /\ WithoutHead(m).operations = Tail(m.operations)
      /\ WithoutHead(m).slots = m.slots
    BY <1>2 DEF WithoutHead, MailboxOf
<1> QED
    BY <1>2, <1>3 DEF Waiting, Full, Elements

LEMMA WithoutSlotWaiting ==
    ASSUME NEW C, NEW m \in MailboxOf(C), NEW s \in Slots, PopsSlot(m, s)
    PROVE  /\ WithoutSlot(m, s) \in MailboxOf(C)
           /\ m.slots[s] \in C /\ m.slots[s] # NoCommand /\ m.slots[s] \in Waiting(m)
           /\ Waiting(WithoutSlot(m, s)) \subseteq Waiting(m)
<1>1. s \in Full(m) /\ m.slots[s] # NoCommand /\ m.slots[s] \in C
    BY DEF MailboxOf, PopsSlot, Full
<1>2. /\ WithoutSlot(m, s) \in MailboxOf(C) /\ WithoutSlot(m, s).operations = m.operations
      /\ \A t \in Slots : WithoutSlot(m, s).slots[t] \in {NoCommand, m.slots[t]}
    BY <1>1 DEF WithoutSlot, MailboxOf
<1> QED
    BY <1>1, <1>2 DEF Waiting, Full
-----------------------------------------------------------------------------
(* The lanes. *)

LEMMA PlacesOnTheWay ==
    /\ \A i \in DOMAIN outbox : outbox[i] \in OnItsWay
    /\ \A l \in Lanes : Waiting(mailbox[l]) \subseteq OnItsWay
    /\ \A l \in Lanes : executing[l] # NoCommand => executing[l] \in OnItsWay
    /\ \A i \in DOMAIN answers : answers[i].command \in OnItsWay
BY DEF OnItsWay

LEMMA OnlyOnTheWay ==
    ASSUME NEW S,
           \A i \in DOMAIN outbox' : outbox'[i] \in S,
           \A l \in Lanes : Waiting(mailbox'[l]) \subseteq S,
           \A l \in Lanes : executing'[l] # NoCommand => executing'[l] \in S,
           \A i \in DOMAIN answers' : answers'[i].command \in S
    PROVE  OnItsWay' \subseteq S
<1> SUFFICES ASSUME NEW d \in OnItsWay' PROVE d \in S
    OBVIOUS
<1> QED
    BY DEF OnItsWay

LEMMA HandleOnItsWay ==
    ASSUME NEW C, NEW E, LaneTypeOK(C, E), NEW effects \in Seq(C), Handle(effects)
    PROVE  /\ LaneTypeOK(C, E)'
           /\ OnItsWay' \subseteq OnItsWay \cup Elements(effects)
           /\ UNCHANGED answers
BY DEF LaneTypeOK, Handle, OnItsWay, Elements

LEMMA HandleAnswerOnItsWay ==
    ASSUME NEW C, NEW E, LaneTypeOK(C, E), NEW effects \in Seq(C),
           answers # <<>>, HandleAnswer(effects)
    PROVE  /\ LaneTypeOK(C, E)'
           /\ OnItsWay' \subseteq OnItsWay \cup Elements(effects)
           /\ Elements(answers)' \subseteq Elements(answers)
           /\ Head(answers) \in E /\ Head(answers) \in Elements(answers)
           /\ Head(answers).command \in OnItsWay
<1>1. answers \in Seq(E) /\ answers' = Tail(answers)
    BY DEF LaneTypeOK, HandleAnswer
<1>2. /\ Head(answers) \in Elements(answers) /\ Head(answers) \in E
      /\ Elements(Tail(answers)) \subseteq Elements(answers)
      /\ Tail(answers) \in Seq(E)
    BY <1>1, TailElements
<1>3. LaneTypeOK(C, E)'
    BY <1>1, <1>2 DEF LaneTypeOK, HandleAnswer
<1>4. Elements(answers)' \subseteq Elements(answers)
    BY <1>1, <1>2 DEF Elements
<1>5. Head(answers).command \in OnItsWay
    BY <1>2, PlacesOnTheWay DEF Elements
<1>6. OnItsWay' \subseteq OnItsWay \cup Elements(effects)
    <2>1. \A i \in DOMAIN answers' : answers'[i].command \in OnItsWay
        BY <1>4, PlacesOnTheWay DEF Elements
    <2>2. \A i \in DOMAIN outbox' : outbox'[i] \in Elements(effects)
        BY DEF HandleAnswer, Elements
    <2> QED
        BY <2>1, <2>2, PlacesOnTheWay, OnlyOnTheWay DEF HandleAnswer
<1> QED
    BY <1>2, <1>3, <1>4, <1>5, <1>6

LEMMA AnswerOnItsWay ==
    ASSUME NEW C, NEW E, LaneTypeOK(C, E), NEW l \in Lanes, NEW event \in E,
           executing[l] # NoCommand, event.command = executing[l], Answer(l, event)
    PROVE  /\ LaneTypeOK(C, E)'
           /\ OnItsWay' \subseteq OnItsWay
           /\ Elements(answers)' = Elements(answers) \cup {event}
           /\ executing[l] \in OnItsWay
<1>1. /\ answers' = Append(answers, event)
      /\ executing' = [executing EXCEPT ![l] = NoCommand]
      /\ UNCHANGED <<outbox, mailbox>>
    BY DEF Answer
<1>2. answers \in Seq(E) /\ executing \in [Lanes -> C \cup {NoCommand}]
    BY DEF LaneTypeOK
<1>3. Append(answers, event) \in Seq(E)
      /\ Elements(Append(answers, event)) = Elements(answers) \cup {event}
    BY <1>2, AppendElements
<1>4. LaneTypeOK(C, E)'
    BY <1>1, <1>3 DEF LaneTypeOK
<1>5. Elements(answers)' = Elements(answers) \cup {event}
    BY <1>1, <1>3 DEF Elements
<1>6. executing[l] \in OnItsWay
    BY PlacesOnTheWay
<1>7. \A i \in DOMAIN answers' : answers'[i].command \in OnItsWay
    BY <1>5, <1>6, PlacesOnTheWay DEF Elements
<1>8. \A m \in Lanes : executing'[m] \in {executing[m], NoCommand}
    BY <1>1, <1>2
<1> QED
    BY <1>1, <1>4, <1>5, <1>6, <1>7, <1>8, PlacesOnTheWay, OnlyOnTheWay

LEMMA ServeOnItsWay ==
    ASSUME NEW C, NEW E, LaneTypeOK(C, E), Tabled(C), Serve
    PROVE  /\ LaneTypeOK(C, E)'
           /\ OnItsWay' \subseteq OnItsWay
           /\ UNCHANGED answers
<1>1. /\ outbox \in Seq(C) /\ mailbox \in [Lanes -> MailboxOf(C)]
      /\ executing \in [Lanes -> C \cup {NoCommand}]
    BY DEF LaneTypeOK
<1>2. CASE Dispatch
    <2> DEFINE c == Head(outbox)
               to == LaneOf[c.kind]
    <2>1. /\ outbox # <<>> /\ outbox' = Tail(outbox)
          /\ mailbox' = [mailbox EXCEPT ![to] = Push(@, c)]
          /\ UNCHANGED <<executing, answers>>
        BY <1>2 DEF Dispatch
    <2>2. /\ c \in C /\ c \in OnItsWay /\ Tail(outbox) \in Seq(C)
          /\ Elements(Tail(outbox)) \subseteq Elements(outbox)
        BY <1>1, <2>1, TailElements, PlacesOnTheWay DEF Elements
    <2>3. to \in Lanes /\ (IsOperation(c) \/ SlotOf[c.kind] \in Slots)
        BY <2>2 DEF Tabled
    <2> HIDE DEF c, to
    <2>4. /\ Push(mailbox[to], c) \in MailboxOf(C)
          /\ Waiting(Push(mailbox[to], c)) \subseteq Waiting(mailbox[to]) \cup {c}
        BY <1>1, <2>2, <2>3, PushWaiting
    <2>5. \A l \in Lanes : Waiting(mailbox'[l]) \subseteq OnItsWay
        BY <1>1, <2>1, <2>2, <2>3, <2>4, PlacesOnTheWay
    <2>6. \A i \in DOMAIN outbox' : outbox'[i] \in OnItsWay
        BY <2>1, <2>2, PlacesOnTheWay DEF Elements
    <2>7. LaneTypeOK(C, E)'
        BY <2>1, <2>2, <2>3, <2>4 DEF LaneTypeOK
    <2> QED
        BY <2>1, <2>5, <2>6, <2>7, PlacesOnTheWay, OnlyOnTheWay
<1>3. ASSUME NEW l \in Lanes, BeginOperation(l)
      PROVE  LaneTypeOK(C, E)' /\ OnItsWay' \subseteq OnItsWay /\ UNCHANGED answers
    <2> DEFINE c == Head(mailbox[l].operations)
    <2>1. /\ PopsOperation(mailbox[l])
          /\ mailbox' = [mailbox EXCEPT ![l] = WithoutHead(@)]
          /\ executing' = [executing EXCEPT ![l] = c]
          /\ UNCHANGED <<outbox, answers>>
        BY <1>3 DEF BeginOperation
    <2>2. /\ WithoutHead(mailbox[l]) \in MailboxOf(C) /\ c \in C /\ c \in Waiting(mailbox[l])
          /\ Waiting(WithoutHead(mailbox[l])) \subseteq Waiting(mailbox[l])
        BY <1>1, <2>1, WithoutHeadWaiting
    <2> HIDE DEF c
    <2>3. \A m \in Lanes : Waiting(mailbox'[m]) \subseteq OnItsWay
        BY <1>1, <2>1, <2>2, PlacesOnTheWay
    <2>4. \A m \in Lanes : executing'[m] # NoCommand => executing'[m] \in OnItsWay
        BY <1>1, <2>1, <2>2, PlacesOnTheWay
    <2>5. LaneTypeOK(C, E)'
        BY <2>1, <2>2 DEF LaneTypeOK
    <2> QED
        BY <2>1, <2>3, <2>4, <2>5, PlacesOnTheWay, OnlyOnTheWay
<1>4. ASSUME NEW l \in Lanes, NEW s \in Slots, BeginRead(l, s)
      PROVE  LaneTypeOK(C, E)' /\ OnItsWay' \subseteq OnItsWay /\ UNCHANGED answers
    <2> DEFINE c == mailbox[l].slots[s]
    <2>1. /\ PopsSlot(mailbox[l], s)
          /\ mailbox' = [mailbox EXCEPT ![l] = WithoutSlot(@, s)]
          /\ executing' = [executing EXCEPT ![l] = c]
          /\ UNCHANGED <<outbox, answers>>
        BY <1>4 DEF BeginRead
    <2>2. /\ WithoutSlot(mailbox[l], s) \in MailboxOf(C) /\ c \in C /\ c \in Waiting(mailbox[l])
          /\ Waiting(WithoutSlot(mailbox[l], s)) \subseteq Waiting(mailbox[l])
        BY <1>1, <2>1, WithoutSlotWaiting
    <2> HIDE DEF c
    <2>3. \A m \in Lanes : Waiting(mailbox'[m]) \subseteq OnItsWay
        BY <1>1, <2>1, <2>2, PlacesOnTheWay
    <2>4. \A m \in Lanes : executing'[m] # NoCommand => executing'[m] \in OnItsWay
        BY <1>1, <2>1, <2>2, PlacesOnTheWay
    <2>5. LaneTypeOK(C, E)'
        BY <2>1, <2>2 DEF LaneTypeOK
    <2> QED
        BY <2>1, <2>3, <2>4, <2>5, PlacesOnTheWay, OnlyOnTheWay
<1> QED
    BY <1>2, <1>3, <1>4 DEF Serve
-----------------------------------------------------------------------------
(* What is on its way stays on its way: a command leaves a mailbox only for    *)
(* its thread or when another takes its slot, and the channel when it is heard. *)

(* A read waits in the slot of its kind. *)
SlotsHold ==
    \A l \in Lanes : \A s \in Full(mailbox[l]) :
        ~ IsOperation(mailbox[l].slots[s]) /\ SlotOf[mailbox[l].slots[s].kind] = s

LEMMA HeadOrTail ==
    ASSUME NEW S, NEW s \in Seq(S), s # <<>>
    PROVE  Elements(s) = Elements(Tail(s)) \cup {Head(s)}
<1>1. /\ Tail(s) \in Seq(S) /\ Len(Tail(s)) = Len(s) - 1
      /\ \A i \in 1 .. Len(Tail(s)) : Tail(s)[i] = s[i + 1]
    BY HeadTailProperties
<1>2. DOMAIN s = 1 .. Len(s) /\ Len(s) \in Nat \ {0} /\ DOMAIN Tail(s) = 1 .. Len(Tail(s))
    BY <1>1, LenProperties, EmptySeq
<1>3. ASSUME NEW i \in DOMAIN s PROVE s[i] \in Elements(Tail(s)) \cup {Head(s)}
    <2>1. CASE i = 1
        BY <2>1
    <2>2. CASE i # 1
        <3>1. i - 1 \in 1 .. Len(Tail(s)) /\ Tail(s)[i - 1] = s[(i - 1) + 1] /\ (i - 1) + 1 = i
            BY <1>1, <1>2, <2>2
        <3> QED
            BY <1>2, <3>1 DEF Elements
    <2> QED
        BY <2>1, <2>2
<1> QED
    BY <1>3, TailElements DEF Elements

LEMMA PushKeeps ==
    ASSUME NEW C, NEW m \in MailboxOf(C), NEW c \in C, c # NoCommand,
           IsOperation(c) \/ SlotOf[c.kind] \in Slots
    PROVE  /\ c \in Waiting(Push(m, c))
           /\ \A w \in Waiting(m) :
                 \/ w \in Waiting(Push(m, c))
                 \/ /\ ~ IsOperation(c) /\ SlotOf[c.kind] \in Full(m)
                    /\ w = m.slots[SlotOf[c.kind]]
           /\ \A s \in Slots : \/ Push(m, c).slots[s] = m.slots[s]
                               \/ /\ Push(m, c).slots[s] = c
                                  /\ ~ IsOperation(c) /\ SlotOf[c.kind] = s
<1>1. CASE IsOperation(c)
    <2>1. /\ Append(m.operations, c) \in Seq(C)
          /\ Elements(Append(m.operations, c)) = Elements(m.operations) \cup {c}
        BY AppendElements DEF MailboxOf
    <2>2. Push(m, c).operations = Append(m.operations, c) /\ Push(m, c).slots = m.slots
        BY <1>1 DEF Push, MailboxOf
    <2> QED
        BY <2>1, <2>2 DEF Waiting, Full, Elements
<1>2. CASE ~ IsOperation(c)
    <2> DEFINE s == SlotOf[c.kind]
    <2>1. /\ Push(m, c).operations = m.operations
          /\ Push(m, c).slots = [m.slots EXCEPT ![s] = c]
        BY <1>2 DEF Push, MailboxOf
    <2>2. s \in Slots
        BY <1>2
    <2> HIDE DEF s
    <2>3. Push(m, c).slots[s] = c /\ \A t \in Slots \ {s} : Push(m, c).slots[t] = m.slots[t]
        BY <2>1, <2>2 DEF MailboxOf
    <2> QED
        BY <1>2, <2>1, <2>2, <2>3 DEF Waiting, Full, s
<1> QED
    BY <1>1, <1>2

LEMMA WithoutKeeps ==
    ASSUME NEW C, NEW m \in MailboxOf(C)
    PROVE  /\ PopsOperation(m) =>
                 /\ Waiting(m) \subseteq Waiting(WithoutHead(m)) \cup {Head(m.operations)}
                 /\ WithoutHead(m).slots = m.slots
           /\ \A s \in Slots :
                 /\ Waiting(m) \subseteq Waiting(WithoutSlot(m, s)) \cup {m.slots[s]}
                 /\ \A t \in Slots : WithoutSlot(m, s).slots[t] \in {NoCommand, m.slots[t]}
<1>1. ASSUME PopsOperation(m)
      PROVE  /\ Waiting(m) \subseteq Waiting(WithoutHead(m)) \cup {Head(m.operations)}
             /\ WithoutHead(m).slots = m.slots
    <2>1. m.operations \in Seq(C) /\ m.operations # <<>>
        BY <1>1 DEF MailboxOf, PopsOperation
    <2>2. Elements(m.operations) = Elements(Tail(m.operations)) \cup {Head(m.operations)}
        BY <2>1, HeadOrTail
    <2>3. WithoutHead(m).operations = Tail(m.operations) /\ WithoutHead(m).slots = m.slots
        BY DEF WithoutHead, MailboxOf
    <2> QED
        BY <2>2, <2>3 DEF Waiting, Full, Elements
<1>2. ASSUME NEW s \in Slots
      PROVE  /\ Waiting(m) \subseteq Waiting(WithoutSlot(m, s)) \cup {m.slots[s]}
             /\ \A t \in Slots : WithoutSlot(m, s).slots[t] \in {NoCommand, m.slots[t]}
    <2>1. /\ WithoutSlot(m, s).operations = m.operations
          /\ WithoutSlot(m, s).slots[s] = NoCommand
          /\ \A t \in Slots \ {s} : WithoutSlot(m, s).slots[t] = m.slots[t]
        BY DEF WithoutSlot, MailboxOf
    <2> QED
        BY <2>1 DEF Waiting, Full
<1> QED
    BY <1>1, <1>2

LEMMA HandleKeepsOnItsWay ==
    ASSUME NEW effects, Handle(effects)
    PROVE  OnItsWay \cup Elements(effects) \subseteq OnItsWay'
BY DEF Handle, Free, OnItsWay, Elements

LEMMA HandleAnswerKeepsOnItsWay ==
    ASSUME NEW C, NEW E, LaneTypeOK(C, E), NEW effects, answers # <<>>, HandleAnswer(effects)
    PROVE  /\ Elements(effects) \subseteq OnItsWay'
           /\ OnItsWay \subseteq OnItsWay' \cup {Head(answers).command}
<1>1. /\ outbox = <<>> /\ outbox' = effects /\ answers' = Tail(answers)
      /\ UNCHANGED <<mailbox, executing>>
    BY DEF HandleAnswer, Free
<1>2. answers \in Seq(E)
    BY DEF LaneTypeOK
<1>3. Elements(answers) = Elements(answers)' \cup {Head(answers)}
    BY <1>1, <1>2, HeadOrTail DEF Elements
<1>4. \A i \in DOMAIN answers :
         \/ answers[i].command = Head(answers).command
         \/ \E j \in DOMAIN answers' : answers'[j].command = answers[i].command
    BY <1>3 DEF Elements
<1> QED
    BY <1>1, <1>4 DEF OnItsWay, Elements

LEMMA AnswerKeepsOnItsWay ==
    ASSUME NEW C, NEW E, LaneTypeOK(C, E), NEW l \in Lanes, NEW event \in E,
           executing[l] # NoCommand, event.command = executing[l], Answer(l, event)
    PROVE  OnItsWay \subseteq OnItsWay'
<1>1. /\ answers' = Append(answers, event)
      /\ executing' = [executing EXCEPT ![l] = NoCommand]
      /\ UNCHANGED <<outbox, mailbox>>
    BY DEF Answer
<1>2. answers \in Seq(E) /\ executing \in [Lanes -> C \cup {NoCommand}]
    BY DEF LaneTypeOK
<1>3. Elements(answers)' = Elements(answers) \cup {event}
    BY <1>1, <1>2, AppendElements DEF Elements
<1>4. /\ \A i \in DOMAIN answers : \E j \in DOMAIN answers' :
            answers'[j].command = answers[i].command
      /\ \E j \in DOMAIN answers' : answers'[j].command = executing[l]
    BY <1>3 DEF Elements
<1>5. \A m \in Lanes : m # l => executing'[m] = executing[m]
    BY <1>1, <1>2
<1> QED
    BY <1>1, <1>4, <1>5 DEF OnItsWay

(* Of the commands W one stays on its way, when what is sent to their slots is *)
(* in W itself.                                                               *)
LEMMA ServeKeepsOnItsWay ==
    ASSUME NEW C, NEW E, LaneTypeOK(C, E), Tabled(C), SlotsHold, Serve,
           NoCommand \notin C, NEW W \in SUBSET C, NEW w \in W, w \in OnItsWay,
           \A c \in Elements(outbox) :
               IsOperation(c) \/ c \in W \/ SlotOf[c.kind] # SlotOf[w.kind]
    PROVE  \E v \in W : v \in OnItsWay'
<1>1. /\ outbox \in Seq(C) /\ mailbox \in [Lanes -> MailboxOf(C)]
      /\ executing \in [Lanes -> C \cup {NoCommand}]
    BY DEF LaneTypeOK
<1>2. w # NoCommand
    OBVIOUS
<1>3. CASE Dispatch
    <2> DEFINE c == Head(outbox)
               to == LaneOf[c.kind]
    <2>1. /\ outbox # <<>> /\ outbox' = Tail(outbox)
          /\ mailbox' = [mailbox EXCEPT ![to] = Push(@, c)]
          /\ UNCHANGED <<executing, answers>>
        BY <1>3 DEF Dispatch
    <2>2. /\ c \in C /\ c \in Elements(outbox)
          /\ Elements(outbox) = Elements(outbox)' \cup {c}
        <3>1. /\ c \in C /\ c \in Elements(outbox)
              /\ Elements(outbox) = Elements(Tail(outbox)) \cup {c}
            BY <1>1, <2>1, TailElements, HeadOrTail
        <3>2. Elements(outbox)' = Elements(Tail(outbox))
            BY <2>1 DEF Elements
        <3> QED
            BY <3>1, <3>2
    <2>3. to \in Lanes /\ (IsOperation(c) \/ SlotOf[c.kind] \in Slots) /\ c # NoCommand
        BY <2>2 DEF Tabled
    <2> HIDE DEF c, to
    <2>4. mailbox[to] \in MailboxOf(C) /\ mailbox'[to] = Push(mailbox[to], c)
          /\ \A l \in Lanes \ {to} : mailbox'[l] = mailbox[l]
        BY <1>1, <2>1, <2>3
    <2>5. c \in Waiting(mailbox'[to])
        BY <2>2, <2>3, <2>4, PushKeeps
    <2>6. c \in OnItsWay'
        BY <2>3, <2>5 DEF OnItsWay
    <2>7. CASE w \in Elements(outbox)
        BY <2>2, <2>6, <2>7 DEF OnItsWay, Elements
    <2>8. CASE \E l \in Lanes : w \in Waiting(mailbox[l])
        <3>1. PICK l \in Lanes : w \in Waiting(mailbox[l])
            BY <2>8
        <3>2. CASE w \in Waiting(mailbox'[l])
            BY <3>1, <3>2 DEF OnItsWay
        <3>3. CASE w \notin Waiting(mailbox'[l])
            <4>1. l = to /\ ~ IsOperation(c) /\ SlotOf[c.kind] \in Full(mailbox[to])
                  /\ w = mailbox[to].slots[SlotOf[c.kind]]
                BY <2>2, <2>3, <2>4, <3>1, <3>3, PushKeeps
            <4>2. SlotOf[w.kind] = SlotOf[c.kind]
                BY <2>3, <4>1 DEF SlotsHold
            <4>3. c \in W
                BY <2>2, <4>1, <4>2
            <4> QED
                BY <2>6, <4>3
        <3> QED
            BY <3>2, <3>3
    <2>9. CASE (\E l \in Lanes : w = executing[l]) \/ \E i \in DOMAIN answers : w = answers[i].command
        BY <1>2, <2>1, <2>9 DEF OnItsWay
    <2> QED
        BY <2>7, <2>8, <2>9 DEF OnItsWay, Elements
<1>4. ASSUME NEW l \in Lanes, NEW x \in C \cup {NoCommand},
             executing[l] = NoCommand, executing' = [executing EXCEPT ![l] = x],
             UNCHANGED <<outbox, answers>>,
             \A k \in Lanes \ {l} : mailbox'[k] = mailbox[k],
             Waiting(mailbox[l]) \subseteq Waiting(mailbox'[l]) \cup {x}
      PROVE  w \in OnItsWay'
    <2>1. executing'[l] = x /\ \A k \in Lanes \ {l} : executing'[k] = executing[k]
        BY <1>1, <1>4
    <2>2. CASE w = x
        BY <1>2, <2>1, <2>2 DEF OnItsWay
    <2>3. CASE \E k \in Lanes : w \in Waiting(mailbox[k]) /\ w # x
        <3>1. \E k \in Lanes : w \in Waiting(mailbox'[k])
            BY <1>4, <2>3
        <3> QED
            BY <3>1 DEF OnItsWay
    <2>4. CASE \E k \in Lanes : w = executing[k]
        <3>1. \E k \in Lanes : w = executing'[k]
            BY <1>2, <1>4, <2>1, <2>4
        <3> QED
            BY <1>2, <3>1 DEF OnItsWay
    <2>5. CASE (\E i \in DOMAIN outbox : w = outbox[i]) \/ \E i \in DOMAIN answers : w = answers[i].command
        BY <1>4, <2>5 DEF OnItsWay
    <2> QED
        BY <2>2, <2>3, <2>4, <2>5 DEF OnItsWay
<1>5. ASSUME NEW l \in Lanes, BeginOperation(l)
      PROVE  w \in OnItsWay'
    <2> DEFINE x == Head(mailbox[l].operations)
    <2>1. /\ executing[l] = NoCommand /\ PopsOperation(mailbox[l])
          /\ mailbox' = [mailbox EXCEPT ![l] = WithoutHead(@)]
          /\ executing' = [executing EXCEPT ![l] = x]
          /\ UNCHANGED <<outbox, answers>>
        BY <1>5 DEF BeginOperation
    <2>2. mailbox[l] \in MailboxOf(C)
        BY <1>1
    <2>3. x \in C /\ Waiting(mailbox[l]) \subseteq Waiting(WithoutHead(mailbox[l])) \cup {x}
        BY <2>1, <2>2, WithoutHeadWaiting, WithoutKeeps
    <2> HIDE DEF x
    <2>4. mailbox'[l] = WithoutHead(mailbox[l]) /\ \A k \in Lanes \ {l} : mailbox'[k] = mailbox[k]
        BY <1>1, <2>1
    <2> QED
        BY <1>4, <2>1, <2>3, <2>4
<1>6. ASSUME NEW l \in Lanes, NEW s \in Slots, BeginRead(l, s)
      PROVE  w \in OnItsWay'
    <2> DEFINE x == mailbox[l].slots[s]
    <2>1. /\ executing[l] = NoCommand
          /\ mailbox' = [mailbox EXCEPT ![l] = WithoutSlot(@, s)]
          /\ executing' = [executing EXCEPT ![l] = x]
          /\ UNCHANGED <<outbox, answers>>
        BY <1>6 DEF BeginRead
    <2>2. mailbox[l] \in MailboxOf(C)
        BY <1>1
    <2>3. /\ x \in C \cup {NoCommand}
          /\ Waiting(mailbox[l]) \subseteq Waiting(WithoutSlot(mailbox[l], s)) \cup {x}
        BY <2>2, WithoutKeeps DEF MailboxOf
    <2> HIDE DEF x
    <2>4. mailbox'[l] = WithoutSlot(mailbox[l], s) /\ \A k \in Lanes \ {l} : mailbox'[k] = mailbox[k]
        BY <1>1, <2>1
    <2> QED
        BY <1>4, <2>1, <2>3, <2>4
<1> QED
    BY <1>3, <1>5, <1>6 DEF Serve

LEMMA ServeKeepsSlotsHeld ==
    ASSUME NEW C, NEW E, LaneTypeOK(C, E), Tabled(C), NoCommand \notin C, SlotsHold, Serve
    PROVE  SlotsHold' /\ Elements(outbox)' \subseteq Elements(outbox)
<1>1. outbox \in Seq(C) /\ mailbox \in [Lanes -> MailboxOf(C)]
    BY DEF LaneTypeOK
<1>2. CASE Dispatch
    <2> DEFINE c == Head(outbox)
               to == LaneOf[c.kind]
    <2>1. /\ outbox # <<>> /\ outbox' = Tail(outbox)
          /\ mailbox' = [mailbox EXCEPT ![to] = Push(@, c)]
        BY <1>2 DEF Dispatch
    <2>2. c \in C /\ Elements(outbox)' \subseteq Elements(outbox)
        BY <1>1, <2>1, TailElements DEF Elements
    <2>3. to \in Lanes /\ (IsOperation(c) \/ SlotOf[c.kind] \in Slots) /\ c # NoCommand
        BY <2>2 DEF Tabled
    <2> HIDE DEF c, to
    <2>4. mailbox[to] \in MailboxOf(C) /\ mailbox'[to] = Push(mailbox[to], c)
          /\ \A l \in Lanes \ {to} : mailbox'[l] = mailbox[l]
        BY <1>1, <2>1, <2>3
    <2>5. \A s \in Slots : \/ mailbox'[to].slots[s] = mailbox[to].slots[s]
                           \/ /\ mailbox'[to].slots[s] = c
                              /\ ~ IsOperation(c) /\ SlotOf[c.kind] = s
        BY <2>2, <2>3, <2>4, PushKeeps
    <2>6. \A l \in Lanes, s \in Slots : \/ mailbox'[l].slots[s] = mailbox[l].slots[s]
                                        \/ /\ mailbox'[l].slots[s] = c
                                           /\ ~ IsOperation(c) /\ SlotOf[c.kind] = s
        BY <2>4, <2>5
    <2> QED
        BY <2>2, <2>6 DEF SlotsHold, Full
<1>3. CASE ~ Dispatch
    <2>1. PICK l \in Lanes : BeginOperation(l) \/ \E s \in Slots : BeginRead(l, s)
        BY <1>3 DEF Serve
    <2>2. mailbox[l] \in MailboxOf(C)
        BY <1>1
    <2>3. \A t \in Slots : mailbox'[l].slots[t] \in {NoCommand, mailbox[l].slots[t]}
        BY <1>1, <2>1, <2>2, WithoutKeeps DEF BeginOperation, BeginRead
    <2>4. /\ \A k \in Lanes \ {l} : mailbox'[k] = mailbox[k]
          /\ outbox' = outbox
        BY <1>1, <2>1 DEF BeginOperation, BeginRead
    <2>5. \A k \in Lanes, t \in Slots : mailbox'[k].slots[t] \in {NoCommand, mailbox[k].slots[t]}
        BY <2>3, <2>4
    <2> QED
        BY <2>4, <2>5 DEF SlotsHold, Full, Elements
<1> QED
    BY <1>2, <1>3
=============================================================================
